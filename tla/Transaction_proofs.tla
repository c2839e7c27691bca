------------------------ MODULE Transaction_proofs --------------------------
(***************************************************************************)
(* Proofs about the life of a transaction of the bot: its submission       *)
(* (Submission), for any operations and any number of nodes, and that of   *)
(* the packet it may send (IbcTransfer), for every setting of the timers   *)
(* that leaves room.                                                       *)
(*                                                                         *)
(* A sealed operation reaches the ledger at most once, any operation at    *)
(* most once more than it lost answers, and none again once its outcome    *)
(* was answered; the packet of a transfer outlives the polling for its     *)
(* acknowledgement.                                                        *)
(***************************************************************************)
EXTENDS Submission, IbcTransfer, FiniteSetTheorems, TLAPS

-----------------------------------------------------------------------------
(* Submission: the invariant                                               *)

LEMMA InitHolds == Init => IInv
BY SubmissionAssumption
DEF Init, IInv, TypeOK, Results, SealedOnce, Uniform, Unsigned, Current

\* The loop over the nodes moves between the points of one call only.
LEMMA NodesLoop ==
    ASSUME IInv, pc \in {"account", "broadcast"}, TryNext \/ Escape
    PROVE  /\ client' \in 1..Clients /\ pc' \in {"idle", "account", "broadcast"}
           /\ op' = op
           /\ result' \in [Ops -> Results]
           /\ pc' = "account" => result' = result
           /\ pc' = "broadcast" => pc = "broadcast" \/ op \notin Sealed
           /\ pc' = "broadcast" => result' = result
           /\ op \in Sealed /\ pc' # "idle" => pc' = pc
           /\ pc' = "idle" => result'[op] # "none"
           /\ \A o \in Ops : o # op => result'[o] = result[o]
BY SubmissionAssumption
DEF IInv, TypeOK, TryNext, Escape, RetryAt, Results

LEMMA BeginKeeps == IInv /\ Begin => IInv'
<1> SUFFICES ASSUME IInv, Begin PROVE IInv'
  OBVIOUS
<1>1. TypeOK'
  BY SubmissionAssumption DEF IInv, TypeOK, Begin
<1>2. SealedOnce' /\ Uniform'
  BY DEF IInv, SealedOnce, Uniform, Begin
<1>3. Unsigned'
  BY DEF IInv, TypeOK, Unsigned, Begin
<1>4. Current'
  BY DEF Current, Begin
<1> QED
  BY <1>1, <1>2, <1>3, <1>4 DEF IInv

LEMMA SignKeeps == IInv /\ Sign => IInv'
<1> SUFFICES ASSUME IInv, Sign PROVE IInv'
  OBVIOUS
<1>1. TypeOK'
  BY SubmissionAssumption DEF IInv, TypeOK, Sign
<1>2. SealedOnce' /\ Uniform'
  BY DEF IInv, SealedOnce, Uniform, Sign
<1>3. Unsigned'
  BY DEF IInv, Unsigned, Sign
<1>4. Current'
  BY DEF IInv, Unsigned, Current, Sign
<1> QED
  BY <1>1, <1>2, <1>3, <1>4 DEF IInv

LEMMA NodeRefusesKeeps == IInv /\ NodeRefuses => IInv'
<1> SUFFICES ASSUME IInv, NodeRefuses PROVE IInv'
  OBVIOUS
<1>1. UNCHANGED <<ledger, pool, signed, lost>> /\ pc \in {"account", "broadcast"}
  BY DEF NodeRefuses
<1>2. TryNext \/ Escape
  BY DEF NodeRefuses
<1>3. TypeOK'
  BY <1>1, <1>2, NodesLoop DEF IInv, TypeOK
<1>4. SealedOnce' /\ Uniform'
  BY <1>1 DEF IInv, SealedOnce, Uniform
<1>5. Unsigned'
  BY <1>1, <1>2, NodesLoop, SubmissionAssumption DEF IInv, TypeOK, Unsigned, Ops
<1>6. Current'
  BY <1>1, <1>2, NodesLoop DEF IInv, Current
<1> QED
  BY <1>3, <1>4, <1>5, <1>6 DEF IInv

\* Taking the transaction into a mempool keeps all its copies alike.
LEMMA OfferKeeps ==
    ASSUME IInv, Offer, UNCHANGED <<ledger, signed>>
    PROVE  /\ pool' \subseteq Tx /\ Uniform'
           /\ \A t \in pool' : t.op # op => t \in pool
           /\ op \in Sealed => \A t \in pool' : t.op = op => t.seq = signed
           /\ op \in Sealed => \A i \in DOMAIN ledger : ledger[i].op # op
<1>1. pool' = pool \cup {[op |-> op, seq |-> signed]} /\ signed = Len(ledger)
  BY DEF Offer
<1>2. [op |-> op, seq |-> signed] \in Tx
  BY DEF IInv, TypeOK, Tx
<1>3. op \in Sealed => \A t \in pool : t.op = op => t.seq = signed
  BY DEF IInv, Current, Offer
<1>4. op \in Sealed => \A i \in DOMAIN ledger : ledger[i].op # op
  <2>1. \A i \in DOMAIN ledger : i # signed + 1
    BY <1>1 DEF IInv, TypeOK
  <2> QED
    BY <2>1 DEF IInv, Current, Offer
<1>5. Uniform'
  BY <1>1, <1>2, <1>3, <1>4 DEF IInv, TypeOK, Uniform, Tx
<1> QED
  BY <1>1, <1>2, <1>3, <1>4, <1>5 DEF IInv, TypeOK

LEMMA BroadcastKeeps ==
    IInv /\ (BroadcastAnswered \/ BroadcastAnswerLost) => IInv'
<1> SUFFICES ASSUME IInv, BroadcastAnswered \/ BroadcastAnswerLost PROVE IInv'
  OBVIOUS
<1>1. Offer /\ UNCHANGED <<ledger, signed>> /\ pc = "broadcast" /\ op' = op
  BY DEF BroadcastAnswered, BroadcastAnswerLost, Offer, TryNext, Escape
<1>2. /\ pool' \subseteq Tx /\ Uniform'
      /\ \A t \in pool' : t.op # op => t \in pool
      /\ op \in Sealed => \A t \in pool' : t.op = op => t.seq = signed
      /\ op \in Sealed => \A i \in DOMAIN ledger : ledger[i].op # op
  BY <1>1, OfferKeeps
<1>3. SealedOnce'
  BY <1>1 DEF IInv, SealedOnce
<1>4. CASE BroadcastAnswered
  <2>1. TypeOK'
    BY <1>1, <1>2, <1>4 DEF IInv, TypeOK, BroadcastAnswered
  <2>2. Unsigned'
    BY <1>1, <1>2, <1>4 DEF IInv, Unsigned, BroadcastAnswered
  <2>3. Current'
    BY <1>1, <1>2, <1>4 DEF Current, BroadcastAnswered
  <2> QED
    BY <1>2, <1>3, <2>1, <2>2, <2>3 DEF IInv
<1>5. CASE BroadcastAnswerLost
  <2>1. TryNext \/ Escape
    BY <1>5 DEF BroadcastAnswerLost
  <2>2. lost' \in [Ops -> Nat]
    BY <1>5 DEF IInv, TypeOK, BroadcastAnswerLost
  <2>3. TypeOK'
    BY <1>1, <1>2, <2>1, <2>2, NodesLoop DEF IInv, TypeOK
  <2>4. Unsigned'
    BY <1>1, <1>2, <2>1, NodesLoop, SubmissionAssumption
    DEF IInv, TypeOK, Unsigned, Ops
  <2>5. Current'
    BY <1>1, <1>2, <2>1, NodesLoop DEF IInv, Current
  <2> QED
    BY <1>2, <1>3, <2>3, <2>4, <2>5 DEF IInv
<1> QED
  BY <1>4, <1>5

LEMMA WaitKeeps == IInv /\ (WaitEnds \/ WaitGivesUp) => IInv'
<1> SUFFICES ASSUME IInv, WaitEnds \/ WaitGivesUp PROVE IInv'
  OBVIOUS
<1>1. /\ UNCHANGED <<ledger, pool, op, client, signed, lost>>
      /\ pc = "wait" /\ pc' = "idle"
      /\ \E r \in Results \ {"none"} : result' = [result EXCEPT ![op] = r]
  BY DEF WaitEnds, WaitGivesUp, Results
<1>2. TypeOK'
  BY <1>1 DEF IInv, TypeOK
<1>3. SealedOnce' /\ Uniform'
  BY <1>1 DEF IInv, SealedOnce, Uniform
<1>4. Unsigned'
  BY <1>1, SubmissionAssumption DEF IInv, TypeOK, Unsigned, Ops
<1>5. Current'
  BY <1>1 DEF Current
<1> QED
  BY <1>2, <1>3, <1>4, <1>5 DEF IInv

LEMMA IncludeKeeps == IInv /\ Include => IInv'
<1> SUFFICES ASSUME IInv, Include PROVE IInv'
  OBVIOUS
<1>1. PICK t \in pool, ok \in BOOLEAN :
        /\ t.seq = Len(ledger)
        /\ ledger' = Append(ledger, [op |-> t.op, ok |-> ok])
        /\ pool' = {u \in pool : u.seq > t.seq}
        /\ UNCHANGED <<op, pc, client, signed, lost, result>>
  BY DEF Include
<1>2. ledger \in Seq(Entry) /\ t \in Tx
  BY DEF IInv, TypeOK
<1>3. [op |-> t.op, ok |-> ok] \in Entry
  BY <1>2 DEF Tx, Entry
<1>4. /\ ledger' \in Seq(Entry) /\ Len(ledger') = Len(ledger) + 1
      /\ \A i \in DOMAIN ledger : ledger'[i] = ledger[i]
      /\ ledger'[Len(ledger) + 1].op = t.op
  BY <1>1, <1>2, <1>3
<1>5. /\ DOMAIN ledger = 1..Len(ledger) /\ Len(ledger) \in Nat
      /\ DOMAIN ledger' = 1..(Len(ledger) + 1)
  BY <1>2, <1>4
<1>6. TypeOK'
  BY <1>1, <1>4 DEF IInv, TypeOK
<1>7. t.op \in Sealed => \A i \in DOMAIN ledger : ledger[i].op # t.op
  BY DEF IInv, Uniform
<1>8. SealedOnce'
  BY <1>4, <1>5, <1>7 DEF IInv, SealedOnce
<1>9. Uniform'
  <2>1. \A u \in pool' : u \in pool /\ u.seq >= Len(ledger') /\ u.seq # t.seq
    BY <1>1, <1>4, <1>5 DEF IInv, TypeOK, Tx
  <2> QED
    BY <1>4, <1>5, <2>1 DEF IInv, Uniform
<1>10. Unsigned'
  <2>1. \A o \in Ops : (\A u \in pool : u.op # o) /\ (\A i \in DOMAIN ledger : ledger[i].op # o)
           => (\A u \in pool' : u.op # o) /\ (\A i \in DOMAIN ledger' : ledger'[i].op # o)
    BY <1>1, <1>4, <1>5
  <2> QED
    BY <1>1, <2>1 DEF IInv, TypeOK, Unsigned, Ops
<1>11. Current'
  BY <1>1, <1>4, <1>5 DEF IInv, Current
<1> QED
  BY <1>6, <1>8, <1>9, <1>10, <1>11 DEF IInv

LEMMA EvictKeeps == IInv /\ Evict => IInv'
BY DEF Evict, IInv, TypeOK, SealedOnce, Uniform, Unsigned, Current

LEMMA StepKeeps == IInv /\ [Next]_vars => IInv'
<1> SUFFICES ASSUME IInv, [Next]_vars PROVE IInv'
  OBVIOUS
<1>1. CASE UNCHANGED vars
  BY <1>1 DEF IInv, TypeOK, SealedOnce, Uniform, Unsigned, Current, vars
<1>2. CASE Next
  BY <1>2, BeginKeeps, SignKeeps, NodeRefusesKeeps, BroadcastKeeps, WaitKeeps,
     IncludeKeeps, EvictKeeps
  DEF Next, Bot
<1> QED
  BY <1>1, <1>2

-----------------------------------------------------------------------------
(* Counting                                                                *)

LEMMA CountedAtFirst == Init => Counted
<1> SUFFICES ASSUME Init, NEW o \in Ops
             PROVE  /\ IsFiniteSet(Places(o))
                    /\ Cardinality(Places(o)) <= lost[o]
                                 + (IF Accepted(o) THEN 1 ELSE 0)
  BY DEF Counted
<1>1. Places(o) = {}
  BY DEF Init, Places, Landings
<1>2. lost[o] = 0
  BY DEF Init
<1> QED
  BY <1>1, <1>2, FS_EmptySet

\* An operation that has no new place, and neither forgets a lost answer nor
\* the one it got, is counted as before.
LEMMA NoMorePlaces ==
    ASSUME IInv, Counted, NEW o \in Ops,
           Places(o)' \subseteq Places(o),
           lost'[o] = lost[o], Accepted(o) => Accepted(o)'
    PROVE  /\ IsFiniteSet(Places(o)')
           /\ Cardinality(Places(o)') <= lost'[o]
                                 + (IF Accepted(o)' THEN 1 ELSE 0)
<1>1. IsFiniteSet(Places(o))
      /\ Cardinality(Places(o)) <= lost[o] + (IF Accepted(o) THEN 1 ELSE 0)
  BY DEF Counted
<1>2. IsFiniteSet(Places(o)') /\ Cardinality(Places(o)') <= Cardinality(Places(o))
  BY <1>1, FS_Subset
<1>3. Cardinality(Places(o)) \in Nat /\ Cardinality(Places(o)') \in Nat
  BY <1>1, <1>2, FS_CardinalityType
<1>4. lost[o] \in Nat
  BY DEF IInv, TypeOK
<1> QED
  BY <1>1, <1>2, <1>3, <1>4

\* A broadcast may take one more place, which its answer or the loss of it
\* pays for.
LEMMA OneMorePlace ==
    ASSUME IInv, Counted, NEW o \in Ops, NEW place,
           Places(o)' \subseteq Places(o) \cup {place}, ~Accepted(o),
           \/ lost'[o] = lost[o] + 1
           \/ lost'[o] = lost[o] /\ Accepted(o)'
    PROVE  /\ IsFiniteSet(Places(o)')
           /\ Cardinality(Places(o)') <= lost'[o]
                                 + (IF Accepted(o)' THEN 1 ELSE 0)
<1>1. IsFiniteSet(Places(o)) /\ Cardinality(Places(o)) <= lost[o] + 0
  BY DEF Counted
<1>2. /\ IsFiniteSet(Places(o) \cup {place})
      /\ Cardinality(Places(o)) \in Nat
      /\ Cardinality(Places(o) \cup {place}) <= Cardinality(Places(o)) + 1
  <2>1. Cardinality(Places(o)) \in Nat
    BY <1>1, FS_CardinalityType
  <2>2. /\ IsFiniteSet(Places(o) \cup {place})
        /\ \/ Cardinality(Places(o) \cup {place}) = Cardinality(Places(o))
           \/ Cardinality(Places(o) \cup {place}) = Cardinality(Places(o)) + 1
    BY <1>1, FS_AddElement
  <2> QED
    BY <2>1, <2>2
<1>3. /\ IsFiniteSet(Places(o)')
      /\ Cardinality(Places(o)') <= Cardinality(Places(o) \cup {place})
  BY <1>2, FS_Subset
<1>4. /\ Cardinality(Places(o)') \in Nat
      /\ Cardinality(Places(o) \cup {place}) \in Nat
  BY <1>2, <1>3, FS_CardinalityType
<1>5. lost[o] \in Nat
  BY DEF IInv, TypeOK
<1> QED
  BY <1>1, <1>2, <1>3, <1>4, <1>5

LEMMA BotCounted == IInv /\ Counted /\ Bot => Counted'
<1> SUFFICES ASSUME IInv, Counted, Bot, NEW o \in Ops
             PROVE  /\ IsFiniteSet(Places(o)')
                    /\ Cardinality(Places(o)') <= lost'[o]
                                 + (IF Accepted(o)' THEN 1 ELSE 0)
  BY DEF Counted
<1>1. CASE Begin \/ Sign
  <2>1. Places(o)' = Places(o) /\ lost' = lost
    BY <1>1 DEF Begin, Sign, Places, Landings
  <2>2. Accepted(o) => Accepted(o)'
    BY <1>1 DEF Begin, Sign, Accepted
  <2> QED
    BY <2>1, <2>2, NoMorePlaces
<1>2. CASE NodeRefuses
  <2>1. Places(o)' = Places(o) /\ lost' = lost
    BY <1>2 DEF NodeRefuses, Places, Landings
  <2>2. Accepted(o) => Accepted(o)'
    BY <1>2, NodesLoop DEF NodeRefuses, Accepted, IInv, Unsigned
  <2> QED
    BY <2>1, <2>2, NoMorePlaces
<1>3. CASE BroadcastAnswered \/ BroadcastAnswerLost
  <2>1. /\ ledger' = ledger /\ pc = "broadcast" /\ op' = op
        /\ pool' = pool \cup {[op |-> op, seq |-> signed]}
    BY <1>3 DEF BroadcastAnswered, BroadcastAnswerLost, Offer, TryNext, Escape
  <2>2. CASE o # op
    <3>1. Places(o)' = Places(o)
      BY <2>1, <2>2 DEF Places, Landings
    <3>2. lost'[o] = lost[o]
      BY <1>3, <2>2 DEF BroadcastAnswered, BroadcastAnswerLost, IInv, TypeOK
    <3>3. Accepted(o) => Accepted(o)'
      <4>1. CASE BroadcastAnswered
        BY <2>1, <2>2, <4>1 DEF BroadcastAnswered, Accepted
      <4>2. CASE BroadcastAnswerLost
        BY <2>1, <2>2, <4>2, NodesLoop DEF BroadcastAnswerLost, Accepted
      <4> QED
        BY <1>3, <4>1, <4>2
    <3> QED
      BY <3>1, <3>2, <3>3, NoMorePlaces
  <2>3. CASE o = op
    <3>1. Places(o)' \subseteq Places(o) \cup {signed + 1}
      BY <2>1, <2>3 DEF Places, Landings
    <3>2. ~Accepted(o)
      BY <2>1, <2>3 DEF Accepted, IInv, Unsigned
    <3>3. \/ lost'[o] = lost[o] + 1
          \/ lost'[o] = lost[o] /\ Accepted(o)'
      <4>1. CASE BroadcastAnswered
        BY <2>1, <2>3, <4>1 DEF BroadcastAnswered, Accepted
      <4>2. CASE BroadcastAnswerLost
        BY <2>1, <2>3, <4>2 DEF BroadcastAnswerLost, IInv, TypeOK
      <4> QED
        BY <1>3, <4>1, <4>2
    <3> QED
      BY <3>1, <3>2, <3>3, OneMorePlace
  <2> QED
    BY <2>2, <2>3
<1>4. CASE WaitEnds \/ WaitGivesUp
  <2>1. Places(o)' = Places(o) /\ lost' = lost
    BY <1>4 DEF WaitEnds, WaitGivesUp, Places, Landings
  <2>2. Accepted(o) => Accepted(o)'
    BY <1>4 DEF WaitEnds, WaitGivesUp, Accepted, IInv, TypeOK
  <2> QED
    BY <2>1, <2>2, NoMorePlaces
<1> QED
  BY <1>1, <1>2, <1>3, <1>4 DEF Bot

LEMMA ChainCounted == IInv /\ Counted /\ (Include \/ Evict) => Counted'
<1> SUFFICES ASSUME IInv, Counted, Include \/ Evict, NEW o \in Ops
             PROVE  /\ IsFiniteSet(Places(o)')
                    /\ Cardinality(Places(o)') <= lost'[o]
                                 + (IF Accepted(o)' THEN 1 ELSE 0)
  BY DEF Counted
<1>1. lost' = lost /\ (Accepted(o) => Accepted(o)')
  BY DEF Include, Evict, Accepted
<1>2. CASE Include
  <2>1. PICK t \in pool, ok \in BOOLEAN :
          /\ t.seq = Len(ledger)
          /\ ledger' = Append(ledger, [op |-> t.op, ok |-> ok])
          /\ pool' = {u \in pool : u.seq > t.seq}
    BY <1>2 DEF Include
  <2>2. ledger \in Seq(Entry) /\ [op |-> t.op, ok |-> ok] \in Entry
    BY DEF IInv, TypeOK, Tx, Entry
  <2>3. /\ DOMAIN ledger' = 1..(Len(ledger) + 1) /\ DOMAIN ledger = 1..Len(ledger)
        /\ \A i \in DOMAIN ledger : ledger'[i] = ledger[i]
        /\ ledger'[Len(ledger) + 1].op = t.op
        /\ Len(ledger) \in Nat
    BY <2>1, <2>2
  <2>4. Landings(o)' \subseteq Landings(o) \cup {Len(ledger) + 1}
    BY <2>3 DEF Landings
  <2>5. Len(ledger) + 1 \in Landings(o)' => Len(ledger) + 1 \in Places(o)
    BY <2>1, <2>3 DEF Landings, Places
  <2>6. Places(o)' \subseteq Places(o)
    BY <2>1, <2>4, <2>5 DEF Places
  <2> QED
    BY <1>1, <2>6, NoMorePlaces
<1>3. CASE Evict
  <2>1. Places(o)' \subseteq Places(o)
    BY <1>3 DEF Evict, Places, Landings
  <2> QED
    BY <1>1, <2>1, NoMorePlaces
<1> QED
  BY <1>2, <1>3

-----------------------------------------------------------------------------
(* Answers are final                                                       *)

LEMMA SettledAtFirst == Init => Settled
BY DEF Init, Settled

LEMMA BotSettled == IInv /\ Settled /\ Bot => Settled'
<1> SUFFICES ASSUME IInv, Settled, Bot PROVE Settled'
  OBVIOUS
<1>1. CASE Begin
  BY <1>1 DEF Settled, Answered, Begin
<1>2. CASE Sign
  BY <1>2 DEF Settled, Answered, Sign
<1>3. CASE NodeRefuses
  <2>1. \A t \in pool : ~Answered(t.op)'
    <3> SUFFICES ASSUME NEW t \in pool PROVE ~Answered(t.op)'
      OBVIOUS
    <3>1. t.op \in Ops /\ ~Answered(t.op)
      BY DEF IInv, TypeOK, Tx, Settled
    <3> QED
      BY <1>3, <3>1 DEF NodeRefuses, TryNext, Escape, IInv, TypeOK, Answered
  <2>2. /\ UNCHANGED <<pool, ledger, op, signed>>
        /\ pc' \in {"broadcast", "wait"} => pc \in {"broadcast", "wait"}
    BY <1>3, SubmissionAssumption
    DEF NodeRefuses, TryNext, Escape, RetryAt, IInv, TypeOK
  <2> QED
    BY <2>1, <2>2 DEF Settled
<1>4. CASE BroadcastAnswered \/ BroadcastAnswerLost
  <2>1. /\ UNCHANGED <<ledger, op, signed>>
        /\ pc = "broadcast" /\ signed = Len(ledger)
        /\ pool' = pool \cup {[op |-> op, seq |-> signed]}
    BY <1>4 DEF BroadcastAnswered, BroadcastAnswerLost, Offer, TryNext, Escape
  <2>2. result[op] = "none"
    BY <2>1 DEF IInv, Unsigned
  <2>3. \A t \in pool' : t.seq <= Len(ledger) /\ (t.op = op => t.seq <= signed)
    BY <2>1 DEF Settled, IInv, TypeOK
  <2>4. \A t \in pool' : t.op \in Ops /\ ~Answered(t.op)
    BY <2>1, <2>2 DEF Settled, Answered, IInv, TypeOK, Tx
  <2>5. \A t \in pool' : ~Answered(t.op)'
    <3> SUFFICES ASSUME NEW t \in pool' PROVE ~Answered(t.op)'
      OBVIOUS
    <3>1. result' = result \/ result' = [result EXCEPT ![op] = "raised"]
      BY <1>4 DEF BroadcastAnswered, BroadcastAnswerLost, TryNext, Escape
    <3> QED
      BY <2>4, <3>1 DEF IInv, TypeOK, Answered
  <2> QED
    BY <2>1, <2>3, <2>5 DEF Settled
<1>5. CASE WaitEnds
  <2>1. /\ UNCHANGED <<ledger, pool>> /\ pc = "wait" /\ pc' = "idle"
        /\ signed + 1 \in DOMAIN ledger
        /\ \A o \in Ops : o # op => result'[o] = result[o]
    BY <1>5 DEF WaitEnds, Landed, IInv, TypeOK
  <2>2. \A t \in pool : t.op # op
    <3> SUFFICES ASSUME NEW t \in pool, t.op = op PROVE FALSE
      OBVIOUS
    <3>1. t.seq <= signed
      BY <2>1 DEF Settled
    <3>2. t.seq >= Len(ledger) /\ t.seq \in Nat /\ signed \in Nat
      BY DEF IInv, TypeOK, Uniform, Tx
    <3>3. signed + 1 <= Len(ledger) /\ Len(ledger) \in Nat
      BY <2>1 DEF IInv, TypeOK
    <3> QED
      BY <3>1, <3>2, <3>3
  <2>3. \A t \in pool : t.op \in Ops
    BY DEF IInv, TypeOK, Tx
  <2> QED
    BY <2>1, <2>2, <2>3 DEF Settled, Answered
<1>6. CASE WaitGivesUp
  BY <1>6 DEF WaitGivesUp, Settled, Answered, IInv, TypeOK, Tx
<1> QED
  BY <1>1, <1>2, <1>3, <1>4, <1>5, <1>6 DEF Bot

LEMMA ChainSettled == IInv /\ Settled /\ (Include \/ Evict) => Settled'
<1> SUFFICES ASSUME IInv, Settled, Include \/ Evict PROVE Settled'
  OBVIOUS
<1>1. CASE Include
  <2>1. pool' = {}
    <3>1. PICK t \in pool : t.seq = Len(ledger) /\ pool' = {u \in pool : u.seq > t.seq}
      BY <1>1 DEF Include
    <3>2. \A u \in pool : u.seq <= Len(ledger) /\ u.seq \in Nat
      BY DEF Settled, IInv, TypeOK, Tx
    <3> QED
      BY <3>1, <3>2
  <2> QED
    BY <2>1 DEF Settled
<1>2. CASE Evict
  BY <1>2 DEF Evict, Settled, Answered
<1> QED
  BY <1>1, <1>2

LEMMA SettledStep == IInv /\ Settled /\ [Next]_vars => Settled'
<1>1. Settled /\ UNCHANGED vars => Settled'
  BY DEF Settled, Answered, vars
<1> QED
  BY <1>1, BotSettled, ChainSettled DEF Next

\* Only the inclusion of something pending adds a landing.
LEMMA NoNewLanding ==
    ASSUME IInv, Settled, [Next]_vars, NEW o \in Ops, Answered(o)
    PROVE  Landings(o)' = Landings(o)
<1>1. CASE Include
  <2>1. PICK t \in pool, ok \in BOOLEAN :
           ledger' = Append(ledger, [op |-> t.op, ok |-> ok])
    BY <1>1 DEF Include
  <2>2. t.op # o /\ t \in Tx /\ ledger \in Seq(Entry)
    BY DEF Settled, IInv, TypeOK
  <2>3. [op |-> t.op, ok |-> ok] \in Entry
    BY <2>2 DEF Tx, Entry
  <2>4. /\ DOMAIN ledger' = 1..(Len(ledger) + 1) /\ DOMAIN ledger = 1..Len(ledger)
        /\ \A i \in DOMAIN ledger : ledger'[i] = ledger[i]
        /\ ledger'[Len(ledger) + 1].op = t.op
        /\ Len(ledger) \in Nat
    BY <2>1, <2>2, <2>3
  <2> QED
    BY <2>2, <2>4 DEF Landings
<1>2. CASE ~Include
  <2>1. ledger' = ledger
    BY <1>2 DEF Next, Bot, vars, Begin, Sign, NodeRefuses, BroadcastAnswered,
                BroadcastAnswerLost, WaitEnds, WaitGivesUp, Evict
  <2> QED
    BY <2>1 DEF Landings
<1> QED
  BY <1>1, <1>2

-----------------------------------------------------------------------------
(* Submission: theorems                                                    *)

\* The strengthened invariant holds in every reachable state.
THEOREM Invariance == Spec => []IInv
<1>1. Init => IInv
  BY InitHolds
<1>2. IInv /\ [Next]_vars => IInv'
  BY StepKeeps
<1> QED
  BY <1>1, <1>2, PTL DEF Spec

\* The variables keep their types.
THEOREM TypeCorrect == Spec => []TypeOK
<1>1. IInv => TypeOK
  BY DEF IInv
<1> QED
  BY <1>1, Invariance, PTL

\* For any number of nodes and operations, a transfer or an atomic batch
\* happens at most once, because every node is offered the same transaction.
THEOREM SealedAtMostOnce == Spec => []SealedOnce
<1>1. IInv => SealedOnce
  BY DEF IInv
<1> QED
  BY <1>1, Invariance, PTL

\* For any number of nodes and operations, nothing happens more often than
\* answers to it were lost, plus one.
THEOREM RepeatsNeedLoss == Spec => []RepeatsNeedLostAnswers
<1>1. Init => IInv /\ Counted
  BY InitHolds, CountedAtFirst
<1>2. IInv /\ Counted /\ [Next]_vars => IInv' /\ Counted'
  <2>1. CASE UNCHANGED vars
    <3>1. Counted <=> Counted'
      BY <2>1 DEF Counted, Places, Landings, Accepted, vars
    <3> QED
      BY <3>1, StepKeeps
  <2> QED
    BY <2>1, StepKeeps, BotCounted, ChainCounted DEF Next
<1>3. IInv /\ Counted => RepeatsNeedLostAnswers
  <2> SUFFICES ASSUME IInv, Counted, NEW o \in Ops
               PROVE  Cardinality(Landings(o)) <= lost[o] + 1
    BY DEF RepeatsNeedLostAnswers
  <2>1. /\ IsFiniteSet(Places(o))
        /\ Cardinality(Places(o)) <= lost[o] + (IF Accepted(o) THEN 1 ELSE 0)
        /\ Landings(o) \subseteq Places(o)
    BY DEF Counted, Places
  <2>2. /\ IsFiniteSet(Landings(o))
        /\ Cardinality(Landings(o)) <= Cardinality(Places(o))
    BY <2>1, FS_Subset
  <2>3. Cardinality(Landings(o)) \in Nat /\ Cardinality(Places(o)) \in Nat
    BY <2>1, <2>2, FS_CardinalityType
  <2>4. lost[o] \in Nat
    BY DEF IInv, TypeOK
  <2> QED
    BY <2>1, <2>2, <2>3, <2>4
<1> QED
  BY <1>1, <1>2, <1>3, PTL DEF Spec

\* For any number of nodes and operations, an operation whose outcome the bot
\* was told never happens again.
THEOREM AnsweredFinal == Spec => AnsweredIsFinal
<1>1. Init => IInv /\ Settled
  BY InitHolds, SettledAtFirst
<1>2. IInv /\ Settled /\ [Next]_vars => IInv' /\ Settled'
  BY StepKeeps, SettledStep
<1>3. IInv /\ Settled /\ [Next]_vars =>
         [\A o \in Ops : Answered(o) => Landings(o)' = Landings(o)]_vars
  BY NoNewLanding
<1> QED
  BY <1>1, <1>2, <1>3, PTL DEF Spec, AnsweredIsFinal

-----------------------------------------------------------------------------
(* Submission: every call advances                                         *)

LEMMA StepsLeftBound == IInv => StepsLeft \in 0..(2 * Clients + 1)
<1> SUFFICES ASSUME IInv PROVE StepsLeft \in 0..(2 * Clients + 1)
  OBVIOUS
<1>1. Clients \in Nat \ {0} /\ client \in 1..Clients
  BY SubmissionAssumption DEF IInv, TypeOK
<1>2. pc \in {"idle", "account", "broadcast", "wait"}
  BY DEF IInv, TypeOK
<1> QED
  BY <1>1, <1>2 DEF StepsLeft

\* A failed query or broadcast leaves fewer nodes, or ends the call.
LEMMA NextNodeAdvances ==
    ASSUME IInv, pc \in {"account", "broadcast"}, TryNext \/ Escape
    PROVE  StepsLeft' < StepsLeft
<1>1. Clients \in Nat \ {0} /\ client \in 1..Clients
  BY SubmissionAssumption DEF IInv, TypeOK
<1>2. CASE pc' = "idle"
  BY <1>1, <1>2 DEF StepsLeft
<1>3. CASE pc' # "idle"
  <2>1. /\ client < Clients /\ client' = client + 1 /\ op' = op
        /\ pc' = IF op \in Sealed THEN pc ELSE "account"
    BY <1>3 DEF TryNext, Escape, RetryAt
  <2>2. CASE op \in Sealed
    BY <1>1, <2>1, <2>2 DEF StepsLeft
  <2>3. CASE op \notin Sealed
    BY <1>1, <2>1, <2>3 DEF StepsLeft
  <2> QED
    BY <2>2, <2>3
<1> QED
  BY <1>2, <1>3

LEMMA BotAdvances ==
    ASSUME IInv, pc # "idle", Bot
    PROVE  StepsLeft' < StepsLeft
<1>1. Clients \in Nat \ {0} /\ client \in 1..Clients
  BY SubmissionAssumption DEF IInv, TypeOK
<1>2. CASE Sign
  <2>1. /\ pc = "account" /\ pc' = "broadcast" /\ op' = op
        /\ client' = IF op \in Sealed THEN 1 ELSE client
    BY <1>2 DEF Sign
  <2>2. CASE op \in Sealed
    BY <1>1, <2>1, <2>2 DEF StepsLeft
  <2>3. CASE op \notin Sealed
    BY <1>1, <2>1, <2>3 DEF StepsLeft
  <2> QED
    BY <2>2, <2>3
<1>3. CASE NodeRefuses \/ BroadcastAnswerLost
  <2>1. pc \in {"account", "broadcast"} /\ (TryNext \/ Escape)
    BY <1>3 DEF NodeRefuses, BroadcastAnswerLost, Offer
  <2> QED
    BY <2>1, NextNodeAdvances
<1>4. CASE BroadcastAnswered
  <2>1. pc = "broadcast" /\ pc' = "wait"
    BY <1>4 DEF BroadcastAnswered, Offer
  <2> QED
    BY <1>1, <2>1 DEF StepsLeft
<1>5. CASE WaitEnds \/ WaitGivesUp
  BY <1>5 DEF WaitEnds, WaitGivesUp, StepsLeft
<1> QED
  BY <1>2, <1>3, <1>4, <1>5 DEF Bot, Begin

\* For any number of nodes, whatever they and the chain do, a call takes no more
\* than two steps for each node and one: each of its steps leaves it fewer.
THEOREM CallsAreBounded == Spec => CallAdvances
<1> DEFINE A == /\ StepsLeft' \in 0..(2 * Clients + 1)
                /\ pc # "idle" /\ Bot => StepsLeft' < StepsLeft
                /\ pc # "idle" /\ ~Bot => StepsLeft' = StepsLeft
<1>1. IInv /\ IInv' /\ [Next]_vars => [A]_vars
  <2> SUFFICES ASSUME IInv, IInv', Next PROVE A
    OBVIOUS
  <2>1. StepsLeft' \in 0..(2 * Clients + 1)
    <3>1. (IInv => StepsLeft \in 0..(2 * Clients + 1))'
      BY StepsLeftBound, PTL
    <3> QED
      BY <3>1
  <2>2. pc # "idle" /\ Bot => StepsLeft' < StepsLeft
    BY BotAdvances
  <2>3. ~Bot => StepsLeft' = StepsLeft
    BY DEF Next, Include, Evict, StepsLeft
  <2> QED
    BY <2>1, <2>2, <2>3
<1> QED
  BY Invariance, <1>1, PTL DEF Spec, CallAdvances

-----------------------------------------------------------------------------
(* IbcTransfer: the invariant                                              *)

LEMMA TransferInitHolds == TransferInit => TransferInv
BY TimerAssumption
DEF TransferInit, TransferInv, TransferTypeOK, Timers, PacketOutlivesPolling,
    Polling, Ended

LEMMA SendingKeeps ==
    TransferInv /\ (FindDenom \/ NoDenom \/ NoRoute \/ Create \/ Refused
                    \/ Submitted \/ SubmittedUnseen) => TransferInv'
<1> SUFFICES ASSUME TransferInv, \/ FindDenom \/ NoDenom \/ NoRoute \/ Create
                                 \/ Refused \/ Submitted \/ SubmittedUnseen
             PROVE  TransferInv'
  OBVIOUS
<1> USE TimerAssumption DEF Polling, Ended
<1>1. CASE Create
  BY <1>1 DEF TransferInv, TransferTypeOK, Timers, PacketOutlivesPolling,
              Create, Expiry
<1>2. CASE FindDenom \/ NoDenom \/ NoRoute \/ Refused
  BY <1>2 DEF TransferInv, TransferTypeOK, Timers, PacketOutlivesPolling,
              FindDenom, NoDenom, NoRoute, Refused
<1>3. CASE Submitted
  BY <1>3 DEF TransferInv, TransferTypeOK, Timers, PacketOutlivesPolling,
              Submitted
<1>4. CASE SubmittedUnseen
  BY <1>4 DEF TransferInv, TransferTypeOK, Timers, PacketOutlivesPolling,
              SubmittedUnseen
<1> QED
  BY <1>1, <1>2, <1>3, <1>4

LEMMA PollKeeps ==
    TransferInv /\ (Loop \/ GiveUp \/ Wake \/ AckFound \/ AckNotFound
                    \/ QueryRaises \/ Cancel) => TransferInv'
<1> SUFFICES ASSUME TransferInv, \/ Loop \/ GiveUp \/ Wake \/ AckFound
                                 \/ AckNotFound \/ QueryRaises \/ Cancel
             PROVE  TransferInv'
  OBVIOUS
<1>1. TransferTypeOK'
  BY TimerAssumption DEF TransferInv, TransferTypeOK, Polling, Ended, Loop, GiveUp,
     Wake, AckFound, AckNotFound, QueryRaises, Cancel
<1>2. Timers'
  BY TimerAssumption DEF TransferInv, TransferTypeOK, Timers, Polling, Ended, Loop,
     GiveUp, Wake, AckFound, AckNotFound, QueryRaises, Cancel
<1>3. PacketOutlivesPolling'
  BY DEF TransferInv, PacketOutlivesPolling, Polling, Loop, GiveUp, Wake,
     AckFound, AckNotFound, QueryRaises, Cancel
<1> QED
  BY <1>1, <1>2, <1>3 DEF TransferInv

LEMMA ChannelKeeps ==
    TransferInv /\ (Deliver \/ Refund \/ ReverseArrives) => TransferInv'
<1> SUFFICES ASSUME TransferInv, Deliver \/ Refund \/ ReverseArrives PROVE TransferInv'
  OBVIOUS
<1>1. CASE Deliver
  BY <1>1 DEF TransferInv, TransferTypeOK, Timers, PacketOutlivesPolling,
              Polling, Deliver
<1>2. CASE Refund
  BY <1>2 DEF TransferInv, TransferTypeOK, Timers, PacketOutlivesPolling,
              Polling, Refund
<1>3. CASE ReverseArrives
  BY <1>3 DEF TransferInv, TransferTypeOK, Timers, PacketOutlivesPolling,
              Polling, ReverseArrives
<1> QED
  BY <1>1, <1>2, <1>3

LEMMA TickKeeps == TransferInv /\ Tick => TransferInv'
<1> SUFFICES ASSUME TransferInv, Tick PROVE TransferInv'
  OBVIOUS
<1>1. TransferTypeOK' /\ Timers'
  BY TimerAssumption DEF TransferInv, TransferTypeOK, Timers, Polling, Tick
<1>2. stage' \in Polling => now' < expires'
  BY <1>1, TimerAssumption DEF TransferTypeOK, Timers, Polling
<1>3. PacketOutlivesPolling'
  BY <1>2 DEF TransferInv, PacketOutlivesPolling, Tick
<1> QED
  BY <1>1, <1>3 DEF TransferInv

LEMMA TransferStepKeeps ==
    TransferInv /\ [TransferNext]_transferVars => TransferInv'
<1> SUFFICES ASSUME TransferInv, [TransferNext]_transferVars PROVE TransferInv'
  OBVIOUS
<1>1. CASE UNCHANGED transferVars
  BY <1>1 DEF TransferInv, TransferTypeOK, Timers, PacketOutlivesPolling,
              transferVars
<1>2. CASE TransferNext
  BY <1>2, SendingKeeps, PollKeeps, ChannelKeeps, TickKeeps
  DEF TransferNext, Transferring
<1> QED
  BY <1>1, <1>2

-----------------------------------------------------------------------------
(* IbcTransfer: theorems                                                   *)

\* The strengthened invariant, with the bounds of the timers at each point.
THEOREM TransferInvariance == TransferSpec => []TransferInv
<1>1. TransferInit => TransferInv
  BY TransferInitHolds
<1>2. TransferInv /\ [TransferNext]_transferVars => TransferInv'
  BY TransferStepKeeps
<1> QED
  BY <1>1, <1>2, PTL DEF TransferSpec

\* The variables keep their types.
THEOREM TransferTypeCorrect == TransferSpec => []TransferTypeOK
<1>1. TransferInv => TransferTypeOK
  BY DEF TransferInv
<1> QED
  BY <1>1, TransferInvariance, PTL

\* For all timers with SendTime + TransferTimeout + PollInterval + QueryTime
\* below PacketLife, the bot stops polling before its packet can time out.
THEOREM PacketOutlives == TransferSpec => []PacketOutlivesPolling
<1>1. TransferInv => PacketOutlivesPolling
  BY DEF TransferInv
<1> QED
  BY <1>1, TransferInvariance, PTL

\* Every step of the polling takes some of the time left or goes on in the loop.
LEMMA PatienceShrinks ==
    ASSUME TransferInv, TransferNext, {stage, stage'} \subseteq Polling
    PROVE  /\ Patience \in Nat /\ Patience' <= Patience
           /\ Transferring \/ Tick => Patience' < Patience
<1>1. /\ now \in Nat /\ due \in Nat /\ deadline \in Nat
      /\ PollInterval \in Nat /\ PollInterval > 0 /\ QueryTime \in Nat
  BY TimerAssumption DEF TransferInv, TransferTypeOK
<1>2. Patience \in Nat
  <2>1. /\ stage = "loop" => now <= deadline + PollInterval + QueryTime
        /\ stage = "sleep" => now <= due /\ due <= deadline + PollInterval
        /\ stage = "query" =>
              now <= due /\ due <= deadline + PollInterval + QueryTime
    BY DEF TransferInv, Timers
  <2> QED
    BY <1>1, <2>1 DEF Patience, Polling
<1>3. CASE Transferring
  <2>1. Loop \/ Wake \/ AckNotFound
    BY <1>3 DEF Transferring, Polling, FindDenom, NoDenom, NoRoute, Create,
       Refused, Submitted, SubmittedUnseen, GiveUp, AckFound, QueryRaises, Cancel
  <2>2. Patience' < Patience /\ Patience' \in Int
    <3>1. CASE Loop
      BY <1>1, <3>1 DEF Loop, Patience
    <3>2. CASE Wake
      BY <1>1, <3>2 DEF Wake, Patience
    <3>3. CASE AckNotFound
      BY <1>1, <3>3 DEF AckNotFound, Patience
    <3> QED
      BY <2>1, <3>1, <3>2, <3>3
  <2> QED
    BY <1>2, <2>2
<1>4. CASE Tick
  <2>1. Patience' < Patience /\ Patience' \in Int
    BY <1>1, <1>4 DEF Tick, Patience, Polling
  <2> QED
    BY <1>2, <2>1
<1>5. CASE ~Transferring /\ ~Tick
  <2>1. Patience' = Patience
    BY <1>5 DEF TransferNext, Deliver, Refund, ReverseArrives, Patience
  <2> QED
    BY <1>2, <1>5, <2>1
<1> QED
  BY <1>3, <1>4, <1>5

\* For all timers, and whatever the channel does meanwhile, what is left of the
\* polling is a natural number that each step of the bot and each tick lessens.
THEOREM PollingIsBounded == TransferSpec => PatienceRunsOut
<1>1. TransferInv /\ [TransferNext]_transferVars =>
         [{stage, stage'} \subseteq Polling =>
             /\ Patience \in Nat /\ Patience' <= Patience
             /\ Transferring \/ Tick => Patience' < Patience]_transferVars
  BY PatienceShrinks
<1> QED
  BY TransferInvariance, <1>1, PTL DEF TransferSpec, PatienceRunsOut
=============================================================================
