------------------------ MODULE OrderHistory_proofs -------------------------
(***************************************************************************)
(* Proofs about OrderHistory, for every limit of the history: orders are   *)
(* numbered by their place over restarts, and a verdict is never changed.  *)
(***************************************************************************)
EXTENDS OrderHistory, TLAPS

-----------------------------------------------------------------------------
(* The operations on the list                                              *)

\* Queueing an order keeps the others in place and numbers the new one.
LEMMA QueueExtends ==
    ASSUME history \in Seq(Order), Numbered(history)
    PROVE  /\ Queued \in Seq(Order) /\ Numbered(Queued)
           /\ Len(Queued) = Len(history) + 1
           /\ \A i \in DOMAIN history : Queued[i] = history[i]
           /\ Queued[Len(history) + 1].status = "QUEUED"
<1>1. [uid |-> Len(history), status |-> "QUEUED"] \in Order
  BY DEF Order, Statuses
<1>2. Queued \in Seq(Order) /\ Len(Queued) = Len(history) + 1
  BY <1>1 DEF Queued
<1>3. /\ \A i \in DOMAIN history : Queued[i] = history[i]
      /\ Queued[Len(history) + 1] = [uid |-> Len(history), status |-> "QUEUED"]
  BY <1>1 DEF Queued
<1>4. Numbered(Queued)
  BY <1>2, <1>3 DEF Numbered
<1> QED
  BY <1>2, <1>3, <1>4

\* Concluding an order that is in the list changes its status and nothing else.
LEMMA ConcludeWrites ==
    ASSUME history \in Seq(Order), Numbered(history),
           NEW u \in Nat, u + 1 \in DOMAIN history, NEW v \in Statuses
    PROVE  /\ Concluded(u, v) \in Seq(Order) /\ Numbered(Concluded(u, v))
           /\ Len(Concluded(u, v)) = Len(history)
           /\ Concluded(u, v)[u + 1].status = v
           /\ Concluded(u, v)[u + 1].uid = history[u + 1].uid
           /\ \A i \in DOMAIN history : i # u + 1 =>
                 Concluded(u, v)[i] = history[i]
<1> DEFINE new == [history EXCEPT ![u + 1].status = v]
<1>1. Concluded(u, v) = new
  BY DEF Concluded
<1>2. history[u + 1] \in Order
  OBVIOUS
<1>3. [history[u + 1] EXCEPT !.status = v] \in Order
  BY <1>2 DEF Order
<1>4. new \in Seq(Order) /\ Len(new) = Len(history)
  BY <1>3
<1>5. new[u + 1] = [history[u + 1] EXCEPT !.status = v]
  OBVIOUS
<1>6. new[u + 1].status = v /\ new[u + 1].uid = history[u + 1].uid
  BY <1>2, <1>5 DEF Order
<1>7. \A i \in DOMAIN history : i # u + 1 => new[i] = history[i]
  OBVIOUS
<1>8. Numbered(new)
  BY <1>4, <1>6, <1>7 DEF Numbered
<1> QED
  BY <1>1, <1>4, <1>6, <1>7, <1>8

\* What is retrieved from a numbered file is numbered: it is a prefix.
LEMMA RecoveredIsNumbered ==
    ASSUME NEW s \in Seq(Order), Numbered(s)
    PROVE  Recovered(s) \in Seq(Order) /\ Numbered(Recovered(s))
<1>1. MaxHistory \in Nat
  BY HistoryAssumption
<1>2. CASE Len(s) - MaxHistory < 1
  <2>1. Recovered(s) = <<>>
    BY <1>1, <1>2 DEF Recovered
  <2> QED
    BY <2>1 DEF Numbered
<1>3. CASE Len(s) - MaxHistory >= 1
  <2>1. /\ Recovered(s) \in Seq(Order)
        /\ Len(Recovered(s)) = Len(s) - MaxHistory
        /\ \A i \in 1..(Len(s) - MaxHistory) : Recovered(s)[i] = s[i]
    BY <1>1, <1>3 DEF Recovered
  <2> QED
    BY <1>1, <1>3, <2>1 DEF Numbered
<1> QED
  BY <1>1, <1>2, <1>3

-----------------------------------------------------------------------------
(* The invariant                                                           *)

LEMMA InitHolds == Init => IInv
BY DEF Init, IInv, TypeOK, UidIsIndex, Numbered, Pending, NoOrder

\* The open order is in the list.
LEMMA OpenIsListed ==
    ASSUME IInv, open # NoOrder
    PROVE  open \in Nat /\ open + 1 \in DOMAIN history
BY DEF IInv, TypeOK, Uids

LEMMA QueueRouteKeeps == IInv /\ QueueRoute => IInv'
<1> SUFFICES ASSUME IInv, QueueRoute PROVE IInv'
  OBVIOUS
<1>1. history' = Queued /\ UNCHANGED <<file, pc, open>>
  BY DEF QueueRoute
<1>2. history \in Seq(Order) /\ Numbered(history)
  BY DEF IInv, TypeOK, UidIsIndex
<1>3. /\ history' \in Seq(Order) /\ Numbered(history')
      /\ Len(history') = Len(history) + 1
      /\ \A i \in DOMAIN history : history'[i] = history[i]
      /\ history'[Len(history) + 1].status = "QUEUED"
  BY <1>1, <1>2, QueueExtends
<1>4. waiting' \subseteq waiting \cup {Len(history)}
  BY DEF QueueRoute
<1>5. DOMAIN history = 1..Len(history) /\ DOMAIN history' = 1..(Len(history) + 1)
  BY <1>2, <1>3
<1>7. UidIsIndex'
  BY <1>1, <1>3 DEF IInv, UidIsIndex
<1>8. open # NoOrder => open \in Nat /\ open + 1 \in 1..Len(history)
  BY <1>5, OpenIsListed
<1>9. Pending' /\ TypeOK'
  <2>1. \A u \in waiting : u \in Nat /\ u + 1 \in 1..Len(history)
    BY <1>5 DEF IInv, TypeOK, Uids
  <2>2. \A u \in waiting' :
           u + 1 \in DOMAIN history' /\ history'[u + 1].status = "QUEUED"
    <3> TAKE u \in waiting'
    <3>1. CASE u \in waiting
      BY <1>3, <1>5, <2>1, <3>1 DEF IInv, Pending
    <3>2. CASE u = Len(history)
      BY <1>2, <1>3, <1>5, <3>2
    <3> QED
      BY <1>4, <3>1, <3>2
  <2>3. waiting' \subseteq Uids' /\ open' \in Uids' \cup {NoOrder}
    <3>1. \A u \in waiting' : u \in Nat /\ u + 1 \in DOMAIN history'
      BY <1>2, <1>4, <2>1, <2>2
    <3>2. open # NoOrder => open \in Nat /\ open + 1 \in DOMAIN history'
      BY <1>2, <1>5, <1>8
    <3> QED
      BY <1>1, <3>1, <3>2 DEF Uids
  <2>4. open \notin waiting'
    BY <1>2, <1>4, <1>8 DEF IInv, TypeOK, Pending, NoOrder
  <2>5. open # NoOrder => history'[open + 1] = history[open + 1]
    BY <1>3, <1>5, <1>8
  <2>6. pc \notin {"down", "idle", "dump"}
    BY DEF QueueRoute
  <2> QED
    BY <1>1, <1>3, <2>2, <2>3, <2>4, <2>5, <2>6 DEF IInv, TypeOK, Pending
<1> QED
  BY <1>7, <1>9 DEF IInv

\* Writing a verdict at the open order disturbs no waiting one.
LEMMA VerdictKeeps ==
    ASSUME IInv, open # NoOrder, NEW v \in Statuses,
           history' = Concluded(open, v), UNCHANGED <<file, waiting>>
    PROVE  /\ history' \in Seq(Order) /\ UidIsIndex'
           /\ DOMAIN history' = DOMAIN history
           /\ history'[open + 1].status = v
           /\ \A u \in waiting : history'[u + 1].status = "QUEUED"
<1>1. history \in Seq(Order) /\ Numbered(history)
  BY DEF IInv, TypeOK, UidIsIndex
<1>2. open \in Nat /\ open + 1 \in DOMAIN history
  BY OpenIsListed
<1>3. /\ history' \in Seq(Order) /\ Numbered(history')
      /\ Len(history') = Len(history)
      /\ history'[open + 1].status = v
      /\ \A i \in DOMAIN history : i # open + 1 => history'[i] = history[i]
  BY <1>1, <1>2, ConcludeWrites
<1>4. \A u \in waiting : u \in Nat /\ u + 1 \in DOMAIN history /\ u # open
  BY <1>1 DEF IInv, TypeOK, Uids, Pending
<1>5. \A u \in waiting : history'[u + 1] = history[u + 1]
  BY <1>2, <1>3, <1>4
<1> QED
  BY <1>1, <1>3, <1>5 DEF IInv, UidIsIndex, Pending

LEMMA ExecutedKeeps == IInv /\ Executed => IInv'
<1> SUFFICES ASSUME IInv, Executed PROVE IInv'
  OBVIOUS
<1>1. "EXECUTED" \in Statuses
  BY DEF Statuses
<1>2. /\ history' \in Seq(Order) /\ UidIsIndex'
      /\ DOMAIN history' = DOMAIN history
      /\ \A u \in waiting : history'[u + 1].status = "QUEUED"
  BY <1>1, VerdictKeeps DEF Executed
<1> QED
  BY <1>2 DEF IInv, TypeOK, Uids, Pending, Executed, NoOrder

LEMMA FailedKeeps == IInv /\ (Failed \/ EndRecovery) => IInv'
<1> SUFFICES ASSUME IInv, Failed \/ EndRecovery PROVE IInv'
  OBVIOUS
<1>1. "FAILED" \in Statuses
  BY DEF Statuses
<1>2. open # NoOrder
  BY DEF IInv, Pending, Failed, EndRecovery
<1>3. /\ history' \in Seq(Order) /\ UidIsIndex'
      /\ DOMAIN history' = DOMAIN history
      /\ history'[open + 1].status = "FAILED"
      /\ \A u \in waiting : history'[u + 1].status = "QUEUED"
  BY <1>1, <1>2, VerdictKeeps DEF Failed, EndRecovery
<1>4. CASE Failed
  BY <1>2, <1>3, <1>4 DEF IInv, TypeOK, Uids, Pending, Failed, NoOrder
<1>5. CASE EndRecovery
  BY <1>3, <1>5 DEF IInv, TypeOK, Uids, Pending, EndRecovery, NoOrder
<1> QED
  BY <1>4, <1>5

LEMMA StartKeeps == IInv /\ Start => IInv'
<1> SUFFICES ASSUME IInv, Start PROVE IInv'
  OBVIOUS
<1>1. file.orders \in Seq(Order) /\ Numbered(file.orders)
  BY DEF IInv, TypeOK, UidIsIndex
<1>2. history' \in Seq(Order) /\ Numbered(history')
  BY <1>1, RecoveredIsNumbered DEF Start
<1>3. file' = [state |-> "ok", orders |-> file.orders]
  BY DEF Start
<1> QED
  BY <1>1, <1>2, <1>3
  DEF IInv, TypeOK, UidIsIndex, Pending, Start, NoOrder

LEMMA YieldKeeps == IInv /\ Yield => IInv'
<1> SUFFICES ASSUME IInv, Yield PROVE IInv'
  OBVIOUS
<1>1. PICK u \in waiting : open' = u /\ waiting' = waiting \ {u}
  BY DEF Yield
<1> QED
  BY <1>1 DEF IInv, TypeOK, Uids, UidIsIndex, Pending, Yield, NoOrder

LEMMA FileKeeps == IInv /\ (Truncate \/ Dump) => IInv'
<1> SUFFICES ASSUME IInv, Truncate \/ Dump PROVE IInv'
  OBVIOUS
<1>1. CASE Truncate
  BY <1>1 DEF IInv, TypeOK, UidIsIndex, Numbered, Pending, Truncate
<1>2. CASE Dump
  BY <1>2 DEF IInv, TypeOK, UidIsIndex, Pending, Dump
<1> QED
  BY <1>1, <1>2

LEMMA RoundKeeps ==
    IInv /\ (Crash \/ BeginRound \/ Aborted \/ AbandonRound) => IInv'
<1> SUFFICES ASSUME IInv, Crash \/ BeginRound \/ Aborted \/ AbandonRound
             PROVE  IInv'
  OBVIOUS
<1>1. CASE Crash
  BY <1>1 DEF IInv, TypeOK, UidIsIndex, Numbered, Pending, Crash, NoOrder
<1>2. CASE BeginRound
  BY <1>2 DEF IInv, TypeOK, UidIsIndex, Pending, BeginRound
<1>3. CASE Aborted
  BY <1>3 DEF IInv, TypeOK, Uids, UidIsIndex, Pending, Aborted, NoOrder
<1>4. CASE AbandonRound
  BY <1>4 DEF IInv, TypeOK, UidIsIndex, Pending, AbandonRound, NoOrder
<1> QED
  BY <1>1, <1>2, <1>3, <1>4

LEMMA StepKeeps == IInv /\ [Next]_vars => IInv'
<1> SUFFICES ASSUME IInv, [Next]_vars PROVE IInv'
  OBVIOUS
<1>1. CASE UNCHANGED vars
  BY <1>1 DEF IInv, TypeOK, Uids, UidIsIndex, Numbered, Pending, vars
<1>2. CASE Next
  BY <1>2, StartKeeps, QueueRouteKeeps, YieldKeeps, ExecutedKeeps, FailedKeeps,
     FileKeeps, RoundKeeps
  DEF Next
<1> QED
  BY <1>1, <1>2

-----------------------------------------------------------------------------
(* Theorems                                                                *)

\* The strengthened invariant holds in every reachable state.
THEOREM Invariance == Spec => []IInv
<1>1. Init => IInv
  BY InitHolds
<1>2. IInv /\ [Next]_vars => IInv'
  BY StepKeeps
<1> QED
  BY <1>1, <1>2, PTL DEF Spec

\* The variables keep their types.
THEOREM TypeCorrect == Spec => []TypeOK
<1>1. IInv => TypeOK
  BY DEF IInv
<1> QED
  BY <1>1, Invariance, PTL

\* Whatever the limit, and over any number of crashes and restarts, the uid
\* of every order in memory and on disk is its index (queue_route,
\* recover_history).
THEOREM UidsAreIndices == Spec => []UidIsIndex
<1>1. IInv => UidIsIndex
  BY DEF IInv
<1> QED
  BY <1>1, Invariance, PTL

\* While the bot runs, an order that has its verdict keeps it (update_route
\* and the strategy's bookkeeping).
THEOREM VerdictsAreKept == Spec => VerdictsStick
<1>1. ASSUME IInv, [Next]_vars PROVE [VerdictsStand]_vars
  <2> SUFFICES ASSUME Next, pc' # "down", NEW i \in DOMAIN history,
                      history[i].status # "QUEUED"
               PROVE  i \in DOMAIN history' /\ history'[i] = history[i]
    BY <1>1 DEF VerdictsStand
  <2>1. history \in Seq(Order) /\ Numbered(history)
    BY <1>1 DEF IInv, TypeOK, UidIsIndex
  <2>2. CASE Start
    <3>1. history = <<>>
      BY <1>1, <2>2 DEF IInv, Pending, Start
    <3> QED
      BY <3>1
  <2>3. CASE Executed \/ Failed \/ EndRecovery
    <3>1. open # NoOrder /\ open \in Nat /\ open + 1 \in DOMAIN history
      BY <1>1, <2>3, OpenIsListed DEF IInv, Pending, Executed, Failed, EndRecovery
    <3>2. PICK v \in Statuses : history' = Concluded(open, v)
      BY <2>3 DEF Executed, Failed, EndRecovery, Statuses
    <3>3. /\ Len(history') = Len(history) /\ history' \in Seq(Order)
          /\ \A j \in DOMAIN history : j # open + 1 => history'[j] = history[j]
      BY <2>1, <3>1, <3>2, ConcludeWrites
    <3>4. CASE i = open + 1
      <4>1. pc = "recover" /\ history[i].status = "FAILED"
        BY <1>1, <2>3, <3>1, <3>4 DEF IInv, Pending, Executed, Failed, EndRecovery
      <4>2. history' = Concluded(open, "FAILED")
        BY <2>3, <4>1 DEF Executed, Failed, EndRecovery
      <4>3. /\ history'[i].status = "FAILED"
            /\ history'[i].uid = history[i].uid
        BY <2>1, <3>1, <3>4, <4>2, ConcludeWrites DEF Statuses
      <4>4. history[i] \in Order /\ history'[i] \in Order
        BY <2>1, <3>3
      <4>5. history'[i] = history[i]
        BY <4>1, <4>3, <4>4 DEF Order
      <4>6. i \in DOMAIN history'
        BY <2>1, <3>3
      <4> QED
        BY <4>5, <4>6
    <3> QED
      BY <2>1, <3>3, <3>4
  <2>4. CASE QueueRoute
    <3>1. history' = Queued
      BY <2>4 DEF QueueRoute
    <3> QED
      BY <2>1, <3>1, QueueExtends
  <2>5. CASE UNCHANGED history
    BY <2>5
  <2> QED
    BY <2>2, <2>3, <2>4, <2>5
    DEF Next, Crash, BeginRound, Yield, Aborted, AbandonRound, Truncate, Dump
<1> QED
  BY <1>1, Invariance, PTL DEF VerdictsStick, Spec
=============================================================================
