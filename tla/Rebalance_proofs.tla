-------------------------- MODULE Rebalance_proofs --------------------------
(***************************************************************************)
(* Proofs about Rebalance, for any denoms, chains, routes and wallet and   *)
(* any number of rounds: no amount goes below zero, no sale is left behind *)
(* unless a coroutine raised, and no sale takes what another has in hand   *)
(* unless something went wrong.                                            *)
(***************************************************************************)
EXTENDS Rebalance, FiniteSetTheorems, TLAPS

LEMMA InitHolds == Init => IInv
<1> SUFFICES ASSUME Init PROVE IInv
  OBVIOUS
<1>1. Task("none", 0, {}) \in TaskRecords /\ Fits(Task("none", 0, {}))
  BY DEF Task, TaskRecords, Fits
<1>2. tasks = [t \in Ids |-> Task("none", 0, {})]
  BY DEF Init
<1>3. Len(Chains) \in Nat
  BY RebalanceAssumption
<1>4. VariableTypes
  <2>1. wallet \in [Denoms -> Nat] /\ margin \in BOOLEAN
    BY RebalanceAssumption DEF Init
  <2>2. /\ raised \in BOOLEAN /\ mishap \in BOOLEAN /\ short \in BOOLEAN
        /\ packets \subseteq PacketRecords
    BY DEF Init
  <2>3. round \in Nat /\ chain \in 1..(Len(Chains) + 1) /\ pc = "chain"
    BY <1>3 DEF Init
  <2> QED
    BY <1>1, <1>2, <2>1, <2>2, <2>3 DEF VariableTypes
<1>5. Running = {}
  BY <1>2 DEF Running, Task
<1> QED
  BY <1>1, <1>2, <1>4, <1>5 DEF Init, IInv, Ordered, NoneLeftBehind

\* Ending a coroutine takes nothing from its record.
LEMMA EndKeepsFit ==
    ASSUME NEW k \in TaskRecords, Fits(k)
    PROVE  /\ [k EXCEPT !.st = "ended"] \in TaskRecords
           /\ Fits([k EXCEPT !.st = "ended"])
BY DEF TaskRecords, Fits, OnRoute

-----------------------------------------------------------------------------
(* rebalance_portfolio                                                     *)

LEMMA MainKeeps == IInv /\ (Main \/ Cancel \/ NextRound) => IInv'
<1> SUFFICES ASSUME IInv, Main \/ Cancel \/ NextRound PROVE IInv'
  OBVIOUS
<1>c. Len(Chains) \in Nat
  BY RebalanceAssumption
<1>1. CASE SkipChain
  BY <1>1, <1>c DEF IInv, VariableTypes, Ordered, NoneLeftBehind, Running, SkipChain, InLoop
<1>2. CASE Gather
  <2>1. \A t \in Ids : /\ tasks'[t] \in TaskRecords /\ Fits(tasks'[t])
                       /\ \/ tasks'[t] = tasks[t]
                          \/ t[1] = round /\ ChainOf[t[2]] = Chains[chain]
    <3> SUFFICES ASSUME NEW t \in Ids
                 PROVE  /\ tasks'[t] \in TaskRecords /\ Fits(tasks'[t])
                        /\ \/ tasks'[t] = tasks[t]
                           \/ t[1] = round /\ ChainOf[t[2]] = Chains[chain]
      OBVIOUS
    <3>1. CASE t[1] = round /\ t[2] \in Qualifying(Chains[chain])
      <4>1. wallet[t[2]] \in Nat /\ ChainOf[t[2]] = Chains[chain]
        BY <3>1 DEF IInv, VariableTypes, Qualifying
      <4> QED
        BY <1>2, <3>1, <4>1 DEF Gather, Task, TaskRecords, Fits
    <3>2. CASE ~(t[1] = round /\ t[2] \in Qualifying(Chains[chain]))
      BY <1>2, <3>2 DEF Gather, IInv, VariableTypes, Ordered
    <3> QED
      BY <3>1, <3>2
  <2>2. VariableTypes' /\ Ordered'
    BY <1>2, <2>1 DEF Gather, InLoop, IInv, VariableTypes, Ordered
  <2>3. NoneLeftBehind'
    BY <1>2, <2>1 DEF Gather, InLoop, IInv, NoneLeftBehind, Running, OfChain
  <2> QED
    BY <2>2, <2>3 DEF IInv
<1>3. CASE Gathered
  <2>1. VariableTypes' /\ Ordered'
    BY <1>3, <1>c DEF IInv, VariableTypes, Ordered, Gathered
  <2>2. NoneLeftBehind'
    BY <1>3 DEF IInv, NoneLeftBehind, Running, Gathered, AllEnded
  <2> QED
    BY <2>1, <2>2 DEF IInv
<1>4. CASE Return
  BY <1>4 DEF IInv, VariableTypes, Ordered, NoneLeftBehind, Running, Return
<1>5. CASE LoopRaises
  BY <1>5 DEF IInv, VariableTypes, Ordered, NoneLeftBehind, Running, LoopRaises, InLoop
<1>6. CASE Cancel
  <2>1. \A t \in Ids : \/ tasks'[t] = tasks[t]
                       \/ /\ tasks[t] \in TaskRecords
                          /\ tasks'[t] = [tasks[t] EXCEPT !.st = "ended"]
    BY <1>6 DEF Cancel, IInv, VariableTypes
  <2>2. \A t \in Ids : tasks'[t] \in TaskRecords /\ Fits(tasks'[t])
    <3> SUFFICES ASSUME NEW t \in Ids
                 PROVE  tasks'[t] \in TaskRecords /\ Fits(tasks'[t])
      OBVIOUS
    <3>1. CASE tasks'[t] = tasks[t]
      BY <3>1 DEF IInv, VariableTypes, Ordered
    <3>2. CASE tasks'[t] = [tasks[t] EXCEPT !.st = "ended"]
      BY <2>1, <3>2, EndKeepsFit DEF IInv, VariableTypes, Ordered
    <3> QED
      BY <2>1, <3>1, <3>2
  <2>3. VariableTypes' /\ Ordered'
    BY <1>6, <2>2 DEF Cancel, IInv, VariableTypes, Ordered
  <2>4. NoneLeftBehind'
    <3>1. \A t \in Ids : /\ tasks'[t].st \notin {"none", "ended"} =>
                               tasks[t].st \notin {"none", "ended"}
                         /\ pc = "gather" /\ t \in OfChain \cap Running =>
                               tasks'[t].st = "ended"
      BY <1>6 DEF Cancel, IInv, VariableTypes, TaskRecords
    <3> QED
      BY <1>6, <3>1 DEF Cancel, IInv, NoneLeftBehind, Running
  <2> QED
    BY <2>3, <2>4 DEF IInv
<1>7. CASE NextRound
  BY <1>7, <1>c DEF IInv, VariableTypes, Ordered, NoneLeftBehind, Running, NextRound
<1> QED
  BY <1>1, <1>2, <1>3, <1>4, <1>5, <1>6, <1>7 DEF Main

\* A route has at least one batch, and every batch trades two denoms.
LEMMA BatchTypes ==
    \A r \in Routes : /\ Len(r) \in Nat /\ Len(r) > 0
                     /\ \A i \in 1..Len(r) : r[i].in \in Denoms /\ r[i].out \in Denoms
<1> TAKE r \in Routes
<1>1. r \in Seq(Batches) /\ r # <<>>
  BY RebalanceAssumption
<1>2. \A i \in 1..Len(r) : r[i] \in Batches
  BY <1>1
<1> QED
  BY <1>1, <1>2 DEF Batches

-----------------------------------------------------------------------------
(* eval_sell_denom and exec_arb                                            *)

\* A step of one coroutine keeps the invariant if it leaves it a fitting record
\* and does not bring it back to life.
LEMMA UpdateKeeps ==
    ASSUME IInv, NEW t \in Ids, NEW k \in TaskRecords, Fits(k),
           tasks' = [tasks EXCEPT ![t] = k],
           k.st \in {"none", "ended"} \/ tasks[t].st \notin {"none", "ended"},
           wallet' \in [Denoms -> Nat], mishap' \in BOOLEAN, short' \in BOOLEAN,
           \/ pc' = pc /\ raised' = raised
           \/ raised' = TRUE /\ pc' \in {pc, "strategy"},
           \A p \in packets' :
               p \in packets \/ (p \in PacketRecords /\ OnRoute(p) /\ p.at < Len(p.route)),
           UNCHANGED <<round, chain, margin>>
    PROVE  IInv'
<1>1. \A i \in Ids : tasks'[i] = IF i = t THEN k ELSE tasks[i]
  BY DEF IInv, VariableTypes
<1>2. VariableTypes'
  BY DEF IInv, VariableTypes
<1>3. Ordered'
  BY <1>1 DEF IInv, Ordered, VariableTypes
<1>4. NoneLeftBehind'
  <2>1. Running' \subseteq Running
    BY <1>1 DEF Running
  <2>2. OfChain' = OfChain
    BY DEF OfChain
  <2> QED
    BY <2>1, <2>2 DEF IInv, NoneLeftBehind
<1> QED
  BY <1>2, <1>3, <1>4 DEF IInv

LEMMA SellKeeps ==
    ASSUME IInv, NEW t \in Ids,
           SkipRoute(t) \/ NoRouteLeft(t) \/ RefuseProfit(t) \/ Take(t) \/ Raise(t)
    PROVE  IInv'
<1>1. tasks[t] \in TaskRecords /\ Fits(tasks[t])
  BY DEF IInv, VariableTypes, Ordered
<1>2. wallet \in [Denoms -> Nat] /\ mishap \in BOOLEAN /\ short \in BOOLEAN
  BY DEF IInv, VariableTypes
<1>3. CASE SkipRoute(t)
  <2>1. PICK r \in tasks[t].left : tasks' = [tasks EXCEPT ![t].left = @ \ {r}]
    BY <1>3 DEF SkipRoute
  <2> DEFINE k == [tasks[t] EXCEPT !.left = @ \ {r}]
  <2>2. k \in TaskRecords /\ Fits(k) /\ tasks' = [tasks EXCEPT ![t] = k]
    BY <1>1, <2>1 DEF TaskRecords, Fits, OnRoute
  <2> HIDE DEF k
  <2> QED
    BY <1>2, <1>3, <2>2, UpdateKeeps DEF SkipRoute
<1>4. CASE NoRouteLeft(t) \/ RefuseProfit(t) \/ Raise(t)
  <2> DEFINE k == [tasks[t] EXCEPT !.st = "ended"]
  <2>1. k \in TaskRecords /\ Fits(k) /\ k.st = "ended"
    BY <1>1, EndKeepsFit DEF TaskRecords
  <2>2. tasks' = [tasks EXCEPT ![t] = k]
    BY <1>4 DEF NoRouteLeft, RefuseProfit, Raise, Move
  <2> HIDE DEF k
  <2> QED
    BY <1>2, <1>4, <2>1, <2>2, UpdateKeeps DEF NoRouteLeft, RefuseProfit, Raise
<1>5. CASE Take(t)
  <2>1. PICK r \in tasks[t].left, n \in 1..tasks[t].balance :
           tasks' = [tasks EXCEPT ![t].left = @ \ {r}, ![t].route = r, ![t].at = 1,
                                  ![t].amount = n, ![t].st = "swap"]
    BY <1>5 DEF Take
  <2> DEFINE k == [tasks[t] EXCEPT !.left = @ \ {r}, !.route = r, !.at = 1,
                                   !.amount = n, !.st = "swap"]
  <2>2. tasks' = [tasks EXCEPT ![t] = k]
    BY <2>1
  <2>3. r \in Routes /\ 1 \in 1..Len(r)
    BY <1>1, BatchTypes DEF TaskRecords
  <2>4. n \in Nat /\ n > 0
    BY <1>1 DEF TaskRecords
  <2>5. k \in TaskRecords /\ Fits(k)
    BY <1>1, <1>5, <2>3, <2>4 DEF Take, TaskRecords, Fits, OnRoute
  <2> HIDE DEF k
  <2> QED
    BY <1>2, <1>5, <2>2, <2>5, UpdateKeeps DEF Take
<1> QED
  BY <1>3, <1>4, <1>5

LEMMA SwapKeeps ==
    ASSUME IInv, NEW t \in Ids, Swap(t) \/ SwapLost(t) \/ SwapFails(t)
    PROVE  IInv'
<1>1. tasks[t] \in TaskRecords /\ Fits(tasks[t]) /\ tasks[t].st = "swap"
  BY DEF IInv, VariableTypes, Ordered, Swap, SwapLost, SwapFails
<1>2. wallet \in [Denoms -> Nat] /\ mishap \in BOOLEAN /\ short \in BOOLEAN
  BY DEF IInv, VariableTypes
<1>3. /\ tasks[t].amount \in Nat /\ tasks[t].amount > 0
      /\ Len(tasks[t].route) \in Nat /\ tasks[t].at \in 1..Len(tasks[t].route)
      /\ Batch(t).in \in Denoms /\ Batch(t).out \in Denoms
  BY <1>1, BatchTypes DEF Fits, OnRoute, TaskRecords, Batch
<1>4. CASE Swap(t) \/ SwapLost(t)
  <2>1. PICK n \in Nat : Trade(t, Batch(t).in, Batch(t).out, n)
    BY <1>3, <1>4 DEF Swap, SwapLost
  <2>2. wallet' \in [Denoms -> Nat]
    <3>1. /\ Batch(t).in \in Denoms /\ wallet[Batch(t).in] >= tasks[t].amount
          /\ tasks[t].amount \in Nat
      BY <1>3, <1>4 DEF Swap, SwapLost, Enough
    <3>2. [wallet EXCEPT ![Batch(t).in] = @ - tasks[t].amount] \in [Denoms -> Nat]
      BY <1>2, <3>1
    <3> QED
      BY <1>2, <1>3, <2>1, <3>2 DEF Trade
  <2>3. mishap' \in BOOLEAN /\ short' \in BOOLEAN
    BY <1>2, <1>4 DEF Swap, SwapLost
  <2>4. PICK st \in {"search", "move", "ended"} :
           Move(t, st) /\ (st = "move" => ~IsLast(t))
    BY <1>4 DEF Swap, SwapLost, AfterSwap
  <2> DEFINE k == [tasks[t] EXCEPT !.st = st]
  <2>5. tasks' = [tasks EXCEPT ![t] = k]
    BY <2>4 DEF Move
  <2>6. k \in TaskRecords /\ Fits(k)
    BY <1>1, <1>3, <2>4 DEF TaskRecords, Fits, OnRoute, IsLast
  <2> HIDE DEF k
  <2> QED
    BY <1>1, <1>4, <2>2, <2>3, <2>5, <2>6, UpdateKeeps DEF Swap, SwapLost
<1>5. CASE SwapFails(t)
  <2> DEFINE k == [tasks[t] EXCEPT !.st = "search"]
  <2>1. k \in TaskRecords /\ Fits(k) /\ tasks' = [tasks EXCEPT ![t] = k]
    BY <1>1, <1>5 DEF TaskRecords, Fits, SwapFails, Move
  <2>2. mishap' \in BOOLEAN /\ short' \in BOOLEAN
    BY <1>2, <1>5 DEF SwapFails
  <2> HIDE DEF k
  <2> QED
    BY <1>1, <1>2, <1>5, <2>1, <2>2, UpdateKeeps DEF SwapFails
<1> QED
  BY <1>4, <1>5

LEMMA TransferKeeps ==
    ASSUME IInv, NEW t \in Ids,
           Send(t) \/ SendFails(t) \/ AckSeen(t) \/ GiveUp(t)
    PROVE  IInv'
<1>1. tasks[t] \in TaskRecords /\ Fits(tasks[t])
  BY DEF IInv, VariableTypes, Ordered
<1>2. wallet \in [Denoms -> Nat] /\ mishap \in BOOLEAN /\ short \in BOOLEAN
  BY DEF IInv, VariableTypes
<1>3. CASE SendFails(t) \/ GiveUp(t)
  <2> DEFINE k == [tasks[t] EXCEPT !.st = "ended"]
  <2>1. k \in TaskRecords /\ Fits(k) /\ k.st = "ended"
    BY <1>1, EndKeepsFit DEF TaskRecords
  <2>2. tasks' = [tasks EXCEPT ![t] = k] /\ short' \in BOOLEAN
    BY <1>2, <1>3 DEF SendFails, GiveUp, Move
  <2> HIDE DEF k
  <2> QED
    BY <1>2, <1>3, <2>1, <2>2, UpdateKeeps DEF SendFails, GiveUp
<1>4. ASSUME tasks[t].st \in {"move", "wait"}
      PROVE  /\ tasks[t].amount \in Nat /\ tasks[t].at \in Nat
             /\ tasks[t].route \in Routes /\ Len(tasks[t].route) \in Nat
             /\ tasks[t].at + 1 \in 1..Len(tasks[t].route)
             /\ tasks[t].at < Len(tasks[t].route) /\ tasks[t].amount > 0
             /\ tasks[t].at \in 1..Len(tasks[t].route)
             /\ Batch(t).out \in Denoms
  <2>1. /\ tasks[t].amount \in Nat /\ tasks[t].at \in 1..Len(tasks[t].route)
        /\ tasks[t].at < Len(tasks[t].route) /\ tasks[t].route \in Routes
        /\ tasks[t].amount > 0
    BY <1>1, <1>4 DEF Fits, OnRoute, TaskRecords
  <2>2. Len(tasks[t].route) \in Nat
    BY <2>1, BatchTypes
  <2>3. tasks[t].at \in Nat /\ tasks[t].at + 1 \in 1..Len(tasks[t].route)
    BY <2>1, <2>2
  <2> QED
    BY <2>1, <2>2, <2>3, BatchTypes DEF Batch
<1>5. CASE Send(t)
  <2> DEFINE k == [tasks[t] EXCEPT !.st = "wait"]
  <2>1. k \in TaskRecords /\ Fits(k) /\ tasks' = [tasks EXCEPT ![t] = k]
    BY <1>1, <1>5 DEF TaskRecords, Fits, OnRoute, Send, Move
  <2>2. wallet' \in [Denoms -> Nat]
    BY <1>2, <1>4, <1>5 DEF Send, Enough
  <2>3. /\ Packet(t) \in PacketRecords /\ OnRoute(Packet(t))
        /\ Packet(t).at < Len(Packet(t).route)
    <3>1. tasks[t].amount > 0 /\ tasks[t].at \in 1..Len(tasks[t].route)
      BY <1>4, <1>5 DEF Send
    <3> QED
      BY <1>4, <1>5, <3>1 DEF Send, Packet, PacketRecords, OnRoute
  <2> HIDE DEF k
  <2> QED
    BY <1>2, <1>5, <2>1, <2>2, <2>3, UpdateKeeps DEF Send
<1>6. CASE AckSeen(t)
  <2> DEFINE n == tasks[t].at + 1
             k == [tasks[t] EXCEPT !.st = "swap", !.at = n]
  <2>1. n \in Nat /\ n \in 1..Len(tasks[t].route) /\ tasks[t].st = "wait"
    BY <1>4, <1>6 DEF AckSeen
  <2>2. tasks' = [tasks EXCEPT ![t] = k] /\ mishap' \in BOOLEAN
    BY <1>2, <1>6 DEF AckSeen
  <2> HIDE DEF n
  <2>3. k \in TaskRecords
    BY <1>1, <2>1 DEF TaskRecords
  <2>4. Fits(k)
    BY <1>1, <2>1 DEF TaskRecords, Fits, OnRoute
  <2> HIDE DEF k
  <2> QED
    BY <1>2, <1>6, <2>1, <2>2, <2>3, <2>4, UpdateKeeps DEF AckSeen
<1> QED
  BY <1>3, <1>5, <1>6

\* A packet in flight stands in its route.
LEMMA PacketTypes ==
    ASSUME IInv, NEW p \in packets
    PROVE  /\ p.of \in Ids /\ p.amount \in Nat
           /\ Left(p) \in Denoms /\ To(p) \in Denoms
<1>1. /\ p.of \in Ids /\ p.amount \in Nat /\ p.at \in Nat /\ p.route \in Routes
      /\ p.at \in 1..Len(p.route) /\ p.at < Len(p.route)
  BY DEF IInv, VariableTypes, Ordered, OnRoute, PacketRecords
<1>2. Len(p.route) \in Nat
  BY <1>1, BatchTypes
<1>3. p.at + 1 \in 1..Len(p.route)
  BY <1>1, <1>2
<1> QED
  BY <1>1, <1>3, BatchTypes DEF Left, To

LEMMA PacketKeeps ==
    ASSUME IInv, NEW p \in packets, Arrive(p) \/ Refund(p)
    PROVE  IInv'
<1>1. PICK d \in Denoms : wallet' = [wallet EXCEPT ![d] = @ + p.amount]
  BY PacketTypes DEF Arrive, Refund
<1>2. wallet' \in [Denoms -> Nat]
  BY <1>1, PacketTypes DEF IInv, VariableTypes
<1>3. /\ packets' = packets \ {p}
      /\ UNCHANGED <<round, chain, pc, margin, tasks, raised, mishap, short>>
  BY DEF Arrive, Refund
<1>4. VariableTypes'
  BY <1>2, <1>3 DEF IInv, VariableTypes
<1>5. Ordered' /\ NoneLeftBehind'
  BY <1>3 DEF IInv, Ordered, NoneLeftBehind, Running, OfChain
<1> QED
  BY <1>4, <1>5 DEF IInv

LEMMA StepKeeps == IInv /\ [Next]_vars => IInv'
<1> SUFFICES ASSUME IInv, [Next]_vars PROVE IInv'
  OBVIOUS
<1>1. CASE UNCHANGED vars
  BY <1>1 DEF IInv, VariableTypes, Ordered, NoneLeftBehind, Running, OfChain, vars
<1>2. ASSUME NEW t \in Ids, Step(t) PROVE IInv'
  BY <1>2, SellKeeps, SwapKeeps, TransferKeeps DEF Step
<1> QED
  BY <1>1, <1>2, MainKeeps, PacketKeeps DEF Next

-----------------------------------------------------------------------------
(* The wallet covers the claims                                            *)

LEMMA OwnSize ==
    ASSUME NEW t, NEW n \in Nat
    PROVE  /\ IsFiniteSet({t} \X (1..n))
           /\ Cardinality({t} \X (1..n)) = n
<1>1. IsFiniteSet({t}) /\ Cardinality({t}) = 1
  BY FS_Singleton
<1>2. IsFiniteSet(1..n) /\ Cardinality(1..n) = n
  BY FS_Interval
<1>3. /\ IsFiniteSet({t} \X (1..n))
      /\ Cardinality({t} \X (1..n)) = Cardinality({t}) * Cardinality(1..n)
  BY <1>1, <1>2, FS_Product
<1> QED
  BY <1>1, <1>2, <1>3

LEMMA ClaimIsNat == ASSUME IInv, NEW t \in Ids, NEW d PROVE Claim(t, d) \in Nat
<1>1. tasks[t] \in TaskRecords
  BY DEF IInv, VariableTypes
<1> QED
  BY <1>1 DEF Claim, TaskRecords

LEMMA ClaimStaysNat == ASSUME IInv', NEW t \in Ids, NEW d PROVE Claim(t, d)' \in Nat
<1>1. tasks'[t] \in TaskRecords
  BY DEF IInv, VariableTypes
<1> QED
  BY <1>1 DEF Claim, TaskRecords

\* A coroutine finds what it counts on.
LEMMA ClaimIsThere ==
    ASSUME IInv, NEW t \in Ids, NEW d \in Denoms, Covered(d)
    PROVE  Claim(t, d) <= wallet[d]
<1>1. Claim(t, d) \in Nat /\ wallet[d] \in Nat
  BY ClaimIsNat DEF IInv, VariableTypes
<1>2. Own(t, d) \in SUBSET Units(d)
  BY DEF Units
<1>3. Cardinality(Own(t, d)) = Claim(t, d)
  BY <1>1, OwnSize DEF Own
<1>4. IsFiniteSet(Units(d)) /\ Cardinality(Units(d)) <= wallet[d]
  BY DEF Covered
<1>5. Cardinality(Own(t, d)) <= Cardinality(Units(d))
  BY <1>2, <1>4, FS_Subset
<1>6. Cardinality(Units(d)) \in Nat
  BY <1>4, FS_CardinalityType
<1> QED
  BY <1>1, <1>3, <1>4, <1>5, <1>6

\* If one claim changes, and by no more than the wallet, the others still find
\* what they count on.
LEMMA OneClaimChanges ==
    ASSUME IInv, IInv', NEW t \in Ids, NEW d \in Denoms, Covered(d),
           \A i \in Ids : i # t => Claim(i, d)' = Claim(i, d),
           wallet'[d] - wallet[d] >= Claim(t, d)' - Claim(t, d)
    PROVE  Covered(d)'
<1> DEFINE Rest == UNION {Own(i, d) : i \in Ids \ {t}}
<1>1. /\ Claim(t, d) \in Nat /\ Claim(t, d)' \in Nat
      /\ wallet[d] \in Nat /\ wallet'[d] \in Nat
  <2> QED
    BY ClaimStaysNat, ClaimIsNat DEF IInv, VariableTypes
<1>2. Units(d) = Rest \cup Own(t, d)
  BY DEF Units
<1>3. Units(d)' = Rest \cup Own(t, d)'
  <2>1. \A i \in Ids \ {t} : Own(i, d)' = Own(i, d)
    BY DEF Own
  <2>2. Units(d)' = UNION {Own(i, d)' : i \in Ids}
    BY DEF Units
  <2> QED
    BY <2>1, <2>2
<1>4. Rest \cap Own(t, d) = {} /\ Rest \cap Own(t, d)' = {}
  BY DEF Own
<1> HIDE DEF Rest
<1>5. IsFiniteSet(Units(d)) /\ Cardinality(Units(d)) <= wallet[d]
  BY DEF Covered
<1>6. IsFiniteSet(Rest) /\ Cardinality(Rest) \in Nat
  <2>1. Rest \in SUBSET Units(d)
    BY <1>2
  <2>2. IsFiniteSet(Rest)
    BY <1>5, <2>1, FS_Subset
  <2> QED
    BY <2>2, FS_CardinalityType
<1>7. /\ IsFiniteSet(Own(t, d)) /\ Cardinality(Own(t, d)) = Claim(t, d)
      /\ IsFiniteSet(Own(t, d)') /\ Cardinality(Own(t, d)') = Claim(t, d)'
  BY <1>1, OwnSize DEF Own
<1>8. Cardinality(Units(d)) = Cardinality(Rest) + Claim(t, d)
  <2>1. Cardinality(Rest \cup Own(t, d)) =
           Cardinality(Rest) + Cardinality(Own(t, d)) - Cardinality(Rest \cap Own(t, d))
    BY <1>6, <1>7, FS_Union
  <2>2. Cardinality(Rest \cap Own(t, d)) = 0
    BY <1>4, FS_EmptySet
  <2> QED
    BY <1>1, <1>2, <1>6, <1>7, <2>1, <2>2
<1>9. IsFiniteSet(Units(d)') /\ Cardinality(Units(d)') = Cardinality(Rest) + Claim(t, d)'
  <2>1. /\ IsFiniteSet(Rest \cup Own(t, d)')
        /\ Cardinality(Rest \cup Own(t, d)') =
           Cardinality(Rest) + Cardinality(Own(t, d)') - Cardinality(Rest \cap Own(t, d)')
    BY <1>6, <1>7, FS_Union
  <2> QED
    BY <1>1, <1>3, <1>4, <1>6, <1>7, <2>1, FS_EmptySet
<1>10. Cardinality(Units(d)') <= wallet'[d]
  BY <1>1, <1>5, <1>6, <1>8, <1>9
<1> QED
  BY <1>9, <1>10 DEF Covered

\* Where tasks, packets and funds stay, so do the claims.
LEMMA NothingMoves ==
    ASSUME Backed, UNCHANGED <<tasks, packets, wallet, mishap, raised, short>>
    PROVE  Backed'
<1>1. \A t \in Ids : \A d : Claim(t, d)' = Claim(t, d)
  BY DEF Claim, Packet
<1>2. \A t \in Ids : \A d : Own(t, d)' = Own(t, d)
  BY <1>1 DEF Own
<1>3. \A d : Units(d)' = Units(d)
  BY <1>2 DEF Units
<1>4. \A d \in Denoms : Covered(d) => Covered(d)'
  BY <1>3 DEF Covered
<1>5. \A t \in Ids : Purposeful(tasks[t], t[2])'
  BY DEF Backed, Purposeful
<1>6. ShortNeedsMishap'
  BY DEF Backed, ShortNeedsMishap
<1> QED
  BY <1>4, <1>5, <1>6 DEF Backed

LEMMA InitBacked == Init => Backed
<1> SUFFICES ASSUME Init PROVE Backed
  OBVIOUS
<1>1. IInv
  BY InitHolds
<1>2. \A t \in Ids : tasks[t] = Task("none", 0, {})
  BY DEF Init
<1>3. \A t \in Ids : Purposeful(tasks[t], t[2])
  BY <1>2 DEF Task, Purposeful
<1>4. \A d \in Denoms : Units(d) = {}
  BY <1>2 DEF Units, Own, Claim, Task
<1>5. ASSUME NEW d \in Denoms PROVE Covered(d)
  <2>1. IsFiniteSet(Units(d)) /\ Cardinality(Units(d)) = 0
    BY <1>4, FS_EmptySet
  <2>2. wallet[d] \in Nat
    BY <1>1 DEF IInv, VariableTypes
  <2> QED
    BY <2>1, <2>2 DEF Covered
<1> QED
  BY <1>3, <1>5 DEF Init, Backed, ShortNeedsMishap

\* A step of one coroutine whose claims change by no more than the wallet.
LEMMA UpdateBacks ==
    ASSUME IInv, IInv', Backed, NEW t \in Ids, NEW k \in TaskRecords,
           tasks' = [tasks EXCEPT ![t] = k], Purposeful(k, t[2]),
           packets' \in {packets, packets \cup {Packet(t)}},
           mishap => mishap', raised => raised',
           short' => short \/ mishap' \/ raised',
           ~mishap' /\ ~raised' =>
               \A d \in Denoms :
                   wallet'[d] - wallet[d] >= Claim(t, d)' - Claim(t, d)
    PROVE  Backed'
<1>1. \A i \in Ids : tasks'[i] = IF i = t THEN k ELSE tasks[i]
  BY DEF IInv, VariableTypes
<1>2. ShortNeedsMishap'
  BY DEF Backed, ShortNeedsMishap
<1>3. \A i \in Ids : Purposeful(tasks'[i], i[2])
  BY <1>1 DEF Backed
<1>4. ASSUME NEW i \in Ids, i # t, NEW d PROVE Claim(i, d)' = Claim(i, d)
  <2>1. tasks'[i] = tasks[i]
    BY <1>1, <1>4
  <2>2. Packet(i)' = Packet(i)
    BY <2>1 DEF Packet
  <2>3. Packet(i) # Packet(t)
    BY <1>4 DEF Packet
  <2>4. Packet(i)' \in packets' <=> Packet(i) \in packets
    BY <2>2, <2>3
  <2> HIDE DEF Packet
  <2> QED
    BY <2>1, <2>4 DEF Claim
<1>5. ASSUME ~mishap', ~raised', NEW d \in Denoms PROVE Covered(d)'
  <2>1. Covered(d)
    BY <1>5 DEF Backed
  <2>2. wallet'[d] - wallet[d] >= Claim(t, d)' - Claim(t, d)
    BY <1>5
  <2> QED
    BY <1>4, <2>1, <2>2, OneClaimChanges
<1> QED
  BY <1>2, <1>3, <1>5 DEF Backed

\* A coroutine that ends, or goes on with what it had, changes no funds.
LEMMA EndBacks ==
    ASSUME IInv, IInv', Backed, NEW t \in Ids, Move(t, "ended"),
           mishap => mishap', raised => raised',
           short' => short \/ mishap' \/ raised', UNCHANGED <<wallet, packets>>
    PROVE  Backed'
<1> DEFINE k == [tasks[t] EXCEPT !.st = "ended"]
<1>1. tasks[t] \in TaskRecords
  BY DEF IInv, VariableTypes
<1>2. k \in TaskRecords /\ k.st = "ended" /\ k.left = tasks[t].left
  BY <1>1 DEF TaskRecords
<1>3. tasks' = [tasks EXCEPT ![t] = k]
  BY DEF Move
<1> HIDE DEF k
<1>4. Purposeful(k, t[2])
  BY <1>2 DEF Backed, Purposeful
<1>5. tasks'[t] = k /\ \A d \in Denoms : Claim(t, d)' = 0
  <2>1. tasks'[t] = k
    BY <1>3 DEF IInv, VariableTypes
  <2> QED
    BY <1>2, <2>1 DEF Claim
<1>6. ASSUME NEW d \in Denoms
      PROVE  wallet'[d] - wallet[d] >=
                Claim(t, d)' - Claim(t, d)
  <2>1. /\ Claim(t, d) \in Nat
        /\ wallet[d] \in Nat /\ wallet'[d] = wallet[d]
    BY <1>1, ClaimIsNat, ClaimStaysNat DEF IInv, VariableTypes
  <2> QED
    BY <1>5, <2>1
<1> QED
  BY <1>2, <1>3, <1>4, <1>6, UpdateBacks

LEMMA SellBacks ==
    ASSUME IInv, IInv', Backed, NEW t \in Ids,
           SkipRoute(t) \/ NoRouteLeft(t) \/ RefuseProfit(t) \/ Take(t) \/ Raise(t)
    PROVE  Backed'
<1>1. /\ tasks[t] \in TaskRecords /\ Purposeful(tasks[t], t[2])
      /\ wallet \in [Denoms -> Nat]
  BY DEF IInv, VariableTypes, Backed
<1>2. CASE SkipRoute(t)
  <2>1. PICK r \in tasks[t].left : tasks' = [tasks EXCEPT ![t].left = @ \ {r}]
    BY <1>2 DEF SkipRoute
  <2> DEFINE k == [tasks[t] EXCEPT !.left = @ \ {r}]
  <2>2. tasks' = [tasks EXCEPT ![t] = k] /\ k \in TaskRecords
    BY <1>1, <2>1 DEF TaskRecords
  <2>3. Purposeful(k, t[2])
    BY <1>1 DEF TaskRecords, Purposeful
  <2>4. \A d \in Denoms : Claim(t, d)' = Claim(t, d)
    <3>1. /\ tasks'[t] = k /\ k.st = tasks[t].st /\ k.balance = tasks[t].balance
          /\ k.route = tasks[t].route /\ k.at = tasks[t].at
          /\ k.amount = tasks[t].amount
      BY <1>1, <2>2 DEF TaskRecords, IInv, VariableTypes
    <3> HIDE DEF k
    <3>2. Packet(t)' = Packet(t) /\ packets' = packets
      BY <1>2, <3>1 DEF Packet, SkipRoute
    <3> QED
      BY <3>1, <3>2 DEF Claim
  <2> HIDE DEF k
  <2>5. ASSUME NEW d \in Denoms
        PROVE  wallet'[d] - wallet[d] >=
                  Claim(t, d)' - Claim(t, d)
    <3>1. /\ Claim(t, d)' \in Nat
          /\ wallet[d] \in Nat /\ wallet'[d] = wallet[d]
      BY <1>1, <1>2, <2>2, ClaimIsNat, ClaimStaysNat DEF SkipRoute
    <3> QED
      BY <2>4, <3>1
  <2> QED
    BY <1>2, <2>2, <2>3, <2>5, UpdateBacks DEF SkipRoute
<1>3. CASE NoRouteLeft(t) \/ RefuseProfit(t) \/ Raise(t)
  BY <1>3, EndBacks DEF NoRouteLeft, RefuseProfit, Raise
<1>4. CASE Take(t)
  <2>1. PICK r \in tasks[t].left, n \in 1..tasks[t].balance :
           tasks' = [tasks EXCEPT ![t].left = @ \ {r}, ![t].route = r, ![t].at = 1,
                                  ![t].amount = n, ![t].st = "swap"]
    BY <1>4 DEF Take
  <2> DEFINE k == [tasks[t] EXCEPT !.left = @ \ {r}, !.route = r, !.at = 1,
                                   !.amount = n, !.st = "swap"]
  <2>2. tasks' = [tasks EXCEPT ![t] = k]
    BY <2>1
  <2>3. /\ k \in TaskRecords /\ k.st = "swap" /\ k.at = 1 /\ k.amount = n
        /\ k.route = r /\ k.left = tasks[t].left \ {r} /\ k.balance = tasks[t].balance
    <3>1. tasks[t].left \in SUBSET Routes /\ tasks[t].balance \in Nat
      BY <1>1 DEF TaskRecords
    <3>2. r \in Routes /\ n \in Nat /\ tasks[t].left \ {r} \in SUBSET Routes
      BY <3>1
    <3> QED
      BY <1>1, <3>2 DEF TaskRecords
  <2> HIDE DEF k
  <2>4. n <= tasks[t].balance /\ tasks[t].balance \in Nat
    BY <1>1 DEF TaskRecords
  <2>5. Purposeful(k, t[2])
    BY <1>1, <2>3, <2>4 DEF Purposeful
  <2>6. \A d \in Denoms : Claim(t, d)' = Claim(t, d)
    <3>1. tasks'[t] = k
      BY <2>2 DEF IInv, VariableTypes
    <3> QED
      BY <1>4, <2>3, <3>1 DEF Take, Claim
  <2>7. ASSUME NEW d \in Denoms
        PROVE  wallet'[d] - wallet[d] >=
                  Claim(t, d)' - Claim(t, d)
    <3>1. /\ Claim(t, d)' \in Nat
          /\ wallet[d] \in Nat /\ wallet'[d] = wallet[d]
      BY <1>1, <1>4, <2>3, ClaimIsNat, ClaimStaysNat DEF Take
    <3> QED
      BY <2>6, <3>1
  <2> QED
    BY <1>4, <2>2, <2>3, <2>5, <2>7, UpdateBacks DEF Take
<1> QED
  BY <1>2, <1>3, <1>4

\* An order that nothing has gone wrong with finds what it is to trade.
LEMMA SwapFindsFunds ==
    ASSUME IInv, Backed, ~mishap, ~raised, NEW t \in Ids, tasks[t].st = "swap"
    PROVE  Enough(t, Batch(t).in)
<1>1. /\ tasks[t] \in TaskRecords /\ Fits(tasks[t])
      /\ Purposeful(tasks[t], t[2])
  BY DEF IInv, VariableTypes, Ordered, Backed
<1>2. /\ tasks[t].route \in Routes /\ tasks[t].at \in 1..Len(tasks[t].route)
      /\ tasks[t].amount \in Nat /\ tasks[t].balance \in Nat
  BY <1>1 DEF Fits, OnRoute, TaskRecords
<1>3. Batch(t).in \in Denoms
  BY <1>2, BatchTypes DEF Batch
<1>4. Covered(Batch(t).in)
  BY <1>3 DEF Backed
<1>5. Claim(t, Batch(t).in) <= wallet[Batch(t).in]
  BY <1>3, <1>4, ClaimIsThere
<1>6. Claim(t, Batch(t).in) \in Nat /\ wallet[Batch(t).in] \in Nat
  BY <1>3, ClaimIsNat DEF IInv, VariableTypes
<1>7. Claim(t, Batch(t).in) >= tasks[t].amount
  BY <1>1, <1>2 DEF Claim, Batch, Purposeful
<1> QED
  BY <1>2, <1>5, <1>6, <1>7 DEF Enough

LEMMA SwapBacks ==
    ASSUME IInv, IInv', Backed, NEW t \in Ids, Swap(t) \/ SwapLost(t) \/ SwapFails(t)
    PROVE  Backed'
<1>1. /\ tasks[t] \in TaskRecords /\ Fits(tasks[t]) /\ tasks[t].st = "swap"
      /\ Purposeful(tasks[t], t[2]) /\ wallet \in [Denoms -> Nat]
  BY DEF IInv, VariableTypes, Ordered, Backed, Swap, SwapLost, SwapFails
<1>2. /\ tasks[t].amount \in Nat /\ tasks[t].balance \in Nat
      /\ Len(tasks[t].route) \in Nat /\ tasks[t].at \in 1..Len(tasks[t].route)
      /\ Batch(t).in \in Denoms /\ Batch(t).out \in Denoms
  BY <1>1, BatchTypes DEF Fits, OnRoute, TaskRecords, Batch
<1>3. PICK st \in {"search", "move", "ended"} :
         /\ Move(t, st)
         /\ Swap(t) => st # "search"
         /\ SwapLost(t) \/ SwapFails(t) => st = "search"
  <2>1. CASE Swap(t)
    <3>1. AfterSwap(t) \in {"move", "ended"} /\ Move(t, AfterSwap(t))
      BY <2>1 DEF Swap, AfterSwap
    <3>2. ~SwapLost(t) /\ ~SwapFails(t)
      <4>1. tasks'[t].st = AfterSwap(t)
        BY <1>1, <3>1 DEF Move, IInv, VariableTypes, TaskRecords
      <4>2. SwapLost(t) \/ SwapFails(t) => tasks'[t].st = "search"
        BY <1>1 DEF SwapLost, SwapFails, Move, IInv, VariableTypes, TaskRecords
      <4> QED
        BY <3>1, <4>1, <4>2
    <3> QED
      BY <3>1, <3>2
  <2>2. CASE ~Swap(t)
    BY <2>2 DEF SwapLost, SwapFails
  <2> QED
    BY <2>1, <2>2
<1> DEFINE k == [tasks[t] EXCEPT !.st = st]
<1>4. /\ tasks' = [tasks EXCEPT ![t] = k] /\ k \in TaskRecords /\ k.st = st
      /\ k.left = tasks[t].left /\ k.balance = tasks[t].balance
      /\ k.route = tasks[t].route /\ k.at = tasks[t].at /\ k.amount = tasks[t].amount
  BY <1>1, <1>3 DEF Move, TaskRecords
<1> HIDE DEF k
<1>k. tasks'[t] = k
  BY <1>4 DEF IInv, VariableTypes
<1>5. Purposeful(k, t[2])
  BY <1>1, <1>3, <1>4 DEF Purposeful
<1>6. CASE Swap(t)
  <2>1. PICK slip \in {0, 1} :
           /\ Trade(t, Batch(t).in, Batch(t).out, tasks[t].amount - slip)
           /\ mishap' = (mishap \/ slip # 0)
    BY <1>6 DEF Swap
  <2>2. ASSUME ~mishap', ~raised', NEW d \in Denoms
        PROVE  wallet'[d] - wallet[d] >=
                  Claim(t, d)' - Claim(t, d)
    <3> DEFINE a == tasks[t].amount
               taken == IF d = Batch(t).in THEN a ELSE 0
               given == IF d = Batch(t).out THEN a ELSE 0
    <3>1. wallet'[d] = wallet[d] - taken + given
      <4>1. slip = 0
        BY <2>1, <2>2
      <4>2. Trade(t, Batch(t).in, Batch(t).out, a)
        BY <1>2, <2>1, <4>1
      <4>3. a \in Nat /\ wallet[d] \in Nat
        BY <1>1, <1>2
      <4>4. CASE Batch(t).in = Batch(t).out
        BY <1>1, <1>2, <4>2, <4>3, <4>4 DEF Trade
      <4>5. CASE Batch(t).in # Batch(t).out
        BY <1>1, <1>2, <4>2, <4>3, <4>5 DEF Trade
      <4> QED
        BY <4>4, <4>5
    <3>2. Claim(t, d)' \in Nat /\ Claim(t, d)' <= given
      BY <1>2, <1>3, <1>4, <1>6, <1>k DEF Claim, Batch
    <3>3. Claim(t, d) \in Nat /\ Claim(t, d) >= taken
      BY <1>1, <1>2 DEF Claim, Batch, Purposeful
    <3>4. wallet[d] \in Nat /\ taken \in Nat /\ given \in Nat
      BY <1>1, <1>2
    <3> HIDE DEF taken, given
    <3> QED
      BY <3>1, <3>2, <3>3, <3>4
  <2> QED
    BY <1>4, <1>5, <1>6, <2>1, <2>2, UpdateBacks DEF Swap
<1>7. CASE SwapLost(t)
  BY <1>4, <1>5, <1>7, UpdateBacks DEF SwapLost
<1>8. CASE SwapFails(t)
  <2>1. ~mishap /\ ~raised => Enough(t, Batch(t).in)
    BY <1>1, SwapFindsFunds
  <2>2. short' => short \/ mishap' \/ raised'
    BY <1>8, <2>1 DEF SwapFails
  <2>3. ASSUME ~mishap', ~raised', NEW d \in Denoms
        PROVE  wallet'[d] - wallet[d] >=
                  Claim(t, d)' - Claim(t, d)
    <3>1. tasks[t].at = 1
      <4>1. ~mishap /\ ~raised
        BY <1>8, <2>3 DEF SwapFails
      <4>2. ~(tasks[t].at > 1)
        BY <1>8, <2>1, <2>3, <4>1 DEF SwapFails
      <4> QED
        BY <1>2, <4>2
    <3>2. Claim(t, d)' = Claim(t, d)
      BY <1>1, <1>3, <1>4, <1>8, <1>k, <3>1 DEF Claim
    <3>3. Claim(t, d)' \in Nat /\ wallet'[d] = wallet[d] /\ wallet[d] \in Nat
      BY <1>1, <1>4, <1>8, ClaimIsNat, ClaimStaysNat DEF SwapFails
    <3> QED
      BY <3>2, <3>3
  <2> QED
    BY <1>4, <1>5, <1>8, <2>2, <2>3, UpdateBacks DEF SwapFails
<1> QED
  BY <1>6, <1>7, <1>8

LEMMA TransferBacks ==
    ASSUME IInv, IInv', Backed, NEW t \in Ids,
           Send(t) \/ SendFails(t) \/ AckSeen(t) \/ GiveUp(t)
    PROVE  Backed'
<1>1. /\ tasks[t] \in TaskRecords /\ Fits(tasks[t])
      /\ Purposeful(tasks[t], t[2]) /\ wallet \in [Denoms -> Nat]
  BY DEF IInv, VariableTypes, Ordered, Backed
<1>2. ASSUME tasks[t].st \in {"move", "wait"}
      PROVE  /\ tasks[t].amount \in Nat /\ tasks[t].at \in Nat /\ tasks[t].at >= 1
             /\ Batch(t).out \in Denoms
             /\ tasks[t].route[tasks[t].at + 1].in \in Denoms
  <2>1. /\ tasks[t].amount \in Nat /\ tasks[t].at \in 1..Len(tasks[t].route)
        /\ tasks[t].at < Len(tasks[t].route) /\ tasks[t].route \in Routes
    BY <1>1, <1>2 DEF Fits, OnRoute, TaskRecords
  <2>2. Len(tasks[t].route) \in Nat
    BY <2>1, BatchTypes
  <2>3. /\ tasks[t].at \in Nat /\ tasks[t].at >= 1
        /\ tasks[t].at + 1 \in 1..Len(tasks[t].route)
    BY <2>1, <2>2
  <2> QED
    BY <2>1, <2>2, <2>3, BatchTypes DEF Batch
<1>3. CASE SendFails(t)
  <2>1. ASSUME ~mishap, ~raised PROVE Enough(t, Batch(t).out)
    <3>1. /\ tasks[t].st = "move" /\ Batch(t).out \in Denoms
          /\ tasks[t].amount \in Nat
      BY <1>2, <1>3 DEF SendFails
    <3>2. Claim(t, Batch(t).out) = tasks[t].amount
      BY <3>1 DEF Claim, Batch
    <3>3. Covered(Batch(t).out)
      BY <2>1, <3>1 DEF Backed
    <3> QED
      BY <1>1, <3>1, <3>2, <3>3, ClaimIsThere DEF Enough
  <2>2. short' => short \/ mishap' \/ raised'
    BY <1>3, <2>1 DEF SendFails
  <2> QED
    BY <1>3, <2>2, EndBacks DEF SendFails
<1>4. CASE GiveUp(t)
  BY <1>4, EndBacks DEF GiveUp
<1>5. CASE Send(t)
  <2> DEFINE k == [tasks[t] EXCEPT !.st = "wait"]
  <2>1. /\ tasks' = [tasks EXCEPT ![t] = k] /\ k \in TaskRecords
        /\ k.st = "wait" /\ k.left = tasks[t].left
        /\ k.route = tasks[t].route /\ k.at = tasks[t].at
        /\ k.amount = tasks[t].amount
    BY <1>1, <1>5 DEF Send, Move, TaskRecords
  <2>2. tasks'[t] = k
    BY <2>1 DEF IInv, VariableTypes
  <2> HIDE DEF k
  <2>3. Purposeful(k, t[2])
    BY <1>1, <2>1 DEF Purposeful
  <2>4. ASSUME NEW d \in Denoms
        PROVE  wallet'[d] - wallet[d] >= Claim(t, d)' - Claim(t, d)
    <3>1. Claim(t, d)' = 0
      <4>1. Packet(t)' = Packet(t) /\ Packet(t) \in packets'
        BY <1>5, <2>1, <2>2 DEF Send, Packet
      <4> QED
        BY <2>1, <2>2, <4>1 DEF Claim
    <3>2. Claim(t, d) = IF d = Batch(t).out THEN tasks[t].amount ELSE 0
      BY <1>5 DEF Send, Claim, Batch
    <3>3. wallet'[d] = wallet[d] - (IF d = Batch(t).out THEN tasks[t].amount ELSE 0)
      BY <1>1, <1>2, <1>5 DEF Send
    <3> QED
      BY <1>1, <1>2, <1>5, <3>1, <3>2, <3>3 DEF Send
  <2>5. packets' = packets \cup {Packet(t)} /\ UNCHANGED <<mishap, raised, short>>
    BY <1>5 DEF Send
  <2> QED
    BY <2>1, <2>3, <2>4, <2>5, UpdateBacks
<1>6. CASE AckSeen(t)
  <2> DEFINE n == tasks[t].at + 1
             k == [tasks[t] EXCEPT !.st = "swap", !.at = n]
  <2>1. n \in Nat /\ n > 1 /\ tasks[t].st = "wait"
    BY <1>2, <1>6 DEF AckSeen
  <2>2. tasks' = [tasks EXCEPT ![t] = k]
    BY <1>6 DEF AckSeen
  <2>3. ASSUME NEW d, Packet(t) \notin packets
        PROVE  Claim(t, d) = IF d = tasks[t].route[n].in THEN tasks[t].amount ELSE 0
    BY <2>1, <2>3 DEF Claim
  <2> HIDE DEF n
  <2>4. /\ k \in TaskRecords /\ k.st = "swap" /\ k.at = n
        /\ k.left = tasks[t].left /\ k.route = tasks[t].route
        /\ k.amount = tasks[t].amount
    BY <1>1, <2>1 DEF TaskRecords
  <2>5. tasks'[t] = k
    BY <2>2 DEF IInv, VariableTypes
  <2> HIDE DEF k
  <2>6. Purposeful(k, t[2])
    BY <1>1, <2>1, <2>4 DEF Purposeful
  <2>7. /\ packets' = packets /\ UNCHANGED <<wallet, raised, short>>
        /\ mishap' = (mishap \/ Packet(t) \in packets)
    BY <1>6 DEF AckSeen
  <2>8. ASSUME ~mishap', ~raised', NEW d \in Denoms
        PROVE  wallet'[d] - wallet[d] >= Claim(t, d)' - Claim(t, d)
    <3>1. Claim(t, d) = IF d = tasks[t].route[n].in THEN tasks[t].amount ELSE 0
      BY <2>3, <2>7, <2>8
    <3>2. Claim(t, d)' = IF d = tasks[t].route[n].in THEN tasks[t].amount ELSE 0
      <4>1. n # 1
        BY <2>1
      <4> QED
        BY <2>4, <2>5, <4>1 DEF Claim
    <3>3. Claim(t, d) \in Nat /\ wallet[d] \in Nat /\ wallet'[d] = wallet[d]
      BY <1>1, <2>7, ClaimIsNat
    <3> QED
      BY <3>1, <3>2, <3>3
  <2> QED
    BY <2>2, <2>4, <2>6, <2>7, <2>8, UpdateBacks
<1> QED
  BY <1>3, <1>4, <1>5, <1>6

\* A packet brings what the coroutine that waits for it then counts on.
LEMMA PacketBacks ==
    ASSUME IInv, IInv', Backed, NEW p \in packets, Arrive(p) \/ Refund(p)
    PROVE  Backed'
<1> DEFINE t == p.of
<1>1. /\ packets' = packets \ {p} /\ UNCHANGED <<tasks, mishap, raised, short>>
      /\ wallet \in [Denoms -> Nat] /\ wallet' \in [Denoms -> Nat]
  BY DEF Arrive, Refund, IInv, VariableTypes
<1>2. t \in Ids /\ p.amount \in Nat /\ Left(p) \in Denoms /\ To(p) \in Denoms
  BY PacketTypes
<1>3. \A i \in Ids : Packet(i)' = Packet(i)
  BY <1>1 DEF Packet
<1>4. ASSUME NEW i \in Ids, i # t, NEW d PROVE Claim(i, d)' = Claim(i, d)
  <2>1. Packet(i) # p
    BY <1>4 DEF Packet
  <2>2. Packet(i)' \in packets' <=> Packet(i) \in packets
    BY <1>1, <1>3, <2>1
  <2> QED
    BY <1>1, <2>2 DEF Claim
<1>5. \A d : wallet'[d] >= wallet[d] \/ d \notin Denoms
  BY <1>1, <1>2 DEF Arrive, Refund
<1>6. ASSUME NEW d \in Denoms
      PROVE  wallet'[d] - wallet[d] >= Claim(t, d)' - Claim(t, d)
  <2>n. Claim(t, d) \in Nat /\ Claim(t, d)' \in Nat /\ wallet[d] \in Nat
        /\ wallet'[d] \in Nat
    BY <1>1, <1>2, ClaimIsNat, ClaimStaysNat
  <2>1. CASE Awaited(p)
    <3>1. /\ tasks[t].st = "wait" /\ tasks[t].amount = p.amount
          /\ tasks[t].route = p.route /\ tasks[t].at = p.at /\ Packet(t) = p
      <4>1. Packet(t) = p /\ tasks[t].st = "wait"
        BY <2>1 DEF Awaited
      <4> QED
        BY <4>1 DEF Packet
    <3>2. wallet' = [wallet EXCEPT ![To(p)] = @ + p.amount]
      BY <2>1 DEF Arrive, Refund
    <3>3. Claim(t, d) = 0
      BY <3>1 DEF Claim
    <3>4. Claim(t, d)' = IF d = To(p) THEN p.amount ELSE 0
      BY <1>1, <1>3, <3>1, <1>2 DEF Claim, To
    <3> QED
      BY <1>1, <1>2, <3>2, <3>3, <3>4
  <2>2. CASE ~Awaited(p)
    <3>1. Claim(t, d)' = Claim(t, d)
      <4>1. CASE tasks[t].st # "wait"
        BY <1>1, <4>1 DEF Claim
      <4>2. CASE tasks[t].st = "wait"
        <5>1. Packet(t) # p
          BY <2>2, <4>2 DEF Awaited
        <5>2. Packet(t)' \in packets' <=> Packet(t) \in packets
          BY <1>1, <1>2, <1>3, <5>1
        <5> QED
          BY <1>1, <5>2 DEF Claim
      <4> QED
        BY <4>1, <4>2
    <3> QED
      BY <1>5, <2>n, <3>1
  <2> QED
    BY <2>1, <2>2
<1> HIDE DEF t
<1>7. ASSUME ~mishap', ~raised', NEW d \in Denoms PROVE Covered(d)'
  <2>1. Covered(d)
    BY <1>1, <1>7 DEF Backed
  <2> QED
    BY <1>2, <1>4, <1>6, <2>1, OneClaimChanges
<1> QED
  BY <1>1, <1>7 DEF Backed, ShortNeedsMishap

LEMMA MainBacks ==
    ASSUME IInv, IInv', Backed, Main \/ Cancel \/ NextRound
    PROVE  Backed'
<1>1. /\ UNCHANGED <<wallet, packets, mishap, raised, short>>
      /\ wallet \in [Denoms -> Nat]
  BY DEF IInv, VariableTypes, Main, Cancel, NextRound, SkipChain, Gather, Gathered,
         Return, LoopRaises
<1>2. CASE tasks' = tasks
  BY <1>1, <1>2, NothingMoves
<1>3. CASE Gather
  <2> DEFINE found(d) == {r \in Routes : r[1].in = d}
             begins(t) == t[1] = round /\ t[2] \in Qualifying(Chains[chain])
  <2>1. \A t \in Ids :
           tasks'[t] = IF begins(t)
                       THEN Task(IF t[2] \in Gas THEN "ended" ELSE "search",
                                 wallet[t[2]], found(t[2]))
                       ELSE tasks[t]
    BY <1>3 DEF Gather
  <2> HIDE DEF found, begins
  <2>2. ASSUME NEW t \in Ids, begins(t)
        PROVE  /\ tasks'[t].st \in {"ended", "search"}
               /\ tasks'[t].balance = wallet[t[2]]
               /\ tasks'[t].left = found(t[2])
    <3> DEFINE st == IF t[2] \in Gas THEN "ended" ELSE "search"
    <3>1. tasks'[t] = Task(st, wallet[t[2]], found(t[2]))
      BY <2>1, <2>2
    <3>2. st \in {"ended", "search"}
      OBVIOUS
    <3> HIDE DEF st
    <3> QED
      BY <3>1, <3>2 DEF Task
  <2>3. ASSUME NEW t \in Ids PROVE Purposeful(tasks'[t], t[2])
    <3>1. CASE begins(t)
      BY <2>2, <3>1 DEF Purposeful, found
    <3>2. CASE ~begins(t)
      BY <2>1, <3>2 DEF Backed
    <3> QED
      BY <3>1, <3>2
  <2>4. ASSUME ~mishap, ~raised, NEW d \in Denoms PROVE Covered(d)'
    <3> DEFINE own == {<<round, d>>} \X (1..wallet[d])
    <3>1. \A t \in Ids : tasks[t].st \in {"none", "ended"}
      BY <1>3, <2>4 DEF Gather, InLoop, IInv, NoneLeftBehind, Running
    <3>2. ASSUME NEW t \in Ids PROVE Own(t, d)' \subseteq own
      <4>1. \/ Claim(t, d)' = 0
            \/ t[1] = round /\ t[2] = d /\ Claim(t, d)' = wallet[d]
        <5>1. CASE begins(t)
          <6> QED
            BY <2>2, <5>1 DEF Claim, begins
        <5>2. CASE ~begins(t)
          BY <2>1, <3>1, <5>2 DEF Claim
        <5> QED
          BY <5>1, <5>2
      <4>2. t = <<t[1], t[2]>>
        BY DEF Ids
      <4> QED
        BY <4>1, <4>2 DEF Own
    <3>3. Units(d)' \in SUBSET own
      <4>1. Units(d)' = UNION {Own(t, d)' : t \in Ids}
        BY DEF Units
      <4> QED
        BY <3>2, <4>1
    <3>4. IsFiniteSet(own) /\ Cardinality(own) = wallet[d] /\ wallet[d] \in Nat
      BY <1>1, OwnSize
    <3> HIDE DEF own
    <3>5. IsFiniteSet(Units(d)') /\ Cardinality(Units(d)') <= wallet[d]
      BY <3>3, <3>4, FS_Subset
    <3> QED
      BY <1>1, <3>5 DEF Covered
  <2> QED
    BY <1>1, <2>3, <2>4 DEF Backed, ShortNeedsMishap
<1>4. CASE Cancel
  <2>1. \A t \in Ids : \/ tasks'[t] = tasks[t]
                       \/ /\ tasks[t] \in TaskRecords
                          /\ tasks'[t] = [tasks[t] EXCEPT !.st = "ended"]
    BY <1>4 DEF Cancel, IInv, VariableTypes
  <2>2. \A t \in Ids : Purposeful(tasks'[t], t[2])
    BY <2>1 DEF Backed, Purposeful, TaskRecords
  <2>3. ASSUME ~mishap, ~raised, NEW d \in Denoms PROVE Covered(d)'
    <3>1. ASSUME NEW t \in Ids PROVE Own(t, d)' \subseteq Own(t, d)
      <4>1. Claim(t, d)' = Claim(t, d) \/ Claim(t, d)' = 0
        <5>1. tasks'[t] = tasks[t] \/ tasks'[t].st = "ended"
          BY <2>1 DEF TaskRecords
        <5>2. CASE tasks'[t] = tasks[t]
          <6>1. Packet(t)' = Packet(t)
            BY <5>2 DEF Packet
          <6> QED
            BY <1>1, <5>2, <6>1 DEF Claim
        <5>3. CASE tasks'[t].st = "ended"
          BY <5>3 DEF Claim
        <5> QED
          BY <5>1, <5>2, <5>3
      <4> QED
        BY <4>1 DEF Own
    <3>2. Units(d)' \in SUBSET Units(d)
      <4>1. Units(d)' = UNION {Own(t, d)' : t \in Ids}
        BY DEF Units
      <4> QED
        BY <3>1, <4>1 DEF Units
    <3>3. IsFiniteSet(Units(d)) /\ Cardinality(Units(d)) <= wallet[d]
      BY <2>3 DEF Backed, Covered
    <3>4. IsFiniteSet(Units(d)') /\ Cardinality(Units(d)') <= Cardinality(Units(d))
      BY <3>2, <3>3, FS_Subset
    <3>5. /\ Cardinality(Units(d)') \in Nat /\ Cardinality(Units(d)) \in Nat
          /\ wallet[d] \in Nat
      BY <1>1, <3>3, <3>4, FS_CardinalityType
    <3> QED
      BY <1>1, <3>3, <3>4, <3>5 DEF Covered
  <2> QED
    BY <1>1, <2>2, <2>3 DEF Backed, ShortNeedsMishap
<1> QED
  BY <1>2, <1>3, <1>4
  DEF Main, NextRound, SkipChain, Gathered, Return, LoopRaises

LEMMA StepBacks == IInv /\ Backed /\ [Next]_vars => IInv' /\ Backed'
<1> SUFFICES ASSUME IInv, Backed, [Next]_vars PROVE Backed'
  BY StepKeeps
<1>0. IInv'
  BY StepKeeps
<1>1. CASE UNCHANGED vars
  BY <1>1, NothingMoves DEF vars
<1>2. ASSUME NEW t \in Ids, Step(t) PROVE Backed'
  BY <1>0, <1>2, SellBacks, SwapBacks, TransferBacks DEF Step
<1> QED
  BY <1>0, <1>1, <1>2, MainBacks, PacketBacks DEF Next

-----------------------------------------------------------------------------
(* Theorems                                                                *)

\* The strengthened invariant: an order under way stands in its route and has
\* something to trade.
THEOREM Invariance == Spec => []IInv
<1>1. Init => IInv
  BY InitHolds
<1>2. IInv /\ [Next]_vars => IInv'
  BY StepKeeps
<1> QED
  BY <1>1, <1>2, PTL DEF Spec

\* The variables keep their types: no order spends what the wallet has not.
THEOREM TypeCorrect == Spec => []TypeOK
<1>1. IInv => TypeOK
  BY DEF IInv, TypeOK
<1> QED
  BY <1>1, Invariance, PTL

\* However the sales of one chain and the rounds of the event loop overlap, a
\* sale runs past its chain's turn only after some coroutine raised.
THEOREM LeftBehindNeedsRaise == Spec => []NoneLeftBehind
<1>1. IInv => NoneLeftBehind
  BY DEF IInv
<1> QED
  BY <1>1, Invariance, PTL

\* For any wallet and any routes the coroutines that sell it do not take what
\* another has in hand: an order finds too little only after one went wrong
\* halfway or a coroutine raised.
THEOREM ShortageNeedsMishap == Spec => []ShortNeedsMishap
<1>1. Init => IInv /\ Backed
  BY InitHolds, InitBacked
<1>2. IInv /\ Backed /\ [Next]_vars => IInv' /\ Backed'
  BY StepBacks
<1>3. Backed => ShortNeedsMishap
  BY DEF Backed
<1> QED
  BY <1>1, <1>2, <1>3, PTL DEF Spec

-----------------------------------------------------------------------------
(* Sales end                                                               *)

LEMMA LeftIsFinite ==
    ASSUME IInv, NEW t \in Ids
    PROVE  /\ tasks[t] \in TaskRecords /\ Fits(tasks[t])
           /\ tasks[t].left \subseteq Routes
           /\ IsFiniteSet(tasks[t].left) /\ Cardinality(tasks[t].left) \in Nat
<1>1. /\ tasks[t] \in TaskRecords /\ Fits(tasks[t])
      /\ tasks[t].left \subseteq Routes
  BY DEF IInv, VariableTypes, Ordered, TaskRecords
<1>2. IsFiniteSet(Routes)
  BY RebalanceAssumption
<1> QED
  BY <1>1, <1>2, FS_Subset, FS_CardinalityType

LEMMA OrderLeftIsNat ==
    ASSUME NEW k \in TaskRecords, Fits(k)
    PROVE  OrderLeft(k) \in Nat
<1>1. CASE k.st \in {"swap", "move", "wait"}
  <2>1. k.route \in Routes /\ k.at \in 1..Len(k.route)
    BY <1>1 DEF Fits, OnRoute
  <2>2. Len(k.route) \in Nat
    BY <2>1, BatchTypes
  <2> QED
    BY <1>1, <2>1, <2>2 DEF OrderLeft
<1>2. CASE k.st \notin {"swap", "move", "wait"}
  BY <1>2 DEF OrderLeft
<1> QED
  BY <1>1, <1>2

\* A route taken or passed over is one less.
LEMMA RouteUsed ==
    ASSUME IInv, NEW t \in Ids, SkipRoute(t) \/ Take(t)
    PROVE  /\ tasks'[t].left \subseteq tasks[t].left
           /\ Fewer(tasks'[t], tasks[t])
<1>1. PICK r \in tasks[t].left : tasks'[t].left = tasks[t].left \ {r}
  <2>1. tasks \in [Ids -> TaskRecords] /\ tasks[t] \in TaskRecords
    BY DEF IInv, VariableTypes
  <2>2. CASE SkipRoute(t)
    BY <2>1, <2>2 DEF SkipRoute, TaskRecords
  <2>3. CASE Take(t)
    <3>1. PICK r \in tasks[t].left, n \in 1..tasks[t].balance :
             tasks' = [tasks EXCEPT ![t].left = @ \ {r}, ![t].route = r, ![t].at = 1,
                                    ![t].amount = n, ![t].st = "swap"]
      BY <2>3 DEF Take
    <3> QED
      BY <2>1, <3>1 DEF TaskRecords
  <2> QED
    BY <2>2, <2>3
<1>2. Cardinality(tasks[t].left \ {r}) = Cardinality(tasks[t].left) - 1
  BY LeftIsFinite, FS_RemoveElement
<1>3. Cardinality(tasks[t].left) \in Nat
  BY LeftIsFinite
<1> QED
  BY <1>1, <1>2, <1>3 DEF Fewer

\* How far an order is from its end, by the batches after the one it is at.
LEMMA LeftAfter ==
    ASSUME NEW k, NEW after \in Int, Len(k.route) - k.at = after
    PROVE  /\ k.st = "search" => OrderLeft(k) = 1
           /\ k.st = "swap"   => OrderLeft(k) = 4 + 3 * after
           /\ k.st = "move"   => OrderLeft(k) = 3 + 3 * after
           /\ k.st = "wait"   => OrderLeft(k) = 2 + 3 * after
           /\ k.st = "ended"  => OrderLeft(k) = 0
BY DEF OrderLeft

LEMMA OrderCloser ==
    ASSUME IInv, NEW t \in Ids, Step(t), ~SkipRoute(t), ~Take(t)
    PROVE  /\ tasks'[t].left = tasks[t].left
           /\ OrderLeft(tasks'[t]) < OrderLeft(tasks[t])
<1> DEFINE k == tasks[t]
           l == tasks'[t]
<1>1. k \in TaskRecords /\ Fits(k)
  BY LeftIsFinite
<1>2. CASE NoRouteLeft(t) \/ RefuseProfit(t) \/ Raise(t)
  <2>1. k.st = "search" /\ l = [k EXCEPT !.st = "ended"]
    BY <1>2 DEF NoRouteLeft, RefuseProfit, Raise, Move, IInv, VariableTypes
  <2> QED
    BY <1>1, <2>1 DEF OrderLeft, TaskRecords
<1>3. CASE k.st \in {"swap", "move", "wait"}
  <2>1. /\ k.at \in Nat /\ Len(k.route) \in Nat /\ k.at <= Len(k.route)
        /\ k.at \in 1..Len(k.route)
    BY <1>1, <1>3, BatchTypes DEF Fits, OnRoute, TaskRecords
  <2> DEFINE after == Len(k.route) - k.at
  <2>5. after \in Nat
    BY <2>1
  <2>2. CASE Swap(t) \/ SwapLost(t) \/ SwapFails(t)
    <3>1. PICK st \in {"search", "move", "ended"} : l = [k EXCEPT !.st = st]
      BY <2>2 DEF Swap, SwapLost, SwapFails, Move, AfterSwap, IInv, VariableTypes
    <3>2. k.st = "swap"
      BY <2>2 DEF Swap, SwapLost, SwapFails
    <3>3. /\ l.st \in {"search", "move", "ended"}
          /\ l.left = k.left /\ l.route = k.route /\ l.at = k.at
      BY <1>1, <3>1 DEF TaskRecords
    <3>4. /\ OrderLeft(k) = 4 + 3 * after
          /\ OrderLeft(l) \in {0, 1, 3 + 3 * after}
      <4> HIDE DEF after, k, l
      <4>1. Len(k.route) - k.at = after /\ Len(l.route) - l.at = after
        BY <3>3 DEF after
      <4> QED
        BY <2>5, <3>2, <3>3, <4>1, LeftAfter
    <3> HIDE DEF after
    <3> QED
      BY <2>5, <3>3, <3>4
  <2>3. CASE Send(t) \/ SendFails(t) \/ GiveUp(t)
    <3>1. /\ \/ k.st = "move" /\ l.st \in {"wait", "ended"}
             \/ k.st = "wait" /\ l.st = "ended"
          /\ l.left = k.left /\ l.route = k.route /\ l.at = k.at
      BY <1>1, <2>3 DEF Send, SendFails, GiveUp, Move, IInv, VariableTypes, TaskRecords
    <3>2. \/ /\ OrderLeft(k) = 3 + 3 * after
             /\ OrderLeft(l) \in {0, 2 + 3 * after}
          \/ OrderLeft(k) = 2 + 3 * after /\ OrderLeft(l) = 0
      <4> HIDE DEF after, k, l
      <4>1. Len(k.route) - k.at = after /\ Len(l.route) - l.at = after
        BY <3>1 DEF after
      <4> QED
        BY <2>5, <3>1, <4>1, LeftAfter
    <3> HIDE DEF after
    <3> QED
      BY <2>5, <3>1, <3>2
  <2>4. CASE AckSeen(t)
    <3>1. /\ k.st = "wait" /\ l.st = "swap" /\ l.at = k.at + 1
          /\ l.left = k.left /\ l.route = k.route
      BY <1>1, <2>4 DEF AckSeen, IInv, VariableTypes, TaskRecords
    <3>2. OrderLeft(k) = 2 + 3 * after /\ OrderLeft(l) = 4 + 3 * (after - 1)
      <4>1. Len(k.route) - k.at = after /\ Len(l.route) - l.at = after - 1
        BY <2>1, <3>1
      <4> HIDE DEF after, k, l
      <4> QED
        BY <2>5, <3>1, <4>1, LeftAfter
    <3> HIDE DEF after
    <3> QED
      BY <2>5, <3>1, <3>2
  <2> QED
    BY <1>3, <2>2, <2>3, <2>4 DEF Step, NoRouteLeft, RefuseProfit, Raise
<1> QED
  BY <1>2, <1>3 DEF Step, Swap, SwapLost, SwapFails, Send, SendFails, AckSeen,
     GiveUp

\* A coroutine that runs is left alone by all other steps, but for being
\* cancelled.
LEMMA OthersUndoNothing ==
    ASSUME IInv, InTheirRound, [Next]_vars, NEW t \in Running, ~Step(t)
    PROVE  /\ tasks'[t].left = tasks[t].left
           /\ OrderLeft(tasks'[t]) \in {OrderLeft(tasks[t]), 0}
<1> DEFINE k == tasks[t]
           l == tasks'[t]
<1>1. t \in Ids /\ k \in TaskRecords /\ tasks \in [Ids -> TaskRecords]
  BY DEF Running, IInv, VariableTypes
<1>2. \/ l = k
      \/ l = [k EXCEPT !.st = "ended"]
  <2>1. CASE Main \/ NextRound \/ UNCHANGED vars
    <3>1. CASE Gather
      <4>1. t[1] # round
        BY <3>1 DEF Gather, InLoop, InTheirRound, Ids, IInv, VariableTypes
      <4> QED
        BY <1>1, <3>1, <4>1 DEF Gather
    <3> QED
      BY <2>1, <3>1 DEF Main, SkipChain, Gathered, Return, LoopRaises, NextRound, vars
  <2>2. CASE Cancel
    BY <1>1, <2>2 DEF Cancel
  <2>3. ASSUME NEW p \in packets, Arrive(p) \/ Refund(p) PROVE l = k
    BY <2>3 DEF Arrive, Refund
  <2>4. ASSUME NEW u \in Ids, Step(u) PROVE l = k
    <3>1. u # t
      BY <2>4
    <3>2. \A v \in Ids : v # u => tasks'[v] = tasks[v]
      <4>1. \E x : tasks' = [tasks EXCEPT ![u] = x]
        BY <2>4 DEF Step, SkipRoute, NoRouteLeft, RefuseProfit, Take, Raise,
           Swap, SwapLost, SwapFails, Send, SendFails, AckSeen, GiveUp, Move
      <4> QED
        BY <1>1, <4>1
    <3> QED
      BY <1>1, <3>1, <3>2
  <2> QED
    BY <2>1, <2>2, <2>3, <2>4 DEF Next
<1>3. /\ l.left = k.left /\ l.route = k.route /\ l.at = k.at
      /\ l.st = k.st \/ l.st = "ended"
  BY <1>1, <1>2 DEF TaskRecords
<1> HIDE DEF k, l
<1> QED
  BY <1>3 DEF OrderLeft, k, l

LEMMA RunningAdvances ==
    ASSUME IInv, IInv', InTheirRound, [Next]_vars, NEW t \in Running
    PROVE  Advances(t)
<1>1. t \in Ids
  BY DEF Running
<1>2. {OrderLeft(tasks[t]), OrderLeft(tasks'[t])} \subseteq Nat
  <2>1. tasks[t] \in TaskRecords /\ Fits(tasks[t])
    BY <1>1 DEF IInv, VariableTypes, Ordered
  <2>2. tasks'[t] \in TaskRecords /\ Fits(tasks'[t])
    BY <1>1 DEF IInv, VariableTypes, Ordered
  <2> QED
    BY <2>1, <2>2, OrderLeftIsNat
<1>3. CASE SkipRoute(t) \/ Take(t)
  BY <1>1, <1>2, <1>3, RouteUsed DEF Advances
<1>4. CASE Step(t) /\ ~SkipRoute(t) /\ ~Take(t)
  BY <1>1, <1>2, <1>4, OrderCloser DEF Advances
<1>5. CASE ~Step(t)
  BY <1>2, <1>5, OthersUndoNothing DEF Advances
<1> QED
  BY <1>3, <1>4, <1>5

LEMMA RoundKept == IInv /\ InTheirRound /\ [Next]_vars => InTheirRound'
<1> SUFFICES ASSUME IInv, InTheirRound, [Next]_vars PROVE InTheirRound'
  OBVIOUS
<1> USE DEF InTheirRound
<1>1. \A t \in Ids : t[1] \in Int
  BY RebalanceAssumption DEF Ids
<1>2. round \in Nat /\ tasks \in [Ids -> TaskRecords]
  BY DEF IInv, VariableTypes
<1>3. CASE Gather
  <2>1. \A t \in Running' :
           t \in Running \/ (t[1] = round /\ ChainOf[t[2]] = Chains[chain])
    BY <1>2, <1>3 DEF Gather, Running, Qualifying
  <2>2. Running \subseteq Ids /\ Running' \subseteq Ids
    BY DEF Running
  <2> QED
    BY <1>1, <1>2, <1>3, <2>1, <2>2 DEF Gather, InLoop, OfChain
<1>4. CASE ~Gather
  <2>1. Running' \subseteq Running /\ Running \subseteq Ids
    <3> SUFFICES ASSUME NEW t \in Running' PROVE t \in Running
      BY DEF Running
    <3>1. t \in Ids /\ tasks'[t].st \notin {"none", "ended"}
      BY DEF Running
    <3>2. CASE UNCHANGED vars \/ Main \/ Cancel \/ NextRound
      BY <1>2, <1>4, <3>1, <3>2 DEF vars, Main, SkipChain, Gathered, Return,
         LoopRaises, Cancel, NextRound, Running
    <3>3. ASSUME NEW p \in packets, Arrive(p) \/ Refund(p) PROVE t \in Running
      BY <3>1, <3>3 DEF Arrive, Refund, Running
    <3>4. ASSUME NEW u \in Ids, Step(u) PROVE t \in Running
      <4>1. CASE u = t
        BY <3>1, <3>4, <4>1 DEF Step, SkipRoute, NoRouteLeft, RefuseProfit, Take, Raise,
           Swap, SwapLost, SwapFails, Send, SendFails, AckSeen, GiveUp, Running
      <4>2. CASE u # t
        <5>1. \E x : tasks' = [tasks EXCEPT ![u] = x]
          BY <3>4 DEF Step, SkipRoute, NoRouteLeft, RefuseProfit, Take, Raise,
             Swap, SwapLost, SwapFails, Send, SendFails, AckSeen, GiveUp, Move
        <5> QED
          BY <1>2, <3>1, <4>2, <5>1 DEF Running
      <4> QED
        BY <4>1, <4>2
    <3> QED
      BY <3>2, <3>3, <3>4 DEF Next
  <2>2. CASE Gathered
    BY <1>1, <1>2, <2>1, <2>2 DEF Gathered, AllEnded
  <2>3. CASE NextRound
    BY <1>1, <1>2, <2>1, <2>3 DEF NextRound
  <2>4. CASE SkipChain \/ Return \/ LoopRaises \/ Cancel
    BY <1>1, <1>2, <2>1, <2>4 DEF SkipChain, Return, LoopRaises, Cancel, InLoop
  <2>5. CASE \/ UNCHANGED vars
             \/ \E t \in Ids : Step(t)
             \/ \E p \in packets : Arrive(p) \/ Refund(p)
    <3>1. /\ round' = round /\ chain' = chain
          /\ pc' = pc \/ pc' = "strategy"
      BY <2>5 DEF vars, Step, SkipRoute, NoRouteLeft, RefuseProfit, Take, Raise,
         Swap, SwapLost, SwapFails, Send, SendFails, AckSeen, GiveUp, Arrive, Refund
    <3>2. OfChain' = OfChain
      BY <3>1 DEF OfChain
    <3> QED
      BY <2>1, <3>1, <3>2
  <2> QED
    BY <1>4, <2>2, <2>3, <2>4, <2>5 DEF Next, Main
<1> QED
  BY <1>3, <1>4

\* For any wallet, routes, chains and rounds, whatever the packets and the other
\* sales do, each step of a coroutine uses up one of finitely many routes or
\* brings its order closer to its end.
THEOREM SalesAreBounded == Spec => SalesAdvance
<1>1. Init => InTheirRound
  BY DEF Init, InTheirRound, Running, Task
<1>2. Spec => []InTheirRound
  BY <1>1, RoundKept, Invariance, PTL DEF Spec
<1>3. IInv /\ IInv' /\ InTheirRound /\ [Next]_vars =>
         [\A t \in Running : Advances(t)]_vars
  BY RunningAdvances
<1> QED
  BY <1>2, <1>3, Invariance, PTL DEF Spec, SalesAdvance
=============================================================================
