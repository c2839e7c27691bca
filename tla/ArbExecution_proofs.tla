------------------------ MODULE ArbExecution_proofs ------------------------
(***************************************************************************)
(* For every set of chains, bound on the length of a route, margin and     *)
(* set of profits: the flags of an order are honest, an order the bot      *)
(* walks away from is recorded exactly, EXECUTED means the funds are home, *)
(* the funds stay on the route, and the order implements AtomicOrder.      *)
(* The inductive invariant IInv adds to these where exec_arb stands        *)
(* (Progress) and which verdict goes with which point (Control).           *)
(***************************************************************************)
EXTENDS ArbExecution, SequenceTheorems, TLAPS

\* A route is a function on 1..N with two legs at least.
LEMMA RouteShape ==
    ASSUME route \in Routes
    PROVE  /\ N \in Nat /\ N >= 2 /\ N <= MaxLegs
           /\ route \in [1..N -> Chains]
<1>1. PICK n \in 2..MaxLegs : route \in [1..n -> Chains]
  BY DEF Routes
<1>2. n \in Nat /\ MaxLegs \in Nat
  BY ArbAssumption
<1>3. route \in Seq(Chains)
  BY <1>1, <1>2, SMT
<1>4. Len(route) = n
  BY <1>1, <1>2, <1>3, LenProperties, SMT
<1> QED BY <1>1, <1>2, <1>4 DEF N

\* Marking a batch extends the marked prefix by it.
LEMMA PrefixGrows ==
    ASSUME NEW h \in Nat, NEW t \in Nat, 1 <= h, h <= t
    PROVE  (1..(h - 1)) \cup (h..t) = 1..t
  OBVIOUS

LEMMA EmptyPrefix == 1..0 = {}
  OBVIOUS

\* What does not touch the flags, the chain or the verdict keeps the three
\* properties that speak of nothing else.
LEMMA Frame ==
    ASSUME IInv, UNCHANGED <<route, stage, marked, settled, funds, status>>
    PROVE  FlagsAreHonest' /\ ExecutedIsHome' /\ FundsOnRoute'
<1>1. FlagsAreHonest'
  BY DEF IInv, FlagsAreHonest
<1>2. ExecutedIsHome'
  BY DEF IInv, ExecutedIsHome, Spendable, Denom, N, funds
<1>3. FundsOnRoute'
  BY DEF IInv, FundsOnRoute, Near, Denom, N, funds
<1> QED BY <1>1, <1>2, <1>3


\* The steps that move the control point only.

LEMMA RefusePlanKeeps == ASSUME IInv, RefusePlan PROVE IInv'
<1>1. TypeOK'
  BY RouteShape DEF RefusePlan, IInv, order, funds, N, TypeOK, Points, Ended, Raised
<1>2. Control'
  BY DEF RefusePlan, IInv, order, funds, N, Control, TypeOK, Stages, Raised, Ended
<1>3. Progress'
  BY RouteShape DEF RefusePlan, IInv, order, funds, N, Progress, Control, TypeOK, Stages, Running, Size, LegChain, Raised, Ended
<1>4. AbandonedIsExact'
  BY DEF RefusePlan, IInv, order, funds, N, AbandonedIsExact, Progress, Control, TypeOK, Stages, Running, Raised, Ended
<1>5. FlagsAreHonest' /\ ExecutedIsHome' /\ FundsOnRoute'
  BY Frame DEF RefusePlan, order, funds
<1> QED BY <1>1, <1>2, <1>3, <1>4, <1>5 DEF IInv

LEMMA RefuseProfitKeeps == ASSUME IInv, RefuseProfit PROVE IInv'
<1>1. TypeOK'
  BY RouteShape DEF RefuseProfit, IInv, order, funds, N, TypeOK, Points, Ended, Raised
<1>2. Control'
  BY DEF RefuseProfit, IInv, order, funds, N, Control, TypeOK, Stages, Raised, Ended
<1>3. Progress'
  BY RouteShape, EmptyPrefix DEF RefuseProfit, IInv, order, funds, N, Progress, Control, TypeOK, Stages, Running, Size, LegChain, Raised, Ended
<1>4. AbandonedIsExact'
  BY DEF RefuseProfit, IInv, order, funds, N, AbandonedIsExact, Progress, Control, TypeOK, Stages, Running, Raised, Ended
<1>5. FlagsAreHonest' /\ ExecutedIsHome' /\ FundsOnRoute'
  BY Frame DEF RefuseProfit, order, funds
<1> QED BY <1>1, <1>2, <1>3, <1>4, <1>5 DEF IInv

LEMMA StartOrderKeeps == ASSUME IInv, StartOrder PROVE IInv'
<1>1. TypeOK'
  BY RouteShape DEF StartOrder, IInv, order, funds, N, TypeOK, Points, Ended, Raised
<1>2. Control'
  BY DEF StartOrder, IInv, order, funds, N, Control, TypeOK, Stages, Raised, Ended
<1>3. Progress'
  BY RouteShape, EmptyPrefix DEF StartOrder, IInv, order, funds, N, Progress, Control, TypeOK, Stages, Running, Size, LegChain, Raised, Ended
<1>4. AbandonedIsExact'
  BY DEF StartOrder, IInv, order, funds, N, AbandonedIsExact, Progress, Control, TypeOK, Stages, Running, Raised, Ended
<1>5. FlagsAreHonest' /\ ExecutedIsHome' /\ FundsOnRoute'
  BY Frame DEF StartOrder, order, funds
<1> QED BY <1>1, <1>2, <1>3, <1>4, <1>5 DEF IInv

LEMMA NextBatchKeeps == ASSUME IInv, NextBatch PROVE IInv'
<1>1. TypeOK'
  BY RouteShape DEF NextBatch, IInv, order, funds, N, TypeOK, Points, Ended, Raised, Size
<1>2. Control'
  BY DEF NextBatch, IInv, order, funds, N, Control, TypeOK, Stages, Raised, Ended
<1>3. Progress'
  <2>1. PICK j \in head..Size : IsBatch(head, j) /\ tail' = j
    BY DEF NextBatch
  <2>2. head <= j /\ j <= Size /\ LegChain(j) = LegChain(head)
    BY <2>1, RouteShape DEF IsBatch, Size, IInv, TypeOK
  <2>3. /\ Size' = Size /\ Running' = Running
        /\ LegChain(tail)' = LegChain(j) /\ LegChain(head)' = LegChain(head)
    BY <2>1 DEF NextBatch, order, Size, Running, LegChain, N
  <2>4. pc' = "transfer" => head > 1
    BY DEF NextBatch, NeedsTransfer
  <2> QED
    BY <2>1, <2>2, <2>3, <2>4 DEF NextBatch, order, IInv, Progress, Control
<1>4. AbandonedIsExact'
  BY DEF NextBatch, IInv, order, funds, N, AbandonedIsExact, Progress, Control, TypeOK, Stages, Running, Raised, Ended
<1>5. FlagsAreHonest' /\ ExecutedIsHome' /\ FundsOnRoute'
  BY Frame DEF NextBatch, order, funds
<1> QED BY <1>1, <1>2, <1>3, <1>4, <1>5 DEF IInv

LEMMA EndOrderKeeps == ASSUME IInv, EndOrder PROVE IInv'
<1>1. TypeOK'
  BY RouteShape DEF EndOrder, IInv, order, funds, N, TypeOK, Points, Ended, Raised
<1>2. Control'
  BY DEF EndOrder, IInv, order, funds, N, Control, TypeOK, Stages, Raised, Ended
<1>3. Progress'
  BY RouteShape DEF EndOrder, IInv, order, funds, N, Progress, Control, TypeOK, Stages, Running, Size, LegChain, Raised, Ended
<1>4. AbandonedIsExact'
  BY DEF EndOrder, IInv, order, funds, N, AbandonedIsExact, Progress, Control, TypeOK, Stages, Running, Raised, Ended
<1>5. FlagsAreHonest' /\ ExecutedIsHome' /\ FundsOnRoute'
  BY Frame DEF EndOrder, order, funds
<1> QED BY <1>1, <1>2, <1>3, <1>4, <1>5 DEF IInv

LEMMA TransferRefusedKeeps == ASSUME IInv, TransferRefused PROVE IInv'
<1>1. TypeOK'
  BY RouteShape DEF TransferRefused, IInv, order, funds, N, TypeOK, Points, Ended, Raised, AfterFailedTransfer
<1>2. Control'
  BY DEF TransferRefused, IInv, order, funds, N, Control, TypeOK, Stages, Raised, Ended, AfterFailedTransfer
<1>3. Progress'
  BY RouteShape DEF TransferRefused, IInv, order, funds, N, Progress, Control, TypeOK, Stages, Running, Size, LegChain, Raised, Ended, AfterFailedTransfer
<1>4. AbandonedIsExact'
  BY DEF TransferRefused, IInv, order, funds, N, AbandonedIsExact, Progress, Control, TypeOK, Stages, Running, Raised, Ended, AfterFailedTransfer
<1>5. FlagsAreHonest' /\ ExecutedIsHome' /\ FundsOnRoute'
  BY Frame DEF TransferRefused, order, funds
<1> QED BY <1>1, <1>2, <1>3, <1>4, <1>5 DEF IInv

LEMMA AckSeenKeeps == ASSUME IInv, AckSeen PROVE IInv'
<1>1. TypeOK'
  BY RouteShape DEF AckSeen, IInv, order, funds, N, TypeOK, Points, Ended, Raised
<1>2. Control'
  BY DEF AckSeen, IInv, order, funds, N, Control, TypeOK, Stages, Raised, Ended
<1>3. Progress'
  BY RouteShape DEF AckSeen, IInv, order, funds, N, Progress, Control, TypeOK, Stages, Running, Size, LegChain, Raised, Ended
<1>4. AbandonedIsExact'
  BY DEF AckSeen, IInv, order, funds, N, AbandonedIsExact, Progress, Control, TypeOK, Stages, Running, Raised, Ended
<1>5. FlagsAreHonest' /\ ExecutedIsHome' /\ FundsOnRoute'
  BY Frame DEF AckSeen, order, funds
<1> QED BY <1>1, <1>2, <1>3, <1>4, <1>5 DEF IInv

LEMMA AckTimeoutKeeps == ASSUME IInv, AckTimeout PROVE IInv'
<1>1. TypeOK'
  BY RouteShape DEF AckTimeout, IInv, order, funds, N, TypeOK, Points, Ended, Raised, AfterFailedTransfer
<1>2. Control'
  BY DEF AckTimeout, IInv, order, funds, N, Control, TypeOK, Stages, Raised, Ended, AfterFailedTransfer
<1>3. Progress'
  BY RouteShape DEF AckTimeout, IInv, order, funds, N, Progress, Control, TypeOK, Stages, Running, Size, LegChain, Raised, Ended, AfterFailedTransfer
<1>4. AbandonedIsExact'
  BY DEF AckTimeout, IInv, order, funds, N, AbandonedIsExact, Progress, Control, TypeOK, Stages, Running, Raised, Ended, AfterFailedTransfer
<1>5. FlagsAreHonest' /\ ExecutedIsHome' /\ FundsOnRoute'
  BY Frame DEF AckTimeout, order, funds
<1> QED BY <1>1, <1>2, <1>3, <1>4, <1>5 DEF IInv

LEMMA SwapFailsKeeps == ASSUME IInv, SwapFails PROVE IInv'
<1>1. TypeOK'
  BY RouteShape DEF SwapFails, IInv, order, funds, N, TypeOK, Points, Ended, Raised
<1>2. Control'
  BY DEF SwapFails, IInv, order, funds, N, Control, TypeOK, Stages, Raised, Ended
<1>3. Progress'
  BY RouteShape DEF SwapFails, IInv, order, funds, N, Progress, Control, TypeOK, Stages, Running, Size, LegChain, Raised, Ended
<1>4. AbandonedIsExact'
  BY DEF SwapFails, IInv, order, funds, N, AbandonedIsExact, Progress, Control, TypeOK, Stages, Running, Raised, Ended
<1>5. FlagsAreHonest' /\ ExecutedIsHome' /\ FundsOnRoute'
  BY Frame DEF SwapFails, order, funds
<1> QED BY <1>1, <1>2, <1>3, <1>4, <1>5 DEF IInv

LEMMA BalanceRaisesKeeps == ASSUME IInv, BalanceRaises PROVE IInv'
<1>1. TypeOK'
  BY RouteShape DEF BalanceRaises, IInv, order, funds, N, TypeOK, Points, Ended, Raised
<1>2. Control'
  BY DEF BalanceRaises, IInv, order, funds, N, Control, TypeOK, Stages, Raised, Ended
<1>3. Progress'
  BY RouteShape DEF BalanceRaises, IInv, order, funds, N, Progress, Control, TypeOK, Stages, Running, Size, LegChain, Raised, Ended
<1>4. AbandonedIsExact'
  BY DEF BalanceRaises, IInv, order, funds, N, AbandonedIsExact, Progress, Control, TypeOK, Stages, Running, Raised, Ended
<1>5. FlagsAreHonest' /\ ExecutedIsHome' /\ FundsOnRoute'
  BY Frame DEF BalanceRaises, order, funds
<1> QED BY <1>1, <1>2, <1>3, <1>4, <1>5 DEF IInv

LEMMA NoBalanceKeeps == ASSUME IInv, NoBalance PROVE IInv'
<1>1. TypeOK'
  BY RouteShape DEF NoBalance, IInv, order, funds, N, TypeOK, Points, Ended, Raised
<1>2. Control'
  BY DEF NoBalance, IInv, order, funds, N, Control, TypeOK, Stages, Raised, Ended
<1>3. Progress'
  BY RouteShape DEF NoBalance, IInv, order, funds, N, Progress, Control, TypeOK, Stages, Running, Size, LegChain, Raised, Ended
<1>4. AbandonedIsExact'
  BY DEF NoBalance, IInv, order, funds, N, AbandonedIsExact, Progress, Control, TypeOK, Stages, Running, Raised, Ended
<1>5. FlagsAreHonest' /\ ExecutedIsHome' /\ FundsOnRoute'
  BY Frame DEF NoBalance, order, funds
<1> QED BY <1>1, <1>2, <1>3, <1>4, <1>5 DEF IInv

LEMMA BacktrackKeeps == ASSUME IInv, Backtrack PROVE IInv'
<1>1. TypeOK'
  BY RouteShape DEF Backtrack, IInv, order, funds, N, TypeOK, Points, Ended, Raised
<1>2. Control'
  BY DEF Backtrack, IInv, order, funds, N, Control, TypeOK, Stages, Raised, Ended
<1>3. Progress'
  BY RouteShape DEF Backtrack, IInv, order, funds, N, Progress, Control, TypeOK, Stages, Running, Size, LegChain, Raised, Ended
<1>4. AbandonedIsExact'
  BY DEF Backtrack, IInv, order, funds, N, AbandonedIsExact, Progress, Control, TypeOK, Stages, Running, Raised, Ended
<1>5. FlagsAreHonest' /\ ExecutedIsHome' /\ FundsOnRoute'
  BY Frame DEF Backtrack, order, funds
<1> QED BY <1>1, <1>2, <1>3, <1>4, <1>5 DEF IInv

LEMMA ReplanRaisesKeeps == ASSUME IInv, ReplanRaises PROVE IInv'
<1>1. TypeOK'
  BY RouteShape DEF ReplanRaises, IInv, order, funds, N, TypeOK, Points, Ended, Raised
<1>2. Control'
  BY DEF ReplanRaises, IInv, order, funds, N, Control, TypeOK, Stages, Raised, Ended
<1>3. Progress'
  BY RouteShape DEF ReplanRaises, IInv, order, funds, N, Progress, Control, TypeOK, Stages, Running, Size, LegChain, Raised, Ended
<1>4. AbandonedIsExact'
  BY DEF ReplanRaises, IInv, order, funds, N, AbandonedIsExact, Progress, Control, TypeOK, Stages, Running, Raised, Ended
<1>5. FlagsAreHonest' /\ ExecutedIsHome' /\ FundsOnRoute'
  BY Frame DEF ReplanRaises, order, funds
<1> QED BY <1>1, <1>2, <1>3, <1>4, <1>5 DEF IInv

LEMMA RecoveryEscapesKeeps == ASSUME IInv, RecoveryEscapes PROVE IInv'
<1>1. TypeOK'
  BY RouteShape DEF RecoveryEscapes, IInv, order, funds, N, TypeOK, Points, Ended, Raised
<1>2. Control'
  BY DEF RecoveryEscapes, IInv, order, funds, N, Control, TypeOK, Stages, Raised, Ended
<1>3. Progress'
  BY RouteShape DEF RecoveryEscapes, IInv, order, funds, N, Progress, Control, TypeOK, Stages, Running, Size, LegChain, Raised, Ended
<1>4. AbandonedIsExact'
  BY DEF RecoveryEscapes, IInv, order, funds, N, AbandonedIsExact, Progress, Control, TypeOK, Stages, Running, Raised, Ended
<1>5. FlagsAreHonest' /\ ExecutedIsHome' /\ FundsOnRoute'
  BY Frame DEF RecoveryEscapes, order, funds
<1> QED BY <1>1, <1>2, <1>3, <1>4, <1>5 DEF IInv

LEMMA CancelKeeps == ASSUME IInv, Cancel PROVE IInv'
<1>1. TypeOK'
  BY RouteShape DEF Cancel, IInv, order, funds, N, TypeOK, Points, Ended, Raised
<1>2. Control'
  BY DEF Cancel, IInv, order, funds, N, Control, TypeOK, Stages, Raised, Ended, Awaits
<1>3. Progress'
  BY RouteShape DEF Cancel, IInv, order, funds, N, Progress, Control, TypeOK, Stages, Running, Size, LegChain, Raised, Ended, Awaits
<1>4. AbandonedIsExact'
  BY DEF Cancel, IInv, order, funds, N, AbandonedIsExact, Progress, Control, TypeOK, Stages, Running, Raised, Ended, Awaits
<1>5. FlagsAreHonest' /\ ExecutedIsHome' /\ FundsOnRoute'
  BY Frame DEF Cancel, order, funds
<1> QED BY <1>1, <1>2, <1>3, <1>4, <1>5 DEF IInv

LEMMA SendPacketKeeps == ASSUME IInv, SendPacket PROVE IInv'
<1>1. TypeOK'
  <2>1. To \in Chains
    <3>1. CASE stage = "backtrack"
      BY <3>1, RouteShape DEF SendPacket, IInv, TypeOK, Control, To
    <3>2. CASE stage # "backtrack"
      <4>1. N \in Nat /\ route \in [1..N -> Chains]
        BY RouteShape DEF IInv, TypeOK
      <4>2. head \in 1..Size /\ Size \in 1..N
        BY <3>2, RouteShape DEF SendPacket, IInv, TypeOK, Progress, Size
      <4>3. To = LegChain(head)
        BY <3>2 DEF To
      <4>4. CASE stage = "recovery"
        <5>1. back \in Nat /\ head \in 1..back /\ back <= N
          BY <4>2, <4>4 DEF Size, IInv, TypeOK
        <5>2. back + 1 - head \in 1..N
          BY <4>1, <5>1
        <5> QED
          BY <4>1, <4>3, <4>4, <5>2 DEF LegChain
      <4>5. CASE stage # "recovery"
        <5>1. head \in 1..N
          BY <4>2, <4>5 DEF Size
        <5> QED
          BY <4>1, <4>3, <4>5, <5>1 DEF LegChain
      <4> QED
        BY <4>4, <4>5
    <3> QED BY <3>1, <3>2
  <2> QED
    BY <2>1, RouteShape DEF SendPacket, IInv, order, TypeOK, Points, Ended,
                            Raised, N, AfterFailedTransfer
<1>2. Control'
  BY DEF SendPacket, IInv, order, funds, N, Control, TypeOK, Stages, Raised, Ended, AfterFailedTransfer
<1>3. Progress'
  BY RouteShape DEF SendPacket, IInv, order, funds, N, Progress, Control, TypeOK, Stages, Running, Size, LegChain, Raised, Ended, AfterFailedTransfer
<1>4. FlagsAreHonest'
  BY DEF SendPacket, IInv, order, funds, N, FlagsAreHonest, Progress, Running, TypeOK, Orders, AfterFailedTransfer
<1>5. AbandonedIsExact'
  BY DEF SendPacket, IInv, order, funds, N, AbandonedIsExact, Progress, Control, TypeOK, Stages, Running, Raised, Ended, AfterFailedTransfer
<1>6. ExecutedIsHome'
  BY DEF SendPacket, IInv, order, funds, N, ExecutedIsHome, Control, TypeOK, Stages, Raised, AfterFailedTransfer
<1>7. FundsOnRoute'
  BY RouteShape, RouteShape DEF SendPacket, IInv, order, funds, N, FundsOnRoute, Control, Progress, TypeOK, AfterFailedTransfer, To, From, Sent, LegChain, LegOut, Spendable, Near, Running, Size, Stages, Denom
<1> QED BY <1>1, <1>2, <1>3, <1>4, <1>5, <1>6, <1>7 DEF IInv

LEMMA SwapSettlesKeeps == ASSUME IInv, SwapSettles PROVE IInv'
<1>1. TypeOK'
  <2>1. stage \in Orders /\ head <= tail /\ tail <= Size
    BY RouteShape DEF SwapSettles, IInv, TypeOK, Control, Progress, Stages,
                      Orders, Raised, Ended
  <2>2. Denom(LegOut(tail)) \in 0..(N - 1)
    BY <2>1, RouteShape DEF IInv, TypeOK, Size, LegOut, Denom
  <2>3. settled' \in [Orders -> 0..N]
    BY <2>1, RouteShape DEF SwapSettles, IInv, TypeOK
  <2> QED
    BY <2>2, <2>3, RouteShape DEF SwapSettles, IInv, order, TypeOK, Points,
                                  Ended, Raised, N
<1>2. Control'
  BY DEF SwapSettles, IInv, order, funds, N, Control, TypeOK, Stages, Raised, Ended
<1>3. Progress'
  BY RouteShape DEF SwapSettles, IInv, order, funds, N, Progress, Control, TypeOK, Stages, Running, Size, LegChain, Raised, Ended, Orders
<1>4. FlagsAreHonest'
  BY DEF SwapSettles, IInv, order, funds, N, FlagsAreHonest, Progress, Running, TypeOK, Orders
<1>5. AbandonedIsExact'
  BY DEF SwapSettles, IInv, order, funds, N, AbandonedIsExact, Progress, Control, TypeOK, Stages, Running, Raised, Ended
<1>6. ExecutedIsHome'
  BY DEF SwapSettles, IInv, order, funds, N, ExecutedIsHome, Control, TypeOK, Stages, Raised
<1>7. FundsOnRoute'
  BY RouteShape, RouteShape DEF SwapSettles, IInv, order, funds, N, FundsOnRoute, Control, Progress, TypeOK, Near, Denom, Running, LegChain, LegOut, Size, Spendable, LegIn, Orders, Stages
<1> QED BY <1>1, <1>2, <1>3, <1>4, <1>5, <1>6, <1>7 DEF IInv

LEMMA MarkKeeps == ASSUME IInv, Mark PROVE IInv'
<1>1. TypeOK'
  BY RouteShape, PrefixGrows DEF Mark, IInv, order, funds, N, TypeOK, Points, Ended, Raised, Progress, Control, Stages, Size, Running, Orders
<1>2. Control'
  BY DEF Mark, IInv, order, funds, N, Control, TypeOK, Stages, Raised, Ended
<1>3. Progress'
  <2>1. /\ stage \in Orders /\ Running = stage /\ pc = "mark"
        /\ head \in Nat /\ tail \in Nat /\ 1 <= head /\ head <= tail
        /\ tail <= Size /\ settled[stage] = tail
        /\ marked[stage] = 1..(head - 1)
    BY RouteShape DEF Mark, IInv, TypeOK, Control, Progress, Stages, Orders,
                      Running, Raised, Ended
  <2>2. marked'[stage] = 1..tail /\ head' - 1 = tail
    BY <2>1, PrefixGrows DEF Mark, IInv, TypeOK
  <2>3. Size' = Size /\ Running' = stage /\ Size \in Int
    BY <2>1, RouteShape DEF Mark, order, Size, Running, N, IInv, TypeOK
  <2>4. stage = "arb" => marked'["recovery"] = marked["recovery"]
    BY DEF Mark, IInv, TypeOK, Orders
  <2> QED
    BY <2>1, <2>2, <2>3, <2>4 DEF Mark, order, IInv, Progress, Orders
<1>4. FlagsAreHonest'
  <2>1. /\ stage \in Orders
        /\ head \in Nat /\ tail \in Nat /\ 1 <= head /\ head <= tail
        /\ settled[stage] = tail /\ marked[stage] = 1..(head - 1)
    BY RouteShape DEF Mark, IInv, TypeOK, Control, Progress, Stages, Orders,
                      Running, Raised, Ended
  <2>2. marked'[stage] = 1..tail
    BY <2>1, PrefixGrows DEF Mark, IInv, TypeOK
  <2>3. \A o \in Orders : o # stage => marked'[o] = marked[o]
    BY DEF Mark, IInv, TypeOK
  <2> QED
    BY <2>1, <2>2, <2>3 DEF Mark, IInv, FlagsAreHonest
<1>5. AbandonedIsExact'
  BY DEF Mark, IInv, order, funds, N, AbandonedIsExact, Progress, Control, TypeOK, Stages, Running, Raised, Ended
<1>6. ExecutedIsHome'
  BY DEF Mark, IInv, order, funds, N, ExecutedIsHome, Control, TypeOK, Stages, Raised
<1>7. FundsOnRoute'
  BY DEF Mark, IInv, order, funds, N, FundsOnRoute, Control, Progress, TypeOK, Near, Denom
<1> QED BY <1>1, <1>2, <1>3, <1>4, <1>5, <1>6, <1>7 DEF IInv

LEMMA FinishArbKeeps == ASSUME IInv, FinishArb PROVE IInv'
<1>1. TypeOK'
  BY RouteShape DEF FinishArb, IInv, order, funds, N, TypeOK, Points, Ended, Raised
<1>2. Control'
  BY DEF FinishArb, IInv, order, funds, N, Control, TypeOK, Stages, Raised, Ended
<1>3. Progress'
  BY RouteShape DEF FinishArb, IInv, order, funds, N, Progress, Control, TypeOK, Stages, Running, Size, LegChain, Raised, Ended
<1>4. FlagsAreHonest'
  BY DEF FinishArb, IInv, order, funds, N, FlagsAreHonest, Progress, Running, TypeOK, Orders
<1>5. AbandonedIsExact'
  BY DEF FinishArb, IInv, order, funds, N, AbandonedIsExact, Progress, Control, TypeOK, Stages, Running, Raised, Ended
<1>6. ExecutedIsHome'
  BY RouteShape, RouteShape DEF FinishArb, IInv, order, funds, N, ExecutedIsHome, Control, TypeOK, Stages, Raised, Near, Denom, Spendable, Progress, FundsOnRoute, Running
<1>7. FundsOnRoute'
  BY DEF FinishArb, IInv, order, funds, N, FundsOnRoute, Control, Progress, TypeOK, Near, Denom
<1> QED BY <1>1, <1>2, <1>3, <1>4, <1>5, <1>6, <1>7 DEF IInv

LEMMA BeginRecoveryKeeps == ASSUME IInv, BeginRecovery PROVE IInv'
<1>1. TypeOK'
  BY RouteShape DEF BeginRecovery, IInv, order, funds, N, TypeOK, Points, Ended, Raised, Backtracked, Stages, IsTerminal
<1>2. Control'
  BY DEF BeginRecovery, IInv, order, funds, N, Control, TypeOK, Stages, Raised, Ended
<1>3. Progress'
  BY RouteShape DEF BeginRecovery, IInv, order, funds, N, Progress, Control, TypeOK, Stages, Running, Size, LegChain, Raised, Ended
<1>4. FlagsAreHonest'
  BY DEF BeginRecovery, IInv, order, funds, N, FlagsAreHonest, Progress, Running, TypeOK, Orders
<1>5. AbandonedIsExact'
  BY DEF BeginRecovery, IInv, order, funds, N, AbandonedIsExact, Progress, Control, TypeOK, Stages, Running, Raised, Ended
<1>6. ExecutedIsHome'
  BY DEF BeginRecovery, IInv, order, funds, N, ExecutedIsHome, Control, TypeOK, Stages, Raised
<1>7. FundsOnRoute'
  BY DEF BeginRecovery, IInv, order, funds, N, FundsOnRoute, Control, Progress, TypeOK
<1> QED BY <1>1, <1>2, <1>3, <1>4, <1>5, <1>6, <1>7 DEF IInv

LEMMA NothingTerminalKeeps == ASSUME IInv, NothingTerminal PROVE IInv'
<1>1. TypeOK'
  BY RouteShape DEF NothingTerminal, IInv, order, funds, N, TypeOK, Points, Ended, Raised
<1>2. Control'
  BY DEF NothingTerminal, IInv, order, funds, N, Control, TypeOK, Stages, Raised, Ended
<1>3. Progress'
  BY RouteShape DEF NothingTerminal, IInv, order, funds, N, Progress, Control, TypeOK, Stages, Running, Size, LegChain, Raised, Ended
<1>4. FlagsAreHonest'
  BY DEF NothingTerminal, IInv, order, funds, N, FlagsAreHonest, Progress, Running, TypeOK, Orders
<1>5. AbandonedIsExact'
  BY DEF NothingTerminal, IInv, order, funds, N, AbandonedIsExact, Progress, Control, TypeOK, Stages, Running, Raised, Ended
<1>6. ExecutedIsHome'
  BY DEF NothingTerminal, IInv, order, funds, N, ExecutedIsHome, Control, TypeOK, Stages, Raised
<1>7. FundsOnRoute'
  BY DEF NothingTerminal, IInv, order, funds, N, FundsOnRoute, Control, Progress, TypeOK, Near, Denom
<1> QED BY <1>1, <1>2, <1>3, <1>4, <1>5, <1>6, <1>7 DEF IInv

LEMMA ReplanKeeps == ASSUME IInv, Replan PROVE IInv'
<1>1. TypeOK'
  BY RouteShape, ArbAssumption DEF Replan, IInv, order, funds, N, TypeOK, Points, Ended, Raised, Plans, Stages
<1>2. Control'
  BY DEF Replan, IInv, order, funds, N, Control, TypeOK, Stages, Raised, Ended
<1>3. Progress'
  BY RouteShape DEF Replan, IInv, order, funds, N, Progress, Control, TypeOK, Stages, Running, Size, LegChain, Raised, Ended
<1>4. FlagsAreHonest'
  BY DEF Replan, IInv, order, funds, N, FlagsAreHonest, Progress, Running, TypeOK, Orders
<1>5. AbandonedIsExact'
  BY DEF Replan, IInv, order, funds, N, AbandonedIsExact, Progress, Control, TypeOK, Stages, Running, Raised, Ended
<1>6. ExecutedIsHome'
  BY DEF Replan, IInv, order, funds, N, ExecutedIsHome, Control, TypeOK, Stages, Raised
<1>7. FundsOnRoute'
  BY DEF Replan, IInv, order, funds, N, FundsOnRoute, Control, Progress, TypeOK
<1> QED BY <1>1, <1>2, <1>3, <1>4, <1>5, <1>6, <1>7 DEF IInv

LEMMA FinishRecoveryKeeps == ASSUME IInv, FinishRecovery PROVE IInv'
<1>1. TypeOK'
  BY RouteShape DEF FinishRecovery, IInv, order, funds, N, TypeOK, Points, Ended, Raised
<1>2. Control'
  BY DEF FinishRecovery, IInv, order, funds, N, Control, TypeOK, Stages, Raised, Ended
<1>3. Progress'
  BY RouteShape DEF FinishRecovery, IInv, order, funds, N, Progress, Control, TypeOK, Stages, Running, Size, LegChain, Raised, Ended
<1>4. FlagsAreHonest'
  BY DEF FinishRecovery, IInv, order, funds, N, FlagsAreHonest, Progress, Running, TypeOK, Orders
<1>5. AbandonedIsExact'
  BY DEF FinishRecovery, IInv, order, funds, N, AbandonedIsExact, Progress, Control, TypeOK, Stages, Running, Raised, Ended
<1>6. ExecutedIsHome'
  BY DEF FinishRecovery, IInv, order, funds, N, ExecutedIsHome, Control, TypeOK, Stages, Raised
<1>7. FundsOnRoute'
  BY DEF FinishRecovery, IInv, order, funds, N, FundsOnRoute, Control, Progress, TypeOK
<1> QED BY <1>1, <1>2, <1>3, <1>4, <1>5, <1>6, <1>7 DEF IInv

LEMMA PacketArrivesKeeps == ASSUME IInv, PacketArrives PROVE IInv'
<1>1. TypeOK'
  BY RouteShape DEF PacketArrives, IInv, order, funds, N, TypeOK, Points, Ended, Raised
<1>2. Control'
  BY DEF PacketArrives, IInv, order, funds, N, Control, TypeOK, Stages, Raised, Ended
<1>3. Progress'
  BY RouteShape DEF PacketArrives, IInv, order, funds, N, Progress, Control, TypeOK, Stages, Running, Size, LegChain, Raised, Ended
<1>4. FlagsAreHonest'
  BY DEF PacketArrives, IInv, order, funds, N, FlagsAreHonest, Progress, Running, TypeOK, Orders
<1>5. AbandonedIsExact'
  BY DEF PacketArrives, IInv, order, funds, N, AbandonedIsExact, Progress, Control, TypeOK, Stages, Running, Raised, Ended
<1>6. ExecutedIsHome'
  BY DEF PacketArrives, IInv, order, funds, N, ExecutedIsHome, Control, TypeOK, Stages, Raised, Spendable, Denom
<1>7. FundsOnRoute'
  BY DEF PacketArrives, IInv, order, funds, N, FundsOnRoute, Control, Progress, TypeOK, Near, Denom
<1> QED BY <1>1, <1>2, <1>3, <1>4, <1>5, <1>6, <1>7 DEF IInv

LEMMA PacketRefundedKeeps == ASSUME IInv, PacketRefunded PROVE IInv'
<1>1. TypeOK'
  BY RouteShape DEF PacketRefunded, IInv, order, funds, N, TypeOK, Points, Ended, Raised
<1>2. Control'
  BY DEF PacketRefunded, IInv, order, funds, N, Control, TypeOK, Stages, Raised, Ended
<1>3. Progress'
  BY RouteShape DEF PacketRefunded, IInv, order, funds, N, Progress, Control, TypeOK, Stages, Running, Size, LegChain, Raised, Ended
<1>4. FlagsAreHonest'
  BY DEF PacketRefunded, IInv, order, funds, N, FlagsAreHonest, Progress, Running, TypeOK, Orders
<1>5. AbandonedIsExact'
  BY DEF PacketRefunded, IInv, order, funds, N, AbandonedIsExact, Progress, Control, TypeOK, Stages, Running, Raised, Ended
<1>6. ExecutedIsHome'
  BY DEF PacketRefunded, IInv, order, funds, N, ExecutedIsHome, Control, TypeOK, Stages, Raised, Spendable, Denom
<1>7. FundsOnRoute'
  BY DEF PacketRefunded, IInv, order, funds, N, FundsOnRoute, Control, Progress, TypeOK, Near, Denom
<1> QED BY <1>1, <1>2, <1>3, <1>4, <1>5, <1>6, <1>7 DEF IInv

-----------------------------------------------------------------------------
LEMMA InitHolds == Init => IInv
<1> SUFFICES ASSUME Init PROVE IInv
  OBVIOUS
<1>1. TypeOK
  <2>1. plan \in Plans
    BY ArbAssumption DEF Init, Plans
  <2>2. at \in Chains /\ dest \in Chains
    BY RouteShape DEF Init
  <2>3. back \in 0..(N - 1) /\ head \in 1..(N + 1) /\ tail \in 1..N
        /\ held \in 0..(N - 1)
    BY RouteShape DEF Init
  <2>4. marked \in [Orders -> SUBSET (1..N)] /\ settled \in [Orders -> 0..N]
    BY RouteShape DEF Init
  <2> QED BY <2>1, <2>2, <2>3, <2>4 DEF Init, TypeOK, Stages, Points
<1>2. Control /\ Progress
  BY DEF Init, Control, Progress, Running, Orders, Raised, Ended
<1>3. FlagsAreHonest
  BY EmptyPrefix DEF Init, FlagsAreHonest, Orders
<1>4. AbandonedIsExact /\ ExecutedIsHome
  BY DEF Init, AbandonedIsExact, ExecutedIsHome, Ended
<1>5. FundsOnRoute
  BY RouteShape DEF Init, FundsOnRoute, Near, Denom, Orders, N
<1> QED BY <1>1, <1>2, <1>3, <1>4, <1>5 DEF IInv

LEMMA StutterKeeps == ASSUME IInv, UNCHANGED vars PROVE IInv'
<1>1. TypeOK' /\ Control'
  BY DEF vars, IInv, TypeOK, Control, N, Points, Ended, Raised, Stages, Orders
<1>2. Progress' /\ AbandonedIsExact'
  BY DEF vars, IInv, Progress, AbandonedIsExact, Running, Size, LegChain, N
<1>3. FlagsAreHonest' /\ ExecutedIsHome' /\ FundsOnRoute'
  BY Frame DEF vars, funds
<1> QED BY <1>1, <1>2, <1>3 DEF IInv

LEMMA StepKeeps == ASSUME IInv, [Next]_vars PROVE IInv'
  BY StutterKeeps, RefusePlanKeeps, RefuseProfitKeeps, StartOrderKeeps, NextBatchKeeps,
     EndOrderKeeps, TransferRefusedKeeps, SendPacketKeeps, AckSeenKeeps,
     AckTimeoutKeeps, SwapFailsKeeps, SwapSettlesKeeps, MarkKeeps,
     FinishArbKeeps, BalanceRaisesKeeps, BeginRecoveryKeeps,
     NothingTerminalKeeps, NoBalanceKeeps, BacktrackKeeps, ReplanKeeps,
     ReplanRaisesKeeps, FinishRecoveryKeeps, RecoveryEscapesKeeps,
     CancelKeeps, PacketArrivesKeeps, PacketRefundedKeeps
     DEF Next

\* The control points, the flags, the chain and the funds are tied together as
\* IInv says in every state exec_arb and recover_funds reach.
THEOREM Invariance == Spec => []IInv
<1>1. IInv /\ [Next]_vars => IInv'
  BY StepKeeps
<1> QED BY InitHolds, <1>1, PTL DEF Spec

\* Every variable keeps its type, for routes of every length.
THEOREM TypeCorrect == Spec => []TypeOK
  BY Invariance, PTL DEF IInv

\* The flags exec_arb sets never claim a swap no chain made, and have no gap.
THEOREM FlagsHonest == Spec => []FlagsAreHonest
  BY Invariance, PTL DEF IInv

\* A route given up without an exception is recorded exactly.
THEOREM AbandonedExact == Spec => []AbandonedIsExact
  BY Invariance, PTL DEF IInv

\* The one flag the strategy looks at is enough: EXECUTED means every leg was
\* swapped and the base denom is back.
THEOREM ExecutedHome == Spec => []ExecutedIsHome
  BY Invariance, PTL DEF IInv

\* Until recovery begins the funds are within one transfer of the last swap.
THEOREM FundsStayOnRoute == Spec => []FundsOnRoute
  BY Invariance, PTL DEF IInv

-----------------------------------------------------------------------------
(* What the record lacks.                                                    *)

Recorded == Batched /\ RecordMissesOneBatch

LEMMA InitRecorded == Init => Recorded
<1> SUFFICES ASSUME Init PROVE Recorded
  OBVIOUS
<1>1. settled["arb"] = 0 /\ marked["arb"] = {}
  BY DEF Init, Orders
<1>2. Batched
  BY DEF Init, Batched
<1>3. /\ 0 \in 0..0 /\ marked["arb"] = 1..0 /\ ~(0 < 0)
      /\ \A j \in (0 + 1)..0 : route[j] = route[0]
  BY <1>1, EmptyPrefix
<1>4. RecordMissesOneBatch
  BY <1>1, <1>3 DEF RecordMissesOneBatch
<1> QED
  BY <1>2, <1>4 DEF Recorded

\* A batch stays one where the order and its place in it do.
LEMMA BatchStays ==
    ASSUME Batched, stage' = "arb" => UNCHANGED <<route, stage, back, head, tail>>,
           stage' = "arb" /\ pc' \in {"transfer", "ack", "swap"} =>
               pc \in {"transfer", "ack", "swap"}
    PROVE  Batched'
<1> SUFFICES ASSUME stage' = "arb", pc' \in {"transfer", "ack", "swap"}
             PROVE  IsBatch(head, tail)'
  BY DEF Batched
<1>1. IsBatch(head, tail)
  BY DEF Batched
<1> QED
  BY <1>1 DEF IsBatch, Size, LegChain, N

LEMMA RecordStays ==
    ASSUME RecordMissesOneBatch, route' = route,
           settled'["arb"] = settled["arb"], marked'["arb"] = marked["arb"]
    PROVE  RecordMissesOneBatch'
  BY DEF RecordMissesOneBatch, N

LEMMA StepRecords == ASSUME IInv, Recorded, [Next]_vars PROVE Recorded'
<1> USE DEF Recorded, order
<1>1. CASE NextBatch
  <2>1. RecordMissesOneBatch'
    BY <1>1, RecordStays DEF NextBatch
  <2>2. Batched'
    <3>1. PICK j \in head..Size : IsBatch(head, j) /\ tail' = j
      BY <1>1 DEF NextBatch
    <3>2. IsBatch(head, tail)' <=> IsBatch(head, j)
      BY <1>1, <3>1 DEF NextBatch, IsBatch, Size, LegChain, N
    <3> QED
      BY <3>1, <3>2 DEF Batched
  <2> QED
    BY <2>1, <2>2
<1>2. CASE SwapSettles
  <2>1. Batched'
    BY <1>2 DEF SwapSettles, Batched, Raised
  <2>2. CASE stage = "arb"
    <3>1. /\ head \in Nat /\ tail \in Nat /\ 1 <= head /\ head <= tail /\ tail <= N
          /\ marked["arb"] = 1..(head - 1) /\ IsBatch(head, tail) /\ N \in Nat
      BY <1>2, <2>2, RouteShape DEF SwapSettles, IInv, TypeOK, Progress, Running,
                                    Size, Batched
    <3>2. settled'["arb"] = tail /\ marked' = marked /\ route' = route
      BY <1>2, <2>2 DEF SwapSettles, IInv, TypeOK, Orders
    <3>3. /\ \A k \in head..tail : route[k] = route[head]
          /\ tail < N => route[tail + 1] # route[head]
      BY <2>2, <3>1 DEF IsBatch, LegChain, Size
    <3>4. /\ head - 1 \in 0..tail /\ (head - 1) + 1 = head
          /\ route[tail] = route[head]
      BY <3>1, <3>3
    <3>5. /\ \A j \in ((head - 1) + 1)..tail : route[j] = route[tail]
          /\ tail < N => route[tail + 1] # route[tail]
      BY <3>3, <3>4
    <3> QED
      BY <2>1, <3>1, <3>2, <3>4, <3>5 DEF RecordMissesOneBatch, N
  <2>3. CASE stage # "arb"
    <3>1. settled'["arb"] = settled["arb"] /\ marked' = marked /\ route' = route
      BY <1>2, <2>3 DEF SwapSettles, IInv, TypeOK
    <3> QED
      BY <2>1, <3>1, RecordStays
  <2> QED
    BY <2>2, <2>3
<1>3. CASE Mark
  <2>1. Batched'
    BY <1>3 DEF Mark, Batched
  <2>2. CASE stage = "arb"
    <3>1. /\ head \in Nat /\ tail \in Nat /\ 1 <= head /\ head <= tail
          /\ marked["arb"] = 1..(head - 1) /\ settled["arb"] = tail
      BY <1>3, <2>2, RouteShape DEF Mark, IInv, TypeOK, Progress, Running, Size
    <3>2. marked'["arb"] = 1..tail /\ settled' = settled
      BY <1>3, <2>2, <3>1, PrefixGrows DEF Mark, IInv, TypeOK, Orders
    <3>3. tail \in 0..tail /\ (tail + 1)..tail = {} /\ ~(tail < tail)
      BY <3>1
    <3> QED
      BY <2>1, <3>1, <3>2, <3>3 DEF RecordMissesOneBatch
  <2>3. CASE stage # "arb"
    <3>1. marked'["arb"] = marked["arb"] /\ settled' = settled /\ route' = route
      BY <1>3, <2>3 DEF Mark, IInv, TypeOK
    <3> QED
      BY <2>1, <3>1, RecordStays
  <2> QED
    BY <2>2, <2>3
<1>4. CASE \/ RefusePlan \/ RefuseProfit \/ StartOrder \/ EndOrder \/ TransferRefused
           \/ SendPacket \/ AckSeen \/ AckTimeout \/ SwapFails
  <2>1. UNCHANGED <<route, marked, settled>>
    BY <1>4 DEF RefusePlan, RefuseProfit, StartOrder, EndOrder, TransferRefused,
       SendPacket, AckSeen, AckTimeout, SwapFails
  <2>2. Batched'
    <3>1. CASE RefusePlan \/ RefuseProfit \/ StartOrder \/ EndOrder \/ SwapFails
      BY <3>1 DEF RefusePlan, RefuseProfit, StartOrder, EndOrder, SwapFails, Raised,
         Batched
    <3>2. CASE TransferRefused \/ AckTimeout
      BY <3>2 DEF TransferRefused, AckTimeout, AfterFailedTransfer, Raised, Batched
    <3>3. CASE SendPacket \/ AckSeen
      BY <3>3, BatchStays DEF SendPacket, AckSeen
    <3> QED
      BY <1>4, <3>1, <3>2, <3>3
  <2> QED
    BY <2>1, <2>2, RecordStays
<1>5. CASE \/ FinishArb \/ BalanceRaises \/ BeginRecovery \/ NothingTerminal
           \/ NoBalance \/ Backtrack \/ Replan \/ ReplanRaises
           \/ FinishRecovery \/ RecoveryEscapes \/ Cancel
  <2>1. UNCHANGED <<route, marked, settled>>
    BY <1>5 DEF FinishArb, BalanceRaises, BeginRecovery, NothingTerminal, NoBalance,
       Backtrack, Replan, ReplanRaises, FinishRecovery, RecoveryEscapes, Cancel
  <2>2. Batched'
    <3>1. CASE Backtrack
      BY <3>1 DEF Backtrack, IInv, Control, Batched
    <3>2. CASE ~Backtrack
      BY <1>5, <3>2 DEF FinishArb, BalanceRaises, BeginRecovery, NothingTerminal,
         NoBalance, Replan, ReplanRaises, FinishRecovery, RecoveryEscapes, Cancel,
         Raised, Batched
    <3> QED
      BY <3>1, <3>2
  <2> QED
    BY <2>1, <2>2, RecordStays
<1>6. CASE PacketArrives \/ PacketRefunded \/ UNCHANGED vars
  <2>1. UNCHANGED <<route, stage, back, pc, head, tail, marked, settled>>
    BY <1>6 DEF PacketArrives, PacketRefunded, vars
  <2> QED
    BY <2>1, BatchStays, RecordStays
<1> QED
  BY <1>1, <1>2, <1>3, <1>4, <1>5, <1>6 DEF Next

\* However an order comes to be given up, its record lacks the last batch of what
\* the chains have done, or nothing.
THEOREM RecordMissesLittle == Spec => []RecordMissesOneBatch
<1>1. IInv /\ Recorded /\ [Next]_vars => Recorded'
  BY StepRecords
<1>2. Spec => []Recorded
  BY InitRecorded, Invariance, <1>1, PTL DEF Spec
<1>3. Recorded => RecordMissesOneBatch
  BY DEF Recorded
<1> QED
  BY <1>2, <1>3, PTL

-----------------------------------------------------------------------------
(* ArbExecution implements AtomicOrder.  A swap of the arbitrage is Settle,  *)
(* its flag is Flag, EXECUTED is Succeed and FAILED is Fail; everything the  *)
(* recovery does, and every step that moves no swap and no flag, stutters.   *)

LEMMA InitRefines == Init => Abstract!OrderInit
  BY RouteShape DEF Init, Abstract!OrderInit, Orders, N

LEMMA StepRefines ==
    ASSUME IInv, [Next]_vars
    PROVE  [Abstract!OrderNext]_(Abstract!ovars)
<1> USE DEF Abstract!ovars, order
<1>1. CASE SwapSettles
  <2>1. CASE stage = "arb"
    <3>1. /\ status = "QUEUED" /\ settled["arb"] = head - 1
          /\ marked["arb"] = 1..(head - 1) /\ head <= tail /\ tail <= N
          /\ head \in Int /\ tail \in Int
      BY <1>1, <2>1, RouteShape DEF SwapSettles, IInv, TypeOK, Control, Progress,
                                    Running, Size
    <3>2. settled'["arb"] = tail
      BY <1>1, <2>1 DEF SwapSettles, IInv, TypeOK, Orders
    <3> QED
      BY <1>1, <3>1, <3>2 DEF SwapSettles, N, Abstract!OrderNext, Abstract!Settle
  <2>2. CASE stage # "arb"
    BY <1>1, <2>2 DEF SwapSettles, IInv, TypeOK
  <2> QED BY <2>1, <2>2
<1>2. CASE Mark
  <2>1. CASE stage = "arb"
    <3>1. /\ status = "QUEUED" /\ settled["arb"] = tail
          /\ marked["arb"] = 1..(head - 1)
          /\ head \in Nat /\ tail \in Nat /\ 1 <= head /\ head <= tail
      BY <1>2, <2>1, RouteShape DEF Mark, IInv, TypeOK, Control, Progress,
                                    Running, Size
    <3>2. marked'["arb"] = 1..settled["arb"]
      BY <1>2, <2>1, <3>1, PrefixGrows DEF Mark, IInv, TypeOK, Orders
    <3> QED
      BY <1>2, <3>1, <3>2 DEF Mark, Abstract!OrderNext, Abstract!Flag
  <2>2. CASE stage # "arb"
    BY <1>2, <2>2 DEF Mark, IInv, TypeOK
  <2> QED BY <2>1, <2>2
<1>3. CASE FinishArb
  <2>1. CASE N \in marked["arb"]
    <3>1. marked["arb"] = 1..N /\ settled["arb"] = N /\ status = "QUEUED"
      BY <1>3, <2>1, RouteShape DEF FinishArb, IInv, TypeOK, Control, Progress,
                                    Running, Orders
    <3> QED
      BY <1>3, <2>1, <3>1 DEF FinishArb, funds, N, Abstract!OrderNext,
                              Abstract!Succeed
  <2>2. CASE N \notin marked["arb"]
    BY <1>3, <2>2 DEF FinishArb
  <2> QED BY <2>1, <2>2
<1>4. CASE BeginRecovery \/ NothingTerminal
  BY <1>4 DEF BeginRecovery, NothingTerminal, IInv, Control, Raised,
              Abstract!OrderNext, Abstract!Fail
<1>5. CASE FinishRecovery
  BY <1>5 DEF FinishRecovery, IInv, Control
<1>6. CASE RefusePlan \/ RefuseProfit \/ StartOrder \/ NextBatch \/ EndOrder
  BY <1>6 DEF RefusePlan, RefuseProfit, StartOrder, NextBatch, EndOrder
<1>7. CASE TransferRefused \/ SendPacket \/ AckSeen \/ AckTimeout \/ SwapFails
  BY <1>7 DEF TransferRefused, SendPacket, AckSeen, AckTimeout, SwapFails
<1>8. CASE BalanceRaises \/ NoBalance \/ Backtrack \/ Replan \/ ReplanRaises
  BY <1>8 DEF BalanceRaises, NoBalance, Backtrack, Replan, ReplanRaises
<1>9. CASE RecoveryEscapes \/ Cancel \/ PacketArrives \/ PacketRefunded
  BY <1>9 DEF RecoveryEscapes, Cancel, PacketArrives, PacketRefunded
<1>10. CASE UNCHANGED vars
  BY <1>10 DEF vars
<1> QED
  BY <1>1, <1>2, <1>3, <1>4, <1>5, <1>6, <1>7, <1>8, <1>9, <1>10 DEF Next

\* Seen from its swaps, flags and verdict, the code is AtomicOrder.
THEOREM Implementation == Spec => ImplementsAtomicOrder
<1>1. IInv /\ [Next]_vars => [Abstract!OrderNext]_(Abstract!ovars)
  BY StepRefines
<1> QED
  BY InitRefines, Invariance, <1>1, PTL
     DEF Spec, ImplementsAtomicOrder, Abstract!OrderSpec
=============================================================================
