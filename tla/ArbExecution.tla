---------------------------- MODULE ArbExecution ----------------------------
(***************************************************************************)
(* The execution of one arbitrage order: the naive strategy's handling of  *)
(* a profitable route (src/src/strategies/naive.py, the loop body of       *)
(* strategy), exec_arb, collapse_route and recover_funds                   *)
(* (src/src/strategies/util.py), and the chains the funds are on.          *)
(*                                                                         *)
(* A route is the sequence of the chains its legs trade on.  Leg j takes   *)
(* denom j-1 and gives denom j; the first and the last denom are the base  *)
(* denom (the route is a cycle).  The funds of the order are one lot, of   *)
(* some denom, on a chain or in a packet between two chains: what is left  *)
(* in the wallet besides the lot is not tracked, so a swap or a transfer   *)
(* succeeds only when the lot is where the code looks for it.  Amounts     *)
(* belong to module Planner, which shows what exec_arb takes for granted   *)
(* of a plan: no leg trades nothing (so to_swap < 0 never aborts) and none *)
(* sells into an auction (such a leg would be marked with no swap).  The   *)
(* legs of a route have distinct printed forms: exec_arb finds the record  *)
(* of a leg by comparing those.                                            *)
(***************************************************************************)
EXTENDS Integers, Sequences

CONSTANTS
    Chains,                 \* chain ids
    MaxLegs,                \* bound on the legs of a route (--hops)
    Margin,                 \* ctx.cli_args["profit_margin"]
    Profits                 \* the profits a plan may promise

ASSUME ArbAssumption ==
    /\ MaxLegs \in Nat
    /\ Margin \in Int
    /\ Profits \subseteq Int

VARIABLES
    route,                  \* the chain of each leg
    stage,                  \* which order runs: "arb", or the way back
    pc,                     \* where exec_arb, or its caller, stands
    plan,                   \* the plan of the running order
    back,                   \* legs of the recovery order (0 before there is one)
    head, tail,             \* first and last leg of the current batch
    marked,                 \* marked[o]: legs of order o with executed = True
    settled,                \* settled[o]: legs of order o swapped on a chain
    held,                   \* denom of the lot
    at, dest,               \* the lot is on chain at; in a packet iff at # dest
    status                  \* r.status

vars == <<route, stage, pc, plan, back, head, tail, marked, settled, held,
          at, dest, status>>

order == <<route, stage, plan, back>>
funds == <<held, at, dest>>

Orders == {"arb", "recovery"}
Stages == {"arb", "backtrack", "recovery"}
Ended  == {"done", "escaped", "cancelled"}
Points == {"exec", "group", "transfer", "ack", "swap", "mark", "returned",
           "valueError", "error", "balance", "replan"} \cup Ended
Raised == {"valueError", "error"}

\* A route closes on its second leg at the earliest (len(path) > 1).
Routes == UNION {[1..n -> Chains] : n \in 2..MaxLegs}

Plans == [complete : BOOLEAN, profit : Int]

N == Len(route)

-----------------------------------------------------------------------------
(* Routes and orders                                                       *)

\* The first leg whose record is not marked executed.
IsTerminal(t) ==
    /\ t \in (1..N) \ marked["arb"]
    /\ \A u \in 1..(t - 1) : u \in marked["arb"]

BacktrackedNoWrap(t) == t - 2

\* route[: route.index(curr_leg) - 1], whose length this is when leg t is the
\* terminal one: for the first leg the bound is -1 and drops the last leg.
Backtracked(t) == IF t = 1 THEN N - 1 ELSE t - 2

Size == IF stage = "recovery" THEN back ELSE N

\* The recovery order runs legs back, back - 1, ..., 1 of the route reversed.
LegChain(j) == IF stage = "recovery" THEN route[back + 1 - j] ELSE route[j]
LegIn(j)    == IF stage = "recovery" THEN back + 1 - j ELSE j - 1
LegOut(j)   == IF stage = "recovery" THEN back - j ELSE j

\* The last denom of the cycle is the first one.
Denom(d) == IF d = N THEN 0 ELSE d

\* Legs i..j are one element of collapse_route: consecutive legs on one
\* chain, up to the next leg on another chain.
IsBatch(i, j) ==
    /\ \A k \in i..j : LegChain(k) = LegChain(i)
    /\ j < Size => LegChain(j + 1) # LegChain(i)

NeedsTransfer == head > 1 /\ LegChain(head - 1) # LegChain(head)

\* The lot can be spent on chain c as denom d.
Spendable(c, d) == at = c /\ dest = c /\ held = Denom(d)

-----------------------------------------------------------------------------
(* exec_arb                                                                *)

\* What eval_route lets through: profit - gas >= margin, with the plan that
\* quantities_for_route_profit made.  The empty plan has profit 0.
Queued(p) ==
    /\ p.profit \in Profits
    /\ p.profit >= Margin
    /\ IF p.complete THEN p.profit > 0 ELSE p.profit = 0

Init ==
    /\ route \in Routes
    /\ stage = "arb"
    /\ pc = "exec"
    /\ plan \in [complete : BOOLEAN, profit : Profits] /\ Queued(plan)
    /\ back = 0
    /\ head = 1 /\ tail = 1
    /\ marked = [o \in Orders |-> {}]
    /\ settled = [o \in Orders |-> 0]
    /\ held = 0
    /\ at = route[1] /\ dest = route[1]
    /\ status = "QUEUED"

\* len(quantities) < len(route): raise ValueError.
RefusePlan ==
    /\ pc = "exec" /\ ~plan.complete
    /\ pc' = "valueError"
    /\ UNCHANGED <<order, head, tail, marked, settled, funds, status>>

\* profit < profit_margin: log and return.
RefuseProfit ==
    /\ pc = "exec" /\ plan.complete
    /\ plan.profit < Margin
    /\ pc' = "returned"
    /\ UNCHANGED <<order, head, tail, marked, settled, funds, status>>

StartOrder ==
    /\ pc = "exec" /\ plan.complete
    /\ plan.profit >= Margin
    /\ pc' = "group"
    /\ head' = 1
    /\ UNCHANGED <<order, tail, marked, settled, funds, status>>

\* The head of the loop over to_execute: move the funds first if the
\* previous leg was on another chain.
NextBatch ==
    /\ pc = "group" /\ head <= Size
    /\ \E j \in head..Size : IsBatch(head, j) /\ tail' = j
    /\ pc' = IF NeedsTransfer THEN "transfer" ELSE "swap"
    /\ UNCHANGED <<order, head, marked, settled, funds, status>>

EndOrder ==
    /\ pc = "group" /\ head > Size
    /\ pc' = "returned"
    /\ UNCHANGED <<order, head, tail, marked, settled, funds, status>>

\* Source, destination and denom of the transfer under way: between two
\* batches, or recover_funds' own one to the first leg it backtracks.
From == IF stage = "backtrack"
        THEN {route[t] : t \in {u \in 1..N : IsTerminal(u)}}
        ELSE {LegChain(head - 1)}
ToLastOfBatch == IF stage = "backtrack" THEN route[back]
                 ELSE LegChain(IF tail < Size THEN tail + 1 ELSE tail)
To   == IF stage = "backtrack" THEN route[back] ELSE LegChain(head)
Sent == IF stage = "backtrack"
        THEN {t - 1 : t \in {u \in 1..N : IsTerminal(u)}}
        ELSE {LegOut(head - 1)}

\* exec_arb swallows a failed transfer and returns; recover_funds does not.
AfterFailedTransfer == IF stage = "backtrack" THEN Raised ELSE {"returned"}

\* transfer raises before the packet is sent: no denom, no IBC route, no
\* account, or every client refuses the broadcast.
TransferRefused ==
    /\ pc = "transfer"
    /\ pc' \in AfterFailedTransfer
    /\ UNCHANGED <<order, head, tail, marked, settled, funds, status>>

\* The packet leaves the source chain.  The answer to the broadcast may be
\* lost, which looks to the caller like a refusal.
SendPacket ==
    /\ pc = "transfer"
    /\ \E c \in From, d \in Sent : Spendable(c, d)
    /\ dest' = To
    /\ pc' \in {"ack"} \cup AfterFailedTransfer
    /\ UNCHANGED <<order, head, tail, marked, settled, held, at, status>>

\* transfer_raw sees an acknowledgement under the packet's sequence number.
\* It asks the SOURCE chain, which stores the acknowledgements of packets it
\* received, so this says nothing of where the lot is (module IbcTransfer).
AckSeen ==
    /\ pc = "ack"
    /\ pc' = IF stage = "backtrack" THEN "replan" ELSE "swap"
    /\ UNCHANGED <<order, head, tail, marked, settled, funds, status>>

\* IBC_TRANSFER_TIMEOUT_SEC passes, or the query raises.
AckTimeout ==
    /\ pc = "ack"
    /\ pc' \in AfterFailedTransfer
    /\ UNCHANGED <<order, head, tail, marked, settled, funds, status>>

\* The swap, or the atomic transaction of the batch, is refused, or fails on
\* the chain, or simulating it raises: nothing moved.
SwapFails ==
    /\ pc = "swap"
    /\ pc' \in Raised
    /\ UNCHANGED <<order, head, tail, marked, settled, funds, status>>

\* The batch happens on the chain.  The answer may be lost: then exec_arb
\* raises with the legs done and not marked.
SwapSettles ==
    /\ pc = "swap"
    /\ Spendable(LegChain(head), LegIn(head))
    /\ held' = Denom(LegOut(tail))
    /\ settled' = [settled EXCEPT ![stage] = tail]
    /\ pc' \in {"mark"} \cup Raised
    /\ UNCHANGED <<order, head, tail, marked, at, dest, status>>

\* Each leg of the batch gets executed = True in the record of the order
\* that runs; recover_funds has bound r to the recovery order by then.
MarkFirstOnly ==
    /\ pc = "mark"
    /\ marked' = [marked EXCEPT ![stage] = @ \cup {head}]
    /\ head' = tail + 1
    /\ pc' = "group"
    /\ UNCHANGED <<order, tail, settled, funds, status>>

MarkArbRecord ==
    /\ pc = "mark"
    /\ marked' = [marked EXCEPT !["arb"] = @ \cup head..tail]
    /\ head' = tail + 1
    /\ pc' = "group"
    /\ UNCHANGED <<order, tail, settled, funds, status>>

MarkAtEnd ==
    /\ pc = "mark"
    /\ marked' = IF tail = Size THEN [marked EXCEPT ![stage] = 1..tail] ELSE marked
    /\ head' = tail + 1
    /\ pc' = "group"
    /\ UNCHANGED <<order, tail, settled, funds, status>>

Mark ==
    /\ pc = "mark"
    /\ marked' = [marked EXCEPT ![stage] = @ \cup head..tail]
    /\ head' = tail + 1
    /\ pc' = "group"
    /\ UNCHANGED <<order, tail, settled, funds, status>>

-----------------------------------------------------------------------------
(* The strategy's handling of the outcome, and recover_funds               *)

\* exec_arb returned.  Only the flag of the last leg is looked at; a route
\* that stopped half way keeps its status.
FinishArbOnReturn ==
    /\ stage = "arb" /\ pc = "returned"
    /\ pc' = "done"
    /\ status' = "EXECUTED"
    /\ UNCHANGED <<order, head, tail, marked, settled, funds>>

FinishArb ==
    /\ stage = "arb" /\ pc = "returned"
    /\ pc' = "done"
    /\ status' = IF N \in marked["arb"] THEN "EXECUTED" ELSE status
    /\ UNCHANGED <<order, head, tail, marked, settled, funds>>

\* The balance query after exec_arb raises something try_multiple_clients does
\* not catch (a grpc.RpcError); or it answers nothing and the order is complete:
\* logging a realized_profit of None as a number raises a TypeError.
BalanceRaises ==
    /\ stage = "arb" /\ pc = "returned"
    /\ pc' = "error"
    /\ UNCHANGED <<order, head, tail, marked, settled, funds, status>>

\* except Exception: FAILED, find the terminal leg, recover_funds.
BeginRecovery ==
    /\ stage = "arb" /\ pc \in Raised
    /\ status' = "FAILED"
    /\ \E t \in 1..N : IsTerminal(t) /\ back' = Backtracked(t)
    /\ stage' = "backtrack" /\ pc' = "balance"
    /\ UNCHANGED <<route, plan, head, tail, marked, settled, funds>>

\* next(...) finds no leg that is not executed: StopIteration leaves
\* strategy as a RuntimeError.
NothingTerminal ==
    /\ stage = "arb" /\ pc \in Raised
    /\ status' = "FAILED"
    /\ ~ \E t \in 1..N : IsTerminal(t)
    /\ pc' = "escaped"
    /\ UNCHANGED <<order, head, tail, marked, settled, funds>>

\* The balance of the denom the terminal leg takes is zero or unknown.
NoBalance ==
    /\ pc = "balance"
    /\ pc' \in Raised
    /\ UNCHANGED <<order, head, tail, marked, settled, funds, status>>

\* backtracked[0] of an empty list: IndexError.  Otherwise the funds go to
\* the chain of the first leg to backtrack, if it is another one.
Backtrack ==
    /\ pc = "balance"
    /\ pc' = IF back = 0 THEN "error"
             ELSE IF \E c \in From : c # To THEN "transfer" ELSE "replan"
    /\ UNCHANGED <<order, head, tail, marked, settled, funds, status>>

\* quantities_for_route_profit without a profit to seek: empty for fewer than
\* two legs, otherwise any profit.  The recovery order is queued and executed.
Replan ==
    /\ pc = "replan"
    /\ plan' \in {p \in [complete : BOOLEAN, profit : Profits] :
                    IF p.complete THEN back > 1 ELSE p.profit = 0}
    /\ stage' = "recovery" /\ pc' = "exec"
    /\ UNCHANGED <<route, back, head, tail, marked, settled, funds, status>>

ReplanRaises ==
    /\ pc = "replan"
    /\ pc' \in Raised
    /\ UNCHANGED <<order, head, tail, marked, settled, funds, status>>

\* recover_funds returned (RECOVERED, which the next statement overwrites)
\* or raised ValueError.
FinishRecovery ==
    /\ stage # "arb" /\ pc \in {"returned", "valueError"}
    /\ pc' = "done"
    /\ status' = "FAILED"
    /\ UNCHANGED <<order, head, tail, marked, settled, funds>>

\* Any other exception leaves strategy.
RecoveryEscapes ==
    /\ stage # "arb" /\ pc = "error"
    /\ pc' = "escaped"
    /\ UNCHANGED <<order, head, tail, marked, settled, funds, status>>

-----------------------------------------------------------------------------
(* The event loop's timeout, and the relayers                              *)

\* The points where the coroutine awaits: asyncio.timeout cancels it there
\* and nowhere else.  A batch of several legs is built and submitted with no
\* await; a single pool leg awaits its simulation.
AwaitsAfterSwap == pc \in {"transfer", "ack", "swap", "mark", "replan"}
Awaits ==
    \/ pc \in {"transfer", "ack", "replan"}
    \/ pc = "swap" /\ head = tail

Cancel ==
    /\ Awaits
    /\ pc' = "cancelled"
    /\ UNCHANGED <<order, head, tail, marked, settled, funds, status>>

\* The packet is received, or times out (600 s) and is refunded; neither
\* waits for the bot, which has stopped polling long before.
PacketArrives ==
    /\ at # dest
    /\ at' = dest
    /\ UNCHANGED <<order, pc, head, tail, marked, settled, held, dest, status>>

PacketRefunded ==
    /\ at # dest
    /\ dest' = at
    /\ UNCHANGED <<order, pc, head, tail, marked, settled, held, at, status>>

Next ==
    \/ RefusePlan \/ RefuseProfit \/ StartOrder \/ NextBatch \/ EndOrder
    \/ TransferRefused \/ SendPacket \/ AckSeen \/ AckTimeout
    \/ SwapFails \/ SwapSettles \/ Mark
    \/ FinishArb \/ BalanceRaises \/ BeginRecovery \/ NothingTerminal
    \/ NoBalance \/ Backtrack \/ Replan \/ ReplanRaises
    \/ FinishRecovery \/ RecoveryEscapes
    \/ Cancel \/ PacketArrives \/ PacketRefunded

Spec == Init /\ [][Next]_vars

-----------------------------------------------------------------------------
(* Properties                                                              *)

\* Type invariant.
TypeOK ==
    /\ route \in Routes
    /\ stage \in Stages
    /\ pc \in Points
    /\ plan \in Plans
    /\ back \in 0..(N - 1)
    /\ head \in 1..(N + 1) /\ tail \in 1..N
    /\ marked \in [Orders -> SUBSET (1..N)]
    /\ settled \in [Orders -> 0..N]
    /\ held \in 0..(N - 1)
    /\ at \in Chains /\ dest \in Chains
    /\ status \in {"QUEUED", "EXECUTED", "FAILED"}

\* The flags of either order never claim a swap that did not happen on a
\* chain, and mark the legs in order with no gap: recover_funds relies on
\* the first unmarked leg being where the order stopped.
FlagsAreHonest ==
    \A o \in Orders :
        \E k \in 0..settled[o] : marked[o] = 1..k

\* An order the bot walks away from without an exception (an abandoned
\* transfer, a round cut by the poll timeout) is recorded exactly: its flags
\* say which swaps were made.  The timeout cannot strike between a swap and
\* its flag, because the code does not await there.
AbandonedIsExact ==
    pc \in Ended /\ status # "FAILED" => marked["arb"] = 1..settled["arb"]

\* After a lost answer the record of the arbitrage lacks what the chain has done,
\* but never more than the last batch, and that as a whole: the terminal leg
\* that recover_funds starts from is wrong by one batch at most, however many
\* batches, transfers and failures came before.
RecordMissesOneBatch ==
    LET s == settled["arb"]
    IN  \E k \in 0..s :
            /\ marked["arb"] = 1..k
            /\ \A j \in (k + 1)..s : route[j] = route[s]
            /\ k < s /\ s < N => route[s + 1] # route[s]

\* EXECUTED is only said of an order that made all its swaps and whose funds
\* are back in the base denom, on the chain of the last leg and out of any
\* packet, although the code looks at one flag only.
ExecutedIsHome ==
    status = "EXECUTED" =>
        /\ settled["arb"] = N /\ marked["arb"] = 1..N
        /\ Spendable(route[N], 0)

Near(k) == {route[j] : j \in {k, k + 1} \cap 1..N}

\* Until recovery begins, the lot is within one transfer of where the order
\* stands: on the chain of the last leg that settled or of the next one, in
\* the denom between them, whatever packets were late, refunded or believed.
FundsOnRoute ==
    stage = "arb" =>
        LET k == settled["arb"]
        IN  held = Denom(k) /\ at \in Near(k) /\ dest \in Near(k)

\* The order behaves as AtomicOrder says: batch after batch, on the chain
\* first and in the record second, one verdict, and no change to the record
\* once it has failed, although recovery runs the same exec_arb.
Abstract == INSTANCE AtomicOrder WITH
    size <- Len(route), onchain <- settled["arb"], flagged <- marked["arb"],
    verdict <- status

ImplementsAtomicOrder == Abstract!OrderSpec

\* How the control state, the flags and the chain are tied together at every
\* point: the strengthening under which the properties above are inductive.
Running == IF stage = "recovery" THEN "recovery" ELSE "arb"

Control ==
    /\ stage = "arb" =>
          /\ pc \notin {"balance", "replan"} /\ back = 0
          /\ pc \notin {"done", "escaped"} => status = "QUEUED"
          /\ pc = "escaped" => status = "FAILED"
          /\ pc = "done" => status # "FAILED"
    /\ stage # "arb" => status = "FAILED"
    /\ stage = "backtrack" =>
          /\ pc \in {"balance", "transfer", "ack", "replan"} \cup Raised \cup Ended
          /\ pc \in {"transfer", "ack", "replan"} => back > 0
    /\ stage = "recovery" => pc \notin {"balance", "replan"}

Progress ==
    LET k == settled[Running]
        m == marked[Running]
        inBatch == head <= tail /\ tail <= Size /\ LegChain(tail) = LegChain(head)
    IN  /\ pc = "exec" => k = 0 /\ m = {}
        /\ stage # "backtrack" /\ pc \in {"group", "transfer", "ack", "swap"} =>
              k = head - 1 /\ m = 1..(head - 1) /\ head <= Size + 1
        /\ stage # "backtrack" /\ pc \in {"transfer", "ack", "swap"} => inBatch
        /\ stage # "backtrack" /\ pc \in {"transfer", "ack"} => head > 1
        /\ pc = "mark" => inBatch /\ k = tail /\ m = 1..(head - 1)
        /\ pc = "returned" => m = 1..k
        /\ stage # "recovery" =>
              settled["recovery"] = 0 /\ marked["recovery"] = {}

IInv ==
    /\ TypeOK /\ Control /\ Progress
    /\ FlagsAreHonest /\ AbandonedIsExact /\ ExecutedIsHome /\ FundsOnRoute

\* What exec_arb is about to do on one chain is a batch of the route.
Batched == stage = "arb" /\ pc \in {"transfer", "ack", "swap"} => IsBatch(head, tail)

\* "Returns back to USDC if a leg fails by backtracking" (recover_funds): the
\* first leg it runs takes the denom the order stopped in.
RecoveryStartsWhereStopped ==
    \A t \in 1..N :
        (stage = "recovery" /\ pc = "exec" /\ IsTerminal(t)) =>
            back > 0 /\ LegIn(1) = t - 1
=============================================================================
