----------------------------- MODULE Rebalance ------------------------------
(***************************************************************************)
(* Rebalancing: rebalance_portfolio (src/src/strategies/util.py).          *)
(*                                                                         *)
(* Chain after chain, every denom of the wallet but the base denom is sold *)
(* by a coroutine eval_sell_denom of its own; asyncio.gather runs those of *)
(* one chain together, and they share the wallet.  An order is what        *)
(* exec_arb makes of it (module ArbExecution), at the places where it lets *)
(* other coroutines run.  Amounts are small numbers and planned one to     *)
(* one.  A denom lives on one chain, so a transfer changes it.  The        *)
(* strategy's own orders, between two calls, trade the base denom and are  *)
(* left out.                                                               *)
(***************************************************************************)
EXTENDS Integers, Sequences, FiniteSets

CONSTANTS
    Denoms, Base,       \* all denoms; the base denom
    Gas,                \* gas_denoms
    Chains, ChainOf,    \* ctx.endpoints.keys(), in order; the chain of a denom
    Routes,             \* what the search may find: sequences of batches
    Wallets,            \* what the wallet may hold at first
    Margins,            \* whether --profit_margin is above 0: one or both
    MaxRound            \* bound on the rounds of the event loop

Batches == [in : Denoms, out : Denoms]

ASSUME RebalanceAssumption ==
    /\ Base \in Denoms /\ Gas \subseteq Denoms
    /\ Chains \in Seq({ChainOf[d] : d \in Denoms})
    /\ \A i, j \in DOMAIN Chains : Chains[i] = Chains[j] => i = j
    /\ Routes \subseteq Seq(Batches) \ {<<>>} /\ IsFiniteSet(Routes)
    /\ Wallets \subseteq [Denoms -> Nat]
    /\ Margins \subseteq BOOLEAN /\ MaxRound \in Nat

VARIABLES
    round, chain,       \* the round, and the chain of the loop
    pc,                 \* where rebalance_portfolio stands; "strategy": it is over
    margin,             \* whether --profit_margin is above 0
    wallet,             \* the funds on the chains
    tasks,              \* the coroutines, by round and the denom they sell
    packets,            \* the packets in flight
    raised,             \* whether a coroutine raised
    mishap,             \* whether an order went wrong halfway
    short               \* whether an order found less than it needs

vars == <<round, chain, pc, margin, wallet, tasks, packets, raised, mishap, short>>

Ids == (1..MaxRound) \X (Denoms \ {Base})
Running == {t \in Ids : tasks[t].st \notin {"none", "ended"}}

Task(st, balance, left) ==
    [st |-> st, balance |-> balance, left |-> left,
     route |-> <<>>, at |-> 0, amount |-> 0]

Init ==
    /\ round = 1 /\ chain = 1 /\ pc = "chain"
    /\ margin \in Margins
    /\ wallet \in Wallets
    /\ tasks = [t \in Ids |-> Task("none", 0, {})]
    /\ packets = {}
    /\ raised = FALSE /\ mishap = FALSE /\ short = FALSE

-----------------------------------------------------------------------------
(* rebalance_portfolio                                                     *)

InLoop == pc = "chain" /\ chain <= Len(Chains)

\* No answer from chain_info or for the balances: continue.
SkipChain ==
    /\ InLoop
    /\ chain' = chain + 1
    /\ UNCHANGED <<round, pc, margin, wallet, tasks, packets, raised, mishap, short>>

\* qualifying_denoms_balances.
Qualifying(c) == {d \in Denoms \ {Base} : ChainOf[d] = c /\ wallet[d] > 0}

\* The balances are read once, and a coroutine starts for each; for a gas
\* denom it returns at once.
Gather ==
    /\ InLoop
    /\ tasks' = [t \in Ids |->
          IF t[1] = round /\ t[2] \in Qualifying(Chains[chain])
          THEN Task(IF t[2] \in Gas THEN "ended" ELSE "search", wallet[t[2]],
                    {r \in Routes : r[1].in = t[2]})
          ELSE tasks[t]]
    /\ pc' = "gather"
    /\ UNCHANGED <<round, chain, margin, wallet, packets, raised, mishap, short>>

OfChain == {t \in Ids : t[1] = round /\ ChainOf[t[2]] = Chains[chain]}

SomeEnded == \E t \in OfChain : tasks[t].st = "ended"
AllEnded == OfChain \cap Running = {}

Gathered ==
    /\ pc = "gather" /\ AllEnded
    /\ pc' = "chain" /\ chain' = chain + 1
    /\ UNCHANGED <<round, margin, wallet, tasks, packets, raised, mishap, short>>

\* return ctx: the strategy goes on with the round.
Return ==
    /\ pc = "chain" /\ chain > Len(Chains)
    /\ pc' = "strategy"
    /\ UNCHANGED <<round, chain, margin, wallet, tasks, packets, raised, mishap, short>>

\* chain_info raises.  The strategy logs a ValueError and goes on.
LoopRaises ==
    /\ InLoop
    /\ pc' = "strategy"
    /\ UNCHANGED <<round, chain, margin, wallet, tasks, packets, raised, mishap, short>>

\* The event loop's timeout cancels the gather, and so its coroutines.
Cancel ==
    /\ pc \in {"chain", "gather"}
    /\ tasks' = [t \in Ids |->
          IF pc = "gather" /\ t \in OfChain \cap Running
          THEN [tasks[t] EXCEPT !.st = "ended"] ELSE tasks[t]]
    /\ pc' = "strategy"
    /\ UNCHANGED <<round, chain, margin, wallet, packets, raised, mishap, short>>

\* The next round of the event loop.
NextRound ==
    /\ pc = "strategy" /\ round < MaxRound
    /\ round' = round + 1 /\ chain' = 1 /\ pc' = "chain"
    /\ UNCHANGED <<margin, wallet, tasks, packets, raised, mishap, short>>

Main == SkipChain \/ Gather \/ Gathered \/ Return \/ LoopRaises

-----------------------------------------------------------------------------
(* eval_sell_denom                                                         *)

Move(t, st) == tasks' = [tasks EXCEPT ![t].st = st]

\* The next route's plan is not whole or does not reach the threshold.
SkipRoute(t) ==
    /\ tasks[t].st = "search"
    /\ \E r \in tasks[t].left : tasks' = [tasks EXCEPT ![t].left = @ \ {r}]
    /\ UNCHANGED <<round, chain, pc, margin, wallet, packets, raised, mishap, short>>

NoRouteLeft(t) ==
    /\ tasks[t].st = "search" /\ tasks[t].left = {}
    /\ Move(t, "ended")
    /\ UNCHANGED <<round, chain, pc, margin, wallet, packets, raised, mishap, short>>

\* exec_arb is called with a profit of 0: below any margin it returns at once,
\* and the loop breaks.
RefuseProfit(t) ==
    /\ tasks[t].st = "search" /\ tasks[t].left # {} /\ margin
    /\ Move(t, "ended")
    /\ UNCHANGED <<round, chain, pc, margin, wallet, packets, raised, mishap, short>>

TakeAgain(t) ==
    /\ tasks[t].st = "search" /\ ~margin
    /\ \E r \in tasks[t].left, n \in 1..tasks[t].balance :
          tasks' = [tasks EXCEPT ![t].route = r, ![t].at = 1,
                                 ![t].amount = n, ![t].st = "swap"]
    /\ UNCHANGED <<round, chain, pc, margin, wallet, packets, raised, mishap, short>>

TakePresent(t) ==
    /\ tasks[t].st = "search" /\ ~margin
    /\ \E r \in tasks[t].left, n \in 1..wallet[t[2]] :
          tasks' = [tasks EXCEPT ![t].left = @ \ {r}, ![t].route = r, ![t].at = 1,
                                 ![t].amount = n, ![t].st = "swap"]
    /\ UNCHANGED <<round, chain, pc, margin, wallet, packets, raised, mishap, short>>

\* The plan starts from the balance read at first, or what halving left of it.
Take(t) ==
    /\ tasks[t].st = "search" /\ ~margin
    /\ \E r \in tasks[t].left, n \in 1..tasks[t].balance :
          tasks' = [tasks EXCEPT ![t].left = @ \ {r}, ![t].route = r, ![t].at = 1,
                                 ![t].amount = n, ![t].st = "swap"]
    /\ UNCHANGED <<round, chain, pc, margin, wallet, packets, raised, mishap, short>>

\* The search or the planner raises.  gather passes that on at once and lets
\* the other coroutines run; of one nobody awaits any more nothing is heard.
Raise(t) ==
    /\ tasks[t].st = "search"
    /\ Move(t, "ended")
    /\ pc' = IF pc = "gather" /\ t \in OfChain THEN "strategy" ELSE pc
    /\ raised' = TRUE
    /\ UNCHANGED <<round, chain, margin, wallet, packets, mishap, short>>

-----------------------------------------------------------------------------
(* exec_arb                                                                *)

Batch(t) == tasks[t].route[tasks[t].at]
IsLast(t) == tasks[t].at = Len(tasks[t].route)

Enough(t, d) == wallet[d] >= tasks[t].amount

\* The wallet gives the planned amount of d1 for n of d2.
Trade(t, d1, d2, n) ==
    wallet' = [wallet EXCEPT ![d1] = @ - tasks[t].amount, ![d2] = @ + n]

AfterSwapNoEnd(t) == "move"
AfterSwap(t) == IF IsLast(t) THEN "ended" ELSE "move"

\* The swap gives what was planned, or less.  After the last one: break.
Swap(t) ==
    /\ tasks[t].st = "swap" /\ Enough(t, Batch(t).in)
    /\ \E slip \in {0, 1} :
          /\ Trade(t, Batch(t).in, Batch(t).out, tasks[t].amount - slip)
          /\ mishap' = (mishap \/ slip # 0)
    /\ Move(t, AfterSwap(t))
    /\ UNCHANGED <<round, chain, pc, margin, packets, raised, short>>

\* It happens and the answer is lost: except Exception, the next route.
SwapLost(t) ==
    /\ tasks[t].st = "swap" /\ Enough(t, Batch(t).in)
    /\ Trade(t, Batch(t).in, Batch(t).out, tasks[t].amount)
    /\ mishap' = TRUE
    /\ Move(t, "search")
    /\ UNCHANGED <<round, chain, pc, margin, packets, raised, short>>

\* It does not happen: the same.  After the first batch the funds have moved.
SwapFails(t) ==
    /\ tasks[t].st = "swap"
    /\ short' = (short \/ ~Enough(t, Batch(t).in))
    /\ mishap' = (mishap \/ (tasks[t].at > 1 /\ Enough(t, Batch(t).in)))
    /\ Move(t, "search")
    /\ UNCHANGED <<round, chain, pc, margin, wallet, packets, raised>>

\* The packet of the transfer after the batch t is at.  A coroutine takes each
\* route once, so it sends no packet twice.
Packet(t) == [of |-> t, route |-> tasks[t].route, at |-> tasks[t].at,
              amount |-> tasks[t].amount]
Left(p) == p.route[p.at].out
To(p)   == p.route[p.at + 1].in

\* transfer: the funds leave for the chain of the next batch ...
Send(t) ==
    /\ tasks[t].st = "move" /\ Enough(t, Batch(t).out)
    /\ wallet' = [wallet EXCEPT ![Batch(t).out] = @ - tasks[t].amount]
    /\ packets' = packets \cup {Packet(t)}
    /\ Move(t, "wait")
    /\ UNCHANGED <<round, chain, pc, margin, raised, mishap, short>>

\* ... or do not.  exec_arb returns, and the loop breaks.
SendFails(t) ==
    /\ tasks[t].st = "move"
    /\ short' = (short \/ ~Enough(t, Batch(t).out))
    /\ Move(t, "ended")
    /\ UNCHANGED <<round, chain, pc, margin, wallet, packets, raised, mishap>>

\* transfer_raw sees an acknowledgement under the packet's number: whatever the
\* source chain has there (module IbcTransfer), wherever the packet is.  The
\* order goes on to its next batch, perhaps with its funds in flight.
AckSeen(t) ==
    /\ tasks[t].st = "wait"
    /\ tasks' = [tasks EXCEPT ![t].st = "swap", ![t].at = @ + 1]
    /\ mishap' = (mishap \/ Packet(t) \in packets)
    /\ UNCHANGED <<round, chain, pc, margin, wallet, packets, raised, short>>

GiveUp(t) ==
    /\ tasks[t].st = "wait"
    /\ Move(t, "ended")
    /\ UNCHANGED <<round, chain, pc, margin, wallet, packets, raised, mishap, short>>

\* A packet arrives, whether the bot waits for it, has given up on it or has
\* gone on without it ...
Arrive(p) ==
    /\ wallet' = [wallet EXCEPT ![To(p)] = @ + p.amount]
    /\ packets' = packets \ {p}
    /\ UNCHANGED <<round, chain, pc, margin, tasks, raised, mishap, short>>

\* ... or comes back, long after the bot has stopped waiting for it.
Awaited(p) == tasks[p.of].st = "wait" /\ Packet(p.of) = p

Refund(p) ==
    /\ ~Awaited(p)
    /\ wallet' = [wallet EXCEPT ![Left(p)] = @ + p.amount]
    /\ packets' = packets \ {p}
    /\ UNCHANGED <<round, chain, pc, margin, tasks, raised, mishap, short>>

Step(t) ==
    \/ SkipRoute(t) \/ NoRouteLeft(t) \/ RefuseProfit(t) \/ Take(t) \/ Raise(t)
    \/ Swap(t) \/ SwapLost(t) \/ SwapFails(t) \/ Send(t) \/ SendFails(t)
    \/ AckSeen(t) \/ GiveUp(t)

Next ==
    \/ Main \/ Cancel \/ NextRound
    \/ \E t \in Ids : Step(t)
    \/ \E p \in packets : Arrive(p) \/ Refund(p)

\* Every call has a timeout, and the event loop runs every coroutine.
Spec ==
    /\ Init /\ [][Next]_vars
    /\ WF_vars(Main) /\ \A t \in Ids : WF_vars(Step(t))

-----------------------------------------------------------------------------
(* Properties                                                              *)

TaskRecords ==
    [st : {"none", "search", "swap", "move", "wait", "ended"},
     balance : Nat, left : SUBSET Routes, route : Routes \cup {<<>>},
     at : Nat, amount : Nat]

PacketRecords == [of : Ids, route : Routes, at : Nat, amount : Nat]

VariableTypes ==
    /\ round \in Nat /\ chain \in 1..(Len(Chains) + 1)
    /\ pc \in {"chain", "gather", "strategy"}
    /\ margin \in BOOLEAN /\ raised \in BOOLEAN
    /\ mishap \in BOOLEAN /\ short \in BOOLEAN
    /\ wallet \in [Denoms -> Nat]
    /\ tasks \in [Ids -> TaskRecords] /\ packets \subseteq PacketRecords

\* An order under way stands in its route and has something to trade; what it
\* moves it moves to the next batch.
OnRoute(k) == k.route \in Routes /\ k.at \in 1..Len(k.route) /\ k.amount > 0

Fits(k) ==
    /\ k.st \in {"swap", "move", "wait"} => OnRoute(k)
    /\ k.st \in {"move", "wait"} => k.at < Len(k.route)

Ordered ==
    /\ pc = "gather" => chain <= Len(Chains)
    /\ \A t \in Ids : Fits(tasks[t])
    /\ \A p \in packets : OnRoute(p) /\ p.at < Len(p.route)

\* Type invariant, with the place of each order and packet in its route.
TypeOK == VariableTypes /\ Ordered

\* The coroutines spend one wallet, each by the balance it read or planned
\* before others traded.  None takes what another has in hand: an order finds
\* too little only after one slipped, broke off with its funds halfway or with
\* the answer lost, or went on without its funds on the word of another
\* packet's acknowledgement, or after a coroutine raised and left the others
\* behind.
ShortNeedsMishap == short => mishap \/ raised

\* When the loop is past a chain, and when the strategy trades or a new round
\* begins, no sale of rebalance_portfolio is under way, unless one raised.
NoneLeftBehind ==
    \A t \in Running : raised \/ (pc = "gather" /\ t \in OfChain)

\* rebalance_portfolio ends: each failed order costs a route.
RebalanceEnds == pc = "gather" ~> pc = "strategy"

IInv == VariableTypes /\ Ordered /\ NoneLeftBehind

\* What a coroutine counts on finding in denom d: until its first swap the
\* balance it read, then what it has in hand.
Claim(t, d) ==
    LET k == tasks[t]
    IN  IF k.st = "search" \/ (k.st = "swap" /\ k.at = 1)
        THEN IF d = t[2] THEN k.balance ELSE 0
        ELSE IF \/ k.st = "swap" /\ d = k.route[k.at].in
                \/ k.st = "move" /\ d = k.route[k.at].out
                \/ /\ k.st = "wait" /\ Packet(t) \notin packets
                   /\ d = k.route[k.at + 1].in
             THEN k.amount ELSE 0

\* The claims on d as a set, one element for each unit.
Own(t, d)  == {t} \X (1..Claim(t, d))
Units(d)   == UNION {Own(t, d) : t \in Ids}
Covered(d) == IsFiniteSet(Units(d)) /\ Cardinality(Units(d)) <= wallet[d]

\* Routes start in the denom they are to sell, with no more than was read.
Purposeful(k, sold) ==
    /\ \A r \in k.left : r[1].in = sold
    /\ k.st = "swap" /\ k.at = 1 => k.amount <= k.balance /\ k.route[1].in = sold

\* As long as nothing goes wrong the wallet covers all claims.
Backed ==
    /\ ShortNeedsMishap
    /\ \A t \in Ids : Purposeful(tasks[t], t[2])
    /\ ~mishap /\ ~raised => \A d \in Denoms : Covered(d)

\* A sale left behind is one of a round that is over, but for the rest of the
\* round in which it was left.
InTheirRound ==
    \A t \in Running :
        /\ t[1] <= round
        /\ pc = "chain" => t[1] < round
        /\ pc = "gather" => t[1] < round \/ t \in OfChain

\* How far an order is from its end; a coroutine without one is at 1, or at 0
\* when it has ended.
OrderLeft(k) ==
    CASE k.st = "search" -> 1
      [] k.st = "swap"   -> 4 + 3 * (Len(k.route) - k.at)
      [] k.st = "move"   -> 3 + 3 * (Len(k.route) - k.at)
      [] k.st = "wait"   -> 2 + 3 * (Len(k.route) - k.at)
      [] OTHER           -> 0

Fewer(l, k) == Cardinality(l.left) < Cardinality(k.left)

\* A step leaves t no further from its end, and a step of t itself closer to it.
Advances(t) ==
    LET k == tasks[t]
        l == tasks'[t]
    IN  /\ l.left \subseteq k.left
        /\ {OrderLeft(k), OrderLeft(l)} \subseteq Nat
        /\ Fewer(l, k) \/ OrderLeft(l) <= OrderLeft(k)
        /\ Step(t) => Fewer(l, k) \/ OrderLeft(l) < OrderLeft(k)

\* Why the gathered sales end: each step of a coroutine uses up a route or
\* brings its order closer to its end, and nothing else undoes any of it.
SalesAdvance == [][\A t \in Running : Advances(t)]_vars
=============================================================================
