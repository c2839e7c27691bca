----------------------------- MODULE NaiveRound -----------------------------
(***************************************************************************)
(* Rounds of the naive strategy (src/src/strategies/naive.py) seen from    *)
(* its wallet: the balance of the base denom that State.poll keeps, the    *)
(* orders that eval_route plans with it while another order trades, what   *)
(* strategy makes of their outcome, and the event loop that starts the     *)
(* next round (src/main.py).                                               *)
(*                                                                         *)
(* An order is reduced to what it does to the wallet: it takes what its    *)
(* plan invests, is charged for its transactions if the base denom is      *)
(* untrn, and gives back what the trades make of it, later, or never.  How *)
(* it gets there is module ArbExecution, which amounts a plan has is       *)
(* module Planner, which sales a failed rebalancing leaves running is      *)
(* module Rebalance.                                                       *)
(***************************************************************************)
EXTENDS Integers, Sequences, FiniteSets

CONSTANTS
    Orders,                 \* the orders a round may queue
    Routes,                 \* legs as records of a chain, a swap_fee, and the
                            \*   charge in untrn for its part of a transaction
    TransferGas,            \* IBC_TRANSFER_GAS
    TransferFee,            \* the fee transfer_raw seals its transaction with
    Home,                   \* the chain where fees are paid in untrn
    Margin,                 \* ctx.cli_args["profit_margin"]
    Abort,                  \* DENOM_QUANTITY_ABORT_ARB
    Promises,               \* profits a plan may promise
    Gains,                  \* what trading may make of an investment
    Sales,                  \* what a rebalancing sale may do to the wallet
    MaxWallet               \* bound on the wallet

ASSUME NaiveAssumption ==
    /\ IsFiniteSet(Orders)
    /\ Margin \in Int
    /\ Abort \in Nat \ {0}
    /\ Promises \subseteq Nat \ {0}
    /\ Gains \subseteq Int
    /\ Sales \subseteq Int
    /\ MaxWallet \in Nat

VARIABLES
    base,                   \* the base denom: "untrn" or another
    interval,               \* --poll_interval: "default" (a number) or
                            \*   "given" (the string of the command line)
    wallet,                 \* the base denom the bot owns on the base chain
    balance,                \* state.balance; 0 stands for None too
    orders,                 \* where each order of the round is, and its plan
    stray,                  \* sales of a rebalancing that raised still run
    pc,                     \* where strategy stands
    current,                \* the order it executes
    prior,                  \* balance_prior
    whole,                  \* every leg of it is marked executed
    known, realized,        \* r.realized_profit, None unless known
    status,                 \* r.status
    started,                \* the wallet when the order was taken
    delivered,              \* the trades gave what the plan promised
    blind,                  \* since state.balance was last read, a query went
                            \*   unanswered or a sale changed the wallet
    lost                    \* since a round last read it, an order or a sale
                            \*   has left the wallet with less
    \* the last four are history variables

vars == <<base, interval, wallet, balance, orders, stray, pc, current, prior,
          whole, known, realized, status, started, delivered, blind, lost>>

config == <<base, interval>>
inhand == <<current, prior, whole, known, realized, status, started, delivered>>

Stages == {"search", "plan", "ready", "taken", "dropped"}
Points == {"round", "rebalance", "take", "trade", "abroad", "query", "refused",
           "failed", "conclude"}

\* The points of strategy where other coroutines run, and where the timeout
\* strikes: from the last swap of an order to the next poll nothing awaits.
Awaits == pc \in {"take", "trade", "abroad", "refused", "failed"}

Wallets == 0..MaxWallet

Done   == [at |-> "dropped", gas |-> 0, fees |-> 0, invest |-> 0, profit |-> 0]
Unseen == [at |-> "search", gas |-> 0, fees |-> 0, invest |-> 0, profit |-> 0]

Order == orders[current]

InHand == pc \in {"trade", "abroad", "query", "refused", "failed", "conclude"}

\* No order in hand: what strategy knew of the last one is out of scope.
PutDown ==
    /\ prior' = 0 /\ whole' = FALSE /\ known' = FALSE /\ realized' = 0
    /\ status' = "QUEUED" /\ started' = 0 /\ delivered' = FALSE
    /\ UNCHANGED current

-----------------------------------------------------------------------------
(* Evaluation of a route                                                   *)

Total(amounts) ==
    LET total[i \in 0..Len(amounts)] ==
            IF i = 0 THEN 0 ELSE total[i - 1] + amounts[i]
    IN  total[Len(amounts)]

SwapFees(route) == [i \in 1..Len(route) |-> route[i].fee]
Charges(route) == [i \in 1..Len(route) |-> route[i].charge]

Hops(route) ==
    {i \in 1..(Len(route) - 1) : route[i].chain # route[i + 1].chain}

\* route_gas, which counts only if the base denom pays for gas.
RouteGas(route) ==
    Total(SwapFees(route)) + TransferGas * Cardinality(Hops(route))
Gas(route) == IF base = "untrn" THEN RouteGas(route) ELSE 0

\* What the transactions of the whole route are sealed with, as far as it is
\* paid in the base denom: the gas limits of the swaps at their price, and a
\* transfer's fee for each hop that leaves the chain of the base denom.
RouteFees(route) ==
    Total(Charges(route))
        + TransferFee * Cardinality({i \in Hops(route) : route[i].chain = Home})
Fees(route) == IF base = "untrn" THEN RouteFees(route) ELSE 0

ASSUME GasAssumption ==
    \A route \in Routes : RouteGas(route) \in Nat /\ RouteFees(route) \in Nat

Init ==
    /\ base \in {"untrn", "other"}
    /\ interval \in {"default", "given"}
    /\ wallet \in Wallets
    /\ balance = 0
    /\ orders = [o \in Orders |-> Unseen]
    /\ stray = FALSE
    /\ pc = "round"
    /\ current \in Orders
    /\ prior = 0 /\ whole = FALSE /\ known = FALSE /\ realized = 0
    /\ status = "QUEUED"
    /\ started = 0 /\ delivered = FALSE
    /\ blind = TRUE /\ lost = FALSE

\* The search closes a circuit and queues it; eval_route drops it if the
\* balance is not known or the first pass promises too little.
FirstPass(o) ==
    /\ Awaits /\ orders[o].at = "search"
    /\ \E route \in Routes :
          \E to \in IF balance = 0 THEN {"dropped"} ELSE {"dropped", "plan"} :
              orders' = [orders EXCEPT ![o] =
                  IF to = "plan"
                  THEN [@ EXCEPT !.at = to, !.gas = Gas(route),
                                 !.fees = Fees(route)]
                  ELSE [@ EXCEPT !.at = to]]
    /\ UNCHANGED <<config, wallet, balance, stray, pc, inhand, blind, lost>>

\* The plans quantities_for_route_profit makes of a starting amount (module
\* Planner): none at all, or a halving of it that promises a profit.
PlansWithoutBackstop(start) ==
    [invest : {start, start \div 2}, profit : Promises]

EmptyPlan == [invest |-> 0, profit |-> 0]
Plans(start) ==
    {EmptyPlan} \cup
        {p \in [invest : {start, start \div 2}, profit : Promises] :
            p.invest >= Abort}

StartWithoutGas(o) == balance
Start(o) == balance - orders[o].gas

PaysWithoutGas(o, p) == p.profit >= Margin
Pays(o, p) == p.profit - orders[o].gas >= Margin

\* The second pass reads state.balance again, which a poll may have changed
\* since the first, and any order may since have changed the wallet.
MakePlan(o) ==
    /\ Awaits /\ orders[o].at = "plan"
    /\ \E p \in Plans(Start(o)) :
          orders' = [orders EXCEPT ![o] =
              IF Pays(o, p)
              THEN [@ EXCEPT !.at = "ready", !.invest = p.invest,
                             !.profit = p.profit]
              ELSE Done]
    /\ UNCHANGED <<config, wallet, balance, stray, pc, inhand, blind, lost>>

-----------------------------------------------------------------------------
(* The round                                                               *)

\* State.poll: no answer, or an answer of zero, leaves the balance as it is.
Poll(answered) ==
    /\ balance' = IF answered /\ wallet > 0 THEN wallet ELSE balance
    /\ blind' = ~(answered /\ wallet > 0)

\* asyncio.timeout of a string raises a TypeError, which the event loop logs
\* before it tries again: strategy is never called.
BadInterval ==
    /\ pc = "round" /\ interval = "given"
    /\ UNCHANGED vars

BeginRound ==
    /\ pc = "round" /\ interval = "default"
    /\ \E answered \in BOOLEAN :
          /\ Poll(answered)
          /\ lost' = (lost /\ blind')
    /\ orders' = [o \in Orders |-> Unseen]
    /\ pc' = "rebalance"
    /\ PutDown
    /\ UNCHANGED <<config, wallet, stray>>

\* A sale brings in some of the base denom, or costs its fee.
Sell(d) ==
    /\ wallet + d \in Wallets
    /\ wallet' = wallet + d
    /\ blind' = (blind \/ d # 0)
    /\ lost' = (lost \/ d < 0)

\* rebalance_portfolio.  A ValueError is caught, with the other sales of the
\* chain still running; anything else ends the round.
RebalancePortfolio ==
    /\ pc = "rebalance"
    /\ \E d \in Sales \cup {0} : Sell(d)
    /\ \/ pc' = "take" /\ stray' = stray
       \/ pc' \in {"take", "round"} /\ stray' = TRUE
    /\ UNCHANGED <<config, balance, orders, inhand>>

StraySale ==
    /\ stray /\ Awaits
    /\ \E d \in Sales : Sell(d)
    /\ stray' \in BOOLEAN
    /\ UNCHANGED <<config, balance, orders, pc, inhand>>

\* The search hands strategy an evaluated order.
Take(o) ==
    /\ pc = "take" /\ orders[o].at = "ready"
    /\ pc' = IF balance = 0 THEN "round" ELSE "trade"
    /\ current' = o /\ prior' = balance /\ started' = wallet
    /\ whole' = FALSE /\ known' = FALSE /\ realized' = 0
    /\ status' = "QUEUED" /\ delivered' = FALSE
    /\ orders' = [orders EXCEPT ![o].at = "taken"]
    /\ UNCHANGED <<config, wallet, balance, stray, blind, lost>>

\* The search is exhausted: commit_history, and the next round.
EndRound ==
    /\ pc = "take"
    /\ \A o \in Orders : orders[o].at \notin {"plan", "ready"}
    /\ pc' = "round"
    /\ UNCHANGED <<config, wallet, balance, orders, stray, inhand, blind, lost>>

-----------------------------------------------------------------------------
(* The order in hand                                                       *)

\* exec_arb refuses an empty plan, or its first swap fails, which a chain may
\* charge for all the same.
Refused ==
    /\ pc = "trade"
    /\ pc' = "refused"
    /\ \E fee \in IF Order.invest > 0 THEN 0..Order.fees ELSE {0} :
          /\ wallet >= fee
          /\ wallet' = wallet - fee
    /\ UNCHANGED <<config, balance, orders, stray, inhand, blind, lost>>

\* The first swap takes what the plan invests.  The fees are those of all the
\* transactions that the order will get to, together: nothing looks at the
\* wallet before it has come to an end, and the proceeds pay for none.
Invest ==
    /\ pc = "trade" /\ Order.invest > 0
    /\ \E fee \in 0..Order.fees :
          /\ wallet >= Order.invest + fee
          /\ wallet' = wallet - Order.invest - fee
    /\ pc' = "abroad"
    /\ UNCHANGED <<config, balance, orders, stray, inhand, blind, lost>>

\* The last swap gives the base denom back.  If its answer is lost exec_arb
\* raises and the last leg is not marked.
ComeHome ==
    /\ pc = "abroad"
    /\ \E gain \in Gains \cup {Order.profit} :
          /\ wallet + Order.invest + gain \in Wallets
          /\ Order.invest + gain >= 0
          /\ wallet' = wallet + Order.invest + gain
          /\ \/ pc' = "query" /\ whole' = TRUE /\ delivered' = (gain = Order.profit)
             \/ pc' = "failed" /\ UNCHANGED <<whole, delivered>>
    /\ UNCHANGED <<config, balance, orders, stray, current, prior, known,
                   realized, status, started, blind, lost>>

\* A transfer fails and exec_arb returns, or a later swap makes it raise.
StayAbroad ==
    /\ pc = "abroad"
    /\ pc' \in {"query", "failed"}
    /\ UNCHANGED <<config, wallet, balance, orders, stray, inhand, blind, lost>>

\* What strategy does when exec_arb has returned: the balance query raises,
\* or answers nothing (or zero), or the balance; EXECUTED if the last leg is
\* marked; and then the log line, which a profit of None makes raise.
LogRaisesOnZero(knownNow, profit) == ~knownNow \/ profit = 0
LogRaises(knownNow, profit) == ~knownNow

Query ==
    /\ pc = "query"
    /\ \/ pc' = "failed" /\ UNCHANGED <<known, realized, status>>
       \/ /\ \E answered \in BOOLEAN : known' = (answered /\ wallet > 0)
          /\ realized' = IF known' THEN wallet - prior ELSE 0
          /\ status' = IF whole THEN "EXECUTED" ELSE status
          /\ pc' = IF whole /\ LogRaises(known', realized') THEN "failed"
                   ELSE "conclude"
    /\ UNCHANGED <<config, wallet, balance, orders, stray, current, prior,
                   whole, started, delivered, blind, lost>>

\* An order that ends with less in the wallet than there was has lost it.
Short == wallet' < started

\* except Exception: FAILED.  With every leg marked there is no terminal leg
\* and StopIteration leaves strategy; otherwise recover_funds brings the
\* investment back or nothing, with fees again for the way, and may leave
\* strategy too.  Of an order that never started it may send some of the base
\* denom to another chain: it backtracks from the far end of the route.
Recovered ==
    IF whole THEN {0}
    ELSE IF pc = "refused" THEN {0, -1}
    ELSE {0, Order.invest}

FailTriesAgain ==
    /\ pc \in {"refused", "failed"}
    /\ pc' = IF whole THEN "round" ELSE "trade"
    /\ UNCHANGED <<config, wallet, balance, orders, stray, inhand, blind, lost>>

Fail ==
    /\ pc \in {"refused", "failed"}
    /\ status' = "FAILED"
    /\ \E back \in Recovered, fee \in IF whole THEN {0} ELSE 0..Order.fees :
          /\ wallet + back - fee \in Wallets
          /\ wallet' = wallet + back - fee
    /\ pc' \in IF whole THEN {"round"} ELSE {"round", "conclude"}
    /\ lost' = (lost \/ (pc' = "round" /\ Short))
    /\ UNCHANGED <<config, balance, orders, stray, current, prior, whole, known,
                   realized, started, delivered, blind>>

\* update_route, and the poll that readies the next order.
ConcludeWithoutPoll ==
    /\ pc = "conclude"
    /\ pc' = "take"
    /\ lost' = (lost \/ wallet < started)
    /\ orders' = [orders EXCEPT ![current] = Done]
    /\ PutDown
    /\ UNCHANGED <<config, wallet, balance, stray, blind>>

Conclude ==
    /\ pc = "conclude"
    /\ \E answered \in BOOLEAN : Poll(answered)
    /\ pc' = "take"
    /\ lost' = (lost \/ wallet < started)
    /\ orders' = [orders EXCEPT ![current] = Done]
    /\ PutDown
    /\ UNCHANGED <<config, wallet, stray>>

\* The event loop's timeout, or an exception of the search, ends the round
\* where it awaits.
Cut ==
    /\ Awaits \/ pc = "rebalance"
    /\ pc' = "round"
    /\ lost' = (lost \/ (InHand /\ wallet < started))
    /\ PutDown
    /\ UNCHANGED <<config, wallet, balance, orders, stray, blind>>

-----------------------------------------------------------------------------

Evaluate == \E o \in Orders : FirstPass(o) \/ MakePlan(o)

Strategy ==
    \/ BeginRound \/ RebalancePortfolio
    \/ \E o \in Orders : Take(o)
    \/ Refused \/ Invest \/ ComeHome \/ StayAbroad
    \/ Query \/ Fail \/ Conclude \/ EndRound

Next == BadInterval \/ Evaluate \/ Strategy \/ StraySale \/ Cut

\* The coroutines of the bot go on: every call they wait for ends.  Nothing
\* is assumed of stray sales and of the timeout.
Spec == Init /\ [][Next]_vars /\ WF_vars(Evaluate \/ Strategy)

-----------------------------------------------------------------------------
(* Properties                                                              *)

OrderRecord ==
    [at : Stages, gas : Nat, fees : Nat, invest : Nat, profit : Nat]

\* Type invariant: the wallet and what is known of it, the orders, and what
\* strategy keeps of the order in hand.
WalletType ==
    /\ base \in {"untrn", "other"} /\ interval \in {"default", "given"}
    /\ wallet \in Wallets /\ balance \in Wallets
    /\ stray \in BOOLEAN /\ blind \in BOOLEAN /\ lost \in BOOLEAN

OrdersType ==
    /\ orders \in [Orders -> OrderRecord]
    /\ pc \in Points /\ current \in Orders

HandType ==
    /\ prior \in Wallets /\ started \in Wallets
    /\ whole \in BOOLEAN /\ known \in BOOLEAN /\ delivered \in BOOLEAN
    /\ realized \in Int /\ status \in {"QUEUED", "EXECUTED", "FAILED"}

TypeOK == WalletType /\ OrdersType /\ HandType

Affordable(o, amount) == orders[o].invest + orders[o].gas <= amount

\* Orders are planned with the balance of the moment and executed after other
\* orders have come and gone.  The wallet can still pay for the next one, its
\* foreseen gas included, unless since the round began an order or a sale has lost
\* some of the base denom.
OverdraftNeedsLoss ==
    pc = "trade" /\ Order.invest > 0 => lost \/ Affordable(current, wallet)

\* The realized profit the history shows is what the order did to the wallet,
\* although it is measured from a balance read before the order was taken,
\* unless a balance query went unanswered or a rebalancing sale came between.
RealizedIsOwn ==
    pc = "conclude" /\ known /\ ~blind => realized = wallet - started

\* What an order is charged beyond the gas that route_gas foresaw.
Excess == IF Order.fees > Order.gas THEN Order.fees - Order.gas ELSE 0

\* An order that trades as planned leaves at least the profit margin in the
\* wallet, but for what its transactions are charged beyond route_gas, and the
\* history says so, whatever was traded between its plan and its end.
DeliveredPlansPay ==
    pc = "conclude" /\ delivered /\ known /\ ~blind =>
        realized >= Margin - Excess

\* An order all of whose legs were executed is reported FAILED only when the
\* balance query after it brought no number.
WholeFailsOnlyUnseen ==
    status = "FAILED" /\ whole => ~known

\* What ties the history to the balance at each point: the strengthening
\* under which the properties above are inductive.  An order in hand keeps
\* the wallet it started from, and the next ones are planned within it.
Basis == IF InHand THEN started ELSE wallet

Solvent ==
    ~lost =>
        /\ balance <= Basis
        /\ pc = "trade" => started <= wallet
        /\ \A o \in Orders :
              (orders[o].at = "ready" /\ orders[o].invest > 0) =>
                  Affordable(o, Basis)
        /\ pc = "trade" /\ Order.invest > 0 => Affordable(current, started)

Measured ==
    ~blind =>
        /\ pc \in {"rebalance", "take"} => balance = wallet
        /\ InHand => prior = started
        /\ pc = "trade" => wallet = started
        /\ pc = "abroad" => wallet + Order.invest + Order.fees >= started
        /\ pc = "query" /\ delivered => wallet - started >= Margin - Excess

Reported ==
    /\ InHand => Order.at = "taken"
    /\ pc \in {"trade", "abroad", "query", "refused", "failed"} => ~known
    /\ pc \in {"trade", "abroad", "query"} => status = "QUEUED"
    /\ pc \in {"trade", "abroad", "refused"} => ~whole /\ ~delivered
    /\ pc = "abroad" => Order.profit - Order.gas >= Margin
    /\ pc = "trade" => Order.profit - Order.gas >= Margin
    /\ \A o \in Orders :
          orders[o].at = "ready" => orders[o].profit - orders[o].gas >= Margin

IInv ==
    /\ TypeOK /\ Solvent /\ Measured /\ Reported
    /\ OverdraftNeedsLoss /\ RealizedIsOwn /\ DeliveredPlansPay
    /\ WholeFailsOnlyUnseen

\* The bot goes from round to round, however orders and rounds end, unless a
\* poll interval is given on the command line.
RoundsGoOn ==
    interval = "default" => []<>(pc = "round") /\ []<>(pc # "round")

\* What the round has still to do: the passes each order awaits, and how far
\* strategy is from where it takes the next one.
Awaited ==
    {e \in Orders \X {"first pass", "second pass", "take"} :
        \/ orders[e[1]].at = "search"
        \/ orders[e[1]].at = "plan"  /\ e[2] # "first pass"
        \/ orders[e[1]].at = "ready" /\ e[2] = "take"}

Place ==
    CASE pc = "rebalance" -> 7
      [] pc = "trade"     -> 6
      [] pc = "abroad"    -> 5
      [] pc = "query"     -> 4
      [] pc \in {"refused", "failed"} -> 3
      [] pc = "conclude"  -> 2
      [] pc = "take"      -> 1
      [] pc = "round"     -> 0

FewerAwaited == Cardinality(Awaited') < Cardinality(Awaited)

\* Why a round ends: each step of the bot takes one of the passes its orders
\* await, or brings strategy closer to the next order; sales and the timeout
\* undo nothing.
RoundAdvances ==
    [][pc # "round" =>
          /\ Awaited' \subseteq Awaited
          /\ FewerAwaited \/ Place' <= Place
          /\ Evaluate \/ Strategy => FewerAwaited \/ Place' < Place]_vars
=============================================================================
