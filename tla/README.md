# TLA+ models of the auction arbitrage bot

The bot (`src/main.py`) looks for circuits of trades over Valence auctions on
Neutron, Astroport pools and Osmosis pools that return more of a base denom than
they take, and trades them leg by leg, moving the funds between chains by IBC.
This directory holds TLA+ modules of its parts, TLC configurations that check
them on small instances, and TLAPS proofs for all values of the constants.
`PROJECT.json` lists the components, the runs, which lines of the source each
definition stands for, a mutant of the code for every checked property, the
hazards of the code and the theorems.

    tlc -config MCArbExecution.cfg MCArbExecution     # model-check
    tlapm ArbExecution_proofs.tla                     # check proofs

## 1. The system

| Part | State | Operations | Interacts with |
|---|---|---|---|
| Event loop (`main.py` 395-430) | timeout per round | rounds of `Scheduler.poll`, each cut by `asyncio.timeout`; an exception starts the next round | cancels the strategy at an `await` |
| Naive strategy (`naive.py` 72-198) | `State.balance`, the order at hand | rebalance, take orders from the search, execute, conclude, recover, commit | everything below |
| Route search (`strategies/util.py` 576-783) | paths (one coroutine each), `denom_cache` | prune, close, branch, look up a denom | queues orders in `Ctx`; asks the Skip API |
| Planning (`util.py` 1042-1134) | amount invested, amounts per leg | quote legs, halve, give up | simulations and balances of the providers |
| Execution (`exec_arb`, 130-437) | flags `executed` of the order's legs, funds on chains | guards, batches, transfer, swap, mark | `transfer`, providers |
| Recovery (`recover_funds`, 786-847) | an order of its own | backtrack, transfer, plan, execute | planning, execution |
| Transfer (`transfer`, `transfer_raw`, 850-1039) | packet, the bot's deadline | find denom and route, send, poll the acknowledgement | two chains, Skip API |
| Rebalancing (`rebalance_portfolio`, 440-571) | balances read once per chain, one coroutine per denom | sell every denom for the base denom | search, planning, execution |
| Submission (`src/util.py` 119-230, `contracts/pool/*.py`, `auction.py`) | account sequence, mempools | query account, sign, broadcast over several nodes, wait | cosmpy, the nodes |
| Order history (`scheduler.py` 26-127, `route.py`) | `order_history`, the file | queue, update, commit, recover | file system, restarts |
| Providers: quotes, prices, messages | none, or per-auction clients | simulate, price, liquidity, build messages | nodes |
| Discovery and registration (`main.py` 195-230, 385-402) | the directories' catalogues, `sched.providers`, `sched.auctions` | list pools and auctions, register under their denoms | nodes, pool file |
| Denom and chain information (`src/util.py` 290-460) | `denom_map` | `denom_info`, `denom_route`, `chain_info` | Skip API |
| Bellman-Ford strategy | weights | not reachable from `main.py` | execution, planning |

What is hard:

* *Concurrency.* Everything runs in one event loop. Coroutines interleave at
  `await` only, but those of a search share a cache, those of a rebalancing
  share the wallet, and orders are queued by searches while another executes.
  `time.sleep` and cosmpy calls block the loop, so a timeout strikes only at an
  `await`.
* *Remote state.* A swap or a transfer may happen with its answer lost; a packet
  may arrive long after the bot has given up on it; quotes change between two
  reads; a pending transaction may take the account sequence of the next one.
* *Failure in the middle.* Some exceptions lead to recovery, some make
  `exec_arb` return as if all were well, some leave the strategy.
* *Restarts.* Orders are numbered by their place in a list that is cut and
  stored in a file.

What makes each part correct is stated as the properties of section 4.

## 2. Modules

| Module | Models | Proofs |
|---|---|---|
| `AtomicOrder` | what executing an order promises: batch by batch, on the chain first and in the record second, one verdict | |
| `ArbExecution` | `exec_arb`, `collapse_route`, `recover_funds`, the strategy's verdict, the event loop's cancellation, and where the funds are; implements `AtomicOrder` | `ArbExecution_proofs` |
| `AuctionPrice` | `AuctionProvider.exchange_rate`: the price line, followed past the auction's end too (operators only) | in `Planner_proofs` |
| `Planner` | `quantities_for_route_profit`, with the rates of `AuctionPrice` | `Planner_proofs` |
| `NaiveRound` | rounds of the strategy seen from the wallet: `State.poll`, `eval_route`, `route_gas`, the outcomes of an order, the event loop | `NaiveRound_proofs` |
| `OrderHistory` | `Ctx.queue_route`, `update_route`, `commit_history`, `recover_history` over rounds, crashes and restarts | `OrderHistory_proofs` |
| `Submission` | `try_multiple_clients_fatal`, `try_exec_multiple_fatal`, account sequences, mempools | `Transaction_proofs` |
| `IbcTransfer` | `transfer`, `transfer_raw` in real time on a channel used in both directions; its names differ from those of `Submission`, so that one module can extend both | `Transaction_proofs` |
| `RouteSearch` | `listen_routes_with_depth_dfs` and its coroutines | `RouteSearch_proofs` |
| `Rebalance` | `rebalance_portfolio`, its gathered sales and their shared wallet, over rounds | `Rebalance_proofs` |
| `Discovery` | the listing of pools, pairs and auctions at the start, and their registration | `Discovery_proofs` |
| `MC...` | instances for TLC | |

How they fit together: `ArbExecution` is the life of one order, with everything
it calls reduced to its outcomes. The other modules justify those outcomes.
`Planner` shows what `exec_arb` takes for granted of a plan (an amount for every
leg, above zero unless the rate of an auction was computed past its end; no sale
into an auction). `IbcTransfer` shows what the two
outcomes of a transfer, an acknowledgement seen or not, say about the packet:
nothing in the first case, and in the second that it may still arrive. So
`ArbExecution` and `Rebalance` let an order go on, or give up, wherever its
packet is.
`Submission` shows what the three outcomes of a swap say about the chain.
`OrderHistory` takes the verdicts of `ArbExecution` as actions. `Rebalance` runs
several orders, each reduced to the places where it lets others run.
`NaiveRound` puts the orders of a round side by side: what `Planner` returns is
planned while another order of `ArbExecution` trades and a sale of `Rebalance`
may still run, and each of the three is reduced to what it does to the wallet.
`Discovery` makes the registry that `RouteSearch` starts from.

### State and code

* `ArbExecution`: `route` is the list of legs, each by its chain; `marked` the
  `executed` flags of the order and of the recovery order; `settled`, `held`,
  `at`, `dest` the truth on the chains, which the code does not know; `head` and
  `tail` the batch of the loop over `to_execute`; `pc` the place in `exec_arb`,
  the strategy or `recover_funds`. An action is one stretch of code between two
  points where a remote call may fail or the event loop may cancel.
* `Planner`: `quantities` and `starting` as in the code; `divisor` and `depth`
  are history variables that the properties need.
* `AuctionPrice`: prices are numbers of `1 / PriceUnit`, multiplied by the length
  of the auction, so that the line needs no fractions; `Truncated` is `int()`.
* `NaiveRound`: `balance` is `state.balance`, `prior` `balance_prior`, `realized`
  `r.realized_profit`; `wallet` is what the chain would answer. `orders` says for
  each order of the round whether it is being searched, planned, waiting to be
  taken, or over. An order in hand is at `trade` before its first swap, `abroad`
  after it, at `query` when `exec_arb` has returned and at `failed` or `refused`
  when it raised with and without a swap done. An order's `gas` is what `route_gas`
  foresees, its `fees` what the transactions of the whole route are sealed with,
  both in untrn and 0 if the base denom is another. `blind` and `lost` are history
  variables: what the balance may not know of.
* `Discovery`: `view` is what each node knows; `listed`, `cursor` the pages so far;
  `providers` counts how often a market stands under two denoms.
* `OrderHistory`: `history` is `ctx.order_history` with uid and status; `file`
  the history file, `torn` between truncation and dump.
* `Submission`: the ledger is the sequence of included transactions, so the
  account sequence is its length; `client` the loop over the nodes.
* `IbcTransfer`: `stage` is the place in `transfer` or `transfer_raw`, `deadline` is `timeout`, `expires` the packet's
  `timeout_timestamp`; `due` bounds how long the bot may stay where it is.
* `RouteSearch`: `tasks` are suspended `next_legs(path)`, `looking` those that
  await `denom_info`; `found` the routes handed to `queue_route`,
  `failed` (a history variable) the denoms whose lookup failed.
* `Rebalance`: a task is one `eval_sell_denom`, by round and denom; `left` the
  routes its search has yet to yield; `packets` the funds in flight, by coroutine,
  route and the hop they are on, which outlive the order that sent them. `mishap`
  is a history variable: an order went wrong halfway or went on without its funds.

## 3. Reading the source: points that are easy to miss

* A failed transfer *between* two legs does not start recovery: `exec_arb`
  catches it and returns (`util.py` 250-265). The order keeps its status.
* `EXECUTED` is concluded from the flag of the last leg alone (`naive.py` 147).
  `ExecutedIsHome` shows that this is enough.
* The event loop cannot cut `exec_arb` between a swap and its flag: there is no
  `await` there (`AbandonedIsExact`).
* An atomic batch is several messages in one transaction, so it happens wholly or
  not at all; its legs are marked together.
* Strategy awaits nothing between the last swap of an order and the poll for the
  next one (`naive.py` 129-142, 190-192), so the profit it measures cannot include
  what other coroutines do, except while the order trades (`RealizedIsOwn`).
* Every pool is registered twice under its two denoms, because `main.py` walks the
  catalogue in both orders and `register_provider` adds both orders each time: the
  search starts from each pool twice. Its coroutines are a set in `RouteSearch`.
* Of the Osmosis pools of the same two denoms the last one of the answer replaces
  the others (`osmosis.py` 414).
* The printed form of legs is assumed to be distinct in one route.

## 4. Runs

Passing runs (TLC finishes, each property has a mutant of the code that breaks
it):

| Run | States | Shows |
|---|---|---|
| `arb_execution` | 122,445 | Flags never run ahead of the chains and have no gap (`FlagsAreHonest`); an order given up without an exception is recorded exactly (`AbandonedIsExact`), and one that failed but for its last batch at most (`RecordMissesOneBatch`); `EXECUTED` means every swap was made and the funds are home (`ExecutedIsHome`); the funds are never more than a transfer away from where the order stands (`FundsOnRoute`); the whole implements `AtomicOrder` |
| `planner` | 868,863 | A plan is whole, and its amounts above zero unless an auction is past its end (`PlanIsWhole`), invests a halving of what was asked (`PlanIsAffordable`), stays in the depth that was seen (`PlanWithinDepth`); the search ends (`SearchEnds`) |
| `order_history` | 25,053 | uid is index over crashes and restarts (`UidIsIndex`); no verdict is changed or dropped while the bot runs (`VerdictsStick`) |
| `submission` | 169,203 | A sealed transaction lands at most once (`SealedOnce`); a rebuilt one at most once more than answers were lost (`RepeatsNeedLostAnswers`); what has been answered to the bot happens no more, at any node (`AnsweredIsFinal`); calls end (`EveryCallEnds`) |
| `ibc_transfer` | 263,032 | The bot stops polling before the packet can time out (`PacketOutlivesPolling`); polling ends (`PollingEnds`) |
| `route_search` | 313,491 | What is found is a circuit that can be traded (`FoundAreCircuits`); the cache has what is looked up (`CacheHasPrevious`); all circuits are found but those of a known misreading and those through a denom whose lookup failed (`FindsAllButMisread`) |
| `naive_round` | 745,936 | The order in hand can be paid for unless some of the base denom was lost since the round began (`OverdraftNeedsLoss`); the profit reported is the order's own (`RealizedIsOwn`), and at least the margin, less what its transactions are charged beyond `route_gas`, if it traded as planned (`DeliveredPlansPay`); a completed order is reported `FAILED` only when the balance was not answered (`WholeFailsOnlyUnseen`); rounds go on (`RoundsGoOn`) |
| `discovery` | 382,156 | Every pair that all nodes knew can be traded, and of Osmosis the newest pool of any two denoms (`SteadyIsTradable`), unless a page came from no node; the start ends though pairs are created (`StartupEnds`) |
| `rebalance` | 158,850 | Concurrent sales do not take each other's funds unless an order went wrong halfway or went on by the acknowledgement of another packet (`ShortNeedsMishap`); no sale outlives its chain's turn unless a coroutine raised (`NoneLeftBehind`); the call ends (`RebalanceEnds`) |

Runs that find the code at odds with its documents:

| Run | Shows |
|---|---|
| `recovery_start` | The recovery order does not begin in the denom the failed order stopped in: `route[: route.index(curr_leg) - 1]` leaves out the last leg done, and for the first leg wraps round to the far end |
| `history_restart` | A restart drops the *last* 200,000 orders of the file: nothing of a usual history is retrieved |
| `ibc_ack` | The acknowledgement is looked up on the source chain, which stores those of the other direction: `transfer_raw` may return with the funds in flight |

### Bounds

* `arb_execution`: routes of 2 to 5 legs over three chains, all of them. Five legs
  allow two batches of two and a single leg, transfers between all of them, and a
  return to a chain left before; recovery reverses up to four. Profits -1, 0, 1
  around a margin of 0: below, at, above. No fairness; the system may stop.
* `planner`: all routes of up to three legs of three kinds; a backstop of 2, a cap
  of one half and starting amounts from -1 to 8 so that the search halves up to
  three times and meets the backstop and the cap from both sides; answers 0 to 8.
  Three legs have a first, an inner and a last one, which the break tells apart.
  One auction, priced from 2 down to 1/2, and heights on its line, past its end on
  either side of the zero of its price, and none.
* `naive_round`: two orders, so that one is planned before, while and after the
  other trades; wallets up to 5; plans that promise 2 or 3 around a margin of 1 and
  a gas of 0 to 2 (a route in one chain with an auction's fee, and one over two
  chains); trades that give what was promised or lose 1; sales that bring or cost
  1. Rounds are not bounded. In untrn the first route is charged less than was
  foreseen (1 of 2), the second more (a transfer costs 3 where 1 of gas per hop is
  foreseen), and an order pays anything from nothing to all of it: how far it got.
* `discovery`: four pairs in pages of two (the code asks for ten), so that a page
  may be full, partial or empty, one pair malformed; two nodes with any views; four
  Osmosis pools, three of the same two denoms and one with a single denom; a pool
  file that names pools, auctions, both or neither.
* `order_history`: four orders and a limit of two: below, at and above the limit,
  and again after a restart. Crashes and restarts are unbounded.
* `submission`: two sealed operations and a rebuilt one, so that a pending
  transaction of either kind meets a later one of either kind; two nodes, the
  first and the last of the loop.
* `ibc_transfer`: the timers of the code in units of 5 s (20 s, 5 s, 600 s), a
  query of up to 30 s, a submission of up to 60 s; the clock runs past the
  packet's life. Two sequences: the packet's and another.
* `route_search`: five markets on two chains, depth 3: every kind of step (same
  chain, another chain, an auction, a misread market) occurs in some circuit.
* `rebalance`: two denoms of one chain, of which one is sold where it is and the
  other through it and over a second chain; wallets of two units beside the base
  denom, in one denom or in both; two rounds: a sale left behind, and packets still
  in flight, meet the sales of the next round.

Except `naive_round`, where rounds go on and deadlock is checked, these models
really stop: the catalogue is built, the order is concluded, the plan is
made, the search has run, or a bound on orders, operations, rounds or the clock is
reached. Deadlock is not checked there; that calls end is a property instead.

### Fairness

* `Planner`: `WF_vars(Next)`. Each await is a gRPC query that answers or raises;
  an exception ends the search.
* `Submission`: `WF_vars(Calling)`. Calls are synchronous, with the timeouts of
  cosmpy. Nothing is assumed of the chain: transactions may never be included.
* `IbcTransfer`: `WF_transferVars(Transferring)` and `WF_transferVars(Tick)`. The loop blocks in
  `time.sleep`, so nothing keeps it from going on, and time passes.
* `Rebalance`: `WF_vars(Main)` and `WF_vars(Step(t))` of each coroutine: asyncio
  runs every ready coroutine, and every call has a timeout. Nothing is assumed of
  packets or of cancellation.
* `NaiveRound`: `WF_vars(Evaluate \/ Strategy)`: the loop runs what is ready and
  every call it waits for ends. Nothing is assumed of stray sales and the timeout.
* `Discovery`: `WF_vars(Startup)`: what is asked is answered. Nothing is assumed of
  new pairs, nor that a page ever goes unanswered.
* The other modules state safety only.

## 5. Theorems

TLAPS checks, for every value of the constants that meets the `ASSUME` of the
module:

| Module | Theorems | Inductive invariant |
|---|---|---|
| `ArbExecution_proofs` | `TypeCorrect`, `FlagsHonest`, `AbandonedExact`, `RecordMissesLittle`, `ExecutedHome`, `FundsStayOnRoute`, `Implementation` (`Spec => ImplementsAtomicOrder`) | `Control` (which `pc` goes with which stage and status) and `Progress` (how far chain and flags are at each point of a batch): the properties speak of flags and chains and say nothing of the middle of a batch |
| `Planner_proofs` | `TypeCorrect`, `PlansAreWhole`, `PlansAreAffordable`, `PlansWithinDepth`; `PriceStays`: up to the last block of an auction its price is above zero; `SearchIsBounded` | `Search`: what holds of an attempt that is not yet a plan; the cap holds of all legs but the last quoted one; a negative amount needs a rate from past an auction's end |
| `NaiveRound_proofs` | `TypeCorrect`, `OverdraftsNeedLoss`, `RealizedProfitIsOwn`, `DeliveryPays`, `WholeOrdersFailUnseen`, `RoundsAreBounded` | `Solvent`: while nothing is lost the balance and every plan that waits are within the wallet the order in hand started from; `Measured`: while nothing is unseen, what wallet, balance and `prior` have to do with each other at each point, where an order in hand has paid at most its `fees`; `Reported`: status and margin |
| `OrderHistory_proofs` | `TypeCorrect`, `UidsAreIndices`, `VerdictsAreKept` | `Pending`: orders that may still be written are QUEUED ones of this run |
| `Transaction_proofs` on `Submission` | `TypeCorrect`, `SealedAtMostOnce`, `RepeatsNeedLoss`, `AnsweredFinal`, `CallsAreBounded` | `Uniform`, `Unsigned`, `Current`: all transactions of a sealed operation carry the sequence it was signed with; `Counted`: the places on the ledger that an operation has or may still get are at most one more than its lost answers; `Settled`: what is pending carries the next sequence, and nothing of an answered operation is pending |
| `Transaction_proofs` on `IbcTransfer` | `TransferTypeCorrect`, `PacketOutlives`, `PollingIsBounded` | `Timers`: where the clock may stand at each point, from `SendTime + TransferTimeout + PollInterval + QueryTime < PacketLife` |
| `RouteSearch_proofs` | `TypeCorrect`, `RoutesAreCircuits`, `CacheNeverMisses`, `SearchIsComplete` | `Sprout`: a path in hand joins up but for its last leg; `CacheIsTrue`: the cache never says more than the API; `NothingDropped`: of every circuit sought some beginning is in hand, or it is found, or it goes through a denom whose lookup failed, and the cache has the whole of an answer or nothing |
| `Rebalance_proofs` | `TypeCorrect`, `LeftBehindNeedsRaise`, `ShortageNeedsMishap`, `SalesAreBounded` | `Ordered`: an order under way stands in its route and has something to trade; `Backed`: as long as nothing goes wrong the wallet covers what all coroutines count on (not what is in flight), their claims taken as a set with an element for each unit; `InTheirRound`: outside its chain's turn a sale that runs is of a round that is over, but for the rest of the round it was left in, so what a new turn starts anew was not running |
| `Discovery_proofs` | `TypeCorrect`, `SteadyTraded`, `ListingIsBounded` | `NothingPassed`: what all nodes knew and the cursor has passed is listed; `MadeOfAnswers`: catalogues and registry are those of what was heard and listed |

Each proof has a lemma per group of actions, then `Init => IInv`,
`IInv /\ [Next]_vars => IInv'` and the temporal step. The implementation theorem
maps every step to a step of `AtomicOrder` or a stutter: `SwapSettles` to
`Settle`, `Mark` to `Flag`, `FinishArb` to `Succeed` or a stutter,
`BeginRecovery` and `NothingTerminal` to `Fail`, all others to stuttering.

`SearchIsComplete` goes along a circuit: when the coroutine at one of its
beginnings looks up the end of the last leg, the next leg is among what it gets,
whoever filled the cache, because a leg that is not misread is the one
`next_legs` builds. `SteadyTraded` rests on lemmas about the operators: a page
has no gap between the cursor and its last pair (`PageHasNoGap`), an empty one
means its node knows nothing more (`EmptyPageIsLast`), the newest market of two
denoms is held under both their orders and is called twice (`NewestIsHeld`,
`HeldIsCalledTwice`). That finite sets of numbers have a greatest and a least
element is proved by a smallest counterexample, since the induction theorems of
the library cannot be used. `DiscoveryAssumption` says what the argument needs of
the data: Astroport's factory has at most one pair for two denoms, no pool
trades a denom for itself, and there are finitely many pairs.

Checked by TLC only: liveness (`SearchEnds`, `EveryCallEnds`, `PollingEnds`,
`RebalanceEnds`, `RoundsGoOn`, `StartupEnds`), since TLAPS has neither fairness nor
`ENABLED`. Every other property of a passing run is a theorem. Of liveness the part
that does not need fairness is proved: for each loop of the bot a measure that
its steps lessen and that nothing else raises, so that only the fairness of the
scheduling is left to the model checker.

| Theorem | Property | Measure | Why it is not obvious |
|---|---|---|---|
| `SearchIsBounded` | `SearchShrinks` | what is traded with, then the legs still to be quoted | an attempt that falls short starts over, in a `while` loop, with a smaller amount |
| `CallsAreBounded` | `CallAdvances` | `StepsLeft`, at most `2 * Clients + 1` | the sealed and the rebuilding calls go through the nodes in different ways |
| `PollingIsBounded` | `PatienceRunsOut` | `Patience`: the time to the deadline and the place in the loop | a query and a sleep may both overrun the deadline |
| `ListingIsBounded` | `ListingAdvances` | `Ahead`: the pairs the cursor has not passed | each page may come from another node, and pairs are created meanwhile |
| `SalesAreBounded` | `SalesAdvance` | the routes left, then `OrderLeft` of the order | other sales, packets and cancellation interleave, also after the round is over |
| `RoundsAreBounded` | `RoundAdvances` | `Awaited`: the passes of the orders; then `Place` of strategy | the search plans on while an order is in hand; stray sales and the timeout come between |

`RoundsAreBounded` says that a round is finite, not that there is a next one; the
rounds themselves have no bound. It needs finitely many orders a round, and
`SalesAreBounded` finitely many routes: both come from the depth of the search in
finite catalogues. The properties of this table were also model-checked on the
instances of section 4 before they were proved.

## 6. Not modelled

* The first-pass estimate of `eval_route` (`route_base_denom_profit`) and the
  simulations of swaps: `NaiveRound` lets any route through the first pass, and
  `Planner` takes any answer of a pool. Building and parsing of messages, logging.
* `hist` and `daemon` commands; arguments, except what `poll_interval` does.
* The parsing of the Skip API's answers and multi-hop memos.
* Which denom the amounts of a recovery order are in.
* The Bellman-Ford strategy. `main.py` does not reach it, and it cannot run (see
  section 7), so a model of it would say nothing of the bot.
* Test harness, deployed contracts, generated stubs.

## 7. Other divergences met while reading

No run states these, because no document is contradicted in a way a model shows
better than the line itself, or the path is part of a model without a property.

* `naive.py` 184-190: `RECOVERED` is overwritten by `FAILED` in the next statement.
* `naive.py` 201-219: `route_gas` "Estimates the gas required to execute a route,
  given that the base denom is untrn". It counts 5000 for a transfer (`util.py` 57)
  and 9000 for an Astroport swap (`astroport.py` 122), but a transfer is sealed with
  100000 of the fee denom (`util.py` 971), and an Astroport swap that is not batched
  with a gas limit of 3000000 (`astroport.py` 211) at 0.0053, which is 15900. An
  order that trades as planned may realize less than the margin, by `Excess` of
  `NaiveRound`.
* `naive.py` 152: a complete order whose balance query answers nothing logs `None`
  as a number; the `TypeError` makes it `FAILED`, and finding no unexecuted leg,
  `StopIteration` ends the round (`BalanceRaises`, `NothingTerminal`).
* `util.py` 547 and 162: rebalancing passes a profit of 0, so with any margin above
  0 it sells nothing; `README.md` 82 gives 1000 as the default margin, the code 0.
* `main.py` 407: `poll_interval` is the timeout of a round, not the period
  `README.md` 77 describes, and a string when given on the command line.
* `main.py` 416-428: the daemon runs `Process.run()`, which is in the foreground.
* Orders aborted without an exception stay `QUEUED`; `Ctx.cancel` is never read.
* `src/util.py` 390-454: all legs of a `denom_route` are built from its first
  operation.
* `util.py` 720 and 743: "A pool is a candidate to be a next pool if it has a denom
  contained in denom_cache[end] or one of its denoms *is* end" (689-690), but the
  leg of a pool on another chain takes `asset_a` whenever that is `src`, even if
  the funds arrive in `asset_b`. The leg is traded the wrong way round and pruned,
  so no circuit returns to the base denom from another chain through such a pool
  (`Misread` in `RouteSearch`; `FindsAllButMisread` is what remains true).
* `util.py` 637: the search compares leg types by their printed names, and that of
  an Astroport leg is `astroport (<chain id>)` (`util.py` 69): with `-r astroport`,
  which `README.md` 79 names, every route is dropped.
* `main.py` 407: `args.poll_interval`, the string of the command line, is what
  `asyncio.timeout` gets (170 converts it for `cli_args` only). With `-p` it raises
  `TypeError` in every turn, and no round is ever run (`BadInterval`).
* `README.md` 125 says a pool file avoids external calls and that its routes are
  used: the Astroport directory reads the file and lists the pairs all the same
  (`astroport.py` 382, 411-484), and nothing reads routes.
* `main.py` 398-400: the number of pools that is logged counts every pool twice, and
  only the last Astroport chain.
* `main.py` 358-373: the least and greatest profit of IBC orders in `hist` are those
  of the atomic orders.
* `auction.py` 95-104: past the last block of an auction that nobody has closed the
  price is followed through zero (an exception) to below it; a plan may then ask for
  a negative amount (`overrun` in `Planner`).
* `bellman_ford.py`: `ctx.clients["neutron"]` (287) is no key of the clients (chain
  ids, `main.py` 153-161), so every route found raises `KeyError`; the memo of
  `pair_provider_edge` (`@cache` on a coroutine, 152-166) can be awaited once;
  `state.poll` (359) is not awaited; and the relaxation (442) stores the distance
  without the weight, so what it calls negative cycles are none.
* `util.py` 632: a route needs two legs, so no denom is sold in one.
* `naive.py` 306: with a margin of 0 and no gas counted, an empty plan passes the
  evaluation; `exec_arb` refuses it and recovery starts for an order that never
  traded.

## 8. Plan

Done, in order of importance: `ArbExecution` with `AtomicOrder`, `Planner` with
`AuctionPrice`, `OrderHistory`, `Submission`, `IbcTransfer`, `RouteSearch`,
`Rebalance`, `NaiveRound`, `Discovery`.

What is left:

1. Amounts in `ArbExecution`'s recovery, composed with `Planner`: in which denom
   the recovery order's amounts are.
2. `DenomInfo`: what `denom_info` and `denom_route` make of the Skip API's answers
   and of the denom file.
