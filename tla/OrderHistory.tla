---------------------------- MODULE OrderHistory ----------------------------
(***************************************************************************)
(* The order history of the bot: the list a Ctx keeps in memory, the file  *)
(* it is written to, and the rounds of the strategy that fill it           *)
(* (src/src/scheduler.py, the loop of src/src/strategies/naive.py and the  *)
(* start and event loop of src/main.py).                                   *)
(*                                                                         *)
(* An order is its uid and its status.  The searches of a round run in     *)
(* concurrent coroutines: orders are queued while another one executes or  *)
(* recovers.  The process may die at any point and be started again.       *)
(***************************************************************************)
EXTENDS Integers, Sequences

CONSTANTS
    MaxHistory,         \* MAX_ROUTE_HISTORY_LEN
    MaxOrders           \* bound on the orders in memory

ASSUME HistoryAssumption == MaxHistory \in Nat /\ MaxOrders \in Nat

VARIABLES
    history,            \* ctx.order_history
    file,               \* the history file: missing, readable or torn
    pc,                 \* where the process stands
    waiting,            \* uids queued in this round that may yet be yielded
    open                \* the uid being executed or recovered, or NoOrder

vars == <<history, file, pc, waiting, open>>

NoOrder  == -1
Statuses == {"QUEUED", "ABORTED", "IN_PROGRESS", "EXECUTED", "FAILED", "RECOVERED"}
Order    == [uid : Nat, status : Statuses]

Init ==
    /\ history = <<>>
    /\ file = [state |-> "missing", orders |-> <<>>]
    /\ pc = "down"
    /\ waiting = {} /\ open = NoOrder

-----------------------------------------------------------------------------
(* The process                                                             *)

RecoveredSuffix(s) == IF Len(s) <= MaxHistory THEN s
                      ELSE SubSeq(s, Len(s) - MaxHistory + 1, Len(s))

\* recover_history: json.load(f)[:-MAX_ROUTE_HISTORY_LEN].
Recovered(s) == SubSeq(s, 1, Len(s) - MaxHistory)

\* main creates the file if there is none and loads it.  A torn file does not
\* parse: the process does not come up.
Start ==
    /\ pc = "down" /\ file.state # "torn"
    /\ file' = [state |-> "ok", orders |-> file.orders]
    /\ history' = Recovered(file.orders)
    /\ pc' = "idle"
    /\ UNCHANGED <<waiting, open>>

Crash ==
    /\ pc # "down"
    /\ history' = <<>> /\ pc' = "down"
    /\ waiting' = {} /\ open' = NoOrder
    /\ UNCHANGED file

-----------------------------------------------------------------------------
(* A round of the strategy                                                 *)

BeginRound ==
    /\ pc = "idle"
    /\ pc' = "round"
    /\ UNCHANGED <<history, file, waiting, open>>

\* queue_route numbers the order by the length of the list.
Queued == Append(history, [uid |-> Len(history), status |-> "QUEUED"])

QueueRouteFromOne ==
    /\ pc \in {"round", "recover"} /\ Len(history) < MaxOrders
    /\ history' = Append(history, [uid |-> Len(history) + 1, status |-> "QUEUED"])
    /\ waiting' \in {waiting, waiting \cup {Len(history) + 1}}
    /\ UNCHANGED <<file, pc, open>>

\* A search closes a route.  eval_route may reject it, and the orders of
\* rebalance_portfolio and recover_funds are never yielded to the strategy.
QueueRoute ==
    /\ pc \in {"round", "recover"} /\ Len(history) < MaxOrders
    /\ history' = Queued
    /\ waiting' \in {waiting, waiting \cup {Len(history)}}
    /\ UNCHANGED <<file, pc, open>>

\* eval_route let an order through and the strategy takes it up.
Yield ==
    /\ pc = "round" /\ open = NoOrder
    /\ \E u \in waiting : open' = u /\ waiting' = waiting \ {u}
    /\ UNCHANGED <<history, file, pc>>

ConcludedLatest(u, v) == [history EXCEPT ![Len(history)].status = v]

\* r.status = v and update_route(r), which writes r at index r.uid.
Concluded(u, v) ==
    IF u + 1 \in DOMAIN history
    THEN [history EXCEPT ![u + 1].status = v]
    ELSE history

\* exec_arb returned with the last leg executed ...
Executed ==
    /\ pc = "round" /\ open # NoOrder
    /\ history' = Concluded(open, "EXECUTED")
    /\ open' = NoOrder
    /\ UNCHANGED <<file, pc, waiting>>

\* ... or with the route abandoned, which leaves the status alone ...
Aborted ==
    /\ pc = "round" /\ open # NoOrder
    /\ open' = NoOrder
    /\ UNCHANGED <<history, file, pc, waiting>>

\* ... or it raised: FAILED, and recover_funds runs, awaiting and queueing an
\* order of its own.
Failed ==
    /\ pc = "round" /\ open # NoOrder
    /\ history' = Concluded(open, "FAILED")
    /\ pc' = "recover"
    /\ UNCHANGED <<file, waiting, open>>

\* RECOVERED gives way to FAILED in the next statement, however recovery went.
EndRecovery ==
    /\ pc = "recover"
    /\ history' = Concluded(open, "FAILED")
    /\ open' = NoOrder /\ pc' = "round"
    /\ UNCHANGED <<file, waiting>>

\* No balance (return ctx), an exception that leaves strategy, or the timeout
\* of the event loop: the round ends with nothing written.
AbandonRound ==
    /\ pc \in {"round", "recover"}
    /\ pc' = "idle"
    /\ waiting' = {} /\ open' = NoOrder
    /\ UNCHANGED <<history, file>>

\* commit_history opens the file for writing, which empties it ...
Truncate ==
    /\ pc = "round" /\ open = NoOrder /\ waiting = {}
    /\ file' = [state |-> "torn", orders |-> <<>>]
    /\ pc' = "dump"
    /\ UNCHANGED <<history, waiting, open>>

\* ... and dumps the list, with no await in between.
Dump ==
    /\ pc = "dump"
    /\ file' = [state |-> "ok", orders |-> history]
    /\ pc' = "idle"
    /\ UNCHANGED <<history, waiting, open>>

Next ==
    \/ Start \/ Crash
    \/ BeginRound \/ QueueRoute \/ Yield
    \/ Executed \/ Aborted \/ Failed \/ EndRecovery
    \/ AbandonRound \/ Truncate \/ Dump

Spec == Init /\ [][Next]_vars

-----------------------------------------------------------------------------
(* Properties                                                              *)

Uids == {u \in Nat : u + 1 \in DOMAIN history}

\* Type invariant.  Orders that may still be written are in the list.
TypeOK ==
    /\ history \in Seq(Order)
    /\ file \in [state : {"missing", "ok", "torn"}, orders : Seq(Order)]
    /\ pc \in {"down", "idle", "round", "recover", "dump"}
    /\ waiting \subseteq Uids /\ open \in Uids \cup {NoOrder}

Numbered(s) == \A i \in DOMAIN s : s[i].uid = i - 1

\* The uid of every order is its place in the list, in memory and on disk and
\* over restarts: update_route and log_route store an order at index uid, and
\* the hist command looks it up there.  A recovery that kept the last
\* MaxHistory orders, as its name suggests, would break this.
UidIsIndex == Numbered(history) /\ Numbered(file.orders)

\* Orders that may still be written are queued ones.
Pending ==
    /\ open \notin waiting
    /\ \A u \in waiting : history[u + 1].status = "QUEUED"
    /\ pc = "round" /\ open # NoOrder => history[open + 1].status = "QUEUED"
    /\ pc = "recover" => open # NoOrder /\ history[open + 1].status = "FAILED"
    /\ pc \in {"down", "idle", "dump"} => waiting = {} /\ open = NoOrder
    /\ pc = "down" => history = <<>>

IInv == TypeOK /\ UidIsIndex /\ Pending

\* A verdict stands: while the bot runs, no order that has been concluded is
\* dropped or changed, although orders are queued, executed and recovered in
\* interleaved coroutines and stored by number.
VerdictsStand ==
    pc' # "down" =>
        \A i \in DOMAIN history :
            history[i].status # "QUEUED" =>
                i \in DOMAIN history' /\ history'[i] = history[i]

VerdictsStick == [][VerdictsStand]_vars

\* "Retrieves the order history from disk" (recover_history): a file that is
\* within the limit is retrieved whole.
RestartRecovers ==
    [][Start /\ Len(file.orders) <= MaxHistory => history' = file.orders]_vars
=============================================================================
