----------------------------- MODULE AtomicOrder -----------------------------
(***************************************************************************)
(* What executing an arbitrage order promises, without saying how: an      *)
(* order of `size` legs is carried out a few consecutive legs at a time,   *)
(* each batch first on a chain and then in the order's record, and gets    *)
(* at most one verdict.  ArbExecution is shown to implement it.            *)
(***************************************************************************)
EXTENDS Integers

CONSTANT MaxLegs            \* bound on the legs of an order (--hops)

VARIABLES
    size,                   \* number of legs
    onchain,                \* legs 1..onchain have been swapped on a chain
    flagged,                \* the legs the record says were executed
    verdict                 \* "QUEUED" while the order is open

ovars == <<size, onchain, flagged, verdict>>

OrderInit ==
    /\ size \in 2..MaxLegs
    /\ onchain = 0
    /\ flagged = {}
    /\ verdict = "QUEUED"

\* The next batch of legs happens on a chain, all of it or none of it, and
\* only when the record has caught up with the batches before it.
Settle ==
    /\ verdict = "QUEUED"
    /\ flagged = 1..onchain
    /\ onchain' \in (onchain + 1)..size
    /\ UNCHANGED <<size, flagged, verdict>>

\* The record catches up with the chain.
Flag ==
    /\ verdict = "QUEUED"
    /\ flagged' = 1..onchain
    /\ UNCHANGED <<size, onchain, verdict>>

\* Only an order whose every leg is on record succeeds.
Succeed ==
    /\ verdict = "QUEUED"
    /\ flagged = 1..size
    /\ onchain = size
    /\ verdict' = "EXECUTED"
    /\ UNCHANGED <<size, onchain, flagged>>

\* An order can fail at any point; the record may then lag behind the chain
\* by the one batch whose answer was lost.
Fail ==
    /\ verdict = "QUEUED"
    /\ verdict' = "FAILED"
    /\ UNCHANGED <<size, onchain, flagged>>

OrderNext == Settle \/ Flag \/ Succeed \/ Fail

OrderSpec == OrderInit /\ [][OrderNext]_ovars
=============================================================================
