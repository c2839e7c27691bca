----------------------------- MODULE Submission -----------------------------
(***************************************************************************)
(* How the bot submits the transactions of its wallet to one chain through *)
(* several nodes, any of which may refuse, be unreachable or fall silent.  *)
(*                                                                         *)
(* A sealed operation reads the account, signs ONE transaction and offers  *)
(* that to node after node (transfer_raw and the atomic batch of exec_arb  *)
(* in src/src/strategies/util.py, __swap of src/src/contracts/pool/        *)
(* osmosis.py, each over try_multiple_clients_fatal).  A rebuilt operation *)
(* reads the account and signs anew at each node (try_exec_multiple_fatal, *)
(* behind the swaps of auctions and Astroport pools).  The bot makes one   *)
(* call at a time and does not await within it, but a transaction it gave  *)
(* up on may still be in a mempool when it makes the next.                 *)
(***************************************************************************)
EXTENDS Integers, Sequences, FiniteSets

CONSTANTS
    Sealed, Rebuilt,        \* the operations of either kind
    Clients                 \* number of nodes

Ops == Sealed \cup Rebuilt

ASSUME SubmissionAssumption ==
    /\ Clients \in Nat \ {0}
    /\ Sealed \cap Rebuilt = {}

VARIABLES
    ledger,                 \* ledger[s+1]: what the chain did at sequence s
    pool,                   \* transactions in some node's mempool
    op, pc, client,         \* the call under way and the node it is at
    signed,                 \* the account sequence last signed with
    lost,                   \* lost[o]: broadcasts of o with a lost answer
    result                  \* result[o]: how the call of o ended

vars == <<ledger, pool, op, pc, client, signed, lost, result>>

\* The account sequence is the number of transactions on the ledger.  Two
\* transactions of one operation and sequence have the same bytes and hash.
Tx      == [op : Ops, seq : Nat]
Entry   == [op : Ops, ok : BOOLEAN]
Results == {"none", "ok", "failed", "unknown", "raised"}

Init ==
    /\ ledger = <<>> /\ pool = {}
    /\ pc = "idle" /\ op \in Ops /\ client = 1 /\ signed = 0
    /\ lost = [o \in Ops |-> 0]
    /\ result = [o \in Ops |-> "none"]

-----------------------------------------------------------------------------
(* The bot                                                                 *)

Begin ==
    /\ pc = "idle"
    /\ op' \in {o \in Ops : result[o] = "none"}
    /\ pc' = "account" /\ client' = 1
    /\ UNCHANGED <<ledger, pool, signed, lost, result>>

\* query_account, and sealing and signing with the sequence it returns.  A
\* sealed transaction then starts over at the first node.
Sign ==
    /\ pc = "account"
    /\ signed' = Len(ledger)
    /\ client' = IF op \in Sealed THEN 1 ELSE client
    /\ pc' = "broadcast"
    /\ UNCHANGED <<ledger, pool, op, lost, result>>

RetryAtAccount == "account"

\* Where the next node is tried from after a failed query or broadcast.
RetryAt == IF op \in Sealed THEN pc ELSE "account"

TryNextUnbounded == client' = client + 1 /\ pc' = RetryAt /\ UNCHANGED <<op, result>>

TryNextRoundRobin ==
    /\ client' = (client % Clients) + 1
    /\ pc' = RetryAt
    /\ UNCHANGED <<op, result>>

\* RuntimeError or ValueError from a node: on to the next one, or raise it
\* again at the last.
TryNext ==
    \/ /\ client < Clients
       /\ client' = client + 1
       /\ pc' = RetryAt
       /\ UNCHANGED <<op, result>>
    \/ /\ client = Clients
       /\ pc' = "idle"
       /\ result' = [result EXCEPT ![op] = "raised"]
       /\ UNCHANGED <<op, client>>

\* Any other exception (a grpc.RpcError, when the node is not reached) leaves
\* the loop over the nodes at once.
Escape ==
    /\ pc' = "idle"
    /\ result' = [result EXCEPT ![op] = "raised"]
    /\ UNCHANGED <<op, client>>

NodeRefuses ==
    /\ pc \in {"account", "broadcast"}
    /\ TryNext \/ Escape
    /\ UNCHANGED <<ledger, pool, signed, lost>>

\* A node takes a transaction that carries the sequence the chain expects.
Offer ==
    /\ pc = "broadcast" /\ signed = Len(ledger)
    /\ pool' = pool \cup {[op |-> op, seq |-> signed]}

BroadcastAnsweredNoWait ==
    /\ Offer
    /\ pc' = "idle" /\ result' = [result EXCEPT ![op] = "ok"]
    /\ UNCHANGED <<ledger, op, client, signed, lost>>

BroadcastAnswered ==
    /\ Offer
    /\ pc' = "wait"
    /\ UNCHANGED <<ledger, op, client, signed, lost, result>>

BroadcastAnswerLost ==
    /\ Offer
    /\ TryNext \/ Escape
    /\ lost' = [lost EXCEPT ![op] = @ + 1]
    /\ UNCHANGED <<ledger, signed>>

\* The entry of the transaction waited for is on the ledger.
Landed(o, s) == s + 1 \in DOMAIN ledger /\ ledger[s + 1].op = o

\* wait_to_complete: the transaction is found by its hash, and raises if it
\* failed on the chain ...
WaitEnds ==
    /\ pc = "wait" /\ Landed(op, signed)
    /\ result' = [result EXCEPT ![op] =
                    IF ledger[signed + 1].ok THEN "ok" ELSE "failed"]
    /\ pc' = "idle"
    /\ UNCHANGED <<ledger, pool, op, client, signed, lost>>

WaitRetries ==
    /\ pc = "wait" /\ TryNext
    /\ UNCHANGED <<ledger, pool, signed, lost>>

\* ... or is not found in time, or the query raises.  This is outside the loop
\* over the nodes: the call fails with the transaction still at large.
WaitGivesUp ==
    /\ pc = "wait"
    /\ result' = [result EXCEPT ![op] = "unknown"]
    /\ pc' = "idle"
    /\ UNCHANGED <<ledger, pool, op, client, signed, lost>>

Bot ==
    \/ Begin \/ Sign \/ NodeRefuses \/ BroadcastAnswered \/ BroadcastAnswerLost
    \/ WaitEnds \/ WaitGivesUp

-----------------------------------------------------------------------------
(* The chain                                                               *)

\* A block includes a transaction with the expected sequence.  Others signed
\* with it can never be included.
Include ==
    \E t \in pool, ok \in BOOLEAN :
        /\ t.seq = Len(ledger)
        /\ ledger' = Append(ledger, [op |-> t.op, ok |-> ok])
        /\ pool' = {u \in pool : u.seq > t.seq}
        /\ UNCHANGED <<op, pc, client, signed, lost, result>>

\* The mempools drop a transaction.
Evict ==
    /\ \E t \in pool : pool' = pool \ {t}
    /\ UNCHANGED <<ledger, op, pc, client, signed, lost, result>>

Next == Bot \/ Include \/ Evict

\* The calls are synchronous code with timeouts of their own: a call under way
\* goes on.
Calling == pc # "idle" /\ Bot
Spec == Init /\ [][Next]_vars /\ WF_vars(Calling)

-----------------------------------------------------------------------------
(* Properties                                                              *)

\* Type invariant.
TypeOK ==
    /\ ledger \in Seq(Entry) /\ pool \subseteq Tx
    /\ op \in Ops /\ pc \in {"idle", "account", "broadcast", "wait"}
    /\ client \in 1..Clients /\ signed \in Nat
    /\ lost \in [Ops -> Nat] /\ result \in [Ops -> Results]

\* A sealed operation reaches the ledger at most once, whatever answers are
\* lost, however many nodes get it and whatever earlier transactions are still
\* pending: all nodes are offered one transaction, good for one sequence.
SealedOnce ==
    \A i, j \in DOMAIN ledger :
        ledger[i].op = ledger[j].op /\ ledger[i].op \in Sealed => i = j

Landings(o) == {i \in DOMAIN ledger : ledger[i].op = o}

\* A rebuilt operation can happen more than once, but never more often than
\* answers to its broadcasts were lost, plus one.
RepeatsNeedLostAnswers ==
    \A o \in Ops : Cardinality(Landings(o)) <= lost[o] + 1

\* Once a call has told the bot how its swap or transfer ended, it has happened
\* as often as it ever will: nothing that was signed for it on the way, at any
\* node and with any sequence, is still at large.
Answered(o) == result[o] \in {"ok", "failed"}

AnsweredIsFinal ==
    [][\A o \in Ops : Answered(o) => Landings(o)' = Landings(o)]_vars

\* Every call ends, with a result or an exception.
EveryCallEnds == pc # "idle" ~> pc = "idle"

\* Transactions of a sealed operation all carry one sequence: the one it was
\* signed with, and none before that.
Uniform ==
    /\ \A t \in pool : t.seq >= Len(ledger)
    /\ \A t \in pool, u \in pool :
          t.op = u.op /\ t.op \in Sealed => t.seq = u.seq
    /\ \A t \in pool, i \in DOMAIN ledger :
          ~(t.op = ledger[i].op /\ t.op \in Sealed)

Unsigned ==
    LET quiet(o) == /\ \A t \in pool : t.op # o
                    /\ \A i \in DOMAIN ledger : ledger[i].op # o
    IN  /\ \A o \in Sealed :
              result[o] = "none" /\ (pc = "idle" \/ op # o) => quiet(o)
        /\ pc = "account" /\ op \in Sealed => quiet(op)
        /\ pc # "idle" => result[op] = "none"

Current ==
    pc \in {"broadcast", "wait"} /\ op \in Sealed =>
        /\ \A t \in pool : t.op = op => t.seq = signed
        /\ \A i \in DOMAIN ledger : ledger[i].op = op => i = signed + 1

IInv == TypeOK /\ SealedOnce /\ Uniform /\ Unsigned /\ Current

\* Why an answer is final: what is pending carries the sequence expected next,
\* and what is pending of the operation at hand none beyond the one it waits
\* for.
Settled ==
    /\ \A t \in pool : t.seq <= Len(ledger) /\ ~Answered(t.op)
    /\ pc \in {"broadcast", "wait"} =>
          \A t \in pool : t.op = op => t.seq <= signed

\* The places on the ledger that transactions of o have, or may still get, and
\* whether an answer to its broadcast told it to stop: each broadcast takes
\* one place at most, and all but the answered one have lost their answer.
Places(o) == Landings(o) \cup {t.seq + 1 : t \in {u \in pool : u.op = o}}

Accepted(o) ==
    (pc = "wait" /\ op = o) \/ result[o] \in {"ok", "failed", "unknown"}

Counted ==
    \A o \in Ops :
        /\ IsFiniteSet(Places(o))
        /\ Cardinality(Places(o)) <= lost[o] + (IF Accepted(o) THEN 1 ELSE 0)

\* How many steps the call under way may still take: at most two for each node
\* and the end of the wait.
StepsLeft ==
    CASE pc = "idle"      -> 0
      [] pc = "wait"      -> 1
      [] pc = "broadcast" ->
            2 + (IF op \in Sealed THEN Clients - client ELSE 2 * (Clients - client))
      [] pc = "account"   ->
            IF op \in Sealed THEN 2 + (2 * Clients - client)
                             ELSE 3 + 2 * (Clients - client)

\* Why every call ends: whatever nodes and chain do, each step of the bot
\* leaves it fewer steps, and nothing else gives it more.
CallAdvances ==
    [][/\ StepsLeft' \in 0..(2 * Clients + 1)
       /\ pc # "idle" /\ Bot => StepsLeft' < StepsLeft
       /\ pc # "idle" /\ ~Bot => StepsLeft' = StepsLeft]_vars
=============================================================================
