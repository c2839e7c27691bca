----------------------------- MODULE IbcTransfer ----------------------------
(***************************************************************************)
(* One IBC transfer of the bot: transfer and transfer_raw                  *)
(* (src/src/strategies/util.py) against the channel the packet takes.      *)
(*                                                                         *)
(* The bot polls the source chain for the acknowledgement of its packet,   *)
(* up to a deadline of its own that is far shorter than the life of the    *)
(* packet.  The channel is used by others in both directions.  The life of *)
(* a transaction before the packet is sent belongs to module Submission.   *)
(***************************************************************************)
EXTENDS Integers

CONSTANTS
    PollInterval,       \* IBC_TRANSFER_POLL_INTERVAL_SEC
    TransferTimeout,    \* IBC_TRANSFER_TIMEOUT_SEC
    PacketLife,         \* timeout_timestamp, from the creation of the message
    SendTime,           \* longest time to seal, broadcast and wait
    QueryTime,          \* longest time to ask all REST endpoints
    MaxSeq,             \* bound on the packet sequences of the channel
    MaxTime             \* bound on the clock

\* The timers leave room: 20 s of polling, one poll and one query too many and
\* the submission are less than the 600 s of the packet.
ASSUME TimerAssumption ==
    /\ {PollInterval, TransferTimeout, PacketLife, SendTime, QueryTime,
        MaxSeq, MaxTime} \subseteq Nat
    /\ PollInterval > 0
    /\ SendTime + TransferTimeout + PollInterval + QueryTime < PacketLife

VARIABLES
    now,                \* the clock
    stage,              \* where the bot stands
    due,                \* the clock may not pass this before the bot moves on
    deadline,           \* timeout: when polling ends
    expires,            \* timeout_timestamp of the packet
    packet,             \* what became of the packet
    seq,                \* its sequence number, dealt by the source chain
    acks                \* sequences with an acknowledgement on the source chain

transferVars == <<now, stage, due, deadline, expires, packet, seq, acks>>

Polling == {"loop", "sleep", "query"}
Ended   == {"returned", "raised", "cancelled"}
Seqs    == 1..MaxSeq

TransferInit ==
    /\ now = 0 /\ stage = "denom" /\ due = 0
    /\ deadline = 0 /\ expires = 0
    /\ packet = "none" /\ seq \in Seqs
    /\ acks \in SUBSET Seqs

-----------------------------------------------------------------------------
(* The bot                                                                 *)

\* transfer: denom_info_on_chain finds the denom on the destination, or not ...
FindDenom ==
    /\ stage = "denom"
    /\ stage' = "route"
    /\ UNCHANGED <<now, due, deadline, expires, packet, seq, acks>>

NoDenom ==
    /\ stage = "denom"
    /\ stage' = "raised"
    /\ UNCHANGED <<now, due, deadline, expires, packet, seq, acks>>

\* ... and denom_route finds no way there but by a swap, or knows neither end,
NoRoute ==
    /\ stage = "route"
    /\ stage' = "raised"
    /\ UNCHANGED <<now, due, deadline, expires, packet, seq, acks>>

\* or finds one: transfer_raw creates the message, whose life starts here.
ExpiryInSeconds == now + SendTime
Expiry == now + PacketLife

Create ==
    /\ stage = "route"
    /\ expires' = Expiry /\ due' = now + SendTime
    /\ stage' = "submit"
    /\ UNCHANGED <<now, deadline, packet, seq, acks>>

\* No node gives the account or takes the transaction.
Refused ==
    /\ stage = "submit"
    /\ stage' = "raised"
    /\ UNCHANGED <<now, due, deadline, expires, packet, seq, acks>>

SubmittedPastDeadline ==
    /\ stage = "submit"
    /\ packet' = "flying"
    /\ deadline' = now - TransferTimeout
    /\ stage' = "loop"
    /\ UNCHANGED <<now, due, expires, seq, acks>>

\* The packet is sent and the bot sets its own deadline.
Submitted ==
    /\ stage = "submit"
    /\ packet' = "flying"
    /\ deadline' = now + TransferTimeout
    /\ stage' = "loop"
    /\ UNCHANGED <<now, due, expires, seq, acks>>

\* The packet is sent and the bot does not learn of it.
SubmittedUnseen ==
    /\ stage = "submit"
    /\ packet' = "flying"
    /\ stage' = "raised"
    /\ UNCHANGED <<now, due, deadline, expires, seq, acks>>

\* while time.time() < timeout: time.sleep(...).
LoopSlides ==
    /\ stage = "loop" /\ now < deadline
    /\ deadline' = now + TransferTimeout
    /\ due' = now + PollInterval
    /\ stage' = "sleep"
    /\ UNCHANGED <<now, expires, packet, seq, acks>>

Loop ==
    /\ stage = "loop" /\ now < deadline
    /\ due' = now + PollInterval
    /\ stage' = "sleep"
    /\ UNCHANGED <<now, deadline, expires, packet, seq, acks>>

\* IBC transfer timed out.
GiveUp ==
    /\ stage = "loop" /\ now >= deadline
    /\ stage' = "raised"
    /\ UNCHANGED <<now, due, deadline, expires, packet, seq, acks>>

Wake ==
    /\ stage = "sleep" /\ now = due
    /\ due' = now + QueryTime
    /\ stage' = "query"
    /\ UNCHANGED <<now, deadline, expires, packet, seq, acks>>

\* transfer_or_continue asks the source chain for the acknowledgement stored
\* under the channel and the packet's sequence: one for a packet it RECEIVED.
AckFound ==
    /\ stage = "query" /\ seq \in acks
    /\ stage' = "returned"
    /\ UNCHANGED <<now, due, deadline, expires, packet, seq, acks>>

\* Nothing under that sequence, or no endpoint answers with 200.
AckNotFound ==
    /\ stage = "query"
    /\ stage' = "loop"
    /\ UNCHANGED <<now, due, deadline, expires, packet, seq, acks>>

\* The query raises, or the event loop's timeout strikes at the await.
QueryRaises ==
    /\ stage = "query"
    /\ stage' = "raised"
    /\ UNCHANGED <<now, due, deadline, expires, packet, seq, acks>>

Cancel ==
    /\ stage \in {"denom", "route", "query"}
    /\ stage' = "cancelled"
    /\ UNCHANGED <<now, due, deadline, expires, packet, seq, acks>>

Transferring ==
    \/ FindDenom \/ NoDenom \/ NoRoute \/ Create \/ Refused \/ Submitted \/ SubmittedUnseen
    \/ Loop \/ GiveUp \/ Wake \/ AckFound \/ AckNotFound \/ QueryRaises \/ Cancel

-----------------------------------------------------------------------------
(* The channel and the clock                                               *)

\* The destination receives the packet before it expires, and writes the
\* acknowledgement on its own side ...
Deliver ==
    /\ packet = "flying" /\ now < expires
    /\ packet' = "received"
    /\ UNCHANGED <<now, stage, due, deadline, expires, seq, acks>>

\* ... or a relayer proves on the source that it has expired.
Refund ==
    /\ packet = "flying" /\ now >= expires
    /\ packet' = "refunded"
    /\ UNCHANGED <<now, stage, due, deadline, expires, seq, acks>>

\* The source receives a packet of the other direction, whose sequences are
\* counted apart, and stores its acknowledgement.
ReverseArrives ==
    /\ \E s \in Seqs \ acks : acks' = acks \cup {s}
    /\ UNCHANGED <<now, stage, due, deadline, expires, packet, seq>>

\* Time passes while the bot submits, sleeps or queries, up to what that may
\* take, and freely once it is done.
Tick ==
    /\ now < MaxTime
    /\ stage \in {"submit", "sleep", "query"} => now < due
    /\ stage \notin {"denom", "route", "loop"}
    /\ now' = now + 1
    /\ UNCHANGED <<stage, due, deadline, expires, packet, seq, acks>>

TransferNext == Transferring \/ Deliver \/ Refund \/ ReverseArrives \/ Tick

\* The bot's calls are synchronous or have timeouts, and time goes on.
TransferSpec ==
    /\ TransferInit /\ [][TransferNext]_transferVars
    /\ WF_transferVars(Transferring) /\ WF_transferVars(Tick)

-----------------------------------------------------------------------------
(* Properties                                                              *)

\* Type invariant.
TransferTypeOK ==
    /\ {now, due, deadline, expires} \subseteq Nat
    /\ stage \in {"denom", "route", "submit"} \cup Polling \cup Ended
    /\ packet \in {"none", "flying", "received", "refunded"}
    /\ seq \in Seqs /\ acks \subseteq Seqs

\* While the bot polls, its packet cannot time out on the chain: however slow
\* the submission and the endpoints are within their bounds, the bot gives up
\* first.  So it never sees a refund, and what it gives up on may still arrive.
PacketOutlivesPolling ==
    stage \in Polling => now < expires /\ packet \in {"flying", "received"}

\* The poll loop ends: the deadline does not move and each round takes time.
PollingEnds == stage \in Polling ~> stage \in Ended

\* The timers at each point, which bound the overrun past the deadline.
Timers ==
    /\ stage = "submit" =>
          now <= due /\ expires + SendTime = due + PacketLife
    /\ stage \in Polling => deadline + PacketLife <= expires + SendTime + TransferTimeout
    /\ stage = "loop" => now <= deadline + PollInterval + QueryTime
    /\ stage = "sleep" => now <= due /\ due <= deadline + PollInterval
    /\ stage = "query" => now <= due /\ due <= deadline + PollInterval + QueryTime
    /\ stage \in {"denom", "route", "submit"} => packet = "none"
    /\ stage \in Polling => packet # "none"

TransferInv == TransferTypeOK /\ Timers /\ PacketOutlivesPolling

\* "Stop trying, since the transfer succeeded" (transfer_or_continue): when
\* transfer_raw returns, the funds are on the destination chain.
AckMeansReceived == stage = "returned" => packet = "received"

\* What is left of the polling: the time to its latest end, counted fourfold,
\* and the place in the loop.  The time to be slept counts as spent.
Patience ==
    LET toEnd(time) == 4 * ((deadline + PollInterval + QueryTime) - time)
    IN  CASE stage = "loop"  -> toEnd(now) + 3
          [] stage = "sleep" -> toEnd(due) + (due - now) + 5
          [] stage = "query" -> toEnd(now) + 4

\* Why polling ends: every step of the bot and every tick of the clock takes
\* something of it, and nothing gives any of it back.
PatienceRunsOut ==
    [][{stage, stage'} \subseteq Polling =>
          /\ Patience \in Nat /\ Patience' <= Patience
          /\ Transferring \/ Tick => Patience' < Patience]_transferVars
=============================================================================
