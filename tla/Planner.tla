------------------------------ MODULE Planner ------------------------------
(***************************************************************************)
(* quantities_for_route_profit (src/src/strategies/util.py): the search    *)
(* for the amounts to trade on each leg of a route, by halving the amount  *)
(* invested until the plan is whole and, for an arbitrage, profitable.     *)
(*                                                                         *)
(* Every quote comes from a node while the market moves, and the search    *)
(* awaits before each: a simulated swap, a pool's liquidity and an         *)
(* auction's remaining funds may be any amount each time they are asked    *)
(* for, and the exchange rate of an auction is that of any auction and     *)
(* height (module AuctionPrice).  One step is one leg.                     *)
(***************************************************************************)
EXTENDS AuctionPrice, Sequences

CONSTANTS
    MaxLegs,                \* bound on the legs of a route
    Starts,                 \* the starting amounts asked for (may be negative)
    Quotes,                 \* amounts a provider may answer
    Abort,                  \* DENOM_QUANTITY_ABORT_ARB
    CapInverse              \* 1 / MAX_POOL_LIQUIDITY_TRADE

ASSUME PlannerAssumption ==
    /\ MaxLegs \in Nat
    /\ Starts \subseteq Int
    /\ Quotes \subseteq Nat /\ 0 \in Quotes
    /\ Abort \in Nat \ {0}
    /\ CapInverse \in Nat \ {0}

VARIABLES
    legs,                   \* the kind of each leg's provider
    seek,                   \* seek_profit
    asked,                  \* the starting_amount argument
    starting,               \* starting_amount, halved after each attempt
    divisor,                \* what it has been divided by (a history variable)
    quantities,             \* the attempt, then the plan
    depth,                  \* depth[j]: the funds seen behind leg j's output
                            \*   (a history variable)
    overrun,                \* the attempt has a rate from past the end of an
                            \*   auction (a history variable)
    pc

vars ==
    <<legs, seek, asked, starting, divisor, quantities, depth, overrun, pc>>

Kinds == {"pool", "auction", "reversed_auction"}

Routes == UNION {[1..n -> Kinds] : n \in 0..MaxLegs}

N == Len(legs)

\* quantities[-1]
Last(s) == s[Len(s)]

-----------------------------------------------------------------------------

\* A route of fewer than two legs is not searched: (0, []).
Init ==
    /\ legs \in Routes
    /\ seek \in BOOLEAN
    /\ asked \in Starts
    /\ starting = asked
    /\ divisor = 1
    /\ quantities = IF N <= 1 THEN <<>> ELSE <<asked>>
    /\ depth = <<>>
    /\ overrun = FALSE
    /\ pc = IF N <= 1 THEN "done" ELSE "while"

\* The condition of the while loop: no profit yet, or not a whole plan.
Unsatisfied ==
    \/ seek /\ Last(quantities) - quantities[1] <= 0
    \/ Len(quantities) <= N

Finish ==
    /\ pc = "while" /\ ~Unsatisfied
    /\ pc' = "done"
    /\ UNCHANGED <<legs, seek, asked, starting, divisor, quantities, depth,
                   overrun>>

\* starting_amount < DENOM_QUANTITY_ABORT_ARB: return (0, []).
TooLittle == starting < Abort

GiveUp ==
    /\ pc = "while" /\ Unsatisfied /\ TooLittle
    /\ quantities' = <<>>
    /\ pc' = "done"
    /\ UNCHANGED <<legs, seek, asked, starting, divisor, depth, overrun>>

TryAgainAppends ==
    /\ pc = "while" /\ Unsatisfied /\ ~TooLittle
    /\ quantities' = Append(quantities, starting)
    /\ depth' = <<>>
    /\ overrun' = FALSE
    /\ pc' = "leg"
    /\ UNCHANGED <<legs, seek, asked, starting, divisor>>

TryAgain ==
    /\ pc = "while" /\ Unsatisfied /\ ~TooLittle
    /\ quantities' = <<starting>>
    /\ depth' = <<>>
    /\ overrun' = FALSE
    /\ pc' = "leg"
    /\ UNCHANGED <<legs, seek, asked, starting, divisor>>

\* The leg about to be quoted is the one that takes the last quantity.
Leg == Len(quantities)

\* if quantities[-1] == 0: quantities = [starting_amount]; break
NothingToTradeUnchecked == FALSE
NothingToTrade == Last(quantities) = 0

NothingLeft ==
    /\ pc = "leg" /\ Leg <= N /\ NothingToTrade
    /\ quantities' = <<starting>>
    /\ depth' = <<>>
    /\ pc' = "halve"
    /\ UNCHANGED <<legs, seek, asked, starting, divisor, overrun>>

\* A leg that sells into an auction, or an auction with nothing left, ends
\* the search: (0, []).
NoAuction ==
    /\ pc = "leg" /\ Leg <= N /\ ~NothingToTrade
    /\ legs[Leg] \in {"auction", "reversed_auction"}
    /\ quantities' = <<>>
    /\ pc' = "done"
    /\ UNCHANGED <<legs, seek, asked, starting, divisor, depth, overrun>>

\* min(int(rate * prev_amt), remaining), the remaining funds asked for anew.
Bought(worth, remaining) == IF worth <= remaining THEN worth ELSE remaining

QuoteAuction ==
    /\ pc = "leg" /\ Leg <= N /\ ~NothingToTrade
    /\ legs[Leg] = "auction"
    /\ \E book \in Books, height \in Heights, remaining \in Quotes :
          /\ ~DividesByZero(book, height)
          /\ quantities' = Append(quantities,
                 Bought(Worth(book, height, Last(quantities)), remaining))
          /\ depth' = Append(depth, remaining)
          /\ overrun' = (overrun \/ PastEnd(book, height))
    /\ UNCHANGED <<legs, seek, asked, starting, divisor, pc>>

\* A price of exactly zero ends the search with an exception.
QuoteRaises ==
    /\ pc = "leg" /\ Leg <= N /\ ~NothingToTrade
    /\ legs[Leg] = "auction"
    /\ \E book \in Books, height \in Heights : DividesByZero(book, height)
    /\ pc' = "raised"
    /\ UNCHANGED <<legs, seek, asked, starting, divisor, quantities, depth,
                   overrun>>

\* pool_liquidity == 0 or quantities[-1] / pool_liquidity > 0.05
OverCapIfAny(amount, liquidity) == amount > liquidity
OverCap(amount, liquidity) ==
    liquidity = 0 \/ amount * CapInverse > liquidity

\* The break leaves the attempt as it is: too short to be a plan, unless the
\* leg was the last one.
QuotePool ==
    /\ pc = "leg" /\ Leg <= N /\ ~NothingToTrade
    /\ legs[Leg] = "pool"
    /\ \E amount, liquidity \in Quotes :
          /\ quantities' = Append(quantities, amount)
          /\ depth' = Append(depth, liquidity)
          /\ pc' = IF OverCap(amount, liquidity) THEN "halve" ELSE "leg"
    /\ UNCHANGED <<legs, seek, asked, starting, divisor, overrun>>

EndOfRoute ==
    /\ pc = "leg" /\ Leg > N
    /\ pc' = "halve"
    /\ UNCHANGED <<legs, seek, asked, starting, divisor, quantities, depth,
                   overrun>>

\* starting_amount = int(Decimal(starting_amount) / Decimal(2.0))
HalfUp(a) == (a + 1) \div 2
Half(a) == a \div 2

HalveAsked ==
    /\ pc = "halve"
    /\ starting' = Half(asked)
    /\ divisor' = 2
    /\ pc' = "while"
    /\ UNCHANGED <<legs, seek, asked, quantities, depth, overrun>>

Halve ==
    /\ pc = "halve"
    /\ starting' = Half(starting)
    /\ divisor' = 2 * divisor
    /\ pc' = "while"
    /\ UNCHANGED <<legs, seek, asked, quantities, depth, overrun>>

Next ==
    \/ Finish \/ GiveUp \/ TryAgain \/ NothingLeft \/ NoAuction
    \/ QuoteAuction \/ QuoteRaises \/ QuotePool \/ EndOfRoute \/ Halve

\* Every query the search awaits ends in an answer or in an exception that
\* ends the search, so a search that is not over goes on.
Spec == Init /\ [][Next]_vars /\ WF_vars(Next)

-----------------------------------------------------------------------------
(* Properties                                                              *)

\* Type invariant.
TypeOK ==
    /\ legs \in Routes
    /\ seek \in BOOLEAN
    /\ asked \in Starts
    /\ starting \in Int
    /\ divisor \in Nat
    /\ quantities \in Seq(Int) /\ Len(quantities) <= N + 1
    /\ depth \in Seq(Nat) /\ Len(depth) <= N
    /\ overrun \in BOOLEAN
    /\ pc \in {"while", "leg", "halve", "done", "raised"}

Planned == pc = "done" /\ quantities # <<>>

\* A plan that is not empty has an amount for every leg and one that comes
\* out, and no leg is asked to trade nothing: exec_arb submits these amounts
\* as they are.  Nor is a leg asked to trade less than nothing, unless the
\* rate of an auction was computed past its end, where the price that the bot
\* extrapolates may be below zero.
PlanIsWhole ==
    Planned =>
        /\ Len(quantities) = N + 1
        /\ \A j \in 1..N : quantities[j] # 0
        /\ \A j \in 1..N : quantities[j] > 0 \/ overrun

\* What is invested is what was asked for, halved (and rounded down) once
\* per attempt after the first, and is never below the backstop.
PlanIsAffordable ==
    Planned =>
        /\ quantities[1] >= Abort
        /\ quantities[1] <= asked
        /\ divisor >= 2 /\ quantities[1] * divisor <= 2 * asked

\* No plan takes more out of a pool than the share of its liquidity that was
\* seen, nor more out of an auction than was seen to remain, except out of
\* the pool of the last leg, where the break comes too late to matter.
PlanWithinDepth ==
    Planned =>
        /\ \A j \in 1..N : legs[j] # "reversed_auction"
        /\ \A j \in 1..(N - 1) :
              legs[j] = "pool" =>
                  depth[j] > 0 /\ quantities[j + 1] * CapInverse <= depth[j]
        /\ \A j \in 1..N :
              legs[j] = "auction" => quantities[j + 1] <= depth[j]

\* The strengthening under which the plan's properties are inductive: what is
\* true of an attempt, whole or not, in each part of the loop.
Attempt ==
    /\ Len(quantities) >= 1
    /\ quantities[1] >= Abort /\ quantities[1] <= asked
    /\ quantities[Len(quantities)] >= 0 \/ overrun
    /\ \A j \in 1..(Len(quantities) - 1) :
          /\ quantities[j] # 0
          /\ quantities[j] > 0 \/ overrun
          /\ legs[j] # "reversed_auction"
          /\ legs[j] = "auction" => quantities[j + 1] <= depth[j]
    /\ Len(depth) = Len(quantities) - 1

\* The first k legs of the attempt are within the cap.
Capped(k) ==
    \A j \in 1..k :
        legs[j] = "pool" =>
            depth[j] > 0 /\ quantities[j + 1] * CapInverse <= depth[j]

Search ==
    /\ starting <= asked /\ divisor >= 1
    /\ pc \notin {"done", "raised"} => N >= 2 /\ Len(quantities) >= 1
    /\ pc \in {"leg", "halve"} =>
          /\ Attempt /\ quantities[1] = starting
          /\ starting * divisor <= asked
    /\ pc = "leg" => Capped(Len(quantities) - 1)
    /\ pc \in {"halve", "while"} => Capped(Len(quantities) - 2)
    /\ pc = "while" => starting * divisor <= asked
    /\ pc = "while" /\ Len(quantities) > 1 =>
          Attempt /\ divisor >= 2 /\ quantities[1] * divisor <= 2 * asked

IInv ==
    /\ TypeOK /\ Search
    /\ PlanIsWhole /\ PlanIsAffordable /\ PlanWithinDepth

\* The search ends, whatever the providers answer.
SearchEnds == <>(pc \in {"done", "raised"})

\* How far the attempt is from its end.
Remaining ==
    CASE pc = "while" -> N + 2
      [] pc = "leg"   -> (N + 2) - Len(quantities)
      [] OTHER        -> 0

Shrinks ==
    /\ starting \in Nat /\ Remaining \in Nat /\ Remaining' \in Nat
    /\ \/ starting' \in 0..(starting - 1)
       \/ starting' = starting /\ Remaining' < Remaining

\* Why the search ends: a step that does not end it has what it trades with
\* shrink, or, with the same, comes closer to the end of the attempt.
SearchShrinks == [][pc' \notin {"done", "raised"} => Shrinks]_vars
=============================================================================
