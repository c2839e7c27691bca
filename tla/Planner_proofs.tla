--------------------------- MODULE Planner_proofs ---------------------------
(***************************************************************************)
(* For every route, starting amount, answer of the providers, backstop and *)
(* cap: a plan is whole, affordable and within the depth seen.  The        *)
(* argument follows the loop: an attempt satisfies Attempt from the moment *)
(* it is started, each leg extends it, and the loop's condition lets only  *)
(* a whole one through.                                                    *)
(***************************************************************************)
EXTENDS Planner, SequenceTheorems, TLAPS

Plans == PlanIsWhole /\ PlanIsAffordable /\ PlanWithinDepth

LEMMA RouteShape ==
    ASSUME legs \in Routes
    PROVE  N \in Nat /\ N <= MaxLegs /\ legs \in [1..N -> Kinds]
<1>1. PICK n \in 0..MaxLegs : legs \in [1..n -> Kinds]
  BY DEF Routes
<1>2. n \in Nat /\ MaxLegs \in Nat
  BY PlannerAssumption
<1>3. legs \in Seq(Kinds)
  BY <1>1, <1>2, SMT
<1>4. Len(legs) = n
  BY <1>1, <1>2, <1>3, LenProperties, SMT
<1> QED BY <1>1, <1>2, <1>4 DEF N

\* Halving rounds down, and undoes one doubling of the divisor at most.
LEMMA HalfBelow ==
    ASSUME NEW a \in Int, a >= 0
    PROVE  Half(a) \in Int /\ 2 * Half(a) <= a /\ Half(a) <= a
  BY DEF Half

LEMMA HalfInt == \A a \in Int : Half(a) \in Int
  BY DEF Half

\* While the auction runs, and before it, its price is at least the last one.
THEOREM PriceStays ==
    ASSUME NEW book \in Books, NEW height \in Heights,
           height <= book.end_block
    PROVE  Price(book, height) \in Int /\ Price(book, height) > 0
<1> DEFINE fall == book.start_price - book.end_price
           left == book.end_block - height
           len  == book.end_block - book.start_block
           end  == book.end_price
           past == height - book.start_block
<1>1. /\ fall \in Nat /\ left \in Nat /\ len \in Nat /\ len > 0
      /\ end \in Nat /\ end > 0 /\ past \in Int
      /\ past = len - left /\ book.start_price = end + fall
  BY AuctionAssumption
<1>2. Price(book, height) = (end + fall) * len - fall * past
  BY <1>1 DEF Price, Length
<1> HIDE DEF fall, left, len, end, past
<1>3. (end + fall) * len - fall * past = end * len + fall * left
  BY <1>1, SMT
<1>4. end * len \in Nat /\ end * len > 0 /\ fall * left \in Nat
  BY <1>1, SMT
<1> QED BY <1>2, <1>3, <1>4

\* So an amount above zero is worth an amount that is not below zero, unless
\* the rate is from past the end.
LEMMA WorthIsPositive ==
    ASSUME NEW book \in Books, NEW height \in Heights, NEW amount \in Int,
           ~DividesByZero(book, height)
    PROVE  /\ Worth(book, height, amount) \in Int
           /\ amount > 0 /\ ~PastEnd(book, height) =>
                 Worth(book, height, amount) >= 0
<1>1. CASE ~Quoted(book, height)
  BY <1>1 DEF Worth
<1>2. CASE Quoted(book, height)
  <2> DEFINE n == amount * PriceUnit * Length(book)
             d == Price(book, height)
  <2>1. /\ PriceUnit \in Nat /\ Length(book) \in Nat /\ height \in Nat
        /\ book.start_price \in Nat /\ book.end_price \in Nat
        /\ book.start_block \in Nat /\ book.end_block \in Nat
    BY AuctionAssumption DEF Length
  <2>2. n \in Int /\ d \in Int /\ d # 0
    <3>1. amount * PriceUnit \in Int
      BY <2>1
    <3>2. (book.start_price - book.end_price) * (height - book.start_block) \in Int
      BY <2>1
    <3>3. book.start_price * Length(book) \in Int
      BY <2>1
    <3> QED BY <1>2, <2>1, <3>1, <3>2, <3>3 DEF Price, DividesByZero
  <2>3. amount > 0 => n >= 0
    <3>1. amount > 0 => amount * PriceUnit \in Nat
      BY <2>1
    <3> QED BY <2>1, <3>1
  <2>4. ~PastEnd(book, height) => d > 0
    BY <1>2, <2>1, PriceStays DEF PastEnd
  <2> HIDE DEF n, d
  <2>5. /\ Truncated(n, d) \in Int
        /\ n >= 0 /\ d > 0 => Truncated(n, d) >= 0
    BY <2>2 DEF Truncated
  <2>6. Worth(book, height, amount) = Truncated(n, d)
    BY <1>2 DEF Worth, n, d
  <2> QED BY <2>3, <2>4, <2>5, <2>6
<1> QED BY <1>1, <1>2

LEMMA Monotone ==
    ASSUME NEW a \in Int, NEW b \in Int, NEW c \in Nat, a <= b
    PROVE  a * c <= b * c
  BY SMT

LEMMA Regroup ==
    ASSUME NEW a \in Int, NEW c \in Int
    PROVE  a * (2 * c) = (2 * a) * c /\ a * (2 * c) = 2 * (a * c)
  BY SMT

\* One element longer: the rest is where it was.
LEMMA Appended ==
    ASSUME NEW S, NEW s \in Seq(S), NEW e \in S
    PROVE  /\ Append(s, e) \in Seq(S)
           /\ Len(Append(s, e)) = Len(s) + 1
           /\ \A j \in 1..Len(s) : Append(s, e)[j] = s[j]
           /\ Append(s, e)[Len(s) + 1] = e
  BY AppendProperties

LEMMA Single ==
    ASSUME NEW S, NEW e \in S
    PROVE  <<e>> \in Seq(S) /\ Len(<<e>>) = 1 /\ <<e>>[1] = e /\ <<e>> # <<>>
  OBVIOUS

LEMMA Emptied ==
    ASSUME NEW S
    PROVE  <<>> \in Seq(S) /\ Len(<<>>) = 0
  OBVIOUS

-----------------------------------------------------------------------------
LEMMA InitHolds == Init => IInv
<1> SUFFICES ASSUME Init PROVE IInv
  OBVIOUS
<1>1. asked \in Int /\ N \in Nat
  BY RouteShape, PlannerAssumption DEF Init
<1>2. TypeOK
  <2>1. overrun \in BOOLEAN
    BY Zenon DEF Init
  <2> QED BY <1>1, <2>1, Single, Emptied DEF Init, TypeOK
<1>3. Search
  BY <1>1, Single DEF Init, Search, Capped
<1>4. Plans
  BY DEF Init, Plans, PlanIsWhole, PlanIsAffordable, PlanWithinDepth, Planned
<1> QED BY <1>2, <1>3, <1>4 DEF IInv, Plans

LEMMA StutterKeeps == ASSUME IInv, UNCHANGED vars PROVE IInv'
<1>1. TypeOK' /\ Search'
  BY DEF vars, IInv, TypeOK, Search, Attempt, Capped, N
<1>2. Plans'
  BY DEF vars, IInv, Plans, PlanIsWhole, PlanIsAffordable, PlanWithinDepth, Planned, N
<1> QED BY <1>1, <1>2 DEF IInv, Plans

\* While the search goes on, or when it ends with nothing, there is no plan
\* for the properties to speak of.
LEMMA NoPlan == ASSUME ~Planned' PROVE Plans'
  BY DEF Plans, PlanIsWhole, PlanIsAffordable, PlanWithinDepth

\* The way out of the loop: the attempt is whole, and is a plan.
LEMMA FinishKeeps == ASSUME IInv, Finish PROVE IInv'
<1>1. N \in Nat /\ legs \in [1..N -> Kinds] /\ N' = N
  BY RouteShape DEF IInv, TypeOK, Finish, N
<1>2. Len(quantities) = N + 1 /\ Len(quantities) \in Nat
  BY <1>1 DEF IInv, TypeOK, Finish, Unsatisfied
<1>3. /\ Attempt /\ N >= 2 /\ Capped(N - 1)
      /\ divisor >= 2 /\ quantities[1] * divisor <= 2 * asked
  BY <1>1, <1>2 DEF IInv, Search, Finish
<1>4. TypeOK'
  BY <1>1 DEF Finish, IInv, TypeOK
<1>5. Search'
  BY DEF Finish, IInv, Search
<1>6. PlanIsWhole' /\ PlanIsAffordable'
  BY <1>1, <1>2, <1>3 DEF Finish, PlanIsWhole, PlanIsAffordable, Attempt
<1>7. PlanWithinDepth'
  BY <1>1, <1>2, <1>3 DEF Finish, PlanWithinDepth, Attempt, Capped
<1> QED BY <1>4, <1>5, <1>6, <1>7 DEF IInv

LEMMA GiveUpKeeps == ASSUME IInv, GiveUp PROVE IInv'
<1>1. TypeOK'
  BY RouteShape, Emptied DEF GiveUp, IInv, TypeOK, N
<1>2. Search'
  BY DEF GiveUp, IInv, Search
<1>3. Plans'
  BY NoPlan DEF GiveUp, Planned
<1> QED BY <1>1, <1>2, <1>3 DEF IInv, Plans

LEMMA TryAgainKeeps == ASSUME IInv, TryAgain PROVE IInv'
<1>1. starting \in Int /\ Abort \in Nat /\ starting >= Abort
  BY PlannerAssumption DEF TryAgain, TooLittle, IInv, TypeOK
<1>2. quantities' = <<starting>> /\ depth' = <<>> /\ pc' = "leg"
  BY DEF TryAgain
<1>3. TypeOK'
  <2>1. overrun' \in BOOLEAN
    BY Zenon DEF TryAgain
  <2> QED BY <1>1, <1>2, <2>1, RouteShape, Single, Emptied
         DEF TryAgain, IInv, TypeOK, Search, N
<1>4. Search'
  BY <1>1, <1>2, Single, Emptied DEF TryAgain, IInv, Search, Attempt, Capped, N
<1>5. Plans'
  BY <1>2, NoPlan DEF Planned
<1> QED BY <1>3, <1>4, <1>5 DEF IInv, Plans

LEMMA NothingLeftKeeps == ASSUME IInv, NothingLeft PROVE IInv'
<1>1. /\ starting \in Int /\ starting >= Abort /\ Abort \in Nat
      /\ starting <= asked /\ starting * divisor <= asked
  BY PlannerAssumption DEF NothingLeft, IInv, TypeOK, Search, Attempt
<1>2. quantities' = <<starting>> /\ depth' = <<>> /\ pc' = "halve"
  BY DEF NothingLeft
<1>3. TypeOK'
  BY <1>1, <1>2, RouteShape, Single, Emptied DEF NothingLeft, IInv, TypeOK, N
<1>4. Search'
  BY <1>1, <1>2, Single, Emptied DEF NothingLeft, IInv, Search, Attempt, Capped, N
<1>5. Plans'
  BY <1>2, NoPlan DEF Planned
<1> QED BY <1>3, <1>4, <1>5 DEF IInv, Plans

LEMMA NoAuctionKeeps == ASSUME IInv, NoAuction PROVE IInv'
<1>1. TypeOK'
  BY RouteShape, Emptied DEF NoAuction, IInv, TypeOK, N
<1>2. Search'
  BY DEF NoAuction, IInv, Search
<1>3. Plans'
  BY NoPlan DEF NoAuction, Planned
<1> QED BY <1>1, <1>2, <1>3 DEF IInv, Plans

\* A quoted leg extends the attempt; it may leave it over the cap, and then
\* the attempt is not extended further.
LEMMA QuoteExtends ==
    ASSUME IInv, pc = "leg", Leg <= N, ~NothingToTrade,
           NEW amount \in Int, NEW seen \in Nat,
           overrun' \in BOOLEAN, overrun => overrun', amount >= 0 \/ overrun',
           legs[Leg] # "reversed_auction",
           legs[Leg] = "auction" => amount <= seen,
           quantities' = Append(quantities, amount),
           depth' = Append(depth, seen),
           UNCHANGED <<legs, seek, asked, starting, divisor>>,
           pc' \in {"leg", "halve"},
           pc' = "leg" /\ legs[Leg] = "pool" =>
              seen > 0 /\ amount * CapInverse <= seen
    PROVE  IInv'
<1>0. PICK k \in Nat : k = Len(quantities)
  BY LenProperties DEF IInv, TypeOK
<1>1. /\ N \in Nat /\ N' = N /\ k \in Nat /\ k >= 1 /\ k <= N
      /\ quantities \in Seq(Int) /\ depth \in Seq(Nat) /\ Len(depth) = k - 1
  BY <1>0, RouteShape DEF IInv, TypeOK, Search, Attempt, Leg, N
<1>2. /\ quantities' \in Seq(Int) /\ Len(quantities') = k + 1
      /\ \A j \in 1..k : quantities'[j] = quantities[j]
      /\ quantities'[k + 1] = amount
  BY <1>0, <1>1, Appended
<1>3. /\ depth' \in Seq(Nat) /\ Len(depth') = k
      /\ \A j \in 1..(k - 1) : depth'[j] = depth[j]
      /\ depth'[k] = seen
  BY <1>0, <1>1, Appended
<1>4. quantities[k] # 0 /\ (quantities[k] > 0 \/ overrun)
  <2>1. quantities[k] # 0
    BY <1>0 DEF NothingToTrade, Last
  <2>2. quantities[k] \in Int
    BY <1>0, <1>1, ElementOfSeq
  <2>3. quantities[k] >= 0 \/ overrun
    BY <1>0, <1>1 DEF IInv, Search, Attempt
  <2> QED BY <2>1, <2>2, <2>3
<1>5. TypeOK'
  BY <1>1, <1>2, <1>3 DEF IInv, TypeOK
<1>6. Attempt'
  <2>1. Attempt /\ quantities[1] >= Abort /\ quantities[1] <= asked
    BY DEF IInv, Search, Attempt
  <2>2. quantities'[k + 1] >= 0 \/ overrun'
    BY <1>2
  <2>3. ASSUME NEW j \in 1..k
        PROVE  /\ quantities'[j] # 0
               /\ quantities'[j] > 0 \/ overrun'
               /\ legs[j] # "reversed_auction"
               /\ legs[j] = "auction" => quantities'[j + 1] <= depth'[j]
    <3>1. CASE j = k
      BY <1>0, <1>2, <1>3, <1>4, <3>1 DEF Leg
    <3>2. CASE j # k
      <4>1. j \in 1..(k - 1) /\ j + 1 \in 1..k
        BY <1>1, <3>2
      <4>2. /\ quantities[j] # 0
            /\ quantities[j] > 0 \/ overrun
            /\ legs[j] # "reversed_auction"
            /\ legs[j] = "auction" => quantities[j + 1] <= depth[j]
        BY <1>0, <2>1, <4>1 DEF Attempt
      <4> QED BY <1>2, <1>3, <4>1, <4>2
    <3> QED BY <3>1, <3>2
  <2> QED BY <1>1, <1>2, <1>3, <2>1, <2>2, <2>3 DEF Attempt
<1>7. Capped(k - 1)'
  BY <1>0, <1>1, <1>2, <1>3 DEF IInv, Search, Capped
<1>8. pc' = "leg" => Capped(k)'
  BY <1>0, <1>1, <1>2, <1>3, <1>7 DEF Capped, Leg
<1>9. Search'
  BY <1>0, <1>1, <1>2, <1>6, <1>7, <1>8 DEF IInv, Search
<1>10. Plans'
  BY NoPlan DEF Planned
<1> QED BY <1>5, <1>9, <1>10 DEF IInv, Plans

LEMMA QuoteAuctionKeeps == ASSUME IInv, QuoteAuction PROVE IInv'
<1>1. PICK book \in Books, height \in Heights, remaining \in Quotes :
          /\ ~DividesByZero(book, height)
          /\ quantities' = Append(quantities,
                 Bought(Worth(book, height, Last(quantities)), remaining))
          /\ depth' = Append(depth, remaining)
          /\ overrun' = (overrun \/ PastEnd(book, height))
  BY DEF QuoteAuction
<1> DEFINE amount == Last(quantities)
           worth  == Worth(book, height, amount)
<1>2. /\ amount \in Int /\ amount # 0
      /\ amount >= 0 \/ overrun
  BY ElementOfSeq
     DEF QuoteAuction, NothingToTrade, Last, IInv, TypeOK, Search, Attempt
<1>3. /\ worth \in Int
      /\ amount > 0 /\ ~PastEnd(book, height) => worth >= 0
  BY <1>1, <1>2, WorthIsPositive
<1> HIDE DEF worth
<1>4. /\ Bought(worth, remaining) \in Int /\ remaining \in Nat
      /\ Bought(worth, remaining) <= remaining
      /\ worth >= 0 => Bought(worth, remaining) >= 0
  BY <1>3, PlannerAssumption DEF Bought
<1>5. /\ overrun' \in BOOLEAN /\ (overrun => overrun')
      /\ ~overrun' => ~overrun /\ ~PastEnd(book, height)
  BY <1>1, Zenon DEF IInv, TypeOK
<1>6. Bought(worth, remaining) >= 0 \/ overrun'
  BY <1>2, <1>3, <1>4, <1>5
<1> QED
  BY <1>1, <1>4, <1>5, <1>6, QuoteExtends DEF QuoteAuction, worth

LEMMA QuoteRaisesKeeps == ASSUME IInv, QuoteRaises PROVE IInv'
<1>1. TypeOK'
  BY DEF QuoteRaises, IInv, TypeOK, N
<1>2. Search'
  BY DEF QuoteRaises, IInv, Search
<1>3. Plans'
  BY NoPlan DEF QuoteRaises, Planned
<1> QED BY <1>1, <1>2, <1>3 DEF IInv, Plans

LEMMA QuotePoolKeeps == ASSUME IInv, QuotePool PROVE IInv'
<1>1. PICK amount \in Quotes, liquidity \in Quotes :
          /\ quantities' = Append(quantities, amount)
          /\ depth' = Append(depth, liquidity)
          /\ pc' = IF OverCap(amount, liquidity) THEN "halve" ELSE "leg"
  BY DEF QuotePool
<1>2. amount \in Nat /\ liquidity \in Nat /\ amount * CapInverse \in Int
  BY PlannerAssumption
<1>3. pc' = "leg" => liquidity > 0 /\ amount * CapInverse <= liquidity
  BY <1>1, <1>2 DEF OverCap
<1>4. overrun' = overrun /\ overrun \in BOOLEAN
  BY DEF QuotePool, IInv, TypeOK
<1> QED
  BY <1>1, <1>2, <1>3, <1>4, QuoteExtends DEF QuotePool

LEMMA EndOfRouteKeeps == ASSUME IInv, EndOfRoute PROVE IInv'
<1>1. TypeOK'
  BY DEF EndOfRoute, IInv, TypeOK, N
<1>2. Search'
  <2>1. Len(quantities) \in Nat /\ N' = N
    BY LenProperties DEF EndOfRoute, IInv, TypeOK, N
  <2>2. Attempt' /\ Capped(Len(quantities) - 2)'
    BY <2>1 DEF EndOfRoute, IInv, Search, Attempt, Capped
  <2> QED BY <2>1, <2>2 DEF EndOfRoute, IInv, Search
<1>3. Plans'
  BY NoPlan DEF EndOfRoute, Planned
<1> QED BY <1>1, <1>2, <1>3 DEF IInv, Plans

\* Halving: the amount just tried is at most twice what is left, which is
\* why the divisor bounds the investment.
LEMMA HalveKeeps == ASSUME IInv, Halve PROVE IInv'
<1>1. /\ starting \in Int /\ asked \in Int /\ divisor \in Nat /\ Abort \in Nat
      /\ starting >= 0 /\ starting <= asked
      /\ Attempt /\ quantities[1] = starting /\ starting * divisor <= asked
  BY PlannerAssumption DEF Halve, IInv, TypeOK, Search, Attempt
<1>2. /\ Half(starting) \in Int /\ 2 * Half(starting) <= starting
      /\ Half(starting) <= starting
  BY <1>1, HalfBelow
<1>3. starting' * divisor' <= asked
  <2>1. (2 * Half(starting)) * divisor <= starting * divisor
    BY <1>1, <1>2, Monotone
  <2>2. Half(starting) * (2 * divisor) = (2 * Half(starting)) * divisor
    BY <1>1, <1>2, Regroup
  <2>3. /\ (2 * Half(starting)) * divisor \in Int /\ starting * divisor \in Int
    BY <1>1, <1>2
  <2> QED BY <1>1, <2>1, <2>2, <2>3 DEF Halve
<1>4. quantities'[1] * divisor' <= 2 * asked
  <2>1. starting * (2 * divisor) = 2 * (starting * divisor)
    BY <1>1, Regroup
  <2>2. starting * divisor \in Int
    BY <1>1
  <2> QED BY <1>1, <2>1, <2>2 DEF Halve
<1>5. TypeOK'
  BY <1>1, <1>2 DEF Halve, IInv, TypeOK, N
<1>6. Search'
  <2>1. divisor >= 1 /\ N >= 2 /\ Len(quantities) >= 1
        /\ Capped(Len(quantities) - 2)
    BY DEF Halve, IInv, Search
  <2>2. Attempt' /\ Capped(Len(quantities) - 2)'
    BY <1>1, <2>1 DEF Halve, Attempt, Capped
  <2>3. N' = N /\ divisor' >= 2 /\ starting' <= asked' /\ pc' = "while"
    BY <1>1, <1>2, <2>1 DEF Halve, N
  <2> QED BY <1>3, <1>4, <2>1, <2>2, <2>3 DEF Search, Halve
<1>7. Plans'
  BY NoPlan DEF Halve, Planned
<1> QED BY <1>5, <1>6, <1>7 DEF IInv, Plans

-----------------------------------------------------------------------------
\* What holds of an attempt holds at every step of the search.
THEOREM Invariance == Spec => []IInv
<1>1. IInv /\ [Next]_vars => IInv'
  BY StutterKeeps, FinishKeeps, GiveUpKeeps, TryAgainKeeps, NothingLeftKeeps,
     NoAuctionKeeps, QuoteAuctionKeeps, QuoteRaisesKeeps, QuotePoolKeeps, EndOfRouteKeeps,
     HalveKeeps DEF Next
<1> QED BY InitHolds, <1>1, PTL DEF Spec

\* Every variable of the search keeps its type.
THEOREM TypeCorrect == Spec => []TypeOK
  BY Invariance, PTL DEF IInv

\* Plans have an amount for each leg, never trade nothing, and trade less than
\* nothing only on the word of an auction that is past its end.
THEOREM PlansAreWhole == Spec => []PlanIsWhole
  BY Invariance, PTL DEF IInv

\* Plans invest between the backstop and what was asked for, halved.
THEOREM PlansAreAffordable == Spec => []PlanIsAffordable
  BY Invariance, PTL DEF IInv

\* Plans respect the liquidity cap before the last leg, and the auctions.
THEOREM PlansWithinDepth == Spec => []PlanWithinDepth
  BY Invariance, PTL DEF IInv

\* An attempt has between one amount and one more than legs, the first of
\* which is above zero.
LEMMA AttemptSize ==
    ASSUME IInv, pc \in {"leg", "halve"}
    PROVE  /\ N \in Nat /\ Len(quantities) \in 1..(N + 1)
           /\ starting \in Nat /\ starting > 0
<1>1. N \in Nat /\ Len(quantities) \in Nat
  BY RouteShape, LenProperties DEF IInv, TypeOK
<1>2. /\ Len(quantities) >= 1 /\ Len(quantities) <= N + 1
      /\ quantities[1] = starting /\ starting \in Int
      /\ quantities[1] >= Abort
  BY DEF IInv, TypeOK, Search, Attempt
<1>3. Abort \in Nat /\ Abort > 0
  BY PlannerAssumption
<1> QED BY <1>1, <1>2, <1>3

LEMMA LegShrinks ==
    ASSUME IInv, IInv', NothingLeft \/ QuoteAuction \/ QuotePool \/ EndOfRoute
    PROVE  Shrinks
<1>1. /\ N \in Nat /\ Len(quantities) \in 1..(N + 1)
      /\ starting \in Nat /\ pc = "leg" /\ starting' = starting /\ N' = N
  BY AttemptSize DEF NothingLeft, QuoteAuction, QuotePool, EndOfRoute, N
<1>2. Remaining = (N + 2) - Len(quantities)
  BY <1>1 DEF Remaining
<1>3. CASE pc' = "halve"
  BY <1>1, <1>2, <1>3 DEF Remaining, Shrinks
<1>4. CASE QuoteAuction \/ (QuotePool /\ pc' = "leg")
  <2>1. Len(quantities) <= N /\ pc' = "leg"
    BY <1>1, <1>4 DEF QuoteAuction, QuotePool, Leg
  <2>2. Len(quantities') = Len(quantities) + 1
    <3>1. \E seen \in Nat : depth' = Append(depth, seen)
      BY <1>4, PlannerAssumption DEF QuoteAuction, QuotePool
    <3>2. depth \in Seq(Nat) /\ Len(depth) = Len(quantities) - 1
      BY <1>1 DEF IInv, TypeOK, Search, Attempt
    <3>3. Len(depth') = Len(depth) + 1
      BY <3>1, <3>2, AppendProperties
    <3>4. Len(depth') = Len(quantities') - 1 /\ Len(quantities') \in Nat
      BY <2>1, LenProperties DEF IInv, TypeOK, Search, Attempt
    <3> QED BY <1>1, <3>2, <3>3, <3>4
  <2>3. Remaining' = (N + 2) - (Len(quantities) + 1)
    BY <1>1, <2>1, <2>2 DEF Remaining
  <2> QED BY <1>1, <1>2, <2>1, <2>3 DEF Shrinks
<1> QED BY <1>3, <1>4 DEF NothingLeft, QuotePool, EndOfRoute

LEMMA StepShrinks ==
    ASSUME IInv, IInv', Next, pc' \notin {"done", "raised"}
    PROVE  Shrinks
<1>1. CASE NothingLeft \/ QuoteAuction \/ QuotePool \/ EndOfRoute
  BY <1>1, LegShrinks
<1>2. CASE TryAgain
  <2>1. /\ N \in Nat /\ starting \in Int /\ starting >= Abort /\ Abort \in Nat
    BY <1>2, RouteShape, PlannerAssumption DEF IInv, TypeOK, TryAgain, TooLittle
  <2>2. N' = N /\ starting' = starting /\ pc = "while" /\ pc' = "leg"
    BY <1>2 DEF TryAgain, N
  <2>3. Len(quantities') = 1
    BY <1>2, <2>1, Single DEF TryAgain
  <2>4. Remaining = N + 2 /\ Remaining' = N + 1
    BY <2>1, <2>2, <2>3 DEF Remaining
  <2> QED BY <2>1, <2>2, <2>4 DEF Shrinks
<1>3. CASE Halve
  <2>1. N \in Nat /\ starting \in Nat /\ starting > 0
    BY <1>3, AttemptSize DEF Halve
  <2>2. N' = N /\ starting' = Half(starting) /\ pc = "halve" /\ pc' = "while"
    BY <1>3 DEF Halve, N
  <2>3. Half(starting) \in 0..(starting - 1)
    BY <2>1 DEF Half
  <2>4. Remaining \in Nat /\ Remaining' \in Nat
    BY <2>1, <2>2 DEF Remaining
  <2> QED BY <2>1, <2>2, <2>3, <2>4 DEF Shrinks
<1> QED
  BY <1>1, <1>2, <1>3 DEF Next, Finish, GiveUp, NoAuction, QuoteRaises

\* Whatever the providers answer, each step leaves less to try: what is traded
\* with is a natural number that only shrinks, and with the same amount the
\* search goes once through the legs.
THEOREM SearchIsBounded == Spec => SearchShrinks
<1>1. IInv /\ IInv' /\ [Next]_vars => [pc' \notin {"done", "raised"} => Shrinks]_vars
  BY StepShrinks
<1> QED BY Invariance, <1>1, PTL DEF Spec, SearchShrinks
=============================================================================
