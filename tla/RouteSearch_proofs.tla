------------------------- MODULE RouteSearch_proofs -------------------------
(***************************************************************************)
(* Proofs about RouteSearch, for any markets, denoms and depth: what is    *)
(* queued is a circuit that can be traded, in every interleaving of the    *)
(* coroutines and whatever lookups fail.                                   *)
(***************************************************************************)
EXTENDS RouteSearch, SequenceTheorems, TLAPS

-----------------------------------------------------------------------------
(* Legs and paths                                                          *)

\* A market in either order is a leg.
LEMMA FirstIfType ==
    ASSUME NEW c \in BOOLEAN, NEW m \in Markets
    PROVE  FirstIf(c, m) \in Legs /\ FirstIf(c, m).market = m
BY SearchAssumption DEF FirstIf, Legs

LEMMA ListedAreMarkets == \A d : ListedUnder(d) \subseteq Markets
BY DEF ListedUnder, Markets

\* The search starts with legs that take src.
LEMMA StartLegsTakeSrc == \A l \in StartLegs : l \in Legs /\ l.in = Src
<1> TAKE l \in StartLegs
<1>1. PICK m \in ListedUnder(Src) : l = FirstIf(m.a = Src, m)
  BY DEF StartLegs
<1>2. l \in Legs
  BY <1>1, FirstIfType, ListedAreMarkets
<1>3. m.a = Src \/ m.b = Src
  BY <1>1 DEF ListedUnder
<1>4. l.in = Src
  BY <1>1, <1>3 DEF FirstIf
<1> QED
  BY <1>2, <1>4

\* What NextLegs offers takes the denom the path ends in, or is on another
\* chain.
LEMMA NextLegsAreNear ==
    ASSUME NEW p, NEW known, NEW l \in NextLegs(p, known)
    PROVE  /\ l \in Legs /\ ~InPath(l, p)
           /\ l.in # Last(p).out => l.market.chain # Last(p).market.chain
<1>1. ~InPath(l, p)
  BY DEF NextLegs
<1>2. CASE l \in SameDenom(Last(p).out)
  <2>1. PICK m \in ListedUnder(Last(p).out) : l = FirstIf(m.a = Last(p).out, m)
    BY <1>2 DEF SameDenom
  <2>2. l \in Legs
    BY <2>1, FirstIfType, ListedAreMarkets
  <2>3. m.a = Last(p).out \/ m.b = Last(p).out
    BY <2>1 DEF ListedUnder
  <2>4. l.in = Last(p).out
    BY <2>1, <2>3 DEF FirstIf
  <2> QED
    BY <1>1, <2>2, <2>4
<1>3. CASE l \in Transferred(Last(p).out, known, Last(p).market.chain)
  <2>1. PICK d \in known :
           l \in {FirstIf(m.a \in {Src, d}, m) :
                    m \in {x \in ListedUnder(d) : x.chain # Last(p).market.chain}}
    BY <1>3 DEF Transferred
  <2>2. PICK m \in ListedUnder(d) : /\ m.chain # Last(p).market.chain
                                    /\ l = FirstIf(m.a \in {Src, d}, m)
    BY <2>1
  <2>3. m \in Markets /\ (m.a \in {Src, d}) \in BOOLEAN
    BY <2>2, ListedAreMarkets
  <2>4. FirstIf(m.a \in {Src, d}, m) \in Legs
        /\ FirstIf(m.a \in {Src, d}, m).market = m
    BY <2>3, FirstIfType
  <2> QED
    BY <1>1, <2>2, <2>4
<1> QED
  BY <1>2, <1>3 DEF NextLegs

\* A path grown by one of its next legs is one the search may hold.
LEMMA GrowthSprouts ==
    ASSUME NEW p, Sprout(p), Joined(p), NEW known,
           NEW q \in Expand(p, known)
    PROVE  /\ Sprout(q) /\ Len(q) = Len(p) + 1
           /\ q[Len(q) - 1] = Last(p)
<1>1. PICK l \in NextLegs(p, known) : q = Append(p, l)
  BY DEF Expand
<1>2. /\ l \in Legs /\ ~InPath(l, p)
      /\ l.in # Last(p).out => l.market.chain # Last(p).market.chain
  BY NextLegsAreNear
<1>3. p \in Seq(Legs) /\ Len(p) \in Nat /\ Len(p) >= 1 /\ DOMAIN p = 1..Len(p)
  BY DEF Sprout, Paths
<1>4. /\ q \in Seq(Legs) /\ Len(q) = Len(p) + 1 /\ DOMAIN q = 1..(Len(p) + 1)
      /\ \A i \in 1..Len(p) : q[i] = p[i]
      /\ q[Len(p) + 1] = l
  BY <1>1, <1>2, <1>3
<1>5. Distinct(q)
  <2>1. \A i \in 1..Len(p) : p[i] # l
    BY <1>2, <1>3 DEF InPath
  <2> QED
    BY <1>3, <1>4, <2>1 DEF Sprout, Distinct
<1>6. \A i \in 1..(Len(q) - 2) : Follows(q[i], q[i + 1])
  BY <1>3, <1>4 DEF Joined
<1>7. q[Len(q) - 1] = Last(p) /\ Last(q) = l
  BY <1>3, <1>4 DEF Last
<1>8. q[1].in = Src
  BY <1>3, <1>4 DEF Sprout
<1> QED
  BY <1>2, <1>3, <1>4, <1>5, <1>6, <1>7, <1>8 DEF Sprout, Paths

\* The first test of next_legs makes a path join up, as long as the cache
\* tells the truth.
LEMMA ConnectedJoins ==
    ASSUME NEW p, Sprout(p), CacheIsTrue, Connected(p)
    PROVE  Joined(p)
<1>1. p \in Seq(Legs) /\ Len(p) \in Nat /\ Len(p) >= 1
  BY DEF Sprout, Paths
<1> SUFFICES ASSUME NEW i \in 1..(Len(p) - 1) PROVE Follows(p[i], p[i + 1])
  BY DEF Joined
<1>2. CASE i < Len(p) - 1
  BY <1>1, <1>2 DEF Sprout
<1>3. CASE i = Len(p) - 1
  <2>1. p[Len(p) - 1] \in Legs /\ Last(p) \in Legs
    BY <1>1, <1>3 DEF Last
  <2>2. \/ Last(p).in = p[Len(p) - 1].out
        \/ Last(p).in \in cache[p[Len(p) - 1].out]
    BY <1>1, <1>3 DEF Connected
  <2>3. \/ Last(p).in = p[Len(p) - 1].out
        \/ Last(p).in \in Elsewhere[p[Len(p) - 1].out]
    BY <2>1, <2>2 DEF CacheIsTrue, Legs
  <2>4. Follows(p[Len(p) - 1], Last(p))
    BY <1>1, <1>3, <2>3 DEF Sprout, Follows
  <2> QED
    BY <1>1, <1>3, <2>4 DEF Last
<1> QED
  BY <1>1, <1>2, <1>3

-----------------------------------------------------------------------------
(* The invariant                                                           *)

LEMMA InitHolds == Init => IInv
<1> SUFFICES ASSUME Init PROVE IInv
  OBVIOUS
<1>1. \A p \in tasks : \E l \in Legs : p = <<l>> /\ l.in = Src
  BY StartLegsTakeSrc DEF Init
<1>2. ASSUME NEW p \in tasks
      PROVE  p \in Seq(Legs) /\ Len(p) = 1 /\ DOMAIN p = {1} /\ p[1].in = Src
  <2>1. PICK l \in Legs : p = <<l>> /\ l.in = Src
    BY <1>1
  <2> QED
    BY <2>1
<1>3. ASSUME NEW p \in tasks PROVE Sprout(p) /\ Len(p) < 2
  <2>1. p \in Seq(Legs) /\ Len(p) = 1 /\ DOMAIN p = {1} /\ p[1].in = Src
    BY <1>2
  <2>2. Distinct(p)
    BY <2>1 DEF Distinct
  <2> QED
    BY <2>1, <2>2 DEF Sprout, Paths
<1>4. TypeOK
  <2>1. tasks \subseteq Paths \ {<<>>}
    BY <1>2 DEF Paths
  <2>2. cache \in [Denoms -> SUBSET Denoms]
    BY DEF Init
  <2> QED
    BY <2>1, <2>2 DEF TypeOK, Init
<1> QED
  BY <1>3, <1>4
  DEF Init, IInv, FoundAreCircuits, CacheHasPrevious, CacheIsTrue

LEMMA PruneKeeps == ASSUME IInv, NEW p \in tasks, Prune(p) PROVE IInv'
BY DEF Prune, IInv, TypeOK, FoundAreCircuits, CacheHasPrevious, CacheIsTrue,
       Sprout

LEMMA CloseKeeps == ASSUME IInv, NEW p \in tasks, Close(p) PROVE IInv'
<1>1. Sprout(p) /\ CacheIsTrue /\ p \in Paths
  BY DEF IInv, TypeOK
<1>2. Joined(p)
  BY <1>1, ConnectedJoins DEF Close
<1>3. Len(p) \in 2..Depth /\ Last(p).out = Dest
  BY <1>1, SearchAssumption DEF Close, Closed, TooDeep, Paths
<1>4. FoundAreCircuits'
  BY <1>1, <1>2, <1>3 DEF IInv, FoundAreCircuits, Close, Sprout
<1>5. TypeOK'
  BY <1>1 DEF IInv, TypeOK, Close
<1> QED
  BY <1>4, <1>5 DEF IInv, CacheHasPrevious, CacheIsTrue, Close

LEMMA LookKeeps == ASSUME IInv, NEW p \in tasks, Look(p) PROVE IInv'
<1>1. Sprout(p) /\ CacheIsTrue /\ p \in Paths \ {<<>>}
  BY DEF IInv, TypeOK
<1>2. Joined(p)
  BY <1>1, ConnectedJoins DEF Look
<1> QED
  BY <1>1, <1>2 DEF IInv, TypeOK, FoundAreCircuits, CacheHasPrevious,
     CacheIsTrue, Look

\* Growing the tasks by the extensions of a path whose end is cached.
LEMMA ExpandKeeps ==
    ASSUME NEW p, Sprout(p), Joined(p), NEW known,
           NEW c \in [Denoms -> SUBSET Denoms], c[Last(p).out] # {}
    PROVE  \A q \in Expand(p, known) :
              /\ Sprout(q) /\ q \in Paths \ {<<>>}
              /\ Len(q) >= 2 => c[q[Len(q) - 1].out] # {}
<1> TAKE q \in Expand(p, known)
<1>1. Sprout(q) /\ q[Len(q) - 1] = Last(p)
  BY GrowthSprouts
<1>2. q \in Paths \ {<<>>}
  BY <1>1 DEF Sprout, Paths
<1> QED
  BY <1>1, <1>2

LEMMA BranchKeeps == ASSUME IInv, NEW p \in tasks, Branch(p) PROVE IInv'
<1>1. Sprout(p) /\ CacheIsTrue /\ cache \in [Denoms -> SUBSET Denoms]
  BY DEF IInv, TypeOK
<1>2. Joined(p)
  BY <1>1, ConnectedJoins DEF Branch
<1>3. \A q \in Expand(p, cache[Last(p).out]) :
          /\ Sprout(q) /\ q \in Paths \ {<<>>}
          /\ Len(q) >= 2 => cache[q[Len(q) - 1].out] # {}
  BY <1>1, <1>2, ExpandKeeps DEF Branch
<1>4. tasks' = (tasks \ {p}) \cup Expand(p, cache[Last(p).out])
      /\ UNCHANGED <<looking, cache, found, failed>>
  BY DEF Branch
<1>5. TypeOK'
  BY <1>3, <1>4 DEF IInv, TypeOK
<1>6. CacheHasPrevious'
  BY <1>3, <1>4 DEF IInv, CacheHasPrevious
<1>7. \A q \in tasks' : Sprout(q)
  BY <1>3, <1>4 DEF IInv
<1> QED
  BY <1>4, <1>5, <1>6, <1>7 DEF IInv, FoundAreCircuits, CacheIsTrue

LEMMA AnswerKeeps == ASSUME IInv, NEW p \in looking, Answer(p) PROVE IInv'
<1> DEFINE end == Last(p).out
<1>1. Sprout(p) /\ Joined(p) /\ CacheIsTrue
  BY DEF IInv
<1>2. end \in Denoms
  <2>1. p \in Seq(Legs) /\ Len(p) \in Nat /\ Len(p) >= 1
    BY <1>1 DEF Sprout, Paths
  <2>2. Last(p) \in Legs
    BY <2>1 DEF Last
  <2> QED
    BY <2>2 DEF Legs
<1>3. PICK infos \in {Elsewhere[end], {}} :
        /\ cache' = [cache EXCEPT ![end] = {end} \cup infos]
        /\ failed' = IF infos = Elsewhere[end] THEN failed
                     ELSE failed \cup {end}
  BY DEF Answer, DenomInfo
<1>4. looking' = looking \ {p} /\ found' = found
      /\ tasks' = tasks \cup Expand(p, cache'[end])
  BY DEF Answer
<1>5. /\ cache' \in [Denoms -> SUBSET Denoms]
      /\ cache'[end] # {} /\ cache'[end] \subseteq Elsewhere[end] \cup {end}
      /\ \A d \in Denoms : d # end => cache'[d] = cache[d]
  BY <1>2, <1>3, SearchAssumption DEF IInv, TypeOK
<1>6. \A q \in Expand(p, cache'[end]) :
          /\ Sprout(q) /\ q \in Paths \ {<<>>}
          /\ Len(q) >= 2 => cache'[q[Len(q) - 1].out] # {}
  BY <1>1, <1>5, ExpandKeeps
<1>7. TypeOK'
  <2>1. failed' \subseteq Denoms
    BY <1>2, <1>3 DEF IInv, TypeOK
  <2> QED
    BY <1>4, <1>5, <1>6, <2>1 DEF IInv, TypeOK
<1>8. CacheHasPrevious'
  <2>1. \A q \in tasks : Len(q) >= 2 => cache'[q[Len(q) - 1].out] # {}
    <3> SUFFICES ASSUME NEW q \in tasks, Len(q) >= 2
                 PROVE  cache'[q[Len(q) - 1].out] # {}
      OBVIOUS
    <3>1. q \in Seq(Legs) /\ Len(q) \in Nat
      BY DEF IInv, TypeOK, Paths
    <3>2. q[Len(q) - 1].out \in Denoms
      <4>1. Len(q) - 1 \in 1..Len(q)
        BY <3>1
      <4>2. q[Len(q) - 1] \in Legs
        BY <3>1, <4>1
      <4> QED
        BY <4>2 DEF Legs
    <3>3. cache[q[Len(q) - 1].out] # {}
      BY DEF IInv, CacheHasPrevious
    <3> QED
      BY <1>5, <3>2, <3>3
  <2> QED
    BY <1>4, <1>6, <2>1 DEF CacheHasPrevious
<1>9. CacheIsTrue'
  BY <1>1, <1>5 DEF CacheIsTrue
<1>10. \A q \in tasks' : Sprout(q)
  BY <1>4, <1>6 DEF IInv
<1> QED
  BY <1>4, <1>7, <1>8, <1>9, <1>10 DEF IInv, FoundAreCircuits

LEMMA LookupTimesOutKeeps ==
    ASSUME IInv, NEW p \in looking, LookupTimesOut(p) PROVE IInv'
<1>1. Last(p).out \in Denoms
  <2>1. p \in Seq(Legs) /\ p # <<>>
    BY DEF IInv, TypeOK, Paths
  <2>2. Last(p) \in Legs
    BY <2>1 DEF Last
  <2> QED
    BY <2>2 DEF Legs
<1> QED
  BY <1>1 DEF LookupTimesOut, IInv, TypeOK, FoundAreCircuits, CacheHasPrevious,
              CacheIsTrue

LEMMA StepKeeps == IInv /\ [Next]_vars => IInv'
<1> SUFFICES ASSUME IInv, [Next]_vars PROVE IInv'
  OBVIOUS
<1>1. CASE UNCHANGED vars
  BY <1>1 DEF IInv, TypeOK, FoundAreCircuits, CacheHasPrevious, CacheIsTrue, vars
<1>2. ASSUME NEW p \in tasks, Prune(p) \/ Close(p) \/ Branch(p) \/ Look(p)
      PROVE  IInv'
  BY <1>2, PruneKeeps, CloseKeeps, BranchKeeps, LookKeeps
<1>3. ASSUME NEW p \in looking, Answer(p) \/ LookupTimesOut(p)
      PROVE  IInv'
  BY <1>3, AnswerKeeps, LookupTimesOutKeeps
<1> QED
  BY <1>1, <1>2, <1>3 DEF Next

-----------------------------------------------------------------------------
(* Nothing is dropped                                                      *)

\* Legs that differ in nothing are one leg, however the market is read.
LEMMA ReadEitherWay ==
    ASSUME NEW m, m.a = m.b PROVE FirstIf(TRUE, m) = FirstIf(FALSE, m)
BY DEF FirstIf

\* The markets of a denom are offered as legs that take it.
LEMMA TradableIsOffered ==
    ASSUME NEW d, NEW l \in Tradable, l.in = d
    PROVE  l \in {FirstIf(m.a = d, m) : m \in ListedUnder(d)}
<1>1. CASE \E m \in Markets : l = FirstIf(TRUE, m)
  <2>1. PICK m \in Markets : l = FirstIf(TRUE, m)
    BY <1>1
  <2>2. m.a = d
    BY <2>1 DEF FirstIf
  <2>3. m \in ListedUnder(d)
    BY <2>2 DEF Markets, ListedUnder
  <2> QED
    BY <2>1, <2>2, <2>3
<1>2. CASE \E m \in Pools : l = FirstIf(FALSE, m)
  <2>1. PICK m \in Pools : l = FirstIf(FALSE, m)
    BY <1>2
  <2>2. m.b = d
    BY <2>1 DEF FirstIf
  <2>3. m \in ListedUnder(d)
    BY <2>2 DEF ListedUnder
  <2>4. l = FirstIf(m.a = d, m)
    <3>1. CASE m.a = d
      BY <2>1, <2>2, <3>1, ReadEitherWay
    <3>2. CASE m.a # d
      BY <2>1, <3>2
    <3> QED
      BY <3>1, <3>2
  <2> QED
    BY <2>3, <2>4
<1> QED
  BY <1>1, <1>2 DEF Tradable

\* A leg that trades on another chain what the path gives is offered when the
\* denom it takes is known and its market is not misread.
LEMMA TransferredIsOffered ==
    ASSUME NEW k, NEW l \in Tradable, NEW known, l.in \in known,
           l.market.chain # k.market.chain, l.in # k.out, ~Misread(k, l)
    PROVE  l \in Transferred(k.out, known, k.market.chain)
<1> DEFINE d == l.in
<1>1. SUFFICES \E m \in {x \in ListedUnder(d) : x.chain # k.market.chain} :
                  l = FirstIf(m.a \in {Src, d}, m)
  BY DEF Transferred
<1>2. l.market.a = Src => d = Src
  BY DEF Misread
<1>3. CASE \E m \in Markets : l = FirstIf(TRUE, m)
  <2>1. PICK m \in Markets : l = FirstIf(TRUE, m)
    BY <1>3
  <2>2. m.a = d /\ l.market = m
    BY <2>1 DEF FirstIf
  <2>3. m \in ListedUnder(d)
    BY <2>2 DEF Markets, ListedUnder
  <2>4. l = FirstIf(m.a \in {Src, d}, m)
    BY <2>1, <2>2
  <2> QED
    BY <2>2, <2>3, <2>4
<1>4. CASE \E m \in Pools : l = FirstIf(FALSE, m)
  <2>1. PICK m \in Pools : l = FirstIf(FALSE, m)
    BY <1>4
  <2>2. m.b = d /\ l.market = m
    BY <2>1 DEF FirstIf
  <2>3. m \in ListedUnder(d)
    BY <2>2 DEF ListedUnder
  <2>4. l = FirstIf(m.a \in {Src, d}, m)
    <3>1. CASE m.a \in {Src, d}
      <4>1. m.a = m.b
        BY <1>2, <2>2, <3>1
      <4> QED
        BY <2>1, <3>1, <4>1, ReadEitherWay
    <3>2. CASE m.a \notin {Src, d}
      BY <2>1, <3>2 DEF FirstIf
    <3> QED
      BY <3>1, <3>2
  <2> QED
    BY <2>2, <2>3, <2>4
<1> QED
  BY <1>3, <1>4 DEF Tradable

LEMMA SoughtFacts ==
    ASSUME NEW p \in Sought
    PROVE  /\ p \in Seq(Tradable) /\ Len(p) \in Nat /\ Len(p) \in 2..Depth
           /\ p[1].in = Src /\ Joined(p) /\ Distinct(p) /\ HasRequired(p)
           /\ \A i \in 2..Len(p) : p[i].out = Dest <=> i = Len(p)
           /\ \A i \in 1..(Len(p) - 1) : ~Misread(p[i], p[i + 1])
<1>1. PICK n \in 2..Depth : p \in [1..n -> Tradable]
  BY DEF Sought, Circuits
<1>2. n \in Nat
  BY SearchAssumption
<1>3. p \in Seq(Tradable) /\ Len(p) = n
  BY <1>1, <1>2, SeqDef, LenProperties
<1> QED
  BY <1>2, <1>3 DEF Sought, Circuits

\* The first i legs of p.
LEMMA PrefixFacts ==
    ASSUME NEW p \in Sought, NEW i \in 1..Len(p)
    PROVE  LET q == SubSeq(p, 1, i)
           IN  /\ i \in Nat /\ Len(q) = i /\ DOMAIN q = 1..i
               /\ \A j \in 1..i : q[j] = p[j]
               /\ Last(q) = p[i]
<1> DEFINE q == SubSeq(p, 1, i)
<1>1. p \in Seq(Tradable) /\ Len(p) \in Nat
  BY SoughtFacts
<1>2. i \in Nat
  BY <1>1
<1>3. q \in Seq(Tradable) /\ Len(q) = i /\ \A j \in 1..i : q[j] = p[j]
  BY <1>1, <1>2, SubSeqProperties
<1> QED
  BY <1>2, <1>3, LenProperties DEF Last

\* The cache knows of the first legs of a circuit what it takes to go on.
LEMMA PrefixConnects ==
    ASSUME IInv, CacheIsWhole, NEW p \in Sought, Spared(p), NEW i \in 1..Len(p),
           NEW q \in tasks, q = SubSeq(p, 1, i)
    PROVE  Connected(q) /\ ~TooDeep(q) /\ (Closed(q) <=> i = Len(p))
<1>1. /\ i \in Nat /\ Len(q) = i /\ \A j \in 1..i : q[j] = p[j]
      /\ Last(q) = p[i]
  BY PrefixFacts
<1>2. /\ Len(p) \in Nat /\ Len(p) \in 2..Depth /\ Joined(p)
      /\ \A j \in 2..Len(p) : p[j].out = Dest <=> j = Len(p)
  BY SoughtFacts
<1>3. ~TooDeep(q)
  BY <1>1, <1>2, SearchAssumption DEF TooDeep
<1>4. Closed(q) <=> i = Len(p)
  BY <1>1, <1>2 DEF Closed
<1>5. Connected(q)
  <2> SUFFICES ASSUME i >= 2
               PROVE  \/ Last(q).in = q[i - 1].out
                      \/ Last(q).in \in cache[q[i - 1].out]
    BY <1>1 DEF Connected
  <2>1. i - 1 \in 1..(Len(p) - 1) /\ q[i - 1] = p[i - 1]
    BY <1>1, <1>2
  <2>2. Follows(p[i - 1], p[i])
    BY <1>1, <1>2, <2>1 DEF Joined
  <2>3. cache[q[i - 1].out] # {}
    BY <1>1 DEF IInv, CacheHasPrevious
  <2>4. q[i - 1].out \in Denoms
    <3>1. q \in Seq(Legs)
      BY DEF IInv, TypeOK, Paths
    <3>2. q[i - 1] \in Legs
      BY <1>1, <1>2, <2>1, <3>1
    <3> QED
      BY <3>2 DEF Legs
  <2>5. cache[q[i - 1].out] = {q[i - 1].out} \cup Elsewhere[q[i - 1].out]
    BY <1>1, <2>1, <2>3, <2>4 DEF CacheIsWhole, Spared
  <2> QED
    BY <1>1, <2>1, <2>2, <2>5 DEF Follows
<1> QED
  BY <1>3, <1>4, <1>5

\* A coroutine that knows all of the denom branches into the next leg.
LEMMA PrefixGrows ==
    ASSUME NEW p \in Sought, NEW i \in 1..Len(p), i # Len(p),
           NEW q, q = SubSeq(p, 1, i), NEW known,
           known = {Last(q).out} \cup Elsewhere[Last(q).out]
    PROVE  SubSeq(p, 1, i + 1) \in Expand(q, known)
<1>1. /\ i \in Nat /\ Len(q) = i /\ DOMAIN q = 1..i /\ \A j \in 1..i : q[j] = p[j]
      /\ Last(q) = p[i]
  BY PrefixFacts
<1>2. /\ p \in Seq(Tradable) /\ Len(p) \in Nat
      /\ Joined(p) /\ Distinct(p)
      /\ \A j \in 1..(Len(p) - 1) : ~Misread(p[j], p[j + 1])
  BY SoughtFacts
<1>3. i + 1 \in 1..Len(p) /\ i \in 1..(Len(p) - 1)
  BY <1>1, <1>2
<1> DEFINE k == p[i]
           l == p[i + 1]
<1>4. l \in Tradable /\ Follows(k, l) /\ ~Misread(k, l)
  BY <1>2, <1>3 DEF Joined
<1>5. ~InPath(l, q)
  BY <1>1, <1>2, <1>3 DEF InPath, Distinct
<1>6. l \in NextLegs(q, known)
  <2>1. CASE l.in = k.out
    BY <1>1, <1>4, <1>5, <2>1, TradableIsOffered DEF NextLegs, SameDenom
  <2>2. CASE l.in # k.out
    <3>1. l.in \in known /\ l.market.chain # k.market.chain
      BY <1>1, <1>4, <2>2 DEF Follows
    <3>2. l \in Transferred(k.out, known, k.market.chain)
      BY <1>4, <2>2, <3>1, TransferredIsOffered
    <3> QED
      BY <1>1, <1>5, <3>2 DEF NextLegs
  <2> QED
    BY <2>1, <2>2
<1>7. SubSeq(p, 1, i + 1) = Append(q, l)
  BY <1>2, <1>3, SubSeqProperties
<1> QED
  BY <1>6, <1>7 DEF Expand

LEMMA InitDropsNothing == Init => NothingDropped
<1> SUFFICES ASSUME Init PROVE NothingDropped
  OBVIOUS
<1>1. CacheIsWhole
  BY DEF Init, CacheIsWhole
<1>2. ASSUME NEW p \in Sought PROVE UnderWay(p)
  <2>1. /\ p \in Seq(Tradable) /\ Len(p) \in Nat /\ 1 \in 1..Len(p)
        /\ p[1] \in Tradable /\ p[1].in = Src
    BY SoughtFacts, SearchAssumption
  <2>2. p[1] \in StartLegs
    BY <2>1, TradableIsOffered DEF StartLegs
  <2>3. SubSeq(p, 1, 1) = <<p[1]>>
    <3> DEFINE q == SubSeq(p, 1, 1)
               r == <<p[1]>>
    <3>1. q \in Seq(Tradable) /\ Len(q) = 1 /\ q[1] = p[1]
      BY <2>1, SubSeqProperties
    <3>2. r \in Seq(Tradable) /\ Len(r) = 1 /\ r[1] = p[1]
      BY <2>1
    <3> HIDE DEF q, r
    <3>3. \A j \in 1..Len(q) : q[j] = r[j]
      BY <3>1, <3>2
    <3>4. q = r
      BY <3>1, <3>2, <3>3, SeqEqual
    <3> QED
      BY <3>4 DEF q, r
  <2>4. SubSeq(p, 1, 1) \in tasks
    BY <2>2, <2>3 DEF Init
  <2> QED
    BY <2>1, <2>4 DEF UnderWay
<1> QED
  BY <1>1, <1>2 DEF NothingDropped, Init

\* What is under way and is not the path whose coroutine runs stays so.
LEMMA OthersStayUnderWay ==
    ASSUME NEW q, tasks \ {q} \subseteq tasks', looking \ {q} \subseteq looking',
           NEW p, UnderWay(p)
    PROVE  UnderWay(p)' \/ \E i \in 1..Len(p) : q = SubSeq(p, 1, i)
BY DEF UnderWay

LEMMA TaskDropsNothing ==
    ASSUME IInv, NothingDropped, NEW q \in tasks,
           Prune(q) \/ Close(q) \/ Branch(q) \/ Look(q)
    PROVE  NothingDropped'
<1>5. (\A p \in looking : ~Closed(p))'
  BY DEF NothingDropped, Prune, Close, Branch, Look, Closed
<1>6. failed' = failed /\ \A p : Spared(p)' <=> Spared(p)
  BY DEF Prune, Close, Branch, Look, Spared
<1>1. CacheIsWhole /\ CacheIsWhole'
  BY DEF NothingDropped, CacheIsWhole, Prune, Close, Branch, Look
<1>2. found \subseteq found'
  BY DEF Prune, Close, Branch, Look
<1>3. tasks \ {q} \subseteq tasks' /\ looking \ {q} \subseteq looking'
  BY DEF Prune, Close, Branch, Look
<1>4. ASSUME NEW p \in Sought, Spared(p), p \notin found, UnderWay(p)
      PROVE  p \in found' \/ UnderWay(p)'
  <2>1. CASE UnderWay(p)'
    BY <2>1
  <2>2. CASE \E i \in 1..Len(p) : q = SubSeq(p, 1, i)
    <3>1. PICK i \in 1..Len(p) : q = SubSeq(p, 1, i)
      BY <2>2
    <3>2. Connected(q) /\ ~TooDeep(q) /\ (Closed(q) <=> i = Len(p))
      BY <1>1, <1>4, <3>1, PrefixConnects
    <3>3. /\ p \in Seq(Tradable) /\ Len(p) \in Nat /\ HasRequired(p)
      BY SoughtFacts
    <3>4. CASE Close(q)
      <4>1. q = p
        BY <3>1, <3>2, <3>3, <3>4 DEF Close
      <4> QED
        BY <3>3, <3>4, <4>1 DEF Close
    <3>5. CASE Branch(q)
      <4>1. i # Len(p) /\ i + 1 \in 1..Len(p)
        BY <3>2, <3>3, <3>5 DEF Branch
      <4>2. cache[Last(q).out] = {Last(q).out} \cup Elsewhere[Last(q).out]
        <5>1. Last(q) \in Legs
          <6>1. q \in Seq(Legs) /\ q # <<>>
            BY DEF IInv, TypeOK, Paths
          <6> QED
            BY <6>1 DEF Last
        <5> QED
          <6>1. Last(q).out \in Denoms /\ Last(q).out = p[i].out
            BY <3>1, <5>1, PrefixFacts DEF Legs
          <6>2. Last(q).out \notin failed
            BY <1>4, <3>3, <4>1, <6>1 DEF Spared
          <6> QED
            BY <1>1, <3>5, <6>1, <6>2 DEF CacheIsWhole, Branch
      <4>3. SubSeq(p, 1, i + 1) \in tasks'
        BY <3>1, <3>5, <4>1, <4>2, PrefixGrows DEF Branch
      <4> QED
        BY <4>1, <4>3 DEF UnderWay
    <3>6. CASE Look(q)
      BY <3>1, <3>6 DEF Look, UnderWay
    <3> QED
      BY <3>2, <3>4, <3>5, <3>6 DEF Prune
  <2> QED
    BY <1>3, <1>4, <2>1, <2>2, OthersStayUnderWay
<1> QED
  BY <1>1, <1>2, <1>4, <1>5, <1>6 DEF NothingDropped

LEMMA LookupDropsNothing ==
    ASSUME IInv, NothingDropped, NEW q \in looking, Answer(q) \/ LookupTimesOut(q)
    PROVE  NothingDropped'
<1> DEFINE end == Last(q).out
<1>1. end \in Denoms
  <2>1. q \in Seq(Legs) /\ q # <<>>
    BY DEF IInv, TypeOK, Paths
  <2>2. Last(q) \in Legs
    BY <2>1 DEF Last
  <2> QED
    BY <2>2 DEF Legs
<1>2. /\ found' = found /\ looking' = looking \ {q} /\ tasks \subseteq tasks'
      /\ failed \subseteq failed'
      /\ \A d \in Denoms : d # end => cache'[d] = cache[d]
      /\ end \notin failed' =>
            /\ cache'[end] = {end} \cup Elsewhere[end]
            /\ tasks' = tasks \cup Expand(q, cache'[end])
  <2>1. CASE LookupTimesOut(q)
    BY <2>1 DEF LookupTimesOut
  <2>2. CASE Answer(q)
    <3>1. PICK infos \in {Elsewhere[end], {}} :
             /\ cache' = [cache EXCEPT ![end] = {end} \cup infos]
             /\ failed' = IF infos = Elsewhere[end] THEN failed
                          ELSE failed \cup {end}
      BY <2>2 DEF Answer, DenomInfo
    <3>2. /\ cache'[end] = {end} \cup infos
          /\ \A d \in Denoms : d # end => cache'[d] = cache[d]
      BY <1>1, <3>1 DEF IInv, TypeOK
    <3>3. /\ found' = found /\ looking' = looking \ {q}
          /\ tasks' = tasks \cup Expand(q, cache'[end])
      BY <2>2 DEF Answer
    <3> QED
      BY <3>1, <3>2, <3>3
  <2> QED
    BY <2>1, <2>2
<1>3. (\A p \in looking : ~Closed(p))'
  BY <1>2 DEF NothingDropped, Closed
<1>4. CacheIsWhole'
  BY <1>2 DEF NothingDropped, CacheIsWhole
<1>5. ASSUME NEW p \in Sought, Spared(p)', p \notin found, UnderWay(p)
      PROVE  UnderWay(p)'
  <2>1. CASE \E i \in 1..Len(p) : q = SubSeq(p, 1, i)
    <3>1. PICK i \in 1..Len(p) : q = SubSeq(p, 1, i)
      BY <2>1
    <3>2. /\ Len(p) \in Nat /\ Len(p) \in 2..Depth /\ i \in Nat
          /\ Len(q) = i /\ Last(q) = p[i]
          /\ \A j \in 2..Len(p) : p[j].out = Dest <=> j = Len(p)
      BY <3>1, SoughtFacts, PrefixFacts
    <3>3. i # Len(p) /\ i \in 1..(Len(p) - 1)
      BY <3>2, SearchAssumption DEF NothingDropped, Closed
    <3>4. end \notin failed'
      BY <1>5, <3>2, <3>3 DEF Spared
    <3>5. SubSeq(p, 1, i + 1) \in tasks'
      BY <1>2, <3>1, <3>3, <3>4, PrefixGrows
    <3> QED
      BY <3>2, <3>3, <3>5 DEF UnderWay
  <2>2. CASE UnderWay(p)'
    BY <2>2
  <2> QED
    BY <1>2, <1>5, <2>1, <2>2, OthersStayUnderWay
<1>6. \A p : Spared(p)' => Spared(p)
  BY <1>2 DEF Spared
<1> QED
  BY <1>2, <1>3, <1>4, <1>5, <1>6 DEF NothingDropped

LEMMA StepDropsNothing ==
    ASSUME IInv, NothingDropped, [Next]_vars PROVE NothingDropped'
<1>1. CASE UNCHANGED vars
  BY <1>1 DEF NothingDropped, CacheIsWhole, UnderWay, Spared, Closed, vars
<1>2. CASE Next
  BY <1>2, TaskDropsNothing, LookupDropsNothing DEF Next
<1> QED
  BY <1>1, <1>2

-----------------------------------------------------------------------------
(* Theorems                                                                *)

\* The strengthened invariant: every path in hand joins up but for its last
\* leg, and the cache never says more than the truth.
THEOREM Invariance == Spec => []IInv
<1>1. Init => IInv
  BY InitHolds
<1>2. IInv /\ [Next]_vars => IInv'
  BY StepKeeps
<1> QED
  BY <1>1, <1>2, PTL DEF Spec

\* The variables keep their types.
THEOREM TypeCorrect == Spec => []TypeOK
<1>1. IInv => TypeOK
  BY DEF IInv
<1> QED
  BY <1>1, Invariance, PTL

\* Every route that is queued is a circuit that can be traded leg after leg,
\* within the depth, without repetition and with the required legs.
THEOREM RoutesAreCircuits == Spec => []FoundAreCircuits
<1>1. IInv => FoundAreCircuits
  BY DEF IInv
<1> QED
  BY <1>1, Invariance, PTL

\* The entry for the leg before the last is in the cache whenever a coroutine
\* looks it up: denom_cache[...] raises no KeyError.
THEOREM CacheNeverMisses == Spec => []CacheHasPrevious
<1>1. IInv => CacheHasPrevious
  BY DEF IInv
<1> QED
  BY <1>1, Invariance, PTL

\* Whatever the order in which the coroutines run and overtake each other at
\* the cache: every circuit with the required legs is found, unless it needs a
\* market that is misread or passes through a denom whose lookup failed.
THEOREM SearchIsComplete == Spec => []FindsAllButMisread
<1>1. Init => IInv /\ NothingDropped
  BY InitHolds, InitDropsNothing
<1>2. IInv /\ NothingDropped /\ [Next]_vars => IInv' /\ NothingDropped'
  BY StepKeeps, StepDropsNothing
<1>3. NothingDropped => FindsAllButMisread
  BY DEF NothingDropped, FindsAllButMisread, Sought, UnderWay, Done
<1> QED
  BY <1>1, <1>2, <1>3, PTL DEF Spec
=============================================================================
