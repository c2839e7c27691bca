-------------------------- MODULE Discovery_proofs --------------------------
(***************************************************************************)
(* Proofs about Discovery                                                  *)
(***************************************************************************)
EXTENDS Discovery, FiniteSetTheorems, SequenceTheorems, TLAPS

-----------------------------------------------------------------------------
(* Extremes of finite sets of numbers                                      *)

\* By a smallest counterexample: the subsets of S are well-founded.
LEMMA ExtremesExist ==
    ASSUME NEW S \in SUBSET Int, IsFiniteSet(S), S # {}
    PROVE  \E x \in S, y \in S : \A z \in S : x >= z /\ y <= z
<1> DEFINE Has(T) == \E x \in T, y \in T : \A z \in T : x >= z /\ y <= z
           Bad == {T \in FiniteSubsetsOf(S) : T # {} /\ ~Has(T)}
<1>1. SUFFICES ASSUME Bad # {} PROVE FALSE
  <2>1. S \in FiniteSubsetsOf(S)
    BY DEF FiniteSubsetsOf
  <2> QED
    BY <1>1, <2>1
<1>2. PICK T \in Bad : \A U \in Bad : <<U, T>> \notin StrictSubsetOrdering(S)
  <2>1. Bad \subseteq FiniteSubsetsOf(S)
    OBVIOUS
  <2> HIDE DEF Bad
  <2> QED
    BY <1>1, <2>1, FS_StrictSubsetOrderingWellFounded, WFMin
<1>3. /\ T \in SUBSET S /\ IsFiniteSet(T) /\ T # {} /\ ~Has(T)
  BY <1>2 DEF FiniteSubsetsOf
<1>4. PICK v \in T : TRUE
  BY <1>3
<1> DEFINE U == T \ {v}
<1>5. /\ U \in SUBSET S /\ IsFiniteSet(U)
      /\ <<U, T>> \in StrictSubsetOrdering(S)
  <2>1. IsFiniteSet(U)
    BY <1>3, FS_RemoveElement
  <2> QED
    BY <1>3, <1>4, <2>1 DEF StrictSubsetOrdering
<1>6. CASE U = {}
  <2>1. \A z \in T : v >= z /\ v <= z
    <3> SUFFICES ASSUME NEW z \in T PROVE v >= z /\ v <= z
      OBVIOUS
    <3>1. z = v /\ v \in Int
      BY <1>3, <1>6
    <3> QED
      BY <3>1
  <2> QED
    BY <1>3, <1>4, <2>1
<1>7. CASE U # {}
  <2>1. Has(U)
    <3>1. U \in FiniteSubsetsOf(S)
      BY <1>5 DEF FiniteSubsetsOf
    <3>2. U \notin Bad
      BY <1>2, <1>5
    <3> QED
      BY <1>7, <3>1, <3>2
  <2>2. PICK x \in U, y \in U : \A z \in U : x >= z /\ y <= z
    BY <2>1
  <2>3. v \in Int /\ x \in Int /\ y \in Int
    BY <1>3, <1>4, <2>2
  <2>4. x \in T /\ y \in T /\ \A z \in T : z \in Int /\ (z = v \/ z \in U)
    BY <1>3, <2>2
  <2> HIDE DEF U
  <2>5. \E hi \in {v, x} : hi \in Int /\ hi >= v /\ hi >= x
    BY <2>3
  <2>6. \E lo \in {v, y} : lo \in Int /\ lo <= v /\ lo <= y
    BY <2>3
  <2>7. PICK hi \in {v, x}, lo \in {v, y} :
           /\ hi \in Int /\ hi >= v /\ hi >= x
           /\ lo \in Int /\ lo <= v /\ lo <= y
    BY <2>5, <2>6
  <2>8. \A z \in T : hi >= z /\ lo <= z
    <3> TAKE z \in T
    <3>1. z \in Int /\ (z = v \/ (x >= z /\ y <= z))
      BY <2>2, <2>4
    <3>2. CASE z = v
      BY <2>7, <3>2
    <3>3. CASE x >= z /\ y <= z
      <4>1. z \in Int /\ x \in Int /\ y \in Int /\ hi \in Int /\ lo \in Int
        BY <2>3, <2>7, <3>1
      <4>2. hi >= x /\ lo <= y
        BY <2>7
      <4>3. hi >= z
        BY <3>3, <4>1, <4>2
      <4>4. lo <= z
        BY <3>3, <4>1, <4>2
      <4> QED
        BY <4>3, <4>4
    <3> QED
      BY <3>1, <3>2, <3>3
  <2>9. hi \in T /\ lo \in T
    BY <1>4, <2>4, <2>7
  <2> QED
    BY <1>3, <2>8, <2>9
<1> QED
  BY <1>6, <1>7

LEMMA MaxIsThere ==
    ASSUME NEW S \in SUBSET Int, IsFiniteSet(S), S # {}
    PROVE  Max(S) \in S /\ \A z \in S : z <= Max(S)
<1>1. \E x \in S : \A y \in S : x >= y
  BY ExtremesExist
<1>2. Max(S) \in S /\ \A y \in S : Max(S) >= y
  BY <1>1 DEF Max
<1> QED
  BY <1>2

-----------------------------------------------------------------------------
(* Pages                                                                   *)

LEMMA After ==
    ASSUME TypeOK, NEW n \in Nodes
    PROVE  LET after == {p \in view[n] : p > cursor}
           IN  /\ cursor \in Nat /\ after \in SUBSET Nat /\ after \subseteq Pairs
               /\ IsFiniteSet(after)
               /\ \A T \in SUBSET after : IsFiniteSet(T) /\ Cardinality(T) \in Nat
<1> DEFINE after == {p \in view[n] : p > cursor}
<1>1. view[n] \subseteq Pairs /\ cursor \in Nat
  BY DiscoveryAssumption DEF TypeOK
<1>2. after \in SUBSET Pairs /\ Pairs \subseteq Nat /\ IsFiniteSet(Pairs)
  BY <1>1, DiscoveryAssumption
<1>3. \A T \in SUBSET after : IsFiniteSet(T)
  <2> TAKE T \in SUBSET after
  <2>1. T \in SUBSET Pairs
    BY <1>2
  <2> HIDE DEF after
  <2> QED
    BY <1>2, <2>1, FS_Subset
<1> QED
  BY <1>1, <1>2, <1>3, FS_CardinalityType

LEMMA PageIsFinite ==
    ASSUME TypeOK, NEW n \in Nodes
    PROVE  /\ Page(n) \subseteq view[n] /\ Page(n) \in SUBSET Int
           /\ IsFiniteSet(Page(n))
<1> DEFINE after == {p \in view[n] : p > cursor}
<1>1. Page(n) \in SUBSET after
  BY DEF Page
<1>2. after \in SUBSET Nat /\ \A T \in SUBSET after : IsFiniteSet(T)
  BY After
<1> QED
  BY <1>1, <1>2

\* A node that lists nothing after the cursor knows nothing there.
LEMMA EmptyPageIsLast ==
    ASSUME TypeOK, NEW n \in Nodes, Page(n) = {}, NEW p \in view[n]
    PROVE  p <= cursor
<1> DEFINE after == {q \in view[n] : q > cursor}
<1>1. /\ cursor \in Nat /\ after \in SUBSET Nat /\ IsFiniteSet(after)
  BY After
<1>2. SUFFICES ASSUME after # {} PROVE FALSE
  BY <1>1, DiscoveryAssumption DEF TypeOK
<1>3. PICK m \in after : \A q \in after : m <= q
  <2>1. after \in SUBSET Int
    BY <1>1
  <2> HIDE DEF after
  <2> QED
    BY <1>1, <1>2, <2>1, ExtremesExist
<1>4. {q \in after : q <= m} = {m}
  BY <1>1, <1>3
<1>5. Cardinality({q \in after : q <= m}) <= PageSize
  <2>1. Cardinality({m}) = 1
    BY FS_Singleton
  <2>2. PageSize \in Nat /\ PageSize >= 1
    BY DiscoveryAssumption
  <2> HIDE DEF after
  <2> QED
    BY <1>4, <2>1, <2>2
<1>6. m \in Page(n)
  BY <1>3, <1>5 DEF Page
<1> QED
  BY <1>6

\* A page leaves out nothing the node knows between the cursor and its last.
LEMMA PageHasNoGap ==
    ASSUME TypeOK, NEW n \in Nodes, Page(n) # {}, NEW p \in view[n],
           p > cursor, p <= Max(Page(n))
    PROVE  p \in Page(n)
<1> DEFINE after == {q \in view[n] : q > cursor}
           upTo(x) == {q \in after : q <= x}
           m == Max(Page(n))
<1>1. /\ after \in SUBSET Nat
      /\ \A T \in SUBSET after : IsFiniteSet(T) /\ Cardinality(T) \in Nat
  BY After
<1>2. m \in Page(n)
  BY PageIsFinite, MaxIsThere
<1>3. m \in after /\ Cardinality(upTo(m)) <= PageSize
  BY <1>2 DEF Page
<1>4. p \in after
  OBVIOUS
<1>5. upTo(p) \in SUBSET upTo(m) /\ upTo(m) \in SUBSET after /\ upTo(p) \in SUBSET after
  BY <1>1, <1>3, <1>4
<1>6. Cardinality(upTo(p)) <= Cardinality(upTo(m))
  <2> HIDE DEF upTo, after
  <2> QED
    BY <1>1, <1>5, FS_Subset
<1>7. Cardinality(upTo(p)) <= PageSize
  <2> HIDE DEF upTo, after
  <2> QED
    BY <1>1, <1>3, <1>5, <1>6, DiscoveryAssumption
<1> QED
  BY <1>4, <1>7 DEF Page

-----------------------------------------------------------------------------
(* Catalogues                                                              *)

\* Markets by number, each saying which one it is.
Numbered(markets) ==
    /\ DOMAIN markets \in SUBSET Int /\ IsFiniteSet(DOMAIN markets)
    /\ \A i \in DOMAIN markets : markets[i].id = i

\* An entry is the newest market under its pair of denoms.
LEMMA EntryIsNewest ==
    ASSUME NEW markets, Numbered(markets),
           NEW pair \in DOMAIN Catalogue(markets)
    PROVE  \E i \in DOMAIN markets :
              /\ Catalogue(markets)[pair] = markets[i]
              /\ pair \in BothOrders(markets[i])
              /\ \A j \in DOMAIN markets : pair \in BothOrders(markets[j]) => j <= i
<1> DEFINE S == {i \in DOMAIN markets : pair \in BothOrders(markets[i])}
<1>1. /\ pair \in UNION {BothOrders(markets[i]) : i \in DOMAIN markets}
      /\ Catalogue(markets)[pair] = markets[Max(S)]
  BY DEF Catalogue
<1>2. S \in SUBSET DOMAIN markets /\ S # {}
  BY <1>1
<1>3. S \in SUBSET Int /\ IsFiniteSet(S)
  BY <1>2, FS_Subset DEF Numbered
<1>4. Max(S) \in S /\ \A j \in S : j <= Max(S)
  BY <1>2, <1>3, MaxIsThere
<1> QED
  BY <1>1, <1>4

\* What a catalogue has under both orders of its denoms.
Holds(catalogue, m) ==
    \A pair \in BothOrders(m) : pair \in DOMAIN catalogue /\ catalogue[pair] = m

\* The newest market of two denoms is held.
LEMMA NewestIsHeld ==
    ASSUME NEW markets, Numbered(markets), NEW i \in DOMAIN markets,
           \A j \in DOMAIN markets :
               BothOrders(markets[j]) \cap BothOrders(markets[i]) # {} => j <= i
    PROVE  Holds(Catalogue(markets), markets[i])
<1> SUFFICES ASSUME NEW pair \in BothOrders(markets[i])
             PROVE  /\ pair \in DOMAIN Catalogue(markets)
                    /\ Catalogue(markets)[pair] = markets[i]
  BY DEF Holds
<1>1. pair \in DOMAIN Catalogue(markets)
  BY DEF Catalogue
<1>2. PICK j \in DOMAIN markets :
         /\ Catalogue(markets)[pair] = markets[j] /\ pair \in BothOrders(markets[j])
         /\ \A k \in DOMAIN markets : pair \in BothOrders(markets[k]) => k <= j
  BY <1>1, EntryIsNewest
<1>3. i <= j /\ j <= i
  BY <1>2
<1>4. i = j
  BY <1>3 DEF Numbered
<1> QED
  BY <1>1, <1>2, <1>4

\* A market is an entry only if no newer one has its denoms.
LEMMA EntryHasNoNewer ==
    ASSUME NEW markets, Numbered(markets), NEW i \in DOMAIN markets,
           markets[i] \in Entries(Catalogue(markets)), NEW j \in DOMAIN markets,
           BothOrders(markets[j]) = BothOrders(markets[i])
    PROVE  j <= i
<1>1. PICK pair \in DOMAIN Catalogue(markets) : Catalogue(markets)[pair] = markets[i]
  BY DEF Entries
<1>2. PICK k \in DOMAIN markets :
         /\ Catalogue(markets)[pair] = markets[k] /\ pair \in BothOrders(markets[k])
         /\ \A l \in DOMAIN markets : pair \in BothOrders(markets[l]) => l <= k
  BY EntryIsNewest
<1>3. k = i
  BY <1>1, <1>2 DEF Numbered
<1> QED
  BY <1>2, <1>3

LEMMA EntriesAreMarkets ==
    ASSUME NEW markets, Numbered(markets)
    PROVE  /\ \A m \in Entries(Catalogue(markets)) : \E i \in DOMAIN markets : m = markets[i]
           /\ \A pair \in DOMAIN Catalogue(markets) :
                 pair \in BothOrders(Catalogue(markets)[pair])
<1>1. \A pair \in DOMAIN Catalogue(markets) :
         \E i \in DOMAIN markets : /\ Catalogue(markets)[pair] = markets[i]
                                   /\ pair \in BothOrders(markets[i])
  BY EntryIsNewest
<1> QED
  BY <1>1 DEF Entries

LEMMA PairSize ==
    ASSUME NEW x, NEW y, x # y
    PROVE  Cardinality({x} \cup {y}) = 2
<1>1. IsFiniteSet({x}) /\ Cardinality({x}) = 1
  BY FS_Singleton
<1>2. y \notin {x}
  OBVIOUS
<1>3. Cardinality({x} \cup {y}) = Cardinality({x}) + 1
  BY <1>1, <1>2, FS_AddElement
<1> QED
  BY <1>1, <1>3

\* main registers a market that is held twice, and one that is not never.
LEMMA HeldIsCalledTwice ==
    ASSUME NEW markets, Numbered(markets), NEW m, m.a # m.b,
           Holds(Catalogue(markets), m)
    PROVE  Calls(Catalogue(markets), m) = 2
<1> DEFINE C == Catalogue(markets)
           under == {pair \in DOMAIN C : C[pair] = m}
<1>1. under = {<<m.a, m.b>>} \cup {<<m.b, m.a>>}
  BY EntriesAreMarkets DEF Holds, BothOrders
<1>2. <<m.a, m.b>> # <<m.b, m.a>>
  OBVIOUS
<1>3. Cardinality({<<m.a, m.b>>} \cup {<<m.b, m.a>>}) = 2
  BY <1>2, PairSize
<1> QED
  BY <1>1, <1>3 DEF Calls

LEMMA StrangerIsNotCalled ==
    ASSUME NEW catalogue, NEW m, m \notin Entries(catalogue)
    PROVE  Calls(catalogue, m) = 0
<1>1. {pair \in DOMAIN catalogue : catalogue[pair] = m} = {}
  BY DEF Entries
<1> QED
  BY <1>1, FS_EmptySet DEF Calls

LEMMA HeldIsEntry ==
    ASSUME NEW catalogue, NEW m, Holds(catalogue, m)
    PROVE  m \in Entries(catalogue)
BY DEF Holds, Entries, BothOrders

LEMMA EntryIsTradable ==
    ASSUME providers = Registered(Entries(osmosis) \cup Entries(astroport)),
           NEW m, m \in Entries(osmosis) \cup Entries(astroport),
           Calls(osmosis, m) + Calls(astroport, m) = 2
    PROVE  Tradable(m)
<1> DEFINE markets == Entries(osmosis) \cup Entries(astroport)
<1> SUFFICES ASSUME NEW pair \in BothOrders(m)
             PROVE  /\ pair \in DOMAIN providers /\ m \in DOMAIN providers[pair]
                    /\ providers[pair][m] = 2
  BY DEF Tradable
<1> HIDE DEF markets
<1>1. /\ pair \in UNION {BothOrders(x) : x \in markets}
      /\ m \in {x \in markets : pair \in BothOrders(x)}
  BY DEF markets
<1>2. providers = Registered(markets)
  BY DEF markets
<1>3. /\ pair \in DOMAIN providers
      /\ providers[pair] = [x \in {x \in markets : pair \in BothOrders(x)} |->
                               Calls(osmosis, x) + Calls(astroport, x)]
  BY <1>1, <1>2 DEF Registered
<1> QED
  BY <1>1, <1>3

LEMMA TradableIsEntry ==
    ASSUME providers = Registered(Entries(osmosis) \cup Entries(astroport)),
           NEW m, Tradable(m)
    PROVE  m \in Entries(osmosis) \cup Entries(astroport)
<1> DEFINE pair == <<m.a, m.b>>
           markets == Entries(osmosis) \cup Entries(astroport)
<1>1. pair \in DOMAIN providers /\ m \in DOMAIN providers[pair]
  BY DEF Tradable, BothOrders
<1>2. providers = Registered(markets)
  OBVIOUS
<1> HIDE DEF markets, pair
<1>3. m \in {x \in markets : pair \in BothOrders(x)}
  BY <1>1, <1>2 DEF Registered
<1> QED
  BY <1>3 DEF markets

-----------------------------------------------------------------------------
(* The two directories                                                     *)

LEMMA OsmosisIsNumbered ==
    ASSUME NEW pools \in Seq(Seq(Denoms))
    PROVE  LET markets == OsmosisMarkets(pools)
           IN  /\ Numbered(markets)
               /\ DOMAIN markets = {i \in DOMAIN pools : Len(pools[i]) = 2}
               /\ \A i \in DOMAIN markets :
                     /\ markets[i] \in Market /\ markets[i].kind = "osmosis"
                     /\ markets[i] = [kind |-> "osmosis", id |-> i,
                                      a |-> pools[i][1], b |-> pools[i][2]]
<1> DEFINE markets == OsmosisMarkets(pools)
<1>1. /\ DOMAIN markets = {i \in DOMAIN pools : Len(pools[i]) = 2}
      /\ \A i \in DOMAIN markets :
            markets[i] = [kind |-> "osmosis", id |-> i,
                          a |-> pools[i][1], b |-> pools[i][2]]
  BY DEF OsmosisMarkets
<1>2. DOMAIN pools = 1..Len(pools) /\ Len(pools) \in Nat
  BY LenProperties
<1>3. IsFiniteSet(DOMAIN markets) /\ DOMAIN markets \in SUBSET Nat
  <2>1. DOMAIN markets \in SUBSET (1..Len(pools))
    BY <1>1, <1>2
  <2>2. IsFiniteSet(1..Len(pools))
    BY <1>2, FS_Interval
  <2> HIDE DEF markets
  <2> QED
    BY <1>2, <2>1, <2>2, FS_Subset
<1>4. \A i \in DOMAIN markets :
         pools[i][1] \in Denoms /\ pools[i][2] \in Denoms /\ i \in Nat
  <2> TAKE i \in DOMAIN markets
  <2>1. pools[i] \in Seq(Denoms) /\ Len(pools[i]) = 2
    BY <1>1, <1>2
  <2> HIDE DEF markets
  <2> QED
    BY <1>3, <2>1
<1> HIDE DEF markets
<1>5. \A i \in DOMAIN markets :
         /\ markets[i] \in Market /\ markets[i].kind = "osmosis"
         /\ markets[i].id = i
  BY <1>1, <1>4 DEF Market
<1>6. Numbered(markets)
  BY <1>3, <1>5 DEF Numbered
<1> QED
  BY <1>1, <1>5, <1>6 DEF markets

LEMMA AstroportIsNumbered ==
    ASSUME NEW pairs \in SUBSET Pairs
    PROVE  LET markets == AstroportMarkets(pairs)
           IN  /\ Numbered(markets) /\ DOMAIN markets = pairs \ Malformed
               /\ \A p \in DOMAIN markets :
                     /\ markets[p] \in Market /\ markets[p].kind = "astroport"
                     /\ markets[p] = [kind |-> "astroport", id |-> p,
                                      a |-> Assets[p][1], b |-> Assets[p][2]]
<1> DEFINE markets == AstroportMarkets(pairs)
<1>1. /\ DOMAIN markets = pairs \ Malformed
      /\ \A p \in DOMAIN markets :
            markets[p] = [kind |-> "astroport", id |-> p,
                          a |-> Assets[p][1], b |-> Assets[p][2]]
  BY DEF AstroportMarkets, WellFormed
<1> HIDE DEF markets
<1>2. IsFiniteSet(DOMAIN markets) /\ DOMAIN markets \in SUBSET Nat
  <2>1. DOMAIN markets \in SUBSET Pairs /\ Pairs \subseteq Nat /\ IsFiniteSet(Pairs)
    BY <1>1, DiscoveryAssumption
  <2> QED
    BY <2>1, FS_Subset
<1>3. \A p \in DOMAIN markets : Assets[p] \in Denoms \X Denoms
  BY <1>1, DiscoveryAssumption
<1>4. \A p \in DOMAIN markets :
         /\ markets[p] \in Market /\ markets[p].kind = "astroport"
         /\ markets[p].id = p
  <2> TAKE p \in DOMAIN markets
  <2>1. Assets[p][1] \in Denoms /\ Assets[p][2] \in Denoms /\ p \in Nat
    BY <1>2, <1>3
  <2> QED
    BY <1>1, <2>1 DEF Market
<1>5. Numbered(markets)
  BY <1>2, <1>4 DEF Numbered
<1> QED
  BY <1>1, <1>4, <1>5 DEF markets

LEMMA CatalogueType ==
    ASSUME NEW markets, Numbered(markets),
           \A i \in DOMAIN markets : markets[i] \in Market
    PROVE  /\ DOMAIN Catalogue(markets) \subseteq Denoms \X Denoms
           /\ Entries(Catalogue(markets)) \subseteq Market
<1>1. \A i \in DOMAIN markets : BothOrders(markets[i]) \subseteq Denoms \X Denoms
  BY DEF BothOrders, Market
<1>2. DOMAIN Catalogue(markets) \subseteq Denoms \X Denoms
  BY <1>1 DEF Catalogue
<1> QED
  BY <1>2, EntriesAreMarkets

-----------------------------------------------------------------------------
(* The invariant                                                           *)

LEMMA AnswerIsCatalogued ==
    ASSUME NEW pools \in Seq(Seq(Denoms))
    PROVE  /\ DOMAIN Catalogue(OsmosisMarkets(pools)) \subseteq Denoms \X Denoms
           /\ Entries(Catalogue(OsmosisMarkets(pools))) \subseteq Market
BY OsmosisIsNumbered, CatalogueType

LEMMA ListingIsCatalogued ==
    ASSUME NEW pairs \in SUBSET Pairs
    PROVE  /\ DOMAIN Catalogue(AstroportMarkets(pairs)) \subseteq Denoms \X Denoms
           /\ Entries(Catalogue(AstroportMarkets(pairs))) \subseteq Market
BY AstroportIsNumbered, CatalogueType

\* A node's answer is a beginning of Osmosis' list.
LEMMA AnswerType ==
    ASSUME NEW k \in 0..Len(OsmoPools)
    PROVE  /\ SubSeq(OsmoPools, 1, k) \in Seq(Seq(Denoms))
           /\ Len(SubSeq(OsmoPools, 1, k)) = k
           /\ \A i \in 1..k : SubSeq(OsmoPools, 1, k)[i] = OsmoPools[i]
<1>1. OsmoPools \in Seq(Seq(Denoms)) /\ Len(OsmoPools) \in Nat
  BY DiscoveryAssumption, LenProperties
<1>2. k \in Nat /\ k <= Len(OsmoPools)
  BY <1>1
<1>3. \A i \in 1..k : OsmoPools[i] \in Seq(Denoms)
  BY <1>1, <1>2, ElementOfSeq
<1> QED
  BY <1>1, <1>2, <1>3, SubSeqProperties

LEMMA InitHolds == Init => IInv
<1> SUFFICES ASSUME Init PROVE IInv
  OBVIOUS
<1>1. DOMAIN None = {} /\ Entries(None) = {}
  BY DEF None, Entries
<1>2. 0 \in 0..Len(OsmoPools)
  BY DiscoveryAssumption, LenProperties
<1>3. TypeOK
  BY <1>1, <1>2 DEF Init, TypeOK
<1> QED
  BY <1>3 DEF Init, IInv, NothingPassed, MadeOfAnswers

LEMMA ListOsmosisKeeps == IInv /\ ListOsmosis => IInv'
<1> SUFFICES ASSUME IInv, ListOsmosis PROVE IInv'
  OBVIOUS
<1>1. /\ heard' \in 0..Len(OsmoPools) /\ (file.pools => heard' = 0)
      /\ osmosis' = Catalogue(OsmosisMarkets(OsmosisHeard'))
  <2>1. CASE file.pools
    <3>1. 0 \in 0..Len(OsmoPools)
      BY DiscoveryAssumption, LenProperties
    <3> QED
      BY <2>1, <3>1 DEF ListOsmosis, OsmosisHeard
  <2>2. CASE ~file.pools
    BY <2>2 DEF ListOsmosis, OsmosisHeard
  <2> QED
    BY <2>1, <2>2
<1>2. OsmosisHeard' \in Seq(Seq(Denoms))
  BY <1>1, AnswerType, DiscoveryAssumption DEF OsmosisHeard, ListOsmosis
<1>3. /\ DOMAIN osmosis' \subseteq Denoms \X Denoms
      /\ Entries(osmosis') \subseteq Market
  BY <1>1, <1>2, AnswerIsCatalogued
<1>4. TypeOK'
  BY <1>1, <1>3 DEF IInv, TypeOK, ListOsmosis
<1>5. NothingPassed'
  <2>1. cursor = 0 /\ cursor' = 0
    BY DEF IInv, ListOsmosis, NothingPassed
  <2> QED
    BY <2>1, DiscoveryAssumption DEF ListOsmosis, NothingPassed
<1>6. MadeOfAnswers'
  BY <1>1 DEF IInv, ListOsmosis, MadeOfAnswers
<1> QED
  BY <1>4, <1>5, <1>6 DEF IInv

LEMMA NextPageKeeps == IInv /\ NextPage => IInv'
<1> SUFFICES ASSUME IInv, NextPage PROVE IInv'
  OBVIOUS
<1> USE DEF IInv
<1>1. PICK n \in Nodes : /\ Page(n) # {}
                         /\ listed' = listed \cup Page(n)
                         /\ cursor' = Max(Page(n))
  BY DEF NextPage, Listed
<1>2. /\ Page(n) \subseteq view[n] /\ Page(n) \in SUBSET Int /\ IsFiniteSet(Page(n))
  BY PageIsFinite
<1>3. /\ Max(Page(n)) \in Page(n) /\ \A z \in Page(n) : z <= Max(Page(n))
  BY <1>1, <1>2, MaxIsThere
<1>4. view[n] \subseteq Pairs
  BY DEF TypeOK
<1>5. TypeOK'
  BY <1>1, <1>2, <1>3, <1>4 DEF TypeOK, NextPage
<1>6. NothingPassed'
  <2>1. /\ pc = "astroport" /\ pc' = "astroport"
        /\ view' = view /\ steady' = steady
    BY DEF NextPage
  <2> SUFFICES ASSUME NEW p \in steady
               PROVE  /\ \A k \in Nodes : p \in view[k]
                      /\ p <= cursor' => p \in listed'
    BY <2>1 DEF NothingPassed
  <2>2. /\ \A k \in Nodes : p \in view[k]
        /\ p <= cursor => p \in listed
    BY <2>1 DEF NothingPassed
  <2>3. p \in Int /\ cursor \in Int
    BY DiscoveryAssumption DEF TypeOK
  <2>4. CASE p <= cursor
    BY <1>1, <2>2, <2>4
  <2>5. CASE p > cursor
    BY <1>1, <2>2, <2>5, PageHasNoGap
  <2> QED
    BY <2>2, <2>3, <2>4, <2>5
<1>7. MadeOfAnswers'
  BY DEF NextPage, MadeOfAnswers, OsmosisHeard
<1> QED
  BY <1>5, <1>6, <1>7

\* Either way the listing ends, the catalogue is made of what is listed.
LEMMA EndListingKeeps ==
    ASSUME IInv, EndListing, unanswered' \in BOOLEAN,
           unanswered' \/ steady \subseteq listed
    PROVE  IInv'
<1> USE DEF IInv
<1>1. listed \in SUBSET Pairs
  BY DEF TypeOK
<1>2. /\ DOMAIN astroport' \subseteq Denoms \X Denoms
      /\ Entries(astroport') \subseteq Market
  BY <1>1, ListingIsCatalogued DEF EndListing
<1>3. TypeOK'
  BY <1>2 DEF TypeOK, EndListing
<1>4. NothingPassed'
  BY DEF EndListing, NothingPassed
<1>5. MadeOfAnswers'
  BY DEF EndListing, MadeOfAnswers, OsmosisHeard
<1> QED
  BY <1>3, <1>4, <1>5

LEMMA LastPageKeeps == IInv /\ LastPage => IInv'
<1> SUFFICES ASSUME IInv, LastPage PROVE IInv'
  OBVIOUS
<1>1. PICK n \in Nodes : Page(n) = {}
  BY DEF LastPage
<1>2. steady \subseteq listed
  <2> SUFFICES ASSUME NEW p \in steady PROVE p \in listed
    OBVIOUS
  <2>1. p \in view[n] /\ (p <= cursor => p \in listed)
    BY DEF LastPage, EndListing, IInv, NothingPassed
  <2>2. p <= cursor
    BY <1>1, <2>1, EmptyPageIsLast DEF IInv
  <2> QED
    BY <2>1, <2>2
<1>3. unanswered' \in BOOLEAN /\ EndListing
  BY DEF LastPage, IInv, TypeOK
<1> QED
  BY <1>2, <1>3, EndListingKeeps

LEMMA NoPageKeeps == IInv /\ NoPage => IInv'
BY EndListingKeeps DEF NoPage

LEMMA RegisterPoolsKeeps == IInv /\ RegisterPools => IInv'
<1> SUFFICES ASSUME IInv, RegisterPools PROVE IInv'
  OBVIOUS
<1> USE DEF IInv
<1>1. providers' = Registered(Entries(osmosis) \cup Entries(astroport))
  BY DEF RegisterPools
<1>2. DOMAIN providers' \subseteq Denoms \X Denoms
  <2>1. Entries(osmosis) \cup Entries(astroport) \subseteq Market
    BY DEF TypeOK
  <2>2. \A m \in Market : BothOrders(m) \subseteq Denoms \X Denoms
    BY DEF BothOrders, Market
  <2> QED
    BY <1>1, <2>1, <2>2 DEF Registered
<1>3. TypeOK'
  BY <1>2 DEF TypeOK, RegisterPools
<1>4. NothingPassed'
  BY DEF RegisterPools, NothingPassed
<1>5. (providers = Registered(Entries(osmosis) \cup Entries(astroport)))'
  BY <1>1 DEF RegisterPools, Registered, Calls, Entries
<1>6. MadeOfAnswers'
  BY <1>5 DEF RegisterPools, MadeOfAnswers, OsmosisHeard
<1> QED
  BY <1>3, <1>4, <1>6

\* An auction's pair is one of two denoms, in whichever order.
LEMMA RegisterAuctionsKeeps == IInv /\ RegisterAuctions => IInv'
<1> SUFFICES ASSUME IInv, RegisterAuctions PROVE IInv'
  OBVIOUS
<1> USE DEF IInv
<1>1. auctions' \subseteq Denoms \X Denoms
  <2>1. /\ FileAuctions \subseteq Denoms \X Denoms
        /\ {<<pair[2], pair[1]>> : pair \in AuctionPairs} \subseteq Denoms \X Denoms
    BY DiscoveryAssumption
  <2>2. \/ auctions' = FileAuctions
        \/ auctions' = {<<pair[2], pair[1]>> : pair \in AuctionPairs}
        \/ auctions' = {}
    BY DEF RegisterAuctions
  <2> QED
    BY <2>1, <2>2
<1>2. TypeOK'
  BY <1>1 DEF TypeOK, RegisterAuctions
<1>3. NothingPassed'
  BY DEF RegisterAuctions, NothingPassed
<1>4. pc = "auctions" /\ providers = Registered(Entries(osmosis) \cup Entries(astroport))
  BY DEF RegisterAuctions, MadeOfAnswers
<1>5. (providers = Registered(Entries(osmosis) \cup Entries(astroport)))'
  BY <1>4 DEF RegisterAuctions, Registered, Calls, Entries
<1>6. MadeOfAnswers'
  BY <1>5 DEF RegisterAuctions, MadeOfAnswers, OsmosisHeard
<1> QED
  BY <1>2, <1>3, <1>6

LEMMA PairAppearsKeeps == IInv /\ PairAppears => IInv'
<1> SUFFICES ASSUME IInv, PairAppears PROVE IInv'
  OBVIOUS
<1> USE DEF IInv
<1>1. PICK n \in Nodes, p \in Pairs : view' = [view EXCEPT ![n] = @ \cup {p}]
  BY DEF PairAppears
<1>2. /\ view' \in [Nodes -> SUBSET Pairs]
      /\ \A k \in Nodes : view[k] \subseteq view'[k]
  BY <1>1 DEF TypeOK
<1>3. TypeOK'
  BY <1>2 DEF TypeOK, PairAppears
<1>4. NothingPassed'
  BY <1>2 DEF PairAppears, NothingPassed
<1>5. MadeOfAnswers'
  BY DEF PairAppears, MadeOfAnswers, OsmosisHeard
<1> QED
  BY <1>3, <1>4, <1>5

LEMMA StepKeeps == IInv /\ [Next]_vars => IInv'
<1> SUFFICES ASSUME IInv, [Next]_vars PROVE IInv'
  OBVIOUS
<1>1. CASE ListOsmosis
  BY <1>1, ListOsmosisKeeps
<1>2. CASE NextPage
  BY <1>2, NextPageKeeps
<1>3. CASE LastPage
  BY <1>3, LastPageKeeps
<1>4. CASE NoPage
  BY <1>4, NoPageKeeps
<1>5. CASE RegisterPools
  BY <1>5, RegisterPoolsKeeps
<1>6. CASE RegisterAuctions
  BY <1>6, RegisterAuctionsKeeps
<1>7. CASE PairAppears
  BY <1>7, PairAppearsKeeps
<1>8. CASE UNCHANGED vars
  <2>1. TypeOK'
    BY <1>8 DEF vars, IInv, TypeOK
  <2>2. NothingPassed'
    BY <1>8 DEF vars, IInv, NothingPassed
  <2>3. MadeOfAnswers'
    <3>1. /\ OsmosisHeard' = OsmosisHeard
          /\ (Registered(Entries(osmosis) \cup Entries(astroport)))'
                = Registered(Entries(osmosis) \cup Entries(astroport))
      BY <1>8 DEF vars, OsmosisHeard, Registered, Calls
    <3> QED
      BY <1>8, <3>1 DEF vars, IInv, MadeOfAnswers
  <2> QED
    BY <2>1, <2>2, <2>3 DEF IInv
<1> QED
  BY <1>1, <1>2, <1>3, <1>4, <1>5, <1>6, <1>7, <1>8 DEF Next, Startup

\* The invariant holds in every reachable state.
THEOREM Invariance == Spec => []IInv
<1>1. Init => IInv
  BY InitHolds
<1>2. IInv /\ [Next]_vars => IInv'
  BY StepKeeps
<1> QED
  BY <1>1, <1>2, PTL DEF Spec

\* All variables stay in their types, the catalogues those of markets.
THEOREM TypeCorrect == Spec => []TypeOK
<1>1. IInv => TypeOK
  BY DEF IInv
<1> QED
  BY <1>1, Invariance, PTL

-----------------------------------------------------------------------------
(* What the strategy gets                                                  *)

\* A market held in one catalogue and foreign to the other is registered twice
\* under either order, which is what Tradable asks.
LEMMA HeldIsTradable ==
    ASSUME providers = Registered(Entries(osmosis) \cup Entries(astroport)),
           NEW markets, Numbered(markets), NEW m, m.a # m.b,
           Holds(Catalogue(markets), m),
           \/ osmosis = Catalogue(markets) /\ m \notin Entries(astroport)
           \/ astroport = Catalogue(markets) /\ m \notin Entries(osmosis)
    PROVE  Tradable(m)
<1>1. Calls(Catalogue(markets), m) = 2
  BY HeldIsCalledTwice
<1>2. m \in Entries(Catalogue(markets))
  BY HeldIsEntry
<1>3. CASE osmosis = Catalogue(markets) /\ m \notin Entries(astroport)
  <2>1. Calls(astroport, m) = 0
    BY <1>3, StrangerIsNotCalled
  <2>2. Calls(osmosis, m) + Calls(astroport, m) = 2
    BY <1>1, <1>3, <2>1
  <2> QED
    BY <1>2, <1>3, <2>2, EntryIsTradable
<1>4. CASE astroport = Catalogue(markets) /\ m \notin Entries(osmosis)
  <2>1. Calls(osmosis, m) = 0
    BY <1>4, StrangerIsNotCalled
  <2>2. Calls(osmosis, m) + Calls(astroport, m) = 2
    BY <1>1, <1>4, <2>1
  <2> QED
    BY <1>2, <1>4, <2>2, EntryIsTradable
<1> QED
  BY <1>3, <1>4

\* The two directories hold markets of their own kind.
LEMMA KindsDiffer ==
    ASSUME IInv, pc = "built"
    PROVE  /\ OsmosisHeard \in Seq(Seq(Denoms))
           /\ osmosis = Catalogue(OsmosisMarkets(OsmosisHeard))
           /\ astroport = Catalogue(AstroportMarkets(listed))
           /\ listed \in SUBSET Pairs
           /\ providers = Registered(Entries(osmosis) \cup Entries(astroport))
           /\ \A m \in Entries(osmosis) : m.kind = "osmosis"
           /\ \A m \in Entries(astroport) : m.kind = "astroport"
<1>1. /\ osmosis = Catalogue(OsmosisMarkets(OsmosisHeard))
      /\ astroport = Catalogue(AstroportMarkets(listed))
      /\ listed \in SUBSET Pairs
      /\ providers = Registered(Entries(osmosis) \cup Entries(astroport))
  BY DEF IInv, MadeOfAnswers, TypeOK
<1>2. OsmosisHeard \in Seq(Seq(Denoms))
  BY AnswerType, DiscoveryAssumption DEF IInv, TypeOK, OsmosisHeard
<1>3. \A m \in Entries(osmosis) : m.kind = "osmosis"
  <2> DEFINE markets == OsmosisMarkets(OsmosisHeard)
  <2> SUFFICES ASSUME NEW m \in Entries(osmosis) PROVE m.kind = "osmosis"
    OBVIOUS
  <2>1. Numbered(markets) /\ \A i \in DOMAIN markets : markets[i].kind = "osmosis"
    BY <1>2, OsmosisIsNumbered
  <2> HIDE DEF markets
  <2>2. \E i \in DOMAIN markets : m = markets[i]
    BY <1>1, <2>1, EntriesAreMarkets DEF markets
  <2> QED
    BY <2>1, <2>2
<1>4. \A m \in Entries(astroport) : m.kind = "astroport"
  <2> DEFINE markets == AstroportMarkets(listed)
  <2> SUFFICES ASSUME NEW m \in Entries(astroport) PROVE m.kind = "astroport"
    OBVIOUS
  <2>1. Numbered(markets) /\ \A p \in DOMAIN markets : markets[p].kind = "astroport"
    BY <1>1, AstroportIsNumbered
  <2> HIDE DEF markets
  <2>2. \E p \in DOMAIN markets : m = markets[p]
    BY <1>1, <2>1, EntriesAreMarkets DEF markets
  <2> QED
    BY <2>1, <2>2
<1> QED
  BY <1>1, <1>2, <1>3, <1>4

\* The denoms of a pair.
LEMMA AssetSet ==
    ASSUME NEW x \in Denoms \X Denoms
    PROVE  ToSet(x) = {x[1], x[2]}
<1>1. DOMAIN x = {1, 2}
  OBVIOUS
<1> QED
  BY <1>1 DEF ToSet

LEMMA SteadyPairIsTradable ==
    ASSUME IInv, pc = "built", ~unanswered, NEW p \in WellFormed(steady)
    PROVE  Tradable([kind |-> "astroport", id |-> p,
                     a |-> Assets[p][1], b |-> Assets[p][2]])
<1> DEFINE markets == AstroportMarkets(listed)
           m == [kind |-> "astroport", id |-> p,
                 a |-> Assets[p][1], b |-> Assets[p][2]]
<1>1. p \in listed /\ p \notin Malformed /\ listed \in SUBSET Pairs
  BY DEF IInv, MadeOfAnswers, WellFormed, TypeOK
<1>2. /\ Numbered(markets) /\ DOMAIN markets = listed \ Malformed
      /\ \A q \in DOMAIN markets :
            markets[q] = [kind |-> "astroport", id |-> q,
                          a |-> Assets[q][1], b |-> Assets[q][2]]
  BY <1>1, AstroportIsNumbered
<1>3. p \in DOMAIN markets /\ markets[p] = m
  BY <1>1, <1>2
<1>4. \A q \in DOMAIN markets :
         BothOrders(markets[q]) \cap BothOrders(markets[p]) # {} => q = p
  <2> SUFFICES ASSUME NEW q \in DOMAIN markets,
                      BothOrders(markets[q]) \cap BothOrders(markets[p]) # {}
               PROVE  q = p
    OBVIOUS
  <2>1. \/ Assets[q][1] = Assets[p][1] /\ Assets[q][2] = Assets[p][2]
        \/ Assets[q][1] = Assets[p][2] /\ Assets[q][2] = Assets[p][1]
    BY <1>2, <1>3 DEF BothOrders
  <2>2. /\ Assets[q] \in Denoms \X Denoms /\ Assets[p] \in Denoms \X Denoms
        /\ q \in Pairs /\ p \in Pairs
    BY <1>1, <1>2, DiscoveryAssumption
  <2>3. ToSet(Assets[q]) = ToSet(Assets[p])
    BY <2>1, <2>2, AssetSet
  <2> QED
    BY <2>2, <2>3, DiscoveryAssumption
<1>5. \A q \in DOMAIN markets :
         BothOrders(markets[q]) \cap BothOrders(markets[p]) # {} => q <= p
  BY <1>2, <1>3, <1>4 DEF Numbered
<1>6. Holds(Catalogue(markets), m)
  <2> HIDE DEF markets, m
  <2> QED
    BY <1>2, <1>3, <1>5, NewestIsHeld
<1>7. m.a # m.b /\ m.kind = "astroport"
  BY <1>1, DiscoveryAssumption
<1>8. m \notin Entries(osmosis)
  BY <1>7, KindsDiffer
<1> HIDE DEF m
<1>9. astroport = Catalogue(markets)
  BY KindsDiffer
<1>10. providers = Registered(Entries(osmosis) \cup Entries(astroport))
  BY KindsDiffer
<1> HIDE DEF markets
<1>11. Tradable(m)
  BY <1>2, <1>6, <1>7, <1>8, <1>9, <1>10, HeldIsTradable
<1> QED
  BY <1>11 DEF m

\* Of Osmosis' answer: the pools, and what it means that two are of the same
\* denoms.
LEMMA PoolSet ==
    ASSUME NEW pool \in Seq(Denoms)
    PROVE  /\ Len(pool) = 2 => ToSet(pool) = {pool[1], pool[2]}
           /\ Len(pool) < 2 => \A x, y \in ToSet(pool) : x = y
<1>1. DOMAIN pool = 1..Len(pool) /\ Len(pool) \in Nat
  BY LenProperties
<1>2. ASSUME Len(pool) = 2 PROVE ToSet(pool) = {pool[1], pool[2]}
  <2>1. DOMAIN pool = {1, 2}
    BY <1>1, <1>2
  <2> QED
    BY <2>1 DEF ToSet
<1>3. ASSUME Len(pool) < 2 PROVE \A x, y \in ToSet(pool) : x = y
  <2>1. \A k, l \in DOMAIN pool : k = l
    BY <1>1, <1>3
  <2> QED
    BY <2>1 DEF ToSet
<1> QED
  BY <1>2, <1>3

LEMMA NewestPoolIsTradable ==
    ASSUME IInv, pc = "built", NEW i \in 1..heard, Len(OsmoPools[i]) = 2
    PROVE  LET rivals == {j \in 1..heard : ToSet(OsmoPools[j]) = ToSet(OsmoPools[i])}
               m == [kind |-> "osmosis", id |-> i,
                     a |-> OsmoPools[i][1], b |-> OsmoPools[i][2]]
           IN  Tradable(m) <=> \A j \in rivals : j <= i
<1> DEFINE rivals == {j \in 1..heard : ToSet(OsmoPools[j]) = ToSet(OsmoPools[i])}
           m == [kind |-> "osmosis", id |-> i,
                 a |-> OsmoPools[i][1], b |-> OsmoPools[i][2]]
           markets == OsmosisMarkets(OsmosisHeard)
<1>1. heard \in 0..Len(OsmoPools) /\ Len(OsmoPools) \in Nat
  BY DiscoveryAssumption, LenProperties DEF IInv, TypeOK
<1>2. OsmosisHeard = SubSeq(OsmoPools, 1, heard)
  BY <1>1 DEF IInv, MadeOfAnswers, OsmosisHeard
<1>3. /\ OsmosisHeard \in Seq(Seq(Denoms)) /\ DOMAIN OsmosisHeard = 1..heard
      /\ \A j \in 1..heard : OsmosisHeard[j] = OsmoPools[j]
  <2>1. /\ OsmosisHeard \in Seq(Seq(Denoms)) /\ Len(OsmosisHeard) = heard
        /\ \A j \in 1..heard : OsmosisHeard[j] = OsmoPools[j]
    BY <1>1, <1>2, AnswerType
  <2> QED
    BY <2>1, LenProperties
<1>4. /\ Numbered(markets)
      /\ DOMAIN markets = {j \in 1..heard : Len(OsmoPools[j]) = 2}
      /\ \A j \in DOMAIN markets :
            markets[j] = [kind |-> "osmosis", id |-> j,
                          a |-> OsmoPools[j][1], b |-> OsmoPools[j][2]]
  BY <1>3, OsmosisIsNumbered
<1>5. i \in DOMAIN markets /\ markets[i] = m
  BY <1>4
<1>6. /\ osmosis = Catalogue(markets)
      /\ providers = Registered(Entries(osmosis) \cup Entries(astroport))
      /\ m \notin Entries(astroport)
  BY KindsDiffer
<1>7. \A j \in 1..heard :
         /\ OsmoPools[j] \in Seq(Denoms) /\ Len(OsmoPools[j]) \in Nat
         /\ Len(OsmoPools[j]) <= 2
         /\ Len(OsmoPools[j]) = 2 => OsmoPools[j][1] # OsmoPools[j][2]
  <2> TAKE j \in 1..heard
  <2>1. j \in 1..Len(OsmoPools) /\ OsmoPools \in Seq(Seq(Denoms))
    BY <1>1, DiscoveryAssumption
  <2>2. OsmoPools[j] \in Seq(Denoms) /\ OsmoPools[j] \in ToSet(OsmoPools)
    BY <2>1, ElementOfSeq, LenProperties DEF ToSet
  <2>3. Len(OsmoPools[j]) \in Nat
    BY <2>2, LenProperties
  <2> QED
    BY <2>2, <2>3, DiscoveryAssumption
\* Two pools are rivals just when they have the same two denoms.
<1>8. \A j \in DOMAIN markets :
         /\ j \in rivals => BothOrders(markets[j]) = BothOrders(markets[i])
         /\ BothOrders(markets[j]) \cap BothOrders(markets[i]) # {} => j \in rivals
  <2> HIDE DEF markets
  <2> TAKE j \in DOMAIN markets
  <2>1. /\ j \in 1..heard /\ Len(OsmoPools[j]) = 2
        /\ markets[j].a = OsmoPools[j][1] /\ markets[j].b = OsmoPools[j][2]
        /\ markets[i].a = OsmoPools[i][1] /\ markets[i].b = OsmoPools[i][2]
    <3>1. markets[j] = [kind |-> "osmosis", id |-> j,
                        a |-> OsmoPools[j][1], b |-> OsmoPools[j][2]]
      BY <1>4
    <3>2. markets[i].a = OsmoPools[i][1] /\ markets[i].b = OsmoPools[i][2]
      BY <1>5
    <3>3. j \in 1..heard /\ Len(OsmoPools[j]) = 2
      BY <1>4
    <3> QED
      BY <3>1, <3>2, <3>3
  <2>2. /\ ToSet(OsmoPools[j]) = {OsmoPools[j][1], OsmoPools[j][2]}
        /\ ToSet(OsmoPools[i]) = {OsmoPools[i][1], OsmoPools[i][2]}
    BY <1>7, <2>1, PoolSet
  <2>3. ASSUME j \in rivals PROVE BothOrders(markets[j]) = BothOrders(markets[i])
    BY <2>1, <2>2, <2>3 DEF BothOrders
  <2>4. ASSUME BothOrders(markets[j]) \cap BothOrders(markets[i]) # {}
        PROVE  j \in rivals
    <3>1. \/ markets[j].a = markets[i].a /\ markets[j].b = markets[i].b
          \/ markets[j].a = markets[i].b /\ markets[j].b = markets[i].a
      BY <2>4 DEF BothOrders
    <3>2. ToSet(OsmoPools[j]) = ToSet(OsmoPools[i])
      BY <2>1, <2>2, <3>1
    <3> QED
      BY <2>1, <3>2
  <2> QED
    BY <2>3, <2>4
\* A pool that does not show two denoms is nobody's rival.
<1>9. rivals \subseteq DOMAIN markets
  <2> SUFFICES ASSUME NEW j \in rivals PROVE j \in DOMAIN markets
    OBVIOUS
  <2>1. j \in 1..heard /\ ToSet(OsmoPools[j]) = ToSet(OsmoPools[i])
    OBVIOUS
  <2>2. /\ OsmoPools[i][1] # OsmoPools[i][2]
        /\ OsmoPools[i][1] \in ToSet(OsmoPools[i])
        /\ OsmoPools[i][2] \in ToSet(OsmoPools[i])
    BY <1>7, PoolSet
  <2>3. ~(Len(OsmoPools[j]) < 2)
    BY <1>7, <2>1, <2>2, PoolSet
  <2>4. Len(OsmoPools[j]) = 2
    BY <1>7, <2>1, <2>3
  <2> QED
    BY <1>4, <2>1, <2>4
<1>10. m.a # m.b
  BY <1>7
<1> HIDE DEF m, markets, rivals
<1>11. ASSUME \A j \in rivals : j <= i PROVE Tradable(m)
  <2>1. Holds(Catalogue(markets), m)
    BY <1>4, <1>5, <1>8, <1>11, NewestIsHeld
  <2> QED
    BY <1>4, <1>6, <1>10, <2>1, HeldIsTradable
<1>12. ASSUME Tradable(m) PROVE \A j \in rivals : j <= i
  <2>1. markets[i] \in Entries(Catalogue(markets))
    BY <1>5, <1>6, <1>12, TradableIsEntry
  <2> TAKE j \in rivals
  <2>2. j \in DOMAIN markets /\ BothOrders(markets[j]) = BothOrders(markets[i])
    BY <1>8, <1>9
  <2> QED
    BY <1>4, <1>5, <2>1, <2>2, EntryHasNoNewer
<1> QED
  BY <1>11, <1>12 DEF m, rivals

\* Whatever nodes answer the pages and whatever is created meanwhile, once the
\* bot is built the strategy has every well-formed pair that all nodes knew from
\* the start unless a page went unanswered, and of Osmosis, for two denoms, just
\* the newest pool of the answer.
THEOREM SteadyTraded == Spec => []SteadyIsTradable
<1>1. IInv => SteadyIsTradable
  BY SteadyPairIsTradable, NewestPoolIsTradable DEF SteadyIsTradable
<1> QED
  BY <1>1, Invariance, PTL

-----------------------------------------------------------------------------
(* The listing ends                                                        *)

\* The cursor moves to a pair beyond it.
LEMMA PageAdvances ==
    ASSUME IInv, NextPage
    PROVE  Ahead' \subseteq Ahead /\ Cardinality(Ahead') < Cardinality(Ahead)
<1>1. PICK n \in Nodes : Page(n) # {} /\ cursor' = Max(Page(n))
  BY DEF NextPage
<1>2. /\ Page(n) \subseteq view[n] /\ Page(n) \in SUBSET Int /\ IsFiniteSet(Page(n))
  BY PageIsFinite DEF IInv
<1>3. cursor' \in Page(n)
  BY <1>1, <1>2, MaxIsThere
<1>4. cursor' \in Pairs /\ cursor' > cursor
  BY <1>2, <1>3 DEF Page, IInv, TypeOK
<1>5. cursor \in Int /\ Pairs \subseteq Int /\ IsFiniteSet(Pairs)
  BY DiscoveryAssumption DEF IInv, TypeOK
<1>6. Ahead' \subseteq Ahead /\ Ahead' # Ahead
  <2>1. ASSUME NEW p \in Ahead' PROVE p \in Ahead
    <3>1. p \in Pairs /\ p > cursor' /\ p \in Int /\ cursor' \in Int
      BY <1>4, <1>5, <2>1 DEF Ahead
    <3> QED
      BY <1>4, <1>5, <3>1 DEF Ahead
  <2>2. cursor' \in Ahead /\ cursor' \notin Ahead'
    BY <1>4, <1>5 DEF Ahead
  <2> QED
    BY <2>1, <2>2
<1>7. IsFiniteSet(Ahead)
  BY <1>5, FS_Subset DEF Ahead
<1>8. /\ IsFiniteSet(Ahead') /\ Cardinality(Ahead') <= Cardinality(Ahead)
      /\ Cardinality(Ahead') # Cardinality(Ahead)
  BY <1>6, <1>7, FS_Subset
<1>9. Cardinality(Ahead') \in Nat /\ Cardinality(Ahead) \in Nat
  BY <1>7, <1>8, FS_CardinalityType
<1> QED
  BY <1>6, <1>8, <1>9

\* However the nodes lag and whatever is created, each page that goes on leaves
\* fewer pairs ahead of the cursor, so there are no more pages than pairs.
THEOREM ListingIsBounded == Spec => ListingAdvances
<1>1. IInv /\ [Next]_vars =>
         [/\ Ahead' \subseteq Ahead
          /\ NextPage => Cardinality(Ahead') < Cardinality(Ahead)]_vars
  <2> SUFFICES ASSUME IInv, Next
               PROVE  /\ Ahead' \subseteq Ahead
                      /\ NextPage => Cardinality(Ahead') < Cardinality(Ahead)
    OBVIOUS
  <2>1. CASE NextPage
    BY <2>1, PageAdvances
  <2>2. CASE ~NextPage
    <3>1. cursor' = cursor
      BY <2>2 DEF Next, Startup, ListOsmosis, LastPage, NoPage, EndListing,
         RegisterPools, RegisterAuctions, PairAppears
    <3> QED
      BY <2>2, <3>1 DEF Ahead
  <2> QED
    BY <2>1, <2>2
<1> QED
  BY Invariance, <1>1, PTL DEF Spec, ListingAdvances
=============================================================================
