----------------------------- MODULE Discovery -----------------------------
(***************************************************************************)
(* How the bot finds its markets when it starts (src/src/main.py): the     *)
(* Osmosis pools in one answer, the Astroport pairs page by page, the      *)
(* auctions in one answer or, where the code looks at it, the pool file;   *)
(* what the directories make of them; and how the scheduler registers them *)
(* for the strategy.                                                       *)
(*                                                                         *)
(* Each page may come from another node, while pairs are created and reach *)
(* the nodes at different times, or from none.                             *)
(***************************************************************************)
EXTENDS Integers, Sequences, FiniteSets, SequencesExt, FiniteSetsExt

CONSTANTS
    Nodes,                  \* the nodes of the Astroport chain
    Pairs,                  \* its pairs, numbered in the order they are listed
    Assets,                 \* Assets[p]: the two denoms of pair p
    Malformed,              \* pairs with a "<" in a denom
    OsmoPools,              \* Osmosis' pools, pool_id i at i: the first two of
                            \*   their denoms, or fewer
    FilePools,              \* the Osmosis pools of the pool file
    AuctionPairs,           \* the auctions of the manager's answer
    FileAuctions,           \* those of the pool file
    Denoms,                 \* all well-formed denoms of these markets
    PageSize                \* "limit"

\* Astroport's factory has one pair for two denoms; no pool trades a denom
\* for itself.
ASSUME DiscoveryAssumption ==
    /\ Pairs \subseteq Nat \ {0} /\ IsFiniteSet(Pairs)
    /\ PageSize \in Nat \ {0}
    /\ \A p \in Pairs \ Malformed : Assets[p] \in Denoms \X Denoms
    /\ \A p \in Pairs : Assets[p][1] # Assets[p][2]
    /\ \A p, q \in Pairs : p # q => ToSet(Assets[p]) # ToSet(Assets[q])
    /\ OsmoPools \in Seq(Seq(Denoms)) /\ FilePools \in Seq(Seq(Denoms))
    /\ \A pool \in ToSet(OsmoPools) :
          Len(pool) <= 2 /\ (Len(pool) = 2 => pool[1] # pool[2])
    /\ \A pool \in ToSet(FilePools) : Len(pool) = 2
    /\ AuctionPairs \cup FileAuctions \subseteq Denoms \X Denoms

VARIABLES
    file,                   \* what of its markets the pool file names
    view,                   \* the pairs each node knows
    pc,
    cursor,                 \* start_after; 0 at first
    listed,                 \* the pairs of the pages so far
    osmosis, astroport,     \* the catalogues: a market by its two denoms
    providers,              \* sched.providers: how often each market is under
                            \*   two denoms
    auctions,               \* sched.auctions: one order of the denoms only
    heard,                  \* the length of Osmosis' answer
    steady,                 \* pairs all nodes knew when the listing began
    unanswered              \* a page came from no node
    \* the last three are history variables

vars == <<file, view, pc, cursor, listed, osmosis, astroport, providers,
          auctions, heard, steady, unanswered>>

Market == [kind : {"osmosis", "astroport"}, id : Nat, a : Denoms, b : Denoms]

None == <<>>

Init ==
    /\ file \in [pools : BOOLEAN, auctions : BOOLEAN]
    /\ view \in [Nodes -> SUBSET Pairs]
    /\ pc = "osmosis"
    /\ cursor = 0 /\ listed = {}
    /\ osmosis = None /\ astroport = None
    /\ providers = None /\ auctions = {}
    /\ heard = 0 /\ steady = {} /\ unanswered = FALSE

-----------------------------------------------------------------------------
(* The directories                                                         *)

\* Markets come with increasing ids.  Each is entered under both orders of its
\* denoms, in the place of an earlier one of the same two.
BothOrders(m) == {<<m.a, m.b>>, <<m.b, m.a>>}

Catalogue(markets) ==
    [pair \in UNION {BothOrders(markets[i]) : i \in DOMAIN markets} |->
        markets[Max({i \in DOMAIN markets : pair \in BothOrders(markets[i])})]]

\* Osmosis' pools are numbered by their place in the answer; pools that do not
\* show two denoms are left out.
OsmosisMarkets(pools) ==
    [i \in {i \in DOMAIN pools : Len(pools[i]) = 2} |->
        [kind |-> "osmosis", id |-> i, a |-> pools[i][1], b |-> pools[i][2]]]

\* An answer of a node that may lag behind, no answer, or the pool file.
ListOsmosis ==
    /\ pc = "osmosis"
    /\ IF file.pools
       THEN osmosis' = Catalogue(OsmosisMarkets(FilePools)) /\ heard' = 0
       ELSE \E k \in 0..Len(OsmoPools) :
                /\ heard' = k
                /\ osmosis' = Catalogue(OsmosisMarkets(SubSeq(OsmoPools, 1, k)))
    /\ steady' = {p \in Pairs : \A n \in Nodes : p \in view[n]}
    /\ pc' = "astroport"
    /\ UNCHANGED <<file, view, cursor, listed, astroport, providers, auctions,
                   unanswered>>

\* The first PageSize pairs that node n lists after the cursor.
PageFromCursor(n) ==
    LET after == {p \in view[n] : p >= cursor}
    IN  {p \in after : Cardinality({q \in after : q <= p}) <= PageSize}

Page(n) ==
    LET after == {p \in view[n] : p > cursor}
    IN  {p \in after : Cardinality({q \in after : q <= p}) <= PageSize}

\* Pairs with a malformed denom are skipped.
WellFormedAll(pairs) == pairs
WellFormed(pairs) == pairs \ Malformed

AstroportMarkets(pairs) ==
    [p \in WellFormed(pairs) |->
        [kind |-> "astroport", id |-> p, a |-> Assets[p][1], b |-> Assets[p][2]]]

ListedPage(page) == page
Listed(page) == listed \cup page

\* The pool file plays no part: the directory reads it and looks at it no more.
NextPage ==
    /\ pc = "astroport"
    /\ \E n \in Nodes :
          /\ Page(n) # {}
          /\ listed' = Listed(Page(n))
          /\ cursor' = Max(Page(n))
    /\ UNCHANGED <<file, view, pc, osmosis, astroport, providers, auctions,
                   heard, steady, unanswered>>

EndListing ==
    /\ pc = "astroport"
    /\ astroport' = Catalogue(AstroportMarkets(listed))
    /\ pc' = "register"
    /\ UNCHANGED <<file, view, cursor, listed, osmosis, providers, auctions,
                   heard, steady>>

\* An empty page ends the listing, and so does a page that no node answers.
LastPage ==
    /\ \E n \in Nodes : Page(n) = {}
    /\ EndListing
    /\ UNCHANGED unanswered

NoPage ==
    /\ EndListing
    /\ unanswered' = TRUE

-----------------------------------------------------------------------------
(* The scheduler                                                           *)

\* How often register_provider is called for m: main walks the catalogue and
\* meets a market under both orders of its denoms.
Calls(catalogue, m) == Cardinality({pair \in DOMAIN catalogue : catalogue[pair] = m})

Entries(catalogue) == {catalogue[pair] : pair \in DOMAIN catalogue}

\* Each call adds the market under both orders again.
Registered(markets) ==
    [pair \in UNION {BothOrders(m) : m \in markets} |->
        [m \in {m \in markets : pair \in BothOrders(m)} |->
            Calls(osmosis, m) + Calls(astroport, m)]]

RegisterPools ==
    /\ pc = "register"
    /\ providers' = Registered(Entries(osmosis) \cup Entries(astroport))
    /\ pc' = "auctions"
    /\ UNCHANGED <<file, view, cursor, listed, osmosis, astroport, auctions,
                   heard, steady, unanswered>>

\* A pair of the manager's answer is the asset for sale and the one it is
\* bought with; the pool file has them the other way round.
RegisterAuctions ==
    /\ pc = "auctions"
    /\ auctions' \in IF file.auctions THEN {FileAuctions}
                     ELSE {{<<pair[2], pair[1]>> : pair \in AuctionPairs}, {}}
    /\ pc' = "built"
    /\ UNCHANGED <<file, view, cursor, listed, osmosis, astroport, providers,
                   heard, steady, unanswered>>

\* A pair is created, or a node learns of it.
PairAppears ==
    /\ pc = "astroport"
    /\ \E n \in Nodes, p \in Pairs :
          view' = [view EXCEPT ![n] = @ \cup {p}]
    /\ UNCHANGED <<file, pc, cursor, listed, osmosis, astroport, providers,
                   auctions, heard, steady, unanswered>>

Startup ==
    ListOsmosis \/ NextPage \/ LastPage \/ RegisterPools \/ RegisterAuctions

Next == Startup \/ NoPage \/ PairAppears

\* The bot goes on; that a page goes unanswered may happen and need not.
Spec == Init /\ [][Next]_vars /\ WF_vars(Startup)

-----------------------------------------------------------------------------
(* Properties                                                              *)

\* Type invariant.
TypeOK ==
    /\ file \in [pools : BOOLEAN, auctions : BOOLEAN]
    /\ view \in [Nodes -> SUBSET Pairs]
    /\ pc \in {"osmosis", "astroport", "register", "auctions", "built"}
    /\ cursor \in Pairs \cup {0} /\ listed \subseteq Pairs
    /\ \A catalogue \in {osmosis, astroport} :
          /\ DOMAIN catalogue \subseteq Denoms \X Denoms
          /\ Entries(catalogue) \subseteq Market
    /\ DOMAIN providers \subseteq Denoms \X Denoms
    /\ auctions \subseteq Denoms \X Denoms
    /\ heard \in 0..Len(OsmoPools)
    /\ steady \subseteq Pairs /\ unanswered \in BOOLEAN

\* The strategy can trade m, in either direction, and meets it twice.
Tradable(m) ==
    \A pair \in BothOrders(m) :
        pair \in DOMAIN providers /\ m \in DOMAIN providers[pair]
            /\ providers[pair][m] = 2

\* Whatever nodes answer the pages and whatever is created meanwhile, the
\* strategy gets every pair that all nodes knew from the start, unless a page
\* went unanswered.  Of Osmosis it gets, for any two denoms that are traded
\* there, exactly the newest pool it heard of.
SteadyIsTradable ==
    pc = "built" =>
        /\ \A p \in WellFormed(steady) :
              unanswered \/ Tradable([kind |-> "astroport", id |-> p,
                                      a |-> Assets[p][1], b |-> Assets[p][2]])
        /\ \A i \in 1..heard :
              LET rivals == {j \in 1..heard : ToSet(OsmoPools[j]) = ToSet(OsmoPools[i])}
                  m == [kind |-> "osmosis", id |-> i,
                        a |-> OsmoPools[i][1], b |-> OsmoPools[i][2]]
              IN  Len(OsmoPools[i]) = 2 =>
                      (Tradable(m) <=> \A j \in rivals : j <= i)

\* The catalogue is built in the end, although the pairs grow while they are
\* listed.
StartupEnds == <>(pc = "built")

\* What is known of the listing while it runs: it starts before all pairs, all
\* nodes still know the pairs they knew, and those the cursor has passed are
\* listed.
NothingPassed ==
    /\ pc = "osmosis" => cursor = 0
    /\ pc = "astroport" =>
          \A p \in steady :
              (\A n \in Nodes : p \in view[n]) /\ (p <= cursor => p \in listed)

\* Catalogues and registry are made of what was heard and listed.
OsmosisHeard == IF file.pools THEN FilePools ELSE SubSeq(OsmoPools, 1, heard)

MadeOfAnswers ==
    /\ pc # "osmosis" => osmosis = Catalogue(OsmosisMarkets(OsmosisHeard))
    /\ file.pools => heard = 0
    /\ pc \in {"register", "auctions", "built"} =>
          /\ astroport = Catalogue(AstroportMarkets(listed))
          /\ unanswered \/ steady \subseteq listed
    /\ pc \in {"auctions", "built"} =>
          providers = Registered(Entries(osmosis) \cup Entries(astroport))

IInv == TypeOK /\ NothingPassed /\ MadeOfAnswers

\* The pairs that a page after the cursor could still hold.
Ahead == {p \in Pairs : p > cursor}

\* Why the listing ends, though pairs are created while it runs: each page that
\* goes on brings the cursor past a pair, and it never goes back.
ListingAdvances ==
    [][/\ Ahead' \subseteq Ahead
       /\ NextPage => Cardinality(Ahead') < Cardinality(Ahead)]_vars
=============================================================================
