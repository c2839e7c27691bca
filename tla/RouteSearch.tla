----------------------------- MODULE RouteSearch ----------------------------
(***************************************************************************)
(* The depth-first search for routes, listen_routes_with_depth_dfs         *)
(* (src/src/strategies/util.py).                                           *)
(*                                                                         *)
(* Every path is the coroutine next_legs(path).  The coroutines are merged *)
(* into one stream and run in any order; they share denom_cache, which     *)
(* they fill from answers they await.  A market is a pool or an auction; a *)
(* leg is a market with its assets in one order.  The denoms an asset has  *)
(* on other chains are a constant here, the answers of the Skip API.       *)
(* Every pool is registered twice (module Discovery), so a path with pools *)
(* in it runs several times over, to the same end: here it runs once.      *)
(***************************************************************************)
EXTENDS Integers, Sequences

CONSTANTS
    Denoms,
    Elsewhere,          \* Elsewhere[d]: denoms of the same asset on other chains
    Pools, Auctions,    \* markets: [chain, a, b, kind]
    Src, Dest,          \* where a route starts and ends
    Depth,              \* --hops
    Required            \* --require_leg_types

Markets == Pools \cup Auctions
Legs    == [in : Denoms, out : Denoms, market : Markets]

ASSUME SearchAssumption ==
    /\ Depth \in Nat
    /\ Src \in Denoms /\ Dest \in Denoms
    /\ Elsewhere \in [Denoms -> SUBSET Denoms]
    /\ \A m \in Markets : m.a \in Denoms /\ m.b \in Denoms

VARIABLES
    tasks,              \* paths whose coroutine has yet to run
    looking,            \* paths whose coroutine awaits denom_info
    cache,              \* denom_cache (flat); {} where there is no entry
    found,              \* the routes that were queued
    failed              \* the denoms some lookup of which gave no answer

vars == <<tasks, looking, cache, found, failed>>

Last(p) == p[Len(p)]
InPath(l, p) == \E i \in DOMAIN p : p[i] = l

-----------------------------------------------------------------------------
(* Legs                                                                    *)

\* Leg(asset_a if asset_a() == d else asset_b, the other, market).
FirstIf(cond, m) == [in |-> IF cond THEN m.a ELSE m.b,
                     out |-> IF cond THEN m.b ELSE m.a, market |-> m]

\* pools.get(d) and auctions.get(d): pools are registered under both assets,
\* auctions under the one they take.
ListedUnder(d) == {m \in Pools : d \in {m.a, m.b}} \cup {m \in Auctions : m.a = d}

StartLegs == {FirstIf(m.a = Src, m) : m \in ListedUnder(Src)}

\* "Atomic pools": markets of the denom the path ends in.
SameDenom(end) == {FirstIf(m.a = end, m) : m \in ListedUnder(end)}

TransferredPools(end, known, chain) ==
    UNION {{FirstIf(m.a \in {Src, d}, m) :
                m \in {x \in Pools : x.chain # chain /\ d \in {x.a, x.b}}} : d \in known}

\* "IBC pools": markets on other chains of the denoms the asset has there.
\* The test that orders the assets also asks whether the first one is src.
Transferred(end, known, chain) ==
    UNION {{FirstIf(m.a \in {Src, d}, m) :
                m \in {x \in ListedUnder(d) : x.chain # chain}} : d \in known}

\* next_pools, without the legs the path has already.
NextLegs(p, known) ==
    {l \in SameDenom(Last(p).out)
             \cup Transferred(Last(p).out, known, Last(p).market.chain) :
        ~InPath(l, p)}

\* fmt_route_leg: the type of an Astroport leg names its chain.
Named(k) == [kind |-> k, on |-> {}]
LegType(l) == [kind |-> l.market.kind,
               on |-> IF l.market.kind = "astroport" THEN {l.market.chain} ELSE {}]

HasRequired(p) == \A k \in Required : \E i \in DOMAIN p : LegType(p[i]) = Named(k)

-----------------------------------------------------------------------------
(* The coroutines                                                          *)

Init ==
    /\ tasks = {<<l>> : l \in StartLegs}
    /\ looking = {} /\ found = {}
    /\ cache = [d \in Denoms |-> {}]
    /\ failed = {}

\* The first test of next_legs: the last leg takes what the one before gives,
\* or a denom cached for it.
Connected(p) ==
    Len(p) >= 2 =>
        LET given == p[Len(p) - 1].out
        IN  Last(p).in = given \/ Last(p).in \in cache[given]

TooDeepByOne(p) == Len(p) > Depth + 1
TooDeep(p) == Len(p) > Depth
Closed(p)  == Len(p) > 1 /\ Last(p).out = Dest

Expand(p, known) == {Append(p, l) : l \in NextLegs(p, known)}

\* The path does not connect or is too long: return.
Prune(p) ==
    /\ ~Connected(p) \/ TooDeep(p)
    /\ tasks' = tasks \ {p}
    /\ UNCHANGED <<looking, cache, found, failed>>

CloseTrims(p) ==
    /\ Connected(p) /\ ~TooDeep(p) /\ Closed(p)
    /\ tasks' = tasks \ {p}
    /\ found' = IF HasRequired(p) THEN found \cup {SubSeq(p, 2, Len(p) - 1)}
              ELSE found
    /\ UNCHANGED <<looking, cache, failed>>

\* The circuit is closed.  It is queued if it has the required leg types, and
\* the path ends here either way.
Close(p) ==
    /\ Connected(p) /\ ~TooDeep(p) /\ Closed(p)
    /\ tasks' = tasks \ {p}
    /\ found' = IF HasRequired(p) THEN found \cup {p} ELSE found
    /\ UNCHANGED <<looking, cache, failed>>

\* The denom the path ends in is cached: branch.
Branch(p) ==
    /\ Connected(p) /\ ~TooDeep(p) /\ ~Closed(p)
    /\ cache[Last(p).out] # {}
    /\ tasks' = (tasks \ {p}) \cup Expand(p, cache[Last(p).out])
    /\ UNCHANGED <<looking, cache, found, failed>>

\* It is not: await denom_info.  Another coroutine may ask the same.
Look(p) ==
    /\ Connected(p) /\ ~TooDeep(p) /\ ~Closed(p)
    /\ cache[Last(p).out] = {}
    /\ tasks' = tasks \ {p} /\ looking' = looking \cup {p}
    /\ UNCHANGED <<cache, found, failed>>

AnswerNotCached(p) ==
    /\ looking' = looking \ {p}
    /\ tasks' = tasks \cup Expand(p, Elsewhere[Last(p).out] \cup {Last(p).out})
    /\ UNCHANGED <<cache, found, failed>>

\* What denom_info may say: the answer, or nothing when the status is not 200.
DenomInfo(d) == {Elsewhere[d], {}}

\* What it says is cached with the denom itself, over what another coroutine
\* may have cached meanwhile.
Answer(p) ==
    LET end == Last(p).out
    IN  /\ looking' = looking \ {p}
        /\ \E infos \in DenomInfo(end) :
              /\ cache' = [cache EXCEPT ![end] = {end} \cup infos]
              /\ failed' = IF infos = Elsewhere[end] THEN failed
                           ELSE failed \cup {end}
        /\ tasks' = tasks \cup Expand(p, cache'[end])
        /\ UNCHANGED found

\* asyncio.TimeoutError: return.
LookupTimesOut(p) ==
    /\ looking' = looking \ {p}
    /\ failed' = failed \cup {Last(p).out}
    /\ UNCHANGED <<tasks, cache, found>>

Next ==
    \/ \E p \in tasks : Prune(p) \/ Close(p) \/ Branch(p) \/ Look(p)
    \/ \E p \in looking : Answer(p) \/ LookupTimesOut(p)

Spec == Init /\ [][Next]_vars

-----------------------------------------------------------------------------
(* Properties                                                              *)

Paths == Seq(Legs)

\* Type invariant.
TypeOK ==
    /\ tasks \subseteq Paths \ {<<>>} /\ looking \subseteq Paths \ {<<>>}
    /\ found \subseteq Paths \ {<<>>}
    /\ cache \in [Denoms -> SUBSET Denoms]
    /\ failed \subseteq Denoms

\* Leg l can be traded after leg k: it takes what k gives, or the same asset
\* on another chain, to which it can be transferred.
Follows(k, l) ==
    \/ l.in = k.out
    \/ l.in \in Elsewhere[k.out] /\ l.market.chain # k.market.chain

Joined(p) == \A i \in 1..(Len(p) - 1) : Follows(p[i], p[i + 1])
Distinct(p) == \A i, j \in DOMAIN p : p[i] = p[j] => i = j

\* Whatever the interleaving of the coroutines and whatever lookups fail, a
\* route that is queued starts and ends where it should, can be traded leg
\* after leg, repeats none, is no longer than asked and has the legs asked for.
FoundAreCircuits ==
    \A p \in found :
        /\ Len(p) \in 2..Depth
        /\ p[1].in = Src /\ Last(p).out = Dest
        /\ Joined(p) /\ Distinct(p) /\ HasRequired(p)

\* "the previous leg's denoms will be in the denom cache by construction":
\* looking up the entry for the leg before the last never misses.
CacheHasPrevious ==
    \A p \in tasks : Len(p) >= 2 => cache[p[Len(p) - 1].out] # {}

\* A market on another chain is traded the wrong way round by NextLegs when
\* its first asset is src and the path brings its second one.
Misread(k, l) == l.in # k.out /\ l.market.a = Src /\ l.in # Src

\* The legs a market offers: auctions one, pools two.
Tradable == {FirstIf(TRUE, m) : m \in Markets} \cup {FirstIf(FALSE, m) : m \in Pools}

\* All circuits there are, up to the length asked for, from the markets alone.
Circuits ==
    {p \in UNION {[1..n -> Tradable] : n \in 2..Depth} :
        /\ p[1].in = Src
        /\ \A i \in 2..Len(p) : p[i].out = Dest <=> i = Len(p)
        /\ Joined(p) /\ Distinct(p)}

Done == tasks = {} /\ looking = {}

\* No lookup of a denom that the path passes through has failed.
Spared(p) == \A i \in 1..(Len(p) - 1) : p[i].out \notin failed

\* A search has found every circuit with the required legs, but for the markets
\* it misreads, however the coroutines overtook each other at the cache.  A
\* lookup that failed spoils no circuit but those through its own denom.
FindsAllButMisread ==
    Done =>
        \A p \in Circuits :
            /\ HasRequired(p) /\ Spared(p)
            /\ \A i \in 1..(Len(p) - 1) : ~Misread(p[i], p[i + 1])
            => p \in found

\* What the coroutines have in hand: paths that start at src, join up except
\* perhaps at their last leg, and repeat no leg.
Sprout(p) ==
    /\ p \in Paths /\ Len(p) >= 1
    /\ p[1].in = Src
    /\ Distinct(p)
    /\ \A i \in 1..(Len(p) - 2) : Follows(p[i], p[i + 1])
    /\ Len(p) >= 2 =>
          LET k == p[Len(p) - 1]
          IN  Last(p).in # k.out => Last(p).market.chain # k.market.chain

CacheIsTrue == \A d \in Denoms : cache[d] \subseteq Elsewhere[d] \cup {d}

IInv ==
    /\ TypeOK /\ FoundAreCircuits /\ CacheHasPrevious /\ CacheIsTrue
    /\ \A p \in tasks : Sprout(p)
    /\ \A p \in looking : Sprout(p) /\ Joined(p)

\* Circuits the search is to find.
Sought ==
    {p \in Circuits :
        HasRequired(p) /\ \A i \in 1..(Len(p) - 1) : ~Misread(p[i], p[i + 1])}

\* A coroutine has still to go on with the first legs of p.
UnderWay(p) == \E i \in 1..Len(p) : SubSeq(p, 1, i) \in tasks \cup looking

\* Of an asset whose lookups were all answered the cache has all or nothing,
\* and each circuit sought that is spared is found or under way.
CacheIsWhole == \A d \in Denoms \ failed : cache[d] \in {{}, {d} \cup Elsewhere[d]}

NothingDropped ==
    /\ \A p \in looking : ~Closed(p)
    /\ CacheIsWhole
    /\ \A p \in Sought : Spared(p) => p \in found \/ UnderWay(p)
=============================================================================
