---------------------------- MODULE MCRouteSearch ---------------------------
(***************************************************************************)
(* RouteSearch on two chains: USDC, ATOM and OSMO on Neutron, the last two *)
(* on Osmosis.  Routes are circuits of USDC; some return from Osmosis by a *)
(* market the search reads the right way round, some by one it does not.   *)
(***************************************************************************)
EXTENDS RouteSearch

CONSTANTS usdc, atom, osmo, atomOsmosis, osmoOsmosis, neutron, osmosis

MCDenoms == {usdc, atom, osmo, atomOsmosis, osmoOsmosis}

MCElsewhere ==
    [d \in MCDenoms |-> CASE d = atom -> {atomOsmosis} [] d = atomOsmosis -> {atom}
                          [] d = osmo -> {osmoOsmosis} [] d = osmoOsmosis -> {osmo}
                          [] OTHER -> {}]

Market(c, x, y, k) == [chain |-> c, a |-> x, b |-> y, kind |-> k]

MCPools == {
    Market(neutron, atom, usdc, "astroport"),
    Market(neutron, usdc, osmo, "astroport"),
    Market(osmosis, atomOsmosis, osmoOsmosis, "osmosis")}

MCAuctions == {
    Market(neutron, usdc, atom, "auction"),
    Market(neutron, osmo, usdc, "auction")}

MCAuctionOnly == {"auction"}
=============================================================================
