---------------------------- MODULE MCDiscovery ----------------------------
(***************************************************************************)
(* Discovery over two nodes, four pairs in pages of two, one of them       *)
(* malformed, and Osmosis pools three of which trade the same two denoms.  *)
(***************************************************************************)
EXTENDS Discovery

AllDenoms == {"ntrn", "usdc", "atom", "osmo"}

FourPairs == 1..4
FourAssets == <<<<"ntrn", "usdc">>, <<"<cw20>", "ntrn">>, <<"atom", "ntrn">>,
                <<"atom", "usdc">>>>
MalformedPairs == {2}

SomePools == <<<<"osmo", "atom">>, <<"osmo">>, <<"atom", "osmo">>,
               <<"osmo", "atom">>>>
PoolsOfFile == <<<<"osmo", "usdc">>, <<"usdc", "osmo">>>>

SomeAuctions == {<<"ntrn", "usdc">>, <<"usdc", "ntrn">>}
AuctionsOfFile == {<<"usdc", "ntrn">>}
=============================================================================
