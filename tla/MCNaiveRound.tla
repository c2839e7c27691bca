---------------------------- MODULE MCNaiveRound ----------------------------
(* An instance of NaiveRound for TLC.                                      *)
EXTENDS NaiveRound

Auction == [chain |-> "neutron", fee |-> 2, charge |-> 1]
Astroport == [chain |-> "neutron", fee |-> 0, charge |-> 0]
Osmosis == [chain |-> "osmosis", fee |-> 0, charge |-> 0]

\* The first route is charged less than foreseen, the second more.
SmallRoutes == {<<Auction, Astroport>>, <<Astroport, Osmosis, Astroport>>}

SmallGains == {-1}
SmallSales == {-1, 1}
=============================================================================
