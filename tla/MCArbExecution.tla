--------------------------- MODULE MCArbExecution ---------------------------
(***************************************************************************)
(* ArbExecution on every route of up to MCMaxLegs legs over three chains.  *)
(***************************************************************************)
EXTENDS ArbExecution

CONSTANTS neutron, osmosis, juno

MCChains  == {neutron, osmosis, juno}
MCProfits == {-1, 0, 1}
=============================================================================
