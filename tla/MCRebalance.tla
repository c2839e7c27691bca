----------------------------- MODULE MCRebalance ----------------------------
EXTENDS Rebalance

\* a and b are on chain 1, oa and ob are the same on chain 2.  b is sold where it
\* is, a through b and over chain 2.
MCChains == <<1, 2>>
MCChainOf == [d \in Denoms |-> IF d \in {"a", "b"} THEN 1 ELSE 2]
B(d1, d2) == [in |-> d1, out |-> d2]
MCRoutes == {<<B("a", "b"), B("ob", "base")>>, <<B("b", "base")>>, <<B("ob", "base")>>}
MCWallets == {[base |-> 1, a |-> 1, b |-> 1, oa |-> 0, ob |-> 0],
              [base |-> 1, a |-> 2, b |-> 0, oa |-> 0, ob |-> 0]}
=============================================================================
