----------------------------- MODULE MCPlanner -----------------------------
(***************************************************************************)
(* Planner with a backstop of 2 and a cap of one half, small enough that   *)
(* the search halves up to three times, hits the backstop on either side   *)
(* of it, and meets the cap from both sides.                               *)
(***************************************************************************)
EXTENDS Planner

MCStarts == {-1, 1, 2, 3, 5, 8}

\* A price from 2 down to 1/2 over three blocks: the rates are 1/2, 1 and 2
\* while the auction runs, -2 two blocks past its end, and none in between.
MCBooks ==
    {[started |-> s, start_price |-> 4, end_price |-> 1,
      start_block |-> 10, end_block |-> 13] : s \in BOOLEAN}
MCHeights == {0, 10, 12, 13, 14, 15}

MCQuotes == {0, 1, 3, 4, 8}
=============================================================================
