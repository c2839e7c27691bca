--------------------------- MODULE MCOrderHistory ---------------------------
(***************************************************************************)
(* OrderHistory with room for four orders and a limit of two.              *)
(***************************************************************************)
EXTENDS OrderHistory
=============================================================================
