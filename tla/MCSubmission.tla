---------------------------- MODULE MCSubmission ----------------------------
(***************************************************************************)
(* Submission with two sealed operations and a rebuilt one.                *)
(***************************************************************************)
EXTENDS Submission

CONSTANTS transfer, batch, bid

MCSealed  == {transfer, batch}
MCRebuilt == {bid}
=============================================================================
