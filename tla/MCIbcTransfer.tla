---------------------------- MODULE MCIbcTransfer ---------------------------
(***************************************************************************)
(* IbcTransfer with the timers of the code in steps of 5 s: 20 s and 5 s   *)
(* of polling, 600 s of packet life; a query may take 30 s and submitting  *)
(* the packet a minute.                                                    *)
(***************************************************************************)
EXTENDS IbcTransfer
=============================================================================
