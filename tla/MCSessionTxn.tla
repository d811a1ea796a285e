---------------------------- MODULE MCSessionTxn ----------------------------
(* Instances of SessionTxn for TLC.                                         *)
EXTENDS SessionTxn
=============================================================================
