---------------------------- MODULE MCBpmpXfer ----------------------------
(* BpmpXfer with small bounds. *)
EXTENDS BpmpXfer
=============================================================================
