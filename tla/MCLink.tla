-------------------------------- MODULE MCLink --------------------------------
(* Link for TLC. *)
EXTENDS Link
===============================================================================
