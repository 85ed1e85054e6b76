-------------------------------- MODULE MCHart --------------------------------
(* Hart for TLC. *)
EXTENDS Hart
===============================================================================
