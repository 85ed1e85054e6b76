------------------------------- MODULE MCTether -------------------------------
(* Tether for TLC. *)
EXTENDS Tether
===============================================================================
