------------------------------- MODULE MCConsole -------------------------------
(***************************************************************************)
(* Console for TLC.  A script with keys in it is run with a guest that     *)
(* prints little, and the empty one with a guest that prints: the two      *)
(* directions meet only in the run loop's turns and the divisor latch,     *)
(* which both parts have.                                                  *)
(***************************************************************************)
EXTENDS Console

\* An escaped quit, an escaped escape and a plain quit; and an operator who types nothing.
MCScripts == {<<"ESCAPE", "QUIT", "KEY">>, <<"ESCAPE", "ESCAPE", "QUIT">>,
              <<"KEY", "QUIT", "KEY">>, <<>>}

KeysOrOutput == typed = <<>> \/ printed' <= 1 \/ Ended'

PartSpec == Init /\ [][Next /\ KeysOrOutput]_vars /\ Fairness
===============================================================================
