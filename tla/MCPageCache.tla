----------------------------- MODULE MCPageCache -----------------------------
(***************************************************************************)
(* PageCache for TLC, with the loop of select_victim written out step by   *)
(* step as a reference for the closed form the specification uses.         *)
(***************************************************************************)
EXTENDS PageCache

\* One turn of the loop: [hand, frames, pick], pick = 0 while nothing is chosen.
Turn(s) ==
    LET i == s.hand
        on == [s EXCEPT !.hand = (i % Len(frames)) + 1]
    IN  IF s.pick # 0 THEN s
        ELSE IF s.fs[i].pinned THEN on
        ELSE IF s.fs[i].referenced THEN [on EXCEPT !.fs[i].referenced = FALSE]
        ELSE [on EXCEPT !.pick = i]

RECURSIVE Turns(_, _)
Turns(s, k) == IF k = 0 THEN s ELSE Turns(Turn(s), k - 1)

VictimLoop == Turns([hand |-> hand, fs |-> frames, pick |-> 0], 2 * Len(frames))

(***************************************************************************)
(* The sweep of the specification is the sweep of the source: for every    *)
(* reachable full cache, the two laps of the loop end at the same frame    *)
(* with the same hand and the same reference bits, and the code after the  *)
(* loop is reached only when every frame is pinned.                        *)
(***************************************************************************)
SweepIsTheLoop ==
    Len(frames) = Capacity =>
      IF Unpinned = {} THEN VictimLoop.pick = 0
      ELSE VictimLoop = [hand |-> HandAfter(Stop), fs |-> AgedFrames, pick |-> select_victim]
=============================================================================
