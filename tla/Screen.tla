-------------------------------- MODULE Screen --------------------------------
(***************************************************************************)
(* The badge's screen (badge/app/src/oled.rs): the character grid that     *)
(* decides what is shown, and the sink that catches the display up.        *)
(*                                                                         *)
(* Bytes are reduced to the classes Grid::put tells apart.  "a" stands for *)
(* every printable byte that ends a CSI sequence, "0" for one that does    *)
(* not, "[" is itself: printable, opening after ESC, final inside a CSI.   *)
(***************************************************************************)
EXTENDS Integers, Sequences, SequencesExt

CONSTANTS COLS, ROWS, TAB, ALERT_AFTER,
          HEARTBEAT,     \* phases of the spinner
          Alphabet,      \* bytes the guest prints
          MaxLines,      \* bound on the lines of paper
          MaxStreak      \* failed draws in a row told apart

ASSUME ScreenAssumption == /\ COLS \in Nat \ {0} /\ ROWS \in Nat \ {0} /\ TAB \in Nat \ {0}
                           /\ MaxStreak \in Nat /\ ALERT_AFTER \in 1 .. MaxStreak - 1
                           /\ HEARTBEAT \in Nat \ {0}
                           /\ MaxLines \in Nat

VARIABLES cells, row, col, dirty, esc,      \* Grid
          pending, beat, heartbeat, streak, \* OledSink
          current,   \* does the panel show exactly frame()? (auxiliary)
          alerts,    \* bars painted in the present outage (auxiliary)
          paper, pen \* the endless paper of the same text and the pen on it (auxiliary)

gridVars == <<cells, row, col, dirty, esc>>
sinkVars == <<pending, beat, heartbeat, streak>>
paperVars == <<paper, pen>>
screenVars == <<gridVars, sinkVars, current, alerts, paperVars>>

Blank == " "
Graphic == {"a", "0", "[", Blank}
Final == {"a", "["}
BlankRow == [c \in 0 .. COLS - 1 |-> Blank]

\* What the cursor and the cells become, as one value.
Sheet(cs, r, c) == [cells |-> cs, row |-> r, col |-> c]

-------------------------------------------------------------------------------
(* The grid. *)

\* Mutant: the last row is not cleared when the grid scrolls.
newline_unclear(g) ==
    IF g.row + 1 < ROWS THEN [g EXCEPT !.row = @ + 1]
    ELSE [g EXCEPT !.cells = [r \in 0 .. ROWS - 1 |-> g.cells[(r + 1) % ROWS]]]

newline(g) ==
    IF g.row + 1 < ROWS THEN [g EXCEPT !.row = @ + 1]
    ELSE [g EXCEPT !.cells = [r \in 0 .. ROWS - 1 |->
                                IF r = ROWS - 1 THEN BlankRow ELSE g.cells[r + 1]]]

\* The wrap is deferred: a full row leaves the cursor at COLS.
write(g, b) ==
    LET w == IF g.col = COLS THEN newline([g EXCEPT !.col = 0]) ELSE g
    IN  [w EXCEPT !.cells[w.row][w.col] = b, !.col = @ + 1]

\* Spaces up to the next tab stop, cut at the edge.
tab_stop(c) == LET stop == (c \div TAB + 1) * TAB IN IF stop < COLS THEN stop ELSE COLS
tab(g) == FoldLeft(LAMBDA h, i : write(h, Blank), g, [i \in 1 .. tab_stop(g.col) - g.col |-> i])

put_ground(g, b) ==
    CASE b = "nl" -> newline([g EXCEPT !.col = 0])
      [] b = "cr" -> [g EXCEPT !.col = 0]
      [] b = "bs" -> [g EXCEPT !.col = IF @ = 0 THEN 0 ELSE @ - 1]
      [] b = "tab" -> tab(g)
      [] b \in Graphic -> write(g, b)
      [] OTHER -> g

esc_after(b) ==
    CASE esc = "Seen" -> IF b = "[" THEN "Csi" ELSE "Ground"
      [] esc = "Csi" -> IF b \in Final THEN "Ground" ELSE "Csi"
      [] OTHER -> IF b = "esc" THEN "Seen" ELSE "Ground"

PutGrid(b) ==
    LET g == IF esc = "Ground" THEN put_ground(Sheet(cells, row, col), b)
                               ELSE Sheet(cells, row, col)
    IN  /\ cells' = g.cells /\ row' = g.row /\ col' = g.col
        /\ esc' = esc_after(b)
        /\ dirty' = TRUE

-------------------------------------------------------------------------------
(***************************************************************************)
(* The endless paper.  It takes the text that is left when the escape      *)
(* sequences are cut out, has no bottom and so never scrolls, and a pen    *)
(* that writes past the right edge goes on at the start of the next line.  *)
(***************************************************************************)
EmptyPaper == << BlankRow >>
Longer(p, n) == IF n < Len(p) THEN p ELSE Append(p, BlankRow)
Mark(s, b) == LET at == IF s.pen.x = COLS THEN [y |-> s.pen.y + 1, x |-> 0] ELSE s.pen
                  p == Longer(s.paper, at.y)
              IN  [paper |-> [p EXCEPT ![at.y + 1][at.x] = b], pen |-> [at EXCEPT !.x = @ + 1]]
Marked(s, b) ==
    CASE b = "nl" -> [paper |-> Longer(s.paper, s.pen.y + 1), pen |-> [y |-> s.pen.y + 1, x |-> 0]]
      [] b = "cr" -> [s EXCEPT !.pen.x = 0]
      [] b = "bs" -> [s EXCEPT !.pen.x = IF @ > 0 THEN @ - 1 ELSE 0]
      [] b = "tab" -> LET n == CHOOSE k \in 0 .. TAB : \/ s.pen.x + k = COLS
                                                       \/ k > 0 /\ s.pen.x + k < COLS
                                                                /\ (s.pen.x + k) % TAB = 0
                      IN  FoldLeft(LAMBDA t, i : Mark(t, Blank), s, [i \in 1 .. n |-> i])
      [] b \in Graphic -> Mark(s, b)
      [] OTHER -> s

PutPaper(b) == LET s == IF esc = "Ground" THEN Marked([paper |-> paper, pen |-> pen], b)
                                          ELSE [paper |-> paper, pen |-> pen]
               IN  paper' = s.paper /\ pen' = s.pen

-------------------------------------------------------------------------------
(* The sink. *)

\* frame: the spinner is laid over the last cell if that is blank.
LastCell == cells[ROWS - 1][COLS - 1]
frame == [text |-> cells, spinner |-> IF heartbeat /\ LastCell = Blank THEN beat ELSE -1]
Unless(changed) == current' = (current /\ ~changed)

PutByte(b) == /\ PutGrid(b)
              /\ PutPaper(b)
              /\ Len(paper') <= MaxLines
              /\ UNCHANGED <<sinkVars, alerts>>
              /\ Unless(frame' # frame)

\* Mutant: a frame owed by a tick or by a draw that failed is not drawn.
Owed_dirty == dirty

Owed == dirty \/ pending

\* The panel takes the frame, or keeps what it showed; alert paints the bars over it.
draw(ok) == current' = (ok \/ current)
alert == current' = FALSE

\* flush, when the draw works.
FlushDraws == /\ Owed
              /\ dirty' = FALSE /\ pending' = FALSE
              /\ streak' = 0 /\ alerts' = 0
              /\ draw(TRUE)
              /\ UNCHANGED <<cells, row, col, esc, beat, heartbeat, paperVars>>

\* Mutant: the bars are painted again by every draw that fails from the ALERT_AFTERth on.
AlertDue_again(n) == n >= ALERT_AFTER

AlertDue(n) == n = ALERT_AFTER

\* flush, when it fails: the frame stays owed; at ALERT_AFTER the bars are painted.
FlushFails == /\ Owed
              /\ dirty' = FALSE /\ pending' = TRUE
              /\ streak' = IF streak < MaxStreak THEN streak + 1 ELSE streak
              /\ \/ AlertDue(streak + 1) /\ alert /\ alerts' = (alerts + 1) % 4
                 \/ ~AlertDue(streak + 1) /\ draw(FALSE) /\ alerts' = alerts
              /\ UNCHANGED <<cells, row, col, esc, beat, heartbeat, paperVars>>

\* flush, when nothing changed since the last frame.
FlushIdle == ~Owed /\ UNCHANGED screenVars

Tick == /\ beat' = (beat + 1) % HEARTBEAT
        /\ pending' = TRUE
        /\ UNCHANGED <<gridVars, heartbeat, streak, alerts, paperVars>>
        /\ Unless(frame' # frame)

SetHeartbeat(on) == /\ heartbeat' = on
                    /\ pending' = TRUE
                    /\ UNCHANGED <<gridVars, beat, streak, alerts, paperVars>>
                    /\ Unless(frame' # frame)

(***************************************************************************)
(* with_screen: what the grid holds is drawn before it returns, or owed.   *)
(* The grid starts blank.  Grid::new's banner is two lines put through the *)
(* same write_str as any text: here, one of the texts that may come first. *)
(***************************************************************************)
ScreenInit ==
    /\ cells = [r \in 0 .. ROWS - 1 |-> BlankRow]
    /\ row = 0 /\ col = 0 /\ esc = "Ground" /\ dirty = FALSE
    /\ beat = 0 /\ heartbeat = TRUE
    /\ paper = EmptyPaper /\ pen = [y |-> 0, x |-> 0]
    /\ \/ pending = FALSE /\ streak = 0 /\ current = TRUE
       \/ pending = TRUE /\ streak = 1 /\ current = FALSE
    /\ alerts = IF AlertDue(streak) THEN 1 ELSE 0

Flush == FlushDraws \/ FlushFails \/ FlushIdle
SinkStep == Flush \/ Tick \/ \E on \in BOOLEAN : SetHeartbeat(on)

ScreenNext == SinkStep \/ \E b \in Alphabet : PutByte(b)
ScreenSpec == ScreenInit /\ [][ScreenNext]_screenVars
-------------------------------------------------------------------------------
(* Properties. *)

(***************************************************************************)
(* The grid is the bottom of the paper: whatever wraps, scrolls, tabs,     *)
(* backspaces and escape sequences came, cut anywhere, each cell holds     *)
(* what an endless terminal would show there, and the cursor is where its  *)
(* pen is.  A deferred wrap costs no blank row.                            *)
(***************************************************************************)
GridIsTheBottomOfThePaper ==
    LET top == IF Len(paper) > ROWS THEN Len(paper) - ROWS ELSE 0
    IN  /\ row + top = pen.y /\ col = pen.x
        /\ \A r \in 0 .. ROWS - 1 :
             cells[r] = IF top + r + 1 <= Len(paper) THEN paper[top + r + 1] ELSE BlankRow

(***************************************************************************)
(* The bars are painted exactly once in an outage, when its ALERT_AFTERth  *)
(* draw fails, and a panel that does not show the present frame has a      *)
(* frame owed, so the next flush will not skip it.                         *)
(***************************************************************************)
OutageIsFlagged == /\ alerts = IF streak >= ALERT_AFTER THEN 1 ELSE 0
                   /\ current \/ dirty \/ pending

(***************************************************************************)
(* The panel catches up with the text: a failed draw is drawn again until  *)
(* one works, bars and spinner included, provided the run loop goes on     *)
(* flushing and not every draw fails.                                      *)
(***************************************************************************)
PanelCatchesUp == ~current ~> current
===============================================================================
