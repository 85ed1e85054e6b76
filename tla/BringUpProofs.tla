----------------------------- MODULE BringUpProofs -----------------------------
(***************************************************************************)
(* What holds of the screen, the start-up, the boot in one process and the *)
(* terminal for every size, limit, guest and setting.                      *)
(***************************************************************************)
EXTENDS Screen, Startup, HostRun, Terminal, SequenceTheorems, WellFoundedInduction,
        TLAPS

-------------------------------------------------------------------------------
(* The screen. *)

SinkType == /\ streak \in 0 .. MaxStreak
            /\ current \in BOOLEAN /\ dirty \in BOOLEAN /\ pending \in BOOLEAN
SinkInv == SinkType /\ OutageIsFlagged

LEMMA ScreenInitOK == ScreenInit => SinkInv
  <1> SUFFICES ASSUME ScreenInit PROVE SinkInv
      OBVIOUS
  <1>1. streak \in {0, 1} /\ alerts = IF streak = ALERT_AFTER THEN 1 ELSE 0
        BY DEF ScreenInit, AlertDue
  <1>2. streak \in 0 .. MaxStreak /\ alerts = IF streak >= ALERT_AFTER THEN 1 ELSE 0
        BY <1>1, ScreenAssumption DEF ScreenAssumption
  <1>3. /\ dirty \in BOOLEAN /\ pending \in BOOLEAN /\ current \in BOOLEAN
        /\ current \/ dirty \/ pending
        BY Zenon DEF ScreenInit
  <1> QED
        BY <1>2, <1>3, Zenon DEF SinkInv, SinkType, OutageIsFlagged

LEMMA ScreenStepOK == SinkInv /\ [ScreenNext]_screenVars => SinkInv'
  <1> SUFFICES ASSUME SinkInv, [ScreenNext]_screenVars PROVE SinkInv'
      OBVIOUS
  <1> USE DEF SinkInv, SinkType, OutageIsFlagged, ScreenAssumption
  <1>1. CASE FlushDraws
    <2>1. streak' = 0 /\ alerts' = 0
          BY <1>1 DEF FlushDraws
    <2>2. streak' \in 0 .. MaxStreak /\ alerts' = IF streak' >= ALERT_AFTER THEN 1 ELSE 0
          BY <2>1, ScreenAssumption
    <2>3. dirty' = FALSE /\ pending' = FALSE /\ current' = TRUE
          BY <1>1, Zenon DEF FlushDraws, draw
    <2> QED
          BY <2>2, <2>3, Zenon
  <1>2. CASE FlushFails
    <2>1. streak' \in 0 .. MaxStreak /\ dirty' = FALSE /\ pending' = TRUE
          BY <1>2, ScreenAssumption DEF FlushFails
    <2>2. CASE AlertDue(streak + 1)
      <3>1. streak + 1 = ALERT_AFTER /\ streak' = streak + 1
            BY <1>2, <2>2, ScreenAssumption DEF FlushFails, AlertDue
      <3>2. alerts' = (alerts + 1) % 4 /\ current' = FALSE
            BY <1>2, <2>2 DEF FlushFails, alert
      <3>3. alerts = 0
            BY <3>1, ScreenAssumption
      <3>4. alerts' = IF streak' >= ALERT_AFTER THEN 1 ELSE 0
            BY <3>1, <3>2, <3>3, ScreenAssumption
      <3> QED
            BY <2>1, <3>2, <3>4, Zenon
    <2>3. CASE ~AlertDue(streak + 1)
      <3>1. alerts' = alerts /\ current' = (FALSE \/ current)
            BY <1>2, <2>3 DEF FlushFails, draw
      <3>2. streak >= ALERT_AFTER <=> streak' >= ALERT_AFTER
            BY <1>2, <2>3, ScreenAssumption DEF FlushFails, AlertDue
      <3> QED
            BY <2>1, <3>1, <3>2, Zenon
    <2> QED
          BY <2>2, <2>3
  <1>3. CASE FlushIdle
        BY <1>3 DEF FlushIdle, screenVars, gridVars, sinkVars
  <1>4. CASE Tick
        BY <1>4 DEF Tick, Unless, gridVars
  <1>5. ASSUME NEW on \in BOOLEAN, SetHeartbeat(on) PROVE SinkInv'
        BY <1>5 DEF SetHeartbeat, Unless, gridVars
  <1>6. ASSUME NEW b \in Alphabet, PutByte(b) PROVE SinkInv'
        BY <1>6 DEF PutByte, PutGrid, Unless, sinkVars
  <1>7. CASE UNCHANGED screenVars
        BY <1>7 DEF screenVars, gridVars, sinkVars
  <1> QED
        BY <1>1, <1>2, <1>3, <1>4, <1>5, <1>6, <1>7 DEF ScreenNext, SinkStep, Flush

(***************************************************************************)
(* However draws fail and succeed, OledSink paints the bars exactly once   *)
(* in an outage, and a panel that is behind has a frame owed.              *)
(***************************************************************************)
THEOREM OutagesAreFlagged == ScreenSpec => []OutageIsFlagged
  <1>1. ScreenInit => SinkInv
        BY ScreenInitOK
  <1>2. SinkInv /\ [ScreenNext]_screenVars => SinkInv'
        BY ScreenStepOK
  <1>3. SinkInv => OutageIsFlagged
        BY DEF SinkInv
  <1> QED
        BY <1>1, <1>2, <1>3, PTL DEF ScreenSpec

-------------------------------------------------------------------------------
(* The start-up. *)

Wait == [attempts : Nat, elapsed_ms : Nat]
Dep == [name : Servers, ok : BOOLEAN, waited : Wait]
Early == {"tt", "names", "gfx"}
Late == {"usb", "mirror", "link", "boot", "run"}

StartupType == waited \in Wait /\ deps \in Seq(Dep)
LineOK == stage \in DOMAIN StageLine => line = StageLine[stage]

\* The report so far: the ticktimer, then the log server.
Reported == /\ Len(deps) \in 0 .. 2
            /\ Len(deps) >= 1 => deps[1].name = "tt" /\ deps[1].ok = TRUE /\ "tt" \in up
            /\ Len(deps) = 2 => /\ deps[2].name = "log"
                                /\ deps[2].ok = TRUE => "log" \in up

\* Which stage has come to which part of it.
Staged == /\ stage \in Early => Len(deps) = 0
          /\ stage = "log" => Len(deps) = 1
          /\ stage \in Late => Len(deps) = 2
          /\ stage \in {"names", "gfx"} => "tt" \in up
          /\ stage = "tt" => line = "dark"
StartupInv == StartupType /\ LineOK /\ Reported /\ Staged

LEMMA ProbedType == waited \in Wait => Probed \in Wait
  BY StartupAssumption DEF Wait, Probed, StartupAssumption

LEMMA StartupInitOK == StartupInit => StartupInv
  BY DEF StartupInit, StartupInv, StartupType, LineOK, Reported, Staged, StageLine, Wait, Fresh,
         Early, Late

\* What the log wait leaves in the report.
LEMMA LogRecorded ==
  ASSUME StartupInv, stage = "log", up' = up,
         NEW ok \in BOOLEAN, record("log", ok), ok => "log" \in up
  PROVE  deps' \in Seq(Dep) /\ Reported' /\ Len(deps') = 2
  <1>1. deps \in Seq(Dep) /\ Len(deps) = 1
        BY DEF StartupInv, StartupType, Staged
  <1>2. PICK d \in Dep : deps' = Append(deps, d) /\ d.name = "log" /\ d.ok = ok
        BY ProbedType DEF StartupInv, StartupType, record, Dep, Servers
  <1>3. /\ Append(deps, d) \in Seq(Dep) /\ Len(Append(deps, d)) = Len(deps) + 1
        /\ \A i \in 1 .. Len(deps) : Append(deps, d)[i] = deps[i]
        /\ Append(deps, d)[Len(deps) + 1] = d
    <2>1. deps \in Seq(Dep)
          BY <1>1
    <2>2. d \in Dep
          BY <1>2
    <2>3. Append(deps, d) \in Seq(Dep)
          BY <2>1, <2>2
    <2> QED
          BY <2>1, <2>2, AppendProperties
  <1>4. deps' \in Seq(Dep) /\ Len(deps') = 2 /\ deps'[1] = deps[1] /\ deps'[2] = d
        BY <1>1, <1>2, <1>3
  <1> QED
        BY <1>1, <1>2, <1>4 DEF StartupInv, Reported

LEMMA StartupStepOK == StartupInv /\ [StartupNext]_startupVars => StartupInv'
  <1> SUFFICES ASSUME StartupInv, [StartupNext]_startupVars PROVE StartupInv'
      OBVIOUS
  <1>a. Probed \in Wait
        BY ProbedType DEF StartupInv, StartupType
  <1> USE DEF StartupInv
  <1>1. CASE WaitForTicktimer
    <2>1. StartupType' /\ up' = up /\ deps' = deps /\ line' = line /\ stage = "tt"
          BY <1>1, <1>a DEF WaitForTicktimer, StartupType, Yield
    <2>2. stage' \in {"names", "parked", "dead", "tt"} /\ (stage' = "names" => "tt" \in up)
          BY <1>1 DEF WaitForTicktimer, stop, park_forever, Yield
    <2> QED
          BY <2>1, <2>2 DEF LineOK, Reported, Staged, StageLine, Early, Late
  <1>2. CASE ConnectNames
        BY <1>2 DEF ConnectNames, StartupType, LineOK, Reported, Staged, StageLine, Early, Late
  <1>3. CASE OpenScreen
    <2>1. stage = "gfx" /\ up' = up /\ Len(deps) = 0 /\ "tt" \in up
          BY <1>3 DEF OpenScreen, Staged, Early
    <2>2. CASE stop("NoScreen", TRUE) /\ UNCHANGED <<waited, advances, deps, line>>
      <3>1. stage' = "parked"
            BY <2>1, <2>2 DEF stop, park_forever
      <3> QED
            BY <2>1, <2>2, <3>1 DEF StartupType, LineOK, Reported, Staged, StageLine, Early, Late
    <2>3. CASE /\ deps' = << [name |-> "tt", ok |-> TRUE, waited |-> waited] >>
               /\ waited' = Fresh /\ line' = "log..." /\ stage' = "log"
      <3> DEFINE d == [name |-> "tt", ok |-> TRUE, waited |-> waited]
      <3>1. d \in Dep /\ d.name = "tt" /\ d.ok = TRUE
            BY DEF StartupType, Dep, Servers
      <3>2. deps' = << d >>
            BY <2>3
      <3> HIDE DEF d
      <3>3. deps' \in Seq(Dep) /\ Len(deps') = 1 /\ deps'[1] = d
            BY <3>1, <3>2
      <3>4. waited' \in Wait
            BY <2>3 DEF Fresh, Wait
      <3>5. Reported' /\ Staged'
            BY <2>1, <2>3, <3>1, <3>3 DEF Reported, Staged, Early, Late
      <3> QED
            BY <2>3, <3>3, <3>4, <3>5 DEF StartupType, LineOK, StageLine
    <2> QED
          BY <1>3, <2>2, <2>3 DEF OpenScreen
  <1>4. CASE WaitForLog
    <2>1. stage = "log" /\ up' = up
          BY <1>4 DEF WaitForLog
    <2>2. ASSUME NEW ok \in BOOLEAN, record("log", ok), ok => "log" \in up,
                 NoteUsb, stage' = "usb", waited' = Probed
          PROVE  StartupInv'
          BY <1>a, <2>1, <2>2, LogRecorded
             DEF StartupType, LineOK, Staged, StageLine, NoteUsb, Early, Late
    <2>3. CASE Sleep /\ UNCHANGED <<deps, line>>
      <3>1. waited' \in Wait
            BY <1>a, <2>3, StartupAssumption DEF Sleep, Wait, StartupAssumption
      <3>2. stage' \in {"log", "dead"}
            BY <2>1, <2>3 DEF Sleep
      <3> QED
            BY <2>1, <2>3, <3>1, <3>2
               DEF StartupType, LineOK, Reported, Staged, StageLine, Early, Late
    <2> QED
          BY <1>4, <2>2, <2>3 DEF WaitForLog
  <1>5. CASE OpenUsb
        BY <1>5 DEF OpenUsb, StartupType, LineOK, Reported, Staged, StageLine, Early, Late
  <1>6. CASE hook_panic_mirror
        BY <1>6 DEF hook_panic_mirror, StartupType, LineOK, Reported, Staged, StageLine, Early, Late
  <1>7. CASE OpenTransport
        BY <1>7 DEF OpenTransport, StartupType, LineOK, Reported, Staged, StageLine, Early, Late
  <1>8. CASE Assemble
    <2>1. stage' \in {"run", "parked", "dead"} /\ stage = "boot"
          BY <1>8 DEF Assemble, stop, park_forever
    <2> QED
          BY <1>8, <2>1 DEF Assemble, StartupType, LineOK, Reported, Staged, StageLine, Early, Late
  <1>9. ASSUME NEW s \in Servers, Register(s) PROVE StartupInv'
        BY <1>9 DEF Register, StartupType, LineOK, Reported, Staged
  <1>10. CASE UNCHANGED startupVars
        BY <1>10 DEF startupVars, StartupType, LineOK, Reported, Staged
  <1> QED
        BY <1>1, <1>2, <1>3, <1>4, <1>5, <1>6, <1>7, <1>8, <1>9, <1>10 DEF StartupNext, Main

\* The first that is missing can only be the log server.
LEMMA MissingIsLog == StartupInv => missing \in {"none", "log"} /\ (missing # "none" => Len(deps) = 2)
  <1> SUFFICES ASSUME StartupInv
               PROVE  missing \in {"none", "log"} /\ (missing # "none" => Len(deps) = 2)
      OBVIOUS
  <1> DEFINE m == {i \in 1 .. Len(deps) : ~deps[i].ok}
  <1>1. m \subseteq {2} /\ (m # {} => Len(deps) = 2)
        BY DEF StartupInv, Reported
  <1>2. m # {} => (CHOOSE i \in m : \A j \in m : i <= j) = 2
        BY <1>1
  <1>3. m # {} => deps[2].name = "log"
        BY <1>1 DEF StartupInv, Reported
  <1>4. missing = IF m = {} THEN "none" ELSE deps[CHOOSE i \in m : \A j \in m : i <= j].name
        BY DEF missing
  <1> HIDE DEF m
  <1> QED
        BY <1>1, <1>2, <1>3, <1>4

LEMMA StartupInvImplies == StartupInv => StuckIsNamed
  <1> SUFFICES ASSUME StartupInv PROVE StuckIsNamed
      OBVIOUS
  <1>1. missing # "none" => missing = "log" /\ stage \notin Early
        BY MissingIsLog DEF StartupInv, Staged
  <1>2. \A i \in 1 .. Len(deps) : deps[i].ok => deps[i].name \in up
        BY DEF StartupInv, StartupType, Reported, Dep
  <1> QED
        BY <1>1, <1>2 DEF StartupInv, LineOK, StuckIsNamed, Early

(***************************************************************************)
(* Whichever servers come and when, main's last line on the screen names   *)
(* the call it is in, and the report names the first server that is        *)
(* missing and none as up that is not.                                     *)
(***************************************************************************)
THEOREM CallsAreNamed == StartupSpec => []StuckIsNamed
  <1> QED
      BY StartupInitOK, StartupStepOK, StartupInvImplies, PTL DEF StartupSpec

-------------------------------------------------------------------------------
(* The terminal. *)

Tty == SUBSET Flags
TerminalType == /\ port \in Tty \cup {Pipe} /\ stdin \in Tty \cup {Pipe}
                /\ found \in Tty \cup {Pipe}
                /\ guard \in {"none", "held", "done"}

\* The guard tells how far the terminal is from what was found.
Guarded == /\ guard \in {"none", "done"} => stdin = found \/ unset \/ Restoring
           /\ guard = "held" => ~Restoring
           /\ main = "port" => key = "absent" /\ guard = "none" /\ stdin = found
           /\ main = "stdin" => key = "absent" /\ guard = "none" /\ stdin = found
           /\ main = "refused" => key = "absent" /\ guard = "none"
           /\ main = "out" => guard # "held"
           /\ key \in {"quit", "ended"} => guard # "held"
           /\ exited => guard # "held"

\* Raw mode as the operator sees it, and as the port needs it.
SameKind == /\ stdin = Pipe <=> found = Pipe
            /\ stdin # Pipe => ("opost" \in stdin <=> "opost" \in found)
PortRaw == main \notin {"port", "refused"} /\ port # Pipe => port = {"cs8"}
TerminalInv == TerminalType /\ Guarded /\ SameKind /\ PortRaw

LEMMA TtyIsNoPipe == Pipe \notin Tty
  BY DEF Pipe, Tty, Flags

LEMMA RawPort ==
  ASSUME NEW t \in Tty, NEW u \in tcsetattr(t, Requested(t, "Port")), Took(u, "Port")
  PROVE  u = {"cs8"}
  BY DEF Tty, tcsetattr, Took, Off, keep, Flags

\* A request for a raw console changes no output translation, whatever part of it is taken.
LEMMA RawConsole ==
  ASSUME NEW t \in Tty, NEW u \in tcsetattr(t, Requested(t, "Console"))
  PROVE  u \in Tty /\ ("opost" \in u <=> "opost" \in t)
  BY DEF Tty, tcsetattr, Requested, Off, keep, Flags

LEMMA TerminalInitOK == TerminalInit => TerminalInv
  <1> SUFFICES ASSUME TerminalInit PROVE TerminalInv
      OBVIOUS
  <1>1. TerminalType
        BY TerminalAssumption DEF TerminalInit, TerminalType, Tty, TerminalAssumption
  <1>2. Guarded
        BY DEF TerminalInit, Guarded
  <1> QED
        BY <1>1, <1>2 DEF TerminalInit, TerminalInv, SameKind, PortRaw

LEMMA TerminalStepOK == TerminalInv /\ [TerminalNext]_termVars => TerminalInv'
  <1> SUFFICES ASSUME TerminalInv, [TerminalNext]_termVars PROVE TerminalInv'
      OBVIOUS
  <1> USE DEF TerminalInv
  <1>1. CASE MakeRaw
    <2>1. /\ main = "port" /\ main' \in {"stdin", "refused"}
          /\ UNCHANGED <<stdin, found, guard, key, unset>>
          BY <1>1 DEF MakeRaw
    <2>2. port' \in Tty \cup {Pipe} /\ PortRaw'
      <3>1. CASE port = Pipe
            BY <1>1, <3>1 DEF MakeRaw, PortRaw, TerminalType
      <3>2. CASE port # Pipe
        <4>1. port \in Tty /\ port' \in tcsetattr(port, Requested(port, "Port"))
              BY <1>1, <3>2 DEF MakeRaw, TerminalType
        <4>2. port' \in Tty
              BY <4>1 DEF tcsetattr, Tty
        <4>3. Took(port', "Port") \/ main' = "refused"
              BY <1>1, <3>2 DEF MakeRaw
        <4> QED
              BY <4>1, <4>2, <4>3, RawPort DEF PortRaw
      <3> QED
            BY <3>1, <3>2
    <2> QED
          BY <2>1, <2>2 DEF TerminalType, Guarded, Restoring, SameKind
  <1>2. CASE NoInput
        BY <1>2 DEF NoInput, TerminalType, Guarded, Restoring, SameKind, PortRaw
  <1>3. CASE MakeRawConsole
    <2>1. /\ main = "stdin" /\ main' = "serving" /\ key' = "reading" /\ ~exited
          /\ guard = "none" /\ stdin = found /\ UNCHANGED <<port, found, exited>>
          BY <1>3 DEF MakeRawConsole, Guarded
    <2>2. PortRaw'
          BY <2>1 DEF PortRaw
    <2>3. CASE stdin = Pipe /\ UNCHANGED <<stdin, guard, unset>>
          BY <2>1, <2>2, <2>3 DEF TerminalType, Guarded, Restoring, SameKind
    <2>4. ASSUME stdin # Pipe, NEW u \in tcsetattr(stdin, Requested(stdin, "Console")),
                 \/ stdin' = u /\ guard' = "held"
                 \/ guard' = "none" /\ stdin' = found
                 \/ guard' = "none" /\ stdin' = u /\ unset' = TRUE
          PROVE  TerminalInv'
      <3>1. stdin \in Tty
            BY <2>4 DEF TerminalType
      <3>2. stdin' \in Tty /\ ("opost" \in stdin' <=> "opost" \in found)
            BY <2>1, <2>4, <3>1, RawConsole
      <3>3. TerminalType' /\ SameKind'
            BY <2>1, <2>4, <3>1, <3>2, TtyIsNoPipe DEF TerminalType, SameKind
      <3>4. Guarded'
            BY <2>1, <2>4 DEF Guarded, Restoring
      <3> QED
            BY <2>2, <3>3, <3>4
    <2> QED
          BY <1>3, <2>3, <2>4 DEF MakeRawConsole
  <1>4. CASE ServeReturns
        BY <1>4 DEF ServeReturns, TerminalType, Guarded, Restoring, SameKind, PortRaw
  <1>5. CASE KeysEnd
        BY <1>5 DEF KeysEnd, TerminalType, Guarded, Restoring, SameKind, PortRaw
  <1>6. CASE MainSwaps
        BY <1>6 DEF MainSwaps, Swap, TerminalType, Guarded, Restoring, SameKind, PortRaw
  <1>7. CASE MainSets
        BY <1>7 DEF MainSets, SetBack, TerminalType, Guarded, Restoring, SameKind, PortRaw
  <1>8. CASE KeySwaps
        BY <1>8 DEF KeySwaps, Swap, TerminalType, Guarded, Restoring, SameKind, PortRaw
  <1>9. CASE KeySets
        BY <1>9 DEF KeySets, SetBack, TerminalType, Guarded, Restoring, SameKind, PortRaw
  <1>10. CASE Exit
        BY <1>10 DEF Exit, TerminalType, Guarded, Restoring, SameKind, PortRaw
  <1>11. CASE UNCHANGED termVars
        BY <1>11 DEF termVars, TerminalType, Guarded, Restoring, SameKind, PortRaw
  <1> QED
        BY <1>1, <1>2, <1>3, <1>4, <1>5, <1>6, <1>7, <1>8, <1>9, <1>10, <1>11 DEF TerminalNext

(***************************************************************************)
(* Whichever thread ends serve, and whatever part of a request a terminal  *)
(* takes, the operator's terminal is put back or the system refused, or    *)
(* the other thread was just doing it; and no port is served that is not   *)
(* raw.                                                                    *)
(***************************************************************************)
THEOREM TerminalIsPutBack == TerminalSpec => []TerminalPutBack
  <1>1. TerminalInv => TerminalPutBack
        BY DEF TerminalInv, TerminalType, Guarded, SameKind, PortRaw, TerminalPutBack
  <1> QED
        BY TerminalInitOK, TerminalStepOK, <1>1, PTL DEF TerminalSpec

-------------------------------------------------------------------------------
(* The boot in one process. *)

RunType == /\ script \in GuestScripts /\ console \in Seq(Chars) /\ dead \in BOOLEAN
           /\ steps \in Nat /\ scanned \in Nat /\ ticks \in Nat
           /\ limit \in Nat /\ retired \in Nat /\ total \in Nat
           /\ loop \in {"boot", "slice", "poll", "over"}

\* Slices end at these counts, and at the cap.
Multiple(n) == \E k \in Nat : n = k * CONSOLE_POLL_INSNS

\* Where the loops are: no end has been passed, and a dead guest is noticed next.
Progress ==
    /\ ticks = steps
    /\ \A n \in 1 .. Len(script) : Ends(n) /\ n <= steps => dead /\ n = steps
    /\ dead => loop = "slice" /\ steps \in 1 .. Len(script) /\ script[steps] = "mtrap"
    /\ total <= cap /\ (total = cap \/ Multiple(total))
    /\ loop = "slice" => /\ Multiple(total) /\ total < cap
                         /\ limit = Lesser(CONSOLE_POLL_INSNS, cap - total)
                         /\ retired <= limit /\ steps = total + retired
    /\ loop # "slice" => steps = total
    /\ loop = "poll" => total > 0

\* No poll so far has seen the marker.
NotYet == \A n \in 1 .. total : PollAt(n) /\ (loop = "poll" => n < total) => ~MarkerIn(n)

\* Where the scan will not look again there is nothing to be found, whatever comes.
ScanOK ==
    /\ Marker = << >> => scanned = 0
    /\ \A i \in 1 .. scanned : /\ i + Len(Marker) - 1 <= Len(console)
                               /\ SubSeq(console, i, i + Len(Marker) - 1) # Marker

\* h tells which step printed each character of c.
Traces(h, c, n) ==
    /\ h \in [1 .. Len(c) -> PrintedBy(n)]
    /\ \A a, b \in 1 .. Len(c) : a < b => h[a] < h[b]
    /\ \A i \in PrintedBy(n) : \E a \in 1 .. Len(c) : i = h[a]
    /\ \A a \in 1 .. Len(c) : c[a] = script[h[a]]

ConsoleTrue == \E h : Traces(h, console, steps)

RunInv == /\ RunType /\ BootRunExact
          /\ loop # "over" => Progress /\ NotYet /\ ScanOK /\ ConsoleTrue

\* Every nonempty set of naturals has a least element.
LEMMA LeastNatural ==
  ASSUME NEW T \in SUBSET Nat, T # {}
  PROVE  \E x \in T : \A y \in T : x <= y
  <1>1. IsWellFoundedOn(OpToRel(<, Nat), Nat)
        BY NatLessThanWellFounded
  <1>2. PICK x \in T : \A y \in T : ~ (<<y, x>> \in OpToRel(<, Nat))
        BY <1>1, WFMin
  <1>3. \A y \in T : ~(y < x)
        BY <1>2 DEF OpToRel
  <1> QED
        BY <1>3

\* Between two multiples that follow each other there is none.
LEMMA NoMultipleBetween ==
  ASSUME NEW k \in Nat, NEW j \in Nat, NEW P \in Nat \ {0}, k * P < j * P
  PROVE  k * P + P <= j * P
  <1>1. PICK d \in Int : d = j - k
        OBVIOUS
  <1>2. j = k + d
        BY <1>1
  <1>3. j * P = k * P + d * P
        BY <1>2
  <1>4. CASE d <= 0
    <2>1. d * P <= 0
          BY <1>4
    <2> QED
          BY <1>3, <2>1
  <1>5. CASE d >= 1
    <2>1. d * P >= P
          BY <1>5
    <2> QED
          BY <1>3, <2>1
  <1> QED
        BY <1>4, <1>5

\* What a window of the console has to be.
LEMMA WindowIsMarker ==
  ASSUME NEW c \in Seq(Chars), NEW i \in Nat \ {0}, i + Len(Marker) - 1 <= Len(c)
  PROVE  SubSeq(c, i, i + Len(Marker) - 1) = Marker
            <=> \A k \in 1 .. Len(Marker) : c[i + k - 1] = Marker[k]
  <1>1. Marker \in Seq(Chars)
        BY HostRunAssumption
  <1>2. Len(Marker) \in Nat /\ Len(c) \in Nat
        BY <1>1, LenProperties
  <1> DEFINE w == SubSeq(c, i, i + Len(Marker) - 1)
  <1>3. \A j \in i .. i + Len(Marker) - 1 : j \in 1 .. Len(c)
        BY <1>2
  <1>4. \A j \in i .. i + Len(Marker) - 1 : c[j] \in Chars
        BY <1>3, ElementOfSeq
  <1>5. /\ w \in Seq(Chars)
        /\ Len(w) = Len(Marker)
        /\ \A k \in 1 .. Len(Marker) : w[k] = c[i + k - 1]
    <2>1. i + Len(Marker) - 1 \in Nat
          BY <1>2
    <2> QED
          BY <1>1, <1>2, <1>3, <1>4, <2>1
  <1> HIDE DEF w
  <1>6. w = Marker <=> \A k \in 1 .. Len(Marker) : w[k] = Marker[k]
        BY <1>1, <1>5, SeqEqual
  <1> QED
        BY <1>5, <1>6 DEF w

\* The marker is on the console exactly if it was printed in one piece.
LEMMA SeenIsPrinted ==
  ASSUME NEW c \in Seq(Chars), NEW n \in Nat, script \in GuestScripts,
         NEW h, Traces(h, c, n)
  PROVE  Occurs(c, 0) <=> MarkerIn(n)
  <1>1. PICK m \in Nat : m = Len(Marker)
        BY HostRunAssumption, LenProperties
  <1>2. PICK l \in Nat : l = Len(c)
        BY LenProperties
  <1>3. /\ h \in [1 .. l -> PrintedBy(n)]
        /\ \A a, b \in 1 .. l : a < b => h[a] < h[b]
        /\ \A i \in PrintedBy(n) : \E a \in 1 .. l : i = h[a]
        /\ \A a \in 1 .. l : c[a] = script[h[a]]
        BY <1>2 DEF Traces
  <1>4. PrintedBy(n) \subseteq Int
        BY DEF PrintedBy
  <1>5. \A a, b \in 1 .. l : h[a] < h[b] => a < b
    <2> SUFFICES ASSUME NEW a \in 1 .. l, NEW b \in 1 .. l, h[a] < h[b] PROVE a < b
        OBVIOUS
    <2>1. h[a] \in Int /\ h[b] \in Int
          BY <1>3, <1>4
    <2> QED
          BY <1>3, <2>1
  <1>6. ASSUME Occurs(c, 0) PROVE MarkerIn(n)
    <2>1. PICK i \in 1 .. l - m + 1 : SubSeq(c, i, i + m - 1) = Marker
      <3>1. PICK i \in 0 + 1 .. Len(c) - Len(Marker) + 1 :
               SubSeq(c, i, i + Len(Marker) - 1) = Marker
            BY <1>6 DEF Occurs
      <3>2. i \in 1 .. l - m + 1
            BY <1>1, <1>2, <3>1
      <3> QED
            BY <1>1, <1>2, <3>1, <3>2
    <2>2. i \in Nat \ {0} /\ i + m - 1 <= l
          BY <2>1
    <2>3. \A k \in 1 .. m : c[i + k - 1] = Marker[k]
          BY <1>1, <1>2, <2>1, <2>2, WindowIsMarker
    <2>4. \A k \in 1 .. m : i + k - 1 \in 1 .. l
          BY <2>2
    <2> DEFINE g == [k \in 1 .. m |-> h[i + k - 1]]
    <2>5. g \in [1 .. m -> PrintedBy(n)] /\ \A k \in 1 .. m : g[k] = h[i + k - 1]
          BY <1>3, <2>4
    <2> HIDE DEF g
    <2>6. \A k \in 1 .. m : script[g[k]] = Marker[k]
          BY <1>3, <2>3, <2>4, <2>5
    <2>7. ASSUME NEW k \in 1 .. m - 1
          PROVE  g[k] < g[k + 1] /\ \A q \in PrintedBy(n) : q <= g[k] \/ q >= g[k + 1]
      <3>1. /\ k \in 1 .. m /\ k + 1 \in 1 .. m /\ i + (k + 1) - 1 = i + k
            /\ i + k - 1 \in 1 .. l /\ i + k \in 1 .. l /\ i + k - 1 < i + k
            BY <2>2
      <3>2. g[k] = h[i + k - 1] /\ g[k + 1] = h[i + k]
            BY <2>5, <3>1
      <3>3. ASSUME NEW q \in PrintedBy(n) PROVE q <= g[k] \/ q >= g[k + 1]
        <4>1. PICK a \in 1 .. l : q = h[a]
              BY <1>3
        <4>2. a < i + k - 1 \/ a = i + k - 1 \/ a = i + k \/ i + k < a
              BY <3>1
        <4>3. q \in Int /\ g[k] \in Int /\ g[k + 1] \in Int
              BY <1>4, <2>5, <3>1
        <4> QED
              BY <1>3, <3>1, <3>2, <4>1, <4>2, <4>3
      <3> QED
            BY <1>3, <3>1, <3>2, <3>3
    <2> QED
          BY <1>1, <1>6, <2>5, <2>6, <2>7 DEF MarkerIn, Occurs
  <1>7. ASSUME MarkerIn(n) PROVE Occurs(c, 0)
    <2>1. /\ Marker # << >>
          /\ \E g \in [1 .. m -> PrintedBy(n)] :
               /\ \A k \in 1 .. m : script[g[k]] = Marker[k]
               /\ \A k \in 1 .. m - 1 :
                    g[k] < g[k + 1] /\ \A i \in PrintedBy(n) : i <= g[k] \/ i >= g[k + 1]
          BY <1>1, <1>7 DEF MarkerIn
    <2>2. PICK g \in [1 .. m -> PrintedBy(n)] :
               /\ \A k \in 1 .. m : script[g[k]] = Marker[k]
               /\ \A k \in 1 .. m - 1 :
                    g[k] < g[k + 1] /\ \A i \in PrintedBy(n) : i <= g[k] \/ i >= g[k + 1]
          BY <2>1
    <2>3. m > 0
          BY <1>1, <2>1, HostRunAssumption, EmptySeq
    <2>4. PICK i \in 1 .. l : g[1] = h[i]
          BY <1>3, <2>2, <2>3
    <2>5. \A k \in 1 .. m : i + k - 1 \in 1 .. l /\ g[k] = h[i + k - 1]
      <3> DEFINE T == {k \in 1 .. m : ~(i + k - 1 \in 1 .. l /\ g[k] = h[i + k - 1])}
      <3> SUFFICES ASSUME T # {} PROVE FALSE
          OBVIOUS
      <3>1. PICK k \in T : \A y \in T : k <= y
        <4>1. T \in SUBSET Nat
              OBVIOUS
        <4> QED
              BY <4>1, LeastNatural
      <3>2. k # 1
        <4>1. i + 1 - 1 = i
              OBVIOUS
        <4> QED
              BY <2>4, <3>1, <4>1
      <3>3. PICK p \in 1 .. m - 1 : k = p + 1
        <4>1. k - 1 \in 1 .. m - 1 /\ k = (k - 1) + 1
              BY <3>1, <3>2
        <4> QED
              BY <4>1
      <3>4. p \in 1 .. m /\ ~(k <= p) /\ i + k - 1 = i + p
            BY <3>3
      <3>5. i + p - 1 \in 1 .. l /\ g[p] = h[i + p - 1]
            BY <3>1, <3>4
      <3>6. g[k] \in PrintedBy(n)
            BY <2>2, <3>1
      <3>7. PICK b \in 1 .. l : g[k] = h[b]
            BY <1>3, <3>6
      <3>8. i + p - 1 < b
            BY <1>5, <2>2, <3>3, <3>5, <3>7
      <3>9. i + p \in 1 .. l /\ i + p - 1 < i + p /\ i + p <= b
            BY <3>5, <3>8
      <3>10. b = i + p
        <4> SUFFICES ASSUME i + p < b PROVE FALSE
            BY <3>9
        <4>1. h[i + p - 1] < h[i + p] /\ h[i + p] < h[b] /\ h[i + p] \in PrintedBy(n)
              BY <1>3, <3>5, <3>9
        <4>2. h[i + p] <= g[p] \/ h[i + p] >= g[k]
              BY <2>2, <3>3, <4>1
        <4>3. h[i + p - 1] \in Int /\ h[i + p] \in Int /\ h[b] \in Int
              BY <1>3, <1>4, <3>5, <3>9
        <4> QED
              BY <3>5, <3>7, <4>1, <4>2, <4>3
      <3> QED
            BY <3>1, <3>4, <3>7, <3>9, <3>10
    <2>6. i + m - 1 \in 1 .. l /\ i \in Nat \ {0}
          BY <2>3, <2>4, <2>5
    <2>7. \A k \in 1 .. m : c[i + k - 1] = Marker[k]
          BY <1>3, <2>2, <2>5
    <2>8. SubSeq(c, i, i + m - 1) = Marker
          BY <1>1, <1>2, <2>6, <2>7, WindowIsMarker
    <2>9. i \in 0 + 1 .. l - m + 1
          BY <2>6
    <2> QED
          BY <1>1, <1>2, <2>1, <2>8, <2>9 DEF Occurs
  <1> QED
        BY <1>6, <1>7

\* The first step that ends a run, if there is one.
LEMMA LastStepIs ==
  ASSUME script \in GuestScripts
  PROVE  /\ LastStep \in Nat /\ Len(script) \in Nat
         /\ \/ LastStep = cap + 1 /\ \A n \in 1 .. Len(script) : ~Ends(n)
            \/ /\ LastStep \in 1 .. Len(script) /\ Ends(LastStep)
               /\ \A n \in 1 .. Len(script) : Ends(n) => LastStep <= n
  <1> DEFINE e == {n \in 1 .. Len(script) : Ends(n)}
  <1>1. Len(script) \in Nat
        BY HostRunAssumption, LenProperties
  <1>2. CASE e = {}
    <2>1. LastStep = cap + 1
          BY <1>2 DEF LastStep
    <2> QED
          BY <1>1, <1>2, <2>1, HostRunAssumption
  <1>3. CASE e # {}
    <2>1. e \in SUBSET Nat
          BY <1>1
    <2> HIDE DEF e
    <2>2. \E n \in e : \A m \in e : n <= m
          BY <1>3, <2>1, LeastNatural
    <2>3. LastStep = CHOOSE n \in e : \A m \in e : n <= m
          BY <1>3 DEF LastStep, e
    <2>4. LastStep \in e /\ \A m \in e : LastStep <= m
          BY <2>2, <2>3
    <2> QED
          BY <1>1, <2>1, <2>4 DEF e
  <1> QED
        BY <1>2, <1>3

LEMMA LastStepAt ==
  ASSUME script \in GuestScripts, NEW n \in 1 .. Len(script), Ends(n),
         \A m \in 1 .. Len(script) : Ends(m) => n <= m
  PROVE  LastStep = n
  BY LastStepIs

\* A slice is not empty, and ends at the cap or a multiple.
LEMMA SliceLength ==
  ASSUME total \in Nat, Multiple(total), total < cap,
         NEW d, d = Lesser(CONSOLE_POLL_INSNS, cap - total)
  PROVE  /\ d \in Nat \ {0} /\ total + d <= cap
         /\ total + d = cap \/ Multiple(total + d)
         /\ \A n \in Nat : total < n /\ n < total + d => ~PollAt(n)
  <1>1. PICK P \in Nat \ {0} : P = CONSOLE_POLL_INSNS
        BY HostRunAssumption
  <1>2. PICK k \in Nat : total = k * P
        BY <1>1 DEF Multiple
  <1>3. /\ d \in Nat \ {0} /\ total + d <= cap /\ d <= P
        /\ total + d = cap \/ d = P
        BY <1>1, HostRunAssumption DEF Lesser
  <1>4. k + 1 \in Nat /\ (k + 1) * P = k * P + P
        OBVIOUS
  <1>5. d = P => Multiple(total + d)
        BY <1>1, <1>2, <1>4 DEF Multiple
  <1>6. ASSUME NEW n \in Nat, total < n, n < total + d, PollAt(n) PROVE FALSE
    <2>1. n # cap
          BY <1>3, <1>6, HostRunAssumption
    <2>2. PICK j \in 1 .. n : n = j * P
          BY <1>1, <1>6, <2>1 DEF PollAt
    <2>3. j \in Nat /\ k * P < j * P
          BY <1>2, <1>6, <2>2
    <2>4. k * P + P <= j * P
          BY <2>3, NoMultipleBetween
    <2>5. total + P <= n
          BY <1>2, <2>2, <2>4
    <2> QED
          BY <1>3, <1>6, <2>5
  <1> QED
        BY <1>3, <1>5, <1>6

\* The console is looked at after every slice.
LEMMA SliceEndIsPoll ==
  ASSUME NEW n \in Nat \ {0}, n = cap \/ Multiple(n)
  PROVE  PollAt(n)
  <1> SUFFICES ASSUME Multiple(n) PROVE PollAt(n)
      BY DEF PollAt
  <1>1. PICK k \in Nat : n = k * CONSOLE_POLL_INSNS
        BY DEF Multiple
  <1>2. PICK P \in Nat \ {0} : P = CONSOLE_POLL_INSNS
        BY HostRunAssumption
  <1>3. PICK r \in Nat : P = r + 1
    <2>1. P - 1 \in Nat /\ P = (P - 1) + 1
          OBVIOUS
    <2> QED
          BY <2>1
  <1>4. n = k * r + k /\ k * r \in Nat
        BY <1>1, <1>2, <1>3
  <1>5. k # 0
    <2>1. 0 * r = 0
          OBVIOUS
    <2> QED
          BY <1>4, <2>1
  <1>6. k \in 1 .. n
        BY <1>4, <1>5
  <1> QED
        BY <1>1, <1>6 DEF PollAt

\* How the guest run in one piece ends, for each way it can.
LEMMA UnslicedCapped ==
  ASSUME LastStep \in Nat, LastStep > cap
  PROVE  Unsliced = [is |-> "Capped", executed |-> cap]
  <1>1. ~(LastStep <= cap)
        BY HostRunAssumption
  <1> QED
        BY <1>1 DEF Unsliced

LEMMA UnslicedEnds ==
  ASSUME LastStep \in Nat, LastStep <= cap
  PROVE  /\ script[LastStep] = "shutdown" => Unsliced = [is |-> "Shutdown", executed |-> LastStep]
         /\ script[LastStep] = "backing"
              => Unsliced = [is |-> "BackingFailure", executed |-> LastStep - 1]
         /\ script[LastStep] = "mtrap" => Unsliced = [is |-> "MachineTrap", executed |-> LastStep]
  <1>1. ~(LastStep > cap)
        BY HostRunAssumption
  <1> QED
        BY <1>1 DEF Unsliced

\* The references are the script's alone.
LEMMA SameScript ==
  ASSUME script' = script
  PROVE  /\ Unsliced' = Unsliced /\ SeenAt' = SeenAt
         /\ \A n : PrintedBy(n)' = PrintedBy(n) /\ (MarkerIn(n)' <=> MarkerIn(n))
  <1>1. LastStep' = LastStep
        BY DEF LastStep, Ends
  <1>2. Unsliced' = Unsliced
        BY <1>1 DEF Unsliced
  <1>3. \A n : PrintedBy(n)' = PrintedBy(n)
        BY DEF PrintedBy
  <1>4. \A n : MarkerIn(n)' <=> MarkerIn(n)
        BY <1>3 DEF MarkerIn
  <1>5. Polls' = Polls
        BY <1>1, <1>2 DEF Polls, PollAt
  <1>6. SeenAt' = SeenAt
        BY <1>4, <1>5 DEF SeenAt
  <1> QED
        BY <1>2, <1>3, <1>4, <1>6

\* An end that no poll came before is the unsliced one.
LEMMA EndsUnseen ==
  ASSUME script' = script, SeenAt = {}, ending' = Unsliced,
         ticks' = Unsliced.executed - IF Unsliced.is = "Shutdown" THEN 1 ELSE 0
  PROVE  BootRunExact'
  <1>1. SeenAt' = {} /\ ending' = Unsliced'
        BY SameScript
  <1>2. ticks' = ending'.executed - IF ending'.is = "Shutdown" THEN 1 ELSE 0
        OBVIOUS
  <1> QED
        BY <1>1, <1>2 DEF BootRunExact

\* No poll has seen the marker if none did up to total and there is none after it.
LEMMA Unseen ==
  ASSUME total \in Nat, \A n \in 1 .. total : PollAt(n) => ~MarkerIn(n),
         \A n \in Nat : total < n /\ n < LastStep /\ n <= Unsliced.executed => ~PollAt(n),
         Unsliced.executed \in Int
  PROVE  SeenAt = {}
  <1> SUFFICES ASSUME NEW n \in SeenAt PROVE FALSE
      OBVIOUS
  <1>1. n \in 1 .. Unsliced.executed /\ PollAt(n) /\ n < LastStep /\ MarkerIn(n)
        BY DEF SeenAt, Polls
  <1>2. n \in Nat /\ n <= Unsliced.executed /\ n >= 1
        BY <1>1
  <1>3. n \in 1 .. total \/ total < n
        BY <1>2
  <1> QED
        BY <1>1, <1>2, <1>3

\* A step that prints and scans nothing.
LEMMA SameConsole ==
  ASSUME ScanOK, ConsoleTrue, script' = script, steps' = steps, console' = console,
         scanned' = scanned
  PROVE  ScanOK' /\ ConsoleTrue'
  <1>1. ScanOK'
        BY DEF ScanOK
  <1>2. PICK h : Traces(h, console, steps)
        BY DEF ConsoleTrue
  <1>3. Traces(h, console, steps)'
        BY <1>2 DEF Traces, PrintedBy
  <1> QED
        BY <1>1, <1>3 DEF ConsoleTrue

LEMMA BeginSliceOK == RunInv /\ BeginSlice => RunInv'
  <1> SUFFICES ASSUME RunInv, BeginSlice PROVE RunInv'
      OBVIOUS
  <1>1. /\ loop = "boot" /\ RunType /\ Progress /\ NotYet /\ ScanOK /\ ConsoleTrue
        /\ script' = script /\ steps' = steps /\ dead' = dead /\ console' = console
        /\ scanned' = scanned /\ ticks' = ticks /\ total' = total
        BY DEF RunInv, BeginSlice
  <1>2. /\ ~dead /\ steps = total /\ ticks = total /\ total <= cap
        /\ \A n \in 1 .. Len(script) : Ends(n) => ~(n <= total)
        BY <1>1 DEF Progress
  <1>3. CASE total >= cap
    <2>1. /\ loop' = "over" /\ ending' = [is |-> "Capped", executed |-> total]
          /\ limit' = limit /\ retired' = retired
          BY <1>3 DEF BeginSlice
    <2>2. total = cap
          BY <1>1, <1>2, <1>3, HostRunAssumption DEF RunType
    <2>3. LastStep \in Nat /\ LastStep > cap
          BY <1>1, <1>2, <2>2, LastStepIs, HostRunAssumption DEF RunType
    <2>4. Unsliced = [is |-> "Capped", executed |-> cap]
          BY <2>3, UnslicedCapped
    <2>5. SeenAt = {}
      <3>1. Unsliced.executed = cap
            BY <2>4
      <3>2. \A n \in 1 .. total : PollAt(n) => ~MarkerIn(n)
            BY <1>1 DEF NotYet
      <3>3. \A n \in Nat : ~(total < n /\ n <= cap)
            BY <2>2, HostRunAssumption
      <3> QED
            BY <1>1, <3>1, <3>2, <3>3, Unseen, HostRunAssumption DEF RunType
    <2>6. ticks' = Unsliced.executed - IF Unsliced.is = "Shutdown" THEN 1 ELSE 0
      <3>1. Unsliced.executed = cap /\ Unsliced.is # "Shutdown"
            BY <2>4
      <3> QED
            BY <1>1, <1>2, <2>2, <3>1, HostRunAssumption
    <2>7. BootRunExact'
          BY <1>1, <2>1, <2>2, <2>4, <2>5, <2>6, EndsUnseen
    <2>8. RunType'
          BY <1>1, <2>1 DEF RunType
    <2> QED
          BY <2>1, <2>7, <2>8 DEF RunInv
  <1>4. CASE ~(total >= cap)
    <2>1. /\ limit' = Lesser(CONSOLE_POLL_INSNS, cap - total) /\ retired' = 0
          /\ loop' = "slice"
          BY <1>4 DEF BeginSlice
    <2>2. total \in Nat /\ total < cap /\ Multiple(total)
          BY <1>1, <1>4, HostRunAssumption DEF RunType, Progress
    <2>3. limit' \in Nat /\ 0 <= limit' /\ steps = total + 0
          BY <1>2, <2>1, <2>2, SliceLength
    <2>4. RunType'
          BY <1>1, <2>1, <2>3 DEF RunType
    <2>5. Progress'
      <3>1. \A n \in 1 .. Len(script') : Ends(n)' /\ n <= steps' => dead' /\ n = steps'
            BY <1>1 DEF Progress, Ends
      <3> QED
            BY <1>1, <1>2, <2>1, <2>2, <2>3, <3>1 DEF Progress, Multiple
    <2>6. NotYet'
          BY <1>1, <2>1, SameScript DEF NotYet, PollAt
    <2>7. ScanOK' /\ ConsoleTrue'
          BY <1>1, SameConsole
    <2> QED
          BY <2>1, <2>4, <2>5, <2>6, <2>7 DEF RunInv, BootRunExact
  <1> QED
        BY <1>3, <1>4

\* Inside a slice: the end, if it is the next step or the last one, comes before the next poll.
LEMMA InSlice ==
  ASSUME RunInv, loop = "slice"
  PROVE  /\ RunType /\ Progress /\ NotYet /\ ScanOK /\ ConsoleTrue
         /\ limit \in Nat \ {0} /\ steps = total + retired /\ ticks = steps
         /\ total + limit <= cap /\ (total + limit = cap \/ Multiple(total + limit))
         /\ steps <= total + limit
         /\ \A n \in 1 .. total : PollAt(n) => ~MarkerIn(n)
         /\ \A n \in Nat : total < n /\ n < total + limit => ~PollAt(n)
  <1>1. RunType /\ Progress /\ NotYet /\ ScanOK /\ ConsoleTrue
        BY DEF RunInv
  <1>2. /\ Multiple(total) /\ total < cap /\ limit = Lesser(CONSOLE_POLL_INSNS, cap - total)
        /\ retired <= limit /\ steps = total + retired /\ ticks = steps
        BY <1>1 DEF Progress
  <1>3. /\ limit \in Nat \ {0} /\ total + limit <= cap
        /\ total + limit = cap \/ Multiple(total + limit)
        /\ \A n \in Nat : total < n /\ n < total + limit => ~PollAt(n)
        BY <1>1, <1>2, SliceLength DEF RunType
  <1>4. steps <= total + limit
        BY <1>1, <1>2 DEF RunType
  <1>5. \A n \in 1 .. total : PollAt(n) => ~MarkerIn(n)
        BY <1>1 DEF NotYet
  <1> QED
        BY <1>1, <1>2, <1>3, <1>4, <1>5

LEMMA SliceStopsOK == RunInv /\ SliceStops => RunInv'
  <1> SUFFICES ASSUME RunInv, SliceStops PROVE RunInv'
      OBVIOUS
  <1>1. /\ loop = "slice" /\ Verdict # "step" /\ Returns(Verdict, retired)
        /\ script' = script /\ steps' = steps /\ dead' = dead /\ console' = console
        /\ scanned' = scanned /\ ticks' = ticks /\ limit' = limit /\ retired' = retired
        BY DEF SliceStops
  <1>2. /\ RunType /\ Progress /\ NotYet /\ ScanOK /\ ConsoleTrue
        /\ limit \in Nat \ {0} /\ steps = total + retired /\ ticks = steps
        /\ total + limit <= cap /\ (total + limit = cap \/ Multiple(total + limit))
        /\ steps <= total + limit
        /\ \A n \in 1 .. total : PollAt(n) => ~MarkerIn(n)
        /\ \A n \in Nat : total < n /\ n < total + limit => ~PollAt(n)
        BY <1>1, InSlice
  <1>3. total' = steps
        BY <1>1, <1>2 DEF Returns
  <1>4. RunType'
    <2>1. loop' \in {"poll", "over"}
          BY <1>1 DEF Returns
    <2> QED
          BY <1>1, <1>2, <1>3, <2>1 DEF RunType
  <1>5. CASE dead
    <2>1. Verdict = "MachineTrap"
          BY <1>5 DEF Verdict
    <2>2. loop' = "over" /\ ending' = [is |-> "MachineTrap", executed |-> steps]
          BY <1>1, <1>3, <2>1 DEF Returns
    <2>3. /\ steps \in 1 .. Len(script) /\ script[steps] = "mtrap"
          /\ \A n \in 1 .. Len(script) : Ends(n) /\ n <= steps => n = steps
          BY <1>2, <1>5 DEF Progress
    <2>4. LastStep = steps
      <3>1. Ends(steps)
            BY <2>3 DEF Ends
      <3>2. Len(script) \in Nat
            BY <1>2, LastStepIs DEF RunType
      <3>3. \A n \in 1 .. Len(script) : Ends(n) => steps <= n
            BY <1>2, <2>3, <3>2 DEF RunType
      <3> QED
            BY <1>2, <2>3, <3>1, <3>3, LastStepAt DEF RunType
    <2>5. LastStep \in Nat /\ LastStep <= cap
          BY <1>2, <2>4, HostRunAssumption DEF RunType
    <2>6. Unsliced = [is |-> "MachineTrap", executed |-> steps]
          BY <2>3, <2>4, <2>5, UnslicedEnds
    <2>7. Unsliced.executed = steps /\ Unsliced.is # "Shutdown"
          BY <2>6
    <2>8. SeenAt = {}
      <3>1. \A n \in Nat : n < LastStep => n < total + limit
            BY <1>2, <2>4 DEF RunType
      <3> QED
            BY <1>2, <2>7, <3>1, Unseen DEF RunType
    <2>9. ticks' = Unsliced.executed - IF Unsliced.is = "Shutdown" THEN 1 ELSE 0
          BY <1>1, <1>2, <2>7 DEF RunType
    <2>10. BootRunExact'
          BY <1>1, <2>2, <2>6, <2>8, <2>9, EndsUnseen
    <2> QED
          BY <1>4, <2>2, <2>10 DEF RunInv
  <1>6. CASE ~dead
    <2>1. Verdict = "Capped" /\ retired >= limit
          BY <1>1, <1>6 DEF Verdict
    <2>2. loop' = "poll"
          BY <1>1, <2>1 DEF Returns
    <2>3. retired = limit /\ steps = total + limit /\ total' = total + limit /\ total' > 0
          BY <1>2, <1>3, <2>1 DEF RunType, Progress
    <2>4. Progress'
      <3>1. \A n \in 1 .. Len(script') : Ends(n)' /\ n <= steps' => dead' /\ n = steps'
            BY <1>1, <1>2 DEF Progress, Ends
      <3>2. Multiple(total + limit) => Multiple(total')
            BY <2>3
      <3>3. ~dead' /\ ticks' = steps' /\ steps' = total' /\ total' <= cap
            BY <1>1, <1>2, <1>6, <2>3
      <3>4. total' = cap \/ Multiple(total')
            BY <1>2, <2>3, <3>2
      <3> QED
            BY <2>2, <2>3, <3>1, <3>3, <3>4 DEF Progress, Multiple
    <2>5. NotYet'
      <3> SUFFICES ASSUME NEW n \in 1 .. total', PollAt(n), n < total' PROVE ~MarkerIn(n)
          BY <1>1, <2>2, SameScript DEF NotYet, PollAt
      <3>1. n \in Nat /\ (n \in 1 .. total \/ (total < n /\ n < total + limit))
            BY <1>2, <2>3 DEF RunType
      <3> QED
            BY <1>2, <3>1
    <2>6. ScanOK' /\ ConsoleTrue'
          BY <1>1, <1>2, SameConsole
    <2> QED
          BY <1>4, <2>2, <2>4, <2>5, <2>6 DEF RunInv, BootRunExact
  <1> QED
        BY <1>5, <1>6

LEMMA StepEndsOK == RunInv /\ StepEnds => RunInv'
  <1> SUFFICES ASSUME RunInv, StepEnds PROVE RunInv'
      OBVIOUS
  <1>1. /\ loop = "slice" /\ Verdict = "step"
        /\ \/ NextStep = "shutdown" /\ Returns("Shutdown", retired + 1)
           \/ NextStep = "backing" /\ Returns("BackingFailure", retired)
        /\ steps' = steps + 1
        /\ script' = script /\ dead' = dead /\ console' = console
        /\ scanned' = scanned /\ ticks' = ticks /\ limit' = limit /\ retired' = retired
        BY DEF StepEnds
  <1>2. /\ RunType /\ Progress
        /\ limit \in Nat \ {0} /\ steps = total + retired /\ ticks = steps
        /\ total + limit <= cap
        /\ \A n \in 1 .. total : PollAt(n) => ~MarkerIn(n)
        /\ \A n \in Nat : total < n /\ n < total + limit => ~PollAt(n)
        BY <1>1, InSlice
  <1>3. ~dead /\ ~(retired >= limit)
        BY <1>1 DEF Verdict
  <1>4. steps + 1 \in Nat /\ steps < total + limit /\ steps + 1 <= cap
        BY <1>2, <1>3, HostRunAssumption DEF RunType
  <1>5. Len(script) \in Nat
        BY <1>2, LastStepIs DEF RunType
  <1>6. steps + 1 \in 1 .. Len(script) /\ script[steps + 1] \in {"shutdown", "backing"}
    <2>1. steps < Len(script) /\ NextStep = script[steps + 1]
          BY <1>1 DEF NextStep
    <2> QED
          BY <1>1, <1>2, <1>5, <2>1 DEF RunType
  <1>7. LastStep = steps + 1
    <2>1. Ends(steps + 1)
          BY <1>6 DEF Ends
    <2>2. \A n \in 1 .. Len(script) : Ends(n) => ~(n <= steps)
          BY <1>2, <1>3 DEF Progress
    <2>3. \A n \in 1 .. Len(script) : Ends(n) => steps + 1 <= n
          BY <1>2, <1>5, <2>2 DEF RunType
    <2> QED
          BY <1>2, <1>6, <2>1, <2>3, LastStepAt DEF RunType
  <1>8. LastStep \in Nat /\ LastStep <= cap
        BY <1>4, <1>7
  <1>9. NextStep = script[steps + 1]
        BY <1>1 DEF NextStep
  <1>10. \A n \in Nat : n < LastStep => n < total + limit
        BY <1>2, <1>4, <1>7 DEF RunType
  <1>11. RunType' /\ loop' = "over"
    <2>1. loop' = "over" /\ (total' = total + (retired + 1) \/ total' = total + retired)
          BY <1>1 DEF Returns
    <2>2. total' \in Nat
          BY <1>2, <2>1 DEF RunType
    <2> QED
          BY <1>1, <1>2, <1>4, <2>1, <2>2 DEF RunType
  <1>12. CASE NextStep = "shutdown"
    <2>1. ending' = [is |-> "Shutdown", executed |-> total + (retired + 1)]
          BY <1>1, <1>12 DEF Returns
    <2>2. total + (retired + 1) = LastStep /\ ticks' = LastStep - 1
          BY <1>1, <1>2, <1>7 DEF RunType
    <2>3. Unsliced = [is |-> "Shutdown", executed |-> LastStep]
          BY <1>7, <1>8, <1>9, <1>12, UnslicedEnds
    <2>4. Unsliced.executed = LastStep /\ Unsliced.is = "Shutdown"
          BY <2>3
    <2>5. SeenAt = {}
          BY <1>2, <1>8, <1>10, <2>4, Unseen DEF RunType
    <2>6. ticks' = Unsliced.executed - IF Unsliced.is = "Shutdown" THEN 1 ELSE 0
          BY <2>2, <2>4
    <2> QED
          BY <1>1, <1>11, <2>1, <2>2, <2>3, <2>5, <2>6, EndsUnseen DEF RunInv
  <1>13. CASE NextStep = "backing"
    <2>1. ending' = [is |-> "BackingFailure", executed |-> total + retired]
          BY <1>1, <1>13 DEF Returns
    <2>2. total + retired = LastStep - 1 /\ ticks' = LastStep - 1 /\ LastStep - 1 \in Int
          BY <1>1, <1>2, <1>7 DEF RunType
    <2>3. Unsliced = [is |-> "BackingFailure", executed |-> LastStep - 1]
          BY <1>7, <1>8, <1>9, <1>13, UnslicedEnds
    <2>4. Unsliced.executed = LastStep - 1 /\ Unsliced.is # "Shutdown"
          BY <2>3
    <2>5. SeenAt = {}
          BY <1>2, <1>10, <2>2, <2>4, Unseen DEF RunType
    <2>6. ticks' = Unsliced.executed - IF Unsliced.is = "Shutdown" THEN 1 ELSE 0
          BY <2>2, <2>4
    <2> QED
          BY <1>1, <1>11, <2>1, <2>2, <2>3, <2>5, <2>6, EndsUnseen DEF RunInv
  <1> QED
        BY <1>1, <1>12, <1>13

\* One more character on the console.
LEMMA TraceGrows ==
  ASSUME script \in GuestScripts, console \in Seq(Chars), steps \in Nat, ConsoleTrue,
         script' = script, steps' = steps + 1,
         console' = IF NextStep \in Special THEN console ELSE Append(console, NextStep)
  PROVE  ConsoleTrue'
  <1>1. PICK h : Traces(h, console, steps)
        BY DEF ConsoleTrue
  <1>2. PICK l \in Nat : l = Len(console)
        BY LenProperties
  <1>3. PICK z \in Nat : z = Len(script)
        BY LastStepIs
  <1>4. /\ h \in [1 .. l -> PrintedBy(steps)]
        /\ \A a, b \in 1 .. l : a < b => h[a] < h[b]
        /\ \A i \in PrintedBy(steps) : \E a \in 1 .. l : i = h[a]
        /\ \A a \in 1 .. l : console[a] = script[h[a]]
        BY <1>1, <1>2 DEF Traces
  <1>5. PrintedBy(steps)' = PrintedBy(steps + 1)
        BY DEF PrintedBy
  <1>6. CASE NextStep \in Special
    <2>1. PrintedBy(steps + 1) = PrintedBy(steps)
      <3>1. CASE steps < z
        <4>1. script[steps + 1] \in Special
              BY <1>3, <1>6, <3>1 DEF NextStep
        <4>2. Lesser(steps, z) = steps /\ Lesser(steps + 1, z) = steps + 1
              BY <3>1 DEF Lesser
        <4>3. 1 .. steps + 1 = (1 .. steps) \cup {steps + 1}
              OBVIOUS
        <4> QED
              BY <1>3, <4>1, <4>2, <4>3 DEF PrintedBy
      <3>2. CASE ~(steps < z)
        <4>1. Lesser(steps, z) = z /\ Lesser(steps + 1, z) = z
              BY <3>2 DEF Lesser
        <4> QED
              BY <1>3, <4>1 DEF PrintedBy
      <3> QED
            BY <3>1, <3>2
    <2>2. console' = console
          BY <1>6
    <2>3. Traces(h, console, steps)'
          BY <1>1, <1>5, <2>1, <2>2 DEF Traces
    <2> QED
          BY <2>3 DEF ConsoleTrue
  <1>7. CASE NextStep \notin Special
    <2>1. steps < z /\ NextStep = script[steps + 1]
          BY <1>3, <1>7 DEF NextStep, Special
    <2>2. steps + 1 \in 1 .. z
          BY <2>1
    <2>3. NextStep \in Chars
      <3>1. script \in Seq(Special \cup Chars)
            BY HostRunAssumption
      <3>2. script[steps + 1] \in Special \cup Chars
            BY <1>3, <2>2, <3>1, ElementOfSeq
      <3> QED
            BY <1>7, <2>1, <3>2
    <2>4. PrintedBy(steps + 1) = PrintedBy(steps) \cup {steps + 1}
      <3>1. Lesser(steps, z) = steps /\ Lesser(steps + 1, z) = steps + 1
            BY <2>1 DEF Lesser
      <3>2. 1 .. steps + 1 = (1 .. steps) \cup {steps + 1}
            OBVIOUS
      <3> QED
            BY <1>3, <1>7, <2>1, <3>1, <3>2 DEF PrintedBy
    <2>5. \A i \in PrintedBy(steps) : i \in Int /\ i < steps + 1
      <3>1. \A i \in 1 .. Lesser(steps, z) : i \in Int /\ i < steps + 1
            BY DEF Lesser
      <3> QED
            BY <1>3, <3>1 DEF PrintedBy
    <2> DEFINE c == Append(console, NextStep)
    <2>6. /\ console' = c /\ Len(c) = l + 1 /\ c[l + 1] = NextStep
          /\ \A a \in 1 .. l : c[a] = console[a]
          BY <1>2, <1>7, <2>3, AppendProperties
    <2> HIDE DEF c
    <2> DEFINE f == [a \in 1 .. l + 1 |-> IF a = l + 1 THEN steps + 1 ELSE h[a]]
    <2>7. \A a \in 1 .. l + 1 : a \in 1 .. l \/ a = l + 1
          OBVIOUS
    <2>8. \A a \in 1 .. l : a \in 1 .. l + 1 /\ a # l + 1 /\ a < l + 1
          OBVIOUS
    <2>9. f[l + 1] = steps + 1 /\ \A a \in 1 .. l : f[a] = h[a]
          BY <2>8
    <2>10. f \in [1 .. l + 1 -> PrintedBy(steps + 1)]
          BY <1>4, <2>4, <2>7
    <2> HIDE DEF f
    <2>11. \A a, b \in 1 .. l + 1 : a < b => f[a] < f[b]
      <3> SUFFICES ASSUME NEW a \in 1 .. l + 1, NEW b \in 1 .. l + 1, a < b PROVE f[a] < f[b]
          OBVIOUS
      <3>1. a \in 1 .. l
            OBVIOUS
      <3>2. h[a] \in PrintedBy(steps)
            BY <1>4, <3>1
      <3> QED
            BY <1>4, <2>5, <2>7, <2>9, <3>1, <3>2
    <2>12. \A i \in PrintedBy(steps + 1) : \E a \in 1 .. l + 1 : i = f[a]
          BY <1>4, <2>4, <2>8, <2>9
    <2>13. \A a \in 1 .. l + 1 : c[a] = script[f[a]]
          BY <1>4, <2>1, <2>6, <2>7, <2>9
    <2>14. PICK g : Traces(g, c, steps + 1)
          BY <2>6, <2>10, <2>11, <2>12, <2>13 DEF Traces
    <2>15. Traces(g, console, steps)'
          BY <1>5, <2>6, <2>14 DEF Traces
    <2> QED
          BY <2>15 DEF ConsoleTrue
  <1> QED
        BY <1>6, <1>7

\* What has been scanned stays as it is.
LEMMA ScanGrows ==
  ASSUME console \in Seq(Chars), scanned \in Nat, ScanOK, scanned' = scanned,
         console' = console \/ \E x \in Chars : console' = Append(console, x)
  PROVE  ScanOK'
  <1>1. CASE console' = console
        BY <1>1 DEF ScanOK
  <1>2. ASSUME NEW x \in Chars, console' = Append(console, x) PROVE ScanOK'
    <2>1. PICK m \in Nat : m = Len(Marker)
          BY HostRunAssumption, LenProperties
    <2>2. PICK l \in Nat : l = Len(console)
          BY LenProperties
    <2>3. /\ console' \in Seq(Chars) /\ Len(console') = l + 1
          /\ \A a \in 1 .. l : console'[a] = console[a]
          BY <1>2, <2>2, AppendProperties
    <2>4. ASSUME NEW i \in 1 .. scanned
          PROVE  i + m - 1 <= Len(console') /\ SubSeq(console', i, i + m - 1) # Marker
      <3>1. i \in Nat \ {0} /\ i + m - 1 <= l /\ i + m - 1 <= l + 1
            BY <2>1, <2>2, <2>4 DEF ScanOK
      <3>2. SubSeq(console, i, i + m - 1) # Marker
            BY <2>1, <2>4 DEF ScanOK
      <3>3. PICK k \in 1 .. m : console[i + k - 1] # Marker[k]
            BY <2>1, <2>2, <3>1, <3>2, WindowIsMarker
      <3>4. i + k - 1 \in 1 .. l
            BY <3>1, <3>3
      <3>5. console'[i + k - 1] # Marker[k]
            BY <2>3, <3>3, <3>4
      <3>6. i + Len(Marker) - 1 <= Len(console')
            BY <2>1, <2>3, <3>1
      <3>7. \A d \in Seq(Chars) : i + Len(Marker) - 1 <= Len(d) =>
              (SubSeq(d, i, i + Len(Marker) - 1) = Marker
                 <=> \A q \in 1 .. Len(Marker) : d[i + q - 1] = Marker[q])
            BY <3>1, WindowIsMarker
      <3>8. SubSeq(console', i, i + m - 1) # Marker
            BY <2>1, <2>3, <3>3, <3>5, <3>6, <3>7
      <3> QED
            BY <2>3, <3>1, <3>8
    <2> QED
          BY <2>1, <2>4 DEF ScanOK
  <1> QED
        BY <1>1, <1>2

LEMMA StepRunsOK == RunInv /\ StepRuns => RunInv'
  <1> SUFFICES ASSUME RunInv, StepRuns PROVE RunInv'
      OBVIOUS
  <1>1. /\ loop = "slice" /\ Verdict = "step" /\ NextStep \notin {"shutdown", "backing"}
        /\ steps' = steps + 1 /\ retired' = retired + 1 /\ ticks' = ticks + 1
        /\ console' = IF NextStep \in Special THEN console ELSE Append(console, NextStep)
        /\ script' = script /\ scanned' = scanned /\ loop' = loop /\ limit' = limit
        /\ total' = total
        BY DEF StepRuns
  <1>2. /\ RunType /\ Progress /\ NotYet /\ ScanOK /\ ConsoleTrue
        BY <1>1, InSlice
  <1>3. ~dead /\ ~(retired >= limit)
        BY <1>1 DEF Verdict
  <1>4. dead' \in BOOLEAN /\ (dead' <=> NextStep = "mtrap")
        BY Zenon DEF StepRuns
  <1>5. PICK z \in Nat : z = Len(script)
        BY <1>2, LastStepIs DEF RunType
  <1>6. console' = console \/ \E x \in Chars : console' = Append(console, x)
    <2> SUFFICES ASSUME NextStep \notin Special PROVE NextStep \in Chars
        BY <1>1
    <2>1. steps + 1 \in 1 .. z /\ NextStep = script[steps + 1]
          BY <1>2, <1>5 DEF NextStep, Special, RunType
    <2>2. script \in Seq(Special \cup Chars)
          BY <1>2, HostRunAssumption DEF RunType
    <2> QED
          BY <1>5, <2>1, <2>2, ElementOfSeq
  <1>7. RunType'
    <2>1. console' \in Seq(Chars)
          BY <1>2, <1>6, AppendProperties DEF RunType
    <2> QED
          BY <1>1, <1>2, <1>4, <2>1 DEF RunType
  <1>8. Progress'
    <2>1. /\ ticks' = steps' /\ total' <= cap /\ Multiple(total') /\ total' < cap
          /\ limit' = Lesser(CONSOLE_POLL_INSNS, cap - total')
          /\ retired' <= limit' /\ steps' = total' + retired'
          BY <1>1, <1>2, <1>3 DEF RunType, Progress
    <2>2. ASSUME NEW n \in 1 .. z, Ends(n), n <= steps + 1 PROVE dead' /\ n = steps + 1
      <3>1. ~(n <= steps)
            BY <1>2, <1>3, <1>5, <2>2 DEF Progress
      <3>2. n = steps + 1
            BY <1>2, <2>2, <3>1 DEF RunType
      <3>3. NextStep = script[n]
            BY <1>2, <1>5, <2>2, <3>2 DEF NextStep, RunType
      <3>4. NextStep = "mtrap"
            BY <1>1, <2>2, <3>3 DEF Ends
      <3> QED
            BY <1>4, <3>2, <3>4
    <2>3. \A n \in 1 .. Len(script') : Ends(n)' /\ n <= steps' => dead' /\ n = steps'
          BY <1>1, <1>5, <2>2 DEF Ends
    <2>4. dead' => steps' \in 1 .. Len(script') /\ script'[steps'] = "mtrap"
      <3> SUFFICES ASSUME NextStep = "mtrap" PROVE steps + 1 \in 1 .. z /\ script[steps + 1] = "mtrap"
          BY <1>1, <1>4, <1>5
      <3> QED
          BY <1>2, <1>5 DEF NextStep, RunType
    <2> QED
          BY <1>1, <2>1, <2>3, <2>4 DEF Progress, Multiple
  <1>9. NotYet'
        BY <1>1, <1>2, SameScript DEF NotYet, PollAt
  <1>10. ScanOK'
        BY <1>1, <1>2, <1>6, ScanGrows DEF RunType
  <1>11. ConsoleTrue'
        BY <1>1, <1>2, TraceGrows DEF RunType
  <1> QED
        BY <1>1, <1>7, <1>8, <1>9, <1>10, <1>11 DEF RunInv, BootRunExact

LEMMA ReachedOK == RunInv /\ console_reached => RunInv'
  <1> SUFFICES ASSUME RunInv, console_reached PROVE RunInv'
      OBVIOUS
  <1>1. /\ loop = "poll" /\ scanned' = Resume
        /\ script' = script /\ steps' = steps /\ dead' = dead /\ console' = console
        /\ ticks' = ticks /\ limit' = limit /\ retired' = retired /\ total' = total
        BY DEF console_reached
  <1>2. RunType /\ Progress /\ NotYet /\ ScanOK /\ ConsoleTrue
        BY <1>1 DEF RunInv
  <1>3. PICK m \in Nat : m = Len(Marker)
        BY HostRunAssumption, LenProperties
  <1>4. PICK l \in Nat : l = Len(console)
        BY <1>2, LenProperties DEF RunType
  <1>5. /\ steps = total /\ ticks = total /\ ~dead /\ total > 0 /\ total <= cap
        /\ total = cap \/ Multiple(total)
        /\ \A n \in 1 .. Len(script) : Ends(n) => ~(n <= total)
        BY <1>1, <1>2 DEF Progress
  <1>6. total \in Nat \ {0} /\ PollAt(total)
        BY <1>2, <1>5, SliceEndIsPoll DEF RunType
  <1>7. Occurs(console, scanned) <=> MarkerIn(total)
    <2>1. Occurs(console, 0) <=> MarkerIn(total)
          BY <1>2, <1>5, SeenIsPrinted DEF RunType, ConsoleTrue
    <2>2. Occurs(console, scanned) => Occurs(console, 0)
      <3>1. \A i \in scanned + 1 .. l - m + 1 : i \in 0 + 1 .. l - m + 1
            BY <1>2 DEF RunType
      <3> QED
            BY <1>3, <1>4, <3>1 DEF Occurs
    <2>3. Occurs(console, 0) => Occurs(console, scanned)
      <3>1. \A i \in 0 + 1 .. l - m + 1 : i \in 1 .. scanned \/ i \in scanned + 1 .. l - m + 1
            BY <1>2 DEF RunType
      <3> QED
            BY <1>2, <1>3, <1>4, <3>1 DEF Occurs, ScanOK
    <2> QED
          BY <2>1, <2>2, <2>3
  <1>8. scanned' \in Nat /\ (Marker = << >> => scanned' = scanned)
        /\ (Marker # << >> => scanned' = IF l - (m - 1) > 0 THEN l - (m - 1) ELSE 0)
        BY <1>1, <1>2, <1>3, <1>4 DEF Resume, RunType
  <1>9. CASE Occurs(console, scanned)
    <2>1. loop' = "over" /\ ending' = [is |-> "Marker", executed |-> total]
          BY <1>9 DEF console_reached
    <2>2. RunType'
          BY <1>1, <1>2, <1>8, <2>1 DEF RunType
    <2>3. /\ LastStep \in Nat
          /\ LastStep > total
          BY <1>2, <1>5, LastStepIs, HostRunAssumption DEF RunType
    <2>4. Unsliced.executed \in Nat /\ total <= Unsliced.executed
      <3>1. CASE LastStep > cap
        <4>1. Unsliced.executed = cap
              BY <2>3, <3>1, UnslicedCapped
        <4> QED
              BY <1>5, <4>1, HostRunAssumption
      <3>2. CASE ~(LastStep > cap)
        <4>1. LastStep <= cap /\ LastStep # cap + 1
              BY <2>3, <3>2, HostRunAssumption
        <4>2. script[LastStep] \in {"shutdown", "backing", "mtrap"}
              BY <1>2, <4>1, LastStepIs DEF RunType, Ends
        <4>3. Unsliced.executed = LastStep \/ Unsliced.executed = LastStep - 1
              BY <2>3, <4>1, <4>2, UnslicedEnds
        <4> QED
              BY <1>6, <2>3, <4>3
      <3> QED
            BY <3>1, <3>2
    <2>5. total \in SeenAt
      <3>1. total \in 1 .. Unsliced.executed
            BY <1>6, <2>4
      <3> QED
            BY <1>6, <1>7, <1>9, <2>3, <3>1 DEF SeenAt, Polls
    <2>6. \A n \in SeenAt : n >= total
      <3> SUFFICES ASSUME NEW n \in SeenAt, ~(n >= total) PROVE FALSE
          OBVIOUS
      <3>1. n \in 1 .. Unsliced.executed /\ PollAt(n) /\ MarkerIn(n)
            BY DEF SeenAt, Polls
      <3>2. n \in 1 .. total /\ n < total
            BY <1>6, <2>4, <3>1
      <3> QED
            BY <1>2, <3>1, <3>2 DEF NotYet
    <2>7. SeenAt' = SeenAt
          BY <1>1, SameScript
    <2>8. ending'.is = "Marker" /\ ending'.executed = total
          BY <2>1
    <2>9. BootRunExact'
          BY <2>5, <2>6, <2>7, <2>8 DEF BootRunExact
    <2> QED
          BY <2>1, <2>2, <2>9 DEF RunInv
  <1>10. CASE ~Occurs(console, scanned)
    <2>1. loop' = "boot"
          BY <1>10 DEF console_reached
    <2>2. RunType'
          BY <1>1, <1>2, <1>8, <2>1 DEF RunType
    <2>3. Progress'
      <3>1. \A n \in 1 .. Len(script') : Ends(n)' /\ n <= steps' => dead' /\ n = steps'
            BY <1>1, <1>2 DEF Progress, Ends
      <3> QED
            BY <1>1, <1>5, <2>1, <3>1 DEF Progress, Multiple
    <2>4. NotYet'
      <3> SUFFICES ASSUME NEW n \in 1 .. total, PollAt(n) PROVE ~MarkerIn(n)
          BY <1>1, <2>1, SameScript DEF NotYet, PollAt
      <3>1. n = total \/ n < total
            BY <1>6
      <3> QED
            BY <1>2, <1>7, <1>10, <3>1 DEF NotYet
    <2>5. ScanOK'
      <3> SUFFICES ASSUME Marker # << >>, NEW i \in 1 .. scanned'
                   PROVE  i + m - 1 <= l /\ SubSeq(console, i, i + m - 1) # Marker
        <4>1. Marker = << >> => scanned' = 0
              BY <1>2, <1>8 DEF ScanOK
        <4>2. 1 .. 0 = {}
              OBVIOUS
        <4> QED
              BY <1>1, <1>3, <1>4, <4>1, <4>2 DEF ScanOK
      <3>1. i + m - 1 <= l /\ i \in 1 .. l - m + 1
            BY <1>8
      <3>2. i \in 1 .. scanned \/ i \in scanned + 1 .. l - m + 1
            BY <1>2, <3>1 DEF RunType
      <3> QED
            BY <1>2, <1>3, <1>4, <1>10, <3>1, <3>2 DEF Occurs, ScanOK
    <2>6. ConsoleTrue'
      <3>1. PICK h : Traces(h, console, steps)
            BY <1>2 DEF ConsoleTrue
      <3>2. Traces(h, console, steps)'
            BY <1>1, <3>1 DEF Traces, PrintedBy
      <3> QED
            BY <3>2 DEF ConsoleTrue
    <2> QED
          BY <2>1, <2>2, <2>3, <2>4, <2>5, <2>6 DEF RunInv, BootRunExact
  <1> QED
        BY <1>9, <1>10

LEMMA HostRunInitOK == HostRunInit => RunInv
  <1> SUFFICES ASSUME HostRunInit PROVE RunInv
      OBVIOUS
  <1>1. /\ script \in GuestScripts /\ steps = 0 /\ ~dead /\ dead \in BOOLEAN
        /\ console = << >> /\ scanned = 0 /\ ticks = 0
        /\ loop = "boot" /\ limit = 0 /\ retired = 0 /\ total = 0
        BY DEF HostRunInit
  <1>2. RunType
        BY <1>1, EmptySeq DEF RunType
  <1>3. Progress
    <2>1. Multiple(0)
      <3>1. 0 \in Nat /\ 0 = 0 * CONSOLE_POLL_INSNS
            BY HostRunAssumption
      <3> QED
            BY <3>1 DEF Multiple
    <2>2. \A n \in 1 .. Len(script) : ~(n <= 0)
          BY <1>2, LastStepIs DEF RunType
    <2> QED
          BY <1>1, <2>1, <2>2, HostRunAssumption DEF Progress
  <1>4. NotYet /\ ScanOK
        BY <1>1 DEF NotYet, ScanOK
  <1>5. ConsoleTrue
    <2>1. Len(console) = 0
          BY <1>1
    <2>2. PrintedBy(0) = {}
      <3>1. 1 .. Lesser(0, Len(script)) = {}
            BY <1>2, LastStepIs DEF Lesser, RunType
      <3> QED
            BY <3>1 DEF PrintedBy
    <2>3. Traces([a \in {} |-> a], console, 0)
      <3>1. 1 .. 0 = {}
            OBVIOUS
      <3> QED
            BY <2>1, <2>2, <3>1 DEF Traces
    <2> QED
          BY <1>1, <2>3 DEF ConsoleTrue
  <1> QED
        BY <1>1, <1>2, <1>3, <1>4, <1>5 DEF RunInv, BootRunExact

LEMMA HostRunStepOK == RunInv /\ [HostRunNext]_runVars => RunInv'
  <1> SUFFICES ASSUME RunInv, [HostRunNext]_runVars PROVE RunInv'
      OBVIOUS
  <1>1. CASE UNCHANGED runVars
    <2>1. /\ script' = script /\ steps' = steps /\ dead' = dead /\ console' = console
          /\ scanned' = scanned /\ ticks' = ticks /\ loop' = loop /\ limit' = limit
          /\ retired' = retired /\ total' = total /\ ending' = ending
          BY <1>1 DEF runVars
    <2>2. RunType' /\ BootRunExact'
          BY <2>1, SameScript DEF RunInv, RunType, BootRunExact
    <2>3. ASSUME loop # "over" PROVE Progress' /\ NotYet' /\ ScanOK' /\ ConsoleTrue'
      <3>1. Progress /\ NotYet /\ ScanOK /\ ConsoleTrue
            BY <2>3 DEF RunInv
      <3>2. Progress'
            BY <2>1, <3>1 DEF Progress, Ends, Multiple
      <3>3. NotYet'
            BY <2>1, <3>1, SameScript DEF NotYet, PollAt
      <3> QED
            BY <2>1, <3>1, <3>2, <3>3, SameConsole
    <2> QED
          BY <2>1, <2>2, <2>3 DEF RunInv
  <1> QED
        BY <1>1, BeginSliceOK, SliceStopsOK, StepEndsOK, StepRunsOK, ReachedOK DEF HostRunNext

(***************************************************************************)
(* For every guest, poll interval, cap and marker: boot_capturing_frames   *)
(* stops at the first poll whose console holds the marker, and otherwise   *)
(* ends as one call of run_until with the whole cap does, with its cause,  *)
(* its count and its ticks.                                                *)
(***************************************************************************)
THEOREM SlicesDoNotShow == HostRunSpec => []BootRunExact
  <1>1. RunInv => BootRunExact
        BY DEF RunInv
  <1> QED
        BY HostRunInitOK, HostRunStepOK, <1>1, PTL DEF HostRunSpec
===============================================================================
