-------------------------------- MODULE HostRun --------------------------------
(***************************************************************************)
(* Booting a guest in one process on the laptop: run_until, and            *)
(* boot_capturing_frames, which runs it in slices to watch the console     *)
(* for a marker (rv64-host lib.rs).  The guest is a script: what each      *)
(* call of step_trapping does; past its end it just runs.                  *)
(***************************************************************************)
EXTENDS Integers, Sequences

CONSTANTS CONSOLE_POLL_INSNS,
          cap,          \* max_insns of the whole boot
          Chars,        \* what the guest may print
          Marker,       \* stop_marker
          GuestScripts

\* The steps that print nothing.
Special == {"run", "shutdown", "backing", "mtrap"}

ASSUME HostRunAssumption ==
    /\ CONSOLE_POLL_INSNS \in Nat \ {0} /\ cap \in Nat
    /\ Marker \in Seq(Chars) /\ GuestScripts \subseteq Seq(Special \cup Chars)

VARIABLES script, steps,     \* the guest and how many calls of step_trapping it has seen
          dead,              \* it is in M-mode at address 0 with mtvec 0
          console, scanned,  \* what it printed, and where the next scan resumes
          ticks,             \* of the CLINT
          loop,              \* "boot", "slice", "poll" or "over"
          limit, retired,    \* run_until's max_insns and executed
          total,             \* boot_capturing's executed
          ending             \* the BootRun: Marker seen, or a RunOutcome

runVars == <<script, steps, dead, console, scanned, ticks, loop, limit, retired, total, ending>>

Lesser(a, b) == IF a < b THEN a ELSE b
NextStep == IF steps < Len(script) THEN script[steps + 1] ELSE "run"

\* The head of run_until's loop.
Verdict == CASE dead -> "MachineTrap" [] ~dead /\ retired >= limit -> "Capped" [] OTHER -> "step"

\* run_until returns: anything but Capped ends the boot, with the total count.
Returns(outcome, n) ==
    /\ total' = total + n
    /\ IF outcome = "Capped" THEN loop' = "poll" /\ UNCHANGED ending
       ELSE loop' = "over" /\ ending' = [is |-> outcome, executed |-> total']

BeginSlice == /\ loop = "boot"
              /\ IF total >= cap
                 THEN /\ loop' = "over" /\ ending' = [is |-> "Capped", executed |-> total]
                      /\ UNCHANGED <<limit, retired>>
                 ELSE /\ limit' = Lesser(CONSOLE_POLL_INSNS, cap - total) /\ retired' = 0
                      /\ loop' = "slice" /\ UNCHANGED ending
              /\ UNCHANGED <<script, steps, dead, console, scanned, ticks, total>>

\* The loop of run_until finds an end at its head.
SliceStops == /\ loop = "slice" /\ Verdict # "step"
              /\ Returns(Verdict, retired)
              /\ UNCHANGED <<script, steps, dead, console, scanned, ticks, limit, retired>>

\* step_trapping asks for a shutdown, which is counted, or loses its backing, which is not.
StepEnds == /\ loop = "slice" /\ Verdict = "step"
            /\ \/ NextStep = "shutdown" /\ Returns("Shutdown", retired + 1)
               \/ NextStep = "backing" /\ Returns("BackingFailure", retired)
            /\ steps' = steps + 1
            /\ UNCHANGED <<script, dead, console, scanned, ticks, limit, retired>>

\* Anything else is counted and ticks the CLINT, a trap to M-mode too.
StepRuns == /\ loop = "slice" /\ Verdict = "step" /\ NextStep \notin {"shutdown", "backing"}
            /\ steps' = steps + 1 /\ retired' = retired + 1 /\ ticks' = ticks + 1
            /\ dead' = (NextStep = "mtrap")
            /\ console' = IF NextStep \in Special THEN console ELSE Append(console, NextStep)
            /\ UNCHANGED <<script, scanned, loop, limit, total, ending>>

\* An empty marker is never found.
Occurs(s, from) == /\ Marker # << >>
                   /\ \E i \in from + 1 .. Len(s) - Len(Marker) + 1 :
                        SubSeq(s, i, i + Len(Marker) - 1) = Marker

\* Mutant: the next scan resumes at the end of what was seen.
Resume_at_end == Len(console)

\* As many bytes short of the end as a marker half printed may have.
Resume == LET k == Len(console) - (Len(Marker) - 1)
          IN  IF Marker = << >> THEN scanned ELSE IF k > 0 THEN k ELSE 0

console_reached == /\ loop = "poll"
                   /\ scanned' = Resume
                   /\ \/ /\ Occurs(console, scanned)
                         /\ loop' = "over" /\ ending' = [is |-> "Marker", executed |-> total]
                      \/ ~Occurs(console, scanned) /\ loop' = "boot" /\ UNCHANGED ending
                   /\ UNCHANGED <<script, steps, dead, console, ticks, limit, retired, total>>

HostRunInit == /\ script \in GuestScripts /\ steps = 0 /\ dead = FALSE
               /\ console = << >> /\ scanned = 0 /\ ticks = 0
               /\ loop = "boot" /\ limit = 0 /\ retired = 0 /\ total = 0
               /\ ending = [is |-> "none", executed |-> 0]

HostRunNext == BeginSlice \/ SliceStops \/ StepEnds \/ StepRuns \/ console_reached

HostRunSpec == HostRunInit /\ [][HostRunNext]_runVars
-------------------------------------------------------------------------------
(* Properties. *)

\* The same guest run without slices.
Ends(n) == script[n] \in {"shutdown", "backing", "mtrap"}
LastStep == LET e == {n \in 1 .. Len(script) : Ends(n)}
            IN  IF e = {} THEN cap + 1 ELSE CHOOSE n \in e : \A m \in e : n <= m
Unsliced ==
    CASE LastStep > cap -> [is |-> "Capped", executed |-> cap]
      [] LastStep <= cap /\ script[LastStep] = "shutdown" -> [is |-> "Shutdown", executed |-> LastStep]
      [] LastStep <= cap /\ script[LastStep] = "backing"
           -> [is |-> "BackingFailure", executed |-> LastStep - 1]
      [] OTHER -> [is |-> "MachineTrap", executed |-> LastStep]

\* The steps that have printed when n instructions have retired.
PrintedBy(n) == {i \in 1 .. Lesser(n, Len(script)) : script[i] \notin Special}

\* The marker is what some of them printed, one right after the other.
MarkerIn(n) ==
    /\ Marker # << >>
    /\ \E g \in [1 .. Len(Marker) -> PrintedBy(n)] :
         /\ \A k \in 1 .. Len(Marker) : script[g[k]] = Marker[k]
         /\ \A k \in 1 .. Len(Marker) - 1 :
              g[k] < g[k + 1] /\ \A i \in PrintedBy(n) : i <= g[k] \/ i >= g[k + 1]

\* The counts at which the console is looked at, and those at which it holds the marker.
PollAt(n) == n = cap \/ \E k \in 1 .. n : n = k * CONSOLE_POLL_INSNS
Polls == {n \in 1 .. Unsliced.executed : PollAt(n) /\ n < LastStep}
SeenAt == {n \in Polls : MarkerIn(n)}

(***************************************************************************)
(* Slices do not show: the boot stops at the first poll whose console      *)
(* holds the marker, also one that two slices printed between them, and    *)
(* otherwise ends as the guest run in one piece does, with the same cause, *)
(* count and ticks; a dead end on the cap's very instruction is reported,  *)
(* not the cap.                                                            *)
(***************************************************************************)
BootRunExact ==
    loop = "over" =>
      IF SeenAt = {} THEN /\ ending = Unsliced
                          /\ ticks = ending.executed - IF ending.is = "Shutdown" THEN 1 ELSE 0
      ELSE /\ ending.is = "Marker" /\ ending.executed \in SeenAt
           /\ \A n \in SeenAt : n >= ending.executed
===============================================================================
