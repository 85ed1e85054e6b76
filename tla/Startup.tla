-------------------------------- MODULE Startup --------------------------------
(***************************************************************************)
(* The badge app from its first instruction to the guest's                 *)
(* (badge/app/src/main.rs with the waits of startup.rs).  The servers it   *)
(* needs register when they like, or never; `stage` is the call that main  *)
(* is in.                                                                  *)
(***************************************************************************)
EXTENDS Integers, Sequences

CONSTANTS NO_CLOCK_ATTEMPTS, DEADLINE_MS, POLL_MS

ASSUME StartupAssumption == /\ NO_CLOCK_ATTEMPTS \in Nat \ {0}
                            /\ DEADLINE_MS \in Nat \ {0} /\ POLL_MS \in Nat \ {0}

VARIABLES up,        \* servers that have registered
          stage,
          waited,    \* the Waited of the present wait_for
          advances,  \* does the clock of the log wait go on?
          deps,      \* Startup: the outcomes, in order
          line,      \* the last line noted on the grid, "dark" before there is one
          halt       \* the Halt that stopped main, or "none"

startupVars == <<up, stage, waited, advances, deps, line, halt>>

Servers == {"tt", "names", "gfx", "log", "usb"}
Over == {"run", "parked"}
Fresh == [attempts |-> 0, elapsed_ms |-> 0]

StartupInit == /\ up \in SUBSET Servers
               /\ stage = "tt" /\ waited = Fresh /\ advances = TRUE
               /\ deps = << >> /\ line = "dark" /\ halt = "none"

\* External: a server registers; none ever unregisters.
Register(s) == /\ s \notin up
               /\ up' = up \cup {s}
               /\ UNCHANGED <<stage, waited, advances, deps, line, halt>>

-------------------------------------------------------------------------------
(* wait_for: one probe, its verdict and the backoff before the next. *)

\* Mutant: a wait with a clock trusts the clock alone.
Exhausted_by_clock(w, clocked) ==
    IF clocked THEN w.elapsed_ms >= DEADLINE_MS ELSE w.attempts >= NO_CLOCK_ATTEMPTS

Exhausted(w, clocked) == \/ w.attempts >= NO_CLOCK_ATTEMPTS
                         \/ clocked /\ w.elapsed_ms >= DEADLINE_MS

\* Attempts are told apart up to the bound.
Probed == [waited EXCEPT !.attempts = IF @ < NO_CLOCK_ATTEMPTS THEN @ + 1 ELSE @]
record(name, ok) == deps' = Append(deps, [name |-> name, ok |-> ok, waited |-> Probed])
missing == LET m == {i \in 1 .. Len(deps) : ~deps[i].ok}
           IN  IF m = {} THEN "none" ELSE deps[CHOOSE i \in m : \A j \in m : i <= j].name

\* The backoff: a yield without a clock, a sleep with one.  std's sleep dies without
\* the ticktimer.
Yield == waited' = Probed /\ UNCHANGED stage
Sleep == IF "tt" \in up
         THEN /\ waited' = [Probed EXCEPT !.elapsed_ms = @ + IF advances THEN POLL_MS ELSE 0]
              /\ UNCHANGED stage
         ELSE waited' = Probed /\ stage' = "dead"

park_forever(tt_up) == stage' = IF tt_up /\ "tt" \notin up THEN "dead" ELSE "parked"

\* stop, always called without a screen.
stop(h, tt_up) == halt' = h /\ park_forever(tt_up)

-------------------------------------------------------------------------------
(* main, one action for each call that can block or fail. *)

WaitForTicktimer ==
    /\ stage = "tt"
    /\ \/ /\ "tt" \in up
          /\ stage' = "names" /\ waited' = Probed /\ UNCHANGED halt
       \/ /\ "tt" \notin up /\ Exhausted(Probed, FALSE)
          /\ stop("NoTicktimer", FALSE) /\ waited' = Probed
       \/ /\ "tt" \notin up /\ ~Exhausted(Probed, FALSE)
          /\ Yield /\ UNCHANGED halt
    /\ UNCHANGED <<up, advances, deps, line>>

\* XousNames::new: the kernel retries the connect until the server is there.
ConnectNames == /\ stage = "names" /\ "names" \in up
                /\ stage' = "gfx"
                /\ UNCHANGED <<up, waited, advances, deps, line, halt>>

\* OledSink::new paints the banner.  The ticktimer is recorded, and the log wait begins,
\* against a clock that stands still if Ticktimer::new failed.
OpenScreen ==
    /\ stage = "gfx" /\ "gfx" \in up
    /\ \/ /\ stop("NoScreen", TRUE)
          /\ UNCHANGED <<waited, advances, deps, line>>
       \/ /\ deps' = << [name |-> "tt", ok |-> TRUE, waited |-> waited] >>
          /\ waited' = Fresh /\ advances' \in BOOLEAN
          /\ line' = "log..." /\ stage' = "log"
          /\ UNCHANGED halt
    /\ UNCHANGED up

\* Mutant: the stage line is written when the call has returned.
NoteUsb_late == UNCHANGED line

NoteUsb == line' = "usb..."

\* If the server is up its logger is installed, which blocks on nothing else.
WaitForLog ==
    /\ stage = "log"
    /\ \/ /\ "log" \in up
          /\ record("log", TRUE) /\ NoteUsb
          /\ stage' = "usb" /\ waited' = Probed
       \/ /\ "log" \notin up /\ Exhausted(Probed, TRUE)
          /\ record("log", FALSE) /\ NoteUsb
          /\ stage' = "usb" /\ waited' = Probed
       \/ /\ "log" \notin up /\ ~Exhausted(Probed, TRUE)
          /\ Sleep /\ UNCHANGED <<deps, line>>
    /\ UNCHANGED <<up, advances, halt>>

OpenUsb == /\ stage = "usb" /\ "usb" \in up
           /\ stage' = "mirror" /\ line' = "mirror..."
           /\ UNCHANGED <<up, waited, advances, deps, halt>>

\* hook_panic_mirror connects to the log server without a bound, whatever the wait for
\* it said; a hook that is refused is noted and survived.
hook_panic_mirror == /\ stage = "mirror" /\ "log" \in up
                     /\ stage' = "link" /\ line' = "link..."
                     /\ UNCHANGED <<up, waited, advances, deps, halt>>

\* UsbTransport::new returns once its reader thread has parked.
OpenTransport == /\ stage = "link"
                 /\ stage' = "boot" /\ line' = "boot..."
                 /\ UNCHANGED <<up, waited, advances, deps, halt>>

\* assemble takes the sink, so a failure has no screen to be written on.
Assemble == /\ stage = "boot"
            /\ \/ stage' = "run" /\ UNCHANGED halt
               \/ stop("CannotStartGuest", TRUE)
            /\ UNCHANGED <<up, waited, advances, deps, line>>

Main == \/ WaitForTicktimer \/ ConnectNames \/ OpenScreen \/ WaitForLog
        \/ OpenUsb \/ hook_panic_mirror \/ OpenTransport \/ Assemble

StartupNext == Main \/ \E s \in Servers : Register(s)
StartupSpec == StartupInit /\ [][StartupNext]_startupVars
-------------------------------------------------------------------------------
(* Properties. *)

\* The server each blocking call waits for, and the line it is made under.
WaitsOn == [names |-> "names", gfx |-> "gfx", usb |-> "usb", mirror |-> "log"]
Stuck == stage \in DOMAIN WaitsOn /\ WaitsOn[stage] \notin up
StageLine == [names |-> "dark", gfx |-> "dark", log |-> "log...", usb |-> "usb...",
              mirror |-> "mirror...", link |-> "link...", boot |-> "boot..."]

(***************************************************************************)
(* A stuck badge names its call: whichever call main is in, the last line  *)
(* noted is that call's, so a photograph tells where it hangs; and one     *)
(* that is stuck and dark can only be waiting for the name server or the   *)
(* display.  A badge parked without ticktimer or screen is dark as well,   *)
(* but in no call.  That the line noted is the line shown takes a panel    *)
(* that draws; one that fails is Screen's matter and not joined here.  The *)
(* report names the first server that did not come, and no server is       *)
(* reported up that is not.                                                *)
(***************************************************************************)
StuckIsNamed == /\ stage \in DOMAIN StageLine => line = StageLine[stage]
                /\ missing # "none" => missing = "log" /\ stage \notin {"tt", "names", "gfx"}
                /\ \A i \in 1 .. Len(deps) : deps[i].ok => deps[i].name \in up

(***************************************************************************)
(* Start-up settles: the guest runs or main is parked, never dead inside   *)
(* std, unless main stays for ever in a call on a server that never        *)
(* registers.  The bounded waits are no such calls: they end although the  *)
(* server never comes and although the clock stands still.                 *)
(***************************************************************************)
StartupSettles == <>(stage \in Over) \/ <>[]Stuck
===============================================================================
