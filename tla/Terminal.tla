------------------------------- MODULE Terminal -------------------------------
(***************************************************************************)
(* The two terminals of `rv64-host serve --input`: the port, made raw      *)
(* before a byte crosses it, and the operator's own, made raw and put back *)
(* by whichever of the page loop and the keyboard thread ends first        *)
(* (rv64-host rawtty.rs and main.rs).  A terminal's settings are the set   *)
(* of its flags, one for each group that the code treats alike.            *)
(***************************************************************************)
EXTENDS Integers

CONSTANT Settings      \* what the terminals may be found in

Flags == {"icrnl", "ixon",         \* input translation
          "opost",                 \* output translation
          "echo",                  \* echo, line editing and signals
          "cs8"}                   \* eight bits, receiver on, no carrier

Pipe == {"pipe"}

ASSUME TerminalAssumption == Settings \subseteq SUBSET Flags

VARIABLES port, stdin,         \* the settings, or Pipe for what is not a terminal
          found,               \* stdin's settings when serve started (auxiliary)
          guard,               \* the Restore: "none", "held" or "done"
          main, key,           \* where the two threads are
          exited,
          unset                \* a tcsetattr of restore failed (auxiliary)

termVars == <<port, stdin, found, guard, main, key, exited, unset>>

-------------------------------------------------------------------------------
(* rawtty. *)

keep(mode) == IF mode = "Console" THEN {"icrnl", "opost"} ELSE {}
Off(mode) == (Flags \ {"cs8"}) \ keep(mode)
Requested(t, mode) == (t \ Off(mode)) \cup {"cs8"}

\* tcsetattr succeeds if any of the changes took: each flag is the old or the new.
tcsetattr(t, new) == {u \in SUBSET Flags : t \cap new \subseteq u /\ u \subseteq t \cup new}

\* What apply reads back.
Took(u, mode) == u \cap Off(mode) = {} /\ "cs8" \in u

-------------------------------------------------------------------------------
(* serve_main. *)

\* make_raw on the port: no frame crosses a port that is not raw.
MakeRaw == /\ main = "port" /\ ~exited
           /\ \/ port = Pipe /\ main' = "stdin" /\ UNCHANGED <<port, exited>>
              \/ /\ port # Pipe
                 /\ port' \in tcsetattr(port, Requested(port, "Port"))
                 /\ IF Took(port', "Port") THEN main' = "stdin" /\ UNCHANGED exited
                                           ELSE main' = "refused" /\ exited' = TRUE
           /\ UNCHANGED <<stdin, found, guard, key, unset>>

\* Without --input the terminal is left alone.
NoInput == /\ main = "stdin" /\ ~exited
           /\ main' = "serving"
           /\ UNCHANGED <<port, stdin, found, guard, key, exited, unset>>

\* make_raw_console, and the keyboard thread, spawned whatever came of it.  A failure
\* drops the Restore, whose Drop puts the settings back.
MakeRawConsole ==
    /\ main = "stdin" /\ ~exited
    /\ main' = "serving" /\ key' = "reading"
    /\ \/ stdin = Pipe /\ UNCHANGED <<stdin, guard, unset>>
       \/ /\ stdin # Pipe
          /\ \E u \in tcsetattr(stdin, Requested(stdin, "Console")) :
               \/ Took(u, "Console") /\ stdin' = u /\ guard' = "held" /\ UNCHANGED unset
               \/ ~Took(u, "Console") /\ guard' = "none"
                  /\ \/ stdin' = found /\ UNCHANGED unset
                     \/ stdin' = u /\ unset' = TRUE
    /\ UNCHANGED <<port, found, exited>>

\* The port closes, and serve_shared returns.
ServeReturns == /\ main = "serving" /\ ~exited
                /\ main' = "restore"
                /\ UNCHANGED <<port, stdin, found, guard, key, exited, unset>>

\* Mutant: the keyboard thread leaves the terminal to Drop.
KeysEnd_unrestored == /\ key = "reading" /\ ~exited
                      /\ key' \in {"quit", "ended"}
                      /\ UNCHANGED <<port, stdin, found, guard, main, exited, unset>>

\* pump_input returns: Quit, or the end of stdin or an error.
KeysEnd == /\ key = "reading" /\ ~exited
           /\ key' \in {"restore-quit", "restore"}
           /\ UNCHANGED <<port, stdin, found, guard, main, exited, unset>>

-------------------------------------------------------------------------------
(* restore, by a thread at pc: the swap, and the tcsetattr of the one that won it. *)

Swap(pc, setting, done) ==
    IF guard = "held" THEN guard' = "done" /\ pc' = setting ELSE UNCHANGED guard /\ pc' = done
SetBack == \/ stdin' = found /\ UNCHANGED unset
           \/ stdin' = stdin /\ unset' = TRUE

MainSwaps == /\ main = "restore" /\ ~exited
             /\ Swap(main, "setting", "out")
             /\ UNCHANGED <<port, stdin, found, key, exited, unset>>
MainSets == /\ main = "setting" /\ ~exited
            /\ main' = "out" /\ SetBack
            /\ UNCHANGED <<port, found, guard, key, exited>>
KeySwaps == /\ key \in {"restore", "restore-quit"} /\ ~exited
            /\ \/ key = "restore" /\ Swap(key, "setting", "ended")
               \/ key = "restore-quit" /\ Swap(key, "setting-quit", "quit")
            /\ UNCHANGED <<port, stdin, found, main, exited, unset>>
KeySets == /\ key \in {"setting", "setting-quit"} /\ ~exited
           /\ key' = IF key = "setting" THEN "ended" ELSE "quit"
           /\ SetBack
           /\ UNCHANGED <<port, found, guard, main, exited>>

\* main returns, or the keyboard thread calls exit, which waits for nobody.
Exit == /\ ~exited /\ (main = "out" \/ key = "quit")
        /\ exited' = TRUE
        /\ UNCHANGED <<port, stdin, found, guard, main, key, unset>>

TerminalInit == /\ port \in Settings \cup {Pipe} /\ stdin \in Settings \cup {Pipe}
                /\ found = stdin /\ guard = "none"
                /\ main = "port" /\ key = "absent"
                /\ exited = FALSE /\ unset = FALSE

TerminalNext == \/ MakeRaw \/ NoInput \/ MakeRawConsole \/ ServeReturns \/ KeysEnd
                \/ MainSwaps \/ MainSets \/ KeySwaps \/ KeySets \/ Exit
TerminalSpec == TerminalInit /\ [][TerminalNext]_termVars
-------------------------------------------------------------------------------
(* Properties. *)

\* A thread has won the swap and not yet set the terminal back.
Restoring == main = "setting" \/ key \in {"setting", "setting-quit"}

(***************************************************************************)
(* The terminal is put back: whichever thread ends the process, the        *)
(* operator's terminal is then as it was found, unless the system refused  *)
(* to set it, or the other thread had just won the swap: then the process  *)
(* exits between its swap and its tcsetattr.  While it is raw the guest's  *)
(* output is still translated, and nothing is served over a port that is a *)
(* terminal and not raw.                                                   *)
(***************************************************************************)
TerminalPutBack ==
    /\ exited => stdin = found \/ unset \/ Restoring
    /\ stdin # Pipe => ("opost" \in stdin <=> "opost" \in found)
    /\ main \notin {"port", "refused"} /\ port # Pipe => port = {"cs8"}
===============================================================================
