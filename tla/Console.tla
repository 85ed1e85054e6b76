-------------------------------- MODULE Console --------------------------------
(***************************************************************************)
(* The console in both directions.                                         *)
(*                                                                         *)
(* Keystrokes: the laptop's keyboard thread (pump_input in rv64-host's     *)
(* serve.rs) frames what the operator types and writes it, under FrameTx's *)
(* lock, to the wire on which the page loop answers the badge; the badge   *)
(* decodes the stream during an exchange or in the pump between slices,    *)
(* and the run loop moves the keys to the UART, where the guest reads them.*)
(*                                                                         *)
(* Output: the guest's bytes pass the UART to the Mirrored sink, and the   *)
(* run loop sends what it has gathered to the laptop's transcript, in      *)
(* frames.  Nobody answers a console frame and nobody sends it again: one  *)
(* the link has accepted is lost when the log mirror, which writes to the  *)
(* same endpoint, puts a line between two of its packets, or when nobody   *)
(* listens on the laptop.                                                  *)
(*                                                                         *)
(* Keys and printed bytes are numbered.  A frame crosses the wire in two   *)
(* parts: no write to a serial port is atomic, and a paced reply is not    *)
(* even one write.                                                         *)
(***************************************************************************)
EXTENDS Integers, Sequences, FiniteSets, SequencesExt

CONSTANTS MIRROR_CAP,  \* bytes the Mirrored sink holds
          MAX_PAYLOAD, \* bytes a frame carries at most
          Masks,       \* what the guest writes to IER
          Scripts,     \* what the operator may type: sequences of KEY, ESCAPE and QUIT
          MaxPrinted,  \* bound on the bytes the guest prints
          MaxAsked,    \* bound on the exchanges the badge starts
          MaxTermios   \* bound on the guest's visits to the divisor latch

ASSUME ConsoleAssumption ==
    /\ MAX_PAYLOAD \in Nat \ {0}
    /\ {MIRROR_CAP, MaxPrinted, MaxAsked, MaxTermios} \subseteq Nat
    /\ Scripts \subseteq Seq({"KEY", "ESCAPE", "QUIT"})
    /\ Masks \subseteq SUBSET {"rx", "tx"}

VARIABLES typed, nread, escaped, kpc, payload, quit,  \* the operator, the keyboard thread
          requests, ppc,                              \* the page loop
          lock, up,                                   \* FrameTx, and whether serve still runs
          wire,                                       \* laptop to badge
          partial, console, lost,                     \* LinkInner: its Mux and its console
          asking, asked, bpc,                         \* the badge's main thread
          input, dlab, ier, got, visits,              \* the UART, and what the guest read
          printed, buf, dropped,                      \* the guest's output, the Mirrored sink
          mirror_faults, transcript,
          unheard                                     \* frames accepted that never got there

keyVars    == <<typed, nread, escaped, kpc, payload, quit>>
pageVars   == <<requests, ppc>>
txVars     == <<lock, up>>
linkVars   == <<partial, console, lost>>
mainVars   == <<asking, asked, bpc>>
uartVars   == <<input, dlab, ier, got, visits>>
mirrorVars == <<printed, buf, dropped, mirror_faults, transcript, unheard>>
hostVars   == <<keyVars, pageVars, txVars>>
badgeVars  == <<linkVars, mainVars, uartVars, mirrorVars>>
vars == <<hostVars, wire, badgeVars>>

\* The operator's keys are chosen at the start: when they are typed shows only in the reads.
Init == /\ typed \in Scripts
        /\ nread = 0 /\ escaped = FALSE /\ kpc = "read"
        /\ payload = <<>> /\ quit = FALSE
        /\ requests = 0 /\ ppc = "read"
        /\ lock = "free" /\ up = TRUE
        /\ wire = <<>>
        /\ partial = <<>> /\ console = <<>> /\ lost = {}
        /\ asking = FALSE /\ asked = 0 /\ bpc = "slice"
        /\ input = <<>> /\ dlab = FALSE /\ ier = {} /\ got = <<>> /\ visits = 0
        /\ printed = 0 /\ buf = <<>> /\ dropped = 0
        /\ mirror_faults = 0 /\ transcript = <<>> /\ unheard = 0
-------------------------------------------------------------------------------
(* The keyboard thread: pump_input. *)

\* One byte of a read: what it adds to the payload, and the state it leaves.
Scan(s, i) ==
    LET plain == ~s.quit /\ ~s.escaped
    IN  CASE s.quit                        -> s
          [] plain /\ typed[i] = "ESCAPE"  -> [s EXCEPT !.escaped = TRUE]
          [] plain /\ typed[i] = "QUIT"    -> [s EXCEPT !.quit = TRUE]
          [] OTHER -> [s EXCEPT !.out = Append(@, i), !.escaped = FALSE]

Scanned(n) == LET scan[j \in 0 .. n] == IF j = 0
                                        THEN [out |-> <<>>, escaped |-> escaped, quit |-> FALSE]
                                        ELSE Scan(scan[j - 1], nread + j)
              IN  scan[n]

\* A read returns any number of the keys waiting; a read of nothing but ESCAPE sends nothing.
ReadKeys == /\ up /\ kpc = "read"
            /\ \E n \in 1 .. Len(typed) - nread :
                 /\ nread' = nread + n
                 /\ LET s == Scanned(n)
                    IN  /\ payload' = s.out
                        /\ escaped' = s.escaped
                        /\ quit' = s.quit
                        /\ kpc' = IF s.out # <<>> THEN "send"
                                  ELSE IF s.quit THEN "exit" ELSE "read"
            /\ UNCHANGED <<typed, pageVars, txVars, wire, badgeVars>>

\* stdin is closed: the thread ends and the page loop goes on.
InputEof == /\ up /\ kpc = "read" /\ nread = Len(typed)
            /\ kpc' = "done"
            /\ UNCHANGED <<typed, nread, escaped, payload, quit, pageVars, txVars, wire, badgeVars>>

\* Ctrl-C: the keyboard thread ends the process, whatever the page loop is doing.
Exit == /\ up /\ kpc = "exit"
        /\ up' = FALSE
        /\ UNCHANGED <<keyVars, pageVars, lock, wire, badgeVars>>
-------------------------------------------------------------------------------
(* FrameTx: the lock is held for a whole reply. *)

Part(from, keys, n) == [from |-> from, keys |-> keys, part |-> n]

\* Mutant: the lock is held for a write, not for a reply.
Write_unlocking(who, keys, n) ==
    /\ up /\ lock \in {"free", who}
    /\ wire' = Append(wire, Part(who, keys, n))
    /\ lock' = "free"
    /\ UNCHANGED <<up, badgeVars>>

Write(who, keys, n) == /\ up /\ lock \in {"free", who}
                       /\ wire' = Append(wire, Part(who, keys, n))
                       /\ lock' = IF n = 1 THEN who ELSE "free"
                       /\ UNCHANGED <<up, badgeVars>>

SendKeys == /\ kpc = "send" /\ Write("keys", payload, 1)
            /\ kpc' = "rest"
            /\ UNCHANGED <<typed, nread, escaped, payload, quit, pageVars>>
SendKeysRest == /\ kpc = "rest" /\ Write("keys", payload, 2)
                /\ kpc' = IF quit THEN "exit" ELSE "read"
                /\ payload' = <<>>
                /\ UNCHANGED <<typed, nread, escaped, quit, pageVars>>

\* The page loop: serve_shared reads a request, answers it and writes the reply.
ReadRequest == /\ up /\ ppc = "read" /\ requests > 0
               /\ requests' = requests - 1
               /\ ppc' = "send"
               /\ UNCHANGED <<keyVars, txVars, wire, badgeVars>>
SendReply == /\ ppc = "send" /\ Write("pages", <<>>, 1)
             /\ ppc' = "rest"
             /\ UNCHANGED <<keyVars, requests>>
SendReplyRest == /\ ppc = "rest" /\ Write("pages", <<>>, 2)
                 /\ ppc' = "read"
                 /\ UNCHANGED <<keyVars, requests>>
-------------------------------------------------------------------------------
(* The badge's link. *)

Ended == bpc = "ended"

\* A page fault in the slice: the main thread asks, and waits.
Ask == /\ bpc = "slice" /\ ~asking /\ asked < MaxAsked
       /\ asking' = TRUE
       /\ asked' = asked + 1
       /\ requests' = requests + 1
       /\ UNCHANGED <<keyVars, ppc, txVars, wire, linkVars, bpc, uartVars, mirrorVars>>

\* LinkInner::absorb, one part at a time: in an exchange, or in the pump between slices.
Absorb ==
    LET x == Head(wire)
        whole == x.part = 2 /\ partial = <<[x EXCEPT !.part = 1]>>
    IN  /\ asking \/ bpc = "service"
        /\ wire # <<>>
        /\ wire' = Tail(wire)
        /\ partial' = IF x.part = 1 THEN <<x>> ELSE <<>>
        /\ console' = IF whole THEN console \o x.keys ELSE console
        /\ asking' = (asking /\ ~(whole /\ x.from = "pages"))
        /\ UNCHANGED <<hostVars, lost, asked, bpc, uartVars, mirrorVars>>

\* The exchange is given up, survivably: resync drops the half of a frame the decoder holds.
GiveUp == /\ asking
          /\ asking' = FALSE
          /\ partial' = <<>>
          /\ lost' = lost \cup UNION {Range(x.keys) : x \in Range(partial)}
          /\ UNCHANGED <<hostVars, wire, console, asked, bpc, uartVars, mirrorVars>>
-------------------------------------------------------------------------------
(* The UART: load and store. *)

Running == bpc = "slice" /\ ~asking

\* Mutant: no cause is ever pending.
IIR_hardwired == "none"

\* IIR: only an enabled cause, RX before TX.
IIR == IF "rx" \in ier /\ input # <<>> THEN "rx" ELSE IF "tx" \in ier THEN "tx" ELSE "none"

\* Offset 0, read: the divisor while DLAB is set, else the oldest key, or 0.
LoadRBR == /\ Running
           /\ got' = IF dlab \/ input = <<>> THEN got ELSE Append(got, Head(input))
           /\ input' = IF dlab \/ input = <<>> THEN input ELSE Tail(input)

\* The guest's driver polls IIR and reads a key when it reports one.
DriverReads == /\ IIR # "none" /\ ~dlab /\ input # <<>> /\ LoadRBR
               /\ UNCHANGED <<hostVars, wire, linkVars, mainVars, dlab, ier, visits, mirrorVars>>

\* set_termios: DLAB up, the divisor read back, DLAB down.
SetDlab == /\ Running /\ ~dlab /\ visits < MaxTermios
           /\ dlab' = TRUE
           /\ visits' = visits + 1
           /\ UNCHANGED <<hostVars, wire, linkVars, mainVars, input, ier, got, mirrorVars>>
ReadDivisor == /\ dlab /\ LoadRBR
               /\ UNCHANGED <<hostVars, wire, linkVars, mainVars, dlab, ier, visits, mirrorVars>>
ClearDlab == /\ Running /\ dlab
             /\ dlab' = FALSE
             /\ UNCHANGED <<hostVars, wire, linkVars, mainVars, input, ier, got, visits, mirrorVars>>

\* Offset 1, written: the divisor while DLAB is set, else IER.
StoreIER(e) == /\ Running
               /\ ier' = IF dlab THEN ier ELSE e
               /\ UNCHANGED <<hostVars, wire, linkVars, mainVars, input, dlab, got, visits, mirrorVars>>
-------------------------------------------------------------------------------
(* Output: Mirrored, and the run loop's drains. *)

\* n more bytes for the sink; what does not fit is dropped.
Gathered(n) == LET room == MIRROR_CAP - Len(buf)
               IN  buf \o [i \in 1 .. (IF n <= room THEN n ELSE room) |-> printed + i]

\* Offset 0, written: a byte of output, unless DLAB is set.
StoreTHR == /\ Running /\ printed < MaxPrinted
            /\ LET n == IF dlab THEN 0 ELSE 1
               IN  /\ printed' = printed + n
                   /\ buf' = Gathered(n)
                   /\ dropped' = dropped + n - (Len(buf') - Len(buf))
            /\ UNCHANGED <<hostVars, wire, linkVars, mainVars, uartVars, mirror_faults, transcript,
                           unheard>>

\* encode: out goes in frames of MAX_PAYLOAD bytes, the last one with what is left.
FrameEnd(out, i) == IF i * MAX_PAYLOAD <= Len(out) THEN i * MAX_PAYLOAD ELSE Len(out)
Chunk(out, i) == SubSeq(out, FrameEnd(out, i - 1) + 1, FrameEnd(out, i))

\* What the laptop gets of the first k frames, without those that are lost on the way.
Arrived(out, k, gone) == FlattenSeq([i \in 1 .. k |-> IF i \in gone THEN <<>> ELSE Chunk(out, i)])

\* Mutant: what could not be sent is not counted.
Mirror_silent(out) ==
    /\ buf' = <<>>
    /\ \E n \in 0 .. Len(out) :
         /\ Len(out) \in (n - 1) * MAX_PAYLOAD + 1 .. n * MAX_PAYLOAD
         /\ \E k \in 0 .. n, gone \in SUBSET (1 .. n) :
              /\ gone \subseteq 1 .. k
              /\ transcript' = transcript \o Arrived(out, k, gone)
              /\ unheard' = unheard + Cardinality(gone)
              /\ UNCHANGED mirror_faults

(***************************************************************************)
(* take_output and send_console.  out goes in n frames, none when it is    *)
(* empty.  The link takes the first k of them whole, and the laptop gets   *)
(* those but the gone: split by log text, heard by nobody, or held up for  *)
(* good behind a frame cut short.  A send that fails has stopped short of  *)
(* the end: it is counted, and not tried again.                            *)
(***************************************************************************)
Mirror(out) ==
    /\ buf' = <<>>
    /\ \E n \in 0 .. Len(out) :
         /\ Len(out) \in (n - 1) * MAX_PAYLOAD + 1 .. n * MAX_PAYLOAD
         /\ \E k \in 0 .. n, gone \in SUBSET (1 .. n) :
              /\ gone \subseteq 1 .. k
              /\ transcript' = transcript \o Arrived(out, k, gone)
              /\ unheard' = unheard + Cardinality(gone)
              /\ mirror_faults' = mirror_faults + (IF k < n THEN 1 ELSE 0)

SliceEnds == /\ Running
             /\ bpc' = "service"
             /\ UNCHANGED <<hostVars, wire, linkVars, asking, asked, uartVars, mirrorVars>>

\* After the pump: the keys to the UART, the output to the laptop.
Service == /\ bpc = "service"
           /\ bpc' = "slice"
           /\ input' = input \o console
           /\ console' = <<>>
           /\ Mirror(buf)
           /\ UNCHANGED <<hostVars, wire, partial, lost, asking, asked, dlab, ier, got, visits,
                          printed, dropped>>

\* The run ends: unless it was stopped between slices, its ending is printed; then one more drain.
RunEnds == /\ Running
           /\ bpc' = "ended"
           /\ \E n \in IF buf = <<>> THEN {0, 1} ELSE {1} :
                /\ printed' = printed + n
                /\ dropped' = dropped + n - (Len(Gathered(n)) - Len(buf))
                /\ Mirror(Gathered(n))
           /\ UNCHANGED <<hostVars, wire, linkVars, asking, asked, uartVars>>
-------------------------------------------------------------------------------
Keyboard == ReadKeys \/ SendKeys \/ SendKeysRest \/ Exit
PageLoop == ReadRequest \/ SendReply \/ SendReplyRest

Next == \/ Keyboard
        \/ InputEof
        \/ PageLoop
        \/ Ask \/ Absorb \/ GiveUp
        \/ DriverReads \/ SetDlab \/ ReadDivisor \/ ClearDlab
        \/ \E e \in Masks : StoreIER(e)
        \/ StoreTHR \/ SliceEnds \/ Service \/ RunEnds

Spec == Init /\ [][Next]_vars
-------------------------------------------------------------------------------
(* Properties. *)

(***************************************************************************)
(* What the operator means by the keys: a key is escaped when an odd       *)
(* number of ESCAPEs stands right before it, and it is for the guest when  *)
(* it is escaped or ordinary and no unescaped QUIT came first.             *)
(***************************************************************************)
EscapedKey(i) == LET stop == CHOOSE j \in 0 .. i - 1 :
                               /\ j = 0 \/ typed[j] # "ESCAPE"
                               /\ \A l \in j + 1 .. i - 1 : typed[l] = "ESCAPE"
                 IN  (i - 1 - stop) % 2 = 1
ForGuest(i) == /\ EscapedKey(i) \/ typed[i] = "KEY"
               /\ \A j \in 1 .. i - 1 : typed[j] = "QUIT" => EscapedKey(j)

\* The keys on the wire, by the half that completes their frame.
InFlight == FlattenSeq([k \in 1 .. Len(wire) |-> IF wire[k].part = 2 THEN wire[k].keys ELSE <<>>])

(***************************************************************************)
(* Every key for the guest that the keyboard thread has read is somewhere  *)
(* on its way exactly once, in the order typed, however the reads cut the  *)
(* escapes and whatever the divisor latch shadows; only a frame half way   *)
(* in when an exchange is given up is lost.  No frame of one writer lands  *)
(* inside a frame of the other (FrameTx).                                  *)
(***************************************************************************)
KeysExact ==
    LET way == got \o input \o console \o InFlight \o payload
    IN  /\ \A j, k \in 1 .. Len(way) : j < k => way[j] < way[k]
        /\ Range(way) \ lost = {i \in 1 .. nread : ForGuest(i)} \ lost
        /\ \A k \in 1 .. Len(wire) - 1 :
             wire[k].part = 1 => wire[k + 1] = [wire[k] EXCEPT !.part = 2]

(***************************************************************************)
(* The transcript is what the guest printed, in order and without repeats. *)
(* Its holes are no larger than the counts say: what the sink's cap        *)
(* dropped, at most a sinkful for every mirror fault, and at most a frame  *)
(* for every one the link accepted and the laptop never got.  Of these the *)
(* badge counts the first two.  It knows nothing of the third              *)
(* (RETRY_BUDGET's comment, usbhost.rs:292), so mirror_faults = 0 does not *)
(* mean that the transcript is whole.  A run that has ended leaves nothing *)
(* behind in the sink.                                                     *)
(***************************************************************************)
TranscriptTrue ==
    LET t == transcript \o buf
    IN  /\ \A j, k \in 1 .. Len(t) : j < k => t[j] < t[k]
        /\ printed - dropped - Len(t) \in 0 .. mirror_faults * MIRROR_CAP + unheard * MAX_PAYLOAD
        /\ Ended => buf = <<>>

(***************************************************************************)
(* The laptop's threads run, the badge's slices end and their service is   *)
(* done, an exchange ends by its deadline if not by its reply; the guest's *)
(* driver polls again and again, and leaves the divisor latch.             *)
(***************************************************************************)
Fairness == /\ WF_vars(Keyboard) /\ WF_vars(PageLoop)
            /\ SF_vars(Absorb) /\ WF_vars(GiveUp) /\ WF_vars(SliceEnds) /\ WF_vars(Service)
            /\ SF_vars(DriverReads) /\ SF_vars(ClearDlab)

\* The keys for the guest that it has not read.
Unread == {i \in 1 .. nread : ForGuest(i)} \ (Range(got) \cup lost)

(***************************************************************************)
(* A key for the guest is read in the end, with no page fault to carry it: *)
(* the pump, the hand-over to the UART and IIR see to it while the guest   *)
(* has the receive interrupt enabled.                                      *)
(***************************************************************************)
KeyIsRead == Unread # {} ~> Unread = {} \/ Ended \/ "rx" \notin ier
===============================================================================
