------------------------------- MODULE Transmit -------------------------------
(***************************************************************************)
(* The badge's transmit path: UsbTransport::send in                        *)
(* badge/app/src/usbhost.rs, its loop send_paced and the tally it keeps.   *)
(*                                                                         *)
(* The USB class accepts what its ring has room for and puts it on the     *)
(* wire when a transfer completes or a flush pushes it (external, modelled *)
(* from what usbhost.rs relies on).  A frame is a number of units; unit i  *)
(* of send f is <<f, i>>.                                                  *)
(***************************************************************************)
EXTENDS Integers, Sequences, SequencesExt

CONSTANTS Lengths,            \* the lengths of the frames sent
          TX_PACKET,          \* units offered in one call
          SEND_RETRY_BUDGET,  \* refusals in a row that are not yet a stall
          RING                \* units the USB class holds

ASSUME TransmitAssumption == /\ Lengths \subseteq Nat \ {0}
                             /\ {TX_PACKET, RING} \subseteq Nat \ {0}
                             /\ SEND_RETRY_BUDGET \in Nat

VARIABLES spc, sent, idle, tardy,  \* send_paced, and whether SEND_DEADLINE_MS has passed
          sends,                   \* a TxTally for every send so far; TxLog is their sum
          ring, wire               \* the USB class, and what has left the badge

txVars == <<spc, sent, idle, tardy, sends, ring, wire>>

TxInit == /\ spc = "idle" /\ sent = 0 /\ idle = 0 /\ tardy = FALSE
          /\ sends = <<>> /\ ring = <<>> /\ wire = <<>>

Tally == Last(sends)
multi_packet == Tally.asked > TX_PACKET

BeginSend(n) == /\ spc = "idle"
                /\ spc' = "sending"
                /\ sent' = 0 /\ idle' = 0 /\ tardy' = FALSE
                /\ sends' = Append(sends, [asked |-> n, accepted |-> 0, res |-> "none"])
                /\ UNCHANGED <<ring, wire>>

\* The loop is left: a multi-packet frame is flushed before send returns.
Leave(tally, res) == /\ sends' = [sends EXCEPT ![Len(sends)] = [tally EXCEPT !.res = res]]
                     /\ spc' = IF multi_packet THEN "flush" ELSE "returned"

\* Ok(0): the ring is full, or nobody drains it.
Refused == /\ idle' = idle + 1
           /\ UNCHANGED <<sent, ring>>
           /\ IF idle' > SEND_RETRY_BUDGET
                THEN Leave(Tally, "Stalled")
                ELSE UNCHANGED <<spc, sends>>

\* Mutant: a short accept counts as the whole offer.
Accepted_whole(n, offered) ==
    /\ idle' = 0
    /\ sent' = sent + offered
    /\ ring' = ring \o [i \in 1 .. n |-> <<Len(sends), sent + i>>]
    /\ LET tally == [Tally EXCEPT !.accepted = @ + n]
       IN  IF sent' < Tally.asked
             THEN /\ sends' = [sends EXCEPT ![Len(sends)] = tally]
                  /\ UNCHANGED spc
             ELSE Leave(tally, "ok")

\* Ok(n): the next offer starts behind what was taken.
Accepted(n, offered) ==
    /\ idle' = 0
    /\ sent' = sent + n
    /\ ring' = ring \o [i \in 1 .. n |-> <<Len(sends), sent + i>>]
    /\ LET tally == [Tally EXCEPT !.accepted = @ + n]
       IN  IF sent' < Tally.asked
             THEN /\ sends' = [sends EXCEPT ![Len(sends)] = tally]
                  /\ UNCHANGED spc
             ELSE Leave(tally, "ok")

Least(a, b) == IF a <= b THEN a ELSE b

\* One turn of the loop: the clock, then one packet at most.
Offer == /\ spc = "sending" /\ ~tardy
         /\ LET offered == Least(Tally.asked - sent, TX_PACKET)
            IN  \/ Refused
                \/ \E n \in 1 .. Least(offered, RING - Len(ring)) : Accepted(n, offered)
         /\ UNCHANGED <<tardy, wire>>

SinkFails == /\ spc = "sending" /\ ~tardy
             /\ Leave(Tally, "Failed")
             /\ UNCHANGED <<sent, idle, tardy, ring, wire>>

TimedOut == /\ spc = "sending" /\ tardy
            /\ Leave(Tally, "TimedOut")
            /\ UNCHANGED <<sent, idle, tardy, ring, wire>>

\* SEND_DEADLINE_MS passes.
SendExpires == /\ spc = "sending" /\ ~tardy
               /\ tardy' = TRUE
               /\ UNCHANGED <<spc, sent, idle, sends, ring, wire>>

Flushed == /\ spc = "flush"
           /\ spc' = "returned"
           /\ UNCHANGED <<sent, idle, tardy, sends, ring, wire>>

Returns == /\ spc = "returned"
           /\ spc' = "idle"
           /\ UNCHANGED <<sent, idle, tardy, sends, ring, wire>>

\* A unit leaves the ring.
OnWire == /\ ring # <<>>
          /\ wire' = Append(wire, Head(ring))
          /\ ring' = Tail(ring)
          /\ UNCHANGED <<spc, sent, idle, tardy, sends>>

-------------------------------------------------------------------------------
(***************************************************************************)
(* The sends whose frames the laptop's decoder gives out of the stream w.  *)
(* It waits until all a header announces is there: a frame cut short hides *)
(* what follows it until then, and gives its place up to the next header.  *)
(***************************************************************************)
Decoded(w) ==
    LET Heads == {k \in 1 .. Len(w) : w[k][2] = 1} \cup {Len(w) + 1}
        from[k \in 1 .. Len(w) + 1] ==
            IF k > Len(w) THEN <<>>
            ELSE LET end  == k + sends[w[k][1]].asked
                     next == CHOOSE h \in Heads : h > k /\ \A g \in Heads : g > k => h <= g
                 IN  IF end > Len(w) + 1 THEN <<>>
                     ELSE IF next = end THEN <<w[k][1]>> \o from[end]
                     ELSE from[next]
    IN  from[1]
-------------------------------------------------------------------------------
(***************************************************************************)
(* What has left the badge, or waits in the ring to leave it, is the       *)
(* accepted part of every send, in order: whatever the ring took of each   *)
(* offer, nothing is skipped, repeated or invented.  And a send that       *)
(* returned Ok was accepted whole ("accepted < 4109 with send still        *)
(* returning Ok: impossible by send_paced's loop condition").              *)
(***************************************************************************)
HandedOver ==
    /\ wire \o ring = FlattenSeq([f \in 1 .. Len(sends) |->
                                    [i \in 1 .. sends[f].accepted |-> <<f, i>>]])
    /\ \A f \in 1 .. Len(sends) : sends[f].res = "ok" => sends[f].accepted = sends[f].asked
===============================================================================
