-------------------------------- MODULE Receive --------------------------------
(***************************************************************************)
(* The badge's receive path: UsbTransport in badge/app/src/usbhost.rs.     *)
(*                                                                         *)
(* Three threads of the badge meet in the USB server.  The reader keeps a  *)
(* listener parked there and queues what it is handed; the flush watchdog  *)
(* takes the listener back on a period, with whatever is buffered; the     *)
(* main thread confirms the park, sends a request (see Transmit) and       *)
(* drains the queue.  The peer is synchronous: it sends Reply packets per  *)
(* request it gets and is silent otherwise.                                *)
(*                                                                         *)
(* The server is external (services/usb-bao1x): it is modelled from what   *)
(* usbhost.rs says and relies on.  Packets are numbered as they arrive.    *)
(***************************************************************************)
EXTENDS Integers, Sequences, SequencesExt

CONSTANTS Reply,           \* packets in one reply
          BUFLEN,          \* packets one delivery can carry (SERIAL_BINARY_BUFLEN)
          RX_ERR_BUDGET,   \* failed lends before the reader stops
          MaxRequests      \* bound on the requests of one behaviour

ASSUME ReceiveAssumption == /\ Reply \in Nat \ {0} /\ BUFLEN \in Nat \ {0}
                            /\ RX_ERR_BUDGET \in Nat \ {0} /\ MaxRequests \in Nat

VARIABLES mode, listener, serial_buf,  \* the USB server
          cleared,                     \* packets it threw away
          rpc, d,                      \* the reader thread, and what wait_binary gave it
          parked, q, errs, gave_up,    \* Rx, shared between the threads
          mpc, late, primed,           \* the main thread in arm: confirm_park
          requests, taken,             \* requests sent, packets drained
          answered, owed, arrived      \* the requests the peer has answered, the packets it
                                       \* still has to send, and has sent

serverVars == <<mode, listener, serial_buf, cleared>>
readerVars == <<rpc, d, parked, q, errs, gave_up>>
mainVars   == <<mpc, late, primed, requests, taken>>
peerVars   == <<answered, owed, arrived>>
rxVars == <<serverVars, readerVars, mainVars, peerVars>>

RxInit == /\ mode = "NoListener" /\ listener = FALSE /\ serial_buf = <<>> /\ cleared = 0
          /\ rpc = "store" /\ d = <<>>
          /\ parked = FALSE /\ q = <<>> /\ errs = 0 /\ gave_up = FALSE
          /\ mpc = "sample" /\ late = FALSE /\ primed = FALSE
          /\ requests = 0 /\ taken = <<>>
          /\ answered = <<>> /\ owed = 0 /\ arrived = 0
-------------------------------------------------------------------------------
(* The reader thread. *)

\* The flag is published before the syscall, so it can be early.
StorePark == /\ rpc = "store"
             /\ parked' = TRUE
             /\ rpc' = "lend"
             /\ UNCHANGED <<serverVars, d, q, errs, gave_up, mainVars, peerVars>>

\* SerialHookBinary: flips the mode and keeps the listener.  It does not drain.
Lend == /\ rpc = "lend"
        /\ mode' = "BinaryListener"
        /\ listener' = TRUE
        /\ rpc' = "blocked"
        /\ UNCHANGED <<serial_buf, cleared, d, parked, q, errs, gave_up, mainVars, peerVars>>

LendFails == /\ rpc = "lend"
             /\ rpc' = "failed"
             /\ UNCHANGED <<serverVars, d, parked, q, errs, gave_up, mainVars, peerVars>>

\* wait_binary returned: the flag first, then the queue.
Unpark == /\ rpc = "returned"
          /\ parked' = FALSE
          /\ rpc' = IF d = <<>> THEN "store" ELSE "push"
          /\ UNCHANGED <<serverVars, d, q, errs, gave_up, mainVars, peerVars>>

\* Mutant: a delivery goes ahead of what is queued.
Push_front == /\ rpc = "push"
              /\ q' = d \o q
              /\ d' = <<>>
              /\ rpc' = "store"
              /\ UNCHANGED <<serverVars, parked, errs, gave_up, mainVars, peerVars>>

\* Mutant: the reader does not park again after a delivery.
Push_once == /\ rpc = "push"
             /\ q' = q \o d
             /\ d' = <<>>
             /\ rpc' = "stopped"
             /\ UNCHANGED <<serverVars, parked, errs, gave_up, mainVars, peerVars>>

Push == /\ rpc = "push"
        /\ q' = q \o d
        /\ d' = <<>>
        /\ rpc' = "store"
        /\ UNCHANGED <<serverVars, parked, errs, gave_up, mainVars, peerVars>>

\* Mutant: a reader that stops leaves its flag up.
CountFailure_stays_parked ==
    /\ rpc = "failed"
    /\ errs' = errs + 1
    /\ gave_up' = (errs' >= RX_ERR_BUDGET)
    /\ rpc' = IF errs' >= RX_ERR_BUDGET THEN "stopped" ELSE "store"
    /\ UNCHANGED <<serverVars, d, parked, q, mainVars, peerVars>>

\* Every failed lend costs a page for good, so the reader stops at its budget.
CountFailure == /\ rpc = "failed"
                /\ parked' = FALSE
                /\ errs' = errs + 1
                /\ gave_up' = (errs' >= RX_ERR_BUDGET)
                /\ rpc' = IF errs' >= RX_ERR_BUDGET THEN "stopped" ELSE "store"
                /\ UNCHANGED <<serverVars, d, q, mainVars, peerVars>>

ReaderStep == StorePark \/ Lend \/ LendFails \/ Unpark \/ Push \/ CountFailure
-------------------------------------------------------------------------------
(* The USB server, and the wire. *)

\* The first packets of b, at most one delivery, go to the parked listener.
Deliver(b) == LET n == IF Len(b) <= BUFLEN THEN Len(b) ELSE BUFLEN
              IN  /\ d' = SubSeq(b, 1, n)
                  /\ serial_buf' = SubSeq(b, n + 1, Len(b))
                  /\ listener' = FALSE
                  /\ rpc' = "returned"

IrqSerialRx ==
    LET b == Append(serial_buf, arrived + 1)
    IN  /\ owed > 0
        /\ owed' = owed - 1
        /\ arrived' = arrived + 1
        /\ \/ /\ mode = "NoListener"
              /\ cleared' = cleared + Len(b)
              /\ serial_buf' = <<>>
              /\ UNCHANGED <<mode, listener, rpc, d>>
           \/ /\ mode = "BinaryListener" /\ listener
              /\ Deliver(b)
              /\ UNCHANGED <<mode, cleared>>
           \/ /\ mode = "BinaryListener" /\ ~listener
              /\ serial_buf' = b
              /\ UNCHANGED <<mode, listener, cleared, rpc, d>>
        /\ UNCHANGED <<answered, parked, q, errs, gave_up, mainVars>>

\* SerialFlush takes the listener whether or not anything is buffered.
SerialFlush == /\ mode = "BinaryListener" /\ listener
               /\ Deliver(serial_buf)
               /\ UNCHANGED <<mode, cleared, parked, q, errs, gave_up, mainVars, peerVars>>
-------------------------------------------------------------------------------
(* The main thread. *)

(***************************************************************************)
(* UsbTransport::new arms once before it returns, and goes on whether or   *)
(* not that worked; after it, every attempt of an exchange arms again.     *)
(***************************************************************************)
BeginArm == /\ mpc = "idle"
            /\ requests < MaxRequests
            /\ mpc' = "sample"
            /\ late' = FALSE
            /\ UNCHANGED <<serverVars, readerVars, primed, requests, taken, peerVars>>

\* confirm_park: two samples with a scheduler turn in between; an un-park is absorbed.
SampleParked == /\ mpc = "sample" /\ parked
                /\ mpc' = "confirm"
                /\ UNCHANGED <<serverVars, readerVars, late, primed, requests, taken, peerVars>>

\* Not parked: past PARK_WAIT_MS arm fails, before it the loop goes round.
NotParked == /\ mpc' = IF late THEN "idle" ELSE "sample"
             /\ primed' = (primed \/ late)
             /\ UNCHANGED <<serverVars, readerVars, late, requests, taken, peerVars>>

SampleUnparked == mpc = "sample" /\ ~parked /\ NotParked
ConfirmLost    == mpc = "confirm" /\ ~parked /\ NotParked

Confirm == /\ mpc = "confirm" /\ parked
           /\ mpc' = IF primed THEN "send" ELSE "idle"
           /\ primed' = TRUE
           /\ UNCHANGED <<serverVars, readerVars, late, requests, taken, peerVars>>

\* The send begins, some time after the park was confirmed; if it fails the exchange is over.
BeginRequest == /\ mpc = "send"
                /\ mpc' = "sending"
                /\ requests' = requests + 1
                /\ UNCHANGED <<serverVars, readerVars, late, primed, taken, peerVars>>
EndRequest(ok) == /\ mpc = "sending"
                  /\ mpc' = IF ok THEN "wait" ELSE "idle"
                  /\ UNCHANGED <<serverVars, readerVars, late, primed, requests, taken, peerVars>>

\* The peer gets the requests rs.
Answer(rs) == /\ answered' = answered \o rs
              /\ owed' = owed + Len(rs) * Reply
              /\ UNCHANGED <<serverVars, readerVars, mainVars, arrived>>

\* PARK_WAIT_MS passes.
ArmExpires == /\ mpc \in {"sample", "confirm"} /\ ~late
              /\ late' = TRUE
              /\ UNCHANGED <<serverVars, readerVars, mpc, primed, requests, taken, peerVars>>

(***************************************************************************)
(* recv and poll drain the queue.  The exchange ends when the reply to its *)
(* latest attempt is there whole; before that it may start a new attempt.  *)
(***************************************************************************)
Latest == Len(answered) > 0 /\ Last(answered) = requests
ReplyLost == Latest /\ cleared > (Len(answered) - 1) * Reply
Drain == /\ mpc = "wait"
         /\ q # <<>>
         /\ taken' = taken \o q
         /\ q' = <<>>
         /\ mpc' = IF Latest /\ ~ReplyLost /\ Last(taken') = Len(answered) * Reply
                   THEN "idle" ELSE "wait"
         /\ UNCHANGED <<serverVars, rpc, d, parked, errs, gave_up, late, primed, requests, peerVars>>

Retry == /\ mpc = "wait"
         /\ requests < MaxRequests
         /\ mpc' = "sample"
         /\ late' = FALSE
         /\ UNCHANGED <<serverVars, readerVars, primed, requests, taken, peerVars>>

MainStep == SampleParked \/ SampleUnparked \/ Confirm \/ ConfirmLost \/ Drain

RxStep == \/ ReaderStep
          \/ IrqSerialRx
          \/ SerialFlush
          \/ BeginArm
          \/ MainStep
          \/ Retry
          \/ ArmExpires
-------------------------------------------------------------------------------
(* Properties. *)

(***************************************************************************)
(* No packet that reached BinaryListener mode is lost, repeated or         *)
(* reordered on its way through the server, the reader and the queue,      *)
(* however the watchdog, the interrupts and the reader interleave.         *)
(***************************************************************************)
StreamIntact ==
    taken \o q \o d \o serial_buf = [i \in 1 .. arrived - cleared |-> cleared + i]

(***************************************************************************)
(* The server holds a listener exactly while the reader is blocked, and    *)
(* then the flag says so: the flag may be early, it is never wrong the     *)
(* other way round.                                                        *)
(***************************************************************************)
ListenerIsAnnounced == /\ listener <=> rpc = "blocked"
                       /\ listener => parked

(***************************************************************************)
(* Both: the reader's two-step park and the server's hand-over agree on    *)
(* who holds what, and nothing is lost between them.                       *)
(***************************************************************************)
ReceivesIntact == StreamIntact /\ ListenerIsAnnounced

(***************************************************************************)
(* Once the reader has spent its budget of lost pages, no park is          *)
(* confirmed any more, whatever sample of the flag the main thread had     *)
(* already taken: at most the one request confirmed before it can leave.   *)
(***************************************************************************)
NoConfirmAfterStop == [][gave_up /\ mpc # "send" => mpc' # "send"]_rxVars
===============================================================================
