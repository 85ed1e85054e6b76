------------------------------- MODULE Transport -------------------------------
(***************************************************************************)
(* UsbTransport: the receive and the transmit path of the badge together.  *)
(* Both use one USB server and one main thread: a request leaves in the    *)
(* pieces the ring accepts, the flush that pushes its tail out also takes  *)
(* the reader's listener, and the laptop answers only what reaches it      *)
(* whole.                                                                  *)
(***************************************************************************)
EXTENDS Receive, Transmit

vars == <<rxVars, txVars>>

Init == RxInit /\ TxInit

\* An attempt's request: a page read is one packet, a write several.
Send == /\ BeginRequest
        /\ \E n \in Lengths : BeginSend(n)

SendReturns == Returns /\ EndRequest(Tally.res = "ok")

\* serial_flush takes the listener, parked or not, as the watchdog's does.
SendFlushes == /\ Flushed
               /\ IF listener THEN SerialFlush ELSE UNCHANGED rxVars

\* A unit reaches the laptop, and may complete frames there.
Arrives == /\ OnWire
           /\ LET n == Len(Decoded(wire))
              IN  Answer(SubSeq(Decoded(wire'), n + 1, Len(Decoded(wire'))))

Sending == SendFlushes \/ SendReturns \/ (UNCHANGED rxVars /\ (Offer \/ TimedOut))

Next == \/ RxStep /\ UNCHANGED txVars
        \/ Send
        \/ Sending
        \/ (SinkFails \/ SendExpires) /\ UNCHANGED rxVars
        \/ Arrives

Spec == Init /\ [][Next]_vars

\* The threads, the watchdog's period and the wire keep going; a lend need not fail.
FairSpec == /\ Spec
            /\ WF_vars((StorePark \/ Lend \/ Unpark \/ Push \/ CountFailure) /\ UNCHANGED txVars)
            /\ WF_vars(SerialFlush /\ UNCHANGED txVars)
            /\ WF_vars(IrqSerialRx /\ UNCHANGED txVars)
            /\ WF_vars((MainStep /\ UNCHANGED txVars) \/ Send \/ Sending)
            /\ WF_vars(Arrives)
-------------------------------------------------------------------------------
\* A frame cut short by a failed send keeps the request behind it from the laptop.
Hidden == mpc = "wait" /\ wire # <<>> /\ ~Latest /\ Last(wire) = <<requests, Tally.asked>>

(***************************************************************************)
(* Every request is sent and its reply received whole, its tail too, which *)
(* no interrupt will deliver: the watchdog and the reader keep running,    *)
(* and the wire brings what is owed.  Only a failed send, a reader that    *)
(* has stopped, a reply destroyed before the first park, or a request      *)
(* hidden behind a frame cut short leaves the main thread to its deadline. *)
(***************************************************************************)
ReplyIsReceived == mpc \in {"sending", "wait"} ~>
                       mpc \notin {"sending", "wait"} \/ gave_up \/ ReplyLost \/ Hidden
===============================================================================
