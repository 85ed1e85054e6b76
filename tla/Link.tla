--------------------------------- MODULE Link ---------------------------------
(***************************************************************************)
(* The page protocol between the badge and the laptop.                     *)
(*                                                                         *)
(* The badge's half is LinkInner::exchange_inner in badge/app/src/         *)
(* usbhost.rs: one request at a time, sent again when an attempt goes      *)
(* unanswered, matched to its answer by frame type and page number only.   *)
(* The laptop's half is serve_once in crates/rv64-host/src/serve.rs.       *)
(* Between them are two FIFO byte streams that lose whole frames: a frame  *)
(* that mirrored log text splits fails its CRC and is dropped.             *)
(*                                                                         *)
(* Frames carry no request id.  The field ex, the number of the exchange   *)
(* that caused a frame, is an auxiliary one: no action of the protocol     *)
(* reads it, the properties do.  So are applied and drained.               *)
(***************************************************************************)
EXTENDS Integers, Sequences, SequencesExt

CONSTANTS Pages, Val, Initial,
          NoVal,          \* the data of a frame that carries none
          RETRY_BUDGET,   \* re-sends allowed in one exchange
          MaxBatch,       \* ReadReqs that can arrive in one read() of the host behind the
                          \* tail of a WriteReq; 0: requests are answered in order
          Refusable,      \* pages the host may answer with Err: outside the image, I/O error
          Lossy,          \* may a frame be lost?
          MaxExchanges,   \* bound on the exchanges of one behaviour
          MaxFailed       \* bound on the exchanges that end in a LinkFault

ASSUME LinkAssumption == /\ RETRY_BUDGET \in Nat /\ MaxBatch \in Nat
                         /\ MaxExchanges \in Nat /\ MaxFailed \in Nat
                         /\ Lossy \in BOOLEAN /\ Refusable \subseteq Pages
                         /\ Initial \in Val /\ NoVal \notin Val

VARIABLES toHost, toBadge,  \* frames in flight, in order
          store,            \* the image file: page -> contents
          applied,          \* page -> exchange whose write store holds (auxiliary)
          held,             \* Mux.held on the badge: decoded, not yet taken
          pc,               \* where exchange_inner stands
          ask,              \* the request being exchanged, or the last that was
          attempts, mismatched,
          expired,          \* has RECV_DEADLINE_MS passed since the exchange began?
          ex,               \* exchanges begun so far (auxiliary)
          failed,           \* exchanges that ended in a LinkFault
          drained,          \* the last write whose own WriteAck was accepted (auxiliary)
          result,           \* what the last exchange returned
          fault             \* LinkInner::fault: the reason kept for take_fault

badgeVars == <<held, pc, ask, attempts, mismatched, expired, result, fault>>
hostVars  == <<store, applied>>
auxVars   == <<ex, failed, drained>>
vars      == <<toHost, toBadge, hostVars, badgeVars, auxVars>>

NoAsk   == [op |-> "none"]
NoFault == [kind |-> "none"]

Frame(ty, page, data, e) == [ty |-> ty, page |-> page, data |-> data, ex |-> e]

Asks == [op : {"read"}, page : Pages, data : {NoVal}]
           \cup [op : {"write"}, page : Pages, data : Val]

Init == /\ toHost = <<>> /\ toBadge = <<>>
        /\ store = [p \in Pages |-> Initial]
        /\ applied = [p \in Pages |-> 0]
        /\ held = <<>>
        /\ pc = "idle"
        /\ ask = NoAsk
        /\ attempts = 0 /\ mismatched = FALSE /\ expired = FALSE
        /\ ex = 0 /\ failed = 0 /\ drained = 0
        /\ result = [res |-> "none"]
        /\ fault = NoFault
-------------------------------------------------------------------------------
(* The badge. *)

Request == Frame(IF ask.op = "read" THEN "ReadReq" ELSE "WriteReq", ask.page, ask.data, ex)
want    == IF ask.op = "read" THEN "ReadResp" ELSE "WriteAck"

\* Mux::take_matching: the first held frame of a type, and what is held without it.
HeldOf(ty)  == {i \in 1 .. Len(held) : held[i].ty = ty}
FirstOf(ty) == CHOOSE i \in HeldOf(ty) : \A j \in HeldOf(ty) : i <= j
Take(ty)    == held' = RemoveAt(held, FirstOf(ty))

\* exchange_inner is entered with a request (read_page, write_page).
BeginExchange(a) ==
    /\ pc = "idle"
    /\ ex < MaxExchanges
    /\ ask' = a
    /\ ex' = ex + 1
    /\ pc' = "attempt"
    /\ attempts' = 0 /\ mismatched' = FALSE /\ expired' = FALSE
    /\ result' = [res |-> "none"]
    /\ UNCHANGED <<toHost, toBadge, hostVars, held, fault, failed, drained>>

Returns(r) == /\ pc' = "idle"
              /\ result' = r
              /\ attempts' = 0 /\ mismatched' = FALSE /\ expired' = FALSE

(***************************************************************************)
(* The failure exit: resync throws away what the decoder holds, a frame it *)
(* had only part of included, and note records the reason.                 *)
(***************************************************************************)
GiveUp(kind) ==
    /\ failed < MaxFailed
    /\ failed' = failed + 1
    /\ held' = <<>>
    /\ toBadge' \in {toBadge} \cup {Tail(s) : s \in {toBadge} \ {<<>>}}
    /\ fault' = [kind |-> IF kind = "Timeout" /\ mismatched THEN "WrongPage" ELSE kind,
                 op |-> ask.op, page |-> ask.page]
    /\ Returns([res |-> "Medium"])
    /\ UNCHANGED <<hostVars, ask, ex, drained>>

\* Mutant: what is held from before is not purged.
Attempt_keeps_held ==
    /\ pc = "attempt"
    /\ ~expired
    /\ attempts' = attempts + 1
    /\ pc' = "arm"
    /\ UNCHANGED <<toHost, toBadge, hostVars, auxVars, held, ask, mismatched, expired, result,
                   fault>>

\* The head of the attempts loop: purge what is held, then look at the deadline.  The purge
\* takes ReadResps, WriteAcks and Errs until none is left, and the host sends nothing else.
Attempt ==
    /\ pc = "attempt"
    /\ ~expired
    /\ attempts' = attempts + 1
    /\ held' = <<>>
    /\ pc' = "arm"
    /\ UNCHANGED <<toHost, toBadge, hostVars, auxVars, ask, mismatched, expired, result, fault>>

AttemptTooLate == pc = "attempt" /\ expired /\ GiveUp("Timeout") /\ UNCHANGED toHost

\* The reader must be confirmed parked before the request leaves.
Arm == /\ pc = "arm"
       /\ pc' = "send"
       /\ UNCHANGED <<toHost, toBadge, hostVars, auxVars, held, ask, attempts, mismatched,
                      expired, result, fault>>

ArmFails == pc = "arm" /\ GiveUp("NotParked") /\ UNCHANGED toHost

SendTooLate == pc = "send" /\ expired /\ GiveUp("Timeout") /\ UNCHANGED toHost

Send == /\ pc = "send"
        /\ ~expired
        /\ toHost' = Append(toHost, Request)
        /\ pc' = "wait"
        /\ UNCHANGED <<toBadge, hostVars, auxVars, held, ask, attempts, mismatched, expired,
                       result, fault>>

(***************************************************************************)
(* A send that fails leaves nothing on the wire or, as a WriteReq takes    *)
(* nine packets and a ReadReq one, the first part of a WriteReq.           *)
(***************************************************************************)
SendFails == /\ pc = "send"
             /\ ~expired
             /\ \E kind \in {"Stalled", "SendFailed", "SendTimedOut"} : GiveUp(kind)
             /\ \/ UNCHANGED toHost
                \/ ask.op = "write" /\ toHost' = Append(toHost, Frame("Part", ask.page, NoVal, ex))

\* The receive loop takes an answer before it looks at the clock.
Accept ==
    /\ pc = "wait"
    /\ HeldOf(want) # {}
    /\ held[FirstOf(want)].page = ask.page
    /\ Take(want)
    /\ Returns([res |-> "ok", data |-> held[FirstOf(want)].data,
                from |-> held[FirstOf(want)].ex])
    /\ drained' = IF ask.op = "write" /\ held[FirstOf(want)].ex = ex THEN ex ELSE drained
    /\ UNCHANGED <<toHost, toBadge, hostVars, ask, ex, failed, fault>>

DropOtherPage ==
    /\ pc = "wait"
    /\ HeldOf(want) # {}
    /\ held[FirstOf(want)].page # ask.page
    /\ Take(want)
    /\ mismatched' = TRUE
    /\ UNCHANGED <<toHost, toBadge, hostVars, auxVars, pc, ask, attempts, expired, result, fault>>

Refused ==
    /\ pc = "wait"
    /\ HeldOf(want) = {} /\ HeldOf("Err") # {}
    /\ held[FirstOf("Err")].page = ask.page
    /\ Take("Err")
    /\ Returns([res |-> "OutOfRange", from |-> held[FirstOf("Err")].ex])
    /\ UNCHANGED <<toHost, toBadge, hostVars, auxVars, ask, fault>>

DropOtherErr ==
    /\ pc = "wait"
    /\ HeldOf(want) = {} /\ HeldOf("Err") # {}
    /\ held[FirstOf("Err")].page # ask.page
    /\ Take("Err")
    /\ UNCHANGED <<toHost, toBadge, hostVars, auxVars, pc, ask, attempts, mismatched, expired,
                   result, fault>>

NothingToTake == pc = "wait" /\ HeldOf(want) = {} /\ HeldOf("Err") = {}

\* Mutant: the deadline only ends a wait that saw another page's answer.
WaitTooLate_if_mismatched ==
    NothingToTake /\ expired /\ mismatched /\ GiveUp("Timeout") /\ UNCHANGED toHost

WaitTooLate == NothingToTake /\ expired /\ GiveUp("Timeout") /\ UNCHANGED toHost

\* ATTEMPT_DEADLINE_MS has passed: send again, or give up after the last attempt.
Retry == /\ NothingToTake /\ ~expired
         /\ attempts <= RETRY_BUDGET
         /\ pc' = "attempt"
         /\ UNCHANGED <<toHost, toBadge, hostVars, auxVars, held, ask, attempts, mismatched,
                        expired, result, fault>>

OutOfAttempts == /\ NothingToTake /\ ~expired
                 /\ attempts > RETRY_BUDGET
                 /\ GiveUp("Timeout")
                 /\ UNCHANGED toHost

Absorb == /\ toBadge # <<>>
          /\ held' = Append(held, Head(toBadge))
          /\ toBadge' = Tail(toBadge)

Recv == /\ NothingToTake /\ ~expired
        /\ Absorb
        /\ UNCHANGED <<toHost, hostVars, auxVars, pc, ask, attempts, mismatched, expired,
                       result, fault>>

RecvFails == NothingToTake /\ ~expired /\ GiveUp("RecvFailed") /\ UNCHANGED toHost

(***************************************************************************)
(* Between slices the run loop polls the link.  A poll or a console send   *)
(* that fails records a fault, and the run loop takes it at once: whatever *)
(* fault was recorded before is gone with it.                              *)
(***************************************************************************)
Pump == /\ pc = "idle"
        /\ Absorb
        /\ UNCHANGED <<toHost, hostVars, auxVars, pc, ask, attempts, mismatched, expired,
                       result, fault>>

ServiceFails == /\ pc = "idle"
                /\ fault # NoFault
                /\ fault' = NoFault
                /\ UNCHANGED <<toHost, toBadge, hostVars, auxVars, held, pc, ask, attempts,
                               mismatched, expired, result>>
-------------------------------------------------------------------------------
(* The laptop. *)

ReadAnswers(f) ==
    {Frame("ReadResp", f.page, store[f.page], f.ex)}
      \cup (IF f.page \in Refusable THEN {Frame("Err", f.page, NoVal, f.ex)} ELSE {})

ServeRead == /\ toHost # <<>>
             /\ Head(toHost).ty = "ReadReq"
             /\ \E r \in ReadAnswers(Head(toHost)) : toBadge' = Append(toBadge, r)
             /\ toHost' = Tail(toHost)
             /\ UNCHANGED <<hostVars, badgeVars, auxVars>>

\* Mutant: writes are asked for before the reads that came before them.
ServeWrite_first(n) ==
    /\ n < Len(toHost)
    /\ toHost[n + 1].ty = "WriteReq"
    /\ \A i \in 1 .. n : toHost[i].ty = "ReadReq"
    /\ LET w == toHost[n + 1]
           reads == [i \in 1 .. n |-> Frame("ReadResp", toHost[i].page, store[toHost[i].page],
                                            toHost[i].ex)]
       IN  /\ toBadge' = toBadge \o <<Frame("WriteAck", w.page, NoVal, w.ex)>> \o reads
           /\ store' = [store EXCEPT ![w.page] = w.data]
           /\ applied' = [applied EXCEPT ![w.page] = w.ex]
    /\ toHost' = SubSeq(toHost, n + 2, Len(toHost))
    /\ UNCHANGED <<badgeVars, auxVars>>

\* Mutant: the newest request is served first.
ServeWrite_newest(n) ==
    /\ toHost # <<>>
    /\ Last(toHost).ty = "WriteReq"
    /\ toBadge' = Append(toBadge, Frame("WriteAck", Last(toHost).page, NoVal, Last(toHost).ex))
    /\ store' = [store EXCEPT ![Last(toHost).page] = Last(toHost).data]
    /\ applied' = [applied EXCEPT ![Last(toHost).page] = Last(toHost).ex]
    /\ toHost' = Front(toHost)
    /\ UNCHANGED <<badgeVars, auxVars>>

\* Mutant: a write the image refused is acknowledged all the same.
ServeWrite_unapplied(n) ==
    /\ toHost # <<>>
    /\ Head(toHost).ty = "WriteReq"
    /\ toBadge' = Append(toBadge, Frame("WriteAck", Head(toHost).page, NoVal, Head(toHost).ex))
    /\ toHost' = Tail(toHost)
    /\ UNCHANGED <<hostVars, badgeVars, auxVars>>

(***************************************************************************)
(* A WriteReq is longer than the host's read buffer, so the read() that    *)
(* completes one begins inside it and may also bring the ReadReqs behind   *)
(* it, never a second WriteReq.  serve_once asks its Mux for ReadReqs      *)
(* first: the n reads are answered before the write is applied.            *)
(***************************************************************************)
ServeWrite(n) ==
    LET w == Head(toHost)
    IN  /\ n < Len(toHost)
        /\ w.ty = "WriteReq"
        /\ \A i \in 2 .. n + 1 : toHost[i].ty = "ReadReq"
        /\ toHost' = SubSeq(toHost, n + 2, Len(toHost))
        /\ \E reads \in [1 .. n -> UNION {ReadAnswers(toHost[i]) : i \in 2 .. n + 1}] :
             /\ \A i \in 1 .. n : reads[i] \in ReadAnswers(toHost[i + 1])
             /\ \/ /\ toBadge' = toBadge \o reads \o <<Frame("WriteAck", w.page, NoVal, w.ex)>>
                   /\ store' = [store EXCEPT ![w.page] = w.data]
                   /\ applied' = [applied EXCEPT ![w.page] = w.ex]
                \/ /\ w.page \in Refusable
                   /\ toBadge' = toBadge \o reads \o <<Frame("Err", w.page, NoVal, w.ex)>>
                   /\ UNCHANGED hostVars
        /\ UNCHANGED <<badgeVars, auxVars>>

(***************************************************************************)
(* The first part of a WriteReq holds up the host's decoder until as many  *)
(* bytes have followed as its header announces: those of a whole WriteReq, *)
(* or of log text.  The ReadReqs of one exchange are too short to do it.   *)
(* Then its CRC fails, and the frames behind it are found.                 *)
(***************************************************************************)
PassPart == /\ toHost # <<>>
            /\ Head(toHost).ty = "Part"
            /\ Lossy \/ \E i \in 2 .. Len(toHost) : toHost[i].ty = "WriteReq"
            /\ toHost' = Tail(toHost)
            /\ UNCHANGED <<toBadge, hostVars, badgeVars, auxVars>>

\* The stream: a frame is split and dropped by the decoder that would have read it.
LoseRequest == /\ Lossy
               /\ \E i \in 1 .. Len(toHost) : toHost' = RemoveAt(toHost, i)
               /\ UNCHANGED <<toBadge, hostVars, badgeVars, auxVars>>
LoseAnswer  == /\ Lossy
               /\ \E i \in 1 .. Len(toBadge) : toBadge' = RemoveAt(toBadge, i)
               /\ UNCHANGED <<toHost, hostVars, badgeVars, auxVars>>

\* Time passes.
Expire == /\ pc # "idle" /\ ~expired
          /\ expired' = TRUE
          /\ UNCHANGED <<toHost, toBadge, hostVars, auxVars, held, pc, ask, attempts,
                         mismatched, result, fault>>
-------------------------------------------------------------------------------
BadgeStep == \/ Attempt \/ AttemptTooLate \/ Arm \/ ArmFails
             \/ Send \/ SendTooLate \/ SendFails
             \/ Accept \/ DropOtherPage \/ Refused \/ DropOtherErr
             \/ WaitTooLate \/ Retry \/ OutOfAttempts \/ Recv \/ RecvFails

HostStep == \/ ServeRead
            \/ \E n \in 0 .. MaxBatch : ServeWrite(n)
            \/ PassPart

Next == \/ \E a \in Asks : BeginExchange(a)
        \/ BadgeStep
        \/ Pump
        \/ ServiceFails
        \/ HostStep
        \/ LoseRequest \/ LoseAnswer
        \/ Expire

Spec == Init /\ [][Next]_vars
-------------------------------------------------------------------------------
(* Properties. *)

(***************************************************************************)
(* usbhost.rs, RETRY_BUDGET, point 4: "The leftover duplicate cannot       *)
(* satisfy a later exchange."  An exchange that succeeds was answered by   *)
(* the host's reply to that exchange, not by a reply to an earlier one.    *)
(***************************************************************************)
NoStaleAnswer == result.res \in {"ok", "OutOfRange"} => result.from = ex

(***************************************************************************)
(* Writes reach the image in the order the badge asked for them: a late    *)
(* duplicate of an old WriteReq never overwrites a newer one's data.       *)
(***************************************************************************)
StoreNeverRegresses == [][\A p \in Pages : applied'[p] >= applied[p]]_vars

(***************************************************************************)
(* What a completed exchange does prove.  Once a write has been answered   *)
(* by its own WriteAck, no frame of an earlier exchange is in flight in    *)
(* either direction.  It holds with losses, give-ups and reads answered    *)
(* ahead of writes, because nothing overtakes a WriteReq from behind and   *)
(* its answer is the last of its batch.                                    *)
(***************************************************************************)
OwnAckDrains == \A s \in {toHost, toBadge} : \A i \in 1 .. Len(s) : s[i].ex >= drained

\* The thread in exchange_inner keeps running and the clock keeps going; nothing is asked of
\* the host or of the stream.
FairSpec == Spec /\ WF_vars(BadgeStep) /\ WF_vars(Expire)

(***************************************************************************)
(* Every exchange ends: by an answer, or by a deadline or a retry budget   *)
(* that time brings about, whatever the host and the stream do.            *)
(***************************************************************************)
ExchangeEnds == pc # "idle" ~> pc = "idle"
===============================================================================
