-------------------------------- MODULE Tether --------------------------------
(***************************************************************************)
(* The tethered badge: the page cache over the page protocol, driven by    *)
(* the run loop (run in badge/app/src/run.rs).                             *)
(*                                                                         *)
(* MemBacking for UsbHost turns each read_page and write_page into one     *)
(* exchange, so a backing call of PageCache is outstanding exactly while   *)
(* an exchange of Link is, and the store behind the cache is the laptop's  *)
(* image.  The run loop ends at the first access guest memory refuses.     *)
(* Nothing on the badge flushes or pins the cache, so neither happens here.*)
(***************************************************************************)
EXTENDS Integers, Sequences

CONSTANTS RamPages, PAGE, Byte, Zero, MaxLen, Capacity, Pinnable,
          NoVal, RETRY_BUDGET, MaxBatch, Refusable, Lossy, MaxExchanges, MaxFailed

ASSUME TetherAssumption ==
    /\ RamPages \in Nat \ {0} /\ PAGE \in Nat \ {0} /\ MaxLen \in Nat \ {0}
    /\ Capacity \in 1 .. RamPages /\ Zero \in Byte
    /\ {RETRY_BUDGET, MaxBatch, MaxExchanges, MaxFailed} \subseteq Nat
    /\ Lossy \in BOOLEAN /\ Refusable \subseteq 0 .. RamPages - 1
    /\ NoVal \notin [0 .. PAGE - 1 -> Byte]

VARIABLES frames, slot_of, hand, cpc, req, victim, fetched, ret,
          toHost, toBadge, store, applied, held, pc, ask, attempts, mismatched,
          expired, ex, failed, drained, result, fault,
          called,  \* has the outstanding backing call started its exchange?
          ending   \* how run ended

Zeroes == [o \in 0 .. PAGE - 1 |-> Zero]

Cache == INSTANCE PageCache WITH backing <- store, pc <- cpc
Wire  == INSTANCE Link WITH Pages <- 0 .. RamPages - 1, Val <- [0 .. PAGE - 1 -> Byte],
                            Initial <- Zeroes

cacheVars == <<frames, slot_of, hand, cpc, req, victim, fetched, ret>>
wireVars  == <<toHost, toBadge, store, applied, held, pc, ask, attempts, mismatched,
               expired, ex, failed, drained, result, fault>>
vars == <<cacheVars, wireVars, called, ending>>

Running == [kind |-> "running"]

Init == /\ Cache!Init
        /\ Wire!Init
        /\ called = FALSE
        /\ ending = Running

\* A step of the guest that touches memory, while run's loop goes on.
Guest == /\ ending = Running
         /\ \/ ret.res # "Medium" /\ \E a \in Cache!Flat!Requests : Cache!BeginAccess(a)
            \/ Cache!Hit
            \/ Cache!Miss
         /\ UNCHANGED <<wireVars, called, ending>>

\* The page of the outstanding backing call, and UsbHost's read_page and write_page.
CallPage == IF cpc = "read" THEN req.page ELSE frames[victim].page
Call == /\ cpc \in {"read", "write"}
        /\ ~called
        /\ Wire!BeginExchange([op |-> cpc, page |-> CallPage,
                               data |-> IF cpc = "read" THEN NoVal ELSE frames[victim].data])
        /\ called' = TRUE
        /\ UNCHANGED <<cacheVars, ending>>

\* The exchange is over: its result is what the backing call returns.
Answered == called /\ pc = "idle"
CallSucceeds == /\ Answered
                /\ result.res = "ok"
                /\ \/ cpc = "read" /\ Cache!ReadReturns(result.data)
                   \/ Cache!WriteReturns
                /\ called' = FALSE
                /\ UNCHANGED <<wireVars, ending>>

(***************************************************************************)
(* A refused call.  When the cache has no way round it, the access fails,  *)
(* the instruction does not complete, and run ends with whatever fault the *)
(* link holds (Ending::Backing, take_fault).                               *)
(***************************************************************************)
CallDeclined == /\ Answered
                /\ result.res # "ok"
                /\ Cache!DeclineVictim
                /\ called' = FALSE
                /\ UNCHANGED <<wireVars, ending>>

CallFails == /\ Answered
             /\ result.res # "ok"
             /\ Cache!ReadFails \/ Cache!NoCleanVictim
             /\ called' = FALSE
             /\ ending' = [kind |-> "Backing", op |-> cpc, page |-> CallPage, fault |-> fault]
             /\ fault' = Wire!NoFault
             /\ UNCHANGED <<toHost, toBadge, store, applied, held, pc, ask, attempts,
                            mismatched, expired, ex, failed, drained, result>>

\* The run loop's service block runs between instructions, never inside one.
Service == /\ ending = Running
           /\ cpc = "idle"
           /\ Wire!Pump \/ Wire!ServiceFails
           /\ UNCHANGED <<cacheVars, called, ending>>

Exchange == /\ called
            /\ Wire!BadgeStep \/ Wire!Expire
            /\ UNCHANGED <<cacheVars, called, ending>>

Elsewhere == /\ Wire!HostStep \/ Wire!LoseRequest \/ Wire!LoseAnswer
             /\ UNCHANGED <<cacheVars, called, ending>>

Next == \/ Guest
        \/ Call
        \/ CallSucceeds
        \/ CallDeclined
        \/ CallFails
        \/ Service
        \/ Exchange
        \/ Elsewhere

Spec == Init /\ [][Next]_vars
-------------------------------------------------------------------------------
(* Properties. *)

(***************************************************************************)
(* The guest's memory is flat even though its pages live in a file on      *)
(* another machine, behind frames that are lost, repeated and answered     *)
(* late.                                                                   *)
(***************************************************************************)
ImplementsFlatMemory == Cache!ImplementsFlatMemory

(***************************************************************************)
(* usbhost.rs, flush: "Every write_page has already been acknowledged by   *)
(* the host before it returned".  When a write_page returns success, the   *)
(* image holds the bytes that were passed to it, so the frame they came    *)
(* from may be given away.                                                 *)
(***************************************************************************)
AcknowledgedIsStored ==
    Answered /\ cpc = "write" /\ result.res = "ok" =>
      store[frames[victim].page] = frames[victim].data

(***************************************************************************)
(* usbhost.rs, RETRY_BUDGET, point 4, for the exchanges the cache makes:   *)
(* an exchange is answered by the reply to itself, never by the leftover   *)
(* of an earlier one.                                                      *)
(***************************************************************************)
NoStaleAnswer == Wire!NoStaleAnswer

(***************************************************************************)
(* run.rs, Ending::Backing: "fault says how" guest memory failed.  A fault *)
(* reported with an ending is the failure of the operation that ended the  *)
(* run, not one that an earlier, survived failure left behind.             *)
(***************************************************************************)
FaultNamesTheFailure ==
    ending # Running /\ ending.fault # Wire!NoFault =>
      ending.fault.op = ending.op /\ ending.fault.page = ending.page
===============================================================================
