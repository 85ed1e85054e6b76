------------------------------ MODULE FlatMemory ------------------------------
(***************************************************************************)
(* What guest RAM promises the guest: a flat array of bytes, kept here as  *)
(* pages of PAGE bytes.  An access moves a run of bytes that may cross     *)
(* page boundaries; it is carried out one page-sized piece at a time, in   *)
(* address order, and it may fail between two pieces.  A failed access has *)
(* moved the pieces before the failure and nothing else, and an access     *)
(* that does not lie wholly inside RAM moves nothing at all.               *)
(*                                                                         *)
(* Nothing here can evict, decline, fetch or write back: those are the     *)
(* means by which PageCache.tla keeps this promise.                        *)
(***************************************************************************)
EXTENDS Integers, Sequences

CONSTANTS RamPages,  \* pages of guest RAM
          PAGE,      \* bytes in a page
          Byte,      \* the values of a byte
          Zero,      \* the byte RAM is filled with before its first write
          MaxLen     \* the longest access, in bytes

Pages == 0 .. RamPages - 1
Offs  == 0 .. PAGE - 1
Data  == [Offs -> Byte]

Smaller(a, b) == IF a <= b THEN a ELSE b

(***************************************************************************)
(* An access in progress: done bytes are moved, the next piece starts at   *)
(* offset off of page.  For a read, buf is the caller's buffer, filled as  *)
(* the access goes; for a write, it is what the caller wants stored.       *)
(***************************************************************************)
Access == [op : {"read", "write"}, page : Nat, off : Offs, done : Nat, buf : Seq(Byte)]
NoAccess == [op |-> "none"]

InRam(a) == a.page * PAGE + a.off + Len(a.buf) <= RamPages * PAGE

\* bytes of the next piece: up to the end of the page or of the buffer
PieceLen(a) == Smaller(PAGE - a.off, Len(a.buf) - a.done)

\* the page's bytes after the next piece of a, and the caller's buffer after it
PageAfter(a, data) ==
    IF a.op = "read" THEN data
    ELSE [o \in Offs |-> IF a.off <= o /\ o < a.off + PieceLen(a)
                         THEN a.buf[a.done + 1 + o - a.off] ELSE data[o]]
BufAfter(a, data) ==
    IF a.op = "write" THEN a.buf
    ELSE [k \in 1 .. Len(a.buf) |->
            IF a.done < k /\ k <= a.done + PieceLen(a)
            THEN data[a.off + k - a.done - 1] ELSE a.buf[k]]

Moved(a, data) == [a EXCEPT !.page = @ + 1, !.off = 0,
                            !.done = @ + PieceLen(a), !.buf = BufAfter(a, data)]
Finished(a) == a.done = Len(a.buf)

VARIABLES mem,  \* guest RAM: page number -> its bytes
          req,  \* the access in progress, NoAccess when there is none
          ret   \* how the last call ended, with the buffer of a finished access

vars == <<mem, req, ret>>

\* What a caller may ask for: a run that starts in RAM or just past its end.
Bufs == UNION {[1 .. n -> Byte] : n \in 1 .. MaxLen}
Blank(n) == [k \in 1 .. n |-> Zero]
Requests == [op : {"read"}, page : 0 .. RamPages, off : Offs, done : {0},
             buf : {Blank(n) : n \in 1 .. MaxLen}]
       \cup [op : {"write"}, page : 0 .. RamPages, off : Offs, done : {0}, buf : Bufs]

Init == /\ mem = [p \in Pages |-> [o \in Offs |-> Zero]]
        /\ req = NoAccess
        /\ ret = [res |-> "none"]

Begin(a) == /\ req = NoAccess
            /\ IF InRam(a) THEN req' = a /\ ret' = [res |-> "none"]
                           ELSE req' = req /\ ret' = [res |-> "OutOfRange"]
            /\ UNCHANGED mem

\* One piece is moved; the access returns when that was the last one.
Move == /\ req # NoAccess
        /\ req.page \in Pages
        /\ mem' = [mem EXCEPT ![req.page] = PageAfter(req, @)]
        /\ LET after == Moved(req, mem[req.page])
           IN  IF Finished(after)
               THEN req' = NoAccess /\ ret' = [res |-> "ok", buf |-> after.buf]
               ELSE req' = after /\ UNCHANGED ret

\* The medium failed: the rest of the access is abandoned.
Fail == /\ req # NoAccess
        /\ req' = NoAccess
        /\ ret' = [res |-> "Medium"]
        /\ UNCHANGED mem

\* A call that moves no byte (a flush) starts or ends.
Other == /\ req = NoAccess
         /\ ret' \in [res : {"none", "ok", "Medium"}]
         /\ UNCHANGED <<mem, req>>

Next == \/ \E a \in Requests : Begin(a)
        \/ Move
        \/ Fail
        \/ Other

Spec == Init /\ [][Next]_vars
===============================================================================
