------------------------------- MODULE PageCache -------------------------------
(***************************************************************************)
(* The demand-paged cache of guest RAM: PageCache in crates/rv64/src/      *)
(* cache.rs, over any MemBacking (crates/rv64/src/backing.rs).             *)
(*                                                                         *)
(* The cache runs on one thread, but every read_page and write_page hands  *)
(* control to the backing, so a call is cut at exactly those points: pc is *)
(* the backing call that is outstanding ("read", "write", "sync", "flush"),*)
(* "loop" at the head of the per-page loop of read_bytes and write_bytes,  *)
(* "idle" between calls.  The ...Returns and ...Fails actions say what the *)
(* cache does with the backing's answer; the backing here is any store     *)
(* that may refuse a call, and may refuse a write it has already applied.  *)
(*                                                                         *)
(* The source biases a slot by one so that 0 can mean "not resident"; the  *)
(* biased slot is the index of a TLA+ sequence, and is used as that.       *)
(***************************************************************************)
EXTENDS Integers, Sequences

CONSTANTS RamPages, PAGE, Byte, Zero, MaxLen,  \* as in FlatMemory
          Capacity,  \* frames in the cache
          Pinnable   \* pages a caller may pin (no caller in the tree does)

ASSUME SizesAssumption == /\ RamPages \in Nat \ {0}
                          /\ PAGE \in Nat \ {0}
                          /\ MaxLen \in Nat \ {0}
                          /\ Capacity \in 1 .. RamPages
ASSUME BytesAssumption == Zero \in Byte

VARIABLES backing,  \* page -> bytes, behind MemBacking
          frames, slot_of, hand,
          pc,       \* where the call in progress stands
          req,      \* the access in progress
          victim,   \* the frame chosen while its write_page is outstanding, else 0
          fetched,  \* the page read_page returned, kept while that write is outstanding
          ret       \* how the last call ended

cacheVars == <<frames, slot_of, hand>>
callVars  == <<pc, req, victim, fetched, ret>>
vars      == <<backing, cacheVars, callVars>>

NOT_RESIDENT == 0

\* The guest's bytes: a resident page is its frame's, any other the backing's.
GuestView == [p \in 0 .. RamPages - 1 |->
                IF slot_of[p] # NOT_RESIDENT THEN frames[slot_of[p]].data ELSE backing[p]]

Flat == INSTANCE FlatMemory WITH mem <- GuestView

Pages == Flat!Pages
Data  == Flat!Data
Frame == [page : Pages, dirty : BOOLEAN, referenced : BOOLEAN,
          pinned : BOOLEAN, data : Data]
NoData == [o \in {} |-> Zero]

resident_slot(p) == IF p \in Pages THEN slot_of[p] ELSE NOT_RESIDENT

Init == /\ backing = [p \in Pages |-> [o \in Flat!Offs |-> Zero]]
        /\ frames = <<>>
        /\ slot_of = [p \in Pages |-> NOT_RESIDENT]
        /\ hand = 1
        /\ pc = "idle"
        /\ req = Flat!NoAccess
        /\ victim = 0
        /\ fetched = NoData
        /\ ret = [res |-> "none"]
-------------------------------------------------------------------------------
(***************************************************************************)
(* The CLOCK.  sweep(k) is the k-th frame the hand meets.  A first lap     *)
(* takes the first frame that is neither pinned nor referenced, clearing   *)
(* reference bits on the way; a lap without one has cleared them all, so   *)
(* the second takes the first frame that is not pinned.  The source        *)
(* bounds its loop at two laps, so its fallback only ever panics.          *)
(***************************************************************************)
sweep(k) == ((hand - 1 + k) % Len(frames)) + 1
Lap == 0 .. Len(frames) - 1

FirstOf(K) == CHOOSE k \in K : \A j \in K : k <= j

\* Mutant: the sweep does not look at pins.
Unpinned_any == Lap

Unpinned == {k \in Lap : ~frames[sweep(k)].pinned}
Cold     == {k \in Unpinned : ~frames[sweep(k)].referenced}
CleanUnpinned == {k \in Unpinned : ~frames[sweep(k)].dirty}

\* How far the hand got, the frame it stopped at, and the frames it aged.
Stop == IF Cold # {} THEN FirstOf(Cold) ELSE FirstOf(Unpinned)
select_victim == sweep(Stop)

HandAfter(k) == (sweep(k) % Len(frames)) + 1

\* Mutant: a full lap leaves the reference bits set.
Aged_not_on_second_lap == IF Cold # {} THEN {sweep(k) : k \in {j \in Unpinned : j < Stop}} ELSE {}

Aged == IF Cold # {} THEN {sweep(k) : k \in {j \in Unpinned : j < Stop}}
                     ELSE {sweep(k) : k \in Unpinned}
AgedFrames == [i \in 1 .. Len(frames) |->
                 IF i \in Aged THEN [frames[i] EXCEPT !.referenced = FALSE] ELSE frames[i]]

\* The emergency sweep: clean frames only, a cold one if there is one; no bit is cleared.
CleanStop == IF CleanUnpinned \cap Cold # {} THEN FirstOf(CleanUnpinned \cap Cold)
                                             ELSE FirstOf(CleanUnpinned)
select_clean_victim == sweep(CleanStop)
-------------------------------------------------------------------------------
Return(r) == /\ pc' = "idle"
             /\ req' = Flat!NoAccess
             /\ victim' = 0
             /\ fetched' = NoData
             /\ ret' = r

\* resident has produced a frame: one piece is moved to or from it ...
Touched(f) == [f EXCEPT !.data = Flat!PageAfter(req, @), !.dirty = @ \/ req.op = "write"]

\* Mutant: the loop does not move on.
Advance_stuck(data) == /\ pc' = "loop"
                       /\ victim' = 0
                       /\ fetched' = NoData
                       /\ UNCHANGED <<req, ret>>

\* ... and the access goes round its loop or returns.
Advance(data) ==
    LET after == Flat!Moved(req, data)
    IN  IF Flat!Finished(after)
        THEN Return([res |-> "ok", buf |-> after.buf])
        ELSE /\ pc' = "loop"
             /\ req' = after
             /\ victim' = 0
             /\ fetched' = NoData
             /\ UNCHANGED ret

FreshFrame(data) == [page |-> req.page, dirty |-> FALSE, referenced |-> TRUE,
                     pinned |-> FALSE, data |-> data]

\* Frame i gives up its page to req.page.
Replace(fs, i, data) ==
    /\ slot_of' = [slot_of EXCEPT ![fs[i].page] = NOT_RESIDENT, ![req.page] = i]
    /\ frames' = [fs EXCEPT ![i] = Touched(FreshFrame(data))]
    /\ Advance(data)
-------------------------------------------------------------------------------
\* read_bytes, write_bytes, read_le, write_le: the range is checked as a whole.
BeginAccess(a) ==
    /\ pc = "idle"
    /\ IF Flat!InRam(a)
       THEN pc' = "loop" /\ req' = a /\ ret' = [res |-> "none"]
       ELSE ret' = [res |-> "OutOfRange"] /\ UNCHANGED <<pc, req>>
    /\ UNCHANGED <<cacheVars, victim, fetched>>

Hit == /\ pc = "loop"
       /\ resident_slot(req.page) # NOT_RESIDENT
       /\ frames' = [frames EXCEPT ![slot_of[req.page]] =
                       Touched([@ EXCEPT !.referenced = TRUE])]
       /\ Advance(frames[slot_of[req.page]].data)
       /\ UNCHANGED <<slot_of, hand>>

\* A miss: read_page is called for the page, before a victim is looked for.
Miss == /\ pc = "loop"
        /\ resident_slot(req.page) = NOT_RESIDENT
        /\ req.page \in Pages
        /\ pc' = "read"
        /\ UNCHANGED <<frames, slot_of, hand, req, victim, fetched, ret>>

\* The page is fetched before room is made for it, so a failed fetch costs nothing.
ReadFails == /\ pc = "read"
             /\ Return([res |-> "Medium"])
             /\ UNCHANGED cacheVars

FillVacant(data) ==
    /\ pc = "read"
    /\ Len(frames) < Capacity
    /\ slot_of' = [slot_of EXCEPT ![req.page] = Len(frames) + 1]
    /\ frames' = Append(frames, Touched(FreshFrame(data)))
    /\ Advance(data)
    /\ UNCHANGED hand

EvictClean(data) ==
    /\ pc = "read"
    /\ Len(frames) = Capacity
    /\ Unpinned # {}
    /\ ~frames[select_victim].dirty
    /\ Replace(AgedFrames, select_victim, data)
    /\ hand' = HandAfter(Stop)

\* Mutant: the victim is marked clean before its write has returned.
WriteVictim_early_clean(data) ==
    /\ pc = "read"
    /\ Len(frames) = Capacity
    /\ Unpinned # {}
    /\ frames[select_victim].dirty
    /\ frames' = [AgedFrames EXCEPT ![select_victim].dirty = FALSE]
    /\ hand' = HandAfter(Stop)
    /\ victim' = select_victim
    /\ fetched' = data
    /\ pc' = "write"
    /\ UNCHANGED <<slot_of, req, ret>>

WriteVictim(data) ==
    /\ pc = "read"
    /\ Len(frames) = Capacity
    /\ Unpinned # {}
    /\ frames[select_victim].dirty
    /\ frames' = AgedFrames
    /\ hand' = HandAfter(Stop)
    /\ victim' = select_victim
    /\ fetched' = data
    /\ pc' = "write"
    /\ UNCHANGED <<slot_of, req, ret>>

\* Every frame is pinned: select_victim's expect panics.
PanicAllPinned ==
    /\ pc = "read"
    /\ Len(frames) = Capacity
    /\ Unpinned = {}
    /\ pc' = "panicked"
    /\ UNCHANGED <<cacheVars, req, victim, fetched, ret>>

ReadReturns(data) == \/ FillVacant(data)
                     \/ EvictClean(data)
                     \/ WriteVictim(data)
                     \/ PanicAllPinned

WriteReturns == /\ pc = "write"
                /\ Replace(frames, victim, fetched)
                /\ UNCHANGED hand

\* Mutant: the dirty victim is given up although its write failed.
DeclineVictim_drops ==
    /\ pc = "write"
    /\ CleanUnpinned # {}
    /\ Replace(frames, victim, fetched)
    /\ hand' = HandAfter(CleanStop)

\* The victim stays, dirty; a clean frame is given up instead.
DeclineVictim == /\ pc = "write"
                 /\ CleanUnpinned # {}
                 /\ Replace(frames, select_clean_victim, fetched)
                 /\ hand' = HandAfter(CleanStop)

NoCleanVictim == /\ pc = "write"
                 /\ CleanUnpinned = {}
                 /\ Return([res |-> "Medium"])
                 /\ UNCHANGED cacheVars

WriteFails == DeclineVictim \/ NoCleanVictim
-------------------------------------------------------------------------------
Pin(p) == /\ pc = "idle"
          /\ resident_slot(p) # NOT_RESIDENT
          /\ frames' = [frames EXCEPT ![slot_of[p]].pinned = TRUE]
          /\ UNCHANGED <<slot_of, hand, callVars>>

(***************************************************************************)
(* flush: write the dirty frames back in frame order, stop at the first    *)
(* failure, flush the backing at the end.  Frames behind the loop's index  *)
(* are clean and nothing dirties one meanwhile, so the next frame to write *)
(* is the first dirty one.                                                 *)
(***************************************************************************)
DirtyFrames == {i \in 1 .. Len(frames) : frames[i].dirty}

BeginFlush == /\ pc = "idle"
              /\ pc' = IF DirtyFrames # {} THEN "flush" ELSE "sync"
              /\ ret' = [res |-> "none"]
              /\ UNCHANGED <<cacheVars, req, victim, fetched>>

FlushWriteReturns ==
    /\ pc = "flush"
    /\ frames' = [frames EXCEPT ![FirstOf(DirtyFrames)].dirty = FALSE]
    /\ pc' = IF DirtyFrames = {FirstOf(DirtyFrames)} THEN "sync" ELSE "flush"
    /\ UNCHANGED <<slot_of, hand, req, victim, fetched, ret>>

FlushWriteFails == /\ pc = "flush"
                   /\ Return([res |-> "Medium"])
                   /\ UNCHANGED cacheVars

SyncEnds(r) == /\ pc = "sync"
               /\ Return([res |-> r])
               /\ UNCHANGED cacheVars
-------------------------------------------------------------------------------
(***************************************************************************)
(* The backing: a store that reads back what was written, unless it        *)
(* refuses.  A write may be refused after it took effect: the host wrote   *)
(* the page and its acknowledgement never arrived.                         *)
(***************************************************************************)
Stores(p, data) == backing' = [backing EXCEPT ![p] = data]
Keeps == UNCHANGED backing

Written == IF pc = "write" THEN victim ELSE FirstOf(DirtyFrames)
StoresWritten == Stores(frames[Written].page, frames[Written].data)

Next == \/ \E a \in Flat!Requests : BeginAccess(a) /\ Keeps
        \/ Hit /\ Keeps
        \/ Miss /\ Keeps
        \/ ReadReturns(backing[req.page]) /\ Keeps
        \/ ReadFails /\ Keeps
        \/ WriteReturns /\ StoresWritten
        \/ WriteFails /\ (StoresWritten \/ Keeps)
        \/ BeginFlush /\ Keeps
        \/ FlushWriteReturns /\ StoresWritten
        \/ FlushWriteFails /\ (StoresWritten \/ Keeps)
        \/ \E r \in {"ok", "Medium"} : SyncEnds(r) /\ Keeps
        \/ \E p \in Pinnable : Pin(p) /\ Keeps

Spec == Init /\ [][Next]_vars
-------------------------------------------------------------------------------
(* Properties. *)

\* The state's types: in particular the hand and the index never leave the cache.
TypeOK ==
    /\ backing \in [Pages -> Data]
    /\ frames \in Seq(Frame)
    /\ Len(frames) <= Capacity
    /\ slot_of \in [Pages -> 0 .. Capacity]
    /\ hand \in 1 .. Capacity
    /\ pc \in {"idle", "loop", "read", "write", "flush", "sync", "panicked"}
    /\ req \in Flat!Access \cup {Flat!NoAccess}
    /\ victim \in 0 .. Capacity
    /\ fetched \in Data \cup {NoData}

(***************************************************************************)
(* The index and the frames agree in both directions: the invariant        *)
(* cache.rs states at slot_of, "resident_slot(p) == Some(i) if and only    *)
(* if frames[i].page == p", at every point where the backing can be        *)
(* running, not only between calls.                                        *)
(***************************************************************************)
IndexMatchesFrames ==
    /\ \A i \in 1 .. Len(frames) : slot_of[frames[i].page] = i
    /\ \A p \in Pages : slot_of[p] # NOT_RESIDENT =>
         slot_of[p] \in 1 .. Len(frames) /\ frames[slot_of[p]].page = p

(***************************************************************************)
(* A frame that is not dirty can be dropped: its bytes are the backing's.  *)
(* This is what makes the fallback of resident safe, and it must survive   *)
(* a write that was applied and then reported as failed.                   *)
(***************************************************************************)
CleanIsStored ==
    \A i \in 1 .. Len(frames) : ~frames[i].dirty => frames[i].data = backing[frames[i].page]

(***************************************************************************)
(* While a victim's write is outstanding, the page fetched before it is    *)
(* still what the backing holds for that page, the page is still not       *)
(* resident, and the victim is still a dirty frame of a full cache: what   *)
(* resident read before calling out is not stale when it is used.          *)
(***************************************************************************)
FetchedStaysCurrent ==
    pc = "write" => /\ req.page \in Pages
                    /\ slot_of[req.page] = NOT_RESIDENT
                    /\ fetched = backing[req.page]
                    /\ Len(frames) = Capacity
                    /\ victim \in 1 .. Capacity
                    /\ frames[victim].dirty /\ ~frames[victim].pinned

(***************************************************************************)
(* When flush has written its last frame, the backing alone holds guest    *)
(* RAM: a flush that reports success leaves no byte only in the cache.     *)
(***************************************************************************)
FlushLeavesNothingBehind == pc = "sync" => backing = GuestView

(***************************************************************************)
(* Frames, index and backing are coherent at every point where the backing *)
(* may be running: between the two calls of a fill, inside a flush, and    *)
(* after any of them has failed.                                           *)
(***************************************************************************)
Coherent == IndexMatchesFrames /\ CleanIsStored /\ FetchedStaysCurrent /\ FlushLeavesNothingBehind

(***************************************************************************)
(* A pinned page is never evicted, by the ordinary sweep or by the         *)
(* fallback, and nothing unpins it.                                        *)
(***************************************************************************)
PinnedStays ==
    [][\A i \in 1 .. Len(frames) : frames[i].pinned =>
          frames'[i].pinned /\ frames'[i].page = frames[i].page]_vars

(***************************************************************************)
(* The guest sees a flat memory: no fill, eviction, refused writeback,     *)
(* declined eviction or flush changes a byte of it, a read returns the     *)
(* last bytes written, and a failed access stops between two pieces.       *)
(***************************************************************************)
ImplementsFlatMemory == Flat!Spec

\* A step of a call in progress; the backing answers each call it is given.
CallStep == \/ Hit /\ Keeps
            \/ Miss /\ Keeps
            \/ ReadReturns(backing[req.page]) /\ Keeps
            \/ ReadFails /\ Keeps
            \/ WriteReturns /\ StoresWritten
            \/ WriteFails /\ Keeps
            \/ FlushWriteReturns /\ StoresWritten
            \/ FlushWriteFails /\ Keeps
            \/ \E r \in {"ok", "Medium"} : SyncEnds(r) /\ Keeps

FairSpec == Spec /\ WF_vars(CallStep)

(***************************************************************************)
(* Every call of the cache ends, provided the backing answers: the pieces  *)
(* of an access, the frames of a flush and the fallback of resident cannot *)
(* go round for ever.                                                      *)
(***************************************************************************)
EveryCallEnds == pc # "idle" ~> pc \in {"idle", "panicked"}
===============================================================================
