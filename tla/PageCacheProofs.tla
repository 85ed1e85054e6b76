---------------------------- MODULE PageCacheProofs ----------------------------
(***************************************************************************)
(* Proofs about PageCache.tla, for every RAM size, page size and capacity. *)
(*                                                                         *)
(* The argument.  IInv adds to the type invariant that the index matches   *)
(* the frames, that a clean frame holds the backing's bytes, that what     *)
(* resident fetched before it called write_page is still current, and      *)
(* where a call can stand.  None of these is inductive alone: a fill is    *)
(* safe because the page is not resident, an eviction because the clean    *)
(* frame it drops is stored, a declined one because the write that failed  *)
(* could only have changed the page of a dirty frame.  One lemma per       *)
(* action shows that IInv is kept; a second one shows what the guest sees  *)
(* of it, which is a step of FlatMemory or nothing.                        *)
(***************************************************************************)
EXTENDS PageCache, TLAPS, SequenceTheorems, WellFoundedInduction

\* Where a call can stand and what it then knows.
CallConsistent ==
    /\ pc \in {"loop", "read", "write"} => /\ req \in Flat!Access
                                           /\ req.done < Len(req.buf)
    /\ pc \in {"idle", "flush", "sync"} => req = Flat!NoAccess
    /\ pc = "read" => req.page \in Pages /\ slot_of[req.page] = NOT_RESIDENT
    /\ pc = "flush" => DirtyFrames # {}
    /\ pc = "sync" => DirtyFrames = {}

\* The inductive invariant.
IInv == TypeOK /\ IndexMatchesFrames /\ CleanIsStored /\ FetchedStaysCurrent /\ CallConsistent

(***************************************************************************)
(* FirstOf of a nonempty set of naturals is a member of it: the sweep of   *)
(* select_victim stops at a frame it met.                                  *)
(***************************************************************************)
LEMMA FirstOfIn ==
  ASSUME NEW K, K \subseteq Nat, K # {}
  PROVE  FirstOf(K) \in K
<1>1. \E k \in K : \A j \in K : ~ (<<j, k>> \in OpToRel(<, Nat))
  BY NatLessThanWellFounded, WFMin
<1>2. \A j, k \in Nat : j < k => <<j, k>> \in OpToRel(<, Nat)
  BY DEF OpToRel
<1>3. \E k \in K : \A j \in K : ~ (j < k)
  BY <1>1, <1>2
<1>4. \E k \in K : \A j \in K : k <= j
  BY <1>3
<1> QED
  BY <1>4 DEF FirstOf

\* A remainder lies below its divisor.
LEMMA ModInRange ==
  ASSUME NEW n \in Nat \ {0}, NEW m \in Nat
  PROVE  m % n \in 0 .. n - 1
BY Z3

(***************************************************************************)
(* Every frame the CLOCK hand meets is a frame of the cache: the index     *)
(* arithmetic of select_victim never leaves the vector.                    *)
(***************************************************************************)
LEMMA SweepInRange ==
  ASSUME hand \in Nat \ {0}, Len(frames) \in Nat \ {0}, NEW k \in Nat
  PROVE  sweep(k) \in 1 .. Len(frames)
<1> DEFINE h == hand - 1 + k
<1>1. h \in Nat
  OBVIOUS
<1>2. h % Len(frames) \in 0 .. Len(frames) - 1
  BY <1>1, ModInRange
<1> QED
  BY <1>2 DEF sweep

(***************************************************************************)
(* If some frame is not pinned, select_victim returns a frame that is not  *)
(* pinned and leaves the hand inside the cache.                            *)
(***************************************************************************)
LEMMA VictimOK ==
  ASSUME TypeOK, Len(frames) = Capacity, Unpinned # {}
  PROVE  /\ select_victim \in 1 .. Len(frames)
         /\ ~frames[select_victim].pinned
         /\ HandAfter(Stop) \in 1 .. Capacity
<1>1. Len(frames) \in Nat \ {0}
  BY SizesAssumption
<1>2. Stop \in Unpinned
  <2>1. Cold \subseteq Unpinned /\ Unpinned \subseteq Lap /\ Lap \subseteq Nat
    BY <1>1 DEF Cold, Unpinned, Lap
  <2> QED
    BY <2>1, FirstOfIn DEF Stop
<1>3. Stop \in Nat /\ ~frames[sweep(Stop)].pinned
  BY <1>1, <1>2 DEF Unpinned, Lap
<1>4. hand \in Nat \ {0}
  BY SizesAssumption DEF TypeOK
<1>5. sweep(Stop) \in 1 .. Len(frames)
  BY <1>1, <1>3, <1>4, SweepInRange
<1>6. sweep(Stop) \in Nat
  BY <1>1, <1>5
<1>7. sweep(Stop) % Len(frames) \in 0 .. Len(frames) - 1
  BY <1>1, <1>6, ModInRange
<1> QED
  BY <1>1, <1>3, <1>5, <1>7 DEF select_victim, HandAfter

(***************************************************************************)
(* If some frame is clean and not pinned, select_clean_victim returns such *)
(* a frame and leaves the hand inside the cache.                           *)
(***************************************************************************)
LEMMA CleanVictimOK ==
  ASSUME TypeOK, Len(frames) = Capacity, CleanUnpinned # {}
  PROVE  /\ select_clean_victim \in 1 .. Len(frames)
         /\ ~frames[select_clean_victim].dirty
         /\ ~frames[select_clean_victim].pinned
         /\ HandAfter(CleanStop) \in 1 .. Capacity
<1>1. Len(frames) \in Nat \ {0}
  BY SizesAssumption
<1>2. CleanStop \in CleanUnpinned
  <2>1. CleanUnpinned \subseteq Nat
    BY <1>1 DEF CleanUnpinned, Unpinned, Lap
  <2> QED
    BY <2>1, FirstOfIn DEF CleanStop
<1>3. CleanStop \in Nat /\ ~frames[sweep(CleanStop)].dirty /\ ~frames[sweep(CleanStop)].pinned
  BY <1>1, <1>2 DEF CleanUnpinned, Unpinned, Lap
<1>4. hand \in Nat \ {0}
  BY SizesAssumption DEF TypeOK
<1>5. sweep(CleanStop) \in 1 .. Len(frames)
  BY <1>1, <1>3, <1>4, SweepInRange
<1>6. sweep(CleanStop) \in Nat
  BY <1>1, <1>5
<1>7. sweep(CleanStop) % Len(frames) \in 0 .. Len(frames) - 1
  BY <1>1, <1>6, ModInRange
<1> QED
  BY <1>1, <1>3, <1>5, <1>7 DEF select_clean_victim, HandAfter

\* The sweep of select_victim changes reference bits and nothing else of any frame.
LEMMA AgedOK ==
  ASSUME TypeOK
  PROVE  /\ AgedFrames \in Seq(Frame)
         /\ Len(AgedFrames) = Len(frames)
         /\ \A i \in 1 .. Len(frames) : /\ AgedFrames[i].page = frames[i].page
                                        /\ AgedFrames[i].dirty = frames[i].dirty
                                        /\ AgedFrames[i].data = frames[i].data
                                        /\ AgedFrames[i].pinned = frames[i].pinned
<1>1. Len(frames) \in Nat /\ \A i \in 1 .. Len(frames) : frames[i] \in Frame
  BY ElementOfSeq, LenProperties DEF TypeOK
<1>2. \A i \in 1 .. Len(frames) : AgedFrames[i] \in Frame
  BY <1>1 DEF AgedFrames, Frame
<1>3. AgedFrames \in [1 .. Len(frames) -> Frame]
  BY <1>2 DEF AgedFrames
<1>4. AgedFrames \in Seq(Frame) /\ Len(AgedFrames) = Len(frames)
  BY <1>1, <1>3, LenProperties
<1>5. \A i \in 1 .. Len(frames) : /\ AgedFrames[i].page = frames[i].page
                                  /\ AgedFrames[i].dirty = frames[i].dirty
                                  /\ AgedFrames[i].data = frames[i].data
                                  /\ AgedFrames[i].pinned = frames[i].pinned
  BY <1>1 DEF AgedFrames, Frame
<1> QED
  BY <1>4, <1>5

\* The bytes write_bytes copies to a page come from inside the caller's buffer.
LEMMA OffsetInBuffer ==
  ASSUME NEW done \in Nat, NEW len \in Nat, NEW n \in Nat, n <= len - done,
         NEW off \in Nat, NEW o \in Nat, off <= o, o < off + n
  PROVE  done + 1 + o - off \in 1 .. len
OBVIOUS

\* The bytes read_bytes copies from a page come from inside that page.
LEMMA OffsetInPage ==
  ASSUME NEW done \in Nat, NEW n \in Nat, NEW size \in Nat, NEW off \in Nat,
         n <= size - off, NEW k \in Nat, done < k, k <= done + n
  PROVE  off + k - done - 1 \in 0 .. size - 1
OBVIOUS

(***************************************************************************)
(* One turn of the loops of read_bytes and write_bytes moves at least one  *)
(* byte, stays inside the page and the buffer, and leaves a well-formed    *)
(* access.                                                                 *)
(***************************************************************************)
LEMMA PieceOK ==
  ASSUME req \in Flat!Access, req.done < Len(req.buf), NEW data \in Data
  PROVE  /\ Flat!PieceLen(req) \in 1 .. Len(req.buf) - req.done
         /\ Flat!PageAfter(req, data) \in Data
         /\ Flat!Moved(req, data) \in Flat!Access
         /\ Flat!Moved(req, data).done <= Len(Flat!Moved(req, data).buf)
<1>1. /\ req.off \in 0 .. PAGE - 1
      /\ req.done \in Nat
      /\ req.buf \in Seq(Byte)
      /\ Len(req.buf) \in Nat
      /\ \A k \in 1 .. Len(req.buf) : req.buf[k] \in Byte
      /\ req.op \in {"read", "write"}
      /\ req.page \in Nat
  BY ElementOfSeq, LenProperties DEF Flat!Access, Flat!Offs
<1>2. Flat!PieceLen(req) \in 1 .. Len(req.buf) - req.done /\ Flat!PieceLen(req) <= PAGE - req.off
  BY <1>1, SizesAssumption DEF Flat!PieceLen, Flat!Smaller
<1>3. Flat!PageAfter(req, data) \in Data
  <2>1. CASE req.op = "read"
    BY <2>1 DEF Flat!PageAfter
  <2>2. CASE req.op = "write"
    <3>1. \A o \in 0 .. PAGE - 1 : req.off <= o /\ o < req.off + Flat!PieceLen(req)
             => req.buf[req.done + 1 + o - req.off] \in Byte
      <4> SUFFICES ASSUME NEW o \in 0 .. PAGE - 1,
                          req.off <= o, o < req.off + Flat!PieceLen(req)
                   PROVE  req.done + 1 + o - req.off \in 1 .. Len(req.buf)
        BY <1>1
      <4>1. o \in Nat /\ req.off \in Nat /\ Flat!PieceLen(req) \in Nat
            /\ Flat!PieceLen(req) <= Len(req.buf) - req.done
        BY <1>1, <1>2, SizesAssumption
      <4> QED
        BY <1>1, <4>1, OffsetInBuffer
    <3> QED
      BY <2>2, <3>1 DEF Flat!PageAfter, Data, Flat!Data, Flat!Offs
  <2> QED
    BY <1>1, <2>1, <2>2
<1>4. Flat!BufAfter(req, data) \in Seq(Byte) /\ Len(Flat!BufAfter(req, data)) = Len(req.buf)
  <2>1. CASE req.op = "write"
    BY <1>1, <2>1 DEF Flat!BufAfter
  <2>2. CASE req.op = "read"
    <3>1. \A k \in 1 .. Len(req.buf) : req.done < k /\ k <= req.done + Flat!PieceLen(req)
             => data[req.off + k - req.done - 1] \in Byte
      <4> SUFFICES ASSUME NEW k \in 1 .. Len(req.buf),
                          req.done < k, k <= req.done + Flat!PieceLen(req)
                   PROVE  req.off + k - req.done - 1 \in 0 .. PAGE - 1
        BY DEF Data, Flat!Data, Flat!Offs
      <4>1. k \in Nat /\ req.off \in Nat /\ Flat!PieceLen(req) \in Nat
            /\ Flat!PieceLen(req) <= PAGE - req.off
        BY <1>1, <1>2, SizesAssumption
      <4> QED
        BY <1>1, <4>1, OffsetInPage, SizesAssumption
    <3>2. Flat!BufAfter(req, data) \in [1 .. Len(req.buf) -> Byte]
      BY <1>1, <2>2, <3>1 DEF Flat!BufAfter
    <3> QED
      BY <1>1, <3>2, LenProperties
  <2> QED
    BY <1>1, <2>1, <2>2
<1>5. Flat!Moved(req, data) \in Flat!Access
  <2>1. req.page + 1 \in Nat /\ req.done + Flat!PieceLen(req) \in Nat /\ 0 \in Flat!Offs
    BY <1>1, <1>2, SizesAssumption DEF Flat!Offs
  <2> QED
    BY <1>4, <2>1 DEF Flat!Moved, Flat!Access
<1>6. /\ Flat!Moved(req, data).done = req.done + Flat!PieceLen(req)
      /\ Flat!Moved(req, data).buf = Flat!BufAfter(req, data)
  BY DEF Flat!Moved, Flat!Access
<1> QED
  BY <1>1, <1>2, <1>3, <1>4, <1>5, <1>6

\* An access in progress is never mistaken for none.
LEMMA AccessIsSome == Flat!NoAccess \notin Flat!Access
BY DEF Flat!NoAccess, Flat!Access

\* After a piece is moved the call either goes round its loop with bytes left to move or returns.
LEMMA AdvanceOK ==
  ASSUME req \in Flat!Access, req.done < Len(req.buf), NEW data \in Data, Advance(data)
  PROVE  /\ pc' \in {"loop", "idle"}
         /\ pc' = "loop" => req' \in Flat!Access /\ req'.done < Len(req'.buf)
         /\ pc' = "idle" => req' = Flat!NoAccess
         /\ req' \in Flat!Access \cup {Flat!NoAccess}
         /\ victim' = 0
         /\ fetched' = NoData
<1> DEFINE after == Flat!Moved(req, data)
<1>1. after \in Flat!Access /\ after.done <= Len(after.buf)
  BY PieceOK
<1>2. CASE Flat!Finished(after)
  BY <1>2 DEF Advance, Return
<1>3. CASE ~Flat!Finished(after)
  <2>1. after.done < Len(after.buf)
    <3>1. after.done \in Nat /\ Len(after.buf) \in Nat
      BY <1>1, LenProperties DEF Flat!Access
    <3> QED
      BY <1>1, <1>3, <3>1 DEF Flat!Finished
  <2> QED
    BY <1>1, <1>3, <2>1 DEF Advance
<1> QED
  BY <1>2, <1>3

(***************************************************************************)
(* Moving a piece through a frame keeps its page, and a frame that is      *)
(* clean afterwards was clean before and holds the same bytes.             *)
(***************************************************************************)
LEMMA TouchedOK ==
  ASSUME req \in Flat!Access, req.done < Len(req.buf), NEW f \in Frame
  PROVE  /\ Touched(f) \in Frame
         /\ Touched(f).page = f.page
         /\ Touched(f).data = Flat!PageAfter(req, f.data)
         /\ ~Touched(f).dirty => ~f.dirty /\ Touched(f).data = f.data
<1>1. f.data \in Data /\ Flat!PageAfter(req, f.data) \in Data
  BY PieceOK DEF Frame
<1>2. req.op \in {"read", "write"}
  BY DEF Flat!Access
<1>3. /\ Touched(f) \in Frame
      /\ Touched(f).page = f.page
      /\ Touched(f).data = Flat!PageAfter(req, f.data)
      /\ Touched(f).dirty = (f.dirty \/ req.op = "write")
  BY <1>1 DEF Touched, Frame
<1> QED
  BY <1>2, <1>3 DEF Flat!PageAfter

\* The frame resident builds for a fetched page is clean and holds the fetched bytes.
LEMMA FreshOK ==
  ASSUME req.page \in Pages, NEW data \in Data
  PROVE  /\ FreshFrame(data) \in Frame
         /\ FreshFrame(data).page = req.page
         /\ FreshFrame(data).data = data
         /\ FreshFrame(data).dirty = FALSE
BY DEF FreshFrame, Frame

\* What the type invariant says of a single frame.
LEMMA FramesTyped ==
  ASSUME TypeOK
  PROVE  /\ Len(frames) \in Nat
         /\ \A i \in 1 .. Len(frames) : /\ frames[i] \in Frame
                                        /\ frames[i].page \in Pages
                                        /\ frames[i].data \in Data
<1>1. frames \in Seq(Frame)
  BY DEF TypeOK
<1>2. Len(frames) \in Nat /\ \A i \in 1 .. Len(frames) : frames[i] \in Frame
  BY <1>1, ElementOfSeq, LenProperties
<1>3. \A f \in Frame : f.page \in Pages /\ f.data \in Data
  BY DEF Frame
<1> QED
  BY <1>2, <1>3

(***************************************************************************)
(* Giving one frame's page up to the page being fetched, at the end of     *)
(* resident, keeps the index and the frames in agreement and every clean   *)
(* frame stored.                                                           *)
(***************************************************************************)
LEMMA ReplaceOK ==
  ASSUME TypeOK, IndexMatchesFrames,
         req \in Flat!Access, req.done < Len(req.buf),
         req.page \in Pages, slot_of[req.page] = NOT_RESIDENT,
         backing' \in [Pages -> Data],
         NEW data, data = backing'[req.page],
         NEW fs \in Seq(Frame), Len(fs) = Len(frames),
         \A j \in 1 .. Len(frames) : /\ fs[j].page = frames[j].page
                                     /\ fs[j].dirty = frames[j].dirty
                                     /\ fs[j].data = frames[j].data,
         NEW i \in 1 .. Len(frames),
         \A j \in 1 .. Len(frames) : ~frames[j].dirty /\ j # i =>
                                        frames[j].data = backing'[frames[j].page],
         Replace(fs, i, data)
  PROVE  /\ frames' \in Seq(Frame)
         /\ Len(frames') = Len(frames)
         /\ slot_of' \in [Pages -> 0 .. Capacity]
         /\ IndexMatchesFrames'
         /\ CleanIsStored'
<1> DEFINE f == Touched(FreshFrame(data))
<1>1. data \in Data
  OBVIOUS
<1>2. /\ f \in Frame /\ f.page = req.page
      /\ ~f.dirty => f.data = data
  <2>1. /\ FreshFrame(data) \in Frame
        /\ FreshFrame(data).page = req.page
        /\ FreshFrame(data).data = data
    BY <1>1, FreshOK
  <2> QED
    BY <2>1, TouchedOK
<1>3. /\ frames' = [fs EXCEPT ![i] = f]
      /\ slot_of' = [slot_of EXCEPT ![fs[i].page] = NOT_RESIDENT, ![req.page] = i]
  BY DEF Replace
<1>4. /\ frames' \in Seq(Frame)
      /\ Len(frames') = Len(frames)
      /\ \A j \in 1 .. Len(frames) : frames'[j] = IF j = i THEN f ELSE fs[j]
  BY <1>2, <1>3, ExceptSeq
<1>5. /\ Len(frames) \in Nat /\ Len(frames) <= Capacity
      /\ \A j \in 1 .. Len(frames) : frames[j].page \in Pages
  BY FramesTyped DEF TypeOK
<1>6. slot_of \in [Pages -> 0 .. Capacity]
  BY DEF TypeOK
<1>7. slot_of' \in [Pages -> 0 .. Capacity]
  BY <1>3, <1>5, <1>6, SizesAssumption DEF NOT_RESIDENT
<1>8. IndexMatchesFrames'
  <2> HIDE DEF f
  <2>1. fs[i].page # req.page /\ fs[i].page = frames[i].page /\ frames[i].page \in Pages
    BY <1>5 DEF IndexMatchesFrames, NOT_RESIDENT
  <2>2. \A p \in Pages : slot_of'[p] = IF p = req.page THEN i
                                        ELSE IF p = frames[i].page THEN 0 ELSE slot_of[p]
    BY <1>3, <1>6, <2>1 DEF NOT_RESIDENT
  <2>3. \A j \in 1 .. Len(frames') : slot_of'[frames'[j].page] = j
    <3> SUFFICES ASSUME NEW j \in 1 .. Len(frames) PROVE slot_of'[frames'[j].page] = j
      BY <1>4
    <3>1. CASE j = i
      BY <1>2, <1>4, <2>2, <3>1
    <3>2. CASE j # i
      <4>1. frames'[j].page = frames[j].page /\ slot_of[frames[j].page] = j
        BY <1>4, <3>2 DEF IndexMatchesFrames
      <4>2. frames[j].page # req.page /\ frames[j].page # frames[i].page
        BY <1>5, <3>2, <4>1 DEF IndexMatchesFrames, NOT_RESIDENT
      <4> QED
        BY <1>5, <2>2, <4>1, <4>2
    <3> QED
      BY <3>1, <3>2
  <2>4. \A p \in Pages : slot_of'[p] # 0 =>
          slot_of'[p] \in 1 .. Len(frames') /\ frames'[slot_of'[p]].page = p
    <3> SUFFICES ASSUME NEW p \in Pages, slot_of'[p] # 0
                 PROVE  slot_of'[p] \in 1 .. Len(frames) /\ frames'[slot_of'[p]].page = p
      BY <1>4
    <3>1. CASE p = req.page
      BY <1>2, <1>4, <2>2, <3>1
    <3>2. CASE p # req.page
      <4>1. p # frames[i].page /\ slot_of'[p] = slot_of[p]
        BY <2>2, <3>2
      <4>2. slot_of[p] \in 1 .. Len(frames) /\ frames[slot_of[p]].page = p /\ slot_of[p] # i
        BY <4>1 DEF IndexMatchesFrames, NOT_RESIDENT
      <4> QED
        BY <1>4, <4>1, <4>2
    <3> QED
      BY <3>1, <3>2
  <2> QED
    BY <2>3, <2>4 DEF IndexMatchesFrames, NOT_RESIDENT
<1>9. CleanIsStored'
  BY <1>2, <1>4 DEF CleanIsStored
<1> QED
  BY <1>4, <1>7, <1>8, <1>9

\* PageCache::new establishes the inductive invariant.
LEMMA InitOK == Init => IInv
<1> SUFFICES ASSUME Init PROVE IInv
  OBVIOUS
<1>1. \A d \in Pages : [o \in Flat!Offs |-> Zero] \in Data
  BY BytesAssumption DEF Data, Flat!Data
<1>2. <<>> \in Seq(Frame) /\ Len(<<>>) = 0
  BY EmptySeq
<1>3. TypeOK
  BY <1>1, <1>2, SizesAssumption DEF Init, TypeOK, NOT_RESIDENT
<1>4. IndexMatchesFrames /\ CleanIsStored /\ FetchedStaysCurrent
  BY <1>2 DEF Init, IndexMatchesFrames, CleanIsStored, FetchedStaysCurrent, NOT_RESIDENT
<1>5. CallConsistent
  BY DEF Init, CallConsistent
<1> QED
  BY <1>3, <1>4, <1>5 DEF IInv

(***************************************************************************)
(* The index and the clean frames are undisturbed by a step that changes   *)
(* neither cache nor backing.                                              *)
(***************************************************************************)
LEMMA SameCacheOK ==
  ASSUME IndexMatchesFrames, CleanIsStored, UNCHANGED <<backing, frames, slot_of>>
  PROVE  IndexMatchesFrames' /\ CleanIsStored'
BY DEF IndexMatchesFrames, CleanIsStored

(***************************************************************************)
(* Writing a dirty frame to the backing, applied or not, disturbs no other *)
(* page and no clean frame.                                                *)
(***************************************************************************)
LEMMA WrittenOK ==
  ASSUME TypeOK, IndexMatchesFrames, CleanIsStored, NEW i \in 1 .. Len(frames), frames[i].dirty,
         Stores(frames[i].page, frames[i].data) \/ Keeps
  PROVE  /\ backing' \in [Pages -> Data]
         /\ \A p \in Pages : p # frames[i].page => backing'[p] = backing[p]
         /\ \A j \in 1 .. Len(frames) : ~frames[j].dirty =>
                 frames[j].data = backing'[frames[j].page]
<1>1. \A j \in 1 .. Len(frames) : frames[j].page \in Pages /\ frames[j].data \in Data
  BY FramesTyped
<1>2. backing \in [Pages -> Data]
  BY DEF TypeOK
<1>3. \A j \in 1 .. Len(frames) : j # i => frames[j].page # frames[i].page
  BY DEF IndexMatchesFrames
<1>4. \A j \in 1 .. Len(frames) : ~frames[j].dirty =>
         j # i /\ frames[j].data = backing[frames[j].page]
  BY DEF CleanIsStored
<1>5. CASE Keeps
  BY <1>2, <1>4, <1>5 DEF Keeps
<1>6. CASE Stores(frames[i].page, frames[i].data)
  <2>1. backing' = [backing EXCEPT ![frames[i].page] = frames[i].data]
    BY <1>6 DEF Stores
  <2>2. backing' \in [Pages -> Data] /\ \A p \in Pages : p # frames[i].page => backing'[p] = backing[p]
    BY <1>1, <1>2, <2>1
  <2> QED
    BY <1>1, <1>3, <1>4, <2>2
<1> QED
  BY <1>5, <1>6

\* Starting read_bytes or write_bytes, in range or not, preserves the invariant.
LEMMA BeginAccessOK ==
  ASSUME IInv, NEW a \in Flat!Requests, BeginAccess(a), Keeps
  PROVE  IInv'
<1>1. a \in Flat!Access /\ a.done < Len(a.buf)
  <2>1. /\ a.op \in {"read", "write"} /\ a.page \in Nat /\ a.off \in Flat!Offs /\ a.done = 0
        /\ a = [op |-> a.op, page |-> a.page, off |-> a.off, done |-> a.done, buf |-> a.buf]
        /\ \E n \in 1 .. MaxLen : a.buf \in [1 .. n -> Byte]
    BY SizesAssumption, BytesAssumption DEF Flat!Requests, Flat!Blank, Flat!Bufs
  <2>2. PICK n \in 1 .. MaxLen : a.buf \in [1 .. n -> Byte]
    BY <2>1
  <2>3. a.buf \in Seq(Byte) /\ Len(a.buf) = n /\ n \in Nat /\ n > 0
    BY <2>2, SizesAssumption, LenProperties
  <2> QED
    BY <2>1, <2>3 DEF Flat!Access
<1>2. TypeOK'
  BY <1>1 DEF IInv, TypeOK, BeginAccess, Keeps, cacheVars
<1>3. IndexMatchesFrames' /\ CleanIsStored'
  BY SameCacheOK DEF IInv, BeginAccess, Keeps, cacheVars
<1>4. FetchedStaysCurrent'
  BY DEF FetchedStaysCurrent, BeginAccess
<1>5. CallConsistent'
  BY <1>1 DEF IInv, CallConsistent, BeginAccess
<1> QED
  BY <1>2, <1>3, <1>4, <1>5 DEF IInv

\* A hit in resident preserves the invariant.
LEMMA HitOK ==
  ASSUME IInv, Hit, Keeps
  PROVE  IInv'
<1> DEFINE i == slot_of[req.page]
           f == Touched([frames[i] EXCEPT !.referenced = TRUE])
<1>1. req \in Flat!Access /\ req.done < Len(req.buf)
  BY DEF IInv, CallConsistent, Hit
<1>2. req.page \in Pages /\ i # NOT_RESIDENT
  BY DEF Hit, resident_slot
<1>3. i \in 1 .. Len(frames) /\ frames[i].page = req.page
  BY <1>2 DEF IInv, IndexMatchesFrames
<1>4. frames[i] \in Frame /\ frames[i].data \in Data /\ Len(frames) \in Nat
  BY <1>3, FramesTyped DEF IInv
<1>5. /\ f \in Frame /\ f.page = req.page
      /\ ~f.dirty => ~frames[i].dirty /\ f.data = frames[i].data
  <2> DEFINE g == [frames[i] EXCEPT !.referenced = TRUE]
  <2>1. g \in Frame /\ g.page = frames[i].page /\ g.data = frames[i].data /\ g.dirty = frames[i].dirty
    BY <1>4 DEF Frame
  <2> QED
    BY <1>1, <1>3, <2>1, TouchedOK
<1>6. frames' = [frames EXCEPT ![i] = f]
  BY DEF Hit
<1> HIDE DEF f
<1>7. /\ frames' \in Seq(Frame)
      /\ Len(frames') = Len(frames)
      /\ \A j \in 1 .. Len(frames) : frames'[j] = IF j = i THEN f ELSE frames[j]
  BY <1>3, <1>5, <1>6, ExceptSeq DEF IInv, TypeOK
<1>8. /\ pc' \in {"loop", "idle"}
      /\ pc' = "loop" => req' \in Flat!Access /\ req'.done < Len(req'.buf)
      /\ pc' = "idle" => req' = Flat!NoAccess
      /\ req' \in Flat!Access \cup {Flat!NoAccess}
      /\ victim' = 0
      /\ fetched' = NoData
  BY <1>1, <1>4, AdvanceOK DEF Hit
<1>9. TypeOK'
  BY <1>7, <1>8, SizesAssumption DEF IInv, TypeOK, Hit, Keeps
<1>10. IndexMatchesFrames'
  <2>1. slot_of' = slot_of /\ \A j \in 1 .. Len(frames) : frames'[j].page = frames[j].page
    BY <1>3, <1>5, <1>7 DEF Hit
  <2> QED
    BY <1>7, <2>1 DEF IInv, IndexMatchesFrames
<1>11. CleanIsStored'
  BY <1>3, <1>5, <1>7 DEF IInv, CleanIsStored, Keeps
<1>12. FetchedStaysCurrent' /\ CallConsistent'
  BY <1>8 DEF FetchedStaysCurrent, CallConsistent
<1> QED
  BY <1>9, <1>10, <1>11, <1>12 DEF IInv

\* A miss in resident, up to its call of read_page, preserves the invariant.
LEMMA MissOK ==
  ASSUME IInv, Miss, Keeps
  PROVE  IInv'
<1>2. TypeOK'
  BY DEF IInv, TypeOK, Miss, Keeps
<1>3. IndexMatchesFrames' /\ CleanIsStored'
  BY SameCacheOK DEF IInv, Miss, Keeps
<1>4. FetchedStaysCurrent' /\ CallConsistent'
  BY DEF IInv, FetchedStaysCurrent, CallConsistent, Miss, resident_slot
<1> QED
  BY <1>2, <1>3, <1>4 DEF IInv

(***************************************************************************)
(* Any return that leaves the cache alone preserves the invariant,         *)
(* whatever page of no clean frame the backing changed.                    *)
(***************************************************************************)
LEMMA ReturnOK ==
  ASSUME IInv, NEW r, Return(r), UNCHANGED cacheVars,
         backing' \in [Pages -> Data],
         \A j \in 1 .. Len(frames) : ~frames[j].dirty =>
                 frames[j].data = backing'[frames[j].page]
  PROVE  IInv'
<1>1. TypeOK'
  BY SizesAssumption DEF IInv, TypeOK, Return, cacheVars
<1>2. IndexMatchesFrames' /\ CleanIsStored'
  BY DEF IInv, IndexMatchesFrames, CleanIsStored, cacheVars
<1>3. FetchedStaysCurrent' /\ CallConsistent'
  BY DEF FetchedStaysCurrent, CallConsistent, Return
<1> QED
  BY <1>1, <1>2, <1>3 DEF IInv

\* What is left to show once a fill or an eviction has kept the index and the clean frames right.
LEMMA AdvancedOK ==
  ASSUME IInv, pc \in {"read", "write"},
         NEW data \in Data, Advance(data),
         backing' \in [Pages -> Data], frames' \in Seq(Frame), Len(frames') <= Capacity,
         slot_of' \in [Pages -> 0 .. Capacity], hand' \in 1 .. Capacity,
         IndexMatchesFrames', CleanIsStored'
  PROVE  IInv'
<1>1. req \in Flat!Access /\ req.done < Len(req.buf)
  BY DEF IInv, CallConsistent
<1>2. /\ pc' \in {"loop", "idle"}
      /\ pc' = "loop" => req' \in Flat!Access /\ req'.done < Len(req'.buf)
      /\ pc' = "idle" => req' = Flat!NoAccess
      /\ req' \in Flat!Access \cup {Flat!NoAccess}
      /\ victim' = 0
      /\ fetched' = NoData
  BY <1>1, AdvanceOK
<1>3. TypeOK'
  BY <1>2, SizesAssumption DEF TypeOK
<1>4. FetchedStaysCurrent' /\ CallConsistent'
  BY <1>2 DEF FetchedStaysCurrent, CallConsistent
<1> QED
  BY <1>3, <1>4 DEF IInv

\* Filling a vacant frame preserves the invariant.
LEMMA FillVacantOK ==
  ASSUME IInv, FillVacant(backing[req.page]), Keeps
  PROVE  IInv'
<1> DEFINE data == backing[req.page]
           f == Touched(FreshFrame(data))
           n == Len(frames)
<1>1. /\ req \in Flat!Access /\ req.done < Len(req.buf)
      /\ req.page \in Pages /\ slot_of[req.page] = 0
      /\ pc = "read"
  BY DEF IInv, CallConsistent, FillVacant, NOT_RESIDENT
<1>2. data \in Data /\ n \in Nat /\ n < Capacity /\ frames \in Seq(Frame)
  BY <1>1, FramesTyped DEF IInv, TypeOK, FillVacant
<1>3. /\ f \in Frame /\ f.page = req.page
      /\ ~f.dirty => f.data = data
  <2>1. FreshFrame(data) \in Frame /\ FreshFrame(data).page = req.page /\ FreshFrame(data).data = data
    BY <1>1, <1>2, FreshOK
  <2> QED
    BY <1>1, <2>1, TouchedOK
<1>4. /\ frames' = Append(frames, f)
      /\ slot_of' = [slot_of EXCEPT ![req.page] = n + 1]
      /\ Advance(data)
      /\ UNCHANGED <<hand, backing>>
  BY DEF FillVacant, Keeps
<1> HIDE DEF f
<1>5. /\ frames' \in Seq(Frame)
      /\ Len(frames') = n + 1
      /\ \A j \in 1 .. n : frames'[j] = frames[j]
      /\ frames'[n + 1] = f
  BY <1>2, <1>3, <1>4, AppendProperties
<1>6. slot_of \in [Pages -> 0 .. Capacity]
  BY DEF IInv, TypeOK
<1>7. slot_of' \in [Pages -> 0 .. Capacity]
  BY <1>1, <1>2, <1>4, <1>6, SizesAssumption
<1>8. IndexMatchesFrames'
  <2>1. \A p \in Pages : slot_of'[p] = IF p = req.page THEN n + 1 ELSE slot_of[p]
    BY <1>4, <1>6
  <2>2. \A j \in 1 .. n : frames[j].page # req.page /\ frames[j].page \in Pages
    BY <1>1, FramesTyped DEF IInv, IndexMatchesFrames
  <2>3. \A j \in 1 .. n + 1 : slot_of'[frames'[j].page] = j
    <3> SUFFICES ASSUME NEW j \in 1 .. n + 1 PROVE slot_of'[frames'[j].page] = j
      OBVIOUS
    <3>1. CASE j = n + 1
      BY <1>1, <1>3, <1>5, <2>1, <3>1
    <3>2. CASE j # n + 1
      <4>1. j \in 1 .. n
        BY <1>2, <3>2
      <4> QED
        BY <1>5, <2>1, <2>2, <4>1 DEF IInv, IndexMatchesFrames
    <3> QED
      BY <3>1, <3>2
  <2>4. \A p \in Pages : slot_of'[p] # 0 =>
          slot_of'[p] \in 1 .. n + 1 /\ frames'[slot_of'[p]].page = p
    <3> SUFFICES ASSUME NEW p \in Pages, slot_of'[p] # 0
                 PROVE  slot_of'[p] \in 1 .. n + 1 /\ frames'[slot_of'[p]].page = p
      OBVIOUS
    <3>1. CASE p = req.page
      BY <1>2, <1>3, <1>5, <2>1, <3>1
    <3>2. CASE p # req.page
      <4>1. slot_of'[p] = slot_of[p] /\ slot_of[p] \in 1 .. n /\ frames[slot_of[p]].page = p
        BY <2>1, <3>2 DEF IInv, IndexMatchesFrames, NOT_RESIDENT
      <4> QED
        BY <1>2, <1>5, <4>1
    <3> QED
      BY <3>1, <3>2
  <2> QED
    BY <1>5, <2>3, <2>4 DEF IndexMatchesFrames, NOT_RESIDENT
<1>9. CleanIsStored'
  <2> SUFFICES ASSUME NEW j \in 1 .. n + 1, ~frames'[j].dirty
               PROVE  frames'[j].data = backing[frames'[j].page]
    BY <1>4, <1>5 DEF CleanIsStored
  <2>1. CASE j = n + 1
    BY <1>3, <1>5, <2>1
  <2>2. CASE j # n + 1
    <3>1. j \in 1 .. n
      BY <1>2, <2>2
    <3> QED
      BY <1>5, <3>1 DEF IInv, CleanIsStored
  <2> QED
    BY <2>1, <2>2
<1>10. /\ backing' \in [Pages -> Data] /\ hand' \in 1 .. Capacity
       /\ Len(frames') <= Capacity
  BY <1>2, <1>4, <1>5, SizesAssumption DEF IInv, TypeOK
<1> QED
  BY <1>1, <1>2, <1>4, <1>5, <1>7, <1>8, <1>9, <1>10, AdvancedOK

\* Evicting a clean victim preserves the invariant.
LEMMA EvictCleanOK ==
  ASSUME IInv, EvictClean(backing[req.page]), Keeps
  PROVE  IInv'
<1> DEFINE data == backing[req.page]
           i == select_victim
<1>1. /\ req \in Flat!Access /\ req.done < Len(req.buf)
      /\ req.page \in Pages /\ slot_of[req.page] = NOT_RESIDENT
      /\ pc = "read"
  BY DEF IInv, CallConsistent, EvictClean
<1>2. i \in 1 .. Len(frames) /\ HandAfter(Stop) \in 1 .. Capacity
  BY VictimOK DEF IInv, EvictClean
<1>3. /\ Replace(AgedFrames, i, data)
      /\ hand' = HandAfter(Stop)
      /\ Len(frames) = Capacity
      /\ backing' = backing
  BY DEF EvictClean, Keeps
<1>4. backing' \in [Pages -> Data] /\ data \in Data
  BY <1>1, <1>3 DEF IInv, TypeOK
<1>5. /\ frames' \in Seq(Frame)
      /\ Len(frames') = Len(frames)
      /\ slot_of' \in [Pages -> 0 .. Capacity]
      /\ IndexMatchesFrames'
      /\ CleanIsStored'
  <2>1. \A j \in 1 .. Len(frames) : ~frames[j].dirty => frames[j].data = backing'[frames[j].page]
    BY <1>3 DEF IInv, CleanIsStored
  <2> HIDE DEF i
  <2> QED
    BY <1>1, <1>2, <1>3, <1>4, <2>1, AgedOK, ReplaceOK DEF IInv
<1>6. Advance(data)
  BY <1>3 DEF Replace
<1>7. Len(frames') <= Capacity
  BY <1>3, <1>5, SizesAssumption
<1> QED
  BY <1>1, <1>2, <1>3, <1>4, <1>5, <1>6, <1>7, AdvancedOK

\* Choosing a dirty victim and calling write_page for it preserves the invariant.
LEMMA WriteVictimOK ==
  ASSUME IInv, WriteVictim(backing[req.page]), Keeps
  PROVE  IInv'
<1>1. /\ AgedFrames \in Seq(Frame)
      /\ Len(AgedFrames) = Len(frames)
      /\ \A i \in 1 .. Len(frames) : /\ AgedFrames[i].page = frames[i].page
                                     /\ AgedFrames[i].dirty = frames[i].dirty
                                     /\ AgedFrames[i].data = frames[i].data
                                     /\ AgedFrames[i].pinned = frames[i].pinned
  BY AgedOK DEF IInv
<1>2. select_victim \in 1 .. Len(frames) /\ ~frames[select_victim].pinned /\ HandAfter(Stop) \in 1 .. Capacity
  BY VictimOK DEF IInv, WriteVictim
<1>3. /\ frames' = AgedFrames /\ hand' = HandAfter(Stop)
      /\ victim' = select_victim /\ frames[select_victim].dirty
      /\ fetched' = backing[req.page] /\ pc' = "write" /\ pc = "read"
      /\ Len(frames) = Capacity
      /\ UNCHANGED <<backing, slot_of, req, ret>>
  BY DEF WriteVictim, Keeps
<1>4. /\ req \in Flat!Access /\ req.done < Len(req.buf)
      /\ req.page \in Pages /\ slot_of[req.page] = NOT_RESIDENT
  BY <1>3 DEF IInv, CallConsistent
<1> HIDE DEF AgedFrames, select_victim
<1>5. TypeOK'
  BY <1>1, <1>2, <1>3, <1>4, SizesAssumption DEF IInv, TypeOK
<1>6. IndexMatchesFrames' /\ CleanIsStored'
  BY <1>1, <1>3 DEF IInv, IndexMatchesFrames, CleanIsStored
<1>7. FetchedStaysCurrent'
  BY <1>1, <1>2, <1>3, <1>4 DEF FetchedStaysCurrent
<1>8. CallConsistent'
  BY <1>3, <1>4 DEF CallConsistent
<1> QED
  BY <1>5, <1>6, <1>7, <1>8 DEF IInv

\* The panic of select_victim with every frame pinned preserves the invariant.
LEMMA PanicOK ==
  ASSUME IInv, PanicAllPinned, Keeps
  PROVE  IInv'
<1>1. TypeOK'
  BY DEF IInv, TypeOK, PanicAllPinned, Keeps, cacheVars
<1>2. IndexMatchesFrames' /\ CleanIsStored'
  BY SameCacheOK DEF IInv, PanicAllPinned, Keeps, cacheVars
<1>3. FetchedStaysCurrent' /\ CallConsistent'
  BY DEF FetchedStaysCurrent, CallConsistent, PanicAllPinned
<1> QED
  BY <1>1, <1>2, <1>3 DEF IInv

(***************************************************************************)
(* What holds while write_page of a victim is outstanding: the fetched     *)
(* page is still the backing's and still not resident, whether or not the  *)
(* write takes effect.                                                     *)
(***************************************************************************)
LEMMA OutstandingWrite ==
  ASSUME IInv, pc = "write", StoresWritten \/ Keeps
  PROVE  /\ req \in Flat!Access /\ req.done < Len(req.buf)
         /\ req.page \in Pages /\ slot_of[req.page] = NOT_RESIDENT
         /\ victim \in 1 .. Len(frames) /\ Len(frames) = Capacity
         /\ frames[victim].dirty /\ ~frames[victim].pinned /\ frames[victim].page # req.page
         /\ fetched = backing[req.page] /\ fetched \in Data
         /\ backing' \in [Pages -> Data]
         /\ \A p \in Pages : p # frames[victim].page => backing'[p] = backing[p]
         /\ \A j \in 1 .. Len(frames) : ~frames[j].dirty =>
                 frames[j].data = backing'[frames[j].page]
         /\ fetched = backing'[req.page]
<1>1. /\ req \in Flat!Access /\ req.done < Len(req.buf)
      /\ req.page \in Pages /\ slot_of[req.page] = NOT_RESIDENT
      /\ victim \in 1 .. Len(frames) /\ Len(frames) = Capacity
      /\ frames[victim].dirty /\ ~frames[victim].pinned /\ fetched = backing[req.page]
  BY DEF IInv, FetchedStaysCurrent, CallConsistent
<1>2. frames[victim].page # req.page
  BY <1>1 DEF IInv, IndexMatchesFrames, NOT_RESIDENT
<1>3. fetched \in Data
  BY <1>1 DEF IInv, TypeOK
<1>4. Stores(frames[victim].page, frames[victim].data) \/ Keeps
  BY DEF StoresWritten, Written
<1>5. /\ backing' \in [Pages -> Data]
      /\ \A p \in Pages : p # frames[victim].page => backing'[p] = backing[p]
      /\ \A j \in 1 .. Len(frames) : ~frames[j].dirty =>
                 frames[j].data = backing'[frames[j].page]
  BY <1>1, <1>4, WrittenOK DEF IInv
<1> QED
  BY <1>1, <1>2, <1>3, <1>5

\* An eviction whose write_page succeeded preserves the invariant.
LEMMA WriteReturnsOK ==
  ASSUME IInv, WriteReturns, StoresWritten
  PROVE  IInv'
<1>1. pc = "write" /\ hand' = hand /\ Replace(frames, victim, fetched)
  BY DEF WriteReturns
<1>2. /\ frames' \in Seq(Frame)
      /\ Len(frames') = Len(frames)
      /\ slot_of' \in [Pages -> 0 .. Capacity]
      /\ IndexMatchesFrames'
      /\ CleanIsStored'
  <2>1. frames \in Seq(Frame)
    BY DEF IInv, TypeOK
  <2> QED
    BY <1>1, <2>1, OutstandingWrite, ReplaceOK DEF IInv
<1>4. Advance(fetched)
  BY <1>1 DEF Replace
<1>5. Len(frames') <= Capacity /\ hand' \in 1 .. Capacity
  BY <1>1, <1>2, OutstandingWrite, SizesAssumption DEF IInv, TypeOK
<1> QED
  BY <1>1, <1>2, <1>4, <1>5, OutstandingWrite, AdvancedOK

(***************************************************************************)
(* An eviction whose write_page failed, and which gives up a clean frame   *)
(* instead, preserves the invariant even when the failed write took        *)
(* effect.                                                                 *)
(***************************************************************************)
LEMMA DeclineVictimOK ==
  ASSUME IInv, DeclineVictim, StoresWritten \/ Keeps
  PROVE  IInv'
<1> DEFINE i == select_clean_victim
<1>1. /\ pc = "write" /\ hand' = HandAfter(CleanStop)
      /\ Replace(frames, i, fetched)
      /\ CleanUnpinned # {}
  BY DEF DeclineVictim
<1>2. i \in 1 .. Len(frames) /\ HandAfter(CleanStop) \in 1 .. Capacity
  BY <1>1, OutstandingWrite, CleanVictimOK DEF IInv
<1>3. /\ frames' \in Seq(Frame)
      /\ Len(frames') = Len(frames)
      /\ slot_of' \in [Pages -> 0 .. Capacity]
      /\ IndexMatchesFrames'
      /\ CleanIsStored'
  <2>1. frames \in Seq(Frame)
    BY DEF IInv, TypeOK
  <2> HIDE DEF i
  <2> QED
    BY <1>1, <1>2, <2>1, OutstandingWrite, ReplaceOK DEF IInv
<1>5. Advance(fetched)
  BY <1>1 DEF Replace
<1>6. Len(frames') <= Capacity
  BY <1>1, <1>3, OutstandingWrite, SizesAssumption DEF IInv, TypeOK
<1> QED
  BY <1>1, <1>2, <1>3, <1>5, <1>6, OutstandingWrite, AdvancedOK

\* A failed write_page with no clean frame to give up preserves the invariant.
LEMMA NoCleanVictimOK ==
  ASSUME IInv, NoCleanVictim, StoresWritten \/ Keeps
  PROVE  IInv'
BY OutstandingWrite, ReturnOK DEF NoCleanVictim

\* pin preserves the invariant.
LEMMA PinOK ==
  ASSUME IInv, NEW p \in Pinnable, Pin(p), Keeps
  PROVE  IInv'
<1> DEFINE i == slot_of[p]
           f == [frames[i] EXCEPT !.pinned = TRUE]
<1>1. i \in 1 .. Len(frames)
  BY DEF IInv, IndexMatchesFrames, Pin, resident_slot
<1>2. frames[i] \in Frame /\ Len(frames) \in Nat
  BY <1>1, FramesTyped DEF IInv
<1>3. f \in Frame /\ f.page = frames[i].page /\ f.dirty = frames[i].dirty /\ f.data = frames[i].data
  BY <1>2 DEF Frame
<1>4. frames' = [frames EXCEPT ![i] = f]
  BY DEF Pin
<1> HIDE DEF f
<1>5. /\ frames' \in Seq(Frame)
      /\ Len(frames') = Len(frames)
      /\ \A j \in 1 .. Len(frames) : frames'[j] = IF j = i THEN f ELSE frames[j]
  BY <1>1, <1>3, <1>4, ExceptSeq DEF IInv, TypeOK
<1>6. /\ \A j \in 1 .. Len(frames) : /\ frames'[j].page = frames[j].page
                                     /\ frames'[j].dirty = frames[j].dirty
                                     /\ frames'[j].data = frames[j].data
      /\ UNCHANGED <<backing, slot_of, hand, callVars>> /\ pc = "idle"
  BY <1>3, <1>5 DEF Pin, Keeps
<1>7. TypeOK'
  BY <1>5, <1>6 DEF IInv, TypeOK, callVars
<1>8. IndexMatchesFrames' /\ CleanIsStored'
  BY <1>5, <1>6 DEF IInv, IndexMatchesFrames, CleanIsStored
<1>9. FetchedStaysCurrent' /\ CallConsistent'
  BY <1>6 DEF IInv, FetchedStaysCurrent, CallConsistent, callVars
<1> QED
  BY <1>7, <1>8, <1>9 DEF IInv

\* Starting flush preserves the invariant.
LEMMA BeginFlushOK ==
  ASSUME IInv, BeginFlush, Keeps
  PROVE  IInv'
<1>1. TypeOK'
  BY DEF IInv, TypeOK, BeginFlush, Keeps, cacheVars
<1>2. IndexMatchesFrames' /\ CleanIsStored'
  BY SameCacheOK DEF IInv, BeginFlush, Keeps, cacheVars
<1>3. FetchedStaysCurrent' /\ CallConsistent'
  BY DEF IInv, FetchedStaysCurrent, CallConsistent, BeginFlush, cacheVars, DirtyFrames
<1> QED
  BY <1>1, <1>2, <1>3 DEF IInv

\* What holds while write_page of flush is outstanding, whether or not the write takes effect.
LEMMA OutstandingFlush ==
  ASSUME IInv, pc = "flush", StoresWritten \/ Keeps
  PROVE  LET d == FirstOf(DirtyFrames) IN
         /\ d \in 1 .. Len(frames) /\ frames[d].dirty
         /\ backing' \in [Pages -> Data]
         /\ \A p \in Pages : p # frames[d].page => backing'[p] = backing[p]
         /\ \A j \in 1 .. Len(frames) : ~frames[j].dirty =>
                 frames[j].data = backing'[frames[j].page]
<1> DEFINE d == FirstOf(DirtyFrames)
<1>1. d \in DirtyFrames
  <2>1. DirtyFrames # {} /\ DirtyFrames \subseteq Nat
    BY FramesTyped DEF IInv, CallConsistent, DirtyFrames
  <2> QED
    BY <2>1, FirstOfIn
<1>2. d \in 1 .. Len(frames) /\ frames[d].dirty
  BY <1>1 DEF DirtyFrames
<1>3. Stores(frames[d].page, frames[d].data) \/ Keeps
  BY DEF StoresWritten, Written
<1> HIDE DEF d
<1>4. /\ backing' \in [Pages -> Data]
      /\ \A p \in Pages : p # frames[d].page => backing'[p] = backing[p]
      /\ \A j \in 1 .. Len(frames) : ~frames[j].dirty =>
                 frames[j].data = backing'[frames[j].page]
  BY <1>2, <1>3, WrittenOK DEF IInv
<1> QED
  BY <1>2, <1>4 DEF d

\* A successful write of flush, which marks the frame clean, preserves the invariant.
LEMMA FlushWriteReturnsOK ==
  ASSUME IInv, FlushWriteReturns, StoresWritten
  PROVE  IInv'
<1> DEFINE d == FirstOf(DirtyFrames)
           f == [frames[d] EXCEPT !.dirty = FALSE]
<1>1. pc = "flush" /\ frames' = [frames EXCEPT ![d] = f]
  BY DEF FlushWriteReturns
<1>2. /\ d \in 1 .. Len(frames) /\ frames[d].dirty
      /\ backing' \in [Pages -> Data]
      /\ \A p \in Pages : p # frames[d].page => backing'[p] = backing[p]
      /\ \A j \in 1 .. Len(frames) : ~frames[j].dirty =>
                 frames[j].data = backing'[frames[j].page]
  BY <1>1, OutstandingFlush
<1>3. backing' = [backing EXCEPT ![frames[d].page] = frames[d].data]
  BY <1>1 DEF StoresWritten, Stores, Written
<1> HIDE DEF d
<1>4. frames[d] \in Frame /\ frames[d].page \in Pages /\ Len(frames) \in Nat
  BY <1>2, FramesTyped DEF IInv
<1>5. f \in Frame /\ f.page = frames[d].page /\ ~f.dirty /\ f.data = frames[d].data
  BY <1>4 DEF Frame
<1> HIDE DEF f
<1>6. /\ frames' \in Seq(Frame)
      /\ Len(frames') = Len(frames)
      /\ \A j \in 1 .. Len(frames) : frames'[j] = IF j = d THEN f ELSE frames[j]
  BY <1>1, <1>2, <1>5, ExceptSeq DEF IInv, TypeOK
<1>7. TypeOK'
  <2>2. pc' \in {"sync", "flush"} /\ UNCHANGED <<slot_of, hand, req, victim, fetched, ret>>
    BY DEF FlushWriteReturns
  <2> QED
    BY <1>2, <1>6, <2>2 DEF IInv, TypeOK
<1>8. IndexMatchesFrames'
  <2>1. slot_of' = slot_of /\ \A j \in 1 .. Len(frames) : frames'[j].page = frames[j].page
    BY <1>5, <1>6 DEF FlushWriteReturns
  <2> QED
    BY <1>6, <2>1 DEF IInv, IndexMatchesFrames
<1>9. CleanIsStored'
  <2>1. backing'[frames[d].page] = frames[d].data
    BY <1>3, <1>4 DEF IInv, TypeOK
  <2> QED
    BY <1>2, <1>5, <1>6, <2>1 DEF CleanIsStored
<1>10. DirtyFrames' = DirtyFrames \ {d}
  BY <1>2, <1>5, <1>6 DEF DirtyFrames
<1>11. pc' = (IF DirtyFrames = {d} THEN "sync" ELSE "flush") /\ d \in DirtyFrames
       /\ req' = req /\ req = Flat!NoAccess
  BY <1>1, <1>2 DEF FlushWriteReturns, d, DirtyFrames, IInv, CallConsistent
<1>12. FetchedStaysCurrent' /\ CallConsistent'
  BY <1>10, <1>11 DEF FetchedStaysCurrent, CallConsistent
<1> QED
  BY <1>7, <1>8, <1>9, <1>12 DEF IInv

\* A failed write of flush preserves the invariant.
LEMMA FlushWriteFailsOK ==
  ASSUME IInv, FlushWriteFails, StoresWritten \/ Keeps
  PROVE  IInv'
BY OutstandingFlush, ReturnOK DEF FlushWriteFails

\* A call that ends with nothing written preserves the invariant.
LEMMA QuietReturnOK ==
  ASSUME IInv, NEW r, Return(r), UNCHANGED cacheVars, Keeps
  PROVE  IInv'
<1>1. backing' \in [Pages -> Data] /\ \A j \in 1 .. Len(frames) : ~frames[j].dirty =>
                 frames[j].data = backing'[frames[j].page]
  BY DEF IInv, TypeOK, CleanIsStored, Keeps
<1> QED
  BY <1>1, ReturnOK

\* Every step of the cache preserves the inductive invariant.
LEMMA NextOK == IInv /\ [Next]_vars => IInv'
<1> SUFFICES ASSUME IInv, [Next]_vars PROVE IInv'
  OBVIOUS
<1>1. CASE \E a \in Flat!Requests : BeginAccess(a) /\ Keeps
  BY <1>1, BeginAccessOK
<1>2. CASE Hit /\ Keeps
  BY <1>2, HitOK
<1>3. CASE Miss /\ Keeps
  BY <1>3, MissOK
<1>4. CASE ReadReturns(backing[req.page]) /\ Keeps
  BY <1>4, FillVacantOK, EvictCleanOK, WriteVictimOK, PanicOK DEF ReadReturns
<1>5. CASE ReadFails /\ Keeps
  BY <1>5, QuietReturnOK DEF ReadFails
<1>6. CASE WriteReturns /\ StoresWritten
  BY <1>6, WriteReturnsOK
<1>7. CASE WriteFails /\ (StoresWritten \/ Keeps)
  BY <1>7, DeclineVictimOK, NoCleanVictimOK DEF WriteFails
<1>8. CASE BeginFlush /\ Keeps
  BY <1>8, BeginFlushOK
<1>9. CASE FlushWriteReturns /\ StoresWritten
  BY <1>9, FlushWriteReturnsOK
<1>10. CASE FlushWriteFails /\ (StoresWritten \/ Keeps)
  BY <1>10, FlushWriteFailsOK
<1>11. CASE \E r \in {"ok", "Medium"} : SyncEnds(r) /\ Keeps
  BY <1>11, QuietReturnOK DEF SyncEnds
<1>12. CASE \E p \in Pinnable : Pin(p) /\ Keeps
  BY <1>12, PinOK
<1>13. CASE UNCHANGED vars
  <2>1. TypeOK'
    BY <1>13 DEF IInv, TypeOK, vars, cacheVars, callVars
  <2>2. IndexMatchesFrames' /\ CleanIsStored'
    BY <1>13 DEF IInv, IndexMatchesFrames, CleanIsStored, vars, cacheVars, callVars
  <2>3. FetchedStaysCurrent' /\ CallConsistent'
    BY <1>13 DEF IInv, FetchedStaysCurrent, CallConsistent, DirtyFrames, vars, cacheVars, callVars
  <2> QED
    BY <2>1, <2>2, <2>3 DEF IInv
<1> QED
  BY <1>1, <1>2, <1>3, <1>4, <1>5, <1>6, <1>7, <1>8, <1>9, <1>10, <1>11, <1>12, <1>13 DEF Next

(***************************************************************************)
(* The inductive invariant holds of every state of PageCache, for every    *)
(* RAM size, page size and capacity.                                       *)
(***************************************************************************)
THEOREM Invariance == Spec => []IInv
BY InitOK, NextOK, PTL DEF Spec
-------------------------------------------------------------------------------
(***************************************************************************)
(* The guest sees the same bytes after a step that changes no frame's      *)
(* bytes, no index entry, and no page of the backing that is not resident. *)
(***************************************************************************)
LEMMA SameView ==
  ASSUME IInv, slot_of' = slot_of,
         \A j \in 1 .. Len(frames) : frames'[j].data = frames[j].data,
         \A p \in Pages : slot_of[p] = NOT_RESIDENT => backing'[p] = backing[p]
  PROVE  GuestView' = GuestView
<1>1. \A p \in Pages : slot_of[p] # NOT_RESIDENT => slot_of[p] \in 1 .. Len(frames)
  BY DEF IInv, IndexMatchesFrames
<1> QED
  BY <1>1 DEF GuestView, Pages, Flat!Pages

\* A step that moves one piece through the page the guest sees is a Move of the flat memory.
LEMMA MoveSeen ==
  ASSUME req \in Flat!Access, req.page \in Pages, NEW data, GuestView[req.page] = data,
         Advance(data),
         \A p \in Pages : GuestView'[p] = IF p = req.page THEN Flat!PageAfter(req, data)
                                                          ELSE GuestView[p]
  PROVE  Flat!Move
<1>1. req # Flat!NoAccess
  BY AccessIsSome
<1>2. GuestView' = [GuestView EXCEPT ![req.page] = Flat!PageAfter(req, GuestView[req.page])]
  BY DEF GuestView, Pages, Flat!Pages
<1>3. LET after == Flat!Moved(req, GuestView[req.page])
      IN  IF Flat!Finished(after)
          THEN req' = Flat!NoAccess /\ ret' = [res |-> "ok", buf |-> after.buf]
          ELSE req' = after /\ UNCHANGED ret
  BY DEF Advance, Return
<1> QED
  BY <1>1, <1>2, <1>3 DEF Flat!Move, Pages

(***************************************************************************)
(* The eviction at the end of resident, seen by the guest, is the move of  *)
(* one piece and nothing else.                                             *)
(***************************************************************************)
LEMMA ReplaceSeen ==
  ASSUME IInv, req \in Flat!Access, req.done < Len(req.buf),
         req.page \in Pages, slot_of[req.page] = NOT_RESIDENT,
         NEW data \in Data, data = backing[req.page],
         NEW fs \in Seq(Frame), Len(fs) = Len(frames),
         \A j \in 1 .. Len(frames) : fs[j].page = frames[j].page /\ fs[j].data = frames[j].data,
         NEW i \in 1 .. Len(frames),
         \A p \in Pages : slot_of[p] = NOT_RESIDENT => backing'[p] = backing[p],
         backing'[frames[i].page] = frames[i].data,
         Replace(fs, i, data)
  PROVE  Flat!Move
<1> DEFINE f == Touched(FreshFrame(data))
<1>1. f \in Frame /\ f.data = Flat!PageAfter(req, data)
  <2>1. FreshFrame(data) \in Frame /\ FreshFrame(data).data = data
    BY FreshOK
  <2> QED
    BY <2>1, TouchedOK
<1>2. /\ frames' = [fs EXCEPT ![i] = f] /\ Advance(data)
      /\ slot_of' = [slot_of EXCEPT ![fs[i].page] = NOT_RESIDENT, ![req.page] = i]
  BY DEF Replace
<1> HIDE DEF f
<1>3. \A j \in 1 .. Len(frames) : frames'[j] = IF j = i THEN f ELSE fs[j]
  BY <1>1, <1>2, ExceptSeq
<1>4. slot_of \in [Pages -> 0 .. Capacity] /\ i # 0
  BY FramesTyped DEF IInv, TypeOK
<1>5. fs[i].page = frames[i].page /\ frames[i].page \in Pages /\ frames[i].page # req.page
  BY FramesTyped, <1>4 DEF IInv, IndexMatchesFrames, NOT_RESIDENT
<1>6. \A p \in Pages : slot_of'[p] = IF p = req.page THEN i
                                     ELSE IF p = frames[i].page THEN 0 ELSE slot_of[p]
  BY <1>2, <1>4, <1>5 DEF NOT_RESIDENT
<1>7. \A p \in Pages : GuestView[p] = IF slot_of[p] # 0 THEN frames[slot_of[p]].data
                                                        ELSE backing[p]
  BY DEF GuestView, Pages, Flat!Pages, NOT_RESIDENT
<1>8. \A p \in Pages : GuestView'[p] = IF slot_of'[p] # 0 THEN frames'[slot_of'[p]].data
                                                          ELSE backing'[p]
  BY DEF GuestView, Pages, Flat!Pages, NOT_RESIDENT
<1>9. GuestView[req.page] = data
  BY <1>7 DEF NOT_RESIDENT
<1>10. ASSUME NEW p \in Pages
       PROVE  GuestView'[p] = IF p = req.page THEN Flat!PageAfter(req, data) ELSE GuestView[p]
  <2>1. CASE p = req.page
    BY <1>1, <1>3, <1>4, <1>6, <1>8, <2>1
  <2>2. CASE p # req.page /\ p = frames[i].page
    <3>1. slot_of[p] = i
      BY <2>2 DEF IInv, IndexMatchesFrames
    <3>2. GuestView[p] = frames[i].data
      BY <1>4, <1>7, <3>1
    <3>3. slot_of'[p] = 0
      BY <1>6, <2>2
    <3>4. GuestView'[p] = backing'[frames[i].page]
      BY <1>8, <2>2, <3>3
    <3> QED
      BY <2>2, <3>2, <3>4
  <2>3. CASE p # req.page /\ p # frames[i].page
    <3>1. slot_of'[p] = slot_of[p]
      BY <1>6, <2>3
    <3>2. CASE slot_of[p] = 0
      BY <1>7, <1>8, <2>3, <3>1, <3>2 DEF NOT_RESIDENT
    <3>3. CASE slot_of[p] # 0
      <4>1. slot_of[p] \in 1 .. Len(frames) /\ slot_of[p] # i
        BY <2>3, <3>3 DEF IInv, IndexMatchesFrames, NOT_RESIDENT
      <4> QED
        BY <1>3, <1>7, <1>8, <3>1, <3>3, <4>1, <2>3
    <3> QED
      BY <3>2, <3>3
  <2> QED
    BY <2>1, <2>2, <2>3
<1> QED
  BY <1>2, <1>9, <1>10, MoveSeen

\* A hit in resident is a Move of the flat memory.
LEMMA HitSeen ==
  ASSUME IInv, Hit, Keeps
  PROVE  Flat!Move
<1> DEFINE i == slot_of[req.page]
           g == [frames[i] EXCEPT !.referenced = TRUE]
           f == Touched(g)
<1>1. req \in Flat!Access /\ req.done < Len(req.buf)
  BY DEF IInv, CallConsistent, Hit
<1>2. req.page \in Pages /\ i # 0
  BY DEF Hit, resident_slot, NOT_RESIDENT
<1>3. i \in 1 .. Len(frames) /\ frames[i].page = req.page
  BY <1>2 DEF IInv, IndexMatchesFrames, NOT_RESIDENT
<1>4. frames[i] \in Frame
  BY <1>3, FramesTyped DEF IInv
<1>5. f \in Frame /\ f.data = Flat!PageAfter(req, frames[i].data)
  <2>1. g \in Frame /\ g.data = frames[i].data
    BY <1>4 DEF Frame
  <2> QED
    BY <1>1, <2>1, TouchedOK
<1>6. /\ frames' = [frames EXCEPT ![i] = f] /\ Advance(frames[i].data)
      /\ slot_of' = slot_of /\ backing' = backing
  BY DEF Hit, Keeps
<1> HIDE DEF f, g
<1>7. \A j \in 1 .. Len(frames) : frames'[j] = IF j = i THEN f ELSE frames[j]
  BY <1>3, <1>5, <1>6, ExceptSeq DEF IInv, TypeOK
<1>8. \A p \in Pages : GuestView[p] = IF slot_of[p] # 0 THEN frames[slot_of[p]].data
                                                        ELSE backing[p]
  BY DEF GuestView, Pages, Flat!Pages, NOT_RESIDENT
<1>9. \A p \in Pages : GuestView'[p] = IF slot_of'[p] # 0 THEN frames'[slot_of'[p]].data
                                                          ELSE backing'[p]
  BY DEF GuestView, Pages, Flat!Pages, NOT_RESIDENT
<1>10. ASSUME NEW p \in Pages
       PROVE  GuestView'[p] = IF p = req.page THEN Flat!PageAfter(req, frames[i].data)
                                              ELSE GuestView[p]
  <2>1. CASE p = req.page
    BY <1>2, <1>3, <1>5, <1>6, <1>7, <1>9, <2>1
  <2>2. CASE p # req.page /\ slot_of[p] = 0
    BY <1>6, <1>8, <1>9, <2>2
  <2>3. CASE p # req.page /\ slot_of[p] # 0
    <3>1. slot_of[p] \in 1 .. Len(frames) /\ slot_of[p] # i
      BY <1>3, <2>3 DEF IInv, IndexMatchesFrames, NOT_RESIDENT
    <3>2. frames'[slot_of[p]] = frames[slot_of[p]]
      BY <1>7, <3>1
    <3> QED
      BY <1>6, <1>8, <1>9, <2>3, <3>2
  <2> QED
    BY <2>1, <2>2, <2>3
<1>11. GuestView[req.page] = frames[i].data
  BY <1>2, <1>8
<1> QED
  BY <1>1, <1>2, <1>6, <1>10, <1>11, MoveSeen

\* Filling a vacant frame is a Move of the flat memory.
LEMMA FillVacantSeen ==
  ASSUME IInv, FillVacant(backing[req.page]), Keeps
  PROVE  Flat!Move
<1> DEFINE data == backing[req.page]
           f == Touched(FreshFrame(data))
           n == Len(frames)
<1>1. /\ req \in Flat!Access /\ req.done < Len(req.buf)
      /\ req.page \in Pages /\ slot_of[req.page] = 0
  BY DEF IInv, CallConsistent, FillVacant, NOT_RESIDENT
<1>2. data \in Data /\ n \in Nat /\ frames \in Seq(Frame) /\ slot_of \in [Pages -> 0 .. Capacity]
  BY <1>1, FramesTyped DEF IInv, TypeOK
<1>3. f \in Frame /\ f.data = Flat!PageAfter(req, data)
  <2>1. FreshFrame(data) \in Frame /\ FreshFrame(data).data = data
    BY <1>1, <1>2, FreshOK
  <2> QED
    BY <1>1, <2>1, TouchedOK
<1>4. /\ frames' = Append(frames, f) /\ Advance(data)
      /\ slot_of' = [slot_of EXCEPT ![req.page] = n + 1] /\ backing' = backing
  BY DEF FillVacant, Keeps
<1> HIDE DEF f
<1>5. (\A j \in 1 .. n : frames'[j] = frames[j]) /\ frames'[n + 1] = f
  BY <1>2, <1>3, <1>4, AppendProperties
<1>6. \A p \in Pages : GuestView[p] = IF slot_of[p] # 0 THEN frames[slot_of[p]].data
                                                        ELSE backing[p]
  BY DEF GuestView, Pages, Flat!Pages, NOT_RESIDENT
<1>7. \A p \in Pages : GuestView'[p] = IF slot_of'[p] # 0 THEN frames'[slot_of'[p]].data
                                                          ELSE backing'[p]
  BY DEF GuestView, Pages, Flat!Pages, NOT_RESIDENT
<1>8. \A p \in Pages : slot_of'[p] = IF p = req.page THEN n + 1 ELSE slot_of[p]
  BY <1>2, <1>4
<1>9. ASSUME NEW p \in Pages
      PROVE  GuestView'[p] = IF p = req.page THEN Flat!PageAfter(req, data) ELSE GuestView[p]
  <2>1. CASE p = req.page
    <3>1. n + 1 # 0 /\ slot_of'[p] = n + 1
      BY <1>2, <1>8, <2>1
    <3> QED
      BY <1>3, <1>5, <1>7, <2>1, <3>1
  <2>2. CASE p # req.page /\ slot_of[p] = 0
    BY <1>4, <1>6, <1>7, <1>8, <2>2
  <2>3. CASE p # req.page /\ slot_of[p] # 0
    <3>1. slot_of[p] \in 1 .. n
      BY <2>3 DEF IInv, IndexMatchesFrames, NOT_RESIDENT
    <3> QED
      BY <1>5, <1>6, <1>7, <1>8, <2>3, <3>1
  <2> QED
    BY <2>1, <2>2, <2>3
<1>10. GuestView[req.page] = data
  BY <1>1, <1>6
<1> QED
  BY <1>1, <1>4, <1>9, <1>10, MoveSeen

\* Evicting a clean victim is a Move of the flat memory: dropping it loses no byte.
LEMMA EvictCleanSeen ==
  ASSUME IInv, EvictClean(backing[req.page]), Keeps
  PROVE  Flat!Move
<1> DEFINE data == backing[req.page]
           i == select_victim
<1>1. /\ req \in Flat!Access /\ req.done < Len(req.buf)
      /\ req.page \in Pages /\ slot_of[req.page] = NOT_RESIDENT
  BY DEF IInv, CallConsistent, EvictClean
<1>2. i \in 1 .. Len(frames)
  BY VictimOK DEF IInv, EvictClean
<1>3. /\ Replace(AgedFrames, i, data)
      /\ ~frames[i].dirty
      /\ backing' = backing
  BY DEF EvictClean, Keeps
<1>4. data \in Data
  BY <1>1 DEF IInv, TypeOK
<1>5. backing'[frames[i].page] = frames[i].data
  BY <1>2, <1>3 DEF IInv, CleanIsStored
<1> HIDE DEF i
<1> QED
  BY <1>1, <1>2, <1>3, <1>4, <1>5, AgedOK, ReplaceSeen DEF IInv

\* Evicting a written-back victim is a Move of the flat memory.
LEMMA WriteReturnsSeen ==
  ASSUME IInv, WriteReturns, StoresWritten
  PROVE  Flat!Move
<1>1. pc = "write" /\ Replace(frames, victim, fetched)
  BY DEF WriteReturns
<1>2. backing' = [backing EXCEPT ![frames[victim].page] = frames[victim].data]
  BY <1>1 DEF StoresWritten, Stores, Written
<1>3. frames \in Seq(Frame) /\ backing \in [Pages -> Data] /\ frames[victim].page \in Pages
  BY <1>1, OutstandingWrite, FramesTyped DEF IInv, TypeOK
<1>4. backing'[frames[victim].page] = frames[victim].data
  BY <1>2, <1>3
<1>5. \A p \in Pages : slot_of[p] = NOT_RESIDENT => backing'[p] = backing[p]
  BY <1>1, OutstandingWrite DEF IInv, IndexMatchesFrames, NOT_RESIDENT
<1> QED
  BY <1>1, <1>3, <1>4, <1>5, OutstandingWrite, ReplaceSeen

(***************************************************************************)
(* The fallback of resident after a failed write_page is a Move of the     *)
(* flat memory, whether or not the write took effect.                      *)
(***************************************************************************)
LEMMA DeclineVictimSeen ==
  ASSUME IInv, DeclineVictim, StoresWritten \/ Keeps
  PROVE  Flat!Move
<1> DEFINE i == select_clean_victim
<1>1. /\ pc = "write" /\ CleanUnpinned # {}
      /\ Replace(frames, i, fetched)
  BY DEF DeclineVictim
<1>2. i \in 1 .. Len(frames) /\ ~frames[i].dirty
  BY <1>1, OutstandingWrite, CleanVictimOK DEF IInv
<1>3. frames \in Seq(Frame)
  BY DEF IInv, TypeOK
<1>4. backing'[frames[i].page] = frames[i].data
  BY <1>1, <1>2, OutstandingWrite
<1>5. \A p \in Pages : slot_of[p] = NOT_RESIDENT => backing'[p] = backing[p]
  BY <1>1, OutstandingWrite DEF IInv, IndexMatchesFrames, NOT_RESIDENT
<1> HIDE DEF i
<1> QED
  BY <1>1, <1>2, <1>3, <1>4, <1>5, OutstandingWrite, ReplaceSeen

\* A new cache over a zeroed backing is the initial flat memory.
LEMMA InitSeen == Init => Flat!Init
BY DEF Init, Flat!Init, GuestView, Pages, Flat!Pages, NOT_RESIDENT

\* Every step of the cache is a step of the flat memory or is invisible to the guest.
LEMMA NextSeen == IInv /\ [Next]_vars => [Flat!Next]_(Flat!vars)
<1> SUFFICES ASSUME IInv, [Next]_vars
             PROVE  Flat!Next \/ UNCHANGED <<GuestView, req, ret>>
  BY DEF Flat!vars
<1>a. ASSUME UNCHANGED <<backing, frames, slot_of>> PROVE GuestView' = GuestView
  BY <1>a DEF GuestView
<1>b. ASSUME pc \in {"idle", "flush", "sync"} PROVE req = Flat!NoAccess
  BY <1>b DEF IInv, CallConsistent
<1>c. ASSUME pc \in {"read", "write"} PROVE req # Flat!NoAccess
  BY <1>c, AccessIsSome DEF IInv, CallConsistent
<1>1. CASE \E a \in Flat!Requests : BeginAccess(a) /\ Keeps
  <2>1. PICK a \in Flat!Requests : BeginAccess(a) /\ Keeps
    BY <1>1
  <2>2. pc = "idle" /\ UNCHANGED <<backing, frames, slot_of>>
    BY <2>1 DEF BeginAccess, Keeps, cacheVars
  <2>3. Flat!Begin(a)
    BY <1>a, <1>b, <2>1, <2>2 DEF BeginAccess, Flat!Begin
  <2> QED
    BY <2>3 DEF Flat!Next
<1>2. CASE Hit /\ Keeps
  BY <1>2, HitSeen DEF Flat!Next
<1>3. CASE Miss /\ Keeps
  BY <1>3, <1>a DEF Miss, Keeps
<1>4. CASE ReadReturns(backing[req.page]) /\ Keeps
  <2>1. CASE FillVacant(backing[req.page])
    BY <1>4, <2>1, FillVacantSeen DEF Flat!Next
  <2>2. CASE EvictClean(backing[req.page])
    BY <1>4, <2>2, EvictCleanSeen DEF Flat!Next
  <2>3. CASE WriteVictim(backing[req.page])
    <3>1. frames' = AgedFrames /\ UNCHANGED <<backing, slot_of, req, ret>>
      BY <1>4, <2>3 DEF WriteVictim, Keeps
    <3>2. \A j \in 1 .. Len(frames) : frames'[j].data = frames[j].data
      BY <3>1, AgedOK DEF IInv
    <3> QED
      BY <3>1, <3>2, SameView
  <2>4. CASE PanicAllPinned
    BY <1>4, <2>4, <1>a DEF PanicAllPinned, Keeps, cacheVars
  <2> QED
    BY <1>4, <2>1, <2>2, <2>3, <2>4 DEF ReadReturns
<1>5. CASE ReadFails /\ Keeps
  <2>1. Flat!Fail
    BY <1>5, <1>a, <1>c DEF ReadFails, Return, Keeps, cacheVars, Flat!Fail
  <2> QED
    BY <2>1 DEF Flat!Next
<1>6. CASE WriteReturns /\ StoresWritten
  BY <1>6, WriteReturnsSeen DEF Flat!Next
<1>7. CASE WriteFails /\ (StoresWritten \/ Keeps)
  <2>1. CASE DeclineVictim
    BY <1>7, <2>1, DeclineVictimSeen DEF Flat!Next
  <2>2. CASE NoCleanVictim
    <3>1. /\ pc = "write" /\ UNCHANGED <<frames, slot_of>>
          /\ req' = Flat!NoAccess /\ ret' = [res |-> "Medium"]
      BY <2>2 DEF NoCleanVictim, Return, cacheVars
    <3>2. \A p \in Pages : slot_of[p] = NOT_RESIDENT => backing'[p] = backing[p]
      BY <1>7, <3>1, OutstandingWrite DEF IInv, IndexMatchesFrames, NOT_RESIDENT
    <3>3. GuestView' = GuestView
      BY <3>1, <3>2, SameView
    <3> QED
      BY <1>c, <3>1, <3>3 DEF Flat!Next, Flat!Fail
  <2> QED
    BY <1>7, <2>1, <2>2 DEF WriteFails
<1>8. CASE BeginFlush /\ Keeps
  <2>1. Flat!Other
    BY <1>8, <1>a, <1>b DEF BeginFlush, Keeps, cacheVars, Flat!Other
  <2> QED
    BY <2>1 DEF Flat!Next
<1>9. CASE FlushWriteReturns /\ StoresWritten
  <2> DEFINE d == FirstOf(DirtyFrames)
             f == [frames[d] EXCEPT !.dirty = FALSE]
  <2>1. /\ pc = "flush" /\ frames' = [frames EXCEPT ![d] = f]
        /\ UNCHANGED <<slot_of, req, ret>>
    BY <1>9 DEF FlushWriteReturns
  <2>2. /\ d \in 1 .. Len(frames)
        /\ \A p \in Pages : p # frames[d].page => backing'[p] = backing[p]
    BY <1>9, <2>1, OutstandingFlush
  <2> HIDE DEF d
  <2>3. frames[d] \in Frame
    BY <2>2, FramesTyped DEF IInv
  <2>4. f \in Frame /\ f.data = frames[d].data
    BY <2>3 DEF Frame
  <2> HIDE DEF f
  <2>5. \A j \in 1 .. Len(frames) : frames'[j].data = frames[j].data
    BY <2>1, <2>2, <2>4, ExceptSeq DEF IInv, TypeOK
  <2>6. \A p \in Pages : slot_of[p] = NOT_RESIDENT => backing'[p] = backing[p]
    BY <2>2 DEF IInv, IndexMatchesFrames, NOT_RESIDENT
  <2> QED
    BY <2>1, <2>5, <2>6, SameView
<1>10. CASE FlushWriteFails /\ (StoresWritten \/ Keeps)
  <2>1. /\ pc = "flush" /\ UNCHANGED <<frames, slot_of>>
        /\ req' = Flat!NoAccess /\ ret' = [res |-> "Medium"]
    BY <1>10 DEF FlushWriteFails, Return, cacheVars
  <2>2. \A p \in Pages : slot_of[p] = NOT_RESIDENT => backing'[p] = backing[p]
    BY <1>10, <2>1, OutstandingFlush DEF IInv, IndexMatchesFrames, NOT_RESIDENT
  <2>3. GuestView' = GuestView
    BY <2>1, <2>2, SameView
  <2> QED
    BY <1>b, <2>1, <2>3 DEF Flat!Next, Flat!Other
<1>11. CASE \E r \in {"ok", "Medium"} : SyncEnds(r) /\ Keeps
  <2>1. Flat!Other
    BY <1>11, <1>a, <1>b DEF SyncEnds, Return, Keeps, cacheVars, Flat!Other
  <2> QED
    BY <2>1 DEF Flat!Next
<1>12. CASE \E p \in Pinnable : Pin(p) /\ Keeps
  <2>1. PICK p \in Pinnable : Pin(p) /\ Keeps
    BY <1>12
  <2> DEFINE i == slot_of[p]
             f == [frames[i] EXCEPT !.pinned = TRUE]
  <2>2. i \in 1 .. Len(frames)
    BY <2>1 DEF IInv, IndexMatchesFrames, Pin, resident_slot
  <2>3. frames[i] \in Frame
    BY <2>2, FramesTyped DEF IInv
  <2>4. f \in Frame /\ f.data = frames[i].data
    BY <2>3 DEF Frame
  <2>5. frames' = [frames EXCEPT ![i] = f] /\ UNCHANGED <<backing, slot_of, req, ret>>
    BY <2>1 DEF Pin, Keeps, callVars
  <2> HIDE DEF f
  <2>6. \A j \in 1 .. Len(frames) : frames'[j].data = frames[j].data
    BY <2>2, <2>4, <2>5, ExceptSeq DEF IInv, TypeOK
  <2> QED
    BY <2>5, <2>6, SameView
<1>13. CASE UNCHANGED vars
  BY <1>13, <1>a DEF vars, cacheVars, callVars
<1> QED
  BY <1>1, <1>2, <1>3, <1>4, <1>5, <1>6, <1>7, <1>8, <1>9, <1>10, <1>11, <1>12, <1>13 DEF Next

(***************************************************************************)
(* PageCache implements a flat memory: a guest of read_bytes and           *)
(* write_bytes cannot tell that pages are fetched, evicted, declined or    *)
(* flushed, or that the backing refuses calls.                             *)
(***************************************************************************)
THEOREM Refinement == Spec => ImplementsFlatMemory
<1>1. Spec => Flat!Spec
  BY Invariance, InitSeen, NextSeen, PTL DEF Spec, Flat!Spec
<1> QED
  BY <1>1 DEF ImplementsFlatMemory
-------------------------------------------------------------------------------
(***************************************************************************)
(* Every variable of PageCache always has its type.                        *)
(***************************************************************************)
THEOREM TypeCorrect == Spec => []TypeOK
<1>1. IInv => TypeOK
  BY DEF IInv
<1> QED
  BY <1>1, Invariance, PTL

(***************************************************************************)
(* When flush has written its last dirty frame the backing alone holds     *)
(* guest RAM.                                                              *)
(***************************************************************************)
THEOREM FlushIsComplete == Spec => []FlushLeavesNothingBehind
<1>1. IInv => FlushLeavesNothingBehind
  <2> SUFFICES ASSUME IInv, pc = "sync" PROVE backing = GuestView
    BY DEF FlushLeavesNothingBehind
  <2>1. \A i \in 1 .. Len(frames) : ~frames[i].dirty
    BY DEF IInv, CallConsistent, DirtyFrames
  <2>2. \A p \in Pages : slot_of[p] # NOT_RESIDENT => frames[slot_of[p]].data = backing[p]
    BY <2>1 DEF IInv, IndexMatchesFrames, CleanIsStored
  <2>3. backing \in [Pages -> Data]
    BY DEF IInv, TypeOK
  <2> QED
    BY <2>2, <2>3 DEF GuestView, Pages, Flat!Pages
<1> QED
  BY <1>1, Invariance, PTL

(***************************************************************************)
(* The index of PageCache always matches its frames, every clean frame can *)
(* be dropped, what resident fetched is not stale when it is used after    *)
(* write_page returns, and a flush that succeeds leaves nothing behind.    *)
(***************************************************************************)
THEOREM Coherence == Spec => []Coherent
<1>1. IInv => IndexMatchesFrames /\ CleanIsStored /\ FetchedStaysCurrent
  BY DEF IInv
<1>2. IInv /\ FlushLeavesNothingBehind => Coherent
  BY <1>1 DEF Coherent
<1> QED
  BY <1>2, Invariance, FlushIsComplete, PTL

\* The replacement at the end of resident moves no pinned page.
LEMMA ReplacePins ==
  ASSUME TypeOK, NEW fs \in Seq(Frame), Len(fs) = Len(frames),
         \A j \in 1 .. Len(frames) : fs[j].page = frames[j].page /\ fs[j].pinned = frames[j].pinned,
         NEW i \in 1 .. Len(frames), ~frames[i].pinned,
         NEW data, Replace(fs, i, data)
  PROVE  \A j \in 1 .. Len(frames) : frames[j].pinned =>
            frames'[j].pinned /\ frames'[j].page = frames[j].page
<1> DEFINE f == Touched(FreshFrame(data))
<1>1. frames' = [fs EXCEPT ![i] = f]
  BY DEF Replace
<1> HIDE DEF f
<1>2. DOMAIN fs = 1 .. Len(frames)
  BY LenProperties
<1>3. \A j \in 1 .. Len(frames) : j # i => frames'[j] = fs[j]
  BY <1>1, <1>2
<1> QED
  BY <1>3

\* No step of the cache unpins or evicts a pinned page.
LEMMA PinsKept ==
  ASSUME IInv, [Next]_vars
  PROVE  \A j \in 1 .. Len(frames) : frames[j].pinned =>
            frames'[j].pinned /\ frames'[j].page = frames[j].page
<1> DEFINE Kept == \A j \in 1 .. Len(frames) : frames[j].pinned =>
                      frames'[j].pinned /\ frames'[j].page = frames[j].page
<1>a. ASSUME frames' = frames PROVE Kept
  BY <1>a
<1>b. ASSUME NEW i \in 1 .. Len(frames), NEW f, frames' = [frames EXCEPT ![i] = f],
             frames[i].pinned => f.pinned, f.page = frames[i].page
      PROVE  Kept
  <2>1. DOMAIN frames = 1 .. Len(frames)
    BY LenProperties DEF IInv, TypeOK
  <2> QED
    BY <1>b, <2>1
<1>c. TypeOK /\ frames \in Seq(Frame) /\ \A j \in 1 .. Len(frames) : frames[j] \in Frame
  BY FramesTyped DEF IInv, TypeOK
<1>d. IndexMatchesFrames
  BY DEF IInv
<1>1. CASE Hit
  <2> DEFINE i == slot_of[req.page]
             g == [frames[i] EXCEPT !.referenced = TRUE]
  <2>1. i \in 1 .. Len(frames)
    BY <1>1, <1>d DEF IndexMatchesFrames, Hit, resident_slot
  <2>2. g \in Frame /\ g.pinned = frames[i].pinned /\ g.page = frames[i].page
    BY <1>c, <2>1 DEF Frame
  <2>3. Touched(g).pinned = g.pinned /\ Touched(g).page = g.page
    <3> HIDE DEF g
    <3> QED
      BY <2>2 DEF Touched, Frame
  <2>4. frames' = [frames EXCEPT ![i] = Touched(g)]
    BY <1>1 DEF Hit
  <2> HIDE DEF g, i
  <2> QED
    BY <1>b, <2>1, <2>2, <2>3, <2>4
<1>2. CASE FillVacant(backing[req.page])
  <2>1. frames' = Append(frames, Touched(FreshFrame(backing[req.page])))
    BY <1>2 DEF FillVacant
  <2>2. \A j \in 1 .. Len(frames) : frames'[j] = frames[j]
    BY <1>c, <2>1
  <2> QED
    BY <2>2
<1>3. CASE EvictClean(backing[req.page])
  <2>1. select_victim \in 1 .. Len(frames) /\ ~frames[select_victim].pinned
    BY <1>3, <1>c, VictimOK DEF EvictClean
  <2>2. Replace(AgedFrames, select_victim, backing[req.page])
    BY <1>3 DEF EvictClean
  <2> QED
    BY <1>c, <2>1, <2>2, AgedOK, ReplacePins
<1>4. CASE WriteVictim(backing[req.page])
  BY <1>4, <1>c, AgedOK DEF WriteVictim
<1>5. CASE WriteReturns /\ StoresWritten
  <2>1. victim \in 1 .. Len(frames) /\ ~frames[victim].pinned
    BY <1>5, OutstandingWrite DEF WriteReturns
  <2> QED
    BY <1>5, <1>c, <2>1, ReplacePins DEF WriteReturns
<1>6. CASE DeclineVictim /\ (StoresWritten \/ Keeps)
  <2>1. Len(frames) = Capacity
    BY <1>6, OutstandingWrite DEF DeclineVictim
  <2>2. select_clean_victim \in 1 .. Len(frames) /\ ~frames[select_clean_victim].pinned
    BY <1>6, <1>c, <2>1, CleanVictimOK DEF DeclineVictim
  <2> QED
    BY <1>6, <1>c, <2>2, ReplacePins DEF DeclineVictim
<1>7. CASE \E p \in Pinnable : Pin(p)
  <2>1. PICK p \in Pinnable : Pin(p)
    BY <1>7
  <2> DEFINE i == slot_of[p]
             f == [frames[i] EXCEPT !.pinned = TRUE]
  <2>2. i \in 1 .. Len(frames)
    BY <1>d, <2>1 DEF IndexMatchesFrames, Pin, resident_slot
  <2>3. f.pinned /\ f.page = frames[i].page
    BY <1>c, <2>2 DEF Frame
  <2>4. frames' = [frames EXCEPT ![i] = f]
    BY <2>1 DEF Pin
  <2> HIDE DEF f, i
  <2> QED
    BY <1>b, <2>2, <2>3, <2>4
<1>8. CASE FlushWriteReturns /\ StoresWritten
  <2> DEFINE i == FirstOf(DirtyFrames)
             f == [frames[i] EXCEPT !.dirty = FALSE]
  <2>1. i \in 1 .. Len(frames)
    BY <1>8, OutstandingFlush DEF FlushWriteReturns
  <2>2. f.pinned = frames[i].pinned /\ f.page = frames[i].page
    BY <1>c, <2>1 DEF Frame
  <2>3. frames' = [frames EXCEPT ![i] = f]
    BY <1>8 DEF FlushWriteReturns
  <2> HIDE DEF f, i
  <2> QED
    BY <1>b, <2>1, <2>2, <2>3
<1>9. CASE \/ \E a \in Flat!Requests : BeginAccess(a)
           \/ Miss \/ PanicAllPinned \/ ReadFails \/ NoCleanVictim
           \/ BeginFlush \/ FlushWriteFails \/ \E r \in {"ok", "Medium"} : SyncEnds(r)
           \/ UNCHANGED vars
  <2>1. frames' = frames
    BY <1>9 DEF BeginAccess, Miss, PanicAllPinned, ReadFails, NoCleanVictim, BeginFlush,
                FlushWriteFails, SyncEnds, vars, cacheVars
  <2> QED
    BY <1>a, <2>1
<1> QED
  BY <1>1, <1>2, <1>3, <1>4, <1>5, <1>6, <1>7, <1>8, <1>9 DEF Next, ReadReturns, WriteFails

(***************************************************************************)
(* A pinned page stays in its frame, pinned, for ever, through the         *)
(* ordinary sweep of select_victim and through the fallback of             *)
(* select_clean_victim.                                                    *)
(***************************************************************************)
THEOREM PinsAreKept == Spec => PinnedStays
<1> DEFINE Kept == \A i \in 1 .. Len(frames) : frames[i].pinned =>
                      frames'[i].pinned /\ frames'[i].page = frames[i].page
<1>1. IInv /\ [Next]_vars => [Kept]_vars
  BY PinsKept
<1>2. Spec => [][Kept]_vars
  <2> HIDE DEF Kept
  <2> QED
    BY <1>1, Invariance, PTL DEF Spec
<1> QED
  BY <1>2 DEF PinnedStays
===============================================================================
