----------------------------- MODULE TetherProofs -----------------------------
(***************************************************************************)
(* Proofs about Tether.tla: the page cache over the page protocol, for     *)
(* every size of RAM, page and cache, every retry budget and loss, and     *)
(* either of two regimes (Regular): the host answers in the order it was   *)
(* asked, or no exchange is given up or refused.  Outside of them the      *)
(* results are false.                                                      *)
(*                                                                         *)
(* The cache and the protocol bring their own invariants (C!IInv, L!Inv),  *)
(* and every step of the composition that the cache takes is a step of     *)
(* PageCache over a store that keeps still.  What has to be shown here is  *)
(* what joins them: which frames may still be in flight when an exchange   *)
(* begins, and that none of them can pass for its answer or change a page  *)
(* the guest sees.                                                         *)
(***************************************************************************)
EXTENDS Tether, SequenceTheorems, TLAPS

C == INSTANCE PageCacheProofs WITH backing <- store, pc <- cpc
L == INSTANCE LinkProofs WITH Pages <- 0 .. RamPages - 1, Val <- [0 .. PAGE - 1 -> Byte],
                              Initial <- Zeroes

\* Answers come in the order of the requests, or every exchange succeeds.
Regular == MaxBatch = 0 \/ (MaxFailed = 0 /\ Refusable = {})

\* The assumptions of the two parts hold.
LEMMA PartsAssumption == C!SizesAssumption /\ C!BytesAssumption /\ L!LinkAssumption
<1>1. Zeroes \in [0 .. PAGE - 1 -> Byte]
  BY TetherAssumption DEF Zeroes
<1> QED
  BY <1>1, TetherAssumption DEF C!SizesAssumption, C!BytesAssumption, L!LinkAssumption

-------------------------------------------------------------------------------
(* The frames of a stream, as a set. *)

In(s) == {s[i] : i \in 1 .. Len(s)}

\* g comes somewhere behind f in s.
Follows(s, f, g) == \E i, j \in 1 .. Len(s) : i < j /\ s[i] = f /\ s[j] = g

H == In(toHost)
B == In(toBadge)
D == In(held)

\* No frame.
LEMMA InEmpty == In(<<>>) = {}
<1>1. Len(<<>>) = 0
  OBVIOUS
<1> QED
  BY <1>1 DEF In

\* One more frame.
LEMMA InAppend ==
  ASSUME NEW S, NEW s \in Seq(S), NEW x \in S
  PROVE  /\ In(Append(s, x)) = In(s) \cup {x}
         /\ \A f, g : Follows(Append(s, x), f, g) => Follows(s, f, g) \/ (f \in In(s) /\ g = x)
<1> DEFINE t == Append(s, x)
<1>1. /\ Len(s) \in Nat /\ Len(t) = Len(s) + 1 /\ t[Len(s) + 1] = x
      /\ \A i \in 1 .. Len(s) : t[i] = s[i]
  BY AppendProperties, LenProperties
<1> HIDE DEF t
<1>2. In(t) = In(s) \cup {x}
  <2>1. ASSUME NEW y \in In(t) PROVE y \in In(s) \cup {x}
    <3>1. PICK i \in 1 .. Len(t) : y = t[i]
      BY <2>1 DEF In
    <3>2. i \in 1 .. Len(s) \/ i = Len(s) + 1
      BY <1>1
    <3> QED
      BY <1>1, <3>1, <3>2 DEF In
  <2>2. \A y \in In(s) : y \in In(t)
    BY <1>1 DEF In
  <2>3. x \in In(t)
    <3>1. Len(s) + 1 \in 1 .. Len(t)
      BY <1>1
    <3> QED
      BY <1>1, <3>1 DEF In
  <2> QED
    BY <2>1, <2>2, <2>3
<1>3. ASSUME NEW f, NEW g, Follows(t, f, g) PROVE Follows(s, f, g) \/ (f \in In(s) /\ g = x)
  <2>1. PICK i, j \in 1 .. Len(t) : i < j /\ t[i] = f /\ t[j] = g
    BY <1>3 DEF Follows
  <2>2. i \in 1 .. Len(s) /\ (j \in 1 .. Len(s) \/ j = Len(s) + 1)
    BY <1>1, <2>1
  <2> QED
    BY <1>1, <2>1, <2>2 DEF Follows, In
<1> QED
  BY <1>2, <1>3 DEF t

\* Fewer frames.
LEMMA InThins ==
  ASSUME NEW s, NEW t, Len(s) \in Nat, Len(t) \in Nat, L!Thins(t, s)
  PROVE  /\ In(t) \subseteq In(s)
         /\ \A f, g : Follows(t, f, g) => Follows(s, f, g)
<1>1. PICK h \in [1 .. Len(t) -> 1 .. Len(s)] :
         /\ \A i \in 1 .. Len(t) : t[i] = s[h[i]]
         /\ \A i, j \in 1 .. Len(t) : i < j => h[i] < h[j]
  BY DEF L!Thins
<1>2. \A i \in 1 .. Len(t) : h[i] \in 1 .. Len(s)
  BY <1>1
<1> QED
  BY <1>1, <1>2 DEF In, Follows

\* The head, and what is behind it.
LEMMA InHead ==
  ASSUME NEW S, NEW s \in Seq(S), s # <<>>
  PROVE  /\ Head(s) \in S /\ Head(s) \in In(s) /\ Head(s) = s[1] /\ 1 \in 1 .. Len(s)
         /\ In(Tail(s)) \subseteq In(s)
         /\ \A f, g : Follows(Tail(s), f, g) => Follows(s, f, g)
         /\ \A g \in In(Tail(s)) : Follows(s, Head(s), g)
<1>1. /\ Len(s) \in Nat \ {0} /\ Tail(s) \in Seq(S) /\ Len(Tail(s)) = Len(s) - 1
      /\ \A i \in 1 .. Len(s) - 1 : Tail(s)[i] = s[i + 1]
      /\ Head(s) = s[1] /\ Head(s) \in S
  BY HeadTailProperties, LenProperties, EmptySeq
<1>2. L!Thins(Tail(s), s)
  BY L!ThinsTail, PartsAssumption
<1>3. 1 \in 1 .. Len(s) /\ Head(s) \in In(s)
  BY <1>1 DEF In
<1>4. ASSUME NEW g \in In(Tail(s)) PROVE Follows(s, Head(s), g)
  <2>1. PICK i \in 1 .. Len(s) - 1 : g = s[i + 1]
    BY <1>1 DEF In
  <2>2. i + 1 \in 1 .. Len(s) /\ 1 < i + 1
    BY <1>1
  <2> QED
    BY <1>1, <1>3, <2>1, <2>2 DEF Follows
<1> QED
  BY <1>1, <1>2, <1>3, <1>4, InThins

\* Two streams, one behind the other.
LEMMA InConcat ==
  ASSUME NEW S, NEW s \in Seq(S), NEW t \in Seq(S)
  PROVE  /\ In(s \o t) = In(s) \cup In(t)
         /\ \A f, g : Follows(s \o t, f, g) => \/ Follows(s, f, g) \/ Follows(t, f, g)
                                               \/ f \in In(s) /\ g \in In(t)
<1> DEFINE u == s \o t
<1>1. /\ Len(s) \in Nat /\ Len(t) \in Nat /\ Len(u) = Len(s) + Len(t)
      /\ \A i \in 1 .. Len(s) : u[i] = s[i]
      /\ \A i \in 1 .. Len(t) : u[Len(s) + i] = t[i]
  <2>1. Len(s) \in Nat /\ Len(t) \in Nat
    BY LenProperties
  <2>2. Len(u) = Len(s) + Len(t) /\ \A i \in 1 .. Len(s) + Len(t) :
           u[i] = IF i <= Len(s) THEN s[i] ELSE t[i - Len(s)]
    BY ConcatProperties
  <2> HIDE DEF u
  <2>3. PICK m \in Nat : m = Len(s)
    BY <2>1
  <2>4. PICK n \in Nat : n = Len(t)
    BY <2>1
  <2>5. /\ \A i \in 1 .. m : i \in 1 .. m + n /\ i <= m
        /\ \A i \in 1 .. n : m + i \in 1 .. m + n /\ ~(m + i <= m) /\ (m + i) - m = i
    OBVIOUS
  <2>6. \A i \in 1 .. m + n : u[i] = IF i <= m THEN s[i] ELSE t[i - m]
    BY <2>2, <2>3, <2>4
  <2>7. /\ \A i \in 1 .. m : u[i] = s[i]
        /\ \A i \in 1 .. n : u[m + i] = t[i]
    BY <2>5, <2>6
  <2> QED
    BY <2>1, <2>2, <2>3, <2>4, <2>7
<1> HIDE DEF u
<1>2. ASSUME NEW i \in 1 .. Len(u), i \notin 1 .. Len(s)
      PROVE  \E k \in 1 .. Len(t) : i = Len(s) + k
  <2>1. i - Len(s) \in 1 .. Len(t) /\ i = Len(s) + (i - Len(s))
    BY <1>1, <1>2
  <2> QED
    BY <2>1
<1>3. In(u) = In(s) \cup In(t)
  <2>1. ASSUME NEW y \in In(u) PROVE y \in In(s) \cup In(t)
    <3>1. PICK i \in 1 .. Len(u) : y = u[i]
      BY <2>1 DEF In
    <3> QED
      BY <1>1, <1>2, <3>1 DEF In
  <2>2. \A y \in In(s) : y \in In(u)
    BY <1>1 DEF In
  <2>3. \A k \in 1 .. Len(t) : Len(s) + k \in 1 .. Len(u)
    BY <1>1
  <2>4. \A y \in In(t) : y \in In(u)
    BY <1>1, <2>3 DEF In
  <2> QED
    BY <2>1, <2>2, <2>4
<1>4. ASSUME NEW f, NEW g, Follows(u, f, g)
      PROVE  \/ Follows(s, f, g) \/ Follows(t, f, g)
             \/ f \in In(s) /\ g \in In(t)
  <2>1. PICK i, j \in 1 .. Len(u) : i < j /\ u[i] = f /\ u[j] = g
    BY <1>4 DEF Follows
  <2>2. CASE j \in 1 .. Len(s)
    <3>1. i \in 1 .. Len(s)
      BY <1>1, <2>1, <2>2
    <3> QED
      BY <1>1, <2>1, <2>2, <3>1 DEF Follows
  <2>3. CASE i \in 1 .. Len(s) /\ j \notin 1 .. Len(s)
    <3>1. PICK k \in 1 .. Len(t) : j = Len(s) + k
      BY <1>2, <2>3
    <3>2. f = s[i] /\ g = t[k]
      BY <1>1, <2>1, <2>3, <3>1
    <3>3. f \in In(s)
      BY <2>3, <3>2 DEF In
    <3>4. g \in In(t)
      BY <3>2 DEF In
    <3> QED
      BY <3>3, <3>4
  <2>4. CASE i \notin 1 .. Len(s) /\ j \notin 1 .. Len(s)
    <3>1. PICK k \in 1 .. Len(t) : i = Len(s) + k
      BY <1>2, <2>4
    <3>2. PICK l \in 1 .. Len(t) : j = Len(s) + l
      BY <1>2, <2>4
    <3>3. k < l
      BY <1>1, <2>1, <3>1, <3>2
    <3> QED
      BY <1>1, <2>1, <3>1, <3>2, <3>3 DEF Follows
  <2> QED
    BY <2>2, <2>3, <2>4
<1> QED
  BY <1>3, <1>4 DEF u

-------------------------------------------------------------------------------
(* The invariant. *)

P      == 0 .. RamPages - 1
Bytes  == [0 .. PAGE - 1 -> Byte]
Reads  == {"ReadReq", "ReadResp"}
Writes == {"WriteReq", "WriteAck"}
OfOp   == IF ask.op = "read" THEN Reads ELSE Writes

Batched     == MaxBatch # 0
Going       == ending = Running
Resident(p) == slot_of[p] # 0

\* What the two parts know about the frames and about an outstanding call.
FramesTyped ==
    /\ ex \in Nat /\ pc \in {"idle", "attempt", "arm", "send", "wait"}
    /\ store \in [P -> Bytes]
    /\ \A f \in H : /\ f.ty \in {"ReadReq", "WriteReq", "Part"} /\ f.page \in P
                    /\ f.ex \in Nat /\ f.ex <= ex
    /\ \A f \in B \cup D : /\ f.ty \in {"ReadResp", "WriteAck", "Err"} /\ f.page \in P
                           /\ f.ex \in Nat /\ f.ex <= ex

CallKnows ==
    /\ cpc = "read" => req.page \in P /\ ~Resident(req.page)
    /\ cpc = "write" => /\ req.page \in P /\ ~Resident(req.page)
                        /\ frames[victim].page \in P /\ Resident(frames[victim].page)
                        /\ slot_of[frames[victim].page] = victim
                        /\ frames[victim].dirty
                        /\ frames[victim].data \in Bytes

\* The outstanding backing call and the exchange are the same request.
CallIsAsked ==
    /\ pc # "idle" => called
    /\ called => /\ cpc \in {"read", "write"} /\ ask.op = cpc /\ ask.page = CallPage
                 /\ cpc = "write" => ask.data = frames[victim].data
                 /\ ex # 0
    /\ ~called /\ cpc = "write" => ask.op = "read" /\ result.res = "ok"
    /\ ~Going => cpc = "idle"
    /\ cpc \in {"idle", "loop", "read", "write", "panicked"}

\* Where reads overtake writes every exchange ends well.
Settled == Batched /\ pc = "idle" => result.res = "ok" \/ ex = 0

\* A frame of this exchange is the request or an answer to it.
OwnFrames ==
    \A f \in H \cup B \cup D : f.ex = ex =>
      /\ f.page = ask.page
      /\ f.ty \in Reads => ask.op = "read"
      /\ f.ty \in Writes => ask.op = "write"
      /\ f.ty = "WriteReq" => f.data = ask.data

\* An answer to this exchange tells what the image holds now.
OwnAnswersFresh ==
    pc # "idle" => \A f \in B \cup D : f.ex = ex =>
      /\ f.ty = "ReadResp" => f.data = store[ask.page]
      /\ f.ty = "WriteAck" => store[ask.page] = ask.data

ResultFresh ==
    pc = "idle" /\ called /\ result.res = "ok" =>
      /\ ask.op = "read" => result.data = store[ask.page]
      /\ ask.op = "write" => store[ask.page] = ask.data

(***************************************************************************)
(* What an exchange that ended well leaves in flight: its own duplicates   *)
(* and, where a read overtook the write before it, the ack of that write.  *)
(***************************************************************************)
Left(g) == \/ g.ex = ex
           \/ Batched /\ g.ty = "WriteAck" /\ g.ex = ex - 1 /\ ask.op = "read"

LeftBehind ==
    pc = "idle" /\ result.res = "ok" =>
      /\ result.from = ex
      /\ \A f \in H : f.ex = ex
      /\ \A f \in B : Left(f)

\* Once an answer to this exchange is on its way, only such frames are behind it.
BehindAnswer ==
    pc # "idle" =>
      /\ (\E f \in D : f.ex = ex) => (\A f \in H : f.ex = ex) /\ (\A f \in B : Left(f))
      /\ (\E f \in B : f.ex = ex) => \A f \in H : f.ex = ex
      /\ \A f, g : Follows(toBadge, f, g) /\ f.ex = ex => Left(g)

OneExchangeBack == Batched => \A f \in H : f.ex >= ex - 1

\* No older frame can pass for the answer, or become one.
OldAreOfOtherPages ==
    pc # "idle" => \A f \in H \cup B \cup (IF pc = "attempt" THEN {} ELSE D) :
      f.ex < ex /\ f.ty \in OfOp => f.page # ask.page

\* Between calls, the reads in flight are of pages the cache has ...
ReadsAreResident ==
    ~called /\ cpc \in {"idle", "loop", "read"} /\ Going =>
      \A f \in H \cup B : f.ty \in Reads => Resident(f.page)

\* ... or of the one that waits for a victim to be written.
ReadsAreFetched == cpc = "write" => \A f \in H \cup B : f.ty \in Reads => f.page = req.page

\* A WriteReq that the host has yet to apply changes nothing the guest can see.
WritesAreHarmless ==
    \A w \in H : w.ty = "WriteReq" =>
      /\ w.data \in Bytes
      /\ IF Resident(w.page) THEN frames[slot_of[w.page]].dirty ELSE w.data = store[w.page]

FetchedNotWritten == cpc = "write" => \A w \in H : w.ty = "WriteReq" => w.page # req.page

\* The last write in flight behind a read, and before the next call, is of an evicted page.
LateAreEvicted ==
    Batched /\ (called \/ cpc = "write") /\ ask.op = "read" =>
      \A f \in H \cup B : f.ty \in Writes /\ f.ex = ex - 1 => ~Resident(f.page)

WrittenAreEvicted ==
    Batched /\ ~called => \A f \in H \cup B : f.ty \in Writes /\ f.ex = ex => ~Resident(f.page)

NoRefusals == Refusable = {} => \A f \in B \cup D : f.ty # "Err"

Joined == /\ CallIsAsked /\ Settled /\ OwnFrames /\ OwnAnswersFresh /\ ResultFresh
          /\ LeftBehind /\ BehindAnswer /\ OneExchangeBack /\ OldAreOfOtherPages
          /\ ReadsAreResident /\ ReadsAreFetched /\ WritesAreHarmless /\ FetchedNotWritten
          /\ LateAreEvicted /\ WrittenAreEvicted /\ NoRefusals

Before == Regular /\ FramesTyped /\ FramesTyped' /\ CallKnows /\ Joined
-------------------------------------------------------------------------------
(* Steps of the link. *)

SameCall == UNCHANGED <<cacheVars, called, ending>>

\* Frames go and nothing else happens.
LEMMA Thinned ==
  ASSUME Before, SameCall, UNCHANGED <<ask, ex, result, store>>,
         H' \subseteq H, B' \subseteq B, D' \subseteq D,
         \A f, g : Follows(toBadge', f, g) => Follows(toBadge, f, g),
         pc' = "idle" <=> pc = "idle",
         pc = "attempt" => pc' = "attempt" \/ D' = {}
  PROVE  Joined'
<1> USE DEF Before, Joined, SameCall, cacheVars
<1>1. CallIsAsked' /\ Settled'
  BY DEF CallIsAsked, Settled, CallPage, Going, Running
<1>2. OwnFrames' /\ OwnAnswersFresh' /\ ResultFresh'
  BY DEF OwnFrames, OwnAnswersFresh, ResultFresh
<1>3. LeftBehind' /\ BehindAnswer' /\ OneExchangeBack'
  BY DEF LeftBehind, BehindAnswer, Left, OneExchangeBack
<1>4. OldAreOfOtherPages'
  BY DEF OldAreOfOtherPages, OfOp
<1>5. ReadsAreResident' /\ ReadsAreFetched'
  BY DEF ReadsAreResident, ReadsAreFetched, Resident, Going
<1>6. WritesAreHarmless' /\ FetchedNotWritten'
  BY DEF WritesAreHarmless, FetchedNotWritten, Resident
<1>7. LateAreEvicted' /\ WrittenAreEvicted' /\ NoRefusals'
  BY DEF LateAreEvicted, WrittenAreEvicted, NoRefusals, Resident
<1> QED
  BY <1>1, <1>2, <1>3, <1>4, <1>5, <1>6, <1>7

\* A request leaves.
LEMMA Sent ==
  ASSUME Before, SameCall, UNCHANGED <<ask, ex, result, store, toBadge, held>>,
         pc = "send", pc' = "wait", H' = H \cup {L!Request}
  PROVE  Joined'
<1> DEFINE r == L!Request
<1>1. /\ r.ex = ex /\ r.page = ask.page /\ r.data = ask.data
      /\ r.ty = IF ask.op = "read" THEN "ReadReq" ELSE "WriteReq"
  BY DEF L!Request, L!Frame
<1>2. called /\ cpc \in {"read", "write"} /\ ask.op = cpc /\ ask.page = CallPage
      /\ (cpc = "write" => ask.data = frames[victim].data)
  BY DEF Before, Joined, CallIsAsked
<1> HIDE DEF r
<1>3. H' = H \cup {r} /\ B' = B /\ D' = D
  BY DEF r, B, D
<1> USE DEF Before, Joined, SameCall, cacheVars
<1>4. CallIsAsked' /\ Settled'
  BY DEF CallIsAsked, Settled, CallPage, Going, Running
<1>5. OwnFrames'
  BY <1>1, <1>2, <1>3 DEF OwnFrames, Reads, Writes
<1>6. OwnAnswersFresh' /\ ResultFresh'
  BY <1>3 DEF OwnAnswersFresh, ResultFresh
<1>7. LeftBehind' /\ BehindAnswer' /\ OneExchangeBack'
  BY <1>1, <1>3 DEF LeftBehind, BehindAnswer, Left, OneExchangeBack, FramesTyped
<1>8. OldAreOfOtherPages'
  BY <1>1, <1>3 DEF OldAreOfOtherPages, OfOp, FramesTyped
<1>9. ReadsAreResident' /\ ReadsAreFetched'
  BY <1>1, <1>2, <1>3 DEF ReadsAreResident, ReadsAreFetched, Resident, Going, Reads
<1>10. WritesAreHarmless' /\ FetchedNotWritten'
  BY <1>1, <1>2, <1>3 DEF WritesAreHarmless, FetchedNotWritten, Resident, CallKnows, CallPage
<1>11. LateAreEvicted' /\ WrittenAreEvicted' /\ NoRefusals'
  BY <1>1, <1>2, <1>3 DEF LateAreEvicted, WrittenAreEvicted, NoRefusals, Resident, Writes
<1> QED
  BY <1>4, <1>5, <1>6, <1>7, <1>8, <1>9, <1>10, <1>11

\* The exchange fails: the host refused, or the badge gave up.
LEMMA Failed ==
  ASSUME Before, SameCall, UNCHANGED <<ask, ex, store>>, ~Batched,
         pc # "idle", pc' = "idle", result'.res # "ok",
         \A f \in H' : f \in H \/ (f.ty = "Part" /\ f.page = ask.page),
         B' \subseteq B, D' \subseteq D
  PROVE  Joined'
<1> USE DEF Before, Joined, SameCall, cacheVars
<1>1. CallIsAsked' /\ Settled'
  BY DEF CallIsAsked, Settled, CallPage, Going, Running, Batched
<1>2. OwnFrames' /\ OwnAnswersFresh' /\ ResultFresh'
  BY DEF OwnFrames, OwnAnswersFresh, ResultFresh, Reads, Writes
<1>3. LeftBehind' /\ BehindAnswer' /\ OneExchangeBack' /\ OldAreOfOtherPages'
  BY DEF LeftBehind, BehindAnswer, OneExchangeBack, OldAreOfOtherPages, Batched
<1>4. ReadsAreResident' /\ ReadsAreFetched'
  BY DEF ReadsAreResident, ReadsAreFetched, Resident, Going, Reads
<1>5. WritesAreHarmless' /\ FetchedNotWritten'
  BY DEF WritesAreHarmless, FetchedNotWritten, Resident
<1>6. LateAreEvicted' /\ WrittenAreEvicted' /\ NoRefusals'
  BY DEF LateAreEvicted, WrittenAreEvicted, NoRefusals, Batched
<1> QED
  BY <1>1, <1>2, <1>3, <1>4, <1>5, <1>6

\* The exchange is answered: it can only be by its own answer.
LEMMA Accepted ==
  ASSUME Before, SameCall, UNCHANGED <<ask, ex, store, toHost, toBadge>>,
         pc = "wait", pc' = "idle", D' \subseteq D,
         NEW f \in D, f.ty = L!want, f.page = ask.page,
         result' = [res |-> "ok", data |-> f.data, from |-> f.ex]
  PROVE  Joined'
<1> USE DEF Before, Joined, SameCall, cacheVars
<1>1. called /\ ask.op \in {"read", "write"} /\ cpc = ask.op
  BY DEF CallIsAsked
<1>2. H' = H /\ B' = B /\ result'.res = "ok" /\ result'.data = f.data /\ result'.from = f.ex
  BY DEF H, B
<1>3. f.ex = ex
  BY <1>1 DEF OldAreOfOtherPages, OfOp, Reads, Writes, L!want, FramesTyped
<1>4. CallIsAsked' /\ Settled'
  BY <1>1, <1>2 DEF CallIsAsked, Settled, CallPage, Going, Running
<1>5. OwnFrames' /\ OwnAnswersFresh'
  BY <1>2 DEF OwnFrames, OwnAnswersFresh
<1>6. ResultFresh'
  BY <1>1, <1>2, <1>3 DEF ResultFresh, OwnAnswersFresh, L!want
<1>7. LeftBehind' /\ BehindAnswer' /\ OneExchangeBack' /\ OldAreOfOtherPages'
  BY <1>2, <1>3 DEF LeftBehind, BehindAnswer, Left, OneExchangeBack, OldAreOfOtherPages
<1>8. ReadsAreResident' /\ ReadsAreFetched'
  BY <1>1, <1>2 DEF ReadsAreResident, ReadsAreFetched, Resident, Going
<1>9. WritesAreHarmless' /\ FetchedNotWritten'
  BY <1>2 DEF WritesAreHarmless, FetchedNotWritten, Resident
<1>10. LateAreEvicted' /\ WrittenAreEvicted' /\ NoRefusals'
  BY <1>1, <1>2 DEF LateAreEvicted, WrittenAreEvicted, NoRefusals, Resident
<1> QED
  BY <1>4, <1>5, <1>6, <1>7, <1>8, <1>9, <1>10

\* The first frame of the stream is decoded.
LEMMA Absorbed ==
  ASSUME Before, SameCall, UNCHANGED <<ask, ex, result, store, toHost, pc>>,
         pc \in {"idle", "wait"},
         NEW f \in B, D' = D \cup {f}, B' \subseteq B,
         \A g \in B' : Follows(toBadge, f, g),
         \A a, g : Follows(toBadge', a, g) => Follows(toBadge, a, g)
  PROVE  Joined'
<1> USE DEF Before, Joined, SameCall, cacheVars
<1>0. H' = H
  BY DEF H
<1>1. CallIsAsked' /\ Settled'
  BY DEF CallIsAsked, Settled, CallPage, Going, Running
<1>2. OwnFrames' /\ OwnAnswersFresh' /\ ResultFresh'
  BY <1>0 DEF OwnFrames, OwnAnswersFresh, ResultFresh
<1>3. LeftBehind' /\ BehindAnswer' /\ OneExchangeBack'
  BY <1>0 DEF LeftBehind, BehindAnswer, Left, OneExchangeBack
<1>4. OldAreOfOtherPages'
  BY <1>0 DEF OldAreOfOtherPages, OfOp
<1>5. ReadsAreResident' /\ ReadsAreFetched'
  BY <1>0 DEF ReadsAreResident, ReadsAreFetched, Resident, Going
<1>6. WritesAreHarmless' /\ FetchedNotWritten'
  BY <1>0 DEF WritesAreHarmless, FetchedNotWritten, Resident
<1>7. LateAreEvicted' /\ WrittenAreEvicted' /\ NoRefusals'
  BY <1>0 DEF LateAreEvicted, WrittenAreEvicted, NoRefusals, Resident
<1> QED
  BY <1>1, <1>2, <1>3, <1>4, <1>5, <1>6, <1>7

-------------------------------------------------------------------------------
(* Steps of the host. *)

\* r answers the request f.
Answers(r, f) ==
    /\ r.ex = f.ex /\ r.page = f.page
    /\ \/ f.ty = "ReadReq" /\ r.ty = "ReadResp" /\ r.data = store[f.page]
       \/ f.ty = "WriteReq" /\ r.ty = "WriteAck" /\ store'[f.page] = f.data
       \/ r.ty = "Err" /\ Refusable # {}

\* The image after a step of the host: a write of a request was applied, or none.
Applies == \/ store' = store
           \/ \E w \in H : w.ty = "WriteReq" /\ store' = [store EXCEPT ![w.page] = w.data]

(***************************************************************************)
(* The pages the cache does not have keep their contents, whatever request *)
(* the host applies, and so does the page of every clean frame.            *)
(***************************************************************************)
LEMMA AppliedHarmlessly ==
  ASSUME FramesTyped, WritesAreHarmless, Applies
  PROVE  /\ store' \in [P -> Bytes]
         /\ \A p \in P : ~Resident(p) => store'[p] = store[p]
         /\ \A p \in P : Resident(p) /\ ~frames[slot_of[p]].dirty => store'[p] = store[p]
<1>1. CASE store' = store
  BY <1>1 DEF FramesTyped
<1>2. ASSUME NEW w \in H, w.ty = "WriteReq", store' = [store EXCEPT ![w.page] = w.data]
      PROVE  /\ store' \in [P -> Bytes]
             /\ \A p \in P : ~Resident(p) => store'[p] = store[p]
             /\ \A p \in P : Resident(p) /\ ~frames[slot_of[p]].dirty => store'[p] = store[p]
  <2>1. /\ w.page \in P /\ w.data \in Bytes /\ store \in [P -> Bytes]
        /\ IF Resident(w.page) THEN frames[slot_of[w.page]].dirty ELSE w.data = store[w.page]
    BY <1>2 DEF FramesTyped, WritesAreHarmless
  <2> QED
    BY <1>2, <2>1
<1> QED
  BY <1>1, <1>2 DEF Applies

\* The host answers the first requests; their answers N go behind what it sent before.
LEMMA Served ==
  ASSUME Before, SameCall, UNCHANGED <<ask, ex, result, held, pc>>,
         H' \subseteq H, NEW N, B' = B \cup N,
         \A r \in N : \E f \in H : Answers(r, f),
         \A r \in N, f \in H' : r.ex <= f.ex,
         \A a, g : Follows(toBadge', a, g) =>
                     \/ Follows(toBadge, a, g)
                     \/ a \in B /\ g \in N
                     \/ /\ a \in N /\ g \in N
                        /\ a.ex <= g.ex \/ (Batched /\ a.ty = "ReadResp" /\ g.ty = "WriteAck"),
         Applies
  PROVE  Joined'
<1>0. /\ \A r \in N : r.ex \in Nat /\ r.ex <= ex
      /\ ex \in Nat /\ D' = D
  BY DEF Before, FramesTyped, Answers, D
<1>1. \A r \in N : \E f \in H : /\ r.ex = f.ex /\ r.page = f.page
                                /\ r.ty \in Reads => f.ty \in Reads
                                /\ r.ty \in Writes => f.ty \in Writes
  BY DEF Answers, Reads, Writes
<1>2. (\A f \in H : f.ex = ex) => \A r \in N : r.ex = ex
  BY <1>1
<1>3. (\E r \in N : r.ex = ex) => \A f \in H' : f.ex = ex
  BY <1>0 DEF Before, FramesTyped
<1>4. /\ \A p \in P : ~Resident(p) => store'[p] = store[p]
      /\ store' = store \/ \E w \in H : w.ty = "WriteReq" /\ w.page \in P /\ store'[w.page] = w.data
                                       /\ \A p \in P : p # w.page => store'[p] = store[p]
  <2>1. \A p \in P : ~Resident(p) => store'[p] = store[p]
    BY AppliedHarmlessly DEF Before, Joined
  <2>2. \A w \in H : w.page \in P /\ store \in [P -> Bytes]
    BY DEF Before, FramesTyped
  <2> QED
    BY <2>1, <2>2 DEF Applies
<1>5. called => /\ ask.op \in {"read", "write"} /\ ask.page \in P
                /\ ask.op = "read" => store'[ask.page] = store[ask.page]
  BY <1>4 DEF Before, Joined, CallIsAsked, CallKnows, CallPage
<1>6. \A f \in H : f.ex = ex /\ f.ty = "WriteReq" =>
                   f.page = ask.page /\ f.data = ask.data /\ ask.op = "write"
  BY DEF Before, Joined, OwnFrames, Writes
<1> USE DEF Before, Joined, SameCall, cacheVars
<1>7. CallIsAsked' /\ Settled'
  BY DEF CallIsAsked, Settled, CallPage, Going, Running
<1>8. OwnFrames'
  BY <1>0, <1>1 DEF OwnFrames, Reads, Writes, FramesTyped, Answers
<1>9. OwnAnswersFresh'
  <2> SUFFICES ASSUME pc # "idle", NEW f \in B' \cup D', f.ex = ex
               PROVE  /\ f.ty = "ReadResp" => f.data = store'[ask.page]
                      /\ f.ty = "WriteAck" => store'[ask.page] = ask.data
    BY DEF OwnAnswersFresh
  <2>1. called
    BY DEF CallIsAsked
  <2>2. CASE f \in B \cup D
    <3>1. f.ty = "ReadResp" => f.data = store'[ask.page]
      BY <1>5, <2>1, <2>2 DEF OwnAnswersFresh, OwnFrames, Reads
    <3>2. ASSUME f.ty = "WriteAck" PROVE store'[ask.page] = ask.data
      <4>1. store[ask.page] = ask.data /\ ask.op = "write"
        BY <2>2, <3>2 DEF OwnAnswersFresh, OwnFrames, Writes
      <4>2. \A w \in H : w.ty = "WriteReq" /\ w.page = ask.page => w.data = ask.data
        BY <1>6, <4>1 DEF OldAreOfOtherPages, OfOp, Writes, FramesTyped
      <4> QED
        BY <1>4, <1>5, <2>1, <4>1, <4>2
    <3> QED
      BY <3>1, <3>2
  <2>3. CASE f \in N
    <3>1. PICK q \in H : Answers(f, q)
      BY <2>3
    <3>2. q.ex = ex /\ q.page = ask.page
      BY <3>1 DEF Answers, OwnFrames
    <3> QED
      BY <1>5, <1>6, <2>1, <3>1, <3>2 DEF Answers, OwnFrames, Reads, Writes
  <2> QED
    BY <1>0, <2>2, <2>3
<1>10. ResultFresh'
  <2> SUFFICES ASSUME pc = "idle", called, result.res = "ok"
               PROVE  /\ ask.op = "read" => result.data = store'[ask.page]
                      /\ ask.op = "write" => store'[ask.page] = ask.data
    BY DEF ResultFresh
  <2>1. \A f \in H : f.ex = ex
    BY DEF LeftBehind
  <2> QED
    BY <1>4, <1>5, <1>6, <2>1 DEF ResultFresh
<1>11. LeftBehind' /\ OneExchangeBack'
  BY <1>2 DEF LeftBehind, Left, OneExchangeBack
<1>12. BehindAnswer'
  <2> SUFFICES ASSUME pc # "idle" PROVE BehindAnswer'
    BY DEF BehindAnswer
  <2>1. (\E f \in D : f.ex = ex) => (\A f \in H' : f.ex = ex) /\ (\A f \in B' : Left(f))
    BY <1>2 DEF BehindAnswer, Left
  <2>2. (\E f \in B' : f.ex = ex) => \A f \in H' : f.ex = ex
    BY <1>3 DEF BehindAnswer
  <2>3. ASSUME NEW a, NEW g, Follows(toBadge', a, g), a.ex = ex PROVE Left(g)
    <3>1. CASE Follows(toBadge, a, g)
      BY <2>3, <3>1 DEF BehindAnswer
    <3>2. CASE a \in B /\ g \in N
      BY <1>2, <2>3, <3>2 DEF BehindAnswer, Left
    <3>3. CASE a \in N /\ g \in N /\ a.ex <= g.ex
      BY <1>0, <2>3, <3>3 DEF Left
    <3>4. CASE a \in N /\ g \in N /\ Batched /\ a.ty = "ReadResp" /\ g.ty = "WriteAck"
      <4>1. ask.op = "read"
        BY <1>1, <2>3, <3>4 DEF OwnFrames, Reads, Writes
      <4>2. g.ex >= ex - 1 /\ g.ex \in Nat /\ g.ex <= ex /\ ex \in Nat
        BY <1>0, <1>1, <3>4 DEF OneExchangeBack
      <4>3. g.ex = ex \/ g.ex = ex - 1
        BY <4>2
      <4> QED
        BY <3>4, <4>1, <4>3 DEF Left
    <3> QED
      BY <2>3, <3>1, <3>2, <3>3, <3>4
  <2>4. \A g : Left(g)' = Left(g)
    BY DEF Left
  <2> QED
    BY <1>0, <2>1, <2>2, <2>3, <2>4 DEF BehindAnswer, Left
<1>13. OldAreOfOtherPages'
  BY <1>0, <1>1 DEF OldAreOfOtherPages, OfOp
<1>14. ReadsAreResident' /\ ReadsAreFetched'
  BY <1>1 DEF ReadsAreResident, ReadsAreFetched, Resident, Going
<1>15. WritesAreHarmless' /\ FetchedNotWritten'
  BY <1>4 DEF WritesAreHarmless, FetchedNotWritten, Resident, FramesTyped
<1>16. LateAreEvicted' /\ WrittenAreEvicted'
  BY <1>1 DEF LateAreEvicted, WrittenAreEvicted, Resident
<1>17. NoRefusals'
  BY <1>0 DEF NoRefusals, Answers
<1> QED
  BY <1>7, <1>8, <1>9, <1>10, <1>11, <1>12, <1>13, <1>14, <1>15, <1>16, <1>17

-------------------------------------------------------------------------------
(* Steps of the cache. *)

\* The frames in flight when an exchange that read a page has ended well.
LEMMA AfterRead ==
  ASSUME FramesTyped, OwnFrames, LeftBehind, pc = "idle", result.res = "ok", ask.op = "read"
  PROVE  /\ \A f \in H \cup B : f.ty \in Reads => f.page = ask.page
         /\ \A f \in H : f.ty \notin Writes
         /\ \A f \in B : f.ty \in Writes => f.ex = ex - 1 /\ Batched
         /\ \A f \in H \cup B : f.ty \in Writes => f.ex # ex
<1>1. "WriteAck" \notin Reads /\ "read" # "write"
  BY DEF Reads
<1> QED
  BY <1>1 DEF OwnFrames, LeftBehind, Left

\* read_page or write_page begins its exchange.
LEMMA Called ==
  ASSUME Before, UNCHANGED <<cacheVars, ending, toHost, toBadge, held, store>>,
         cpc \in {"read", "write"}, ~called, called', pc = "idle", pc' = "attempt",
         ex' = ex + 1, result'.res = "none",
         ask'.op = cpc, ask'.page = CallPage, cpc = "write" => ask'.data = frames[victim].data
  PROVE  Joined'
<1> USE DEF Before, Joined, cacheVars
<1>1. H' = H /\ B' = B /\ D' = D
  BY DEF H, B, D
<1>2. /\ ex \in Nat /\ ex + 1 # 0
      /\ \A f \in H \cup B \cup D : /\ f.ex \in Nat /\ f.ex <= ex /\ f.ex # ex + 1
                                   /\ f.page \in P
  BY DEF FramesTyped
<1>3. CallIsAsked' /\ Settled'
  BY <1>2 DEF CallIsAsked, Settled, CallPage, Going, Running
<1>4. OwnFrames' /\ OwnAnswersFresh' /\ ResultFresh'
  BY <1>1, <1>2 DEF OwnFrames, OwnAnswersFresh, ResultFresh
<1>5. LeftBehind' /\ BehindAnswer'
  <2>1. \A f, g : Follows(toBadge, f, g) => f \in B
    BY DEF Follows, B, In
  <2> QED
    BY <1>1, <1>2, <2>1 DEF LeftBehind, BehindAnswer
<1>6. OneExchangeBack'
  <2> SUFFICES ASSUME Batched, NEW f \in H PROVE f.ex >= (ex + 1) - 1
    BY <1>1 DEF OneExchangeBack, Batched
  <2> QED
    BY <1>2 DEF Settled, LeftBehind
<1>7. OldAreOfOtherPages'
  <2> SUFFICES ASSUME NEW f \in H \cup B, f.ty \in (IF cpc = "read" THEN Reads ELSE Writes)
               PROVE  f.page # CallPage
    BY <1>1 DEF OldAreOfOtherPages, OfOp
  <2>1. CASE cpc = "read"
    BY <2>1 DEF CallIsAsked, CallKnows, ReadsAreResident, CallPage
  <2>2. CASE cpc = "write"
    <3>1. f.ty \in Writes => f.ex = ex - 1 /\ Batched
      BY <2>2, AfterRead DEF CallIsAsked
    <3>2. ask.op = "read"
      BY <2>2 DEF CallIsAsked
    <3> QED
      BY <2>2, <3>1, <3>2 DEF CallKnows, LateAreEvicted, CallPage
  <2> QED
    BY <2>1, <2>2
<1>8. ReadsAreResident' /\ ReadsAreFetched'
  BY <1>1 DEF ReadsAreResident, ReadsAreFetched
<1>9. WritesAreHarmless' /\ FetchedNotWritten'
  BY <1>1 DEF WritesAreHarmless, FetchedNotWritten, Resident
<1>10. LateAreEvicted' /\ WrittenAreEvicted' /\ NoRefusals'
  <2>1. (ex + 1) - 1 = ex
    BY <1>2
  <2> QED
    BY <1>1, <2>1 DEF LateAreEvicted, WrittenAreEvicted, NoRefusals, Resident, Batched
<1> QED
  BY <1>3, <1>4, <1>5, <1>6, <1>7, <1>8, <1>9, <1>10

SameLink == UNCHANGED <<toHost, toBadge, held, store, pc, ask, ex, result>>

\* What a step of the cache leaves alone.
LEMMA LinkKept ==
  ASSUME Before, SameLink, ~called \/ pc = "idle", ~called'
  PROVE  /\ Settled' /\ OwnFrames' /\ OwnAnswersFresh' /\ ResultFresh' /\ LeftBehind'
         /\ BehindAnswer' /\ OneExchangeBack' /\ OldAreOfOtherPages' /\ NoRefusals'
         /\ pc = "idle" /\ H' = H /\ B' = B
<1> USE DEF Before, Joined, SameLink
<1>1. H' = H /\ B' = B /\ D' = D /\ pc = "idle"
  BY DEF H, B, D, CallIsAsked
<1> QED
  BY <1>1 DEF Settled, OwnFrames, OwnAnswersFresh, ResultFresh, LeftBehind, Left,
     BehindAnswer, OneExchangeBack, OldAreOfOtherPages, NoRefusals

\* An access begins, hits, or misses.
LEMMA GuestJoined ==
  ASSUME Before, SameLink, UNCHANGED <<slot_of, called, ending>>, Going, ~called,
         cpc \in {"idle", "loop"}, cpc' \in {"idle", "loop", "read"},
         \A p \in P : Resident(p) /\ frames[slot_of[p]].dirty => frames'[slot_of[p]].dirty
  PROVE  Joined'
<1>1. /\ Settled' /\ OwnFrames' /\ OwnAnswersFresh' /\ ResultFresh' /\ LeftBehind'
      /\ BehindAnswer' /\ OneExchangeBack' /\ OldAreOfOtherPages' /\ NoRefusals'
      /\ pc = "idle" /\ H' = H /\ B' = B
  BY LinkKept
<1> USE DEF Before, Joined, SameLink
<1>2. CallIsAsked'
  BY <1>1 DEF CallIsAsked, Going, Running
<1>3. ReadsAreResident' /\ ReadsAreFetched'
  BY <1>1 DEF ReadsAreResident, ReadsAreFetched, Resident, Going
<1>4. WritesAreHarmless' /\ FetchedNotWritten'
  BY <1>1 DEF WritesAreHarmless, FetchedNotWritten, Resident, FramesTyped
<1>5. LateAreEvicted' /\ WrittenAreEvicted'
  BY <1>1 DEF LateAreEvicted, WrittenAreEvicted, Resident
<1> QED
  BY <1>1, <1>2, <1>3, <1>4, <1>5

\* read_page has returned the page.
LEMMA ReadJoined ==
  ASSUME Before, SameLink, ending' = ending, called, ~called', pc = "idle",
         result.res = "ok", cpc = "read",
         \/ cpc' \in {"idle", "loop"} /\ slot_of'[req.page] # 0
         \/ cpc' = "write" /\ UNCHANGED <<slot_of, req>>
         \/ cpc' = "panicked"
  PROVE  Joined'
<1>1. /\ Settled' /\ OwnFrames' /\ OwnAnswersFresh' /\ ResultFresh' /\ LeftBehind'
      /\ BehindAnswer' /\ OneExchangeBack' /\ OldAreOfOtherPages' /\ NoRefusals'
      /\ H' = H /\ B' = B
  BY LinkKept
<1> USE DEF Before, Joined, SameLink
<1>2. ask.op = "read" /\ ask.page = req.page /\ Going
  BY DEF CallIsAsked, CallPage
<1>3. /\ \A f \in H \cup B : f.ty \in Reads => f.page = req.page
      /\ \A f \in H : f.ty \notin Writes
      /\ \A f \in H \cup B : f.ty \in Writes => f.ex # ex
  BY <1>2, AfterRead
<1>4. CallIsAsked'
  BY <1>2 DEF CallIsAsked, Going, Running
<1>5. ReadsAreResident' /\ ReadsAreFetched'
  BY <1>1, <1>3 DEF ReadsAreResident, ReadsAreFetched, Resident, Going
<1>6. WritesAreHarmless' /\ FetchedNotWritten'
  BY <1>1, <1>3 DEF WritesAreHarmless, FetchedNotWritten, Writes
<1>7. LateAreEvicted' /\ WrittenAreEvicted'
  BY <1>1, <1>2, <1>3 DEF LateAreEvicted, WrittenAreEvicted, Resident
<1> QED
  BY <1>1, <1>4, <1>5, <1>6, <1>7

\* write_page has returned: the victim is given up.
LEMMA WriteJoined ==
  ASSUME Before, SameLink, ending' = ending, called, ~called', pc = "idle",
         result.res = "ok", cpc = "write",
         cpc' \in {"idle", "loop"}, slot_of'[frames[victim].page] = 0
  PROVE  Joined'
<1>1. /\ Settled' /\ OwnFrames' /\ OwnAnswersFresh' /\ ResultFresh' /\ LeftBehind'
      /\ BehindAnswer' /\ OneExchangeBack' /\ OldAreOfOtherPages' /\ NoRefusals'
      /\ H' = H /\ B' = B
  BY LinkKept
<1> USE DEF Before, Joined, SameLink
<1>2. /\ ask.op = "write" /\ ask.page = frames[victim].page /\ ask.data = frames[victim].data
      /\ Going /\ store[ask.page] = ask.data /\ ask.data \in Bytes
  BY DEF CallIsAsked, CallPage, ResultFresh, CallKnows
<1>3. \A f \in H \cup B : /\ f.ex = ex /\ f.page = ask.page /\ f.ty \notin Reads
                          /\ f.ty = "WriteReq" => f.data = ask.data
  BY <1>2 DEF LeftBehind, Left, OwnFrames
<1>4. CallIsAsked'
  BY <1>2 DEF CallIsAsked, Going, Running
<1>5. ReadsAreResident' /\ ReadsAreFetched'
  BY <1>1, <1>3 DEF ReadsAreResident, ReadsAreFetched
<1>6. WritesAreHarmless' /\ FetchedNotWritten'
  BY <1>1, <1>2, <1>3 DEF WritesAreHarmless, FetchedNotWritten, Resident
<1>7. LateAreEvicted' /\ WrittenAreEvicted'
  BY <1>1, <1>2, <1>3 DEF LateAreEvicted, WrittenAreEvicted, Resident
<1> QED
  BY <1>1, <1>4, <1>5, <1>6, <1>7

\* write_page has failed, and a clean frame is given up instead of the victim.
LEMMA DeclineJoined ==
  ASSUME Before, SameLink, ending' = ending, called, ~called', pc = "idle",
         result.res # "ok", cpc = "write",
         cpc' \in {"idle", "loop"}, slot_of'[req.page] # 0,
         \A p \in P : p # req.page =>
           /\ Resident(p) /\ frames[slot_of[p]].dirty =>
                slot_of'[p] # 0 /\ frames'[slot_of'[p]].dirty
           /\ ~Resident(p) => slot_of'[p] = 0
  PROVE  Joined'
<1>1. /\ Settled' /\ OwnFrames' /\ OwnAnswersFresh' /\ ResultFresh' /\ LeftBehind'
      /\ BehindAnswer' /\ OneExchangeBack' /\ OldAreOfOtherPages' /\ NoRefusals'
      /\ H' = H /\ B' = B
  BY LinkKept
<1> USE DEF Before, Joined, SameLink
<1>2. ~Batched /\ Going
  BY DEF CallIsAsked, Settled
<1>3. CallIsAsked'
  BY <1>2 DEF CallIsAsked, Going, Running
<1>4. ReadsAreResident' /\ ReadsAreFetched'
  BY <1>1 DEF ReadsAreResident, ReadsAreFetched, Resident
<1>5. WritesAreHarmless' /\ FetchedNotWritten'
  BY <1>1 DEF WritesAreHarmless, FetchedNotWritten, Resident, FramesTyped
<1>6. LateAreEvicted' /\ WrittenAreEvicted'
  BY <1>2 DEF LateAreEvicted, WrittenAreEvicted, Batched
<1> QED
  BY <1>1, <1>3, <1>4, <1>5, <1>6

\* A backing call has failed and the run ends.
LEMMA FailJoined ==
  ASSUME Before, SameLink, called, ~called', pc = "idle", result.res # "ok",
         cpc' = "idle", ending' # Running, UNCHANGED <<frames, slot_of>>
  PROVE  Joined'
<1>1. /\ Settled' /\ OwnFrames' /\ OwnAnswersFresh' /\ ResultFresh' /\ LeftBehind'
      /\ BehindAnswer' /\ OneExchangeBack' /\ OldAreOfOtherPages' /\ NoRefusals'
      /\ H' = H /\ B' = B
  BY LinkKept
<1> USE DEF Before, Joined, SameLink
<1>2. ~Batched
  BY DEF CallIsAsked, Settled
<1>3. CallIsAsked'
  BY <1>2 DEF CallIsAsked, Going, Running
<1>4. ReadsAreResident' /\ ReadsAreFetched'
  BY <1>1 DEF ReadsAreResident, ReadsAreFetched, Going, Running
<1>5. WritesAreHarmless' /\ FetchedNotWritten'
  BY <1>1 DEF WritesAreHarmless, FetchedNotWritten, Resident
<1>6. LateAreEvicted' /\ WrittenAreEvicted'
  BY <1>2 DEF LateAreEvicted, WrittenAreEvicted, Batched
<1> QED
  BY <1>1, <1>3, <1>4, <1>5, <1>6

-------------------------------------------------------------------------------
(* Tether's own instances of PageCache and Link are those the lemmas are about. *)

\* Wire and L are the same link.
LEMMA SameWire ==
  /\ Wire!Init <=> L!Init
  /\ \A a : Wire!BeginExchange(a) <=> L!BeginExchange(a)
  /\ Wire!BadgeStep <=> L!BadgeStep
  /\ Wire!HostStep <=> L!HostStep
  /\ Wire!Pump <=> L!Pump
  /\ Wire!ServiceFails <=> L!ServiceFails
  /\ Wire!LoseRequest <=> L!LoseRequest
  /\ Wire!LoseAnswer <=> L!LoseAnswer
  /\ Wire!Expire <=> L!Expire
  /\ Wire!NoFault = L!NoFault
BY Zenon
   DEF Wire!RemoveAt, L!RemoveAt, Wire!NoAsk, L!NoAsk, Wire!NoFault, L!NoFault, Wire!Frame,
       L!Frame, Wire!Asks, L!Asks, Wire!Request, L!Request, Wire!want, L!want, Wire!HeldOf,
       L!HeldOf, Wire!FirstOf, L!FirstOf, Wire!Take, L!Take, Wire!BeginExchange,
       L!BeginExchange, Wire!Returns, L!Returns, Wire!GiveUp, L!GiveUp, Wire!Attempt,
       L!Attempt, Wire!AttemptTooLate, L!AttemptTooLate, Wire!Arm, L!Arm, Wire!ArmFails,
       L!ArmFails, Wire!SendTooLate, L!SendTooLate, Wire!Send, L!Send, Wire!SendFails,
       L!SendFails, Wire!Accept, L!Accept, Wire!DropOtherPage, L!DropOtherPage, Wire!Refused,
       L!Refused, Wire!DropOtherErr, L!DropOtherErr, Wire!NothingToTake, L!NothingToTake,
       Wire!WaitTooLate, L!WaitTooLate, Wire!Retry, L!Retry, Wire!OutOfAttempts,
       L!OutOfAttempts, Wire!Absorb, L!Absorb, Wire!Recv, L!Recv, Wire!RecvFails, L!RecvFails,
       Wire!Pump, L!Pump, Wire!ServiceFails, L!ServiceFails, Wire!ReadAnswers, L!ReadAnswers,
       Wire!ServeRead, L!ServeRead, Wire!ServeWrite, L!ServeWrite, Wire!PassPart, L!PassPart,
       Wire!LoseRequest, L!LoseRequest, Wire!LoseAnswer, L!LoseAnswer, Wire!Expire, L!Expire,
       Wire!BadgeStep, L!BadgeStep, Wire!HostStep, L!HostStep, Wire!hostVars, L!hostVars,
       Wire!badgeVars, L!badgeVars, Wire!auxVars, L!auxVars, Wire!Init, L!Init

\* Cache and C are the same cache, and show the guest the same memory.
LEMMA SameCache ==
  /\ Cache!Init <=> C!Init
  /\ Cache!Flat!Requests = C!Flat!Requests
  /\ \A a : Cache!BeginAccess(a) <=> C!BeginAccess(a)
  /\ Cache!Hit <=> C!Hit
  /\ Cache!Miss <=> C!Miss
  /\ \A data : Cache!ReadReturns(data) <=> C!ReadReturns(data)
  /\ Cache!WriteReturns <=> C!WriteReturns
  /\ Cache!DeclineVictim <=> C!DeclineVictim
  /\ Cache!ReadFails <=> C!ReadFails
  /\ Cache!NoCleanVictim <=> C!NoCleanVictim
  /\ Cache!Flat!Init <=> C!Flat!Init
  /\ [Cache!Flat!Next]_(Cache!Flat!vars) <=> [C!Flat!Next]_(C!Flat!vars)
BY Zenon
   DEF Cache!NOT_RESIDENT, C!NOT_RESIDENT, Cache!Pages, C!Pages, Cache!Data, C!Data,
       Cache!Frame, C!Frame, Cache!NoData, C!NoData, Cache!resident_slot, C!resident_slot,
       Cache!sweep, C!sweep, Cache!Lap, C!Lap, Cache!FirstOf, C!FirstOf, Cache!Unpinned,
       C!Unpinned, Cache!Cold, C!Cold, Cache!CleanUnpinned, C!CleanUnpinned, Cache!Stop,
       C!Stop, Cache!select_victim, C!select_victim, Cache!HandAfter, C!HandAfter, Cache!Aged,
       C!Aged, Cache!AgedFrames, C!AgedFrames, Cache!CleanStop, C!CleanStop,
       Cache!select_clean_victim, C!select_clean_victim, Cache!Return, C!Return,
       Cache!Touched, C!Touched, Cache!Advance, C!Advance, Cache!FreshFrame, C!FreshFrame,
       Cache!Replace, C!Replace, Cache!BeginAccess, C!BeginAccess, Cache!Hit, C!Hit,
       Cache!Miss, C!Miss, Cache!ReadFails, C!ReadFails, Cache!FillVacant, C!FillVacant,
       Cache!EvictClean, C!EvictClean, Cache!WriteVictim, C!WriteVictim, Cache!PanicAllPinned,
       C!PanicAllPinned, Cache!ReadReturns, C!ReadReturns, Cache!WriteReturns, C!WriteReturns,
       Cache!DeclineVictim, C!DeclineVictim, Cache!NoCleanVictim, C!NoCleanVictim,
       Cache!cacheVars, C!cacheVars, Cache!callVars, C!callVars, Cache!Init, C!Init,
       Cache!GuestView, C!GuestView, Cache!Flat!Pages, C!Flat!Pages, Cache!Flat!Offs,
       C!Flat!Offs, Cache!Flat!Data, C!Flat!Data, Cache!Flat!Smaller, C!Flat!Smaller,
       Cache!Flat!NoAccess, C!Flat!NoAccess, Cache!Flat!InRam, C!Flat!InRam,
       Cache!Flat!PieceLen, C!Flat!PieceLen, Cache!Flat!PageAfter, C!Flat!PageAfter,
       Cache!Flat!BufAfter, C!Flat!BufAfter, Cache!Flat!Moved, C!Flat!Moved,
       Cache!Flat!Finished, C!Flat!Finished, Cache!Flat!Requests, C!Flat!Requests,
       Cache!Flat!Bufs, C!Flat!Bufs, Cache!Flat!Blank, C!Flat!Blank, Cache!Flat!Begin,
       C!Flat!Begin, Cache!Flat!Move, C!Flat!Move, Cache!Flat!Fail, C!Flat!Fail,
       Cache!Flat!Other, C!Flat!Other, Cache!Flat!Next, C!Flat!Next, Cache!Flat!Init,
       C!Flat!Init, Cache!Flat!vars, C!Flat!vars

\* What the invariants of the two parts say of the frames and of an outstanding call.
LEMMA PartsKnow == C!IInv /\ L!Inv => FramesTyped /\ CallKnows
<1> SUFFICES ASSUME C!IInv, L!Inv PROVE FramesTyped /\ CallKnows
  OBVIOUS
<1>1. store \in [P -> Bytes]
  BY DEF C!IInv, C!TypeOK, C!Pages, C!Data, C!Flat!Pages, C!Flat!Data, C!Flat!Offs, P, Bytes
<1>2. ex \in Nat /\ pc \in {"idle", "attempt", "arm", "send", "wait"}
  BY DEF L!Inv, L!CountersType
<1>3. /\ \A f \in L!ReqFrames : /\ f.ty \in {"ReadReq", "WriteReq", "Part"}
                                 /\ f.page \in P /\ f.ex \in Nat
      /\ \A f \in L!AnsFrames : /\ f.ty \in {"ReadResp", "WriteAck", "Err"}
                                 /\ f.page \in P /\ f.ex \in Nat
  BY DEF L!ReqFrames, L!AnsFrames, P
<1>4. \A f \in H : f \in L!ReqFrames /\ f.ex <= ex
  <2>1. \A i \in 1 .. Len(toHost) : toHost[i] \in L!ReqFrames
    BY ElementOfSeq DEF L!Inv, L!StreamsType
  <2> QED
    BY <2>1 DEF L!Inv, L!Ordered, L!RequestsInOrder, L!NotNewer, H, In
<1>5. \A f \in B \cup D : f \in L!AnsFrames /\ f.ex <= ex
  <2>1. /\ \A i \in 1 .. Len(toBadge) : toBadge[i] \in L!AnsFrames
        /\ \A i \in 1 .. Len(held) : held[i] \in L!AnsFrames
    BY ElementOfSeq DEF L!Inv, L!StreamsType
  <2> QED
    BY <2>1 DEF L!Inv, L!Ordered, L!AnswersAreToRequests, L!NotNewer, B, D, In
<1>6. FramesTyped
  BY <1>1, <1>2, <1>3, <1>4, <1>5 DEF FramesTyped
<1>7. cpc = "read" => req.page \in P /\ ~Resident(req.page)
  BY DEF C!IInv, C!CallConsistent, C!NOT_RESIDENT, C!Pages, C!Flat!Pages, P, Resident
<1>8. ASSUME cpc = "write"
      PROVE  /\ req.page \in P /\ ~Resident(req.page)
             /\ frames[victim].page \in P /\ Resident(frames[victim].page)
             /\ slot_of[frames[victim].page] = victim
             /\ frames[victim].dirty
             /\ frames[victim].data \in Bytes
  <2>1. /\ req.page \in P /\ slot_of[req.page] = 0 /\ victim \in 1 .. Len(frames)
        /\ frames[victim].dirty
    BY <1>8 DEF C!IInv, C!FetchedStaysCurrent, C!NOT_RESIDENT, C!Pages, C!Flat!Pages, P
  <2>2. frames[victim].page \in P /\ frames[victim].data \in Bytes
    BY <2>1, C!FramesTyped, PartsAssumption DEF C!IInv, C!Pages, C!Flat!Pages, C!Data,
       C!Flat!Data, C!Flat!Offs, P, Bytes
  <2>3. slot_of[frames[victim].page] = victim /\ victim # 0
    BY <2>1 DEF C!IInv, C!IndexMatchesFrames
  <2> QED
    BY <2>1, <2>2, <2>3 DEF Resident
<1> QED
  BY <1>6, <1>7, <1>8 DEF CallKnows

\* The same of the next state.
LEMMA PartsKnowNext == C!IInv' /\ L!Inv' => FramesTyped'
BY PartsKnow, PTL

-------------------------------------------------------------------------------
(* Every step of the link and of the host keeps the invariant. *)

\* The three streams are sequences of frames.
LEMMA StreamTypes ==
  ASSUME L!Inv
  PROVE  /\ toHost \in Seq(L!ReqFrames) /\ toBadge \in Seq(L!AnsFrames) /\ held \in Seq(L!AnsFrames)
         /\ Len(toHost) \in Nat /\ Len(toBadge) \in Nat /\ Len(held) \in Nat
BY LenProperties DEF L!Inv, L!StreamsType

\* A thinned stream has no new frame and no new order.
LEMMA ThinnedStreams ==
  ASSUME L!Inv, L!Inv'
  PROVE  /\ L!Thins(toHost', toHost) => H' \subseteq H
         /\ L!Thins(toBadge', toBadge) =>
              B' \subseteq B /\ \A f, g : Follows(toBadge', f, g) => Follows(toBadge, f, g)
         /\ L!Thins(held', held) => D' \subseteq D
         /\ toHost' = toHost => H' \subseteq H
         /\ toBadge' = toBadge =>
              B' \subseteq B /\ \A f, g : Follows(toBadge', f, g) => Follows(toBadge, f, g)
         /\ held' = held => D' \subseteq D
<1>1. /\ Len(toHost) \in Nat /\ Len(toBadge) \in Nat /\ Len(held) \in Nat
  BY StreamTypes
<1>2. Len(toHost') \in Nat /\ Len(toBadge') \in Nat /\ Len(held') \in Nat
  BY LenProperties DEF L!Inv, L!StreamsType
<1> QED
  BY <1>1, <1>2, InThins DEF H, B, D

\* Giving up is for the regime in which the host answers in order.
LEMMA GivesUp ==
  ASSUME Before, L!Inv, L!Inv', SameCall, failed \in Nat, NEW kind, L!GiveUp(kind), pc # "idle",
         \/ toHost' = toHost
         \/ toHost' = Append(toHost, L!Frame("Part", ask.page, NoVal, ex))
  PROVE  Joined'
<1>1. failed < MaxFailed /\ result'.res = "Medium"
  BY DEF L!GiveUp, L!Returns
<1>2. ~Batched
  BY <1>1, TetherAssumption DEF Before, Regular, Batched
<1>3. /\ L!Thins(toBadge', toBadge) /\ L!Thins(held', held)
      /\ UNCHANGED <<store, ask, ex>> /\ pc' = "idle"
  BY L!GivingUp, PartsAssumption DEF L!Inv
<1>4. B' \subseteq B /\ D' \subseteq D
  BY <1>3, ThinnedStreams
<1>5. \A f \in H' : f \in H \/ (f.ty = "Part" /\ f.page = ask.page)
  <2>1. CASE toHost' = toHost
    BY <2>1, ThinnedStreams
  <2> DEFINE part == L!Frame("Part", ask.page, NoVal, ex)
  <2>2. part.ty = "Part" /\ part.page = ask.page
    BY DEF L!Frame
  <2> HIDE DEF part
  <2>3. CASE toHost' = Append(toHost, part)
    <3>1. toHost \in Seq(L!ReqFrames \cup {part}) /\ part \in L!ReqFrames \cup {part}
      BY StreamTypes
    <3>2. H' = H \cup {part}
      BY <2>3, <3>1, InAppend DEF H
    <3> QED
      BY <2>2, <3>2
  <2> QED
    BY <2>1, <2>3 DEF part
<1> QED
  BY <1>1, <1>2, <1>3, <1>4, <1>5, Failed

\* A frame is taken from what the badge holds.
LEMMA Takes ==
  ASSUME L!Inv, L!Inv', NEW ty, L!HeldOf(ty) # {}, L!Take(ty)
  PROVE  /\ D' \subseteq D
         /\ held[L!FirstOf(ty)] \in D /\ held[L!FirstOf(ty)].ty = ty
<1>1. L!Thins(held', held)
  BY L!Taking, PartsAssumption DEF L!Inv
<1>2. L!FirstOf(ty) \in 1 .. Len(held) /\ held[L!FirstOf(ty)].ty = ty
  BY L!TakeFirst, StreamTypes, PartsAssumption
<1> QED
  BY <1>1, <1>2, ThinnedStreams DEF D, In

\* Steps that only lose, drop or purge frames.
LEMMA Thins ==
  ASSUME Before, L!Inv, L!Inv', SameCall,
         \/ L!Attempt \/ L!Arm \/ L!DropOtherPage \/ L!DropOtherErr \/ L!Retry
         \/ L!ServiceFails \/ L!Expire \/ L!LoseRequest \/ L!LoseAnswer \/ L!PassPart
  PROVE  Joined'
<1> USE DEF L!hostVars, L!badgeVars, L!auxVars
<1>1. CASE L!Attempt
  <2>1. D' = {}
    BY <1>1, InEmpty DEF L!Attempt, D
  <2> QED
    BY <1>1, <2>1, ThinnedStreams, Thinned DEF L!Attempt
<1>2. CASE L!Arm \/ L!Retry \/ L!ServiceFails \/ L!Expire
  BY <1>2, ThinnedStreams, Thinned DEF L!Arm, L!Retry, L!NothingToTake, L!ServiceFails, L!Expire
<1>3. CASE L!DropOtherPage \/ L!DropOtherErr
  <2>1. PICK ty : L!HeldOf(ty) # {} /\ L!Take(ty)
    BY <1>3 DEF L!DropOtherPage, L!DropOtherErr
  <2>2. D' \subseteq D
    BY <2>1, Takes
  <2> QED
    BY <1>3, <2>2, ThinnedStreams, Thinned DEF L!DropOtherPage, L!DropOtherErr
<1>4. CASE L!LoseRequest
  <2>1. PICK i \in 1 .. Len(toHost) : toHost' = L!RemoveAt(toHost, i)
    BY <1>4 DEF L!LoseRequest
  <2>2. L!Thins(toHost', toHost)
    BY <2>1, StreamTypes, L!ThinsRemoveAt, PartsAssumption
  <2> QED
    BY <1>4, <2>2, ThinnedStreams, Thinned DEF L!LoseRequest
<1>5. CASE L!LoseAnswer
  <2>1. PICK i \in 1 .. Len(toBadge) : toBadge' = L!RemoveAt(toBadge, i)
    BY <1>5 DEF L!LoseAnswer
  <2>2. L!Thins(toBadge', toBadge)
    BY <2>1, StreamTypes, L!ThinsRemoveAt, PartsAssumption
  <2> QED
    BY <1>5, <2>2, ThinnedStreams, Thinned DEF L!LoseAnswer
<1>6. CASE L!PassPart
  <2>1. L!Thins(toHost', toHost)
    BY <1>6, StreamTypes, L!ThinsTail, PartsAssumption DEF L!PassPart
  <2> QED
    BY <1>6, <2>1, ThinnedStreams, Thinned DEF L!PassPart
<1> QED
  BY <1>1, <1>2, <1>3, <1>4, <1>5, <1>6

\* The badge decodes a frame.
LEMMA Absorbs ==
  ASSUME Before, L!Inv, SameCall, L!Absorb, UNCHANGED <<ask, ex, result, store, toHost, pc>>,
         pc \in {"idle", "wait"}
  PROVE  Joined'
<1>1. /\ toBadge \in Seq(L!AnsFrames) /\ held \in Seq(L!AnsFrames) /\ toBadge # <<>>
      /\ toBadge' = Tail(toBadge) /\ held' = Append(held, Head(toBadge))
  BY StreamTypes DEF L!Absorb
<1>2. PICK f : f = Head(toBadge)
  OBVIOUS
<1>3. /\ f \in L!AnsFrames /\ f \in B /\ B' \subseteq B
      /\ \A a, g : Follows(toBadge', a, g) => Follows(toBadge, a, g)
      /\ \A g \in B' : Follows(toBadge, f, g)
  BY <1>1, <1>2, InHead DEF B
<1>4. D' = D \cup {f}
  BY <1>1, <1>2, <1>3, InAppend DEF D
<1> QED
  BY <1>3, <1>4, Absorbed

\* A step of exchange_inner, or a poll of the run loop, keeps the joining invariant.
LEMMA BadgeJoined ==
  ASSUME Before, L!Inv, L!Inv', SameCall, failed \in Nat, L!BadgeStep \/ L!Pump
  PROVE  Joined'
<1> USE DEF L!hostVars, L!badgeVars, L!auxVars
<1>1. CASE L!Attempt \/ L!Arm \/ L!DropOtherPage \/ L!DropOtherErr \/ L!Retry
  BY <1>1, Thins
<1>2. CASE \/ L!AttemptTooLate \/ L!ArmFails \/ L!SendTooLate \/ L!WaitTooLate
           \/ L!OutOfAttempts \/ L!RecvFails \/ L!SendFails
  <2>1. PICK kind : L!GiveUp(kind)
    BY <1>2 DEF L!AttemptTooLate, L!ArmFails, L!SendTooLate, L!WaitTooLate, L!OutOfAttempts,
       L!RecvFails, L!SendFails
  <2>2. /\ pc # "idle"
        /\ \/ toHost' = toHost
           \/ toHost' = Append(toHost, L!Frame("Part", ask.page, NoVal, ex))
    BY <1>2 DEF L!AttemptTooLate, L!ArmFails, L!SendTooLate, L!WaitTooLate, L!OutOfAttempts,
       L!RecvFails, L!SendFails, L!NothingToTake
  <2> QED
    BY <2>1, <2>2, GivesUp
<1>3. CASE L!Send
  <2>1. toHost' = Append(toHost, L!Request)
    BY <1>3 DEF L!Send
  <2>2. PICK r : r = L!Request
    OBVIOUS
  <2>3. toHost \in Seq(L!ReqFrames \cup {r}) /\ r \in L!ReqFrames \cup {r}
    BY StreamTypes
  <2>4. H' = H \cup {r}
    BY <2>1, <2>2, <2>3, InAppend DEF H
  <2> QED
    BY <1>3, <2>2, <2>4, Sent DEF L!Send
<1>4. CASE L!Accept
  <2>1. L!HeldOf(L!want) # {} /\ L!Take(L!want)
    BY <1>4 DEF L!Accept
  <2>2. PICK f : f = held[L!FirstOf(L!want)]
    OBVIOUS
  <2>3. D' \subseteq D /\ f \in D /\ f.ty = L!want
    BY <2>1, <2>2, Takes
  <2>4. /\ f.page = ask.page /\ result' = [res |-> "ok", data |-> f.data, from |-> f.ex]
        /\ pc = "wait" /\ pc' = "idle" /\ UNCHANGED <<ask, ex, store, toHost, toBadge>>
    BY <1>4, <2>2 DEF L!Accept, L!Returns
  <2> QED
    BY <2>3, <2>4, Accepted
<1>5. CASE L!Refused
  <2>1. L!HeldOf("Err") # {} /\ L!Take("Err")
    BY <1>5 DEF L!Refused
  <2>2. PICK f : f = held[L!FirstOf("Err")]
    OBVIOUS
  <2>3. D' \subseteq D /\ f \in D /\ f.ty = "Err"
    BY <2>1, <2>2, Takes
  <2>4. ~Batched
    BY <2>3 DEF Before, Joined, NoRefusals, Regular, Batched
  <2>5. /\ result'.res = "OutOfRange" /\ pc = "wait" /\ pc' = "idle"
        /\ UNCHANGED <<ask, ex, store, toHost, toBadge>>
    BY <1>5 DEF L!Refused, L!Returns
  <2> QED
    BY <2>3, <2>4, <2>5, ThinnedStreams, Failed
<1>6. CASE L!Recv \/ L!Pump
  BY <1>6, Absorbs DEF L!Recv, L!Pump, L!NothingToTake
<1> QED
  BY <1>1, <1>2, <1>3, <1>4, <1>5, <1>6 DEF L!BadgeStep

\* The requests left when the first m have been served.
Rest(s, m) == SubSeq(s, m + 1, Len(s))

\* They are requests from behind the m-th.
LEMMA InRest ==
  ASSUME NEW S, NEW s \in Seq(S), NEW m \in 0 .. Len(s)
  PROVE  /\ In(Rest(s, m)) \subseteq In(s)
         /\ \A g \in In(Rest(s, m)) : \E j \in m + 1 .. Len(s) : g = s[j]
<1> DEFINE t == Rest(s, m)
<1>0. Len(s) \in Nat /\ \A i \in 1 .. Len(s) : s[i] \in S
  BY LenProperties, ElementOfSeq
<1>1. \A i \in m + 1 .. Len(s) : s[i] \in S /\ i \in 1 .. Len(s)
  BY <1>0
<1>2. /\ Len(t) = IF m + 1 <= Len(s) THEN Len(s) - (m + 1) + 1 ELSE 0
      /\ \A i \in 1 .. Len(s) - (m + 1) + 1 : t[i] = s[m + 1 + i - 1]
  BY <1>0, <1>1, SubSeqProperties DEF Rest
<1> HIDE DEF t
<1>3. Len(t) = Len(s) - m /\ \A i \in 1 .. Len(s) - m : t[i] = s[m + i] /\ m + i \in m + 1 .. Len(s)
  BY <1>0, <1>2
<1>4. \A g \in In(t) : \E j \in m + 1 .. Len(s) : g = s[j]
  BY <1>3 DEF In
<1>5. In(t) \subseteq In(s)
  BY <1>1, <1>4 DEF In
<1> QED
  BY <1>4, <1>5 DEF t

\* The host's answers to a ReadReq, and to a WriteReq.
LEMMA ReadAnswered ==
  ASSUME NEW f, f.ty = "ReadReq", NEW r \in L!ReadAnswers(f)
  PROVE  Answers(r, f) /\ r.ex = f.ex /\ (Refusable = {} => r.ty = "ReadResp")
<1>1. \/ r = L!Frame("ReadResp", f.page, store[f.page], f.ex)
      \/ r = L!Frame("Err", f.page, NoVal, f.ex) /\ Refusable # {}
  BY DEF L!ReadAnswers
<1> QED
  BY <1>1 DEF L!Frame, Answers

\* The host answers the first request, a ReadReq.
LEMMA ServeReadJoined ==
  ASSUME Before, L!Inv, SameCall, L!ServeRead
  PROVE  Joined'
<1>1. /\ toHost \in Seq(L!ReqFrames) /\ toBadge \in Seq(L!AnsFrames) /\ Len(toHost) \in Nat
      /\ toHost # <<>> /\ toHost' = Tail(toHost)
      /\ UNCHANGED <<ask, ex, result, held, pc, store>>
  BY StreamTypes DEF L!ServeRead, L!hostVars, L!badgeVars, L!auxVars
<1>2. PICK f : f = Head(toHost)
  OBVIOUS
<1>3. /\ f \in H /\ f = toHost[1] /\ 1 \in 1 .. Len(toHost) /\ f \in L!ReqFrames
      /\ H' \subseteq H /\ \A g \in H' : Follows(toHost, f, g)
  BY <1>1, <1>2, InHead DEF H
<1>4. PICK r \in L!ReadAnswers(f) : toBadge' = Append(toBadge, r)
  BY <1>2 DEF L!ServeRead
<1>5. f.ty = "ReadReq"
  BY <1>2 DEF L!ServeRead
<1>6. Answers(r, f) /\ r.ex = f.ex
  BY <1>5, ReadAnswered
<1>7. r \in L!AnsFrames
  BY <1>3, L!ReadAnswersType, PartsAssumption DEF L!Inv
<1>8. /\ B' = B \cup {r}
      /\ \A a, g : Follows(toBadge', a, g) => Follows(toBadge, a, g) \/ (a \in B /\ g = r)
  BY <1>1, <1>4, <1>7, InAppend DEF B
<1>9. \A g \in H' : r.ex <= g.ex
  <2> TAKE g \in H'
  <2>1. PICK i, j \in 1 .. Len(toHost) : i < j /\ toHost[i] = f /\ toHost[j] = g
    BY <1>3 DEF Follows
  <2>2. i <= j
    BY <2>1
  <2> QED
    BY <1>6, <2>1, <2>2 DEF L!Inv, L!Ordered, L!RequestsInOrder, L!InOrder
<1>10. PICK N : N = {r}
  OBVIOUS
<1>11. /\ \A q \in N : \E h \in H : Answers(q, h)
       /\ \A q \in N, g \in H' : q.ex <= g.ex
       /\ B' = B \cup N
       /\ \A a, g : Follows(toBadge', a, g) => Follows(toBadge, a, g) \/ (a \in B /\ g \in N)
  BY <1>3, <1>6, <1>8, <1>9, <1>10
<1>12. Applies
  BY <1>1 DEF Applies
<1> QED
  BY <1>1, <1>3, <1>11, <1>12, Served

\* A WriteReq is served, with the n ReadReqs that came with its tail ahead of it.
LEMMA ServeWriteForm ==
  ASSUME L!Inv, NEW n \in 0 .. MaxBatch, L!ServeWrite(n)
  PROVE  /\ n \in Nat /\ n + 1 \in 0 .. Len(toHost) /\ 1 \in 1 .. Len(toHost)
         /\ toHost[1].ty = "WriteReq" /\ toHost[1] \in L!ReqFrames
         /\ \A i \in 1 .. n : toHost[i + 1].ty = "ReadReq" /\ i + 1 \in 1 .. Len(toHost)
         /\ toHost' = SubSeq(toHost, n + 1 + 1, Len(toHost))
         /\ UNCHANGED <<ask, ex, result, held, pc>>
         /\ \E new \in Seq(L!AnsFrames) :
              /\ Len(new) = n + 1 /\ toBadge' = toBadge \o new
              /\ \A i \in 1 .. n : new[i] \in L!ReadAnswers(toHost[i + 1])
              /\ \/ /\ new[n + 1] = L!Frame("WriteAck", toHost[1].page, NoVal, toHost[1].ex)
                    /\ store' = [store EXCEPT ![toHost[1].page] = toHost[1].data]
                 \/ /\ new[n + 1] = L!Frame("Err", toHost[1].page, NoVal, toHost[1].ex)
                    /\ toHost[1].page \in Refusable
                    /\ store' = store
<1>1. /\ toHost \in Seq(L!ReqFrames) /\ toBadge \in Seq(L!AnsFrames) /\ Len(toHost) \in Nat
      /\ \A i \in 1 .. Len(toHost) : toHost[i] \in L!ReqFrames
  BY StreamTypes, ElementOfSeq
<1>2. n < Len(toHost)
  BY DEF L!ServeWrite
<1>3. n \in Nat /\ n + 1 \in 0 .. Len(toHost) /\ 1 \in 1 .. Len(toHost) /\ n + 2 = n + 1 + 1
      /\ \A i \in 1 .. n : i + 1 \in 1 .. Len(toHost) /\ i + 1 \in 2 .. n + 1
  BY <1>1, <1>2, TetherAssumption
<1>4. PICK w : w = toHost[1]
  OBVIOUS
<1>5. Head(toHost) = w /\ w \in L!ReqFrames
  BY <1>1, <1>3, <1>4, EmptySeq, HeadTailProperties
<1>6. /\ w.ty = "WriteReq" /\ toHost' = SubSeq(toHost, n + 2, Len(toHost))
      /\ \A i \in 2 .. n + 1 : toHost[i].ty = "ReadReq"
      /\ UNCHANGED <<L!badgeVars, L!auxVars>>
  BY <1>5 DEF L!ServeWrite
<1>7. PICK reads \in [1 .. n -> UNION {L!ReadAnswers(toHost[i]) : i \in 2 .. n + 1}] :
         /\ \A i \in 1 .. n : reads[i] \in L!ReadAnswers(toHost[i + 1])
         /\ \/ /\ toBadge' = toBadge \o reads \o <<L!Frame("WriteAck", w.page, NoVal, w.ex)>>
               /\ store' = [store EXCEPT ![w.page] = w.data]
            \/ /\ w.page \in Refusable
               /\ toBadge' = toBadge \o reads \o <<L!Frame("Err", w.page, NoVal, w.ex)>>
               /\ store' = store
  BY <1>5 DEF L!ServeWrite, L!hostVars
<1>8. PICK a : /\ toBadge' = toBadge \o reads \o <<a>>
               /\ \/ /\ a = L!Frame("WriteAck", w.page, NoVal, w.ex)
                     /\ store' = [store EXCEPT ![w.page] = w.data]
                  \/ /\ a = L!Frame("Err", w.page, NoVal, w.ex)
                     /\ w.page \in Refusable
                     /\ store' = store
  BY <1>7
<1>9. a \in L!AnsFrames
  <2>1. w.page \in 0 .. RamPages - 1 /\ w.ex \in Nat /\ NoVal \in L!Values
    BY <1>5 DEF L!ReqFrames, L!Values
  <2> QED
    BY <1>8, <2>1 DEF L!Frame, L!AnsFrames
<1>10. reads \in Seq(L!AnsFrames) /\ Len(reads) = n
  <2>1. \A i \in 1 .. n : reads[i] \in L!AnsFrames
    BY <1>1, <1>3, <1>7, L!ReadAnswersType, PartsAssumption DEF L!Inv
  <2>2. reads \in [1 .. n -> L!AnsFrames]
    BY <1>7, <2>1
  <2> QED
    BY <1>3, <2>2
<1> DEFINE new == Append(reads, a)
<1>11. /\ new \in Seq(L!AnsFrames) /\ Len(new) = n + 1 /\ new[n + 1] = a
       /\ \A i \in 1 .. n : new[i] = reads[i]
  BY <1>9, <1>10, AppendProperties
<1>12. toBadge' = toBadge \o new
  <2>1. <<a>> \in Seq(L!AnsFrames)
    BY <1>9
  <2>2. new = reads \o <<a>>
    BY <1>9, <1>10, AppendIsConcat
  <2>3. toBadge \o reads \o <<a>> = toBadge \o (reads \o <<a>>)
    BY <1>1, <1>10, <2>1, ConcatAssociative
  <2> QED
    BY <1>8, <2>2, <2>3
<1> HIDE DEF new
<1>13. \A i \in 1 .. n : new[i] \in L!ReadAnswers(toHost[i + 1])
  BY <1>7, <1>11
<1>14. \A i \in 1 .. n : toHost[i + 1].ty = "ReadReq"
  BY <1>3, <1>6
<1>15. UNCHANGED <<ask, ex, result, held, pc>>
  BY <1>6 DEF L!badgeVars, L!auxVars
<1>16. /\ Len(new) = n + 1 /\ toBadge' = toBadge \o new
       /\ \A i \in 1 .. n : new[i] \in L!ReadAnswers(toHost[i + 1])
       /\ \/ /\ new[n + 1] = L!Frame("WriteAck", toHost[1].page, NoVal, toHost[1].ex)
             /\ store' = [store EXCEPT ![toHost[1].page] = toHost[1].data]
          \/ /\ new[n + 1] = L!Frame("Err", toHost[1].page, NoVal, toHost[1].ex)
             /\ toHost[1].page \in Refusable
             /\ store' = store
  BY <1>4, <1>8, <1>11, <1>12, <1>13
<1> QED
  BY <1>3, <1>4, <1>5, <1>6, <1>11, <1>14, <1>15, <1>16

\* The host answers a WriteReq and the reads that overtake it.
LEMMA ServeWriteJoined ==
  ASSUME Before, L!Inv, SameCall, NEW n \in 0 .. MaxBatch, L!ServeWrite(n)
  PROVE  Joined' /\ Applies
<1>1. /\ toHost \in Seq(L!ReqFrames) /\ toBadge \in Seq(L!AnsFrames) /\ Len(toHost) \in Nat
      /\ \A i \in 1 .. Len(toHost) : toHost[i] \in H
  BY StreamTypes DEF H, In
<1>2. PICK w : w = toHost[1]
  OBVIOUS
<1>3. /\ n \in Nat /\ n + 1 \in 0 .. Len(toHost) /\ 1 \in 1 .. Len(toHost)
      /\ w.ty = "WriteReq" /\ w \in L!ReqFrames
      /\ \A i \in 1 .. n : toHost[i + 1].ty = "ReadReq" /\ i + 1 \in 1 .. Len(toHost)
      /\ toHost' = SubSeq(toHost, n + 1 + 1, Len(toHost))
      /\ UNCHANGED <<ask, ex, result, held, pc>>
  BY <1>2, ServeWriteForm
<1>4. PICK new \in Seq(L!AnsFrames) :
         /\ Len(new) = n + 1 /\ toBadge' = toBadge \o new
         /\ \A i \in 1 .. n : new[i] \in L!ReadAnswers(toHost[i + 1])
         /\ \/ /\ new[n + 1] = L!Frame("WriteAck", w.page, NoVal, w.ex)
               /\ store' = [store EXCEPT ![w.page] = w.data]
            \/ /\ new[n + 1] = L!Frame("Err", w.page, NoVal, w.ex)
               /\ w.page \in Refusable
               /\ store' = store
  BY <1>2, ServeWriteForm
<1>5. w \in H /\ w.page \in P /\ store \in [P -> Bytes]
  BY <1>1, <1>2, <1>3 DEF Before, FramesTyped
<1>6. Applies
  BY <1>3, <1>4, <1>5 DEF Applies
<1>7. Answers(new[n + 1], w) /\ new[n + 1].ex = w.ex
      /\ (Refusable = {} => new[n + 1].ty = "WriteAck")
  <2>1. CASE /\ new[n + 1] = L!Frame("WriteAck", w.page, NoVal, w.ex)
             /\ store' = [store EXCEPT ![w.page] = w.data]
    <3>1. store'[w.page] = w.data
      BY <1>5, <2>1
    <3> QED
      BY <1>3, <2>1, <3>1 DEF L!Frame, Answers
  <2>2. CASE new[n + 1] = L!Frame("Err", w.page, NoVal, w.ex) /\ w.page \in Refusable
    BY <2>2 DEF L!Frame, Answers
  <2> QED
    BY <1>4, <2>1, <2>2
<1>8. \A i \in 1 .. n : /\ Answers(new[i], toHost[i + 1]) /\ new[i].ex = toHost[i + 1].ex
                        /\ (Refusable = {} => new[i].ty = "ReadResp")
  BY <1>3, <1>4, ReadAnswered
<1>9. \A k \in 1 .. n + 1 : k \in 1 .. n \/ k = n + 1
  BY <1>3
<1>10. \A r \in In(new) : \E f \in H : Answers(r, f)
  <2> SUFFICES ASSUME NEW k \in 1 .. n + 1 PROVE \E f \in H : Answers(new[k], f)
    BY <1>4 DEF In
  <2>1. CASE k \in 1 .. n
    BY <1>1, <1>3, <1>8, <2>1
  <2>2. CASE k = n + 1
    BY <1>5, <1>7, <2>2
  <2> QED
    BY <1>9, <2>1, <2>2
<1>11. \A i, j \in 1 .. Len(toHost) : i <= j => toHost[i].ex <= toHost[j].ex
  BY DEF L!Inv, L!Ordered, L!RequestsInOrder, L!InOrder
<1>12. H' \subseteq H /\ \A g \in H' : \E j \in n + 1 + 1 .. Len(toHost) : g = toHost[j]
  <2>1. PICK m \in 0 .. Len(toHost) : m = n + 1
    BY <1>3
  <2>2. toHost' = Rest(toHost, m)
    BY <1>3, <2>1 DEF Rest
  <2>3. /\ In(Rest(toHost, m)) \subseteq In(toHost)
        /\ \A g \in In(Rest(toHost, m)) : \E j \in m + 1 .. Len(toHost) : g = toHost[j]
    BY <1>1, InRest
  <2> QED
    BY <2>1, <2>2, <2>3 DEF H
<1>13. \A r \in In(new), f \in H' : r.ex <= f.ex
  <2> SUFFICES ASSUME NEW k \in 1 .. n + 1, NEW f \in H' PROVE new[k].ex <= f.ex
    BY <1>4 DEF In
  <2>1. PICK j \in n + 1 + 1 .. Len(toHost) : f = toHost[j]
    BY <1>12
  <2>2. j \in 1 .. Len(toHost) /\ 1 <= j /\ \A i \in 1 .. n : i + 1 <= j
    BY <1>1, <1>3
  <2>3. CASE k \in 1 .. n
    BY <1>3, <1>8, <1>11, <2>1, <2>2, <2>3
  <2>4. CASE k = n + 1
    BY <1>2, <1>3, <1>7, <1>11, <2>1, <2>2, <2>4
  <2> QED
    BY <1>9, <2>3, <2>4
<1>14. ASSUME NEW a, NEW g, Follows(new, a, g)
       PROVE  /\ a \in In(new) /\ g \in In(new)
              /\ a.ex <= g.ex \/ (Batched /\ a.ty = "ReadResp" /\ g.ty = "WriteAck")
  <2>1. PICK i, j \in 1 .. n + 1 : i < j /\ new[i] = a /\ new[j] = g
    BY <1>4, <1>14 DEF Follows
  <2>2. i \in 1 .. n /\ i + 1 <= j + 1
    BY <1>3, <2>1
  <2>3. CASE j \in 1 .. n
    <3>1. toHost[i + 1].ex <= toHost[j + 1].ex
      BY <1>3, <1>11, <2>2, <2>3
    <3> QED
      BY <1>4, <1>8, <2>1, <2>2, <2>3, <3>1 DEF In
  <2>4. CASE j = n + 1
    <3>1. Batched
      BY <1>3, <2>2, TetherAssumption DEF Batched
    <3>2. Refusable = {}
      BY <3>1 DEF Before, Regular, Batched
    <3> QED
      BY <1>4, <1>7, <1>8, <2>1, <2>2, <2>4, <3>1, <3>2 DEF In
  <2> QED
    BY <1>9, <2>3, <2>4
<1>15. /\ B' = B \cup In(new)
       /\ \A a, g : Follows(toBadge', a, g) => \/ Follows(toBadge, a, g) \/ Follows(new, a, g)
                                               \/ a \in B /\ g \in In(new)
  <2>1. PICK u : u = toBadge \o new
    OBVIOUS
  <2>2. /\ In(u) = In(toBadge) \cup In(new)
        /\ \A a, g : Follows(u, a, g) => \/ Follows(toBadge, a, g) \/ Follows(new, a, g)
                                         \/ a \in In(toBadge) /\ g \in In(new)
    BY <1>1, <1>4, <2>1, InConcat
  <2>3. toBadge' = u
    BY <1>4, <2>1
  <2> QED
    BY <2>2, <2>3 DEF B
<1>16. Joined'
  <2>1. PICK N : N = In(new)
    OBVIOUS
  <2>2. \A a, g : Follows(toBadge', a, g) =>
                     \/ Follows(toBadge, a, g)
                     \/ a \in B /\ g \in N
                     \/ /\ a \in N /\ g \in N
                        /\ a.ex <= g.ex \/ (Batched /\ a.ty = "ReadResp" /\ g.ty = "WriteAck")
    BY <1>14, <1>15, <2>1
  <2> QED
    BY <1>3, <1>6, <1>10, <1>12, <1>13, <1>15, <2>1, <2>2, Served
<1> QED
  BY <1>6, <1>16

-------------------------------------------------------------------------------
(* What a step of the cache does to the index. *)

\* An access begins, hits or misses: no page comes or goes, and no frame gets clean.
LEMMA GuestKeeps ==
  ASSUME C!IInv, (\E a : C!BeginAccess(a)) \/ C!Hit \/ C!Miss
  PROVE  /\ slot_of' = slot_of /\ cpc \in {"idle", "loop"} /\ cpc' \in {"idle", "loop", "read"}
         /\ \A p \in P : Resident(p) /\ frames[slot_of[p]].dirty => frames'[slot_of[p]].dirty
<1>1. ASSUME NEW a, C!BeginAccess(a)
      PROVE  /\ UNCHANGED <<frames, slot_of>> /\ cpc = "idle" /\ cpc' \in {"idle", "loop"}
  BY <1>1 DEF C!BeginAccess, C!cacheVars
<1>2. CASE C!Miss
  BY <1>2 DEF C!Miss
<1>3. CASE C!Hit
  <2>1. cpc = "loop" /\ slot_of' = slot_of
    BY <1>3 DEF C!Hit
  <2>2. cpc' \in {"idle", "loop"}
    BY <1>3 DEF C!Hit, C!Advance, C!Return
  <2>3. PICK i : i = slot_of[req.page]
    OBVIOUS
  <2>4. PICK f : f = [frames[i] EXCEPT !.referenced = TRUE]
    OBVIOUS
  <2>5. frames' = [frames EXCEPT ![i] = C!Touched(f)]
    BY <1>3, <2>3, <2>4 DEF C!Hit
  <2>6. i \in 1 .. Len(frames) /\ frames \in Seq(C!Frame)
    <3>1. req.page \in C!Pages /\ slot_of[req.page] # C!NOT_RESIDENT
      BY <1>3 DEF C!Hit, C!resident_slot
    <3> QED
      BY <2>3, <3>1 DEF C!IInv, C!IndexMatchesFrames, C!TypeOK
  <2>7. frames[i] \in C!Frame
    BY <2>6, ElementOfSeq
  <2>8. frames[i].dirty => C!Touched(f).dirty
    BY <2>4, <2>7 DEF C!Touched, C!Frame
  <2>9. DOMAIN frames = 1 .. Len(frames)
    BY <2>6
  <2>10. \A j \in 1 .. Len(frames) : frames[j].dirty => frames'[j].dirty
    BY <2>5, <2>8, <2>9
  <2>11. \A p \in P : Resident(p) => slot_of[p] \in 1 .. Len(frames)
    BY DEF C!IInv, C!IndexMatchesFrames, C!Pages, C!Flat!Pages, P, Resident, C!NOT_RESIDENT
  <2> QED
    BY <2>1, <2>2, <2>10, <2>11
<1> QED
  BY <1>1, <1>2, <1>3

\* The index after frame i has given up its page to the page fetched.
LEMMA Replaced ==
  ASSUME C!IInv, NEW fs, NEW i \in 1 .. Len(frames), fs[i].page = frames[i].page,
         DOMAIN fs = 1 .. Len(frames), NEW data, C!Replace(fs, i, data),
         req.page \in P, ~Resident(req.page)
  PROVE  /\ cpc' \in {"idle", "loop"}
         /\ slot_of'[req.page] = i /\ i # 0
         /\ slot_of'[frames[i].page] = 0
         /\ \A p \in P : p # req.page /\ p # frames[i].page => slot_of'[p] = slot_of[p]
         /\ \A j \in 1 .. Len(frames) : j # i => frames'[j] = fs[j]
<1>1. cpc' \in {"idle", "loop"}
  BY DEF C!Replace, C!Advance, C!Return
<1>2. /\ slot_of' = [slot_of EXCEPT ![frames[i].page] = 0, ![req.page] = i]
      /\ frames' = [fs EXCEPT ![i] = C!Touched(C!FreshFrame(data))]
  BY DEF C!Replace, C!NOT_RESIDENT
<1>3. /\ slot_of \in [P -> 0 .. Capacity] /\ frames[i].page \in P
      /\ slot_of[frames[i].page] = i /\ i # 0
  <2>1. frames[i].page \in C!Pages
    BY C!FramesTyped, PartsAssumption DEF C!IInv
  <2> QED
    BY <2>1 DEF C!IInv, C!TypeOK, C!IndexMatchesFrames, C!Pages, C!Flat!Pages, P
<1>4. frames[i].page # req.page
  BY <1>3 DEF Resident
<1> QED
  BY <1>1, <1>2, <1>3, <1>4

\* The page read is resident, or waits for a victim to be written.
LEMMA ReadKeeps ==
  ASSUME C!IInv, CallKnows, cpc = "read", NEW data, C!ReadReturns(data)
  PROVE  \/ cpc' \in {"idle", "loop"} /\ slot_of'[req.page] # 0
         \/ cpc' = "write" /\ UNCHANGED <<slot_of, req>>
         \/ cpc' = "panicked"
<1>0. req.page \in P /\ ~Resident(req.page)
  BY DEF CallKnows
<1>1. CASE C!FillVacant(data)
  <2>1. slot_of \in [P -> 0 .. Capacity] /\ Len(frames) \in Nat
    BY LenProperties DEF C!IInv, C!TypeOK, C!Pages, C!Flat!Pages, P
  <2>2. slot_of' = [slot_of EXCEPT ![req.page] = Len(frames) + 1]
    BY <1>1 DEF C!FillVacant
  <2>3. slot_of'[req.page] = Len(frames) + 1 /\ Len(frames) + 1 # 0
    BY <1>0, <2>1, <2>2
  <2>4. cpc' \in {"idle", "loop"}
    BY <1>1 DEF C!FillVacant, C!Advance, C!Return
  <2> QED
    BY <2>3, <2>4
<1>2. CASE C!EvictClean(data)
  <2>1. PICK i : i = C!select_victim
    OBVIOUS
  <2>2. PICK fs : fs = C!AgedFrames
    OBVIOUS
  <2>3. C!Replace(fs, i, data) /\ Len(frames) = Capacity /\ C!Unpinned # {}
    BY <1>2, <2>1, <2>2 DEF C!EvictClean
  <2>4. i \in 1 .. Len(frames)
    BY <2>1, <2>3, C!VictimOK, PartsAssumption DEF C!IInv
  <2>5. fs[i].page = frames[i].page
    BY <2>2, <2>4, C!AgedOK, PartsAssumption DEF C!IInv
  <2>6. DOMAIN fs = 1 .. Len(frames)
    BY <2>2 DEF C!AgedFrames
  <2> QED
    BY <1>0, <2>3, <2>4, <2>5, <2>6, Replaced
<1>3. CASE C!WriteVictim(data)
  BY <1>3 DEF C!WriteVictim
<1>4. CASE C!PanicAllPinned
  BY <1>4 DEF C!PanicAllPinned
<1> QED
  BY <1>1, <1>2, <1>3, <1>4 DEF C!ReadReturns

\* The victim written is no longer resident.
LEMMA WriteKeeps ==
  ASSUME C!IInv, CallKnows, cpc = "write", C!WriteReturns
  PROVE  cpc' \in {"idle", "loop"} /\ slot_of'[frames[victim].page] = 0
<1>1. victim \in 1 .. Len(frames) /\ DOMAIN frames = 1 .. Len(frames)
  BY DEF C!IInv, C!FetchedStaysCurrent, C!TypeOK
<1>2. C!Replace(frames, victim, fetched)
  BY DEF C!WriteReturns
<1> QED
  BY <1>1, <1>2, Replaced DEF CallKnows

\* When an eviction is declined the dirty frames stay and the page fetched comes in.
LEMMA DeclineKeeps ==
  ASSUME C!IInv, CallKnows, cpc = "write", C!DeclineVictim
  PROVE  /\ cpc' \in {"idle", "loop"} /\ slot_of'[req.page] # 0
         /\ \A p \in P : p # req.page =>
              /\ Resident(p) /\ frames[slot_of[p]].dirty =>
                   slot_of'[p] # 0 /\ frames'[slot_of'[p]].dirty
              /\ ~Resident(p) => slot_of'[p] = 0
<1>1. PICK i : i = C!select_clean_victim
  OBVIOUS
<1>2. C!Replace(frames, i, fetched) /\ C!CleanUnpinned # {}
  BY <1>1 DEF C!DeclineVictim
<1>3. Len(frames) = Capacity /\ DOMAIN frames = 1 .. Len(frames)
  BY DEF C!IInv, C!FetchedStaysCurrent, C!TypeOK
<1>4. i \in 1 .. Len(frames) /\ ~frames[i].dirty
  BY <1>1, <1>2, <1>3, C!CleanVictimOK, PartsAssumption DEF C!IInv
<1>5. /\ cpc' \in {"idle", "loop"}
      /\ slot_of'[req.page] = i /\ i # 0
      /\ slot_of'[frames[i].page] = 0
      /\ \A p \in P : p # req.page /\ p # frames[i].page => slot_of'[p] = slot_of[p]
      /\ \A j \in 1 .. Len(frames) : j # i => frames'[j] = frames[j]
  BY <1>2, <1>3, <1>4, Replaced DEF CallKnows
<1>6. /\ slot_of[frames[i].page] = i
      /\ \A p \in P : Resident(p) => slot_of[p] \in 1 .. Len(frames) /\ frames[slot_of[p]].page = p
  BY <1>4 DEF C!IInv, C!IndexMatchesFrames, C!Pages, C!Flat!Pages, P, Resident, C!NOT_RESIDENT
<1> QED
  BY <1>4, <1>5, <1>6 DEF Resident

\* A write of the host that is harmless keeps the cache's invariant and the guest's view.
LEMMA AppliedUnseen ==
  ASSUME C!IInv, FramesTyped, WritesAreHarmless, Applies, UNCHANGED cacheVars
  PROVE  C!IInv' /\ C!GuestView' = C!GuestView
<1>1. /\ store' \in [P -> Bytes]
      /\ \A p \in P : ~Resident(p) => store'[p] = store[p]
      /\ \A p \in P : Resident(p) /\ ~frames[slot_of[p]].dirty => store'[p] = store[p]
  BY AppliedHarmlessly
<1>2. UNCHANGED <<frames, slot_of, hand, cpc, req, victim, fetched>>
  BY DEF cacheVars
<1>3. C!TypeOK'
  BY <1>1, <1>2 DEF C!IInv, C!TypeOK, C!Pages, C!Data, C!Flat!Pages, C!Flat!Data, C!Flat!Offs,
     P, Bytes
<1>4. C!IndexMatchesFrames'
  BY <1>2 DEF C!IInv, C!IndexMatchesFrames
<1>5. C!CleanIsStored'
  <2>1. \A i \in 1 .. Len(frames) : /\ frames[i].page \in P /\ slot_of[frames[i].page] = i
                                    /\ Resident(frames[i].page)
    BY C!FramesTyped, PartsAssumption DEF C!IInv, C!IndexMatchesFrames, C!Pages, C!Flat!Pages,
       P, Resident
  <2> QED
    BY <1>1, <1>2, <2>1 DEF C!IInv, C!CleanIsStored
<1>6. C!FetchedStaysCurrent'
  BY <1>1, <1>2 DEF C!IInv, C!FetchedStaysCurrent, C!Pages, C!Flat!Pages, P, C!NOT_RESIDENT,
     Resident
<1>7. C!CallConsistent'
  BY <1>2 DEF C!IInv, C!CallConsistent, C!DirtyFrames
<1>8. C!GuestView' = C!GuestView
  BY <1>1, <1>2, C!SameView, PartsAssumption DEF C!Pages, C!Flat!Pages, P, C!NOT_RESIDENT, Resident
<1> QED
  BY <1>3, <1>4, <1>5, <1>6, <1>7, <1>8 DEF C!IInv

-------------------------------------------------------------------------------
(* The composition. *)

\* What the failure counter and the result of an exchange can be.
Outcome == /\ failed \in Nat
           /\ pc # "idle" => result.res = "none"
           /\ Refusable = {} => result.res # "OutOfRange"

TetherInv == C!IInv /\ L!Inv /\ Joined /\ Outcome

LinkStep == \/ L!BadgeStep \/ L!Pump \/ L!ServiceFails \/ L!Expire
            \/ L!LoseRequest \/ L!LoseAnswer

\* A step of the badge or of the stream writes nothing and counts at most one failure.
LEMMA LinkStepKeeps ==
  ASSUME LinkStep, Outcome, L!Inv, L!Inv', NoRefusals
  PROVE  store' = store /\ Outcome'
<1> USE DEF L!hostVars, L!badgeVars, L!auxVars
<1>1. ASSUME NEW kind, L!GiveUp(kind)
      PROVE  store' = store /\ failed' = failed + 1 /\ pc' = "idle" /\ result'.res = "Medium"
  BY <1>1 DEF L!GiveUp, L!Returns
<1>2. CASE \/ L!AttemptTooLate \/ L!ArmFails \/ L!SendTooLate \/ L!WaitTooLate
           \/ L!OutOfAttempts \/ L!RecvFails \/ L!SendFails
  <2>1. PICK kind : L!GiveUp(kind)
    BY <1>2 DEF L!AttemptTooLate, L!ArmFails, L!SendTooLate, L!WaitTooLate, L!OutOfAttempts,
       L!RecvFails, L!SendFails
  <2> QED
    BY <1>1, <2>1 DEF Outcome
<1>3. CASE \/ L!Attempt \/ L!Arm \/ L!Send \/ L!DropOtherPage \/ L!DropOtherErr \/ L!Retry \/ L!Recv
  <2>1. store' = store /\ failed' = failed /\ result' = result /\ pc # "idle"
    BY <1>3 DEF L!Attempt, L!Arm, L!Send, L!DropOtherPage, L!DropOtherErr, L!Retry, L!Recv,
       L!NothingToTake
  <2> QED
    BY <2>1 DEF Outcome
<1>4. CASE L!Pump \/ L!ServiceFails \/ L!Expire \/ L!LoseRequest \/ L!LoseAnswer
  <2>1. store' = store /\ failed' = failed /\ result' = result /\ pc' = pc
    BY <1>4 DEF L!Pump, L!ServiceFails, L!Expire, L!LoseRequest, L!LoseAnswer
  <2> QED
    BY <2>1 DEF Outcome
<1>5. CASE L!Accept
  <2>1. store' = store /\ failed' = failed /\ result'.res = "ok" /\ pc' = "idle"
    BY <1>5 DEF L!Accept, L!Returns
  <2> QED
    BY <2>1 DEF Outcome
<1>6. CASE L!Refused
  <2>1. L!HeldOf("Err") # {} /\ L!Take("Err")
    BY <1>6 DEF L!Refused
  <2>2. PICK f : f = held[L!FirstOf("Err")]
    OBVIOUS
  <2>3. f \in D /\ f.ty = "Err"
    BY <2>1, <2>2, Takes
  <2>4. Refusable # {}
    BY <2>3 DEF NoRefusals
  <2>5. store' = store /\ failed' = failed /\ pc' = "idle"
    BY <1>6 DEF L!Refused, L!Returns
  <2> QED
    BY <2>4, <2>5 DEF Outcome
<1> QED
  BY <1>2, <1>3, <1>4, <1>5, <1>6 DEF LinkStep, L!BadgeStep

\* A step of the host leaves the badge alone, and applies at most one request.
LEMMA HostStepJoined ==
  ASSUME Before, L!Inv, L!Inv', SameCall, L!HostStep
  PROVE  Joined' /\ Applies /\ UNCHANGED <<failed, pc, result>>
<1> USE DEF L!hostVars, L!badgeVars, L!auxVars
<1>1. CASE L!ServeRead
  <2>1. store' = store /\ UNCHANGED <<failed, pc, result>>
    BY <1>1 DEF L!ServeRead
  <2> QED
    BY <1>1, <2>1, ServeReadJoined DEF Applies
<1>2. ASSUME NEW n \in 0 .. MaxBatch, L!ServeWrite(n)
      PROVE  Joined' /\ Applies /\ UNCHANGED <<failed, pc, result>>
  <2>1. UNCHANGED <<failed, pc, result>>
    BY <1>2 DEF L!ServeWrite
  <2> QED
    BY <1>2, <2>1, ServeWriteJoined
<1>3. CASE L!PassPart
  <2>1. store' = store /\ UNCHANGED <<failed, pc, result>>
    BY <1>3 DEF L!PassPart
  <2> QED
    BY <1>3, <2>1, Thins DEF Applies
<1> QED
  BY <1>1, <1>2, <1>3 DEF L!HostStep

\* A step of the link while the cache waits or rests.
LEMMA LinkStepOK ==
  ASSUME Regular, TetherInv, LinkStep \/ L!HostStep, SameCall
  PROVE  TetherInv' /\ [C!Flat!Next]_(C!Flat!vars)
<1>1. L!Inv'
  <2>1. [L!Next]_(L!vars)
    BY DEF LinkStep, L!Next
  <2> QED
    BY <2>1, L!NextInv, PartsAssumption DEF TetherInv
<1>2. FramesTyped /\ CallKnows
  BY PartsKnow DEF TetherInv
<1>3. UNCHANGED <<frames, slot_of, hand, cpc, req, victim, fetched, ret>>
  BY DEF SameCall, cacheVars
<1>4. CASE LinkStep
  <2>1. store' = store /\ Outcome'
    BY <1>1, <1>4, LinkStepKeeps DEF TetherInv, Joined
  <2>2. UNCHANGED C!vars
    BY <1>3, <2>1 DEF C!vars, C!cacheVars, C!callVars
  <2>3. C!IInv' /\ [C!Flat!Next]_(C!Flat!vars)
    BY <2>2, C!NextOK, C!NextSeen, PartsAssumption DEF TetherInv
  <2>4. FramesTyped'
    BY <1>1, <2>3, PartsKnowNext
  <2>5. Before
    BY <1>2, <2>4 DEF Before, TetherInv
  <2>6. Joined'
    BY <1>1, <1>4, <2>5, BadgeJoined, Thins DEF TetherInv, Outcome, LinkStep
  <2> QED
    BY <1>1, <2>1, <2>3, <2>6 DEF TetherInv
<1>5. CASE L!HostStep
  <2>1. Applies
    <3>1. CASE L!ServeRead \/ L!PassPart
      BY <3>1 DEF L!ServeRead, L!PassPart, L!hostVars, Applies
    <3>2. ASSUME NEW n \in 0 .. MaxBatch, L!ServeWrite(n) PROVE Applies
      <4>1. toHost[1] \in H
        BY <3>2, ServeWriteForm DEF H, In, TetherInv
      <4> QED
        BY <3>2, <4>1, ServeWriteForm DEF Applies, TetherInv
    <3> QED
      BY <1>5, <3>1, <3>2 DEF L!HostStep
  <2>2. C!IInv' /\ C!GuestView' = C!GuestView
    BY <1>2, <2>1, AppliedUnseen DEF TetherInv, Joined, SameCall
  <2>3. [C!Flat!Next]_(C!Flat!vars)
    BY <1>3, <2>2 DEF C!Flat!vars
  <2>4. FramesTyped'
    BY <1>1, <2>2, PartsKnowNext
  <2>5. Before
    BY <1>2, <2>4 DEF Before, TetherInv
  <2>6. Joined' /\ UNCHANGED <<failed, pc, result>>
    BY <1>1, <1>5, <2>5, HostStepJoined DEF TetherInv
  <2> QED
    BY <1>1, <2>2, <2>3, <2>6 DEF TetherInv, Outcome
<1> QED
  BY <1>4, <1>5

\* A step of the cache, over a store that keeps still.
LEMMA CacheStepParts ==
  ASSUME Regular, TetherInv, [C!Next]_(C!vars), [L!Next]_(L!vars)
  PROVE  C!IInv' /\ L!Inv' /\ Before /\ [C!Flat!Next]_(C!Flat!vars)
<1>1. C!IInv' /\ [C!Flat!Next]_(C!Flat!vars)
  BY C!NextOK, C!NextSeen, PartsAssumption DEF TetherInv
<1>2. L!Inv'
  BY L!NextInv, PartsAssumption DEF TetherInv
<1> QED
  BY <1>1, <1>2, PartsKnow, PartsKnowNext DEF Before, TetherInv

\* A memory access of the guest.
LEMMA GuestOK ==
  ASSUME Regular, TetherInv, Guest
  PROVE  TetherInv' /\ [C!Flat!Next]_(C!Flat!vars)
<1>1. /\ ending = Running /\ UNCHANGED <<wireVars, called, ending>>
      /\ \/ \E a \in C!Flat!Requests : C!BeginAccess(a)
         \/ C!Hit
         \/ C!Miss
  BY SameCache DEF Guest
<1>2. SameLink /\ UNCHANGED <<store, failed>> /\ UNCHANGED L!vars
  BY <1>1 DEF wireVars, SameLink, L!vars, L!hostVars, L!badgeVars, L!auxVars
<1>3. C!Next
  BY <1>1, <1>2 DEF C!Next, C!Keeps
<1>4. C!IInv' /\ L!Inv' /\ Before /\ [C!Flat!Next]_(C!Flat!vars)
  BY <1>2, <1>3, CacheStepParts
<1>5. /\ slot_of' = slot_of /\ cpc \in {"idle", "loop"} /\ cpc' \in {"idle", "loop", "read"}
      /\ \A p \in P : Resident(p) /\ frames[slot_of[p]].dirty => frames'[slot_of[p]].dirty
  BY <1>1, GuestKeeps DEF TetherInv
<1>6. ~called /\ Going
  BY <1>1, <1>5 DEF TetherInv, Joined, CallIsAsked, Going
<1>7. Joined'
  BY <1>1, <1>2, <1>4, <1>5, <1>6, GuestJoined
<1> QED
  BY <1>2, <1>4, <1>7 DEF TetherInv, Outcome, SameLink

\* The cache calls read_page or write_page.
LEMMA CallOK ==
  ASSUME Regular, TetherInv, Call
  PROVE  TetherInv' /\ [C!Flat!Next]_(C!Flat!vars)
<1> DEFINE data == IF cpc = "read" THEN NoVal ELSE frames[victim].data
<1>1. PICK a : a = [op |-> cpc, page |-> CallPage, data |-> data]
  OBVIOUS
<1>2. /\ cpc \in {"read", "write"} /\ ~called /\ called' /\ L!BeginExchange(a)
      /\ UNCHANGED <<cacheVars, ending>>
  BY <1>1, SameWire DEF Call
<1>3. a \in L!Asks
  <2>1. CallKnows
    BY PartsKnow DEF TetherInv
  <2>2. CallPage \in 0 .. RamPages - 1 /\ (cpc = "write" => data \in [0 .. PAGE - 1 -> Byte])
    BY <1>2, <2>1 DEF CallKnows, CallPage, P, Bytes
  <2>3. cpc = "read" => data = NoVal
    OBVIOUS
  <2> HIDE DEF data
  <2> QED
    BY <1>1, <1>2, <2>2, <2>3 DEF L!Asks
<1>4. /\ pc = "idle" /\ pc' = "attempt" /\ ex' = ex + 1 /\ ask' = a /\ result' = [res |-> "none"]
      /\ UNCHANGED <<toHost, toBadge, held, store, failed>>
  BY <1>2 DEF L!BeginExchange, L!hostVars
<1>5. UNCHANGED C!vars
  BY <1>2, <1>4 DEF cacheVars, C!vars, C!cacheVars, C!callVars
<1>6. L!Next
  BY <1>2, <1>3 DEF L!Next
<1>7. C!IInv' /\ L!Inv' /\ Before /\ [C!Flat!Next]_(C!Flat!vars)
  BY <1>5, <1>6, CacheStepParts
<1>8. a.op = cpc /\ a.page = CallPage /\ (cpc = "write" => a.data = frames[victim].data)
  BY <1>1
<1>9. Joined'
  BY <1>2, <1>4, <1>7, <1>8, Called
<1>10. Outcome'
  BY <1>4 DEF Outcome, TetherInv
<1> QED
  BY <1>7, <1>9, <1>10 DEF TetherInv

\* A successful write_page has left the image as it is: the write was applied before.
LEMMA CallSucceedsOK ==
  ASSUME Regular, TetherInv, CallSucceeds
  PROVE  TetherInv' /\ [C!Flat!Next]_(C!Flat!vars)
<1>1. /\ called /\ ~called' /\ pc = "idle" /\ result.res = "ok" /\ ending' = ending
      /\ (cpc = "read" /\ C!ReadReturns(result.data)) \/ C!WriteReturns
  BY SameCache DEF CallSucceeds, Answered
<1>2. SameLink /\ UNCHANGED <<store, failed>> /\ UNCHANGED L!vars
  BY DEF CallSucceeds, wireVars, SameLink, L!vars, L!hostVars, L!badgeVars, L!auxVars
<1>3. FramesTyped /\ CallKnows
  BY PartsKnow DEF TetherInv
<1>4. /\ ask.op = cpc /\ ask.page = CallPage
      /\ ask.op = "read" => result.data = store[ask.page]
      /\ ask.op = "write" => store[ask.page] = ask.data /\ ask.data = frames[victim].data
  BY <1>1 DEF TetherInv, Joined, CallIsAsked, ResultFresh
<1>5. CASE cpc = "read" /\ C!ReadReturns(result.data)
  <2>1. result.data = store[req.page]
    BY <1>4, <1>5 DEF CallPage
  <2>2. C!Next
    BY <1>2, <1>5, <2>1 DEF C!Next, C!Keeps
  <2>3. C!IInv' /\ L!Inv' /\ Before /\ [C!Flat!Next]_(C!Flat!vars)
    BY <1>2, <2>2, CacheStepParts
  <2>4. \/ cpc' \in {"idle", "loop"} /\ slot_of'[req.page] # 0
        \/ cpc' = "write" /\ UNCHANGED <<slot_of, req>>
        \/ cpc' = "panicked"
    BY <1>3, <1>5, ReadKeeps DEF TetherInv
  <2>5. Joined'
    BY <1>1, <1>2, <1>5, <2>3, <2>4, ReadJoined
  <2> QED
    BY <1>2, <2>3, <2>5 DEF TetherInv, Outcome, SameLink
<1>6. CASE C!WriteReturns
  <2>1. cpc = "write"
    BY <1>6 DEF C!WriteReturns
  <2>2. C!StoresWritten
    <3>1. store \in [P -> Bytes] /\ frames[victim].page \in P
          /\ store[frames[victim].page] = frames[victim].data
      BY <1>3, <1>4, <2>1 DEF FramesTyped, CallKnows, CallPage
    <3>2. store = [store EXCEPT ![frames[victim].page] = frames[victim].data]
      BY <3>1
    <3> QED
      BY <1>2, <2>1, <3>2 DEF C!StoresWritten, C!Stores, C!Written
  <2>3. C!Next
    BY <1>6, <2>2 DEF C!Next
  <2>4. C!IInv' /\ L!Inv' /\ Before /\ [C!Flat!Next]_(C!Flat!vars)
    BY <1>2, <2>3, CacheStepParts
  <2>5. cpc' \in {"idle", "loop"} /\ slot_of'[frames[victim].page] = 0
    BY <1>3, <1>6, <2>1, WriteKeeps DEF TetherInv
  <2>6. Joined'
    BY <1>1, <1>2, <2>1, <2>4, <2>5, WriteJoined
  <2> QED
    BY <1>2, <2>4, <2>6 DEF TetherInv, Outcome, SameLink
<1> QED
  BY <1>1, <1>5, <1>6

\* A failed write_page that costs a clean frame.
LEMMA CallDeclinedOK ==
  ASSUME Regular, TetherInv, CallDeclined
  PROVE  TetherInv' /\ [C!Flat!Next]_(C!Flat!vars)
<1>1. /\ called /\ ~called' /\ pc = "idle" /\ result.res # "ok" /\ ending' = ending
      /\ C!DeclineVictim
  BY SameCache DEF CallDeclined, Answered
<1>2. SameLink /\ UNCHANGED <<store, failed>> /\ UNCHANGED L!vars
  BY DEF CallDeclined, wireVars, SameLink, L!vars, L!hostVars, L!badgeVars, L!auxVars
<1>3. cpc = "write"
  BY <1>1 DEF C!DeclineVictim
<1>4. C!Next
  BY <1>1, <1>2 DEF C!Next, C!Keeps, C!WriteFails
<1>5. C!IInv' /\ L!Inv' /\ Before /\ [C!Flat!Next]_(C!Flat!vars)
  BY <1>2, <1>4, CacheStepParts
<1>6. Joined'
  BY <1>1, <1>2, <1>3, <1>5, DeclineKeeps, DeclineJoined DEF Before, TetherInv
<1> QED
  BY <1>2, <1>5, <1>6 DEF TetherInv, Outcome, SameLink

\* A failed backing call that ends the run.
LEMMA CallFailsOK ==
  ASSUME Regular, TetherInv, CallFails
  PROVE  TetherInv' /\ [C!Flat!Next]_(C!Flat!vars)
<1>1. /\ called /\ ~called' /\ pc = "idle" /\ result.res # "ok" /\ fault' = L!NoFault
      /\ C!ReadFails \/ C!NoCleanVictim
  BY SameCache, SameWire DEF CallFails, Answered
<1>2. UNCHANGED <<toHost, toBadge, store, applied, held, pc, ask, attempts,
                  mismatched, expired, ex, failed, drained, result>>
  BY DEF CallFails
<1>3. L!ServiceFails \/ UNCHANGED L!vars
  BY <1>1, <1>2 DEF L!ServiceFails, L!vars, L!hostVars, L!badgeVars, L!auxVars
<1>4. C!Next
  BY <1>1, <1>2 DEF C!Next, C!Keeps, C!WriteFails
<1>5. C!IInv' /\ L!Inv' /\ Before /\ [C!Flat!Next]_(C!Flat!vars)
  BY <1>3, <1>4, CacheStepParts DEF L!Next
<1>6. cpc' = "idle" /\ UNCHANGED <<frames, slot_of>>
  BY <1>1 DEF C!ReadFails, C!NoCleanVictim, C!Return, C!cacheVars
<1>7. ending' # Running
  <2>1. ending'.kind = "Backing" /\ Running.kind = "running"
    BY DEF CallFails, Running
  <2> QED
    BY <2>1
<1>8. Joined'
  BY <1>1, <1>2, <1>5, <1>6, <1>7, FailJoined DEF SameLink
<1> QED
  BY <1>2, <1>5, <1>8 DEF TetherInv, Outcome

\* A badge that has just been tethered.
LEMMA TetherInit == Init => TetherInv /\ Cache!Flat!Init
<1> SUFFICES ASSUME Init PROVE TetherInv /\ Cache!Flat!Init
  OBVIOUS
<1>1. C!Init /\ L!Init /\ called = FALSE /\ ending = Running
  BY SameCache, SameWire DEF Init
<1>2. C!IInv /\ C!Flat!Init
  BY <1>1, C!InitOK, C!InitSeen, PartsAssumption
<1>3. L!Inv
  BY <1>1, L!InitInv, PartsAssumption
<1>4. /\ cpc = "idle" /\ pc = "idle" /\ ex = 0 /\ result = [res |-> "none"] /\ failed = 0
      /\ toHost = <<>> /\ toBadge = <<>> /\ held = <<>>
  BY <1>1 DEF C!Init, L!Init
<1>5. H = {} /\ B = {} /\ D = {}
  BY <1>4, InEmpty DEF H, B, D
<1>6. Joined
  BY <1>1, <1>4, <1>5 DEF Joined, CallIsAsked, Settled, OwnFrames, OwnAnswersFresh, ResultFresh,
     LeftBehind, BehindAnswer, OneExchangeBack, OldAreOfOtherPages, ReadsAreResident,
     ReadsAreFetched, WritesAreHarmless, FetchedNotWritten, LateAreEvicted, WrittenAreEvicted,
     NoRefusals, Going
<1>7. Outcome
  BY <1>4 DEF Outcome
<1> QED
  BY <1>2, <1>3, <1>6, <1>7, SameCache DEF TetherInv

\* Every step keeps the invariant, and the guest sees a step of a flat memory or none.
LEMMA TetherNext ==
  Regular /\ TetherInv /\ [Next]_vars => TetherInv' /\ [Cache!Flat!Next]_(Cache!Flat!vars)
<1> SUFFICES ASSUME Regular, TetherInv, [Next]_vars
             PROVE  TetherInv' /\ [C!Flat!Next]_(C!Flat!vars)
  BY SameCache
<1>1. CASE Guest
  BY <1>1, GuestOK
<1>2. CASE Call
  BY <1>2, CallOK
<1>3. CASE CallSucceeds
  BY <1>3, CallSucceedsOK
<1>4. CASE CallDeclined
  BY <1>4, CallDeclinedOK
<1>5. CASE CallFails
  BY <1>5, CallFailsOK
<1>6. CASE Service \/ Exchange \/ Elsewhere
  <2>1. (LinkStep \/ L!HostStep) /\ SameCall
    BY <1>6, SameWire DEF Service, Exchange, Elsewhere, LinkStep, SameCall
  <2> QED
    BY <2>1, LinkStepOK
<1>7. CASE UNCHANGED vars
  <2>1. /\ UNCHANGED C!vars /\ UNCHANGED L!vars
        /\ UNCHANGED <<cacheVars, wireVars, called, ending>>
    BY <1>7 DEF vars, cacheVars, wireVars, C!vars, C!cacheVars, C!callVars,
       L!vars, L!hostVars, L!badgeVars, L!auxVars
  <2>2. C!IInv' /\ L!Inv' /\ Before /\ [C!Flat!Next]_(C!Flat!vars)
    BY <2>1, CacheStepParts
  <2>3. SameCall /\ UNCHANGED <<ask, ex, result, store, pc, failed>>
        /\ UNCHANGED <<toHost, toBadge, held>>
    BY <2>1 DEF SameCall, wireVars
  <2>4. Joined'
    BY <2>2, <2>3, ThinnedStreams, Thinned DEF TetherInv
  <2> QED
    BY <2>2, <2>3, <2>4 DEF TetherInv, Outcome
<1> QED
  BY <1>1, <1>2, <1>3, <1>4, <1>5, <1>6, <1>7 DEF Next

-------------------------------------------------------------------------------
(* The results. *)

(***************************************************************************)
(* The invariant that joins the cache, the link and the host holds of      *)
(* every state of a regular tether.                                        *)
(***************************************************************************)
THEOREM TetherInvariance ==
  ASSUME Regular
  PROVE  Spec => []TetherInv
BY TetherInit, TetherNext, PTL DEF Spec

(***************************************************************************)
(* AcknowledgedIsStored: when write_page returns success, the image holds  *)
(* the victim's bytes, whatever was lost, sent twice or answered late.     *)
(***************************************************************************)
THEOREM WritesAreStored ==
  ASSUME Regular
  PROVE  Spec => []AcknowledgedIsStored
<1>1. TetherInv => AcknowledgedIsStored
  BY DEF TetherInv, Joined, CallIsAsked, ResultFresh, AcknowledgedIsStored, Answered, CallPage
<1> QED
  BY <1>1, TetherInvariance, PTL

(***************************************************************************)
(* ImplementsFlatMemory: the guest of a tethered badge sees a flat memory, *)
(* although its pages live in a file on the other side of a link that      *)
(* loses frames and repeats requests.                                      *)
(***************************************************************************)
THEOREM TetherIsFlat ==
  ASSUME Regular
  PROVE  Spec => ImplementsFlatMemory
BY TetherInit, TetherNext, PTL DEF Spec, ImplementsFlatMemory, Cache!ImplementsFlatMemory,
   Cache!Flat!Spec

(***************************************************************************)
(* NoStaleAnswer: where the host refuses nothing, the exchange a backing   *)
(* call makes is answered by the reply to itself, although frames carry no *)
(* request id and duplicates of older exchanges are in flight.             *)
(***************************************************************************)
THEOREM AnswersAreOwn ==
  ASSUME Regular, Refusable = {}
  PROVE  Spec => []NoStaleAnswer
<1>1. TetherInv => NoStaleAnswer
  BY DEF TetherInv, Outcome, Joined, LeftBehind, NoStaleAnswer, Wire!NoStaleAnswer
<1> QED
  BY <1>1, TetherInvariance, PTL
===============================================================================
