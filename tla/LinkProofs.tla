------------------------------ MODULE LinkProofs ------------------------------
(***************************************************************************)
(* Proofs about Link.tla, for every set of pages and values, retry budget, *)
(* batch, loss and refusal.                                                *)
(*                                                                         *)
(* Both results rest on the order of the two streams: requests are in the  *)
(* order of their exchanges, and no answer behind a WriteAck, nor a        *)
(* request still on its way, is older than it.  Losing, purging and taking *)
(* frames only thins a stream, and a thinned stream is still in order.     *)
(***************************************************************************)
EXTENDS Link, SequenceTheorems, WellFoundedInduction, TLAPS

-------------------------------------------------------------------------------
(* Thinned sequences. *)

\* t is s without some of its elements.
Thins(t, s) == \E f \in [1 .. Len(t) -> 1 .. Len(s)] :
                 /\ \A i \in 1 .. Len(t) : t[i] = s[f[i]]
                 /\ \A i, j \in 1 .. Len(t) : i < j => f[i] < f[j]

LEMMA ThinsSelf ==
  ASSUME NEW S, NEW s \in Seq(S)
  PROVE  Thins(s, s)
<1> DEFINE f == [i \in 1 .. Len(s) |-> i]
<1>1. f \in [1 .. Len(s) -> 1 .. Len(s)]
  OBVIOUS
<1> QED
  BY <1>1 DEF Thins

LEMMA ThinsEmpty ==
  ASSUME NEW S, NEW s \in Seq(S)
  PROVE  Thins(<<>>, s)
<1> DEFINE f == [i \in 1 .. Len(<<>>) |-> 0]
<1>1. Len(<<>>) = 0
  OBVIOUS
<1>2. 1 .. Len(<<>>) = {}
  BY <1>1
<1>3. f \in [1 .. Len(<<>>) -> 1 .. Len(s)]
  BY <1>2
<1> QED
  BY <1>2, <1>3 DEF Thins

LEMMA ThinsTail ==
  ASSUME NEW S, NEW s \in Seq(S), s # <<>>
  PROVE  Tail(s) \in Seq(S) /\ Thins(Tail(s), s)
<1> DEFINE f == [i \in 1 .. Len(Tail(s)) |-> i + 1]
<1>1. Tail(s) \in Seq(S) /\ Len(Tail(s)) = Len(s) - 1 /\ Len(s) \in Nat
  BY HeadTailProperties, LenProperties
<1>2. f \in [1 .. Len(Tail(s)) -> 1 .. Len(s)]
  BY <1>1
<1>3. \A i \in 1 .. Len(Tail(s)) : Tail(s)[i] = s[f[i]]
  BY HeadTailProperties
<1>4. \A i, j \in 1 .. Len(Tail(s)) : i < j => f[i] < f[j]
  BY <1>1
<1> QED
  BY <1>1, <1>2, <1>3, <1>4 DEF Thins

LEMMA RemoveAtProperties ==
  ASSUME NEW S, NEW s \in Seq(S), NEW k \in 1 .. Len(s)
  PROVE  /\ RemoveAt(s, k) \in Seq(S)
         /\ Len(RemoveAt(s, k)) = Len(s) - 1
         /\ \A i \in 1 .. Len(s) - 1 : RemoveAt(s, k)[i] = s[IF i < k THEN i ELSE i + 1]
<1> DEFINE a == SubSeq(s, 1, k - 1)
           b == SubSeq(s, k + 1, Len(s))
<1>0. Len(s) \in Nat /\ \A i \in 1 .. Len(s) : s[i] \in S
  BY LenProperties, ElementOfSeq
<1>1. a \in Seq(S) /\ Len(a) = k - 1 /\ \A i \in 1 .. k - 1 : a[i] = s[i]
  <2>1. \A i \in 1 .. k - 1 : s[i] \in S
    BY <1>0
  <2> QED
    BY <1>0, <2>1, SubSeqProperties
<1>2. b \in Seq(S) /\ Len(b) = Len(s) - k /\ \A i \in 1 .. Len(s) - k : b[i] = s[k + i]
  <2>1. \A i \in k + 1 .. Len(s) : s[i] \in S
    BY <1>0
  <2>2. /\ b \in Seq(S) /\ Len(b) = IF k + 1 <= Len(s) THEN Len(s) - (k + 1) + 1 ELSE 0
        /\ \A i \in 1 .. Len(s) - (k + 1) + 1 : b[i] = s[k + 1 + i - 1]
    BY <1>0, <2>1, SubSeqProperties
  <2> QED
    BY <1>0, <2>2
<1>3. RemoveAt(s, k) = a \o b
  BY DEF RemoveAt
<1> HIDE DEF a, b
<1>4. /\ a \o b \in Seq(S) /\ Len(a \o b) = Len(a) + Len(b)
      /\ \A i \in 1 .. Len(a) + Len(b) : (a \o b)[i] = IF i <= Len(a) THEN a[i] ELSE b[i - Len(a)]
  BY <1>1, <1>2, ConcatProperties
<1> QED
  BY <1>0, <1>1, <1>2, <1>3, <1>4

LEMMA ThinsRemoveAt ==
  ASSUME NEW S, NEW s \in Seq(S), NEW k \in 1 .. Len(s)
  PROVE  RemoveAt(s, k) \in Seq(S) /\ Thins(RemoveAt(s, k), s)
<1> DEFINE t == RemoveAt(s, k)
           f == [i \in 1 .. Len(t) |-> IF i < k THEN i ELSE i + 1]
<1>1. t \in Seq(S) /\ Len(t) = Len(s) - 1 /\ Len(s) \in Nat
  BY RemoveAtProperties, LenProperties
<1>2. \A i \in 1 .. Len(t) : t[i] = s[f[i]]
  BY <1>1, RemoveAtProperties
<1>3. f \in [1 .. Len(t) -> 1 .. Len(s)]
  BY <1>1
<1>4. \A i, j \in 1 .. Len(t) : i < j => f[i] < f[j]
  BY <1>1
<1> QED
  BY <1>1, <1>2, <1>3, <1>4 DEF Thins
LEMMA LeastNatural ==
  ASSUME NEW T \in SUBSET Nat, T # {}
  PROVE  \E x \in T : \A y \in T : x <= y
<1>1. IsWellFoundedOn(OpToRel(<, Nat), Nat)
  BY NatLessThanWellFounded
<1>2. PICK x \in T : \A y \in T : ~ (<<y, x>> \in OpToRel(<, Nat))
  BY <1>1, WFMin
<1>3. \A y \in T : ~(y < x)
  BY <1>2 DEF OpToRel
<1> QED
  BY <1>3

\* Mux::take_matching takes a frame of the type it is asked for.
LEMMA TakeFirst ==
  ASSUME NEW ty, HeldOf(ty) # {}, Len(held) \in Nat
  PROVE  FirstOf(ty) \in 1 .. Len(held) /\ held[FirstOf(ty)].ty = ty
<1>1. HeldOf(ty) \in SUBSET Nat
  BY DEF HeldOf
<1>2. \E i \in HeldOf(ty) : \A j \in HeldOf(ty) : i <= j
  BY <1>1, LeastNatural
<1>3. FirstOf(ty) \in HeldOf(ty)
  BY <1>2 DEF FirstOf
<1> QED
  BY <1>3 DEF HeldOf

-------------------------------------------------------------------------------
(* The invariant. *)

Values    == Val \cup {NoVal}
ReqFrames == [ty : {"ReadReq", "WriteReq", "Part"}, page : Pages, data : Values, ex : Nat]
AnsFrames == [ty : {"ReadResp", "WriteAck", "Err"}, page : Pages, data : Values, ex : Nat]

StreamsType == /\ toHost \in Seq(ReqFrames)
               /\ toBadge \in Seq(AnsFrames)
               /\ held \in Seq(AnsFrames)

CountersType == /\ store \in [Pages -> Values]
                /\ applied \in [Pages -> Nat]
                /\ ex \in Nat /\ drained \in Nat
                /\ pc \in {"idle", "attempt", "arm", "send", "wait"}
                /\ pc # "idle" => ask \in Asks

NotOlder(s, e) == \A i \in 1 .. Len(s) : s[i].ex >= e
NotNewer(s, e) == \A i \in 1 .. Len(s) : s[i].ex <= e
InOrder(s)     == \A i, j \in 1 .. Len(s) : i <= j => s[i].ex <= s[j].ex

\* Nothing older than a WriteAck comes after it, from either end.
AcksAreAhead ==
    /\ \A i \in 1 .. Len(held) : held[i].ty = "WriteAck" =>
         NotOlder(toBadge, held[i].ex) /\ NotOlder(toHost, held[i].ex)
    /\ \A i \in 1 .. Len(toBadge) : toBadge[i].ty = "WriteAck" =>
         /\ NotOlder(toHost, toBadge[i].ex)
         /\ \A j \in i .. Len(toBadge) : toBadge[j].ex >= toBadge[i].ex

RequestsInOrder == /\ InOrder(toHost)
                   /\ NotNewer(toHost, ex)
                   /\ \A p \in Pages : NotOlder(toHost, applied[p]) /\ applied[p] <= ex

Drained == drained <= ex /\ NotOlder(toHost, drained) /\ NotOlder(toBadge, drained)

AnswersAreToRequests == NotNewer(toBadge, ex) /\ NotNewer(held, ex)

Ordered == AcksAreAhead /\ RequestsInOrder /\ AnswersAreToRequests /\ Drained

Inv == StreamsType /\ CountersType /\ Ordered

-------------------------------------------------------------------------------
(* Steps that change a stream. *)

LEMMA FrameNumbers ==
  ASSUME NEW s, s \in Seq(ReqFrames) \/ s \in Seq(AnsFrames)
  PROVE  Len(s) \in Nat /\ \A i \in 1 .. Len(s) : s[i].ex \in Nat
<1>1. CASE s \in Seq(ReqFrames)
  <2>1. Len(s) \in Nat /\ \A i \in 1 .. Len(s) : s[i] \in ReqFrames
    BY <1>1, LenProperties, ElementOfSeq
  <2> QED
    BY <2>1 DEF ReqFrames
<1>2. CASE s \in Seq(AnsFrames)
  <2>1. Len(s) \in Nat /\ \A i \in 1 .. Len(s) : s[i] \in AnsFrames
    BY <1>2, LenProperties, ElementOfSeq
  <2> QED
    BY <2>1 DEF AnsFrames
<1> QED
  BY <1>1, <1>2

LEMMA ThinsNotOlder ==
  ASSUME NEW t, NEW s, NEW e, Thins(t, s)
  PROVE  /\ NotOlder(s, e) => NotOlder(t, e)
         /\ NotNewer(s, e) => NotNewer(t, e)
  BY DEF Thins, NotOlder, NotNewer

LEMMA ThinsInOrder ==
  ASSUME NEW t, NEW s, Len(t) \in Nat, Len(s) \in Nat, Thins(t, s), InOrder(s)
  PROVE  InOrder(t)
<1>1. PICK f \in [1 .. Len(t) -> 1 .. Len(s)] :
         /\ \A i \in 1 .. Len(t) : t[i] = s[f[i]]
         /\ \A i, j \in 1 .. Len(t) : i < j => f[i] < f[j]
  BY DEF Thins
<1> SUFFICES ASSUME NEW i \in 1 .. Len(t), NEW j \in 1 .. Len(t), i <= j
             PROVE  t[i].ex <= t[j].ex
  BY DEF InOrder
<1>2. f[i] <= f[j]
  BY <1>1
<1> QED
  BY <1>1, <1>2 DEF InOrder

\* Frames leave the answers, and no request gets older.
LEMMA AnswersThinned ==
  ASSUME StreamsType, CountersType, Ordered, StreamsType',
         Thins(toBadge', toBadge), Thins(held', held),
         \A e \in Nat : e <= ex /\ NotOlder(toHost, e) => NotOlder(toHost', e),
         ex' \in Nat, ex' >= ex
  PROVE  AcksAreAhead' /\ AnswersAreToRequests'
<1>0. /\ Len(toBadge) \in Nat /\ Len(held) \in Nat
      /\ Len(toBadge') \in Nat /\ Len(held') \in Nat
      /\ \A i \in 1 .. Len(toBadge') : toBadge'[i].ex \in Nat
      /\ \A i \in 1 .. Len(held') : held'[i].ex \in Nat
  BY FrameNumbers DEF StreamsType
<1>1. NotNewer(toBadge', ex) /\ NotNewer(held', ex)
  BY ThinsNotOlder DEF Ordered, AnswersAreToRequests
<1>2. ASSUME NEW i \in 1 .. Len(held'), held'[i].ty = "WriteAck"
      PROVE  NotOlder(toBadge', held'[i].ex) /\ NotOlder(toHost', held'[i].ex)
  <2>1. PICK k \in 1 .. Len(held) : held'[i] = held[k]
    BY DEF Thins
  <2>2. NotOlder(toBadge, held[k].ex) /\ NotOlder(toHost, held[k].ex)
    BY <1>2, <2>1 DEF Ordered, AcksAreAhead
  <2>3. held'[i].ex \in Nat /\ held'[i].ex <= ex
    BY <1>0, <1>1 DEF NotNewer
  <2> QED
    BY <2>1, <2>2, <2>3, ThinsNotOlder
<1>3. ASSUME NEW i \in 1 .. Len(toBadge'), toBadge'[i].ty = "WriteAck"
      PROVE  /\ NotOlder(toHost', toBadge'[i].ex)
             /\ \A j \in i .. Len(toBadge') : toBadge'[j].ex >= toBadge'[i].ex
  <2>1. PICK f \in [1 .. Len(toBadge') -> 1 .. Len(toBadge)] :
          /\ \A k \in 1 .. Len(toBadge') : toBadge'[k] = toBadge[f[k]]
          /\ \A k, l \in 1 .. Len(toBadge') : k < l => f[k] < f[l]
    BY DEF Thins
  <2>2. toBadge[f[i]].ty = "WriteAck" /\ f[i] \in 1 .. Len(toBadge)
    BY <1>3, <2>1
  <2>3. /\ NotOlder(toHost, toBadge[f[i]].ex)
        /\ \A j \in f[i] .. Len(toBadge) : toBadge[j].ex >= toBadge[f[i]].ex
    BY <2>2 DEF Ordered, AcksAreAhead
  <2>4. NotOlder(toHost', toBadge'[i].ex)
    <3>1. toBadge'[i].ex \in Nat /\ toBadge'[i].ex <= ex
      BY <1>0, <1>1 DEF NotNewer
    <3> QED
      BY <2>1, <2>3, <3>1
  <2>5. ASSUME NEW j \in i .. Len(toBadge') PROVE toBadge'[j].ex >= toBadge'[i].ex
    <3>1. j \in 1 .. Len(toBadge') /\ (i = j \/ i < j)
      BY <1>0
    <3>2. f[i] \in 1 .. Len(toBadge) /\ f[j] \in 1 .. Len(toBadge)
      BY <3>1
    <3>3. i = j \/ f[i] < f[j]
      BY <2>1, <3>1
    <3>4. f[i] <= f[j]
      BY <1>0, <3>2, <3>3
    <3>5. f[j] \in f[i] .. Len(toBadge)
      BY <1>0, <3>2, <3>4
    <3> QED
      BY <2>1, <2>3, <3>1, <3>5
  <2> QED
    BY <2>4, <2>5
<1>4. AnswersAreToRequests'
  BY <1>0, <1>1 DEF AnswersAreToRequests, NotNewer, CountersType
<1> QED
  BY <1>2, <1>3, <1>4 DEF AcksAreAhead

\* Frames leave the streams, and a write may be known to be drained.
LEMMA Thinning ==
  ASSUME StreamsType, CountersType, Ordered, StreamsType',
         Thins(toHost', toHost), Thins(toBadge', toBadge), Thins(held', held),
         applied' = applied, ex' \in Nat, ex' >= ex,
         drained' \in Nat, drained' <= ex', NotOlder(toHost, drained'), NotOlder(toBadge, drained')
  PROVE  Ordered'
<1>1. AcksAreAhead' /\ AnswersAreToRequests'
  BY ThinsNotOlder, AnswersThinned
<1>2. RequestsInOrder'
  <2>1. InOrder(toHost')
    BY FrameNumbers, ThinsInOrder DEF Ordered, RequestsInOrder, StreamsType
  <2>2. NotNewer(toHost', ex')
    <3>1. NotNewer(toHost', ex)
      BY ThinsNotOlder DEF Ordered, RequestsInOrder
    <3>2. \A i \in 1 .. Len(toHost') : toHost'[i].ex \in Nat
      BY FrameNumbers DEF StreamsType
    <3> QED
      BY <3>1, <3>2 DEF NotNewer, CountersType
  <2>3. \A p \in Pages : NotOlder(toHost', applied'[p])
    BY ThinsNotOlder DEF Ordered, RequestsInOrder
  <2>4. \A p \in Pages : applied'[p] <= ex'
    BY DEF Ordered, RequestsInOrder, CountersType
  <2> QED
    BY <2>1, <2>2, <2>3, <2>4 DEF RequestsInOrder
<1>3. Drained'
  BY ThinsNotOlder DEF Drained
<1> QED
  BY <1>1, <1>2, <1>3 DEF Ordered

\* The badge sends a frame of the exchange that is under way; if the send fails it gives up.
LEMMA Sending ==
  ASSUME StreamsType, CountersType, Ordered,
         NEW f \in ReqFrames, f.ex = ex,
         toHost' = Append(toHost, f),
         toBadge' \in Seq(AnsFrames), Thins(toBadge', toBadge),
         held' \in Seq(AnsFrames), Thins(held', held),
         UNCHANGED <<applied, ex, drained>>
  PROVE  StreamsType' /\ Ordered'
<1>1. /\ toHost' \in Seq(ReqFrames) /\ Len(toHost) \in Nat
      /\ Len(toHost') = Len(toHost) + 1
      /\ \A i \in 1 .. Len(toHost) : toHost'[i] = toHost[i] /\ toHost[i].ex \in Nat
      /\ toHost'[Len(toHost) + 1] = f
  BY FrameNumbers, AppendProperties DEF StreamsType
<1>2. ASSUME NEW e \in Nat, e <= ex, NotOlder(toHost, e)
      PROVE  NotOlder(toHost', e)
  BY <1>1, <1>2 DEF NotOlder
<1>3. StreamsType' /\ AcksAreAhead' /\ AnswersAreToRequests'
  <2>1. StreamsType' /\ ex' \in Nat /\ ex' >= ex
    BY <1>1 DEF StreamsType, CountersType
  <2> QED
    BY <1>2, <2>1, AnswersThinned
<1>4. RequestsInOrder'
  <2>1. InOrder(toHost')
    <3> SUFFICES ASSUME NEW i \in 1 .. Len(toHost'), NEW j \in 1 .. Len(toHost'), i <= j
                 PROVE  toHost'[i].ex <= toHost'[j].ex
      BY DEF InOrder
    <3>1. InOrder(toHost) /\ NotNewer(toHost, ex)
      BY DEF Ordered, RequestsInOrder
    <3>2. CASE j \in 1 .. Len(toHost)
      BY <1>1, <3>1, <3>2 DEF InOrder
    <3>3. CASE j = Len(toHost) + 1
      BY <1>1, <3>1, <3>3 DEF NotNewer, CountersType
    <3> QED
      BY <1>1, <3>2, <3>3
  <2>2. NotNewer(toHost', ex')
    BY <1>1 DEF NotNewer, Ordered, RequestsInOrder, CountersType
  <2>3. \A p \in Pages : NotOlder(toHost', applied'[p]) /\ applied'[p] <= ex'
    BY <1>2 DEF Ordered, RequestsInOrder, CountersType
  <2> QED
    BY <2>1, <2>2, <2>3 DEF RequestsInOrder
<1>5. Drained'
  BY <1>2, ThinsNotOlder DEF Ordered, Drained, CountersType
<1> QED
  BY <1>3, <1>4, <1>5 DEF Ordered

\* The badge takes a frame from the stream.
LEMMA Absorbing ==
  ASSUME StreamsType, CountersType, Ordered, Absorb,
         UNCHANGED <<toHost, applied, ex, drained>>
  PROVE  StreamsType' /\ Ordered'
<1> DEFINE f == Head(toBadge)
<1>1. /\ f \in AnsFrames /\ f = toBadge[1] /\ 1 \in 1 .. Len(toBadge)
      /\ toBadge' \in Seq(AnsFrames) /\ Len(toBadge) \in Nat
      /\ Len(toBadge') = Len(toBadge) - 1
      /\ \A i \in 1 .. Len(toBadge') : toBadge'[i] = toBadge[i + 1]
  <2>1. Len(toBadge) \in Nat \ {0}
    BY LenProperties, EmptySeq DEF Absorb, StreamsType
  <2> QED
    BY <2>1, HeadTailProperties, ElementOfSeq DEF Absorb, StreamsType
<1>2. /\ held' \in Seq(AnsFrames) /\ Len(held) \in Nat
      /\ Len(held') = Len(held) + 1
      /\ \A i \in 1 .. Len(held) : held'[i] = held[i]
      /\ held'[Len(held) + 1] = f
  BY <1>1, AppendProperties, LenProperties DEF Absorb, StreamsType
<1>3. ASSUME NEW e, NotOlder(toBadge, e) PROVE NotOlder(toBadge', e)
  BY <1>1, <1>3 DEF NotOlder
<1>4. AcksAreAhead'
  <2>1. ASSUME NEW i \in 1 .. Len(held'), held'[i].ty = "WriteAck"
        PROVE  NotOlder(toBadge', held'[i].ex) /\ NotOlder(toHost', held'[i].ex)
    <3>1. CASE i \in 1 .. Len(held)
      BY <1>2, <1>3, <2>1, <3>1 DEF Ordered, AcksAreAhead
    <3>2. CASE i = Len(held) + 1
      <4>1. toBadge[1].ty = "WriteAck" /\ held'[i] = toBadge[1]
        BY <1>1, <1>2, <2>1, <3>2
      <4>2. NotOlder(toHost, toBadge[1].ex) /\ NotOlder(toBadge, toBadge[1].ex)
        BY <1>1, <4>1 DEF Ordered, AcksAreAhead, NotOlder
      <4> QED
        BY <1>3, <4>1, <4>2
    <3> QED
      BY <1>2, <3>1, <3>2
  <2>2. ASSUME NEW i \in 1 .. Len(toBadge'), toBadge'[i].ty = "WriteAck"
        PROVE  /\ NotOlder(toHost', toBadge'[i].ex)
               /\ \A j \in i .. Len(toBadge') : toBadge'[j].ex >= toBadge'[i].ex
    <3>1. i + 1 \in 1 .. Len(toBadge) /\ toBadge'[i] = toBadge[i + 1]
      BY <1>1
    <3>2. /\ NotOlder(toHost, toBadge[i + 1].ex)
          /\ \A j \in i + 1 .. Len(toBadge) : toBadge[j].ex >= toBadge[i + 1].ex
      BY <2>2, <3>1 DEF Ordered, AcksAreAhead
    <3>3. \A j \in i .. Len(toBadge') : j + 1 \in i + 1 .. Len(toBadge) /\ j \in 1 .. Len(toBadge')
      BY <1>1
    <3> QED
      BY <1>1, <3>1, <3>2, <3>3
  <2> QED
    BY <2>1, <2>2 DEF AcksAreAhead
<1>5. RequestsInOrder' /\ Drained'
  BY <1>3 DEF Ordered, RequestsInOrder, Drained
<1>6. AnswersAreToRequests'
  <2>1. NotNewer(toBadge, ex) /\ NotNewer(held, ex)
    BY DEF Ordered, AnswersAreToRequests
  <2>2. \A i \in 1 .. Len(toBadge') : i + 1 \in 1 .. Len(toBadge)
    BY <1>1
  <2>3. NotNewer(toBadge', ex)
    BY <1>1, <2>1, <2>2 DEF NotNewer
  <2>4. \A i \in 1 .. Len(held') : i \in 1 .. Len(held) \/ i = Len(held) + 1
    BY <1>2
  <2>5. NotNewer(held', ex)
    BY <1>1, <1>2, <2>1, <2>4 DEF NotNewer
  <2> QED
    BY <2>3, <2>5 DEF AnswersAreToRequests
<1> QED
  BY <1>1, <1>2, <1>4, <1>5, <1>6 DEF Ordered, StreamsType

\* The host answers the first n requests; an acknowledgement is the last of its answers.
LEMMA Answering ==
  ASSUME StreamsType, CountersType, Ordered,
         NEW n \in 1 .. Len(toHost), NEW new \in Seq(AnsFrames),
         \A k \in 1 .. Len(new) : \E i \in 1 .. n : new[k].ex = toHost[i].ex,
         \A k \in 1 .. Len(new) : new[k].ty = "WriteAck" => k = Len(new) /\ new[k].ex = toHost[1].ex,
         toHost' = SubSeq(toHost, n + 1, Len(toHost)),
         toBadge' = toBadge \o new,
         \/ applied' = applied
         \/ \E p \in Pages : applied' = [applied EXCEPT ![p] = toHost[1].ex],
         UNCHANGED <<held, ex, drained>>
  PROVE  StreamsType' /\ Ordered'
<1>1. /\ toHost' \in Seq(ReqFrames) /\ Len(toHost) \in Nat /\ Len(toHost') = Len(toHost) - n
      /\ \A i \in 1 .. Len(toHost') : toHost'[i] = toHost[n + i] /\ n + i \in 1 .. Len(toHost)
      /\ \A i \in 1 .. Len(toHost) : toHost[i].ex \in Nat
  <2>1. Len(toHost) \in Nat /\ \A i \in 1 .. Len(toHost) : toHost[i] \in ReqFrames
    BY LenProperties, ElementOfSeq DEF StreamsType
  <2>2. \A i \in n + 1 .. Len(toHost) : toHost[i] \in ReqFrames
    BY <2>1
  <2>3. /\ toHost' \in Seq(ReqFrames)
        /\ Len(toHost') = IF n + 1 <= Len(toHost) THEN Len(toHost) - (n + 1) + 1 ELSE 0
        /\ \A i \in 1 .. Len(toHost) - (n + 1) + 1 : toHost'[i] = toHost[n + 1 + i - 1]
    BY <2>1, <2>2, SubSeqProperties DEF StreamsType
  <2>4. \A i \in 1 .. Len(toHost) : toHost[i].ex \in Nat
    BY <2>1 DEF ReqFrames
  <2>5. Len(toHost') = Len(toHost) - n
    BY <2>1, <2>3
  <2>6. \A i \in 1 .. Len(toHost') : n + 1 + i - 1 = n + i /\ n + i \in 1 .. Len(toHost)
                                     /\ i \in 1 .. Len(toHost) - (n + 1) + 1
    BY <2>1, <2>5
  <2> QED
    BY <2>1, <2>3, <2>4, <2>5, <2>6
<1>2. /\ toBadge' \in Seq(AnsFrames) /\ Len(toBadge) \in Nat /\ Len(new) \in Nat
      /\ Len(toBadge') = Len(toBadge) + Len(new)
      /\ \A i \in 1 .. Len(toBadge) : toBadge'[i] = toBadge[i]
      /\ \A i \in Len(toBadge) + 1 .. Len(toBadge') :
           toBadge'[i] = new[i - Len(toBadge)] /\ i - Len(toBadge) \in 1 .. Len(new)
      /\ \A i \in 1 .. Len(toBadge') : toBadge'[i].ex \in Nat
  <2>1. /\ toBadge' \in Seq(AnsFrames) /\ Len(toBadge) \in Nat /\ Len(new) \in Nat
        /\ Len(toBadge') = Len(toBadge) + Len(new)
        /\ \A i \in 1 .. Len(toBadge) + Len(new) :
             toBadge'[i] = IF i <= Len(toBadge) THEN toBadge[i] ELSE new[i - Len(toBadge)]
    BY ConcatProperties, LenProperties DEF StreamsType
  <2>2. \A i \in 1 .. Len(toBadge') : toBadge'[i].ex \in Nat
    BY <2>1, FrameNumbers
  <2> QED
    BY <2>1, <2>2
<1>3. InOrder(toHost) /\ NotNewer(toHost, ex)
  BY DEF Ordered, RequestsInOrder
<1>4. ASSUME NEW e, NotOlder(toHost, e) PROVE NotOlder(toHost', e) /\ NotOlder(new, e)
  <2>1. NotOlder(toHost', e)
    BY <1>1, <1>4 DEF NotOlder
  <2>2. ASSUME NEW k \in 1 .. Len(new) PROVE new[k].ex >= e
    <3>1. PICK i \in 1 .. n : new[k].ex = toHost[i].ex
      OBVIOUS
    <3> QED
      BY <1>1, <1>4, <3>1 DEF NotOlder
  <2> QED
    BY <2>1, <2>2 DEF NotOlder
<1>5. ASSUME NEW e, NotOlder(toHost, e), NotOlder(toBadge, e) PROVE NotOlder(toBadge', e)
  <2> SUFFICES ASSUME NEW i \in 1 .. Len(toBadge') PROVE toBadge'[i].ex >= e
    BY DEF NotOlder
  <2>1. CASE i \in 1 .. Len(toBadge)
    BY <1>2, <1>5, <2>1 DEF NotOlder
  <2>2. CASE i \in Len(toBadge) + 1 .. Len(toBadge')
    BY <1>2, <1>4, <1>5, <2>2 DEF NotOlder
  <2> QED
    BY <1>2, <2>1, <2>2
<1>6. NotOlder(toHost', toHost[1].ex) /\ toHost[1].ex <= ex /\ toHost[1].ex \in Nat
  <2>1. NotOlder(toHost, toHost[1].ex) /\ toHost[1].ex <= ex /\ toHost[1].ex \in Nat
    BY <1>1, <1>3 DEF InOrder, NotOlder, NotNewer
  <2> QED
    BY <1>4, <2>1
<1>7. AcksAreAhead'
  <2>1. ASSUME NEW i \in 1 .. Len(held'), held'[i].ty = "WriteAck"
        PROVE  NotOlder(toBadge', held'[i].ex) /\ NotOlder(toHost', held'[i].ex)
    BY <1>4, <1>5, <2>1 DEF Ordered, AcksAreAhead
  <2>2. ASSUME NEW i \in 1 .. Len(toBadge'), toBadge'[i].ty = "WriteAck"
        PROVE  /\ NotOlder(toHost', toBadge'[i].ex)
               /\ \A j \in i .. Len(toBadge') : toBadge'[j].ex >= toBadge'[i].ex
    <3>1. CASE i \in 1 .. Len(toBadge)
      <4>1. /\ toBadge'[i] = toBadge[i]
            /\ NotOlder(toHost, toBadge[i].ex)
            /\ \A j \in i .. Len(toBadge) : toBadge[j].ex >= toBadge[i].ex
        BY <1>2, <2>2, <3>1 DEF Ordered, AcksAreAhead
      <4>2. NotOlder(toHost', toBadge[i].ex) /\ NotOlder(new, toBadge[i].ex)
        BY <1>4, <4>1
      <4>3. ASSUME NEW j \in i .. Len(toBadge') PROVE toBadge'[j].ex >= toBadge'[i].ex
        <5>1. CASE j \in i .. Len(toBadge)
          BY <1>2, <4>1, <5>1
        <5>2. CASE j \in Len(toBadge) + 1 .. Len(toBadge')
          BY <1>2, <4>1, <4>2, <5>2 DEF NotOlder
        <5> QED
          BY <1>2, <5>1, <5>2
      <4> QED
        BY <4>1, <4>2, <4>3
    <3>2. CASE i \in Len(toBadge) + 1 .. Len(toBadge')
      <4>1. toBadge'[i] = new[i - Len(toBadge)] /\ i - Len(toBadge) \in 1 .. Len(new)
        BY <1>2, <3>2
      <4>2. i - Len(toBadge) = Len(new) /\ toBadge'[i].ex = toHost[1].ex
        BY <2>2, <4>1
      <4>3. \A j \in i .. Len(toBadge') : j = i
        BY <1>2, <4>2
      <4>4. toBadge'[i].ex >= toBadge'[i].ex
        BY <1>2
      <4> QED
        BY <1>6, <4>2, <4>3, <4>4
    <3> QED
      BY <1>2, <3>1, <3>2
  <2> QED
    BY <2>1, <2>2 DEF AcksAreAhead
<1>8. RequestsInOrder'
  <2>1. InOrder(toHost')
    BY <1>1, <1>3 DEF InOrder
  <2>2. NotNewer(toHost', ex')
    BY <1>1, <1>3 DEF NotNewer
  <2>3. \A p \in Pages : NotOlder(toHost', applied[p]) /\ applied[p] <= ex
    BY <1>4 DEF Ordered, RequestsInOrder
  <2>4. \A p \in Pages : NotOlder(toHost', applied'[p]) /\ applied'[p] <= ex'
    <3>1. \A p \in Pages : applied'[p] = applied[p] \/ applied'[p] = toHost[1].ex
      BY DEF CountersType
    <3> QED
      BY <1>6, <2>3, <3>1
  <2> QED
    BY <2>1, <2>2, <2>4 DEF RequestsInOrder
<1>9. AnswersAreToRequests'
  <2>1. NotNewer(toBadge, ex) /\ NotNewer(held, ex)
    BY DEF Ordered, AnswersAreToRequests
  <2>2. ASSUME NEW i \in 1 .. Len(toBadge') PROVE toBadge'[i].ex <= ex
    <3>1. CASE i \in 1 .. Len(toBadge)
      BY <1>2, <2>1, <3>1 DEF NotNewer
    <3>2. CASE i \in Len(toBadge) + 1 .. Len(toBadge')
      <4>1. PICK l \in 1 .. n : toBadge'[i].ex = toHost[l].ex
        BY <1>2, <3>2
      <4> QED
        BY <1>1, <1>3, <4>1 DEF NotNewer
    <3> QED
      BY <1>2, <3>1, <3>2
  <2> QED
    BY <2>1, <2>2 DEF AnswersAreToRequests, NotNewer
<1>10. Drained'
  BY <1>4, <1>5 DEF Ordered, Drained
<1> QED
  BY <1>1, <1>2, <1>7, <1>8, <1>9, <1>10 DEF Ordered, StreamsType
-------------------------------------------------------------------------------
(* Every action keeps the invariant. *)

LEMMA InitInv == ASSUME Init PROVE Inv
<1>1. StreamsType /\ Len(toHost) = 0 /\ Len(toBadge) = 0 /\ Len(held) = 0
  BY EmptySeq DEF Init, StreamsType
<1>2. 1 .. 0 = {}
  OBVIOUS
<1>3. CountersType
  BY LinkAssumption DEF Init, CountersType, Values
<1>4. Ordered
  BY <1>1, <1>2 DEF Init, Ordered, AcksAreAhead, RequestsInOrder, AnswersAreToRequests, Drained,
     NotOlder, NotNewer, InOrder
<1> QED
  BY <1>1, <1>3, <1>4 DEF Inv

\* Giving up: the decoder's frames are gone, perhaps the first of the stream too.
LEMMA GivingUp ==
  ASSUME StreamsType, NEW kind, GiveUp(kind)
  PROVE  /\ toBadge' \in Seq(AnsFrames) /\ Thins(toBadge', toBadge)
         /\ held' \in Seq(AnsFrames) /\ Thins(held', held)
         /\ UNCHANGED <<store, applied, ask, ex, drained>> /\ pc' = "idle"
<1>1. toBadge' = toBadge \/ (toBadge # <<>> /\ toBadge' = Tail(toBadge))
  BY DEF GiveUp
<1>2. toBadge' \in Seq(AnsFrames) /\ Thins(toBadge', toBadge)
  BY <1>1, ThinsSelf, ThinsTail DEF StreamsType
<1>3. held' = <<>> /\ held' \in Seq(AnsFrames) /\ Thins(held', held)
  BY ThinsEmpty, EmptySeq DEF GiveUp, StreamsType
<1> QED
  BY <1>2, <1>3 DEF GiveUp, Returns, hostVars

\* A frame is taken from what is held.
LEMMA Taking ==
  ASSUME StreamsType, NEW ty, HeldOf(ty) # {}, Take(ty)
  PROVE  held' \in Seq(AnsFrames) /\ Thins(held', held)
<1>1. FirstOf(ty) \in 1 .. Len(held)
  BY TakeFirst, LenProperties DEF StreamsType
<1> QED
  BY <1>1, ThinsRemoveAt DEF Take, StreamsType

\* The answers of the host to a ReadReq.
LEMMA ReadAnswersType ==
  ASSUME CountersType, NEW f \in ReqFrames, NEW r \in ReadAnswers(f)
  PROVE  r \in AnsFrames /\ r.ex = f.ex /\ r.ty # "WriteAck"
<1>1. f.page \in Pages /\ f.ex \in Nat /\ store[f.page] \in Values /\ NoVal \in Values
  BY DEF ReqFrames, CountersType, Values
<1>2. r = Frame("ReadResp", f.page, store[f.page], f.ex) \/ r = Frame("Err", f.page, NoVal, f.ex)
  BY DEF ReadAnswers
<1> QED
  BY <1>1, <1>2 DEF Frame, AnsFrames

LEMMA HostStepInv ==
  ASSUME Inv, HostStep
  PROVE  Inv' /\ \A p \in Pages : applied'[p] >= applied[p]
<1>0. StreamsType /\ CountersType /\ Ordered
  BY DEF Inv
<1>1. Len(toHost) \in Nat /\ \A i \in 1 .. Len(toHost) : toHost[i] \in ReqFrames
  BY <1>0, LenProperties, ElementOfSeq DEF StreamsType
<1>2. ASSUME applied' = applied PROVE \A p \in Pages : applied'[p] >= applied[p]
  BY <1>0, <1>2 DEF CountersType
<1>3. CASE ServeRead
  <2>1. Head(toHost) = toHost[1] /\ 1 \in 1 .. Len(toHost)
        /\ Tail(toHost) = SubSeq(toHost, 1 + 1, Len(toHost))
    BY <1>0, <1>1, <1>3, EmptySeq, HeadTailProperties, TailIsSubSeq DEF ServeRead, StreamsType
  <2>2. PICK r \in ReadAnswers(toHost[1]) : toBadge' = Append(toBadge, r)
    BY <1>3, <2>1 DEF ServeRead
  <2>3. r \in AnsFrames /\ r.ex = toHost[1].ex /\ r.ty # "WriteAck"
    BY <1>0, <1>1, <2>1, ReadAnswersType
  <2> DEFINE new == <<r>>
  <2>4. /\ new \in Seq(AnsFrames) /\ Len(new) = 1 /\ \A k \in 1 .. 1 : new[k] = r
        /\ toBadge' = toBadge \o new
    BY <1>0, <2>2, <2>3, AppendIsConcat DEF StreamsType
  <2> HIDE DEF new
  <2>5. UNCHANGED <<store, applied, held, ex, drained, pc, ask>> /\ toHost' = SubSeq(toHost, 1 + 1, Len(toHost))
    BY <1>3, <2>1 DEF ServeRead, hostVars, badgeVars, auxVars
  <2>6. /\ \A k \in 1 .. Len(new) : \E i \in 1 .. 1 : new[k].ex = toHost[i].ex
        /\ \A k \in 1 .. Len(new) : new[k].ty # "WriteAck"
    BY <2>3, <2>4
  <2>7. StreamsType' /\ Ordered'
    BY <1>0, <2>1, <2>4, <2>5, <2>6, Answering
  <2>8. CountersType'
    BY <1>0, <2>5 DEF CountersType
  <2> QED
    BY <1>2, <2>5, <2>7, <2>8 DEF Inv
<1>4. ASSUME NEW n \in 0 .. MaxBatch, ServeWrite(n)
      PROVE  Inv' /\ \A p \in Pages : applied'[p] >= applied[p]
  <2> DEFINE w == toHost[1]
  <2>1. n \in Nat /\ n < Len(toHost) /\ n + 1 \in 1 .. Len(toHost) /\ 1 \in 1 .. Len(toHost)
    BY <1>1, <1>4, LinkAssumption DEF ServeWrite
  <2>2. Head(toHost) = w /\ w \in ReqFrames
    BY <1>0, <1>1, <2>1, EmptySeq, HeadTailProperties DEF StreamsType
  <2>3. PICK reads \in [1 .. n -> UNION {ReadAnswers(toHost[i]) : i \in 2 .. n + 1}] :
          /\ \A i \in 1 .. n : reads[i] \in ReadAnswers(toHost[i + 1])
          /\ \/ /\ toBadge' = toBadge \o reads \o <<Frame("WriteAck", w.page, NoVal, w.ex)>>
                /\ store' = [store EXCEPT ![w.page] = w.data]
                /\ applied' = [applied EXCEPT ![w.page] = w.ex]
             \/ /\ toBadge' = toBadge \o reads \o <<Frame("Err", w.page, NoVal, w.ex)>>
                /\ UNCHANGED hostVars
    BY <1>4, <2>2 DEF ServeWrite
  <2>4. PICK ty \in {"WriteAck", "Err"} :
          toBadge' = toBadge \o reads \o <<Frame(ty, w.page, NoVal, w.ex)>>
    BY <2>3
  <2>5. /\ w.page \in Pages /\ w.ex \in Nat /\ w.data \in Values
        /\ Frame(ty, w.page, NoVal, w.ex) \in AnsFrames
    <3>1. w.page \in Pages /\ w.ex \in Nat /\ w.data \in Values /\ NoVal \in Values
      BY <2>2 DEF ReqFrames, Values
    <3> QED
      BY <3>1 DEF Frame, AnsFrames
  <2>6. \A i \in 1 .. n : reads[i] \in AnsFrames /\ reads[i].ex = toHost[i + 1].ex
                          /\ reads[i].ty # "WriteAck"
    <3>1. \A i \in 1 .. n : i + 1 \in 1 .. Len(toHost)
      BY <1>1, <2>1
    <3> QED
      BY <1>0, <1>1, <2>3, <3>1, ReadAnswersType
  <2>7. reads \in Seq(AnsFrames) /\ Len(reads) = n
    <3>1. reads \in [1 .. n -> AnsFrames]
      BY <2>3, <2>6
    <3> QED
      BY <2>1, <3>1
  <2> DEFINE a == Frame(ty, w.page, NoVal, w.ex)
             new == reads \o <<a>>
  <2>8. a \in AnsFrames /\ a.ex = w.ex /\ <<a>> \in Seq(AnsFrames) /\ Len(<<a>>) = 1 /\ <<a>>[1] = a
    BY <2>5 DEF Frame
  <2> HIDE DEF a
  <2>9. /\ new \in Seq(AnsFrames) /\ Len(new) = n + 1 /\ new[n + 1] = a
        /\ \A k \in 1 .. n : new[k] = reads[k]
    <3>1. /\ new \in Seq(AnsFrames) /\ Len(new) = n + 1
          /\ \A k \in 1 .. n + 1 : new[k] = IF k <= n THEN reads[k] ELSE <<a>>[k - n]
      BY <2>7, <2>8, ConcatProperties
    <3>2. n + 1 \in 1 .. n + 1 /\ (n + 1) - n = 1 /\ ~(n + 1 <= n)
          /\ \A k \in 1 .. n : k \in 1 .. n + 1 /\ k <= n
      BY <2>1
    <3> HIDE DEF new
    <3> QED
      BY <2>8, <3>1, <3>2
  <2>10. toBadge' = toBadge \o new
    <3>1. toBadge' = (toBadge \o reads) \o <<a>>
      BY <2>4 DEF a
    <3> QED
      BY <1>0, <2>7, <2>8, <3>1, ConcatAssociative DEF StreamsType
  <2> HIDE DEF new
  <2>11. \A k \in 1 .. Len(new) : k \in 1 .. n \/ k = n + 1
    BY <2>1, <2>9
  <2>12. \A k \in 1 .. Len(new) : \E i \in 1 .. n + 1 : new[k].ex = toHost[i].ex
    <3> TAKE k \in 1 .. Len(new)
    <3>1. CASE k \in 1 .. n
      <4>1. k + 1 \in 1 .. n + 1
        BY <2>1, <3>1
      <4>2. new[k].ex = toHost[k + 1].ex
        BY <2>6, <2>9, <3>1
      <4> QED
        BY <4>1, <4>2
    <3>2. CASE k = n + 1
      BY <2>1, <2>8, <2>9, <3>2
    <3> QED
      BY <2>11, <3>1, <3>2
  <2>13. \A k \in 1 .. Len(new) : new[k].ty = "WriteAck" => k = Len(new) /\ new[k].ex = w.ex
    BY <2>6, <2>8, <2>9, <2>11
  <2>14. UNCHANGED <<held, ex, drained, pc, ask>> /\ toHost' = SubSeq(toHost, n + 1 + 1, Len(toHost))
    <3>1. toHost' = SubSeq(toHost, n + 2, Len(toHost)) /\ UNCHANGED <<badgeVars, auxVars>>
      BY <1>4 DEF ServeWrite
    <3>2. n + 2 = n + 1 + 1
      BY <2>1
    <3> QED
      BY <3>1, <3>2 DEF badgeVars, auxVars
  <2>15. \/ applied' = applied /\ store' = store
         \/ applied' = [applied EXCEPT ![w.page] = w.ex] /\ store' = [store EXCEPT ![w.page] = w.data]
    BY <2>3 DEF hostVars
  <2>16. StreamsType' /\ Ordered'
    BY <1>0, <2>1, <2>5, <2>9, <2>10, <2>12, <2>13, <2>14, <2>15, Answering
  <2>17. CountersType'
    BY <1>0, <2>5, <2>14, <2>15 DEF CountersType
  <2>18. \A p \in Pages : applied'[p] >= applied[p]
    <3>1. \A p \in Pages : w.ex >= applied[p]
      BY <1>0, <2>1 DEF Ordered, RequestsInOrder, NotOlder
    <3>2. CASE applied' = [applied EXCEPT ![w.page] = w.ex]
      BY <1>0, <2>5, <3>1, <3>2 DEF CountersType
    <3> QED
      BY <1>2, <2>15, <3>2
  <2> QED
    BY <2>16, <2>17, <2>18 DEF Inv
<1>5. CASE PassPart
  <2>1. /\ toHost' \in Seq(ReqFrames) /\ Thins(toHost', toHost)
        /\ UNCHANGED <<toBadge, store, applied, held, ex, drained, pc, ask>>
    BY <1>0, <1>5, ThinsTail DEF PassPart, StreamsType, hostVars, badgeVars, auxVars
  <2>2. StreamsType' /\ CountersType'
    BY <1>0, <2>1 DEF StreamsType, CountersType
  <2>3. Ordered'
    BY <1>0, <2>1, <2>2, ThinsSelf, Thinning DEF StreamsType, CountersType, Ordered, Drained
  <2> QED
    BY <1>2, <2>1, <2>2, <2>3 DEF Inv
<1> QED
  BY <1>3, <1>4, <1>5 DEF HostStep

LEMMA BadgeStepInv ==
  ASSUME Inv, BadgeStep \/ Pump
  PROVE  Inv' /\ applied' = applied
<1>0. StreamsType /\ CountersType /\ Ordered
  BY DEF Inv
<1>1. /\ Thins(toHost, toHost) /\ Thins(toBadge, toBadge) /\ Thins(held, held)
      /\ NotOlder(toHost, drained) /\ NotOlder(toBadge, drained) /\ drained <= ex /\ ex >= ex
  BY <1>0, ThinsSelf DEF StreamsType, Ordered, Drained, CountersType
\* An action that thins what is held and the answers on their way.
<1>a. ASSUME UNCHANGED <<toHost, applied, ex, drained>>,
             toBadge' \in Seq(AnsFrames), Thins(toBadge', toBadge),
             held' \in Seq(AnsFrames), Thins(held', held), CountersType'
      PROVE  Inv' /\ applied' = applied
  <2>1. StreamsType'
    BY <1>0, <1>a DEF StreamsType
  <2>2. Ordered'
    BY <1>0, <1>1, <1>a, <2>1, Thinning DEF CountersType
  <2> QED
    BY <1>a, <2>1, <2>2 DEF Inv
<1>b. ASSUME NEW kind, GiveUp(kind), UNCHANGED toHost
      PROVE  Inv' /\ applied' = applied
  <2>1. CountersType'
    BY <1>0, <1>b, GivingUp DEF CountersType
  <2> QED
    BY <1>0, <1>a, <1>b, <2>1, GivingUp
<1>c. ASSUME UNCHANGED <<toHost, toBadge, store, applied, ex, drained, ask>>,
             pc' = pc \/ (pc # "idle" /\ pc' \in {"idle", "attempt", "arm", "send", "wait"}),
             held' = held \/ held' = <<>> \/ (held' \in Seq(AnsFrames) /\ Thins(held', held))
      PROVE  Inv' /\ applied' = applied
  <2>1. CountersType'
    BY <1>0, <1>c DEF CountersType
  <2>2. held' \in Seq(AnsFrames) /\ Thins(held', held)
    BY <1>0, <1>1, <1>c, ThinsEmpty, EmptySeq DEF StreamsType
  <2> QED
    BY <1>0, <1>1, <1>a, <1>c, <2>1, <2>2 DEF StreamsType
<1>2. CASE Attempt \/ Arm \/ Retry
  BY <1>2, <1>c DEF Attempt, Arm, Retry, NothingToTake, hostVars, auxVars
<1>3. CASE AttemptTooLate \/ ArmFails \/ SendTooLate \/ WaitTooLate \/ OutOfAttempts \/ RecvFails
  BY <1>3, <1>b DEF AttemptTooLate, ArmFails, SendTooLate, WaitTooLate, OutOfAttempts, RecvFails
<1>4. CASE Send
  <2>1. ask \in Asks /\ ex \in Nat
    BY <1>0, <1>4 DEF Send, CountersType
  <2>2. ask.page \in Pages /\ ask.data \in Values
    BY <2>1 DEF Asks, Values
  <2>3. Request \in ReqFrames /\ Request.ex = ex
    BY <2>1, <2>2 DEF Request, Frame, ReqFrames
  <2>4. StreamsType' /\ Ordered'
    BY <1>0, <1>1, <1>4, <2>3, Sending DEF Send, hostVars, auxVars, StreamsType
  <2>5. CountersType'
    BY <1>0, <1>4 DEF Send, CountersType, hostVars, auxVars
  <2> QED
    BY <1>4, <2>4, <2>5 DEF Inv, Send, hostVars
<1>5. CASE SendFails
  <2>1. PICK kind : GiveUp(kind)
    BY <1>5 DEF SendFails
  <2>2. CASE UNCHANGED toHost
    BY <1>b, <2>1, <2>2
  <2>3. CASE toHost' = Append(toHost, Frame("Part", ask.page, NoVal, ex))
    <3>1. ask \in Asks /\ ex \in Nat
      BY <1>0, <1>5 DEF SendFails, CountersType
    <3>2. ask.page \in Pages /\ NoVal \in Values
      BY <3>1 DEF Asks, Values
    <3>3. /\ Frame("Part", ask.page, NoVal, ex) \in ReqFrames
          /\ Frame("Part", ask.page, NoVal, ex).ex = ex
      BY <3>1, <3>2 DEF Frame, ReqFrames
    <3>4. StreamsType' /\ Ordered'
      BY <1>0, <2>1, <2>3, <3>3, GivingUp, Sending
    <3>5. CountersType' /\ applied' = applied
      BY <1>0, <2>1, GivingUp DEF CountersType
    <3> QED
      BY <3>4, <3>5 DEF Inv
  <2> QED
    BY <1>5, <2>2, <2>3 DEF SendFails
<1>6. CASE Accept
  <2>1. pc = "wait" /\ ask \in Asks
    BY <1>0, <1>6 DEF Accept, CountersType
  <2>2. held' \in Seq(AnsFrames) /\ Thins(held', held)
    BY <1>0, <1>6, Taking DEF Accept
  <2>3. /\ UNCHANGED <<toHost, toBadge, store, applied, ask, ex>> /\ pc' = "idle"
        /\ drained' = IF ask.op = "write" /\ held[FirstOf(want)].ex = ex THEN ex ELSE drained
    BY <1>6 DEF Accept, Returns, hostVars
  <2>4. drained' \in Nat /\ drained' <= ex /\ NotOlder(toHost, drained') /\ NotOlder(toBadge, drained')
    <3>1. CASE ask.op = "write" /\ held[FirstOf(want)].ex = ex
      <4>1. want = "WriteAck"
        BY <3>1 DEF want
      <4>2. FirstOf(want) \in 1 .. Len(held) /\ held[FirstOf(want)].ty = want
        BY <1>0, <1>6, TakeFirst, LenProperties DEF Accept, StreamsType
      <4>3. NotOlder(toBadge, ex) /\ NotOlder(toHost, ex)
        BY <1>0, <3>1, <4>1, <4>2 DEF Ordered, AcksAreAhead
      <4> QED
        BY <1>0, <2>3, <3>1, <4>3 DEF CountersType
    <3>2. CASE ~(ask.op = "write" /\ held[FirstOf(want)].ex = ex)
      BY <1>0, <1>1, <2>3, <3>2 DEF CountersType
    <3> QED
      BY <3>1, <3>2
  <2>5. StreamsType' /\ CountersType'
    BY <1>0, <2>2, <2>3, <2>4 DEF StreamsType, CountersType
  <2>6. Ordered'
    BY <1>0, <1>1, <2>2, <2>3, <2>4, <2>5, Thinning DEF CountersType
  <2> QED
    BY <2>3, <2>5, <2>6 DEF Inv
<1>7. CASE DropOtherPage
  BY <1>0, <1>7, <1>c, Taking DEF DropOtherPage, hostVars, auxVars
<1>8. CASE Refused
  BY <1>0, <1>8, <1>c, Taking DEF Refused, Returns, hostVars, auxVars
<1>9. CASE DropOtherErr
  BY <1>0, <1>9, <1>c, Taking DEF DropOtherErr, hostVars, auxVars
<1>10. CASE Recv \/ Pump
  <2>1. Absorb /\ UNCHANGED <<toHost, store, applied, ex, drained, pc, ask>>
    BY <1>10 DEF Recv, Pump, hostVars, auxVars
  <2>2. StreamsType' /\ Ordered'
    BY <1>0, <2>1, Absorbing
  <2>3. CountersType'
    BY <1>0, <2>1 DEF CountersType
  <2> QED
    BY <2>1, <2>2, <2>3 DEF Inv
<1> QED
  BY <1>2, <1>3, <1>4, <1>5, <1>6, <1>7, <1>8, <1>9, <1>10 DEF BadgeStep

LEMMA NextInv ==
  ASSUME Inv, [Next]_vars
  PROVE  Inv' /\ \A p \in Pages : applied'[p] >= applied[p]
<1>0. StreamsType /\ CountersType /\ Ordered
  BY DEF Inv
<1>1. /\ Thins(toHost, toHost) /\ Thins(toBadge, toBadge) /\ Thins(held, held)
      /\ NotOlder(toHost, drained) /\ NotOlder(toBadge, drained)
      /\ drained <= ex /\ ex >= ex /\ ex + 1 >= ex /\ drained <= ex + 1 /\ ex + 1 \in Nat
  BY <1>0, ThinsSelf DEF StreamsType, Ordered, Drained, CountersType
<1>2. ASSUME applied' = applied PROVE \A p \in Pages : applied'[p] >= applied[p]
  BY <1>0, <1>2 DEF CountersType
<1>3. ASSUME Thins(toHost', toHost), toHost' \in Seq(ReqFrames),
             Thins(toBadge', toBadge), toBadge' \in Seq(AnsFrames),
             UNCHANGED <<held, store, applied, drained>>, ex' \in {ex, ex + 1},
             (pc' = pc /\ ask' = ask) \/ (pc' = "attempt" /\ ask' \in Asks)
      PROVE  Inv' /\ \A p \in Pages : applied'[p] >= applied[p]
  <2>1. StreamsType' /\ CountersType'
    BY <1>0, <1>1, <1>3 DEF StreamsType, CountersType
  <2>2. Ordered'
    BY <1>0, <1>1, <1>3, <2>1, Thinning DEF CountersType
  <2> QED
    BY <1>2, <1>3, <2>1, <2>2 DEF Inv
<1>4. ASSUME NEW a \in Asks, BeginExchange(a)
      PROVE  Inv' /\ \A p \in Pages : applied'[p] >= applied[p]
  BY <1>0, <1>1, <1>3, <1>4 DEF BeginExchange, hostVars, StreamsType
<1>5. CASE BadgeStep \/ Pump
  BY <1>2, <1>5, BadgeStepInv
<1>6. CASE HostStep
  BY <1>6, HostStepInv
<1>7. CASE LoseRequest
  <2>1. PICK i \in 1 .. Len(toHost) : toHost' = RemoveAt(toHost, i)
    BY <1>7 DEF LoseRequest
  <2>2. Thins(toHost', toHost) /\ toHost' \in Seq(ReqFrames)
    BY <1>0, <2>1, ThinsRemoveAt DEF StreamsType
  <2>3. UNCHANGED <<toBadge, held, store, applied, drained, ex, pc, ask>>
    BY <1>7 DEF LoseRequest, hostVars, badgeVars, auxVars
  <2> QED
    BY <1>0, <1>1, <1>3, <2>2, <2>3 DEF StreamsType
<1>8. CASE LoseAnswer
  <2>1. PICK i \in 1 .. Len(toBadge) : toBadge' = RemoveAt(toBadge, i)
    BY <1>8 DEF LoseAnswer
  <2>2. Thins(toBadge', toBadge) /\ toBadge' \in Seq(AnsFrames)
    BY <1>0, <2>1, ThinsRemoveAt DEF StreamsType
  <2>3. UNCHANGED <<toHost, held, store, applied, drained, ex, pc, ask>>
    BY <1>8 DEF LoseAnswer, hostVars, badgeVars, auxVars
  <2> QED
    BY <1>0, <1>1, <1>3, <2>2, <2>3 DEF StreamsType
<1>9. CASE ServiceFails \/ Expire \/ UNCHANGED vars
  <2>1. UNCHANGED <<toHost, toBadge, held, store, applied, drained, ex, pc, ask>>
    BY <1>9 DEF ServiceFails, Expire, vars, hostVars, badgeVars, auxVars
  <2> QED
    BY <1>0, <1>1, <1>3, <2>1 DEF StreamsType
<1> QED
  BY <1>4, <1>5, <1>6, <1>7, <1>8, <1>9 DEF Next

(***************************************************************************)
(* The invariant of the two streams holds of every state of the protocol.  *)
(***************************************************************************)
THEOREM StreamsInOrder == Spec => []Inv
BY InitInv, NextInv, PTL DEF Spec

(***************************************************************************)
(* Once a write was answered by its own WriteAck, nothing of an earlier    *)
(* exchange is in flight: for every retry budget, number of exchanges and  *)
(* of ReadReqs that overtake a WriteReq, with losses, give-ups and         *)
(* refusals.                                                               *)
(***************************************************************************)
THEOREM OwnAckLeavesNothingOlder == Spec => []OwnAckDrains
<1>1. Inv => OwnAckDrains
  BY DEF Inv, Ordered, Drained, NotOlder, OwnAckDrains
<1> QED
  BY <1>1, StreamsInOrder, PTL

(***************************************************************************)
(* serve_once applies writes to the image in the order in which the badge  *)
(* asked for them: no late duplicate of a WriteReq undoes a newer one.     *)
(***************************************************************************)
THEOREM WritesInOrder == Spec => StoreNeverRegresses
<1>1. ASSUME Inv, [Next]_vars PROVE [\A p \in Pages : applied'[p] >= applied[p]]_vars
  BY <1>1, NextInv
<1> QED
  BY <1>1, StreamsInOrder, PTL DEF Spec, StoreNeverRegresses
===============================================================================
