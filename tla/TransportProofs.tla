---------------------------- MODULE TransportProofs ----------------------------
(***************************************************************************)
(* Proofs about Transport.tla and Framing.tla: for every reply length,     *)
(* delivery size, ring, packet and budget; for every payload, stray byte   *)
(* and cut of the stream.                                                  *)
(*                                                                         *)
(* The receive path: what the reader's program counter says about the      *)
(* server, the flag and the packets in its hands makes the stream          *)
(* invariant inductive.  The transmit path: the tally of the send under    *)
(* way counts the units it has handed over.  The framing: where on the     *)
(* line each whole frame stands, and that nothing else there would be      *)
(* accepted as a frame known here.                                         *)
(***************************************************************************)
EXTENDS Transport, Framing, SequenceTheorems, WellFoundedInduction, TLAPS

-------------------------------------------------------------------------------
(* Sequences. *)

\* Concatenation under a name, which keeps the provers from unfolding it.
Cat(s, t) == s \o t

\* Concatenation is associative, and the empty sequence is its unit.
LEMMA CatProperties ==
  ASSUME NEW S
  PROVE  /\ <<>> \in Seq(S)
         /\ \A s \in Seq(S) : Cat(s, <<>>) = s /\ Cat(<<>>, s) = s
         /\ \A s, t \in Seq(S) : Cat(s, t) \in Seq(S)
         /\ \A s, t, u \in Seq(S) : Cat(s, Cat(t, u)) = Cat(Cat(s, t), u)
         /\ \A s \in Seq(S) : \A x \in S : Append(s, x) = Cat(s, <<x>>) /\ <<x>> \in Seq(S)
<1>1. <<>> \in Seq(S)
  BY EmptySeq
<1>2. \A s \in Seq(S) : Cat(s, <<>>) = s /\ Cat(<<>>, s) = s
  BY ConcatEmptySeq DEF Cat
<1>3. \A s, t \in Seq(S) : Cat(s, t) \in Seq(S)
  BY ConcatProperties DEF Cat
<1>4. ASSUME NEW s \in Seq(S), NEW t \in Seq(S), NEW u \in Seq(S)
      PROVE  Cat(s, Cat(t, u)) = Cat(Cat(s, t), u)
  <2>1. (s \o t) \o u = s \o (t \o u)
    BY ConcatAssociative
  <2> QED
    BY <2>1, Zenon DEF Cat
<1>5. ASSUME NEW s \in Seq(S), NEW x \in S PROVE Append(s, x) = Cat(s, <<x>>) /\ <<x>> \in Seq(S)
  BY AppendIsConcat DEF Cat
<1> QED
  BY <1>1, <1>2, <1>3, <1>4, <1>5

\* Every nonempty set of naturals has a least element.
LEMMA LeastNatural ==
  ASSUME NEW T \in SUBSET Nat, T # {}
  PROVE  \E x \in T : \A y \in T : x <= y
<1>1. IsWellFoundedOn(OpToRel(<, Nat), Nat)
  BY NatLessThanWellFounded
<1>2. PICK x \in T : \A y \in T : ~ (<<y, x>> \in OpToRel(<, Nat))
  BY <1>1, WFMin
<1>3. \A y \in T : ~(y < x)
  BY <1>2 DEF OpToRel
<1> QED
  BY <1>3

\* Induction over the naturals, for a set of them.
LEMMA SetInduction ==
  ASSUME NEW T \in SUBSET Nat, 0 \in T, \A n \in T : n + 1 \in T
  PROVE  T = Nat
<1> SUFFICES ASSUME Nat \ T # {} PROVE FALSE
  OBVIOUS
<1>1. PICK x \in Nat \ T : \A y \in Nat \ T : x <= y
  BY LeastNatural
<1>2. x - 1 \in Nat /\ x - 1 \in T
  BY <1>1
<1> QED
  BY <1>1, <1>2

\* g concatenates the first 1, 2, ..., n sequences of s.
Unfolds(g, s, n) == g = [i \in 1 .. n |-> IF i = 1 THEN s[i] ELSE g[i - 1] \o s[i]]

\* FlattenSeq's recursion has a solution.
LEMMA UnfoldsExists ==
  ASSUME NEW s
  PROVE  \A n \in Nat : \E g : Unfolds(g, s, n)
<1> DEFINE T == {n \in Nat : \E g : Unfolds(g, s, n)}
<1>1. 0 \in T
  <2> DEFINE g == [i \in 1 .. 0 |-> 0]
  <2>1. Unfolds(g, s, 0)
    BY DEF Unfolds
  <2> QED
    BY <2>1
<1>2. ASSUME NEW n \in T PROVE n + 1 \in T
  <2>1. PICK g : Unfolds(g, s, n)
    OBVIOUS
  <2>a. n \in Nat
    OBVIOUS
  <2> HIDE DEF T
  <2> DEFINE last == IF n = 0 THEN s[1] ELSE g[n] \o s[n + 1]
             h == [i \in 1 .. n + 1 |-> IF i = n + 1 THEN last ELSE g[i]]
  <2>2. \A i \in 1 .. n : g[i] = IF i = 1 THEN s[i] ELSE g[i - 1] \o s[i]
    BY <2>1 DEF Unfolds
  <2>3. \A i \in 1 .. n + 1 : h[i] = IF i = 1 THEN s[i] ELSE h[i - 1] \o s[i]
    <3> TAKE i \in 1 .. n + 1
    <3>1. CASE i = 1
      <4>1. CASE n = 0
        BY <3>1, <4>1
      <4>2. CASE n # 0
        <5>1. i \in 1 .. n /\ i # n + 1
          BY <2>a, <3>1, <4>2
        <5> QED
          BY <2>2, <3>1, <5>1
      <4> QED
        BY <4>1, <4>2
    <3>2. CASE i # 1 /\ i = n + 1
      <4>1. n # 0 /\ i - 1 = n /\ n \in 1 .. n + 1 /\ n # n + 1
        BY <2>a, <3>2
      <4>2. h[n] = g[n] /\ h[i] = last
        BY <3>2, <4>1
      <4> QED
        BY <3>2, <4>1, <4>2
    <3>3. CASE i # 1 /\ i # n + 1
      <4>1. i \in 1 .. n /\ i - 1 \in 1 .. n + 1 /\ i - 1 # n + 1
        BY <2>a, <3>3
      <4>2. h[i] = g[i] /\ h[i - 1] = g[i - 1]
        BY <3>3, <4>1
      <4> QED
        BY <2>2, <3>3, <4>1, <4>2
    <3> QED
      BY <3>1, <3>2, <3>3
  <2>4. DOMAIN h = 1 .. n + 1 /\ h = [i \in 1 .. n + 1 |-> h[i]]
    OBVIOUS
  <2> HIDE DEF h
  <2>5. h = [i \in 1 .. n + 1 |-> IF i = 1 THEN s[i] ELSE h[i - 1] \o s[i]]
    BY <2>3, <2>4
  <2>6. \E k : Unfolds(k, s, n + 1)
    BY <2>5 DEF Unfolds
  <2> QED
    BY <2>a, <2>6 DEF T
<1>3. T \in SUBSET Nat
  OBVIOUS
<1> HIDE DEF T
<1>4. T = Nat
  BY <1>1, <1>2, <1>3, SetInduction
<1> QED
  BY <1>4 DEF T

\* FlattenSeq is the last value of its recursion.
LEMMA FlattenUnfolds ==
  ASSUME NEW s, Len(s) \in Nat \ {0}
  PROVE  \E g : Unfolds(g, s, Len(s)) /\ FlattenSeq(s) = g[Len(s)]
<1> DEFINE G == CHOOSE g : g = [i \in 1 .. Len(s) |-> IF i = 1 THEN s[i] ELSE g[i - 1] \o s[i]]
<1>1. \E g : g = [i \in 1 .. Len(s) |-> IF i = 1 THEN s[i] ELSE g[i - 1] \o s[i]]
  BY UnfoldsExists DEF Unfolds
<1>2. Unfolds(G, s, Len(s))
  BY <1>1 DEF Unfolds
<1>3. FlattenSeq(s) = G[Len(s)]
  BY Zenon DEF FlattenSeq
<1> QED
  BY <1>2, <1>3

\* s and t begin with the same n elements.
Same(s, t, n) == \A i \in 1 .. n : s[i] = t[i]

\* The recursions over two sequences agree as far as the sequences do.
LEMMA UnfoldsAgree ==
  ASSUME NEW n \in Nat, NEW m \in Nat, n <= m,
         NEW s, NEW t, Same(s, t, n),
         NEW g, NEW h, Unfolds(g, s, n), Unfolds(h, t, m)
  PROVE  Same(g, h, n)
<1> DEFINE T == {i \in 1 .. n : g[i] # h[i]}
<1> SUFFICES ASSUME T # {} PROVE FALSE
  BY DEF Same
<1>1. PICK x \in T : \A y \in T : x <= y
  <2>1. T \in SUBSET Nat
    OBVIOUS
  <2> HIDE DEF T
  <2> QED
    BY <2>1, LeastNatural
<1>2. x \in 1 .. n /\ g[x] # h[x] /\ s[x] = t[x]
  BY <1>1 DEF Same
<1>3. x \in 1 .. m
  BY <1>2
<1>4. /\ g[x] = IF x = 1 THEN s[x] ELSE g[x - 1] \o s[x]
      /\ h[x] = IF x = 1 THEN t[x] ELSE h[x - 1] \o t[x]
  BY <1>2, <1>3 DEF Unfolds
<1>5. x # 1
  BY <1>2, <1>4
<1>6. x - 1 \in 1 .. n /\ ~(x <= x - 1)
  BY <1>2, <1>5
<1>7. g[x - 1] = h[x - 1]
  BY <1>1, <1>6
<1> QED
  BY <1>2, <1>4, <1>5, <1>7

\* t is s with one more sequence.
LEMMA FlattenOneMore ==
  ASSUME NEW S, NEW s \in Seq(Seq(S)), NEW t \in Seq(Seq(S)),
         Len(t) = Len(s) + 1, \A i \in 1 .. Len(s) : t[i] = s[i]
  PROVE  FlattenSeq(t) = Cat(FlattenSeq(s), t[Len(t)])
<1>a. PICK n \in Nat : n = Len(s)
  BY LenProperties
<1>0. n + 1 \in Nat \ {0} /\ n + 1 \in 1 .. n + 1 /\ n <= n + 1 /\ n <= n
  OBVIOUS
<1>1. PICK h : Unfolds(h, t, n + 1) /\ FlattenSeq(t) = h[n + 1]
  <2>1. Len(t) \in Nat \ {0}
    BY <1>a
  <2>2. \E h : Unfolds(h, t, Len(t)) /\ FlattenSeq(t) = h[Len(t)]
    BY <2>1, FlattenUnfolds
  <2> QED
    BY <1>a, <2>2
<1>b. \A i \in 1 .. n + 1 : h[i] = IF i = 1 THEN t[i] ELSE h[i - 1] \o t[i]
  BY <1>1 DEF Unfolds
<1>2. h[n + 1] = IF n + 1 = 1 THEN t[n + 1] ELSE h[n + 1 - 1] \o t[n + 1]
  BY <1>0, <1>b
<1>3. CASE n = 0
  <2>1. FlattenSeq(s) = s /\ s = <<>>
    BY <1>a, <1>3, EmptySeq DEF FlattenSeq
  <2>2. t[n + 1] \in Seq(S)
    BY <1>a, <1>0, ElementOfSeq
  <2>3. \A u \in Seq(S) : Cat(<<>>, u) = u
    BY ConcatEmptySeq DEF Cat
  <2> QED
    BY <1>a, <1>1, <1>2, <1>3, <2>1, <2>2, <2>3
<1>4. CASE n # 0
  <2>1. n \in Nat \ {0} /\ n \in 1 .. n /\ n + 1 - 1 = n /\ n + 1 # 1
    BY <1>0, <1>4
  <2>2. PICK g : Unfolds(g, s, n) /\ FlattenSeq(s) = g[n]
    BY <1>a, <2>1, FlattenUnfolds
  <2>3. Same(g, h, n)
    <3>1. Same(s, t, n)
      BY <1>a DEF Same
    <3>2. PICK m \in Nat : m = n + 1 /\ n <= m
      OBVIOUS
    <3>3. Unfolds(g, s, n) /\ Unfolds(h, t, m)
      BY <1>1, <2>2, <3>2
    <3> QED
      BY <3>1, <3>2, <3>3, UnfoldsAgree
  <2> QED
    BY <1>a, <1>1, <1>2, <2>1, <2>2, <2>3 DEF Cat, Same
<1> QED
  BY <1>3, <1>4

\* Flattening sequences of S gives a sequence of S.
LEMMA FlattenType ==
  ASSUME NEW S, NEW s \in Seq(Seq(S))
  PROVE  FlattenSeq(s) \in Seq(S)
<1> DEFINE n == Len(s)
<1>0. n \in Nat /\ \A i \in 1 .. n : s[i] \in Seq(S)
  BY LenProperties, ElementOfSeq
<1>1. CASE n = 0
  <2>1. FlattenSeq(s) = s /\ s = <<>>
    BY <1>1, EmptySeq DEF FlattenSeq
  <2> QED
    BY <2>1, EmptySeq
<1>2. CASE n # 0
  <2>1. PICK g : Unfolds(g, s, n) /\ FlattenSeq(s) = g[n]
    BY <1>0, <1>2, FlattenUnfolds
  <2> DEFINE T == {i \in 1 .. n : g[i] \notin Seq(S)}
  <2>2. ASSUME T # {} PROVE FALSE
    <3>1. PICK x \in T : \A y \in T : x <= y
      <4>1. T \in SUBSET Nat
        OBVIOUS
      <4> HIDE DEF T
      <4> QED
        BY <2>2, <4>1, LeastNatural
    <3>2. x \in 1 .. n /\ g[x] \notin Seq(S)
      OBVIOUS
    <3>3. g[x] = IF x = 1 THEN s[x] ELSE g[x - 1] \o s[x]
      BY <2>1, <3>2 DEF Unfolds
    <3>4. x # 1
      BY <1>0, <3>2, <3>3
    <3>5. x - 1 \in 1 .. n /\ ~(x <= x - 1)
      BY <1>0, <3>2, <3>4
    <3>6. g[x - 1] \in Seq(S)
      BY <3>1, <3>5
    <3> QED
      BY <1>0, <3>2, <3>3, <3>4, <3>6, ConcatProperties
  <2>3. n \in 1 .. n
    BY <1>0, <1>2
  <2> QED
    BY <2>1, <2>2, <2>3
<1> QED
  BY <1>1, <1>2

\* u has the elements of s and then those of t.
Joined(S, u, s, t) == /\ u \in Seq(S) /\ Len(u) = Len(s) + Len(t)
                      /\ \A i \in 1 .. Len(s) : u[i] = s[i]
                      /\ \A i \in 1 .. Len(t) : u[Len(s) + i] = t[i]

LEMMA CatAt == ASSUME NEW S, NEW s \in Seq(S), NEW t \in Seq(S) PROVE Joined(S, Cat(s, t), s, t)
<1>1. PICK m \in Nat : m = Len(s)
  BY LenProperties
<1>2. PICK n \in Nat : n = Len(t)
  BY LenProperties
<1>3. /\ Cat(s, t) \in Seq(S) /\ Len(Cat(s, t)) = m + n
      /\ \A i \in 1 .. m + n : Cat(s, t)[i] = IF i <= m THEN s[i] ELSE t[i - m]
  BY <1>1, <1>2, ConcatProperties DEF Cat
<1>4. /\ \A i \in 1 .. m : i \in 1 .. m + n /\ i <= m
      /\ \A i \in 1 .. n : m + i \in 1 .. m + n /\ ~(m + i <= m) /\ (m + i) - m = i
  OBVIOUS
<1>5. /\ \A i \in 1 .. m : Cat(s, t)[i] = s[i]
      /\ \A i \in 1 .. n : Cat(s, t)[m + i] = t[i]
  BY <1>3, <1>4
<1> QED
  BY <1>1, <1>2, <1>3, <1>5 DEF Joined

-------------------------------------------------------------------------------
(* The receive path. *)

Modes      == {"NoListener", "BinaryListener"}
ReaderPcs  == {"store", "lend", "blocked", "returned", "push", "failed", "stopped"}

RxType == /\ mode \in Modes /\ listener \in BOOLEAN /\ parked \in BOOLEAN
          /\ gave_up \in BOOLEAN
          /\ rpc \in ReaderPcs
          /\ errs \in Nat
          /\ serial_buf \in Seq(Nat) /\ d \in Seq(Nat) /\ q \in Seq(Nat) /\ taken \in Seq(Nat)
          /\ arrived \in Nat /\ cleared \in Nat /\ cleared <= arrived

\* Before the first lend nothing has got past the server.
NothingYet == mode = "NoListener" =>
                /\ ~listener
                /\ rpc \in {"store", "lend", "failed", "stopped"}
                /\ serial_buf = <<>> /\ d = <<>> /\ q = <<>> /\ taken = <<>>

\* What the reader's place says of the flag, the listener and the packets in its hands.
ReaderPlace == /\ listener <=> rpc = "blocked"
               /\ rpc \in {"lend", "blocked", "returned", "failed"} => parked
               /\ rpc \notin {"returned", "push"} => d = <<>>
               /\ gave_up <=> rpc = "stopped"
               /\ rpc = "stopped" => ~parked

\* StreamIntact: the packets c + 1, c + 2, ..., a are on their way, in order.
Packets(c, a) == [i \in 1 .. a - c |-> c + i]
InStream      == Cat(Cat(Cat(taken, q), d), serial_buf) = Packets(cleared, arrived)

RxInv == RxType /\ NothingYet /\ ReaderPlace /\ InStream

LEMMA PacketsNext ==
  ASSUME NEW c \in Nat, NEW a \in Nat, c <= a
  PROVE  /\ Packets(c, a) \in Seq(Nat)
         /\ Packets(c, a + 1) = Append(Packets(c, a), a + 1)
<1>1. a - c \in Nat /\ (a + 1) - c = (a - c) + 1 /\ (a + 1) - c \in Nat
  OBVIOUS
<1>2. /\ Packets(c, a) \in Seq(Nat) /\ Len(Packets(c, a)) = a - c
      /\ \A i \in 1 .. a - c : Packets(c, a)[i] = c + i
  <2>1. Packets(c, a) \in [1 .. a - c -> Nat]
    BY DEF Packets
  <2> QED
    BY <1>1, <2>1 DEF Packets
<1>3. /\ Packets(c, a + 1) \in Seq(Nat) /\ Len(Packets(c, a + 1)) = (a - c) + 1
      /\ \A i \in 1 .. (a - c) + 1 : Packets(c, a + 1)[i] = c + i
  <2>1. Packets(c, a + 1) \in [1 .. (a - c) + 1 -> Nat]
    BY <1>1 DEF Packets
  <2> QED
    BY <1>1, <2>1 DEF Packets
<1> DEFINE p == Packets(c, a)
<1>4. /\ Append(p, a + 1) \in Seq(Nat) /\ Len(Append(p, a + 1)) = (a - c) + 1
      /\ \A i \in 1 .. a - c : Append(p, a + 1)[i] = p[i]
      /\ Append(p, a + 1)[(a - c) + 1] = a + 1
  BY <1>2, AppendProperties
<1>5. \A i \in 1 .. (a - c) + 1 : i \in 1 .. a - c \/ i = (a - c) + 1
  BY <1>1
<1>6. c + ((a - c) + 1) = a + 1
  OBVIOUS
<1>7. \A i \in 1 .. (a - c) + 1 : Packets(c, a + 1)[i] = Append(p, a + 1)[i]
  BY <1>2, <1>3, <1>4, <1>5, <1>6
<1> QED
  BY <1>2, <1>3, <1>4, <1>7, SeqEqual

LEMMA DeliverSplits ==
  ASSUME NEW b \in Seq(Nat), Deliver(b)
  PROVE  d' \in Seq(Nat) /\ serial_buf' \in Seq(Nat) /\ d' \o serial_buf' = b
<1> DEFINE n == IF Len(b) <= BUFLEN THEN Len(b) ELSE BUFLEN
<1>1. Len(b) \in Nat /\ n \in 0 .. Len(b)
  BY LenProperties, ReceiveAssumption
<1>2. d' = SubSeq(b, 1, n) /\ serial_buf' = SubSeq(b, n + 1, Len(b))
  BY DEF Deliver
<1>3. \A i \in 1 .. Len(b) : b[i] \in Nat
  BY ElementOfSeq
<1> HIDE DEF n
<1>4. (\A i \in 1 .. n : b[i] \in Nat) /\ (\A i \in n + 1 .. Len(b) : b[i] \in Nat)
  BY <1>1, <1>3
<1>5. SubSeq(b, 1, n) \in Seq(Nat) /\ SubSeq(b, n + 1, Len(b)) \in Seq(Nat)
  BY <1>1, <1>4, SubSeqProperties
<1>6. SubSeq(b, 1, n) \o SubSeq(b, n + 1, Len(b)) = SubSeq(b, 1, Len(b))
  <2>1. 1 \in 1 .. Len(b) + 1 /\ n \in (1 - 1) .. Len(b) /\ Len(b) \in n .. Len(b)
    BY <1>1
  <2> QED
    BY <2>1, ConcatAdjacentSubSeq
<1> QED
  BY <1>2, <1>5, <1>6, SubSeqFull

LEMMA RxInitInv == ASSUME RxInit PROVE RxInv
<1>1. <<>> \in Seq(Nat)
  BY EmptySeq
<1>2. RxType
  <2>1. 0 \in Nat /\ 0 <= 0
    OBVIOUS
  <2> QED
    BY <1>1, <2>1, Zenon DEF RxInit, RxType, Modes, ReaderPcs
<1>4. NothingYet /\ ReaderPlace
  BY Zenon DEF RxInit, NothingYet, ReaderPlace
<1>3. InStream
  <2>1. Cat(Cat(Cat(<<>>, <<>>), <<>>), <<>>) = <<>>
    <3>1. Cat(<<>>, <<>>) = <<>>
      BY <1>1, CatProperties
    <3> QED
      BY <3>1, Zenon
  <2>2. Packets(0, 0) = <<>>
    BY DEF Packets
  <2> QED
    BY <2>1, <2>2 DEF InStream, RxInit
<1> QED
  BY <1>2, <1>3, <1>4 DEF RxInv

\* Steps of the reader.
LEMMA ReaderInv == ASSUME RxInv, ReaderStep PROVE RxInv'
<1>0. RxType /\ NothingYet /\ ReaderPlace /\ InStream
  BY DEF RxInv
<1>1. CASE StorePark \/ Lend \/ LendFails \/ Unpark
  <2>1. UNCHANGED <<taken, q, d, serial_buf, arrived, cleared, gave_up, errs>>
    BY <1>1 DEF StorePark, Lend, LendFails, Unpark, serverVars, mainVars, peerVars
  <2>2. InStream'
    BY <1>0, <2>1 DEF InStream
  <2>3. RxType'
    BY <1>0, <1>1, <2>1
       DEF StorePark, Lend, LendFails, Unpark, serverVars, mainVars, peerVars, RxType, Modes, ReaderPcs
  <2>4. NothingYet' /\ ReaderPlace'
    BY <1>0, <1>1, <2>1
       DEF StorePark, Lend, LendFails, Unpark, serverVars, RxType, Modes, NothingYet, ReaderPlace
  <2> QED
    BY <2>2, <2>3, <2>4 DEF RxInv
<1>2. CASE Push
  <2>1. /\ UNCHANGED <<taken, serial_buf, arrived, cleared, gave_up, errs, mode, listener, parked>>
        /\ q' = q \o d /\ d' = <<>> /\ rpc = "push" /\ rpc' = "store"
    BY <1>2 DEF Push, serverVars, mainVars, peerVars
  <2>2. q' \in Seq(Nat) /\ d' \in Seq(Nat)
    BY <1>0, <2>1, ConcatProperties, EmptySeq DEF RxType
  <2>3. InStream'
    <3>1. Cat(Cat(Cat(taken, q), d), serial_buf) = Cat(Cat(Cat(taken, Cat(q, d)), <<>>), serial_buf)
      BY <1>0, CatProperties DEF RxType
    <3>2. q' = Cat(q, d)
      BY <2>1 DEF Cat
    <3> QED
      BY <1>0, <2>1, <3>1, <3>2 DEF InStream
  <2>4. RxType'
    BY <1>0, <2>1, <2>2 DEF RxType, ReaderPcs
  <2>5. NothingYet'
    BY <1>0, <2>1 DEF NothingYet
  <2>6. ReaderPlace'
    BY <1>0, <2>1 DEF ReaderPlace
  <2> QED
    BY <2>3, <2>4, <2>5, <2>6 DEF RxInv
<1>3. CASE CountFailure
  <2>a. (errs' >= RX_ERR_BUDGET) \in BOOLEAN
    OBVIOUS
  <2>0. PICK over \in BOOLEAN : over = (errs' >= RX_ERR_BUDGET)
    BY <2>a, Zenon
  <2>1. /\ UNCHANGED <<taken, q, d, serial_buf, arrived, cleared, mode, listener>>
        /\ parked' = FALSE /\ rpc = "failed" /\ errs' = errs + 1
        /\ gave_up' = over /\ rpc' = IF over THEN "stopped" ELSE "store"
    BY <1>3, <2>0, Zenon DEF CountFailure, serverVars, mainVars, peerVars
  <2>2. InStream'
    BY <1>0, <2>1 DEF InStream
  <2>3. RxType'
    <3>1. errs' \in Nat
      BY <1>0, <2>1 DEF RxType
    <3> QED
      BY <1>0, <2>0, <2>1, <3>1, Zenon DEF RxType, ReaderPcs
  <2>4. NothingYet'
    BY <1>0, <2>1 DEF NothingYet
  <2>5. ReaderPlace'
    BY <1>0, <2>0, <2>1 DEF ReaderPlace
  <2> QED
    BY <2>2, <2>3, <2>4, <2>5 DEF RxInv
<1> QED
  BY <1>1, <1>2, <1>3 DEF ReaderStep

\* The server hands the first packets of b to the listener.
LEMMA DeliveryInv ==
  ASSUME RxInv, NEW b \in Seq(Nat), mode = "BinaryListener", listener, Deliver(b),
         UNCHANGED <<mode, cleared, parked, q, errs, gave_up, taken>>,
         arrived' \in Nat, cleared <= arrived',
         Cat(Cat(taken, q), b) = Packets(cleared, arrived')
  PROVE  RxInv'
<1>0. RxType /\ NothingYet /\ ReaderPlace /\ InStream
  BY DEF RxInv
<1>1. d' \in Seq(Nat) /\ serial_buf' \in Seq(Nat) /\ Cat(d', serial_buf') = b
  BY DeliverSplits DEF Cat
<1>2. listener' = FALSE /\ rpc' = "returned"
  BY DEF Deliver
<1>3. RxType'
  BY <1>0, <1>1, <1>2 DEF RxType, ReaderPcs
<1>6. NothingYet' /\ ReaderPlace'
  BY <1>0, <1>2, Zenon DEF NothingYet, ReaderPlace
<1>4. Cat(Cat(Cat(taken, q), d'), serial_buf') = Cat(Cat(taken, q), Cat(d', serial_buf'))
  <2>1. /\ \A x, y \in Seq(Nat) : Cat(x, y) \in Seq(Nat)
        /\ \A x, y, z \in Seq(Nat) : Cat(x, Cat(y, z)) = Cat(Cat(x, y), z)
    BY CatProperties
  <2>2. taken \in Seq(Nat) /\ q \in Seq(Nat)
    BY <1>0 DEF RxType
  <2> QED
    BY <1>1, <2>1, <2>2
<1>5. InStream'
  BY <1>1, <1>4 DEF InStream
<1> QED
  BY <1>3, <1>5, <1>6 DEF RxInv

LEMMA ServerInv == ASSUME RxInv, IrqSerialRx \/ SerialFlush PROVE RxInv'
<1>0. RxType /\ NothingYet /\ ReaderPlace /\ InStream
  BY DEF RxInv
\* What the reader has in its hands while a listener is parked: nothing.
<1>1. ASSUME d = <<>> PROVE Cat(Cat(taken, q), serial_buf) = Packets(cleared, arrived)
  <2>1. Cat(Cat(Cat(taken, q), <<>>), serial_buf) = Cat(Cat(taken, q), serial_buf)
    BY <1>0, CatProperties DEF RxType
  <2> QED
    BY <1>0, <1>1, <2>1 DEF InStream
<1>2. CASE SerialFlush
  <2>1. /\ mode = "BinaryListener" /\ listener /\ Deliver(serial_buf)
        /\ UNCHANGED <<mode, cleared, parked, q, errs, gave_up, taken, arrived>>
    BY <1>2 DEF SerialFlush, mainVars, peerVars
  <2>2. d = <<>>
    BY <1>0, <2>1 DEF ReaderPlace
  <2> QED
    BY <1>0, <1>1, <2>1, <2>2, DeliveryInv DEF RxType
<1>3. CASE IrqSerialRx
  <2> DEFINE b == Append(serial_buf, arrived + 1)
  <2>1. /\ arrived' = arrived + 1 /\ UNCHANGED <<mode, parked, q, errs, gave_up, taken>>
        /\ \/ /\ mode = "NoListener" /\ cleared' = cleared + Len(b) /\ serial_buf' = <<>>
              /\ UNCHANGED <<listener, rpc, d>>
           \/ mode = "BinaryListener" /\ listener /\ Deliver(b) /\ UNCHANGED cleared
           \/ /\ mode = "BinaryListener" /\ ~listener /\ serial_buf' = b
              /\ UNCHANGED <<listener, cleared, rpc, d>>
    BY <1>3 DEF IrqSerialRx, mainVars
  <2>2. /\ arrived' \in Nat /\ cleared <= arrived' /\ arrived + 1 \in Nat
        /\ Packets(cleared, arrived) \in Seq(Nat)
        /\ Packets(cleared, arrived') = Append(Packets(cleared, arrived), arrived + 1)
    <3>1. arrived \in Nat /\ cleared \in Nat /\ cleared <= arrived
      BY <1>0 DEF RxType
    <3>2. /\ Packets(cleared, arrived) \in Seq(Nat)
          /\ Packets(cleared, arrived + 1) = Append(Packets(cleared, arrived), arrived + 1)
      BY <3>1, PacketsNext
    <3>3. arrived + 1 \in Nat /\ cleared <= arrived + 1
      BY <3>1
    <3> QED
      BY <2>1, <3>2, <3>3
  <2>3. b \in Seq(Nat) /\ Len(b) = Len(serial_buf) + 1
    BY <1>0, <2>2, AppendProperties DEF RxType
  <2>a. /\ <<arrived + 1>> \in Seq(Nat)
        /\ \A s \in Seq(Nat) : Append(s, arrived + 1) = Cat(s, <<arrived + 1>>)
        /\ \A s, t, u \in Seq(Nat) : Cat(s, Cat(t, u)) = Cat(Cat(s, t), u)
    <3>1. PICK x \in Nat : x = arrived + 1
      BY <2>2
    <3>2. <<x>> \in Seq(Nat) /\ \A s \in Seq(Nat) : Append(s, x) = Cat(s, <<x>>)
      BY CatProperties
    <3> QED
      BY <3>1, <3>2, CatProperties
  <2>4. b = Cat(serial_buf, <<arrived + 1>>) /\ <<arrived + 1>> \in Seq(Nat)
    BY <1>0, <2>a DEF RxType
  <2> HIDE DEF b
  <2>5. ASSUME NEW p \in Seq(Nat), Cat(p, serial_buf) = Packets(cleared, arrived)
        PROVE  Cat(p, b) = Packets(cleared, arrived')
    <3>1. Cat(p, Cat(serial_buf, <<arrived + 1>>)) = Cat(Cat(p, serial_buf), <<arrived + 1>>)
      <4>1. serial_buf \in Seq(Nat)
        BY <1>0 DEF RxType
      <4> QED
        BY <2>a, <4>1, Zenon
    <3>2. Append(Packets(cleared, arrived), arrived + 1) = Cat(Packets(cleared, arrived), <<arrived + 1>>)
      BY <2>2, <2>a
    <3> QED
      BY <2>2, <2>4, <2>5, <3>1, <3>2
  <2>6. CASE mode = "NoListener"
    <3>1. /\ cleared' = cleared + 1 /\ serial_buf' = <<>> /\ UNCHANGED <<listener, rpc, d>>
          /\ serial_buf = <<>> /\ d = <<>> /\ q = <<>> /\ taken = <<>>
      BY <1>0, <2>1, <2>3, <2>6 DEF NothingYet
    <3>2. cleared = arrived
      <4>1. Cat(Cat(Cat(<<>>, <<>>), <<>>), <<>>) = <<>>
        BY CatProperties
      <4>2. Packets(cleared, arrived) = <<>>
        BY <1>0, <3>1, <4>1 DEF InStream
      <4>3. DOMAIN Packets(cleared, arrived) = 1 .. arrived - cleared
        BY DEF Packets
      <4>4. 1 .. arrived - cleared = {}
        BY <4>2, <4>3
      <4> QED
        BY <1>0, <4>4 DEF RxType
    <3>3. Packets(cleared', arrived') = Packets(cleared, arrived)
      <4>1. cleared' = arrived' /\ cleared' \in Nat /\ arrived' - cleared' = 0 /\ arrived - cleared = 0
        BY <1>0, <2>1, <2>2, <3>1, <3>2 DEF RxType
      <4>2. [i \in 1 .. 0 |-> cleared' + i] = [i \in 1 .. 0 |-> cleared + i]
        OBVIOUS
      <4> QED
        BY <4>1, <4>2 DEF Packets
    <3>4. InStream'
      BY <1>0, <2>1, <3>1, <3>3 DEF InStream
    <3>5. RxType'
      BY <1>0, <2>1, <2>2, <3>1, <3>2 DEF RxType
    <3>6. NothingYet' /\ ReaderPlace'
      BY <1>0, <2>1, <3>1 DEF NothingYet, ReaderPlace
    <3> QED
      BY <3>4, <3>5, <3>6 DEF RxInv
  <2>7. CASE mode = "BinaryListener" /\ listener
    <3>1. d = <<>> /\ Deliver(b) /\ UNCHANGED cleared
      BY <1>0, <2>1, <2>7 DEF ReaderPlace
    <3>2. Cat(Cat(taken, q), b) = Packets(cleared, arrived')
      BY <1>0, <1>1, <2>5, <3>1, CatProperties DEF RxType
    <3> QED
      BY <2>1, <2>2, <2>3, <2>7, <3>1, <3>2, DeliveryInv
  <2>8. CASE mode = "BinaryListener" /\ ~listener
    <3>1. serial_buf' = b /\ UNCHANGED <<listener, cleared, rpc, d>>
      BY <2>1, <2>8
    <3>2. Cat(Cat(taken, q), d) \in Seq(Nat)
      BY <1>0, CatProperties DEF RxType
    <3>3. InStream'
      BY <1>0, <2>1, <2>5, <3>1, <3>2 DEF InStream
    <3>4. RxType'
      BY <1>0, <2>1, <2>2, <2>3, <3>1 DEF RxType
    <3>5. NothingYet' /\ ReaderPlace'
      BY <1>0, <2>1, <2>8, <3>1 DEF NothingYet, ReaderPlace
    <3> QED
      BY <3>3, <3>4, <3>5 DEF RxInv
  <2> QED
    BY <1>0, <2>6, <2>7, <2>8 DEF RxType, Modes
<1> QED
  BY <1>2, <1>3

\* The main thread: Drain moves the queue, nothing else touches what the reader shares.
LEMMA MainInv ==
  ASSUME RxInv, BeginArm \/ MainStep \/ Retry \/ ArmExpires
  PROVE  RxInv'
<1>0. RxType /\ NothingYet /\ ReaderPlace /\ InStream
  BY DEF RxInv
<1>1. CASE Drain
  <2>1. /\ taken' = Cat(taken, q) /\ q' = <<>>
        /\ UNCHANGED <<serverVars, rpc, d, parked, errs, gave_up, peerVars>>
    BY <1>1 DEF Drain, Cat
  <2>2. /\ taken' \in Seq(Nat) /\ q' \in Seq(Nat)
        /\ Cat(Cat(Cat(taken, q), <<>>), d) = Cat(Cat(taken, q), d)
    BY <1>0, <2>1, CatProperties DEF RxType
  <2>3. InStream'
    BY <1>0, <2>1, <2>2 DEF InStream, serverVars, peerVars
  <2>4. RxType'
    BY <1>0, <2>1, <2>2 DEF RxType, serverVars, peerVars
  <2>5. taken = <<>> /\ q = <<>> => taken' = <<>>
    BY <2>1, CatProperties
  <2>6. NothingYet' /\ ReaderPlace'
    BY <1>0, <2>1, <2>5 DEF NothingYet, ReaderPlace, serverVars
  <2> QED
    BY <2>3, <2>4, <2>6 DEF RxInv
<1>2. CASE UNCHANGED <<serverVars, readerVars, taken, peerVars>>
  BY <1>0, <1>2
     DEF RxInv, RxType, NothingYet, ReaderPlace, InStream, serverVars, readerVars, peerVars
<1>3. CASE BeginArm \/ SampleParked \/ SampleUnparked \/ Confirm \/ ConfirmLost \/ Retry \/ ArmExpires
  BY <1>2, <1>3
     DEF BeginArm, SampleParked, SampleUnparked, NotParked, Confirm, ConfirmLost, Retry, ArmExpires
<1> QED
  BY <1>1, <1>3 DEF MainStep

-------------------------------------------------------------------------------
(* The transmit path. *)

UnitsOf(f, n) == [i \in 1 .. n |-> <<f, i>>]
Units(s)      == [f \in 1 .. Len(s) |-> UnitsOf(f, s[f].accepted)]

Wires   == Nat \X Nat
Results == {"none", "ok", "Stalled", "Failed", "TimedOut"}
Tallies == [asked : Nat, accepted : Nat, res : Results]

TxType == /\ spc \in {"idle", "sending", "flush", "returned"}
          /\ sent \in Nat
          /\ sends \in Seq(Tallies)
          /\ ring \in Seq(Wires) /\ wire \in Seq(Wires)

\* The tally of the send under way counts what has been handed over of it.
TxPlace == spc = "sending" => /\ sends # <<>>
                              /\ Tally.accepted = sent
                              /\ sent < Tally.asked
                              /\ Tally.res = "none"

OkIsWhole == \A f \in 1 .. Len(sends) : sends[f].res = "ok" => sends[f].accepted = sends[f].asked

OnTheWay == Cat(wire, ring) = FlattenSeq(Units(sends))

TxInv == TxType /\ TxPlace /\ OkIsWhole /\ OnTheWay

LEMMA UnitsOfType ==
  ASSUME NEW f \in Nat, NEW n \in Nat
  PROVE  UnitsOf(f, n) \in Seq(Wires) /\ Len(UnitsOf(f, n)) = n
<1>1. UnitsOf(f, n) \in [1 .. n -> Wires]
  BY DEF UnitsOf, Wires
<1> QED
  BY <1>1 DEF UnitsOf

\* Units n + 1, ..., n + m follow units 1, ..., n.
LEMMA UnitsOfMore ==
  ASSUME NEW f \in Nat, NEW n \in Nat, NEW m \in Nat
  PROVE  /\ [i \in 1 .. m |-> <<f, n + i>>] \in Seq(Wires)
         /\ UnitsOf(f, n + m) = Cat(UnitsOf(f, n), [i \in 1 .. m |-> <<f, n + i>>])
<1> DEFINE a == UnitsOf(f, n)
           b == [i \in 1 .. m |-> <<f, n + i>>]
           c == UnitsOf(f, n + m)
<1>1. a \in Seq(Wires) /\ Len(a) = n /\ c \in Seq(Wires) /\ Len(c) = n + m
  BY UnitsOfType
<1>2. b \in Seq(Wires) /\ Len(b) = m
  <2>1. b \in [1 .. m -> Wires]
    BY DEF Wires
  <2> QED
    BY <2>1
<1> HIDE DEF a, b, c
<1>3. /\ a \o b \in Seq(Wires) /\ Len(a \o b) = n + m
      /\ \A i \in 1 .. n + m : (a \o b)[i] = IF i <= n THEN a[i] ELSE b[i - n]
  BY <1>1, <1>2, ConcatProperties
<1>4. \A i \in 1 .. n + m : c[i] = (a \o b)[i]
  <2> TAKE i \in 1 .. n + m
  <2>1. c[i] = <<f, i>>
    BY DEF UnitsOf, c
  <2>2. CASE i <= n
    <3>1. a[i] = <<f, i>>
      BY <2>2 DEF UnitsOf, a
    <3> QED
      BY <1>3, <2>1, <2>2, <3>1
  <2>3. CASE ~(i <= n)
    <3>1. i - n \in 1 .. m /\ n + (i - n) = i
      BY <2>3
    <3>2. b[i - n] = <<f, i>>
      BY <3>1 DEF b
    <3> QED
      BY <1>3, <2>1, <2>3, <3>2
  <2> QED
    BY <2>2, <2>3
<1>5. c = a \o b
  BY <1>1, <1>3, <1>4, SeqEqual
<1> QED
  BY <1>2, <1>5 DEF a, b, c, Cat

LEMMA UnitsType ==
  ASSUME NEW s \in Seq(Tallies)
  PROVE  /\ Units(s) \in Seq(Seq(Wires)) /\ Len(Units(s)) = Len(s)
         /\ \A f \in 1 .. Len(s) : Units(s)[f] = UnitsOf(f, s[f].accepted) /\ s[f] \in Tallies
         /\ FlattenSeq(Units(s)) \in Seq(Wires)
<1>1. Len(s) \in Nat /\ \A f \in 1 .. Len(s) : s[f] \in Tallies
  BY LenProperties, ElementOfSeq
<1>2. \A f \in 1 .. Len(s) : f \in Nat /\ s[f].accepted \in Nat
  BY <1>1 DEF Tallies
<1>3. \A f \in 1 .. Len(s) : UnitsOf(f, s[f].accepted) \in Seq(Wires)
  BY <1>2, UnitsOfType
<1>4. Units(s) \in [1 .. Len(s) -> Seq(Wires)]
  BY <1>3 DEF Units
<1>5. Units(s) \in Seq(Seq(Wires)) /\ Len(Units(s)) = Len(s)
  BY <1>1, <1>4
<1> QED
  BY <1>1, <1>5, FlattenType DEF Units

\* One more send, or the last one alone taken away.
LEMMA UnitsOneMore ==
  ASSUME NEW s \in Seq(Tallies), NEW t \in Seq(Tallies),
         Len(t) = Len(s) + 1, Same(t, s, Len(s))
  PROVE  FlattenSeq(Units(t)) = Cat(FlattenSeq(Units(s)), UnitsOf(Len(t), t[Len(t)].accepted))
<1>1. Len(s) \in Nat /\ Len(t) \in 1 .. Len(t) /\ \A f \in 1 .. Len(s) : f \in 1 .. Len(t)
  BY LenProperties
<1>2. /\ Units(s) \in Seq(Seq(Wires)) /\ Units(t) \in Seq(Seq(Wires))
      /\ Len(Units(t)) = Len(Units(s)) + 1
  BY UnitsType
<1>3. \A f \in 1 .. Len(Units(s)) : Units(t)[f] = Units(s)[f]
  BY <1>1, UnitsType DEF Same
<1>4. Units(t)[Len(Units(t))] = UnitsOf(Len(t), t[Len(t)].accepted)
  BY <1>1, UnitsType
<1> QED
  BY <1>2, <1>3, <1>4, FlattenOneMore

\* The tally of the send under way is replaced.
LEMMA TallyReplaced ==
  ASSUME TxType, sends # <<>>, NEW y \in Tallies, NEW m \in Nat,
         y.accepted = Tally.accepted + m,
         sends' = [sends EXCEPT ![Len(sends)] = y]
  PROVE  /\ sends' \in Seq(Tallies) /\ Len(sends') = Len(sends) /\ Tally' = y
         /\ Tally \in Tallies /\ Len(sends) \in Nat
         /\ \A f \in 1 .. Len(sends) : f # Len(sends) => sends'[f] = sends[f]
         /\ [i \in 1 .. m |-> <<Len(sends), Tally.accepted + i>>] \in Seq(Wires)
         /\ FlattenSeq(Units(sends')) =
              Cat(FlattenSeq(Units(sends)), [i \in 1 .. m |-> <<Len(sends), Tally.accepted + i>>])
<1>1. PICK n \in Nat : n = Len(sends) - 1 /\ n + 1 = Len(sends) /\ n + 1 \in 1 .. Len(sends)
  BY EmptySeq DEF TxType
<1>2. /\ sends' \in Seq(Tallies) /\ Len(sends') = n + 1 /\ sends'[n + 1] = y
      /\ \A f \in 1 .. n + 1 : f # n + 1 => sends'[f] = sends[f]
  BY <1>1, ExceptSeq DEF TxType
<1>3. Tally = sends[n + 1] /\ Tally' = y /\ Tally \in Tallies
  BY <1>1, <1>2, ElementOfSeq DEF Tally, Last, TxType
<1> DEFINE s == SubSeq(sends, 1, n)
<1>4. s \in Seq(Tallies) /\ Len(s) = n /\ \A f \in 1 .. n : s[f] = sends[f]
  <2>1. \A f \in 1 .. n : sends[f] \in Tallies
    BY <1>1, ElementOfSeq DEF TxType
  <2> QED
    BY <2>1, SubSeqProperties
<1> HIDE DEF s
<1>5. Same(sends, s, Len(s)) /\ Same(sends', s, Len(s))
  <2>1. \A f \in 1 .. n : f \in 1 .. n + 1 /\ f # n + 1
    OBVIOUS
  <2> QED
    BY <1>2, <1>4, <2>1 DEF Same
<1>6. PICK a \in Nat : a = Tally.accepted
  BY <1>3 DEF Tallies
<1> DEFINE new == [i \in 1 .. m |-> <<n + 1, a + i>>]
<1>7. new \in Seq(Wires) /\ UnitsOf(n + 1, a + m) = Cat(UnitsOf(n + 1, a), new)
  <2>1. \A f \in Nat : /\ [i \in 1 .. m |-> <<f, a + i>>] \in Seq(Wires)
                       /\ UnitsOf(f, a + m) = Cat(UnitsOf(f, a), [i \in 1 .. m |-> <<f, a + i>>])
    BY UnitsOfMore
  <2>2. n + 1 \in Nat
    OBVIOUS
  <2> QED
    BY <2>1, <2>2
<1> HIDE DEF new
<1>8. FlattenSeq(Units(sends)) = Cat(FlattenSeq(Units(s)), UnitsOf(n + 1, a))
  BY <1>1, <1>3, <1>4, <1>5, <1>6, UnitsOneMore DEF TxType
<1>9. FlattenSeq(Units(sends')) = Cat(FlattenSeq(Units(s)), UnitsOf(n + 1, a + m))
  <2>1. sends'[Len(sends')].accepted = a + m /\ Len(sends') = n + 1
    BY <1>2, <1>6
  <2>2. sends' \in Seq(Tallies) /\ s \in Seq(Tallies) /\ Len(sends') = Len(s) + 1
    BY <1>2, <1>4
  <2>3. FlattenSeq(Units(sends')) =
          Cat(FlattenSeq(Units(s)), UnitsOf(Len(sends'), sends'[Len(sends')].accepted))
    BY <1>5, <2>2, UnitsOneMore
  <2> QED
    BY <2>1, <2>3
<1>10. FlattenSeq(Units(s)) \in Seq(Wires) /\ UnitsOf(n + 1, a) \in Seq(Wires)
  BY <1>4, UnitsType, UnitsOfType
<1>11. FlattenSeq(Units(sends')) = Cat(FlattenSeq(Units(sends)), new)
  BY <1>7, <1>8, <1>9, <1>10, CatProperties
<1>12. new = [i \in 1 .. m |-> <<Len(sends), Tally.accepted + i>>]
  BY <1>1, <1>6 DEF new
<1> QED
  BY <1>1, <1>2, <1>3, <1>7, <1>11, <1>12

LEMMA TxInitInv == ASSUME TxInit PROVE TxInv
<1>1. TxType /\ TxPlace
  BY EmptySeq DEF TxInit, TxType, TxPlace
<1>2. OkIsWhole
  <2>1. Len(sends) = 0
    BY EmptySeq DEF TxInit
  <2> QED
    BY <2>1 DEF OkIsWhole
<1>3. OnTheWay
  <2>1. Cat(<<>>, <<>>) = <<>>
    BY CatProperties
  <2>2. Units(<<>>) = <<>>
    BY DEF Units
  <2>3. FlattenSeq(<<>>) = <<>>
    BY EmptySeq DEF FlattenSeq
  <2> QED
    BY <2>1, <2>2, <2>3 DEF OnTheWay, TxInit
<1> QED
  BY <1>1, <1>2, <1>3 DEF TxInv

LEMMA BeginSendInv ==
  ASSUME TxInv, NEW n \in Lengths, BeginSend(n)
  PROVE  TxInv'
<1>0. TxType /\ TxPlace /\ OkIsWhole /\ OnTheWay
  BY DEF TxInv
<1> DEFINE y == [asked |-> n, accepted |-> 0, res |-> "none"]
<1>1. n \in Nat \ {0}
  BY TransmitAssumption
<1>2. y \in Tallies /\ y.accepted = 0 /\ y.asked = n /\ y.res = "none"
  BY <1>1 DEF Tallies, Results
<1>3. /\ sends' = Append(sends, y) /\ spc' = "sending" /\ sent' = 0
      /\ UNCHANGED <<ring, wire>>
  BY DEF BeginSend
<1> HIDE DEF y
<1>4. /\ sends' \in Seq(Tallies) /\ sends' # <<>> /\ Len(sends) \in Nat
      /\ Len(sends') = Len(sends) + 1
      /\ \A f \in 1 .. Len(sends) : sends'[f] = sends[f]
      /\ sends'[Len(sends) + 1] = y
  BY <1>0, <1>2, <1>3, AppendProperties, LenProperties DEF TxType
<1>5. TxType'
  BY <1>0, <1>3, <1>4 DEF TxType
<1>6. TxPlace'
  BY <1>1, <1>2, <1>3, <1>4 DEF TxPlace, Tally, Last
<1>7. OkIsWhole'
  <2>1. \A f \in 1 .. Len(sends') : f \in 1 .. Len(sends) \/ f = Len(sends) + 1
    BY <1>4
  <2> QED
    BY <1>0, <1>2, <1>4, <2>1 DEF OkIsWhole
<1>8. OnTheWay'
  <2>1. Same(sends', sends, Len(sends))
    BY <1>4 DEF Same
  <2>2. FlattenSeq(Units(sends')) = Cat(FlattenSeq(Units(sends)), UnitsOf(Len(sends'), 0))
    BY <1>0, <1>2, <1>4, <2>1, UnitsOneMore DEF TxType
  <2>3. UnitsOf(Len(sends'), 0) = <<>>
    BY DEF UnitsOf
  <2>4. FlattenSeq(Units(sends)) \in Seq(Wires)
    BY <1>0, UnitsType DEF TxType
  <2>5. Cat(FlattenSeq(Units(sends)), <<>>) = FlattenSeq(Units(sends))
    BY <2>4, CatProperties
  <2> QED
    BY <1>0, <1>3, <2>2, <2>3, <2>5 DEF OnTheWay
<1> QED
  BY <1>5, <1>6, <1>7, <1>8 DEF TxInv

\* m more units are handed over, and the tally is y.
LEMMA Progress ==
  ASSUME TxInv, sends # <<>>, NEW y \in Tallies, NEW m \in Nat,
         y.accepted = Tally.accepted + m, y.res = "ok" => y.accepted = y.asked,
         sends' = [sends EXCEPT ![Len(sends)] = y],
         ring' = ring \o [i \in 1 .. m |-> <<Len(sends), Tally.accepted + i>>], wire' = wire
  PROVE  /\ sends' \in Seq(Tallies) /\ sends' # <<>> /\ Tally' = y /\ ring' \in Seq(Wires)
         /\ OkIsWhole' /\ OnTheWay'
<1>0. TxType /\ OkIsWhole /\ OnTheWay
  BY DEF TxInv
<1> DEFINE new == [i \in 1 .. m |-> <<Len(sends), Tally.accepted + i>>]
<1>1. /\ sends' \in Seq(Tallies) /\ Len(sends') = Len(sends) /\ Tally' = y
      /\ Len(sends) \in Nat
      /\ \A f \in 1 .. Len(sends) : f # Len(sends) => sends'[f] = sends[f]
      /\ new \in Seq(Wires)
      /\ FlattenSeq(Units(sends')) = Cat(FlattenSeq(Units(sends)), new)
  BY <1>0, TallyReplaced
<1>2. ring' = Cat(ring, new)
  BY DEF Cat
<1> HIDE DEF new
<1>a. ring \in Seq(Wires) /\ wire \in Seq(Wires)
  BY <1>0 DEF TxType
<1>b. /\ \A s, t \in Seq(Wires) : Cat(s, t) \in Seq(Wires)
      /\ \A s, t, u \in Seq(Wires) : Cat(s, Cat(t, u)) = Cat(Cat(s, t), u)
  BY CatProperties
<1>3. ring' \in Seq(Wires)
  <2>1. new \in Seq(Wires)
    BY <1>1
  <2>2. \A u, v \in Seq(Wires) : Cat(u, v) \in Seq(Wires)
    BY <1>b, Zenon
  <2>3. Cat(ring, new) \in Seq(Wires)
    BY <1>a, <2>1, <2>2, Zenon
  <2> QED
    BY <1>2, <2>3, Zenon
<1>4. sends' # <<>>
  BY <1>0, <1>1, EmptySeq DEF TxType
<1>5. OkIsWhole'
  <2>1. sends'[Len(sends)] = y
    BY <1>1 DEF Tally, Last
  <2> QED
    BY <1>0, <1>1, <2>1 DEF OkIsWhole
<1>6. OnTheWay'
  <2>1. Cat(wire, Cat(ring, new)) = Cat(Cat(wire, ring), new)
    BY <1>1, <1>a, <1>b
  <2> QED
    BY <1>0, <1>1, <1>2, <2>1 DEF OnTheWay
<1> QED
  BY <1>1, <1>3, <1>4, <1>5, <1>6

\* The loop is left without another unit handed over.
LEMMA LeaveInv ==
  ASSUME TxInv, spc = "sending", NEW res \in Results \ {"ok"}, Leave(Tally, res),
         UNCHANGED <<sent, ring, wire>>
  PROVE  TxInv'
<1>0. TxType /\ TxPlace
  BY DEF TxInv
<1>1. sends # <<>> /\ Tally \in Tallies
  <2>1. sends # <<>> /\ Len(sends) \in Nat \ {0}
    BY <1>0, EmptySeq DEF TxType, TxPlace
  <2>2. Len(sends) \in 1 .. Len(sends)
    BY <2>1
  <2> QED
    BY <1>0, <2>1, <2>2, ElementOfSeq DEF Tally, Last, TxType
<1> DEFINE y == [Tally EXCEPT !.res = res]
<1>2. y \in Tallies /\ y.accepted = Tally.accepted /\ y.res = res /\ Tally.accepted \in Nat
  BY <1>1 DEF Tallies
<1>3. sends' = [sends EXCEPT ![Len(sends)] = y] /\ spc' \in {"flush", "returned"}
  BY DEF Leave
<1> HIDE DEF y
<1>4. [i \in 1 .. 0 |-> <<Len(sends), Tally.accepted + i>>] = <<>> /\ ring \o <<>> = ring
  BY <1>0, ConcatEmptySeq DEF TxType
<1>5. ring' = ring \o [i \in 1 .. 0 |-> <<Len(sends), Tally.accepted + i>>]
  BY <1>4
<1>6. y.accepted = Tally.accepted + 0 /\ 0 \in Nat /\ (y.res = "ok" => y.accepted = y.asked)
  BY <1>2
<1>7. /\ sends' \in Seq(Tallies) /\ ring' \in Seq(Wires) /\ OkIsWhole' /\ OnTheWay'
  BY <1>1, <1>2, <1>3, <1>5, <1>6, Progress
<1> QED
  BY <1>0, <1>3, <1>7 DEF TxInv, TxType, TxPlace

LEMMA AcceptedInv ==
  ASSUME TxInv, spc = "sending", NEW n, NEW offered \in Nat, offered <= Tally.asked - sent,
         n \in 1 .. Least(offered, RING - Len(ring)), Accepted(n, offered), UNCHANGED wire
  PROVE  TxInv'
<1>0. TxType /\ TxPlace
  BY DEF TxInv
<1>1. /\ sends # <<>> /\ Tally \in Tallies /\ Tally.accepted = sent /\ sent < Tally.asked
      /\ Tally.res = "none"
  <2>1. sends # <<>> /\ Len(sends) \in Nat \ {0}
    BY <1>0, EmptySeq DEF TxType, TxPlace
  <2>2. Len(sends) \in 1 .. Len(sends)
    BY <2>1
  <2> QED
    BY <1>0, <2>1, <2>2, ElementOfSeq DEF Tally, Last, TxType, TxPlace
<1>2. Tally.accepted \in Nat /\ Tally.asked \in Nat /\ sent \in Nat
  BY <1>0, <1>1 DEF Tallies, TxType
<1>3. n \in Nat /\ n <= Tally.asked - sent /\ Len(ring) \in Nat /\ RING \in Nat
  <2>1. Len(ring) \in Nat /\ RING \in Nat
    BY <1>0, LenProperties, TransmitAssumption DEF TxType
  <2>2. Least(offered, RING - Len(ring)) <= offered /\ Least(offered, RING - Len(ring)) \in Int
    BY <2>1 DEF Least
  <2> QED
    BY <1>2, <2>1, <2>2
<1> DEFINE x == [Tally EXCEPT !.accepted = @ + n]
<1>4. /\ x \in Tallies /\ x.accepted = sent + n /\ x.asked = Tally.asked /\ x.res = Tally.res
      /\ [x EXCEPT !.res = "ok"] \in Tallies /\ [x EXCEPT !.res = "ok"].accepted = sent + n
      /\ [x EXCEPT !.res = "ok"].asked = Tally.asked
  <2>1. Tally.accepted + n \in Nat
    BY <1>2, <1>3
  <2>2. x \in Tallies
    BY <1>1, <2>1 DEF Tallies
  <2> QED
    BY <1>1, <2>2 DEF Tallies, Results
<1>5. /\ sent' = sent + n
      /\ ring' = ring \o [i \in 1 .. n |-> <<Len(sends), sent + i>>]
      /\ \/ sent + n < Tally.asked /\ sends' = [sends EXCEPT ![Len(sends)] = x] /\ spc' = spc
         \/ /\ ~(sent + n < Tally.asked) /\ spc' \in {"flush", "returned"}
            /\ sends' = [sends EXCEPT ![Len(sends)] = [x EXCEPT !.res = "ok"]]
  BY DEF Accepted, Leave
<1> HIDE DEF x
<1>6. ring' = ring \o [i \in 1 .. n |-> <<Len(sends), Tally.accepted + i>>]
  BY <1>1, <1>5
<1>7. sent' \in Nat
  BY <1>2, <1>3, <1>5
<1>8. CASE sent + n < Tally.asked
  <2>1. sends' = [sends EXCEPT ![Len(sends)] = x] /\ spc' = spc
    BY <1>5, <1>8
  <2>2. x.res # "ok"
    BY <1>1, <1>4
  <2>3. /\ sends' \in Seq(Tallies) /\ sends' # <<>> /\ Tally' = x /\ ring' \in Seq(Wires)
        /\ OkIsWhole' /\ OnTheWay'
    BY <1>1, <1>3, <1>4, <1>6, <2>1, <2>2, Progress
  <2>4. TxType'
    BY <1>0, <1>7, <2>1, <2>3 DEF TxType
  <2>5. TxPlace'
    BY <1>1, <1>4, <1>5, <1>8, <2>3 DEF TxPlace
  <2> QED
    BY <2>3, <2>4, <2>5 DEF TxInv
<1>9. CASE ~(sent + n < Tally.asked)
  <2> DEFINE y == [x EXCEPT !.res = "ok"]
  <2>1. sends' = [sends EXCEPT ![Len(sends)] = y] /\ spc' \in {"flush", "returned"}
    BY <1>5, <1>9
  <2>2. sent + n = Tally.asked
    BY <1>2, <1>3, <1>9
  <2>3. y \in Tallies /\ y.accepted = Tally.accepted + n /\ y.accepted = y.asked
    BY <1>1, <1>4, <2>2
  <2> HIDE DEF y
  <2>4. sends' \in Seq(Tallies) /\ ring' \in Seq(Wires) /\ OkIsWhole' /\ OnTheWay'
    BY <1>1, <1>3, <1>6, <2>1, <2>3, Progress
  <2> QED
    BY <1>0, <1>7, <2>1, <2>4 DEF TxInv, TxType, TxPlace
<1> QED
  BY <1>8, <1>9

\* Every step of the transmit path.
LEMMA TxStepInv ==
  ASSUME TxInv,
         Offer \/ SinkFails \/ TimedOut \/ SendExpires \/ Flushed \/ Returns \/ OnWire \/ UNCHANGED txVars
  PROVE  TxInv'
<1>0. TxType /\ TxPlace /\ OkIsWhole /\ OnTheWay
  BY DEF TxInv
<1>1. ASSUME UNCHANGED <<sent, sends, ring, wire>>, spc' = spc \/ spc' \in {"idle", "returned"}
      PROVE  TxInv'
  BY <1>0, <1>1 DEF TxInv, TxType, TxPlace, OkIsWhole, OnTheWay, Tally
<1>2. CASE SendExpires \/ Flushed \/ Returns \/ UNCHANGED txVars
  BY <1>1, <1>2 DEF SendExpires, Flushed, Returns, txVars
<1>3. CASE SinkFails \/ TimedOut
  BY <1>3, LeaveInv DEF SinkFails, TimedOut, Results
<1>4. CASE Offer
  <2> DEFINE offered == Least(Tally.asked - sent, TX_PACKET)
  <2>1. spc = "sending" /\ UNCHANGED wire
        /\ (Refused \/ \E n \in 1 .. Least(offered, RING - Len(ring)) : Accepted(n, offered))
    BY <1>4 DEF Offer
  <2>2. CASE Refused
    <3>1. CASE Leave(Tally, "Stalled")
      BY <2>1, <2>2, <3>1, LeaveInv DEF Refused, Results
    <3>2. CASE UNCHANGED <<spc, sends>>
      BY <1>1, <2>1, <2>2, <3>2 DEF Refused
    <3> QED
      BY <2>2, <3>1, <3>2 DEF Refused
  <2>3. ASSUME NEW n \in 1 .. Least(offered, RING - Len(ring)), Accepted(n, offered) PROVE TxInv'
    <3>1. Len(sends) \in 1 .. Len(sends)
      BY <1>0, <2>1, EmptySeq DEF TxType, TxPlace
    <3>2. Tally \in Tallies
      BY <1>0, <3>1, ElementOfSeq DEF Tally, Last, TxType
    <3>3. Tally.asked \in Nat /\ sent \in Nat /\ sent < Tally.asked /\ TX_PACKET \in Nat
      BY <1>0, <2>1, <3>2, TransmitAssumption DEF Tallies, TxType, TxPlace
    <3>4. offered \in Nat /\ offered <= Tally.asked - sent
      BY <3>3 DEF Least
    <3> HIDE DEF offered
    <3> QED
      BY <2>1, <2>3, <3>4, AcceptedInv
  <2> QED
    BY <2>1, <2>2, <2>3
<1>5. CASE OnWire
  <2>1. /\ ring # <<>> /\ wire' = Append(wire, Head(ring)) /\ ring' = Tail(ring)
        /\ UNCHANGED <<spc, sent, sends>>
    BY <1>5 DEF OnWire
  <2>2. ring \in Seq(Wires) /\ wire \in Seq(Wires)
    BY <1>0 DEF TxType
  <2>3. PICK u \in Wires : u = Head(ring)
    BY <2>1, <2>2, HeadTailProperties
  <2>4. /\ Tail(ring) \in Seq(Wires) /\ wire' \in Seq(Wires) /\ <<u>> \in Seq(Wires)
        /\ wire' = Cat(wire, <<u>>) /\ ring = Cat(<<u>>, Tail(ring))
    <3>1. Tail(ring) \in Seq(Wires)
      BY <2>1, <2>2, HeadTailProperties
    <3>2. wire' = Cat(wire, <<u>>) /\ wire' \in Seq(Wires) /\ <<u>> \in Seq(Wires)
      <4>1. \A s \in Seq(Wires) : Append(s, u) = Cat(s, <<u>>) /\ <<u>> \in Seq(Wires)
        BY CatProperties
      <4>2. \A s \in Seq(Wires) : Append(s, u) \in Seq(Wires)
        BY AppendProperties
      <4> QED
        BY <2>1, <2>2, <2>3, <4>1, <4>2
    <3>3. ring = <<u>> \o Tail(ring)
      <4>1. Len(ring) \in Nat /\ 1 \in 1 .. Len(ring) /\ Len(ring) \in 1 .. Len(ring)
        BY <2>1, <2>2, EmptySeq
      <4>2. SubSeq(ring, 1, Len(ring)) = <<ring[1]>> \o SubSeq(ring, 1 + 1, Len(ring))
        BY <2>2, <4>1, SubSeqRecursiveFirst
      <4>3. SubSeq(ring, 1, Len(ring)) = ring /\ SubSeq(ring, 1 + 1, Len(ring)) = Tail(ring)
        BY <2>1, <2>2, SubSeqFull, TailIsSubSeq
      <4>4. ring[1] = u
        BY <2>1, <2>2, <2>3
      <4> QED
        BY <4>2, <4>3, <4>4
    <3> QED
      BY <3>1, <3>2, <3>3 DEF Cat
  <2>5. Cat(wire, Cat(<<u>>, Tail(ring))) = Cat(Cat(wire, <<u>>), Tail(ring))
    <3>1. \A s, t, v \in Seq(Wires) : Cat(s, Cat(t, v)) = Cat(Cat(s, t), v)
      BY CatProperties
    <3> QED
      BY <2>2, <2>4, <3>1
  <2>6. OnTheWay'
    BY <1>0, <2>1, <2>4, <2>5 DEF OnTheWay
  <2>7. TxType' /\ TxPlace' /\ OkIsWhole'
    BY <1>0, <2>1, <2>4 DEF TxType, TxPlace, OkIsWhole, Tally
  <2> QED
    BY <2>6, <2>7 DEF TxInv
<1> QED
  BY <1>2, <1>3, <1>4, <1>5

-------------------------------------------------------------------------------
(* Both together. *)

LEMMA NextInv == ASSUME RxInv /\ TxInv, [Next]_vars PROVE (RxInv /\ TxInv)'
<1>0. RxInv /\ TxInv
  OBVIOUS
<1>1. ASSUME UNCHANGED <<serverVars, readerVars, taken, arrived>> PROVE RxInv'
  BY <1>0, <1>1 DEF RxInv, RxType, NothingYet, ReaderPlace, InStream, serverVars, readerVars
<1>2. ASSUME UNCHANGED rxVars PROVE RxInv'
  BY <1>1, <1>2 DEF rxVars, mainVars, peerVars
<1>3. CASE RxStep /\ UNCHANGED txVars
  <2>1. RxInv'
    BY <1>0, <1>3, ReaderInv, ServerInv, MainInv DEF RxStep
  <2> QED
    BY <1>0, <1>3, <2>1, TxStepInv
<1>4. CASE Send
  BY <1>0, <1>1, <1>4, BeginSendInv DEF Send, BeginRequest, peerVars
<1>5. CASE SendReturns
  BY <1>0, <1>1, <1>5, TxStepInv DEF SendReturns, EndRequest, peerVars
<1>6. CASE SendFlushes
  BY <1>0, <1>2, <1>6, ServerInv, TxStepInv DEF SendFlushes
<1>7. CASE UNCHANGED rxVars /\ (Offer \/ TimedOut \/ SinkFails \/ SendExpires)
  BY <1>0, <1>2, <1>7, TxStepInv
<1>8. CASE Arrives
  <2>1. PICK rs : Answer(rs) /\ OnWire
    BY <1>8 DEF Arrives
  <2> QED
    BY <1>0, <1>1, <2>1, TxStepInv DEF Answer, mainVars
<1>9. CASE UNCHANGED vars
  BY <1>0, <1>2, <1>9, TxStepInv DEF vars
<1> QED
  BY <1>3, <1>4, <1>5, <1>6, <1>7, <1>8, <1>9 DEF Next, Sending

(***************************************************************************)
(* The invariants of both paths hold of every state of the transport.      *)
(***************************************************************************)
THEOREM TransportInvariance == Spec => [](RxInv /\ TxInv)
<1>1. Init => RxInv /\ TxInv
  BY RxInitInv, TxInitInv DEF Init
<1> QED
  BY <1>1, NextInv, PTL DEF Spec

(***************************************************************************)
(* The reader thread, the watchdog, the interrupts and a send's own flush  *)
(* lose, repeat and reorder nothing that got past the server's first       *)
(* hand-over, and the park flag is up whenever the server holds a          *)
(* listener: for every reply length, delivery size and error budget.       *)
(***************************************************************************)
THEOREM NothingLostBetweenThreads == Spec => []ReceivesIntact
<1>1. RxInv => ReceivesIntact
  BY DEF RxInv, ReaderPlace, InStream, Cat, Packets, ReceivesIntact, StreamIntact, ListenerIsAnnounced
<1> QED
  BY <1>1, TransportInvariance, PTL

(***************************************************************************)
(* send_paced hands over every unit of a frame once and in order whatever  *)
(* the ring takes of each offer, and never returns Ok for part of a frame: *)
(* for every frame length, packet size, ring and retry budget.             *)
(***************************************************************************)
THEOREM SendsAreWhole == Spec => []HandedOver
<1>1. TxInv => HandedOver
  BY DEF TxInv, OkIsWhole, OnTheWay, Cat, Units, UnitsOf, HandedOver
<1> QED
  BY <1>1, TransportInvariance, PTL

(***************************************************************************)
(* A reader that has stopped is never again taken for a parked one: the    *)
(* flag goes down before gave_up goes up, and confirm_park samples it      *)
(* once more before it lets a request leave.                               *)
(***************************************************************************)
THEOREM NoParkAfterStop == Spec => NoConfirmAfterStop
<1>1. ASSUME RxInv /\ TxInv, [Next]_vars PROVE [gave_up /\ mpc # "send" => mpc' # "send"]_rxVars
  <2> SUFFICES ASSUME gave_up, mpc # "send" PROVE mpc' # "send"
    OBVIOUS
  <2>1. ~parked
    BY <1>1 DEF RxInv, ReaderPlace
  <2>2. ASSUME RxStep PROVE mpc' # "send"
    BY <2>1, <2>2 DEF RxStep, ReaderStep, StorePark, Lend, LendFails, Unpark, Push, CountFailure,
       IrqSerialRx, SerialFlush, BeginArm, MainStep, SampleParked, SampleUnparked, Confirm,
       ConfirmLost, NotParked, Drain, Retry, ArmExpires, mainVars
  <2>3. ASSUME Send \/ SendReturns PROVE mpc' # "send"
    BY <2>3 DEF Send, BeginRequest, SendReturns, EndRequest
  <2>4. ASSUME UNCHANGED mainVars PROVE mpc' # "send"
    BY <2>4 DEF mainVars
  <2>5. ASSUME SendFlushes \/ Arrives \/ UNCHANGED rxVars PROVE UNCHANGED mainVars
    BY <2>5 DEF SendFlushes, SerialFlush, Arrives, Answer, rxVars
  <2> QED
    BY <1>1, <2>2, <2>3, <2>4, <2>5 DEF Next, Sending, vars
<1> QED
  BY <1>1, TransportInvariance, PTL DEF Spec, NoConfirmAfterStop

-------------------------------------------------------------------------------
(* Framing: where the frames stand on the line. *)

Bytes  == [v : Nat, f : Nat, i : Nat]
Frames == [ty : {Page, Ack, Console}, payload : Payloads, f : Nat \ {0}]

\* Everything that was sent, and how much of it has left the decoder's buffer.
Line == Cat(pushed, stream)
Gone == Len(pushed) - Len(buf)
Size(p) == HEADER + Len(p) + TRAILER

\* The bytes of g behind its SYNC.
Body(S, at, g, z) ==
    \A i \in 3 .. z : S[at + i - 1] = [v |-> Values(g.ty, g.payload)[i], f |-> g.f, i |-> i]

\* The frame g stands at "at", its SYNC its own or begun by a byte of text.
FrameAt(S, at, g) ==
    /\ at \in Nat \ {0} /\ at + Size(g.payload) - 1 <= Len(S)
    /\ S[at].v = LO /\ S[at].i \in {0, 1} /\ S[at + 1].v = HI /\ S[at + 1].i = 2
    /\ Body(S, at, g, Size(g.payload))

\* The decoder would accept what stands at "at".
Passes(S, at) ==
    /\ at \in Nat \ {0} /\ at + 4 <= Len(S)
    /\ S[at].v = LO /\ S[at + 1].v = HI
    /\ at + S[at + 3].v + 4 <= Len(S)
    /\ \A i \in 3 .. S[at + 3].v + 5 :
         S[at + i - 1].f = S[at + 2].f /\ S[at + i - 1].f # 0 /\ S[at + i - 1].i = i

\* st says where each of the frames gs stands; nothing else known would be accepted.
Placed(st, S, gs) ==
    /\ st \in [1 .. Len(gs) -> Nat]
    /\ \A k \in 1 .. Len(gs) : FrameAt(S, st[k], gs[k])
    /\ \A j, k \in 1 .. Len(gs) : j < k => st[j] < st[k]
    /\ \A at \in Nat : Passes(S, at) =>
          S[at + 2].v = Unknown \/ \E k \in 1 .. Len(gs) : st[k] = at

\* The first n of m frames have left the buffer, and no byte of the others.
Ahead(st, m, n, gone) == \A k \in 1 .. m : k <= n <=> st[k] <= gone

\* The header's fields, the payload and the checksum's byte.
LEMMA ValuesAt ==
  ASSUME NEW ty \in Nat, NEW p \in Seq(Nat)
  PROVE  /\ Len(p) \in Nat /\ Size(p) = Len(p) + 5
         /\ Len(Values(ty, p)) = Size(p)
         /\ \A i \in 1 .. Size(p) : Values(ty, p)[i] \in Nat
         /\ Values(ty, p)[1] = LO /\ Values(ty, p)[2] = HI
         /\ Values(ty, p)[3] = ty /\ Values(ty, p)[4] = Len(p)
         /\ \A i \in 1 .. Len(p) : Values(ty, p)[4 + i] = p[i]
<1>1. PICK l \in Nat : l = Len(p)
  BY LenProperties
<1> DEFINE h == <<LO, HI, ty, l>>
           a == Cat(h, p)
<1>2. /\ h \in Seq(Nat) /\ Len(h) = 4
      /\ h[1] = LO /\ h[2] = HI /\ h[3] = ty /\ h[4] = l
  BY DEF LO, HI
<1>3. <<0>> \in Seq(Nat) /\ Len(<<0>>) = 1 /\ <<0>>[1] = 0
  OBVIOUS
<1> HIDE DEF h
<1>4. /\ a \in Seq(Nat) /\ Len(a) = 4 + l
      /\ \A i \in 1 .. 4 : a[i] = h[i]
      /\ \A i \in 1 .. l : a[4 + i] = p[i]
  <2>1. Joined(Nat, a, h, p)
    BY <1>2, CatAt
  <2> HIDE DEF a
  <2> QED
    BY <1>1, <1>2, <2>1 DEF Joined
<1> HIDE DEF a
<1> DEFINE w == Cat(a, <<0>>)
<1>5. /\ w \in Seq(Nat) /\ Len(w) = 5 + l
      /\ \A i \in 1 .. 4 + l : w[i] = a[i]
  <2>1. Joined(Nat, w, a, <<0>>)
    BY <1>3, <1>4, CatAt
  <2> HIDE DEF w
  <2> QED
    BY <1>3, <1>4, <2>1 DEF Joined
<1>6. Values(ty, p) = w
  BY <1>1 DEF Values, w, a, h, Cat
<1> HIDE DEF w
<1>7. \A i \in 1 .. 5 + l : w[i] \in Nat
  BY <1>5, ElementOfSeq
<1>8. /\ \A i \in 1 .. 4 : w[i] = h[i]
      /\ \A i \in 1 .. l : w[4 + i] = p[i]
  <2>1. /\ \A i \in 1 .. 4 : i \in 1 .. 4 + l
        /\ \A i \in 1 .. l : 4 + i \in 1 .. 4 + l
    OBVIOUS
  <2> QED
    BY <1>4, <1>5, <2>1
<1>9. w[1] = LO /\ w[2] = HI /\ w[3] = ty /\ w[4] = l
  BY <1>2, <1>8
<1>10. Size(p) = l + 5 /\ Size(p) = 5 + l
  BY <1>1 DEF Size, HEADER, TRAILER
<1> QED
  BY <1>1, <1>5, <1>6, <1>7, <1>8, <1>9, <1>10

\* b is a frame's bytes, which are numbered and carry its name.
Encoded(b, ty, p, f) == /\ b \in Seq(Bytes) /\ Len(b) = Len(p) + 5
                        /\ \A i \in 1 .. Len(p) + 5 :
                             b[i] = [v |-> Values(ty, p)[i], f |-> f, i |-> i]

LEMMA EncodeAt ==
  ASSUME NEW ty \in Nat, NEW p \in Seq(Nat), NEW f \in Nat
  PROVE  Encoded(encode(ty, p, f), ty, p, f)
<1>1. PICK l \in Nat : l = Len(p)
  BY LenProperties
<1> DEFINE B(i) == [v |-> Values(ty, p)[i], f |-> f, i |-> i]
<1>2. \A i \in 1 .. l + 5 : B(i) \in Bytes
  BY <1>1, ValuesAt DEF Bytes
<1>3. encode(ty, p, f) = [i \in 1 .. l + 5 |-> B(i)]
  BY <1>1, ValuesAt DEF encode, Size
<1> HIDE DEF B
<1>4. [i \in 1 .. l + 5 |-> B(i)] \in Seq(Bytes) /\ Len([i \in 1 .. l + 5 |-> B(i)]) = l + 5
  BY <1>2
<1> QED
  BY <1>1, <1>3, <1>4 DEF B, Encoded

\* A frame is not inside what another passes for.
LEMMA FramesApart ==
  ASSUME NEW S, NEW at \in Nat, NEW T \in Nat, T >= 3,
         \A i \in 3 .. T : S[at + i - 1].i = i,
         NEW s, NEW g, FrameAt(S, s, g), s > at
  PROVE  s > at + T - 1
<1>1. s \in Nat /\ S[s].i \in {0, 1} /\ S[s + 1].i = 2
  BY DEF FrameAt
<1> SUFFICES ASSUME s <= at + T - 1 PROVE FALSE
  BY <1>1
<1>2. CASE s = at + 1
  <2>1. 3 \in 3 .. T /\ at + 3 - 1 = s + 1
    BY <1>2
  <2>2. S[s + 1].i = 3
    BY <2>1
  <2> QED
    BY <1>1, <2>2
<1>3. CASE s # at + 1
  <2>1. s - at + 1 \in 3 .. T /\ at + (s - at + 1) - 1 = s
    BY <1>1, <1>3
  <2>2. S[s].i = s - at + 1
    BY <2>1
  <2> QED
    BY <1>1, <2>1, <2>2
<1> QED
  BY <1>2, <1>3

\* What stands on the line stays when more is sent.
LEMMA FrameStays ==
  ASSUME NEW S \in Seq(Bytes), NEW b \in Seq(Bytes), NEW at, NEW g \in Frames, FrameAt(S, at, g)
  PROVE  FrameAt(Cat(S, b), at, g)
<1>1. PICK z \in Nat : z = Size(g.payload)
  <2>1. g.payload \in Seq(Nat)
    BY FramingAssumption DEF Frames
  <2> QED
    BY <2>1, LenProperties DEF Size, HEADER, TRAILER
<1>2. z >= 5
  <2>1. g.payload \in Seq(Nat)
    BY FramingAssumption DEF Frames
  <2> QED
    BY <1>1, <2>1, LenProperties DEF Size, HEADER, TRAILER
<1>3. PICK n \in Nat : n = Len(S)
  BY LenProperties
<1>4. at \in Nat \ {0} /\ at + z - 1 <= n
  BY <1>1, <1>3 DEF FrameAt
<1>5. /\ \A i \in 3 .. z : at + i - 1 \in 1 .. n
      /\ at \in 1 .. n /\ at + 1 \in 1 .. n
  BY <1>2, <1>4
<1>6. /\ Len(Cat(S, b)) \in Nat /\ Len(Cat(S, b)) >= n
      /\ \A i \in 1 .. n : Cat(S, b)[i] = S[i]
  <2>1. Joined(Bytes, Cat(S, b), S, b) /\ Len(b) \in Nat
    BY CatAt, LenProperties
  <2> QED
    BY <1>3, <2>1 DEF Joined
<1>7. at + z - 1 <= Len(Cat(S, b))
  BY <1>4, <1>6
<1> QED
  BY <1>1, <1>4, <1>5, <1>6, <1>7 DEF FrameAt, Body

\* The frames' names on S are at most n, and b carries only the next one.
Named(S, n) == \A j \in 1 .. Len(S) : S[j].f <= n
NamedNext(b, n) == \A m \in 1 .. Len(b) : b[m].f \in {0, n + 1}

\* A header at "at" has its type in b, under the next name.
Lands(S, b, n, at, m) == /\ at + 2 = Len(S) + m /\ b[m].f = n + 1 /\ b[m].i = 3
                         /\ Cat(S, b)[at + 2] = b[m]

\* What would be accepted and is not yet there has the new item's name.
LEMMA PassesNew ==
  ASSUME NEW S \in Seq(Bytes), NEW b \in Seq(Bytes), NEW n \in Nat, Named(S, n), NamedNext(b, n),
         NEW at \in Nat, Passes(Cat(S, b), at), ~Passes(S, at)
  PROVE  \E m \in 1 .. Len(b) : Lands(S, b, n, at, m)
<1> DEFINE U == Cat(S, b)
<1>1. PICK x \in Nat : x = Len(S)
  BY LenProperties
<1>2. PICK y \in Nat : y = Len(b)
  BY LenProperties
<1>3. /\ U \in Seq(Bytes) /\ Len(U) = x + y
      /\ \A i \in 1 .. x : U[i] = S[i]
      /\ \A i \in 1 .. y : U[x + i] = b[i]
  <2>1. Joined(Bytes, U, S, b)
    BY CatAt
  <2> HIDE DEF U
  <2> QED
    BY <1>1, <1>2, <2>1 DEF Joined
<1> HIDE DEF U
<1>4. /\ at \in Nat \ {0} /\ at + 4 <= x + y /\ U[at].v = LO /\ U[at + 1].v = HI
      /\ at + U[at + 3].v + 4 <= x + y
      /\ \A i \in 3 .. U[at + 3].v + 5 :
           U[at + i - 1].f = U[at + 2].f /\ U[at + i - 1].f # 0 /\ U[at + i - 1].i = i
  BY <1>3 DEF Passes, U
<1>5. PICK l \in Nat : l = U[at + 3].v
  <2>1. at + 3 \in 1 .. Len(U)
    BY <1>3, <1>4
  <2>2. U[at + 3] \in Bytes
    BY <1>3, <2>1, ElementOfSeq
  <2> QED
    BY <2>2 DEF Bytes
<1>6. \A i \in 3 .. l + 5 :
         U[at + i - 1].f = U[at + 2].f /\ U[at + i - 1].f # 0 /\ U[at + i - 1].i = i
  BY <1>4, <1>5
<1>7. at + l + 4 > x
  <2> SUFFICES ASSUME at + l + 4 <= x PROVE FALSE
    BY <1>4
  <2>1. \A i \in 3 .. l + 5 : at + i - 1 \in 1 .. x
    BY <1>4
  <2>2. at \in 1 .. x /\ at + 1 \in 1 .. x /\ at + 2 \in 1 .. x /\ at + 3 \in 1 .. x /\ at + 4 <= x
    BY <1>4
  <2>3. S[at + 3].v = l
    BY <1>3, <1>5, <2>2
  <2>4. \A i \in 3 .. l + 5 :
           S[at + i - 1].f = S[at + 2].f /\ S[at + i - 1].f # 0 /\ S[at + i - 1].i = i
    BY <1>3, <1>6, <2>1, <2>2
  <2>5. S[at].v = LO /\ S[at + 1].v = HI
    BY <1>3, <1>4, <2>2
  <2>6. Passes(S, at)
    BY <1>1, <1>4, <2>2, <2>3, <2>4, <2>5 DEF Passes
  <2> QED
    BY <2>6
<1>8. U[at + 2].f = n + 1
  <2>1. /\ at + l + 4 - x \in 1 .. y /\ at + (l + 5) - 1 = x + (at + l + 4 - x)
        /\ l + 5 \in 3 .. l + 5
    <3>1. at + l + 4 <= x + y
      BY <1>4, <1>5
    <3> QED
      BY <1>7, <3>1
  <2>2. U[at + (l + 5) - 1] = b[at + l + 4 - x]
    BY <1>3, <2>1
  <2>3. b[at + l + 4 - x].f \in {0, n + 1}
    BY <1>2, <2>1 DEF NamedNext
  <2>4. U[at + (l + 5) - 1].f = U[at + 2].f /\ U[at + (l + 5) - 1].f # 0
    BY <1>6, <2>1
  <2> QED
    BY <2>2, <2>3, <2>4
<1>9. ~(at + 2 \in 1 .. x)
  <2> SUFFICES ASSUME at + 2 \in 1 .. x PROVE FALSE
    OBVIOUS
  <2>1. S[at + 2].f = n + 1 /\ S[at + 2].f <= n
    BY <1>1, <1>3, <1>8 DEF Named
  <2> QED
    BY <2>1
<1>10. PICK m \in 1 .. y : at + 2 = x + m
  <2>1. at + 2 - x \in 1 .. y /\ at + 2 = x + (at + 2 - x)
    BY <1>4, <1>9
  <2> QED
    BY <2>1
<1>11. U[at + 2] = b[m]
  BY <1>3, <1>10
<1>12. U[at + 2].i = 3
  <2>1. 3 \in 3 .. l + 5 /\ at + 3 - 1 = at + 2
    BY <1>4
  <2> QED
    BY <1>6, <2>1
<1> QED
  BY <1>1, <1>2, <1>8, <1>10, <1>11, <1>12 DEF U, Lands


\* The first n of the frames gs on the line S have left the buffer, with gone bytes.
Where(S, gs, n, gone) == \E st : Placed(st, S, gs) /\ Ahead(st, Len(gs), n, gone)

\* A frame's bytes, one by one.
Shows(S, at, g) == /\ g.payload \in Seq(Nat) /\ Len(g.payload) \in Nat
                   /\ \A i \in 3 .. Len(g.payload) + 5 : S[at + i - 1].f = g.f /\ S[at + i - 1].i = i
                   /\ \A i \in 1 .. Len(g.payload) : S[at + 4 + i - 1].v = g.payload[i]

LEMMA FrameBounds ==
  ASSUME NEW S \in Seq(Bytes), NEW at, NEW g \in Frames, FrameAt(S, at, g)
  PROVE  /\ at \in Nat \ {0} /\ Len(S) \in Nat /\ at + 4 <= Len(S)
         /\ Len(g.payload) \in Nat /\ Len(g.payload) <= MAX_PAYLOAD
         /\ at + Len(g.payload) + 4 <= Len(S)
         /\ S[at].v = LO /\ S[at + 1].v = HI
         /\ S[at + 2].v = g.ty /\ S[at + 2].f = g.f /\ S[at + 3].v = Len(g.payload)
         /\ Shows(S, at, g)
<1>1. g.payload \in Payloads /\ g.ty \in Nat /\ g.f \in Nat \ {0}
  BY DEF Frames, Page, Ack, Console
<1>2. g.payload \in Seq(Nat) /\ Len(g.payload) <= MAX_PAYLOAD
  BY <1>1, FramingAssumption DEF FramingAssumption
<1>3. PICK l \in Nat : l = Len(g.payload)
  BY <1>2, LenProperties
<1>4. Size(g.payload) = l + 5
  BY <1>2, <1>3, ValuesAt, <1>1
<1>5. /\ Values(g.ty, g.payload)[3] = g.ty /\ Values(g.ty, g.payload)[4] = l
      /\ \A i \in 1 .. l : Values(g.ty, g.payload)[4 + i] = g.payload[i]
  <2>1. /\ Values(g.ty, g.payload)[3] = g.ty /\ Values(g.ty, g.payload)[4] = Len(g.payload)
        /\ \A i \in 1 .. Len(g.payload) : Values(g.ty, g.payload)[4 + i] = g.payload[i]
    <3>1. g.ty \in Nat /\ g.payload \in Seq(Nat)
      BY <1>1, <1>2
    <3> QED
      BY <3>1, ValuesAt, Zenon
  <2> QED
    BY <1>3, <2>1, Zenon
<1>6. /\ at \in Nat \ {0} /\ at + (l + 5) - 1 <= Len(S)
      /\ S[at].v = LO /\ S[at + 1].v = HI
      /\ \A i \in 3 .. l + 5 :
           S[at + i - 1] = [v |-> Values(g.ty, g.payload)[i], f |-> g.f, i |-> i]
  BY <1>4 DEF FrameAt, Body
<1>7. Len(S) \in Nat
  BY LenProperties
<1>8. at + 4 <= Len(S) /\ at + l + 4 <= Len(S)
  BY <1>6, <1>7
<1>9. /\ 3 \in 3 .. l + 5 /\ 4 \in 3 .. l + 5 /\ at + 3 - 1 = at + 2 /\ at + 4 - 1 = at + 3
      /\ \A i \in 1 .. l : 4 + i \in 3 .. l + 5 /\ at + (4 + i) - 1 = at + 4 + i - 1
  BY <1>6
<1>10. /\ S[at + 2] = [v |-> g.ty, f |-> g.f, i |-> 3]
       /\ S[at + 3] = [v |-> l, f |-> g.f, i |-> 4]
  <2>1. /\ S[at + 3 - 1] = [v |-> Values(g.ty, g.payload)[3], f |-> g.f, i |-> 3]
        /\ S[at + 4 - 1] = [v |-> Values(g.ty, g.payload)[4], f |-> g.f, i |-> 4]
    BY <1>6, <1>9
  <2> QED
    BY <1>5, <1>9, <2>1
<1>11. \A i \in 1 .. l : S[at + 4 + i - 1].v = g.payload[i]
  <2> SUFFICES ASSUME NEW i \in 1 .. l PROVE S[at + 4 + i - 1].v = g.payload[i]
    OBVIOUS
  <2>1. S[at + (4 + i) - 1] = [v |-> Values(g.ty, g.payload)[4 + i], f |-> g.f, i |-> 4 + i]
    BY <1>6, <1>9
  <2> QED
    BY <1>5, <1>9, <2>1
<1>12. ASSUME NEW i \in 3 .. l + 5 PROVE S[at + i - 1].f = g.f /\ S[at + i - 1].i = i
  <2>1. S[at + i - 1] = [v |-> Values(g.ty, g.payload)[i], f |-> g.f, i |-> i]
    BY <1>6
  <2> QED
    BY <2>1
<1>13. Shows(S, at, g)
  BY <1>2, <1>3, <1>11, <1>12 DEF Shows
<1> QED
  BY <1>1, <1>2, <1>3, <1>6, <1>7, <1>8, <1>10, <1>13

\* What was sent is not one of the frames that count.
LEMMA SentOther ==
  ASSUME NEW S \in Seq(Bytes), NEW b \in Seq(Bytes), NEW gs \in Seq(Frames),
         NEW n \in Nat, NEW gone \in Nat, NEW k \in Nat,
         Where(S, gs, n, gone),
         Named(S, k), NamedNext(b, k),
         \A m \in 1 .. Len(b) : \A at \in Nat :
            Lands(S, b, k, at, m) /\ Passes(Cat(S, b), at) => b[m].v = Unknown
  PROVE  Where(Cat(S, b), gs, n, gone)
<1>1. PICK st : Placed(st, S, gs) /\ Ahead(st, Len(gs), n, gone)
  BY DEF Where
<1>2. \A j \in 1 .. Len(gs) : FrameAt(Cat(S, b), st[j], gs[j])
  <2> SUFFICES ASSUME NEW j \in 1 .. Len(gs) PROVE FrameAt(Cat(S, b), st[j], gs[j])
    OBVIOUS
  <2>1. FrameAt(S, st[j], gs[j]) /\ gs[j] \in Frames
    BY <1>1, ElementOfSeq DEF Placed
  <2> QED
    BY <2>1, FrameStays
<1>3. ASSUME NEW at \in Nat, Passes(Cat(S, b), at)
      PROVE  Cat(S, b)[at + 2].v = Unknown \/ \E j \in 1 .. Len(gs) : st[j] = at
  <2>1. CASE Passes(S, at)
    <3>1. S[at + 2].v = Unknown \/ \E j \in 1 .. Len(gs) : st[j] = at
      BY <1>1, <2>1 DEF Placed
    <3>2. at + 2 \in 1 .. Len(S)
      BY <2>1, LenProperties DEF Passes
    <3>3. Joined(Bytes, Cat(S, b), S, b)
      BY CatAt
    <3>4. Cat(S, b)[at + 2] = S[at + 2]
      BY <3>2, <3>3 DEF Joined
    <3> QED
      BY <3>1, <3>4
  <2>2. CASE ~Passes(S, at)
    <3>1. PICK m \in 1 .. Len(b) : Lands(S, b, k, at, m)
      BY <1>3, <2>2, PassesNew
    <3>2. b[m].v = Unknown
      BY <1>3, <3>1
    <3> QED
      BY <3>1, <3>2 DEF Lands
  <2> QED
    BY <2>1, <2>2
<1>4. Placed(st, Cat(S, b), gs)
  BY <1>1, <1>2, <1>3 DEF Placed
<1> QED
  BY <1>1, <1>4 DEF Where

\* The only header of the new name that b may complete is at "at".
OnlyAt(S, b, k, at) == \A m \in 1 .. Len(b) : b[m].f = k + 1 /\ b[m].i = 3 => Len(S) + m = at + 2

\* What was sent holds the frame g, at a place past all before.
LEMMA SentGood ==
  ASSUME NEW S \in Seq(Bytes), NEW b \in Seq(Bytes), NEW gs \in Seq(Frames),
         NEW n \in Nat, NEW gone \in Nat, NEW k \in Nat, NEW g \in Frames, NEW new \in Nat,
         Where(S, gs, n, gone), n <= Len(gs), gone <= Len(S),
         Named(S, k), NamedNext(b, k),
         FrameAt(Cat(S, b), new, g), new > Len(S),
         OnlyAt(S, b, k, new)
  PROVE  Where(Cat(S, b), Append(gs, g), n, gone)
<1>1. PICK st : Placed(st, S, gs) /\ Ahead(st, Len(gs), n, gone)
  BY DEF Where
<1>2. PICK l \in Nat : l = Len(gs)
  BY LenProperties
<1>3. PICK x \in Nat : x = Len(S)
  BY LenProperties
<1> DEFINE hs == Append(gs, g)
           su == [j \in 1 .. l + 1 |-> IF j = l + 1 THEN new ELSE st[j]]
<1>4. /\ Len(hs) = l + 1 /\ hs[l + 1] = g
      /\ \A j \in 1 .. l : hs[j] = gs[j]
  BY <1>2, AppendProperties
<1>5. /\ su \in [1 .. l + 1 -> Nat] /\ su[l + 1] = new
      /\ \A j \in 1 .. l : su[j] = st[j]
  BY <1>1, <1>2 DEF Placed
<1> HIDE DEF hs, su
<1>6. \A j \in 1 .. l : /\ FrameAt(S, st[j], gs[j]) /\ gs[j] \in Frames
                        /\ st[j] \in Nat /\ st[j] <= x
  <2> SUFFICES ASSUME NEW j \in 1 .. l
               PROVE /\ FrameAt(S, st[j], gs[j]) /\ gs[j] \in Frames
                     /\ st[j] \in Nat /\ st[j] <= x
    OBVIOUS
  <2>1. FrameAt(S, st[j], gs[j]) /\ gs[j] \in Frames
    BY <1>1, <1>2, ElementOfSeq DEF Placed
  <2>2. st[j] \in Nat /\ st[j] + 4 <= x
    BY <1>3, <2>1, FrameBounds
  <2> QED
    BY <2>1, <2>2
<1>7. \A j \in 1 .. l + 1 : FrameAt(Cat(S, b), su[j], hs[j])
  <2> SUFFICES ASSUME NEW j \in 1 .. l + 1 PROVE FrameAt(Cat(S, b), su[j], hs[j])
    OBVIOUS
  <2>1. CASE j = l + 1
    BY <1>4, <1>5, <2>1
  <2>2. CASE j # l + 1
    <3>1. j \in 1 .. l
      BY <2>2
    <3>2. FrameAt(Cat(S, b), st[j], gs[j])
      BY <1>6, <3>1, FrameStays
    <3> QED
      BY <1>4, <1>5, <3>1, <3>2
  <2> QED
    BY <2>1, <2>2
<1>8. \A i, j \in 1 .. l + 1 : i < j => su[i] < su[j]
  <2> SUFFICES ASSUME NEW i \in 1 .. l + 1, NEW j \in 1 .. l + 1, i < j PROVE su[i] < su[j]
    OBVIOUS
  <2>1. i \in 1 .. l /\ su[i] = st[i]
    BY <1>5
  <2>2. CASE j = l + 1
    BY <1>3, <1>5, <1>6, <2>1, <2>2
  <2>3. CASE j # l + 1
    <3>1. j \in 1 .. l
      <4> HIDE <2>1
      <4> QED
        BY <2>3, SMT
    <3>2. st[i] < st[j]
      BY <1>1, <1>2, <2>1, <3>1 DEF Placed
    <3> QED
      BY <1>5, <2>1, <3>1, <3>2
  <2> QED
    BY <2>2, <2>3
<1>9. ASSUME NEW at \in Nat, Passes(Cat(S, b), at)
      PROVE  Cat(S, b)[at + 2].v = Unknown \/ \E j \in 1 .. l + 1 : su[j] = at
  <2>1. CASE Passes(S, at)
    <3>1. S[at + 2].v = Unknown \/ \E j \in 1 .. l : st[j] = at
      BY <1>1, <1>2, <2>1 DEF Placed
    <3>2. at + 2 \in 1 .. Len(S)
      BY <2>1, LenProperties DEF Passes
    <3>3. Joined(Bytes, Cat(S, b), S, b)
      BY CatAt
    <3>4. Cat(S, b)[at + 2] = S[at + 2]
      BY <3>2, <3>3 DEF Joined
    <3>5. \A j \in 1 .. l : j \in 1 .. l + 1
      OBVIOUS
    <3> QED
      BY <1>5, <3>1, <3>4, <3>5
  <2>2. CASE ~Passes(S, at)
    <3>1. PICK m \in 1 .. Len(b) : Lands(S, b, k, at, m)
      BY <1>9, <2>2, PassesNew
    <3>2. Len(S) + m = new + 2
      BY <3>1 DEF Lands, OnlyAt
    <3>3. at = new
      <4>1. at + 2 = Len(S) + m
        BY <3>1 DEF Lands
      <4> QED
        BY <3>2, <4>1
    <3>4. l + 1 \in 1 .. l + 1
      OBVIOUS
    <3> QED
      BY <1>5, <3>3, <3>4
  <2> QED
    BY <2>1, <2>2
<1>10. Placed(su, Cat(S, b), hs)
  BY <1>4, <1>5, <1>7, <1>8, <1>9 DEF Placed
<1>11. Ahead(su, l + 1, n, gone)
  <2> SUFFICES ASSUME NEW j \in 1 .. l + 1 PROVE j <= n <=> su[j] <= gone
    BY DEF Ahead
  <2>1. CASE j = l + 1
    BY <1>2, <1>3, <1>5, <2>1
  <2>2. CASE j # l + 1
    <3>1. j \in 1 .. l
      BY <2>2
    <3> QED
      BY <1>1, <1>2, <1>5, <3>1 DEF Ahead
  <2> QED
    BY <2>1, <2>2
<1> QED
  BY <1>4, <1>10, <1>11 DEF Where, hs


\* Bytes leave the buffer, and no frame begins among them.
LEMMA NoneLeft ==
  ASSUME NEW S \in Seq(Bytes), NEW gs \in Seq(Frames), NEW n \in Nat, NEW gone \in Nat, NEW k \in Nat,
         Where(S, gs, n, gone),
         \A at \in gone + 1 .. gone + k : \A g \in Frames : ~FrameAt(S, at, g)
  PROVE  Where(S, gs, n, gone + k)
<1>1. PICK st : Placed(st, S, gs) /\ Ahead(st, Len(gs), n, gone)
  BY DEF Where
<1>2. ASSUME NEW j \in 1 .. Len(gs) PROVE j <= n <=> st[j] <= gone + k
  <2>1. FrameAt(S, st[j], gs[j]) /\ gs[j] \in Frames
    BY <1>1, ElementOfSeq DEF Placed
  <2>2. st[j] \in Nat
    BY <1>1 DEF Placed
  <2>3. ~(st[j] \in gone + 1 .. gone + k)
    BY <2>1
  <2>4. j <= n <=> st[j] <= gone
    BY <1>1 DEF Ahead
  <2> QED
    BY <2>2, <2>3, <2>4
<1>3. Ahead(st, Len(gs), n, gone + k)
  BY <1>2 DEF Ahead
<1> QED
  BY <1>1, <1>3 DEF Where

\* A frame of no type known here leaves, or the next of gs.
Leaves(S, gs, n, gone, at) ==
    \/ S[at + 2].v = Unknown /\ Where(S, gs, n, gone + S[at + 3].v + 5)
    \/ /\ S[at + 2].v # Unknown
       /\ n + 1 \in 1 .. Len(gs) /\ FrameAt(S, at, gs[n + 1])
       /\ Where(S, gs, n + 1, gone + S[at + 3].v + 5)

\* The whole of what the decoder accepts leaves, and no byte of another frame.
LEMMA NextLeaves ==
  ASSUME NEW S \in Seq(Bytes), NEW gs \in Seq(Frames), NEW n \in Nat, NEW gone \in Nat,
         n <= Len(gs), Where(S, gs, n, gone), NEW at \in Nat, at = gone + 1, Passes(S, at)
  PROVE  Leaves(S, gs, n, gone, at)
<1>1. PICK st : Placed(st, S, gs) /\ Ahead(st, Len(gs), n, gone)
  BY DEF Where
<1>2. PICK x \in Nat : x = Len(gs)
  BY LenProperties
<1>3. PICK l \in Nat : l = S[at + 3].v
  <2>1. at + 3 \in 1 .. Len(S)
    BY LenProperties DEF Passes
  <2>2. S[at + 3] \in Bytes
    BY <2>1, ElementOfSeq
  <2> QED
    BY <2>2 DEF Bytes
<1>4. \A i \in 3 .. l + 5 : S[at + i - 1].i = i
  BY <1>3 DEF Passes
<1>5. ASSUME NEW s, NEW g \in Frames, FrameAt(S, s, g), s > at PROVE s > gone + (l + 5)
  <2>1. PICK T \in Nat : T = l + 5 /\ T >= 3
    OBVIOUS
  <2>2. \A i \in 3 .. T : S[at + i - 1].i = i
    BY <1>4, <2>1
  <2>3. s > at + T - 1
    BY <1>5, <2>1, <2>2, FramesApart
  <2>4. s \in Nat
    BY <1>5 DEF FrameAt
  <2> QED
    BY <2>1, <2>3, <2>4
<1>6. PICK k \in Nat : k = l + 5
  OBVIOUS
<1>7. gone + S[at + 3].v + 5 = gone + k
  <2>1. gone + l + 5 = gone + k
    BY <1>6
  <2> QED
    BY <1>3, <2>1, Zenon
<1>8. CASE S[at + 2].v = Unknown
  <2>1. ASSUME NEW s \in gone + 1 .. gone + k, NEW g \in Frames, FrameAt(S, s, g) PROVE FALSE
    <3>1. ~(s > at)
      BY <1>5, <1>6, <2>1
    <3>2. s = at
      BY <2>1, <3>1
    <3>3. S[at + 2].v = g.ty
      BY <2>1, <3>2, FrameBounds
    <3>4. g.ty \in {Page, Ack, Console}
      BY DEF Frames
    <3>5. g.ty # Unknown
      BY <3>4 DEF Page, Ack, Console, Unknown
    <3> QED
      BY <1>8, <3>3, <3>5, Zenon
  <2>2. Where(S, gs, n, gone + k)
    BY <2>1, NoneLeft
  <2> QED
    BY <1>7, <1>8, <2>2 DEF Leaves
<1>9. CASE S[at + 2].v # Unknown
  <2>1. PICK j \in 1 .. x : st[j] = at
    BY <1>1, <1>2, <1>9 DEF Placed
  <2>2. \A i \in 1 .. x : st[i] \in Nat /\ (i <= n <=> st[i] <= gone)
    BY <1>1, <1>2 DEF Placed, Ahead
  <2>3. ~(j <= n)
    BY <2>1, <2>2
  <2>4. n + 1 \in 1 .. x
    BY <2>1, <2>3
  <2>5. j = n + 1
    <3> SUFFICES ASSUME j # n + 1 PROVE FALSE
      OBVIOUS
    <3>1. n + 1 < j
      BY <2>1, <2>3
    <3>2. st[n + 1] < st[j]
      BY <1>1, <1>2, <2>4, <3>1 DEF Placed
    <3>3. st[n + 1] <= gone
      BY <2>1, <2>2, <2>4, <3>2
    <3>4. n + 1 <= n
      BY <2>2, <2>4, <3>3
    <3> QED
      BY <3>4
  <2>6. FrameAt(S, at, gs[n + 1])
    BY <1>1, <1>2, <2>1, <2>5 DEF Placed
  <2>7. ASSUME NEW i \in 1 .. x PROVE i <= n + 1 <=> st[i] <= gone + k
    <3>1. CASE i <= n + 1
      <4>1. st[i] <= at
        <5>1. CASE i = n + 1
          BY <2>1, <2>5, <5>1
        <5>2. CASE i # n + 1
          <6>1. i <= n
            BY <3>1, <5>2
          <6> QED
            BY <2>2, <6>1
        <5> QED
          BY <5>1, <5>2
      <4> QED
        BY <1>6, <2>2, <3>1, <4>1
    <3>2. CASE ~(i <= n + 1)
      <4>1. n + 1 < i
        BY <3>2
      <4>2. st[n + 1] < st[i]
        BY <1>1, <1>2, <2>4, <4>1 DEF Placed
      <4>3. st[i] > at
        BY <2>1, <2>5, <4>2
      <4>4. FrameAt(S, st[i], gs[i]) /\ gs[i] \in Frames
        BY <1>1, <1>2, ElementOfSeq DEF Placed
      <4>5. st[i] > gone + (l + 5)
        BY <1>5, <4>3, <4>4
      <4> QED
        BY <1>6, <2>2, <3>2, <4>5
    <3> QED
      BY <3>1, <3>2
  <2>8. Ahead(st, x, n + 1, gone + k)
    BY <2>7 DEF Ahead
  <2>9. Where(S, gs, n + 1, gone + k)
    BY <1>1, <1>2, <2>8 DEF Where
  <2> QED
    BY <1>2, <1>7, <1>9, <2>4, <2>6, <2>9 DEF Leaves
<1> QED
  BY <1>8, <1>9


-------------------------------------------------------------------------------
(* Framing: the decoder. *)

FrType == /\ stream \in Seq(Bytes) /\ pushed \in Seq(Bytes) /\ buf \in Seq(Bytes)
          /\ items \in Nat /\ good \in Seq(Frames) /\ out \in Seq(Frames)

\* The buffer is the part of the line behind what has gone.
BufOK == Len(buf) <= Len(pushed) /\ \A j \in 1 .. Len(buf) : Line[Gone + j] = buf[j]

\* The decoder stops only where it needs more bytes.
Waits == ~running => \/ Len(buf) <= 1
                     \/ /\ Syncs(buf) # {} /\ FirstSync(buf) = 1
                        /\ Len(buf) < HEADER \/ Len(buf) < total

OutOK == Len(out) <= Len(good) /\ \A k \in 1 .. Len(out) : out[k] = good[k]

FrInv == /\ FrType /\ Named(Line, items) /\ BufOK /\ Waits /\ OutOK
         /\ Where(Line, good, Len(out), Gone)

\* Lengths as numbers.
LEMMA FrBounds ==
  ASSUME FrType, BufOK
  PROVE  /\ Line \in Seq(Bytes) /\ Len(Line) \in Nat /\ Gone \in Nat
         /\ Len(stream) \in Nat /\ Len(pushed) \in Nat /\ Len(buf) \in Nat
         /\ Len(Line) = Len(pushed) + Len(stream) /\ Gone + Len(buf) = Len(pushed)
         /\ Len(good) \in Nat /\ Len(out) \in Nat
<1>1. /\ Len(stream) \in Nat /\ Len(pushed) \in Nat /\ Len(buf) \in Nat
      /\ Len(good) \in Nat /\ Len(out) \in Nat
  BY LenProperties DEF FrType
<1>2. Joined(Bytes, Cat(pushed, stream), pushed, stream)
  BY CatAt DEF FrType
<1>3. Line \in Seq(Bytes) /\ Len(Line) = Len(pushed) + Len(stream)
  BY <1>2 DEF Line, Joined
<1>4. Gone \in Nat /\ Gone + Len(buf) = Len(pushed)
  BY <1>1 DEF BufOK, Gone
<1> QED
  BY <1>1, <1>3, <1>4

LEMMA FrInitOK == FramingInit => FrInv
<1> SUFFICES ASSUME FramingInit PROVE FrInv
  OBVIOUS
<1>1. /\ stream = <<>> /\ pushed = <<>> /\ buf = <<>> /\ items = 0 /\ good = <<>> /\ out = <<>>
  BY DEF FramingInit
<1>2. FrType
  BY <1>1, EmptySeq DEF FrType
<1>3. Len(buf) = 0 /\ Len(pushed) = 0 /\ Len(stream) = 0 /\ Len(good) = 0 /\ Len(out) = 0
  BY <1>1
<1>4. BufOK
  BY <1>3 DEF BufOK
<1>5. Line \in Seq(Bytes) /\ Len(Line) = 0 /\ Gone = 0
  BY <1>2, <1>3, <1>4, FrBounds DEF Gone
<1>6. Named(Line, items)
  BY <1>5 DEF Named
<1>7. Waits /\ OutOK
  BY <1>3 DEF Waits, OutOK
<1>8. Placed(<<>>, Line, good)
  <2>1. <<>> \in [1 .. 0 -> Nat]
    OBVIOUS
  <2>2. \A at \in Nat : ~Passes(Line, at)
    BY <1>5 DEF Passes
  <2> QED
    BY <1>3, <2>1, <2>2 DEF Placed
<1>9. Ahead(<<>>, 0, 0, 0)
  BY DEF Ahead
<1>10. Where(Line, good, Len(out), Gone)
  BY <1>3, <1>5, <1>8, <1>9 DEF Where
<1> QED
  BY <1>2, <1>4, <1>6, <1>7, <1>10 DEF FrInv

\* What every send leaves alone, given where the frames are afterwards.
LEMMA SendsOK ==
  ASSUME FrInv, NEW b \in Seq(Bytes), Sends(b), NamedNext(b, items),
         good' \in Seq(Frames), good' = good \/ \E g \in Frames : good' = Append(good, g),
         Where(Cat(Line, b), good', Len(out), Gone)
  PROVE  FrInv'
<1>1. /\ FrType /\ Named(Line, items) /\ BufOK /\ Waits /\ OutOK
  BY DEF FrInv
<1>2. /\ items' = items + 1 /\ stream' = Cat(stream, b) /\ pushed' = pushed
      /\ buf' = buf /\ running' = running /\ out' = out
  BY DEF Sends, decVars, Cat
<1>3. Line' = Cat(Line, b)
  BY <1>1, <1>2, CatProperties DEF Line, FrType
<1>4. /\ Line \in Seq(Bytes) /\ Gone \in Nat /\ Len(Line) \in Nat /\ Len(buf) \in Nat
      /\ Gone + Len(buf) <= Len(Line) /\ Len(good) \in Nat /\ Len(out) \in Nat
  BY <1>1, FrBounds
<1>5. /\ Len(Cat(Line, b)) = Len(Line) + Len(b) /\ Len(b) \in Nat
      /\ \A i \in 1 .. Len(Line) : Cat(Line, b)[i] = Line[i]
      /\ \A i \in 1 .. Len(b) : Cat(Line, b)[Len(Line) + i] = b[i]
  <2>1. Joined(Bytes, Cat(Line, b), Line, b) /\ Len(b) \in Nat
    BY <1>4, CatAt, LenProperties
  <2> QED
    BY <2>1 DEF Joined
<1>6. FrType'
  <2>1. Cat(stream, b) \in Seq(Bytes) /\ items + 1 \in Nat
    BY <1>1, CatProperties DEF FrType
  <2> QED
    BY <1>1, <1>2, <2>1 DEF FrType
<1>7. Named(Line, items)'
  <2> SUFFICES ASSUME NEW j \in 1 .. Len(Line) + Len(b) PROVE Cat(Line, b)[j].f <= items + 1
    BY <1>2, <1>3, <1>5 DEF Named
  <2>1. CASE j <= Len(Line)
    <3>1. j \in 1 .. Len(Line)
      BY <1>4, <2>1
    <3>2. Line[j] \in Bytes /\ Line[j].f <= items
      BY <1>1, <1>4, <3>1, ElementOfSeq DEF Named
    <3>3. Line[j].f \in Nat /\ items \in Nat
      BY <1>1, <3>2 DEF Bytes, FrType
    <3> QED
      BY <1>5, <3>1, <3>2, <3>3
  <2>2. CASE ~(j <= Len(Line))
    <3>1. PICK m \in 1 .. Len(b) : j = Len(Line) + m
      <4>1. j - Len(Line) \in 1 .. Len(b) /\ j = Len(Line) + (j - Len(Line))
        BY <1>4, <1>5, <2>2
      <4> QED
        BY <4>1
    <3>2. b[m].f \in {0, items + 1} /\ items \in Nat
      BY <1>1 DEF NamedNext, FrType
    <3>3. Cat(Line, b)[j] = b[m]
      BY <1>5, <3>1
    <3> QED
      BY <3>2, <3>3
  <2> QED
    BY <2>1, <2>2
<1>8. Gone' = Gone
  BY <1>2 DEF Gone
<1>9. BufOK'
  <2>1. \A j \in 1 .. Len(buf) : Gone + j \in 1 .. Len(Line)
    BY <1>4
  <2>2. \A j \in 1 .. Len(buf) : Cat(Line, b)[Gone + j] = buf[j]
    BY <1>1, <1>5, <2>1 DEF BufOK
  <2> QED
    BY <1>1, <1>2, <1>3, <1>8, <2>2 DEF BufOK
<1>10. Waits'
  BY <1>1, <1>2 DEF Waits, Syncs, FirstSync, total, len
<1>11. OutOK'
  <2>1. CASE good' = good
    BY <1>1, <1>2, <2>1 DEF OutOK
  <2>2. ASSUME NEW g \in Frames, good' = Append(good, g) PROVE OutOK'
    <3>1. Len(good') = Len(good) + 1 /\ \A j \in 1 .. Len(good) : good'[j] = good[j]
      BY <1>1, <2>2, AppendProperties DEF FrType
    <3>2. \A j \in 1 .. Len(out) : j \in 1 .. Len(good)
      BY <1>1, <1>4 DEF OutOK
    <3> QED
      BY <1>1, <1>2, <1>4, <3>1, <3>2 DEF OutOK
  <2> QED
    BY <2>1, <2>2
<1>12. Where(Line, good, Len(out), Gone)'
  BY <1>2, <1>3, <1>8
<1> QED
  BY <1>6, <1>7, <1>9, <1>10, <1>11, <1>12 DEF FrInv

\* The facts of FrInv that a send starts from.
LEMMA SendsFrom ==
  ASSUME FrInv
  PROVE  /\ Line \in Seq(Bytes) /\ good \in Seq(Frames) /\ Len(out) \in Nat /\ Gone \in Nat
         /\ items \in Nat /\ Len(Line) \in Nat /\ Len(good) \in Nat
         /\ Where(Line, good, Len(out), Gone) /\ Named(Line, items)
         /\ Len(out) <= Len(good) /\ Gone <= Len(Line)
<1>1. /\ FrType /\ Named(Line, items) /\ BufOK /\ OutOK
  BY DEF FrInv
<1>2. /\ Line \in Seq(Bytes) /\ Gone \in Nat /\ Len(Line) \in Nat /\ Len(buf) \in Nat
      /\ Gone + Len(buf) <= Len(Line) /\ Len(good) \in Nat /\ Len(out) \in Nat
  BY <1>1, FrBounds
<1> QED
  BY <1>1, <1>2 DEF FrInv, FrType, OutOK


\* Payloads and their lengths.
LEMMA PayloadOK ==
  ASSUME NEW p \in Payloads
  PROVE  p \in Seq(Nat) /\ Len(p) \in Nat /\ Len(p) <= MAX_PAYLOAD
<1>1. p \in Seq(Nat) /\ Len(p) <= MAX_PAYLOAD
  BY FramingAssumption DEF FramingAssumption
<1> QED
  BY <1>1, LenProperties

\* The bytes of a frame that counts, standing at "at".
LEMMA StandsAt ==
  ASSUME NEW S, NEW at \in Nat, NEW g \in Frames, at # 0, at + Len(g.payload) + 4 <= Len(S), Len(S) \in Nat,
         S[at].v = LO, S[at].i \in {0, 1}, S[at + 1].v = HI, S[at + 1].i = 2,
         Body(S, at, g, Len(g.payload) + 5)
  PROVE  FrameAt(S, at, g)
<1>1. g.payload \in Payloads /\ g.ty \in Nat
  BY DEF Frames, Page, Ack, Console
<1>2. g.payload \in Seq(Nat) /\ Len(g.payload) \in Nat
  BY <1>1, PayloadOK
<1>3. PICK z \in Nat : z = Len(g.payload)
  BY <1>2
<1>4. Size(g.payload) = z + 5
  BY <1>1, <1>2, <1>3, ValuesAt
<1>5. at + (z + 5) - 1 <= Len(S)
  BY <1>3
<1> QED
  BY <1>3, <1>4, <1>5 DEF FrameAt

LEMMA SendFrameOK ==
  ASSUME FrInv, NEW ty \in Types, NEW p \in Payloads, SendFrame(ty, p)
  PROVE  FrInv'
<1> DEFINE b == encode(ty, p, items + 1)
           g == [ty |-> ty, payload |-> p, f |-> items + 1]
<1>n. PICK N \in Nat : N = Len(Line)
  BY SendsFrom
<1>0. /\ Line \in Seq(Bytes) /\ good \in Seq(Frames) /\ Len(out) \in Nat /\ Gone \in Nat
      /\ items \in Nat /\ N \in Nat /\ Len(good) \in Nat
      /\ Where(Line, good, Len(out), Gone) /\ Named(Line, items)
      /\ Len(out) <= Len(good) /\ Gone <= N
  BY <1>n, SendsFrom
<1>1. p \in Seq(Nat) /\ Len(p) \in Nat /\ ty \in Nat
  BY PayloadOK DEF Types, Page, Ack, Console, Unknown
<1>2. PICK l \in Nat : l = Len(p)
  BY <1>1
<1>3. Sends(b) /\ good' = IF ty = Unknown THEN good ELSE Append(good, g)
  BY DEF SendFrame
<1>4. /\ b \in Seq(Bytes) /\ Len(b) = l + 5
      /\ \A i \in 1 .. l + 5 : b[i] = [v |-> Values(ty, p)[i], f |-> items + 1, i |-> i]
  <2>1. items + 1 \in Nat
    BY <1>0
  <2>2. Encoded(b, ty, p, items + 1)
    BY <1>1, <2>1, EncodeAt
  <2> HIDE DEF b
  <2> QED
    BY <1>2, <2>2 DEF Encoded
<1>5. Values(ty, p)[1] = LO /\ Values(ty, p)[2] = HI /\ Values(ty, p)[3] = ty
  BY <1>1, ValuesAt
<1>g. ty # Unknown => g \in Frames /\ g.payload = p /\ g.ty = ty /\ g.f = items + 1
  BY <1>0 DEF Frames, Types
<1> HIDE DEF b, g
<1>6. /\ \A m \in 1 .. l + 5 : b[m].f = items + 1 /\ b[m].i = m
      /\ b[1].v = LO /\ b[2].v = HI /\ b[3].v = ty
  <2>1. ASSUME NEW m \in 1 .. l + 5 PROVE b[m].f = items + 1 /\ b[m].i = m
    <3>1. b[m] = [v |-> Values(ty, p)[m], f |-> items + 1, i |-> m]
      BY <1>4
    <3> QED
      BY <3>1
  <2>2. 1 \in 1 .. l + 5 /\ 2 \in 1 .. l + 5 /\ 3 \in 1 .. l + 5
    OBVIOUS
  <2>3. b[1].v = Values(ty, p)[1] /\ b[2].v = Values(ty, p)[2] /\ b[3].v = Values(ty, p)[3]
    BY <1>4, <2>2
  <2> QED
    BY <1>5, <2>1, <2>3
<1>7. NamedNext(b, items)
  BY <1>4, <1>6 DEF NamedNext
<1>8. CASE ty = Unknown
  <2>1. \A m \in 1 .. Len(b) : \A at \in Nat :
           Lands(Line, b, items, at, m) /\ Passes(Cat(Line, b), at) => b[m].v = Unknown
    BY <1>4, <1>6, <1>8 DEF Lands
  <2>2. Where(Cat(Line, b), good, Len(out), Gone)
    BY <1>0, <1>4, <1>7, <2>1, SentOther
  <2> QED
    BY <1>0, <1>3, <1>4, <1>7, <1>8, <2>2, SendsOK
<1>9. CASE ty # Unknown
  <2>0. PICK at \in Nat : at = N + 1
    BY <1>0
  <2>1. /\ Cat(Line, b) \in Seq(Bytes) /\ Len(Cat(Line, b)) = N + (l + 5)
        /\ \A i \in 1 .. l + 5 : Cat(Line, b)[N + i] = b[i]
    <3>1. Joined(Bytes, Cat(Line, b), Line, b)
      BY <1>0, <1>4, CatAt
    <3> QED
      BY <1>n, <1>4, <3>1 DEF Joined
  <2>2. /\ \A i \in 3 .. l + 5 : at + i - 1 = N + i /\ i \in 1 .. l + 5
        /\ at = N + 1 /\ at + 1 = N + 2 /\ 1 \in 1 .. l + 5 /\ 2 \in 1 .. l + 5
    BY <1>0, <2>0
  <2>3. Cat(Line, b)[at] = b[1] /\ Cat(Line, b)[at + 1] = b[2]
    BY <2>1, <2>2
  <2>4. Body(Cat(Line, b), at, g, Len(g.payload) + 5)
    <3> SUFFICES ASSUME NEW i \in 3 .. Len(g.payload) + 5
                 PROVE  Cat(Line, b)[at + i - 1] = [v |-> Values(g.ty, g.payload)[i], f |-> g.f, i |-> i]
      BY DEF Body
    <3>1. i \in 3 .. l + 5
      BY <1>2, <1>9, <1>g
    <3>2. Cat(Line, b)[at + i - 1] = b[i]
      BY <2>1, <2>2, <3>1
    <3>3. b[i] = [v |-> Values(ty, p)[i], f |-> items + 1, i |-> i]
      BY <1>4, <2>2, <3>1
    <3> QED
      BY <1>9, <1>g, <3>2, <3>3
  <2>5. /\ at + Len(g.payload) + 4 <= Len(Cat(Line, b)) /\ Len(Cat(Line, b)) \in Nat
    <3>1. at + l + 4 <= N + (l + 5) /\ N + (l + 5) \in Nat
      BY <2>0
    <3> QED
      BY <1>2, <1>9, <1>g, <2>1, <3>1
  <2>6. b[1].v = LO /\ b[1].i \in {0, 1} /\ b[2].v = HI /\ b[2].i = 2
    BY <1>6, <2>2
  <2>7. FrameAt(Cat(Line, b), at, g)
    <3>1. /\ Cat(Line, b)[at].v = LO /\ Cat(Line, b)[at].i \in {0, 1}
          /\ Cat(Line, b)[at + 1].v = HI /\ Cat(Line, b)[at + 1].i = 2
      BY <2>3, <2>6
    <3>2. at # 0 /\ g \in Frames
      BY <1>9, <1>g, <2>0
    <3> QED
      BY <2>4, <2>5, <3>1, <3>2, StandsAt
  <2>8. OnlyAt(Line, b, items, at) /\ at > Len(Line) /\ Gone <= Len(Line)
    <3>1. Len(b) = l + 5 /\ \A m \in 1 .. l + 5 : b[m].i = 3 => m = 3
      BY <1>4, <1>6
    <3>2. Len(Line) + 3 = at + 2 /\ at > Len(Line) /\ Gone <= Len(Line)
      BY <1>n, <1>0, <2>0
    <3> QED
      BY <3>1, <3>2 DEF OnlyAt
  <2>9. Where(Cat(Line, b), Append(good, g), Len(out), Gone)
    BY <1>0, <1>4, <1>7, <1>9, <1>g, <2>0, <2>7, <2>8, SentGood
  <2>10. good' = Append(good, g) /\ good' \in Seq(Frames)
    BY <1>0, <1>3, <1>9, <1>g, AppendProperties
  <2> QED
    BY <1>3, <1>4, <1>7, <1>9, <1>g, <2>9, <2>10, SendsOK
<1> QED
  BY <1>8, <1>9

LEMMA SendTextOK == ASSUME FrInv, NEW v \in Texts, SendText(v) PROVE FrInv'
<1> DEFINE b == Text(v)
<1>0. /\ Line \in Seq(Bytes) /\ good \in Seq(Frames) /\ Len(out) \in Nat /\ Gone \in Nat
      /\ items \in Nat /\ Len(Line) \in Nat
      /\ Where(Line, good, Len(out), Gone) /\ Named(Line, items)
  BY SendsFrom
<1>1. v \in Nat
  BY FramingAssumption DEF FramingAssumption
<1>2. b \in Seq(Bytes) /\ Len(b) = 1 /\ b[1].f = 0
  BY <1>1 DEF Text, Bytes
<1>3. Sends(b) /\ good' = good
  BY DEF SendText
<1> HIDE DEF b
<1>4. NamedNext(b, items)
  BY <1>2 DEF NamedNext
<1>5. \A m \in 1 .. Len(b) : b[m].f # items + 1
  BY <1>0, <1>2
<1>6. \A m \in 1 .. Len(b) : \A at \in Nat :
         Lands(Line, b, items, at, m) /\ Passes(Cat(Line, b), at) => b[m].v = Unknown
  BY <1>5 DEF Lands
<1>7. Where(Cat(Line, b), good, Len(out), Gone)
  BY <1>0, <1>2, <1>4, <1>6, SentOther
<1> QED
  BY <1>0, <1>2, <1>3, <1>4, <1>7, SendsOK


\* A frame cut short is not accepted, for its length says more than there is.
LEMMA SendPartOK ==
  ASSUME FrInv, NEW p \in Payloads, NEW n \in Nat \ {0}, SendPart(p, n)
  PROVE  FrInv'
<1> DEFINE w == encode(Page, p, items + 1)
           b == SubSeq(w, 1, n)
<1>n. PICK N \in Nat : N = Len(Line)
  BY SendsFrom
<1>0. /\ Line \in Seq(Bytes) /\ good \in Seq(Frames) /\ Len(out) \in Nat /\ Gone \in Nat
      /\ items \in Nat /\ Where(Line, good, Len(out), Gone) /\ Named(Line, items)
  BY SendsFrom
<1>1. p \in Seq(Nat) /\ Len(p) \in Nat /\ Page \in Nat
  BY PayloadOK DEF Page
<1>2. PICK l \in Nat : l = Len(p)
  BY <1>1
<1>3. Sends(b) /\ good' = good /\ n < l + 5
  BY <1>2 DEF SendPart, HEADER, TRAILER
<1>4. /\ w \in Seq(Bytes) /\ Len(w) = l + 5
      /\ \A i \in 1 .. l + 5 : w[i] = [v |-> Values(Page, p)[i], f |-> items + 1, i |-> i]
  <2>1. items + 1 \in Nat
    BY <1>0
  <2>2. Encoded(w, Page, p, items + 1)
    BY <1>1, <2>1, EncodeAt
  <2> HIDE DEF w
  <2> QED
    BY <1>2, <2>2 DEF Encoded
<1> HIDE DEF w
<1>5. b \in Seq(Bytes) /\ Len(b) = n /\ \A m \in 1 .. n : b[m] = w[m] /\ m \in 1 .. l + 5
  BY <1>3, <1>4, SubSeqProperties
<1> HIDE DEF b
<1>6. \A m \in 1 .. n : b[m].f = items + 1 /\ b[m].i = m
  <2> SUFFICES ASSUME NEW m \in 1 .. n PROVE b[m].f = items + 1 /\ b[m].i = m
    OBVIOUS
  <2>1. b[m] = [v |-> Values(Page, p)[m], f |-> items + 1, i |-> m]
    BY <1>4, <1>5
  <2> QED
    BY <2>1
<1>7. NamedNext(b, items)
  BY <1>5, <1>6 DEF NamedNext
<1>8. /\ Cat(Line, b) \in Seq(Bytes) /\ Len(Cat(Line, b)) = N + n
      /\ \A i \in 1 .. n : Cat(Line, b)[N + i] = b[i]
  <2>1. Joined(Bytes, Cat(Line, b), Line, b)
    BY <1>0, <1>5, CatAt
  <2> QED
    BY <1>n, <1>5, <2>1 DEF Joined
<1>9. ASSUME NEW m \in 1 .. n, NEW at \in Nat, Lands(Line, b, items, at, m), Passes(Cat(Line, b), at)
      PROVE  FALSE
  <2>1. at + 2 = N + m /\ m = 3
    BY <1>n, <1>6, <1>9 DEF Lands
  <2>2. at = N + 1
    BY <2>1
  <2>3. at + 4 <= N + n /\ at + Cat(Line, b)[at + 3].v + 4 <= N + n
    BY <1>8, <1>9 DEF Passes
  <2>4. 4 \in 1 .. n /\ 4 \in 1 .. l + 5 /\ at + 3 = N + 4
    BY <2>2, <2>3
  <2>5. Cat(Line, b)[at + 3] = b[4] /\ b[4] = [v |-> Values(Page, p)[4], f |-> items + 1, i |-> 4]
    <3>1. Cat(Line, b)[N + 4] = b[4]
      BY <1>8, <2>4
    <3>2. b[4] = w[4]
      BY <1>5, <2>4
    <3>3. w[4] = [v |-> Values(Page, p)[4], f |-> items + 1, i |-> 4]
      BY <1>4, <2>4
    <3> QED
      BY <2>4, <3>1, <3>2, <3>3, Zenon
  <2>6. Cat(Line, b)[at + 3].v = l
    BY <1>1, <1>2, <2>5, ValuesAt
  <2> QED
    BY <1>3, <2>2, <2>3, <2>6
<1>10. \A m \in 1 .. Len(b) : \A at \in Nat :
          Lands(Line, b, items, at, m) /\ Passes(Cat(Line, b), at) => b[m].v = Unknown
  BY <1>5, <1>9
<1>11. Where(Cat(Line, b), good, Len(out), Gone)
  BY <1>0, <1>5, <1>7, <1>10, SentOther
<1> QED
  BY <1>0, <1>3, <1>5, <1>7, <1>11, SendsOK

\* The bytes of w with one of text after the first n.
Split(w, n, v) == SubSeq(w, 1, n) \o Text(v) \o SubSeq(w, n + 1, Len(w))

IsSplit(b, w, n, v, z) == /\ b \in Seq(Bytes) /\ Len(b) = z + 1
                          /\ \A i \in 1 .. n : b[i] = w[i]
                          /\ b[n + 1] = [v |-> v, f |-> 0, i |-> 0]
                          /\ \A i \in n + 1 .. z : b[i + 1] = w[i]

LEMMA SplitAt ==
  ASSUME NEW w \in Seq(Bytes), NEW n \in Nat \ {0}, NEW z \in Nat, z = Len(w), n < z, NEW v \in Nat
  PROVE  IsSplit(Split(w, n, v), w, n, v, z)
<1> DEFINE b == Split(w, n, v)
           x == SubSeq(w, 1, n)
           t == Text(v)
           y == SubSeq(w, n + 1, z)
<1>1. x \in Seq(Bytes) /\ Len(x) = n /\ \A i \in 1 .. n : x[i] = w[i]
  BY SubSeqProperties
<1>2. t \in Seq(Bytes) /\ Len(t) = 1 /\ t[1] = [v |-> v, f |-> 0, i |-> 0]
  BY DEF Text, Bytes
<1>3. y \in Seq(Bytes) /\ Len(y) = z - n /\ \A i \in 1 .. z - n : y[i] = w[n + i]
  <2>1. y \in Seq(Bytes) /\ Len(y) = z - (n + 1) + 1 /\ \A i \in 1 .. z - (n + 1) + 1 : y[i] = w[n + 1 + i - 1]
    BY SubSeqProperties
  <2>2. z - (n + 1) + 1 = z - n /\ \A i \in 1 .. z - n : n + 1 + i - 1 = n + i
    OBVIOUS
  <2> HIDE DEF y
  <2> QED
    BY <2>1, <2>2
<1>4. b = Cat(Cat(x, t), y)
  BY DEF Cat, Split
<1> HIDE DEF x, t, y, b
<1> DEFINE c == Cat(x, t)
<1>5. c \in Seq(Bytes) /\ Len(c) = n + 1 /\ c[n + 1] = t[1] /\ \A i \in 1 .. n : c[i] = x[i]
  <2>1. Joined(Bytes, c, x, t)
    BY <1>1, <1>2, CatAt
  <2> HIDE DEF c
  <2>2. /\ c \in Seq(Bytes) /\ Len(c) = Len(x) + Len(t)
        /\ \A i \in 1 .. Len(x) : c[i] = x[i]
        /\ \A i \in 1 .. Len(t) : c[Len(x) + i] = t[i]
    BY <2>1 DEF Joined
  <2>3. Len(c) = n + 1 /\ \A i \in 1 .. n : c[i] = x[i]
    BY <1>1, <1>2, <2>2
  <2>4. c[n + 1] = t[1]
    BY <1>1, <1>2, <2>2
  <2> QED
    BY <2>2, <2>3, <2>4
<1>6. b = Cat(c, y)
  BY <1>4
<1> HIDE DEF c
<1>7. /\ b \in Seq(Bytes) /\ Len(b) = z + 1 /\ \A i \in 1 .. n + 1 : b[i] = c[i]
      /\ \A i \in 1 .. z - n : b[n + 1 + i] = y[i]
  <2>1. Joined(Bytes, b, c, y)
    BY <1>3, <1>5, <1>6, CatAt
  <2>2. /\ b \in Seq(Bytes) /\ Len(b) = Len(c) + Len(y)
        /\ \A i \in 1 .. Len(c) : b[i] = c[i]
        /\ \A i \in 1 .. Len(y) : b[Len(c) + i] = y[i]
    BY <2>1 DEF Joined
  <2>3. Len(c) = n + 1 /\ Len(y) = z - n
    BY <1>3, <1>5
  <2>4. (n + 1) + (z - n) = z + 1
    OBVIOUS
  <2>5. Len(b) = z + 1
    BY <2>2, <2>3, <2>4
  <2> QED
    BY <2>2, <2>3, <2>5
<1>8. \A i \in 1 .. n : b[i] = w[i]
  BY <1>1, <1>5, <1>7
<1>9. b[n + 1] = [v |-> v, f |-> 0, i |-> 0]
  BY <1>2, <1>5, <1>7
<1>10. ASSUME NEW i \in n + 1 .. z PROVE b[i + 1] = w[i]
  <2>1. i - n \in 1 .. z - n /\ n + 1 + (i - n) = i + 1 /\ n + (i - n) = i
    OBVIOUS
  <2> QED
    BY <1>3, <1>7, <2>1
<1> QED
  BY <1>7, <1>8, <1>9, <1>10 DEF IsSplit, b

\* A frame split by text is not accepted, but for a LO inside its SYNC.
LEMMA SendSplitOK ==
  ASSUME FrInv, NEW p \in Payloads, NEW v \in Texts, NEW n \in Nat \ {0}, SendSplit(p, n, v)
  PROVE  FrInv'
<1> DEFINE w == encode(Page, p, items + 1)
           b == Split(w, n, v)
           g == [ty |-> Page, payload |-> p, f |-> items + 1]
<1>n. PICK N \in Nat : N = Len(Line)
  BY SendsFrom
<1>0. /\ Line \in Seq(Bytes) /\ good \in Seq(Frames) /\ Len(out) \in Nat /\ Gone \in Nat
      /\ items \in Nat /\ Len(good) \in Nat /\ Where(Line, good, Len(out), Gone) /\ Named(Line, items)
      /\ Len(out) <= Len(good) /\ Gone <= N
  BY <1>n, SendsFrom
<1>1. p \in Seq(Nat) /\ Len(p) \in Nat /\ Page \in Nat /\ v \in Nat
  BY PayloadOK, FramingAssumption DEF Page, FramingAssumption
<1>2. PICK l \in Nat : l = Len(p)
  BY <1>1
<1>v. Values(Page, p)[2] = HI /\ Values(Page, p)[4] = l
  BY <1>1, <1>2, ValuesAt
<1>4. /\ w \in Seq(Bytes) /\ Len(w) = l + 5
      /\ \A i \in 1 .. l + 5 : w[i] = [v |-> Values(Page, p)[i], f |-> items + 1, i |-> i]
  <2>1. items + 1 \in Nat
    BY <1>0
  <2>2. Encoded(w, Page, p, items + 1)
    BY <1>1, <2>1, EncodeAt
  <2> HIDE DEF w
  <2> QED
    BY <1>2, <2>2 DEF Encoded
<1>3. /\ Sends(b) /\ n < Len(w)
      /\ good' = IF n = 1 /\ v = LO THEN Append(good, g) ELSE good
  BY DEF SendSplit, Split
<1>g. g \in Frames /\ g.payload = p /\ g.ty = Page /\ g.f = items + 1
  BY <1>0 DEF Frames
<1> HIDE DEF w, g
<1>5. /\ b \in Seq(Bytes) /\ Len(b) = l + 6
      /\ \A i \in 1 .. n : b[i] = w[i]
      /\ b[n + 1] = [v |-> v, f |-> 0, i |-> 0]
      /\ \A i \in n + 1 .. l + 5 : b[i + 1] = w[i]
  <2>1. PICK z \in Nat : z = Len(w) /\ z = l + 5
    BY <1>4
  <2>2. IsSplit(b, w, n, v, z)
    BY <1>1, <1>3, <1>4, <2>1, SplitAt
  <2> HIDE DEF b
  <2> QED
    BY <2>1, <2>2 DEF IsSplit
<1> HIDE DEF b
<1>6. \A i \in 1 .. l + 5 : w[i].f = items + 1 /\ w[i].i = i /\ w[i].v = Values(Page, p)[i]
  <2> SUFFICES ASSUME NEW i \in 1 .. l + 5
               PROVE  w[i].f = items + 1 /\ w[i].i = i /\ w[i].v = Values(Page, p)[i]
    OBVIOUS
  <2>1. w[i] = [v |-> Values(Page, p)[i], f |-> items + 1, i |-> i]
    BY <1>4
  <2> QED
    BY <2>1
<1>7. /\ \A m \in 1 .. n : m \in 1 .. l + 5
      /\ \A m \in 1 .. l + 6 : m > n + 1 => m - 1 \in n + 1 .. l + 5 /\ m - 1 \in 1 .. l + 5 /\ (m - 1) + 1 = m
      /\ n < l + 5
  BY <1>3, <1>4
<1>8. /\ \A m \in 1 .. n : b[m].f = items + 1 /\ b[m].i = m
      /\ b[n + 1].f = 0 /\ b[n + 1].i = 0 /\ b[n + 1].v = v
      /\ \A m \in 1 .. l + 6 : m > n + 1 => b[m].f = items + 1 /\ b[m].i = m - 1
  <2>1. ASSUME NEW m \in 1 .. l + 6, m > n + 1 PROVE b[m].f = items + 1 /\ b[m].i = m - 1
    <3>1. b[(m - 1) + 1] = w[m - 1]
      BY <1>5, <1>7, <2>1
    <3> QED
      BY <1>6, <1>7, <2>1, <3>1
  <2>2. \A m \in 1 .. n : b[m].f = items + 1 /\ b[m].i = m
    BY <1>5, <1>6, <1>7
  <2>3. b[n + 1].f = 0 /\ b[n + 1].i = 0 /\ b[n + 1].v = v
    BY <1>5
  <2> QED
    BY <2>1, <2>2, <2>3
<1>9. \A m \in 1 .. l + 6 : m \in 1 .. n \/ m = n + 1 \/ m > n + 1
  OBVIOUS
<1>10. NamedNext(b, items)
  BY <1>5, <1>8, <1>9 DEF NamedNext
<1>11. /\ Cat(Line, b) \in Seq(Bytes) /\ Len(Cat(Line, b)) = N + (l + 6)
       /\ \A i \in 1 .. l + 6 : Cat(Line, b)[N + i] = b[i]
  <2>1. Joined(Bytes, Cat(Line, b), Line, b)
    BY <1>0, <1>5, CatAt
  <2> QED
    BY <1>n, <1>5, <2>1 DEF Joined
\* Where a type of the new name is.
<1>12. ASSUME NEW m \in 1 .. l + 6, b[m].f = items + 1, b[m].i = 3
       PROVE  (m = 3 /\ n >= 3) \/ (m = 4 /\ n \in {1, 2})
  <2>1. CASE m \in 1 .. n
    BY <1>8, <1>12, <2>1
  <2>2. CASE m = n + 1
    BY <1>0, <1>8, <1>12, <2>2
  <2>3. CASE m > n + 1
    <3>1. m - 1 = 3
      BY <1>8, <1>12, <2>3
    <3> QED
      BY <2>3, <3>1
  <2> QED
    BY <1>9, <2>1, <2>2, <2>3
<1>13. CASE ~(n = 1 /\ v = LO)
  <2>1. ASSUME NEW m \in 1 .. l + 6, NEW at \in Nat,
               Lands(Line, b, items, at, m), Passes(Cat(Line, b), at)
        PROVE  FALSE
    <3>1. at + 2 = N + m /\ b[m].f = items + 1 /\ b[m].i = 3
      BY <1>n, <2>1 DEF Lands
    <3>2. CASE m = 3 /\ n >= 3
      <4>1. at = N + 1
        BY <3>1, <3>2
      <4>2. 4 \in 1 .. l + 6 /\ at + 3 = N + 4 /\ n + 1 \in 1 .. l + 6 /\ at + (n + 1) - 1 = N + (n + 1)
        BY <1>7, <3>2, <4>1
      <4>3. Cat(Line, b)[at + 3] = b[4] /\ Cat(Line, b)[at + (n + 1) - 1] = b[n + 1]
        BY <1>11, <4>2
      <4>4. \A i \in 3 .. Cat(Line, b)[at + 3].v + 5 : Cat(Line, b)[at + i - 1].f # 0
        BY <2>1 DEF Passes
      <4>5. b[4].v \in Nat /\ n + 1 \in 3 .. b[4].v + 5
        <5>1. CASE n = 3
          BY <1>1, <1>8, <5>1
        <5>2. CASE n # 3
          <6>1. 4 \in 1 .. n /\ 4 \in 1 .. l + 5
            BY <1>7, <3>2, <5>2
          <6>2. b[4].v = l
            BY <1>v, <1>5, <1>6, <6>1
          <6> QED
            BY <1>7, <3>2, <6>2
        <5> QED
          BY <5>1, <5>2
      <4> QED
        BY <1>8, <4>3, <4>4, <4>5
    <3>3. CASE m = 4 /\ n \in {1, 2}
      <4>1. at = N + 2 /\ 2 \in 1 .. l + 6
        BY <3>1, <3>3
      <4>2. b[2].v = LO
        BY <1>11, <2>1, <4>1 DEF Passes
      <4>3. CASE n = 1
        BY <1>8, <1>13, <4>2, <4>3
      <4>4. CASE n = 2
        <5>1. 2 \in 1 .. n /\ 2 \in 1 .. l + 5
          BY <4>4
        <5>2. b[2].v = HI
          BY <1>v, <1>5, <1>6, <5>1
        <5> QED
          BY <4>2, <5>2 DEF LO, HI
      <4> QED
        BY <3>3, <4>3, <4>4
    <3> QED
      BY <1>12, <3>1, <3>2, <3>3
  <2>2. \A m \in 1 .. Len(b) : \A at \in Nat :
           Lands(Line, b, items, at, m) /\ Passes(Cat(Line, b), at) => b[m].v = Unknown
    BY <1>5, <2>1
  <2>3. Where(Cat(Line, b), good, Len(out), Gone)
    BY <1>0, <1>5, <1>10, <2>2, SentOther
  <2> QED
    BY <1>0, <1>3, <1>5, <1>10, <1>13, <2>3, SendsOK
<1>14. CASE n = 1 /\ v = LO
  <2>0. PICK at \in Nat : at = N + 2
    OBVIOUS
  <2>1. /\ 2 \in 1 .. l + 6 /\ 3 \in 1 .. l + 6 /\ at + 1 = N + 3 /\ 2 \in n + 1 .. l + 5
        /\ 2 \in 1 .. l + 5 /\ 2 + 1 = 3
        /\ \A i \in 3 .. l + 5 : /\ at + i - 1 = N + (i + 1) /\ i + 1 \in 1 .. l + 6
                                  /\ i \in n + 1 .. l + 5 /\ i \in 1 .. l + 5
    BY <1>14, <2>0
  <2>2. Cat(Line, b)[at] = b[2] /\ Cat(Line, b)[at + 1] = b[3]
    BY <1>11, <2>0, <2>1
  <2>3. b[2].v = LO /\ b[2].i = 0
    BY <1>8, <1>14
  <2>4. b[3] = w[2]
    BY <1>5, <2>1
  <2>5. b[3].v = HI /\ b[3].i = 2
    BY <1>v, <1>6, <2>1, <2>4
  <2>6. Body(Cat(Line, b), at, g, Len(g.payload) + 5)
    <3> SUFFICES ASSUME NEW i \in 3 .. l + 5
                 PROVE  Cat(Line, b)[at + i - 1] = [v |-> Values(Page, p)[i], f |-> items + 1, i |-> i]
      BY <1>2, <1>g DEF Body
    <3>1. Cat(Line, b)[at + i - 1] = b[i + 1]
      BY <1>11, <2>1
    <3>2. b[i + 1] = w[i]
      BY <1>5, <2>1
    <3> QED
      BY <1>4, <2>1, <3>1, <3>2
  <2>7. at + Len(g.payload) + 4 <= Len(Cat(Line, b)) /\ Len(Cat(Line, b)) \in Nat
    <3>1. at + l + 4 <= N + (l + 6) /\ N + (l + 6) \in Nat
      BY <2>0
    <3> QED
      BY <1>2, <1>g, <1>11, <3>1
  <2>8. FrameAt(Cat(Line, b), at, g)
    <3>1. /\ Cat(Line, b)[at].v = LO /\ Cat(Line, b)[at].i \in {0, 1}
          /\ Cat(Line, b)[at + 1].v = HI /\ Cat(Line, b)[at + 1].i = 2
      BY <2>2, <2>3, <2>5
    <3>2. at # 0
      BY <2>0
    <3> QED
      BY <1>g, <2>6, <2>7, <3>1, <3>2, StandsAt
  <2>9. OnlyAt(Line, b, items, at) /\ at > Len(Line) /\ Gone <= Len(Line)
    <3>1. Len(b) = l + 6 /\ \A m \in 1 .. l + 6 : b[m].f = items + 1 /\ b[m].i = 3 => m = 4
      BY <1>5, <1>12, <1>14
    <3>2. Len(Line) + 4 = at + 2 /\ at > Len(Line) /\ Gone <= Len(Line)
      BY <1>n, <1>0, <2>0
    <3> QED
      BY <3>1, <3>2 DEF OnlyAt
  <2>10. Where(Cat(Line, b), Append(good, g), Len(out), Gone)
    BY <1>0, <1>5, <1>10, <1>g, <2>8, <2>9, SentGood
  <2>11. good' = Append(good, g) /\ good' \in Seq(Frames)
    BY <1>0, <1>3, <1>14, <1>g, AppendProperties
  <2> QED
    BY <1>3, <1>5, <1>10, <1>g, <2>10, <2>11, SendsOK
<1> QED
  BY <1>13, <1>14


\* s in two parts, the first of n elements.
Parts(S, s, n, x, y) == /\ x \in Seq(S) /\ y \in Seq(S) /\ Cat(x, y) = s
                        /\ Len(x) = n /\ Len(y) = Len(s) - n
                        /\ \A i \in 1 .. n : x[i] = s[i]
                        /\ \A i \in 1 .. Len(s) - n : y[i] = s[n + i]

LEMMA CutAt ==
  ASSUME NEW S, NEW s \in Seq(S), NEW n \in Nat, n <= Len(s)
  PROVE  Parts(S, s, n, SubSeq(s, 1, n), SubSeq(s, n + 1, Len(s)))
<1>1. PICK z \in Nat : z = Len(s) /\ n <= z
  BY LenProperties
<1> DEFINE x == SubSeq(s, 1, n)
           y == SubSeq(s, n + 1, z)
<1>2. \A i \in 1 .. z : s[i] \in S
  BY <1>1, ElementOfSeq
<1>3. (\A i \in 1 .. n : s[i] \in S) /\ (\A i \in n + 1 .. z : s[i] \in S)
  BY <1>1, <1>2
<1>4. x \in Seq(S) /\ Len(x) = n /\ \A i \in 1 .. n : x[i] = s[i]
  BY <1>1, <1>3, SubSeqProperties
<1>5. y \in Seq(S) /\ Len(y) = z - n /\ \A i \in 1 .. z - n : y[i] = s[n + i]
  <2>1. /\ y \in Seq(S) /\ Len(y) = IF n + 1 <= z THEN z - (n + 1) + 1 ELSE 0
        /\ \A i \in 1 .. z - (n + 1) + 1 : y[i] = s[(n + 1) + i - 1]
    BY <1>1, <1>3, SubSeqProperties
  <2>2. /\ z - (n + 1) + 1 = z - n /\ (~(n + 1 <= z) => z - n = 0)
        /\ \A i \in 1 .. z - n : (n + 1) + i - 1 = n + i
    BY <1>1
  <2> HIDE DEF y
  <2> QED
    BY <2>1, <2>2
<1>6. SubSeq(s, 1, n) \o SubSeq(s, n + 1, Len(s)) = SubSeq(s, 1, Len(s))
  <2>1. 1 \in 1 .. Len(s) + 1 /\ n \in (1 - 1) .. Len(s) /\ Len(s) \in n .. Len(s)
    BY <1>1
  <2> QED
    BY <2>1, ConcatAdjacentSubSeq
<1>7. Cat(x, y) = s
  BY <1>1, <1>6, SubSeqFull DEF Cat
<1> HIDE DEF x, y
<1>8. Parts(S, s, n, x, y)
  BY <1>1, <1>4, <1>5, <1>7 DEF Parts
<1> QED
  BY <1>1, <1>8 DEF x, y

LEMMA PushOK == ASSUME FrInv, NEW n \in 1 .. Len(stream), push(n) PROVE FrInv'
<1> DEFINE x == SubSeq(stream, 1, n)
           y == SubSeq(stream, n + 1, Len(stream))
<1>1. /\ FrType /\ Named(Line, items) /\ BufOK /\ OutOK /\ Where(Line, good, Len(out), Gone)
  BY DEF FrInv
<1>2. /\ pushed' = Cat(pushed, x) /\ buf' = Cat(buf, x) /\ stream' = y /\ running'
      /\ items' = items /\ good' = good /\ out' = out
  BY DEF push, Cat
<1>3. /\ Line \in Seq(Bytes) /\ Len(Line) \in Nat /\ Gone \in Nat
      /\ Len(stream) \in Nat /\ Len(pushed) \in Nat /\ Len(buf) \in Nat
      /\ Len(Line) = Len(pushed) + Len(stream) /\ Gone + Len(buf) = Len(pushed)
  BY <1>1, FrBounds
<1>4. n \in Nat /\ n <= Len(stream)
  BY <1>3
<1>5. Parts(Bytes, stream, n, x, y)
  BY <1>1, <1>4, CutAt DEF FrType
<1> HIDE DEF x, y
<1>6. /\ x \in Seq(Bytes) /\ y \in Seq(Bytes) /\ Cat(x, y) = stream /\ Len(x) = n
      /\ \A i \in 1 .. n : x[i] = stream[i]
  BY <1>5 DEF Parts
<1>7. Joined(Bytes, Cat(pushed, x), pushed, x) /\ Joined(Bytes, Cat(buf, x), buf, x)
  BY <1>1, <1>6, CatAt DEF FrType
<1>8. /\ Cat(pushed, x) \in Seq(Bytes) /\ Cat(buf, x) \in Seq(Bytes)
      /\ Len(Cat(pushed, x)) = Len(pushed) + n /\ Len(Cat(buf, x)) = Len(buf) + n
      /\ \A i \in 1 .. Len(buf) : Cat(buf, x)[i] = buf[i]
      /\ \A i \in 1 .. n : Cat(buf, x)[Len(buf) + i] = x[i]
  BY <1>6, <1>7 DEF Joined
<1>9. FrType'
  BY <1>1, <1>2, <1>6, <1>8 DEF FrType
<1>10. Line' = Line
  BY <1>1, <1>2, <1>6, CatProperties DEF Line, FrType
<1>11. Gone' = Gone
  BY <1>2, <1>3, <1>8 DEF Gone
<1>12. ASSUME NEW j \in 1 .. Len(buf) + n PROVE Line[Gone + j] = Cat(buf, x)[j]
  <2>1. CASE j <= Len(buf)
    <3>1. j \in 1 .. Len(buf)
      BY <1>3, <2>1
    <3> QED
      BY <1>1, <1>8, <3>1 DEF BufOK
  <2>2. CASE ~(j <= Len(buf))
    <3>1. PICK i \in 1 .. n : j = Len(buf) + i
      <4>1. j - Len(buf) \in 1 .. n /\ j = Len(buf) + (j - Len(buf))
        BY <1>3, <1>4, <2>2
      <4> QED
        BY <4>1
    <3>2. i \in 1 .. Len(stream) /\ Gone + j = Len(pushed) + i
      BY <1>3, <1>4, <3>1
    <3>3. Joined(Bytes, Cat(pushed, stream), pushed, stream)
      BY <1>1, CatAt DEF FrType
    <3>4. Line[Len(pushed) + i] = stream[i]
      BY <3>2, <3>3 DEF Joined, Line
    <3> QED
      BY <1>6, <1>8, <3>1, <3>2, <3>4
  <2> QED
    BY <2>1, <2>2
<1>13. BufOK'
  <2>1. Len(buf) + n <= Len(pushed) + n
    BY <1>3, <1>4
  <2> QED
    BY <1>2, <1>8, <1>10, <1>11, <1>12, <2>1 DEF BufOK
<1>14. Waits' /\ OutOK'
  BY <1>1, <1>2 DEF Waits, OutOK
<1>15. Where(Line, good, Len(out), Gone)' /\ Named(Line, items)'
  BY <1>1, <1>2, <1>10, <1>11 DEF Named
<1> QED
  BY <1>9, <1>13, <1>14, <1>15 DEF FrInv

\* k bytes leave the buffer.
LEMMA LeaveOK ==
  ASSUME FrInv, NEW k \in Nat, k <= Len(buf), buf' = SubSeq(buf, k + 1, Len(buf)),
         stream' = stream, pushed' = pushed, items' = items, good' = good,
         out' \in Seq(Frames), OutOK', Waits', Where(Line, good, Len(out'), Gone + k)
  PROVE  FrInv'
<1>1. /\ FrType /\ Named(Line, items) /\ BufOK
  BY DEF FrInv
<1>2. /\ Line \in Seq(Bytes) /\ Len(Line) \in Nat /\ Gone \in Nat
      /\ Len(stream) \in Nat /\ Len(pushed) \in Nat /\ Len(buf) \in Nat
      /\ Gone + Len(buf) = Len(pushed)
  BY <1>1, FrBounds
<1>3. Parts(Bytes, buf, k, SubSeq(buf, 1, k), SubSeq(buf, k + 1, Len(buf)))
  BY <1>1, CutAt DEF FrType
<1>4. /\ buf' \in Seq(Bytes) /\ Len(buf') = Len(buf) - k
      /\ \A i \in 1 .. Len(buf) - k : buf'[i] = buf[k + i]
  BY <1>3 DEF Parts
<1>5. FrType'
  BY <1>1, <1>4 DEF FrType
<1>6. Line' = Line
  BY DEF Line
<1>7. Gone' = Gone + k
  <2>1. PICK x \in Nat : x = Len(pushed)
    BY <1>2
  <2>2. PICK z \in Nat : z = Len(buf)
    BY <1>2
  <2>3. Gone' = x - (z - k) /\ Gone = x - z
    BY <1>4, <2>1, <2>2 DEF Gone
  <2> QED
    BY <2>3
<1>8. BufOK'
  <2>1. Len(buf) - k <= Len(pushed)
    BY <1>2
  <2>2. ASSUME NEW j \in 1 .. Len(buf) - k PROVE Line[Gone + k + j] = buf'[j]
    <3>1. k + j \in 1 .. Len(buf) /\ Gone + k + j = Gone + (k + j)
      BY <1>2
    <3> QED
      BY <1>1, <1>4, <3>1 DEF BufOK
  <2> QED
    BY <1>4, <1>6, <1>7, <2>1, <2>2 DEF BufOK
<1>9. Where(Line, good, Len(out), Gone)' /\ Named(Line, items)'
  BY <1>1, <1>6, <1>7
<1> QED
  BY <1>5, <1>8, <1>9 DEF FrInv


\* A frame in the buffer shows its SYNC there.
LEMMA FrameInBuf ==
  ASSUME FrInv, NEW j \in 1 .. Len(buf), NEW g \in Frames, FrameAt(Line, Gone + j, g)
  PROVE  buf[j].v = LO /\ (j < Len(buf) => j \in Syncs(buf))
<1>1. FrType /\ BufOK
  BY DEF FrInv
<1>2. Line \in Seq(Bytes) /\ Gone \in Nat /\ Len(buf) \in Nat
  BY <1>1, FrBounds
<1>3. PICK at \in Nat : at = Gone + j
  BY <1>2
<1>4. Line[at].v = LO /\ Line[at + 1].v = HI
  BY <1>2, <1>3, FrameBounds
<1>5. buf[j].v = LO
  BY <1>1, <1>3, <1>4 DEF BufOK
<1>6. ASSUME j < Len(buf) PROVE j \in Syncs(buf)
  <2>1. j + 1 \in 1 .. Len(buf) /\ at + 1 = Gone + (j + 1) /\ j \in 1 .. Len(buf) - 1
    BY <1>2, <1>3, <1>6
  <2>2. buf[j + 1].v = HI
    BY <1>1, <1>4, <2>1 DEF BufOK
  <2> QED
    BY <1>5, <2>1, <2>2 DEF Syncs
<1> QED
  BY <1>5, <1>6

\* The first SYNC is one, and there is none before it.
LEMMA FirstSyncAt ==
  ASSUME NEW b \in Seq(Bytes), Syncs(b) # {}
  PROVE  /\ FirstSync(b) \in Syncs(b) /\ FirstSync(b) \in 1 .. Len(b) - 1 /\ Len(b) \in Nat
         /\ \A j \in Syncs(b) : FirstSync(b) <= j
<1>1. Len(b) \in Nat
  BY LenProperties
<1>2. Syncs(b) \in SUBSET Nat /\ Syncs(b) \subseteq 1 .. Len(b) - 1
  BY <1>1 DEF Syncs
<1>3. \E i \in Syncs(b) : \A j \in Syncs(b) : i <= j
  BY <1>2, LeastNatural
<1>4. FirstSync(b) \in Syncs(b) /\ \A j \in Syncs(b) : FirstSync(b) <= j
  BY <1>3 DEF FirstSync
<1> QED
  BY <1>1, <1>2, <1>4

\* Bytes among which no frame begins are discarded.
LEMMA DiscardOK ==
  ASSUME FrInv, NEW k \in Nat, k <= Len(buf), discard(k), Waits',
         \A j \in 1 .. k : \A g \in Frames : ~FrameAt(Line, Gone + j, g)
  PROVE  FrInv'
<1>1. FrType /\ BufOK /\ OutOK /\ Where(Line, good, Len(out), Gone)
  BY DEF FrInv
<1>2. Line \in Seq(Bytes) /\ Gone \in Nat /\ Len(out) \in Nat
  BY <1>1, FrBounds
<1>3. /\ buf' = SubSeq(buf, k + 1, Len(buf)) /\ stream' = stream /\ pushed' = pushed
      /\ items' = items /\ good' = good /\ out' = out
  BY DEF discard
<1>4. ASSUME NEW at \in Gone + 1 .. Gone + k, NEW g \in Frames PROVE ~FrameAt(Line, at, g)
  <2>1. at - Gone \in 1 .. k /\ Gone + (at - Gone) = at
    BY <1>2
  <2>2. ~FrameAt(Line, Gone + (at - Gone), g)
    BY <2>1
  <2> QED
    BY <2>1, <2>2
<1>5. Where(Line, good, Len(out), Gone + k)
  BY <1>1, <1>2, <1>4, NoneLeft DEF FrType
<1>6. OutOK' /\ out' \in Seq(Frames)
  BY <1>1, <1>3 DEF OutOK, FrType
<1> QED
  BY <1>3, <1>5, <1>6, LeaveOK

LEMMA NoSyncOK == ASSUME FrInv, NoSync PROVE FrInv'
<1>1. FrType /\ BufOK
  BY DEF FrInv
<1>2. PICK z \in Nat : z = Len(buf)
  BY <1>1, FrBounds
<1> DEFINE half == buf # <<>> /\ Last(buf).v = LO
           k == Len(buf) - (IF half THEN 1 ELSE 0)
<1>3. discard(k) /\ running' = FALSE /\ Syncs(buf) = {}
  BY DEF NoSync
<1>4. half => z # 0
  BY <1>1, <1>2, EmptySeq DEF FrType
<1>5. z # 0 /\ buf[z].v = LO => half
  BY <1>2 DEF Last
<1> HIDE DEF half
<1>6. k \in Nat /\ k <= z /\ z - k <= 1 /\ (~half => k = z) /\ (half => k = z - 1)
  BY <1>2, <1>4
<1> HIDE DEF k
<1>7. ASSUME NEW j \in 1 .. k, NEW g \in Frames, FrameAt(Line, Gone + j, g) PROVE FALSE
  <2>1. j \in 1 .. Len(buf)
    BY <1>2, <1>6
  <2>2. buf[j].v = LO /\ (j < Len(buf) => j \in Syncs(buf))
    BY <1>7, <2>1, FrameInBuf
  <2>3. j = z
    BY <1>2, <1>3, <2>1, <2>2
  <2>4. half
    BY <1>5, <2>1, <2>2, <2>3
  <2> QED
    BY <1>6, <2>3, <2>4
<1>8. Waits'
  <2>1. Parts(Bytes, buf, k, SubSeq(buf, 1, k), SubSeq(buf, k + 1, Len(buf)))
    BY <1>1, <1>2, <1>6, CutAt DEF FrType
  <2>2. buf' = SubSeq(buf, k + 1, Len(buf))
    BY <1>3 DEF discard
  <2>3. Len(buf') = z - k
    BY <1>2, <2>1, <2>2 DEF Parts
  <2>4. Len(buf') <= 1
    BY <1>6, <2>3
  <2> QED
    BY <2>4 DEF Waits
<1>9. k <= Len(buf) /\ \A j \in 1 .. k : \A g \in Frames : ~FrameAt(Line, Gone + j, g)
  BY <1>2, <1>6, <1>7
<1> QED
  BY <1>3, <1>6, <1>8, <1>9, DiscardOK

LEMMA SkipToSyncOK == ASSUME FrInv, SkipToSync PROVE FrInv'
<1>1. FrType /\ BufOK
  BY DEF FrInv
<1>2. PICK z \in Nat : z = Len(buf)
  BY <1>1, FrBounds
<1>3. /\ FirstSync(buf) \in 1 .. z - 1
      /\ \A j \in Syncs(buf) : FirstSync(buf) <= j
  BY <1>1, <1>2, FirstSyncAt DEF SkipToSync, FrType
<1>4. PICK k \in Nat : k = FirstSync(buf) - 1 /\ k + 1 <= z
  BY <1>3
<1>5. discard(k) /\ running'
  BY <1>4 DEF SkipToSync
<1>6. ASSUME NEW j \in 1 .. k, NEW g \in Frames, FrameAt(Line, Gone + j, g) PROVE FALSE
  <2>1. j \in 1 .. Len(buf) /\ j < Len(buf) /\ ~(FirstSync(buf) <= j)
    BY <1>2, <1>3, <1>4
  <2>2. j \in Syncs(buf)
    BY <1>6, <2>1, FrameInBuf
  <2> QED
    BY <1>3, <2>1, <2>2
<1>7. k <= Len(buf) /\ \A j \in 1 .. k : \A g \in Frames : ~FrameAt(Line, Gone + j, g)
  BY <1>2, <1>4, <1>6
<1>8. Waits'
  BY <1>5 DEF Waits
<1> QED
  BY <1>5, <1>7, <1>8, DiscardOK

LEMMA NeedsMoreOK == ASSUME FrInv, NeedsMore PROVE FrInv'
<1>1. /\ FrType /\ Named(Line, items) /\ BufOK /\ OutOK /\ Where(Line, good, Len(out), Gone)
  BY DEF FrInv
<1>2. /\ stream' = stream /\ pushed' = pushed /\ buf' = buf /\ items' = items /\ good' = good
      /\ out' = out
  BY DEF NeedsMore
<1>3. Line' = Line /\ Gone' = Gone
  BY <1>2 DEF Line, Gone
<1>4. FrType' /\ OutOK' /\ Named(Line, items)' /\ Where(Line, good, Len(out), Gone)'
  BY <1>1, <1>2, <1>3 DEF FrType, OutOK
<1>5. BufOK'
  BY <1>1, <1>2, <1>3 DEF BufOK
<1>6. Waits'
  <2>1. Syncs(buf) # {} /\ FirstSync(buf) = 1 /\ (Len(buf) < HEADER \/ Len(buf) < total)
    BY DEF NeedsMore, AtSync
  <2> QED
    BY <1>2, <2>1 DEF Waits, Syncs, FirstSync, total, len
<1> QED
  BY <1>4, <1>5, <1>6 DEF FrInv

\* What the decoder sees at a SYNC with a whole header.
LEMMA HeaderAt ==
  ASSUME FrInv, AtSync, Len(buf) >= HEADER
  PROVE  /\ Len(buf) \in Nat /\ Len(buf) >= 4 /\ Gone \in Nat /\ Line \in Seq(Bytes) /\ Len(Line) \in Nat
         /\ Gone + Len(buf) <= Len(Line)
         /\ len \in Nat /\ total = len + 5
         /\ \A j \in 1 .. Len(buf) : Line[Gone + j] = buf[j]
         /\ buf[1].v = LO /\ buf[2].v = HI /\ buf[4].v = len
<1>1. FrType /\ BufOK
  BY DEF FrInv
<1>2. /\ Len(buf) \in Nat /\ Gone \in Nat /\ Line \in Seq(Bytes) /\ Len(Line) \in Nat
      /\ Gone + Len(buf) <= Len(Line)
  BY <1>1, FrBounds
<1>3. Len(buf) >= 4 /\ 4 \in 1 .. Len(buf)
  BY <1>2 DEF HEADER
<1>4. buf[4] \in Bytes
  BY <1>1, <1>3, ElementOfSeq DEF FrType
<1>5. len \in Nat /\ buf[4].v = len
  BY <1>4 DEF len, HEADER, Bytes
<1>6. total = len + 5
  BY <1>5 DEF total, HEADER, TRAILER
<1>7. 1 \in Syncs(buf)
  BY <1>1, FirstSyncAt DEF AtSync, FrType
<1>8. buf[1].v = LO /\ buf[2].v = HI
  BY <1>7 DEF Syncs
<1> QED
  BY <1>1, <1>2, <1>3, <1>5, <1>6, <1>8 DEF BufOK


\* Two bytes of a header that does not begin a frame.
LEMMA RejectsOK == ASSUME FrInv, Rejects PROVE FrInv'
<1>0. AtSync /\ Len(buf) >= HEADER /\ discard(2) /\ running'
  BY DEF Rejects, AtSync
<1>1. /\ Len(buf) \in Nat /\ Len(buf) >= 4 /\ Gone \in Nat /\ Line \in Seq(Bytes) /\ Len(Line) \in Nat
      /\ Gone + Len(buf) <= Len(Line)
      /\ len \in Nat /\ total = len + 5
      /\ \A j \in 1 .. Len(buf) : Line[Gone + j] = buf[j]
      /\ buf[1].v = LO /\ buf[2].v = HI /\ buf[4].v = len
  BY <1>0, HeaderAt
<1>2. PICK x \in Nat : x = Gone
  BY <1>1
<1>3. PICK l \in Nat : l = len
  BY <1>1
<1>4. ASSUME NEW g \in Frames, FrameAt(Line, Gone + 1, g) PROVE FALSE
  <2>1. PICK at \in Nat : at = x + 1
    OBVIOUS
  <2>2. FrameAt(Line, at, g)
    BY <1>2, <1>4, <2>1
  <2>3. /\ Len(g.payload) \in Nat /\ Len(g.payload) <= MAX_PAYLOAD /\ Line[at + 2].f = g.f
        /\ Line[at + 3].v = Len(g.payload)
        /\ Shows(Line, at, g)
    <3>1. Line \in Seq(Bytes)
      BY <1>1
    <3> QED
      BY <2>2, <3>1, FrameBounds
  <2>4. at + 2 = x + 3 /\ at + 3 = x + 4 /\ 3 \in 1 .. Len(buf) /\ 4 \in 1 .. Len(buf)
    BY <1>1, <2>1
  <2>5. Len(g.payload) = l /\ buf[3].f = g.f
    BY <1>1, <1>2, <1>3, <2>3, <2>4
  <2>6. ~(len > MAX_PAYLOAD)
    BY <1>3, <2>3, <2>5, FramingAssumption DEF FramingAssumption
  <2>7. Len(buf) >= l + 5 /\ ~Matches
    BY <1>1, <1>3, <2>6 DEF Rejects
  <2>8. g.f # 0
    BY DEF Frames
  <2>9. ASSUME NEW i \in 3 .. l + 5 PROVE buf[i].f = buf[3].f /\ buf[i].f # 0 /\ buf[i].i = i
    <3>1. i \in 1 .. Len(buf) /\ at + i - 1 = x + i
      BY <1>1, <2>1, <2>7
    <3>2. Line[at + i - 1] = buf[i]
      BY <1>1, <1>2, <3>1
    <3>3. Line[at + i - 1].f = g.f /\ Line[at + i - 1].i = i
      BY <2>3, <2>5 DEF Shows
    <3> QED
      BY <2>5, <2>8, <3>2, <3>3
  <2>10. Matches
    BY <1>1, <1>3, <2>9 DEF Matches
  <2> QED
    BY <2>7, <2>10
<1>5. ASSUME NEW g \in Frames, FrameAt(Line, Gone + 2, g) PROVE FALSE
  <2>1. 2 \in 1 .. Len(buf)
    BY <1>1
  <2>2. buf[2].v = LO
    BY <1>5, <2>1, FrameInBuf
  <2> QED
    BY <1>1, <2>2 DEF LO, HI
<1>6. \A j \in 1 .. 2 : \A g \in Frames : ~FrameAt(Line, Gone + j, g)
  <2>1. \A j \in 1 .. 2 : j = 1 \/ j = 2
    OBVIOUS
  <2> QED
    BY <1>4, <1>5, <2>1
<1>7. Waits' /\ 2 <= Len(buf) /\ 2 \in Nat
  BY <1>0, <1>1 DEF Waits
<1> QED
  BY <1>0, <1>6, <1>7, DiscardOK

\* The frame at the front of the buffer.
Frame == [ty |-> buf[3].v, payload |-> [i \in 1 .. len |-> buf[HEADER + i].v], f |-> buf[3].f]

\* What comes out is the next frame that went in whole.
LEMMA DecodesOK ==
  ASSUME FrInv, Decodes PROVE FrInv' /\ (buf[3].v # Unknown => Frame \in Frames)
<1> DEFINE ty == buf[3].v
           p  == [i \in 1 .. len |-> buf[HEADER + i].v]
           frame == [ty |-> ty, payload |-> p, f |-> buf[3].f]
<1>0. /\ AtSync /\ Len(buf) >= HEADER /\ Len(buf) >= total /\ Matches
      /\ buf' = SubSeq(buf, total + 1, Len(buf))
      /\ out' = IF ty = Unknown THEN out ELSE Append(out, frame)
      /\ stream' = stream /\ items' = items /\ good' = good /\ pushed' = pushed /\ running'
  BY DEF Decodes, AtSync
<1>1. /\ Len(buf) \in Nat /\ Len(buf) >= 4 /\ Gone \in Nat /\ Line \in Seq(Bytes) /\ Len(Line) \in Nat
      /\ Gone + Len(buf) <= Len(Line)
      /\ len \in Nat /\ total = len + 5
      /\ \A j \in 1 .. Len(buf) : Line[Gone + j] = buf[j]
      /\ buf[1].v = LO /\ buf[2].v = HI /\ buf[4].v = len
  BY <1>0, HeaderAt
<1>2. PICK x \in Nat : x = Gone
  BY <1>1
<1>3. PICK l \in Nat : l = len
  BY <1>1
<1>4. PICK z \in Nat : z = Len(buf) /\ z >= l + 5 /\ x + z <= Len(Line)
  BY <1>0, <1>1, <1>2, <1>3
<1>5. PICK at \in Nat : at = x + 1
  OBVIOUS
<1>6. \A j \in 1 .. z : Line[x + j] = buf[j]
  BY <1>1, <1>2, <1>4
<1>7. Line[at] = buf[1] /\ Line[at + 1] = buf[2] /\ Line[at + 2] = buf[3] /\ Line[at + 3] = buf[4]
  <2>1. /\ 1 \in 1 .. z /\ 2 \in 1 .. z /\ 3 \in 1 .. z /\ 4 \in 1 .. z
        /\ at = x + 1 /\ at + 1 = x + 2 /\ at + 2 = x + 3 /\ at + 3 = x + 4
    BY <1>4, <1>5
  <2> QED
    BY <1>6, <2>1
<1>8. Passes(Line, at)
  <2>1. ASSUME NEW i \in 3 .. l + 5
        PROVE  Line[at + i - 1].f = Line[at + 2].f /\ Line[at + i - 1].f # 0 /\ Line[at + i - 1].i = i
    <3>1. i \in 1 .. z /\ at + i - 1 = x + i
      BY <1>4, <1>5
    <3>2. buf[i].f = buf[3].f /\ buf[i].f # 0 /\ buf[i].i = i
      BY <1>0, <1>1, <1>3 DEF Matches
    <3> QED
      BY <1>6, <1>7, <3>1, <3>2
  <2>2. at \in Nat \ {0} /\ at + 4 <= Len(Line) /\ at + l + 4 <= Len(Line)
    BY <1>1, <1>4, <1>5
  <2> QED
    BY <1>1, <1>3, <1>7, <2>1, <2>2 DEF Passes
<1>9. FrType /\ OutOK /\ Where(Line, good, Len(out), x) /\ BufOK
  BY <1>2 DEF FrInv
<1>10. PICK n \in Nat : n = Len(out) /\ n <= Len(good) /\ Len(good) \in Nat
  BY <1>9, FrBounds DEF OutOK
<1>11. PICK k \in Nat : k = l + 5 /\ k = total /\ k <= Len(buf)
  BY <1>1, <1>3, <1>4
<1>12. x + Line[at + 3].v + 5 = Gone + k
  <2>1. Line[at + 3].v = l
    BY <1>1, <1>3, <1>7
  <2> QED
    BY <1>2, <1>11, <2>1
<1>13. \/ Line[at + 2].v = Unknown /\ Where(Line, good, n, Gone + k)
       \/ /\ Line[at + 2].v # Unknown
          /\ n + 1 \in 1 .. Len(good) /\ FrameAt(Line, at, good[n + 1])
          /\ Where(Line, good, n + 1, Gone + k)
  <2>1. Leaves(Line, good, n, x, at)
    BY <1>1, <1>5, <1>8, <1>9, <1>10, NextLeaves DEF FrType
  <2> QED
    BY <1>12, <2>1 DEF Leaves
<1>14. Waits'
  BY <1>0 DEF Waits
<1>15. CASE Line[at + 2].v = Unknown
  <2>1. out' = out
    BY <1>0, <1>7, <1>15
  <2>2. out' \in Seq(Frames) /\ OutOK' /\ Where(Line, good, Len(out'), Gone + k)
    BY <1>0, <1>9, <1>10, <1>13, <1>15, <2>1 DEF OutOK, FrType
  <2>3. buf[3].v = Unknown
    BY <1>7, <1>15
  <2> QED
    BY <1>0, <1>11, <1>14, <2>2, <2>3, LeaveOK
<1>16. CASE Line[at + 2].v # Unknown
  <2>1. n + 1 \in 1 .. Len(good) /\ FrameAt(Line, at, good[n + 1]) /\ Where(Line, good, n + 1, Gone + k)
    BY <1>13, <1>16
  <2>2. PICK g \in Frames : g = good[n + 1]
    BY <1>9, <2>1, ElementOfSeq DEF FrType
  <2>3. /\ Line[at + 2].v = g.ty /\ Line[at + 2].f = g.f /\ Line[at + 3].v = Len(g.payload)
        /\ g.payload \in Seq(Nat)
        /\ \A i \in 1 .. Len(g.payload) : Line[at + 4 + i - 1].v = g.payload[i]
    <3>1. /\ Line[at + 2].v = g.ty /\ Line[at + 2].f = g.f /\ Line[at + 3].v = Len(g.payload)
          /\ Shows(Line, at, g)
      <4>1. FrameAt(Line, at, g)
        BY <2>1, <2>2
      <4>2. Line \in Seq(Bytes)
        BY <1>1
      <4> QED
        BY <4>1, <4>2, FrameBounds
    <3> QED
      BY <3>1 DEF Shows
  <2>4. Len(g.payload) = l
    BY <1>1, <1>3, <1>7, <2>3
  <2>5. \A i \in 1 .. l : buf[4 + i].v = g.payload[i]
    <3> SUFFICES ASSUME NEW i \in 1 .. l PROVE buf[4 + i].v = g.payload[i]
      OBVIOUS
    <3>1. 4 + i \in 1 .. z /\ at + 4 + i - 1 = x + (4 + i)
      BY <1>4, <1>5
    <3> QED
      BY <1>6, <2>3, <2>4, <3>1
  <2>6. p = g.payload
    <3>1. p = [i \in 1 .. l |-> g.payload[i]]
      BY <1>3, <2>5 DEF HEADER
    <3> HIDE DEF p
    <3> QED
      BY <2>3, <2>4, <3>1
  <2>7. frame = g
    <3>1. ty = g.ty /\ buf[3].f = g.f
      BY <1>7, <2>3
    <3>2. g = [ty |-> g.ty, payload |-> g.payload, f |-> g.f]
      BY DEF Frames
    <3> HIDE DEF p, ty
    <3> QED
      BY <2>6, <3>1, <3>2
  <2>f. Frame \in Frames
    BY <2>7 DEF Frame
  <2> HIDE DEF p, frame
  <2>8. out' = Append(out, g)
    BY <1>0, <1>7, <1>16, <2>7
  <2>9. /\ out' \in Seq(Frames) /\ Len(out') = n + 1 /\ out'[n + 1] = g
        /\ \A j \in 1 .. n : out'[j] = out[j]
    BY <1>9, <1>10, <2>8, AppendProperties DEF FrType
  <2>10. OutOK'
    <3>1. ASSUME NEW j \in 1 .. n + 1 PROVE out'[j] = good[j]
      <4>1. CASE j = n + 1
        BY <2>2, <2>9, <4>1
      <4>2. CASE j # n + 1
        <5>1. j \in 1 .. n
          BY <4>2
        <5> QED
          BY <1>9, <1>10, <2>9, <5>1 DEF OutOK
      <4> QED
        BY <4>1, <4>2
    <3>2. n + 1 <= Len(good)
      BY <1>10, <2>1
    <3> QED
      BY <1>0, <2>9, <3>1, <3>2 DEF OutOK
  <2>11. Where(Line, good, Len(out'), Gone + k)
    BY <2>1, <2>9
  <2> QED
    BY <1>0, <1>11, <1>14, <2>f, <2>9, <2>10, <2>11, LeaveOK
<1> QED
  BY <1>15, <1>16

\* Taking from Mux or reporting noise leaves the decoder alone.
LEMMA StillOK ==
  ASSUME FrInv, UNCHANGED <<stream, pushed, buf, running, items, good, out>>
  PROVE  FrInv'
<1>1. /\ FrType /\ Named(Line, items) /\ BufOK /\ Waits /\ OutOK
      /\ Where(Line, good, Len(out), Gone)
  BY DEF FrInv
<1>2. Line' = Line /\ Gone' = Gone
  BY DEF Line, Gone
<1>3. FrType' /\ OutOK' /\ Named(Line, items)' /\ Where(Line, good, Len(out), Gone)'
  BY <1>1, <1>2 DEF FrType, OutOK
<1>4. BufOK'
  BY <1>1, <1>2 DEF BufOK
<1>5. Waits'
  BY <1>1 DEF Waits, Syncs, FirstSync, total, len
<1> QED
  BY <1>3, <1>4, <1>5 DEF FrInv

LEMMA FrStepOK == FrInv /\ [FramingNext]_framingVars => FrInv'
<1> SUFFICES ASSUME FrInv, [FramingNext]_framingVars PROVE FrInv'
  OBVIOUS
<1>1. CASE Sender
  <2>1. \A n \in 1 .. HEADER + MAX_PAYLOAD : n \in Nat \ {0}
    BY FramingAssumption DEF FramingAssumption, HEADER
  <2> QED
    BY <1>1, <2>1, SendFrameOK, SendTextOK, SendPartOK, SendSplitOK DEF Sender
<1>2. ASSUME NEW n \in 1 .. Len(stream), push(n) PROVE FrInv'
  BY <1>2, PushOK
<1>3. CASE Decode
  BY <1>3, NoSyncOK, SkipToSyncOK, NeedsMoreOK, RejectsOK, DecodesOK DEF Decode
<1>4. ASSUME NEW want \in {Page, Ack}, take_matching(want) PROVE FrInv'
  BY <1>4, StillOK DEF take_matching
<1>5. CASE take_console \/ take_noise
  BY <1>5, StillOK DEF take_console, take_noise
<1>6. CASE UNCHANGED framingVars
  BY <1>6, StillOK DEF framingVars, decVars
<1> QED
  BY <1>1, <1>2, <1>3, <1>4, <1>5, <1>6 DEF FramingNext

(***************************************************************************)
(* FrInv is an inductive invariant: every whole frame of a known type has  *)
(* its place on the line, nothing else there would be accepted as one, and *)
(* the first Len(out) of them are those whose bytes have left the buffer.  *)
(***************************************************************************)
THEOREM FramingInvariance == FramingSpec => []FrInv
<1>1. FramingInit => FrInv
  BY FrInitOK
<1>2. FrInv /\ [FramingNext]_framingVars => FrInv'
  BY FrStepOK
<1> QED
  BY <1>1, <1>2, PTL DEF FramingSpec

(***************************************************************************)
(* For every payload, text, cut and order: the frames Decoder::next_frame  *)
(* returns are a prefix of those encode sent whole, in order; discarding   *)
(* two bytes of a bad header never eats into a good frame behind it.       *)
(***************************************************************************)
THEOREM FramesComeOutInOrder == FramingSpec => []GoodFramesInOrder
<1>1. FrInv => GoodFramesInOrder
  <2> SUFFICES ASSUME FrInv PROVE IsPrefix(out, good)
    BY DEF GoodFramesInOrder
  <2>1. FrType /\ BufOK /\ OutOK
    BY DEF FrInv
  <2>2. PICK n \in Nat : n = Len(out) /\ n <= Len(good)
    BY <2>1, FrBounds DEF OutOK
  <2>3. Parts(Frames, good, n, SubSeq(good, 1, n), SubSeq(good, n + 1, Len(good)))
    BY <2>1, <2>2, CutAt DEF FrType
  <2>4. /\ SubSeq(good, 1, n) \in Seq(Frames) /\ Len(SubSeq(good, 1, n)) = n
        /\ \A i \in 1 .. n : SubSeq(good, 1, n)[i] = good[i]
    BY <2>3 DEF Parts
  <2>5. out = SubSeq(good, 1, n)
    <3>1. out \in Seq(Frames) /\ \A i \in 1 .. n : out[i] = good[i]
      BY <2>1, <2>2 DEF OutOK, FrType
    <3> QED
      BY <2>2, <2>4, <3>1, SeqEqual
  <2> QED
    BY <2>2, <2>5 DEF IsPrefix
<1> QED
  BY <1>1, FramingInvariance, PTL

(***************************************************************************)
(* When all has been pushed and next_frame has returned None, a whole      *)
(* frame is still inside only behind a header that announces more bytes    *)
(* than have come.                                                         *)
(***************************************************************************)
THEOREM OnlyAHeaderHides == FramingSpec => []HiddenOnlyByAHeader
<1>1. FrInv => HiddenOnlyByAHeader
  <2> SUFFICES ASSUME FrInv, ~running, stream = <<>>, out # good
               PROVE  /\ Len(buf) >= HEADER
                      /\ Syncs(buf) # {} /\ FirstSync(buf) = 1
                      /\ Len(buf) < total
    BY DEF HiddenOnlyByAHeader
  <2>1. FrType /\ BufOK /\ OutOK /\ Waits /\ Where(Line, good, Len(out), Gone)
    BY DEF FrInv
  <2>2. /\ Line \in Seq(Bytes) /\ Len(Line) \in Nat /\ Gone \in Nat /\ Len(buf) \in Nat
        /\ Len(Line) = Gone + Len(buf) /\ Len(good) \in Nat /\ Len(out) \in Nat
    <3>1. Len(stream) = 0
      OBVIOUS
    <3> QED
      BY <2>1, <3>1, FrBounds
  <2>3. Len(out) # Len(good)
    <3>1. ASSUME Len(out) = Len(good) PROVE FALSE
      <4>1. \A i \in 1 .. Len(good) : out[i] = good[i]
        BY <2>1, <3>1 DEF OutOK
      <4>2. out = good
        BY <2>1, <3>1, <4>1, SeqEqual DEF FrType
      <4> QED
        BY <4>2
    <3> QED
      BY <3>1
  <2>4. PICK j \in 1 .. Len(good) : ~(j <= Len(out))
    <3>1. Len(out) + 1 \in 1 .. Len(good) /\ ~(Len(out) + 1 <= Len(out))
      BY <2>1, <2>2, <2>3 DEF OutOK
    <3> QED
      BY <3>1
  <2>5. PICK st : Placed(st, Line, good) /\ Ahead(st, Len(good), Len(out), Gone)
    BY <2>1 DEF Where
  <2>6. FrameAt(Line, st[j], good[j]) /\ good[j] \in Frames /\ ~(st[j] <= Gone)
    BY <2>1, <2>4, <2>5, ElementOfSeq DEF Placed, Ahead, FrType
  <2>7. st[j] \in Nat /\ st[j] + 4 <= Len(Line)
    BY <2>2, <2>6, FrameBounds
  <2>8. Len(buf) >= 5
    BY <2>2, <2>6, <2>7
  <2> QED
    BY <2>1, <2>2, <2>8 DEF Waits, HEADER
<1> QED
  BY <1>1, FramingInvariance, PTL


-------------------------------------------------------------------------------
(* Framing: the bytes counted and the frames handed out. *)

CountType == /\ noise \in Seq(Bytes) /\ dropped_noise \in Nat /\ consumed \in Nat /\ reported \in Nat
MuxType == /\ held \in Seq(Frames) /\ handed \in Seq(Frames)
           /\ console \in Seq(Nat) /\ typed \in Seq(Nat)

\* Mapping of one frame: itself if of that type, its bytes if of the console.
Pick(x, ty) == IF x.ty = ty THEN <<x>> ELSE <<>>
Typing(x) == IF x.ty = Console THEN x.payload ELSE <<>>
Picks(s, ty) == [i \in 1 .. Len(s) |-> Pick(s[i], ty)]
Typings(s) == [i \in 1 .. Len(s) |-> Typing(s[i])]

LEMMA MapsAre ==
  ASSUME NEW s, NEW ty
  PROVE  OfType(s, ty) = FlattenSeq(Picks(s, ty)) /\ Typed(s) = FlattenSeq(Typings(s))
<1>1. Picks(s, ty) = [i \in 1 .. Len(s) |-> IF s[i].ty = ty THEN <<s[i]>> ELSE <<>>]
  BY DEF Picks, Pick
<1>2. Typings(s) = [i \in 1 .. Len(s) |-> IF s[i].ty = Console THEN s[i].payload ELSE <<>>]
  BY DEF Typings, Typing
<1> QED
  BY <1>1, <1>2 DEF OfType, Typed

LEMMA MapTypes ==
  ASSUME NEW s \in Seq(Frames), NEW ty
  PROVE  /\ Picks(s, ty) \in Seq(Seq(Frames)) /\ Len(Picks(s, ty)) = Len(s)
         /\ Typings(s) \in Seq(Seq(Nat)) /\ Len(Typings(s)) = Len(s)
         /\ \A i \in 1 .. Len(s) : Picks(s, ty)[i] = Pick(s[i], ty) /\ Typings(s)[i] = Typing(s[i])
<1>1. PICK z \in Nat : z = Len(s)
  BY LenProperties
<1>2. \A i \in 1 .. z : s[i] \in Frames
  BY <1>1, ElementOfSeq
<1>3. \A x \in Frames : Pick(x, ty) \in Seq(Frames)
  BY EmptySeq DEF Pick
<1>4. \A x \in Frames : Typing(x) \in Seq(Nat)
  <2> SUFFICES ASSUME NEW x \in Frames PROVE Typing(x) \in Seq(Nat)
    OBVIOUS
  <2>1. x.payload \in Payloads
    BY DEF Frames
  <2>2. x.payload \in Seq(Nat) /\ <<>> \in Seq(Nat)
    BY <2>1, PayloadOK, EmptySeq
  <2> QED
    BY <2>2 DEF Typing
<1>5. Picks(s, ty) = [i \in 1 .. z |-> Pick(s[i], ty)] /\ Typings(s) = [i \in 1 .. z |-> Typing(s[i])]
  BY <1>1 DEF Picks, Typings
<1>6. \A i \in 1 .. z : Pick(s[i], ty) \in Seq(Frames) /\ Typing(s[i]) \in Seq(Nat)
  BY <1>2, <1>3, <1>4
<1>7. /\ [i \in 1 .. z |-> Pick(s[i], ty)] \in Seq(Seq(Frames))
      /\ [i \in 1 .. z |-> Typing(s[i])] \in Seq(Seq(Nat))
  BY <1>6
<1>8. Len([i \in 1 .. z |-> Pick(s[i], ty)]) = z /\ Len([i \in 1 .. z |-> Typing(s[i])]) = z
  OBVIOUS
<1> QED
  BY <1>1, <1>5, <1>7, <1>8

\* One more frame.
LEMMA MapsOneMore ==
  ASSUME NEW s \in Seq(Frames), NEW x \in Frames, NEW ty
  PROVE  /\ OfType(s, ty) \in Seq(Frames) /\ Pick(x, ty) \in Seq(Frames)
         /\ Typed(s) \in Seq(Nat) /\ Typing(x) \in Seq(Nat)
         /\ OfType(Append(s, x), ty) = Cat(OfType(s, ty), Pick(x, ty))
         /\ Typed(Append(s, x)) = Cat(Typed(s), Typing(x))
<1>1. PICK z \in Nat : z = Len(s)
  BY LenProperties
<1> DEFINE t == Append(s, x)
<1>2. t \in Seq(Frames) /\ Len(t) = z + 1 /\ t[z + 1] = x /\ \A i \in 1 .. z : t[i] = s[i]
  BY <1>1, AppendProperties
<1> HIDE DEF t
<1>3. \A i \in 1 .. z : i \in 1 .. z + 1
  OBVIOUS
<1>4. z + 1 \in 1 .. z + 1
  OBVIOUS
<1>5. /\ Picks(s, ty) \in Seq(Seq(Frames)) /\ Len(Picks(s, ty)) = z
      /\ Typings(s) \in Seq(Seq(Nat)) /\ Len(Typings(s)) = z
      /\ \A i \in 1 .. z : Picks(s, ty)[i] = Pick(s[i], ty) /\ Typings(s)[i] = Typing(s[i])
  BY <1>1, MapTypes
<1>6. /\ Picks(t, ty) \in Seq(Seq(Frames)) /\ Len(Picks(t, ty)) = z + 1
      /\ Typings(t) \in Seq(Seq(Nat)) /\ Len(Typings(t)) = z + 1
      /\ \A i \in 1 .. z + 1 : Picks(t, ty)[i] = Pick(t[i], ty) /\ Typings(t)[i] = Typing(t[i])
  BY <1>2, MapTypes
<1>7. \A i \in 1 .. z : Picks(t, ty)[i] = Picks(s, ty)[i] /\ Typings(t)[i] = Typings(s)[i]
  BY <1>2, <1>3, <1>5, <1>6
<1>8. Picks(t, ty)[z + 1] = Pick(x, ty) /\ Typings(t)[z + 1] = Typing(x)
  BY <1>2, <1>4, <1>6
<1>9. /\ FlattenSeq(Picks(t, ty)) = Cat(FlattenSeq(Picks(s, ty)), Pick(x, ty))
      /\ FlattenSeq(Typings(t)) = Cat(FlattenSeq(Typings(s)), Typing(x))
  <2>1. FlattenSeq(Picks(t, ty)) = Cat(FlattenSeq(Picks(s, ty)), Picks(t, ty)[Len(Picks(t, ty))])
    <3>1. Len(Picks(t, ty)) = Len(Picks(s, ty)) + 1
      BY <1>5, <1>6
    <3>2. \A i \in 1 .. Len(Picks(s, ty)) : Picks(t, ty)[i] = Picks(s, ty)[i]
      BY <1>5, <1>7
    <3>3. Picks(s, ty) \in Seq(Seq(Frames)) /\ Picks(t, ty) \in Seq(Seq(Frames))
      BY <1>5, <1>6
    <3> QED
      BY <3>1, <3>2, <3>3, FlattenOneMore
  <2>2. FlattenSeq(Typings(t)) = Cat(FlattenSeq(Typings(s)), Typings(t)[Len(Typings(t))])
    <3>1. Len(Typings(t)) = Len(Typings(s)) + 1
      BY <1>5, <1>6
    <3>2. \A i \in 1 .. Len(Typings(s)) : Typings(t)[i] = Typings(s)[i]
      BY <1>5, <1>7
    <3>3. Typings(s) \in Seq(Seq(Nat)) /\ Typings(t) \in Seq(Seq(Nat))
      BY <1>5, <1>6
    <3> QED
      BY <3>1, <3>2, <3>3, FlattenOneMore
  <2> QED
    BY <1>6, <1>8, <2>1, <2>2
<1>10. Picks(t, ty)[z + 1] \in Seq(Frames) /\ Typings(t)[z + 1] \in Seq(Nat)
  BY <1>4, <1>6, ElementOfSeq
<1>11. FlattenSeq(Picks(s, ty)) \in Seq(Frames) /\ FlattenSeq(Typings(s)) \in Seq(Nat)
  BY <1>5, FlattenType
<1> QED
  BY <1>8, <1>9, <1>10, <1>11, MapsAre DEF t

\* Of no frame nothing.
LEMMA MapsEmpty == ASSUME NEW ty PROVE OfType(<<>>, ty) = <<>> /\ Typed(<<>>) = <<>>
<1>1. Picks(<<>>, ty) = <<>> /\ Typings(<<>>) = <<>>
  BY DEF Picks, Typings
<1>2. FlattenSeq(<<>>) = <<>>
  BY EmptySeq DEF FlattenSeq
<1> QED
  BY <1>1, <1>2, MapsAre

\* A concatenation with one more element.
LEMMA CatAppend ==
  ASSUME NEW S, NEW s \in Seq(S), NEW v \in Seq(S), NEW x \in S
  PROVE  Cat(s, Append(v, x)) = Append(Cat(s, v), x) /\ Cat(s, v) \in Seq(S)
<1>1. <<x>> \in Seq(S) /\ Cat(s, v) \in Seq(S)
  BY ConcatProperties DEF Cat
<1>2. Append(v, x) = Cat(v, <<x>>)
  BY AppendIsConcat DEF Cat
<1>3. Append(Cat(s, v), x) = Cat(Cat(s, v), <<x>>)
  BY <1>1, AppendIsConcat DEF Cat
<1>4. Cat(s, Cat(v, <<x>>)) = Cat(Cat(s, v), <<x>>)
  BY <1>1, ConcatAssociative DEF Cat
<1> QED
  BY <1>1, <1>2, <1>3, <1>4

\* The first n + 1 elements are the first n and one more.
LEMMA PrefixMore ==
  ASSUME NEW S, NEW s \in Seq(S), NEW n \in Nat, n + 1 <= Len(s)
  PROVE  /\ SubSeq(s, 1, n) \in Seq(S) /\ Len(SubSeq(s, 1, n)) = n /\ s[n + 1] \in S
         /\ \A i \in 1 .. n : SubSeq(s, 1, n)[i] = s[i]
         /\ SubSeq(s, 1, n + 1) = Append(SubSeq(s, 1, n), s[n + 1])
<1>0. PICK z \in Nat : z = Len(s) /\ n + 1 <= z
  BY LenProperties
<1> DEFINE v == SubSeq(s, 1, n)
           w == SubSeq(s, 1, n + 1)
<1>1. /\ Parts(S, s, n, v, SubSeq(s, n + 1, Len(s)))
      /\ Parts(S, s, n + 1, w, SubSeq(s, n + 1 + 1, Len(s)))
  BY <1>0, CutAt
<1>2. /\ v \in Seq(S) /\ Len(v) = n /\ \A i \in 1 .. n : v[i] = s[i]
      /\ w \in Seq(S) /\ Len(w) = n + 1 /\ \A i \in 1 .. n + 1 : w[i] = s[i]
  BY <1>1 DEF Parts
<1>3. s[n + 1] \in S
  <2>1. n + 1 \in 1 .. Len(s)
    BY <1>0
  <2> QED
    BY <2>1, ElementOfSeq
<1> HIDE DEF v, w
<1>4. PICK x \in S : x = s[n + 1]
  BY <1>3
<1>5. /\ Append(v, x) \in Seq(S) /\ Len(Append(v, x)) = n + 1 /\ Append(v, x)[n + 1] = x
      /\ \A i \in 1 .. n : Append(v, x)[i] = v[i]
  BY <1>2, AppendProperties
<1>6. ASSUME NEW i \in 1 .. n + 1 PROVE w[i] = Append(v, x)[i]
  <2>1. CASE i = n + 1
    BY <1>2, <1>4, <1>5, <2>1
  <2>2. CASE i # n + 1
    <3>1. i \in 1 .. n
      BY <2>2
    <3> QED
      BY <1>2, <1>5, <3>1
  <2> QED
    BY <2>1, <2>2
<1>7. w = Append(v, x)
  BY <1>2, <1>5, <1>6, SeqEqual
<1> QED
  BY <1>2, <1>3, <1>4, <1>7 DEF v, w

\* The frames of a type in two sequences, one after the other.
LEMMA OfTypeCat ==
  ASSUME NEW s \in Seq(Frames), NEW t \in Seq(Frames), NEW ty
  PROVE  OfType(Cat(s, t), ty) = Cat(OfType(s, ty), OfType(t, ty))
<1> DEFINE Good(u) == OfType(Cat(s, u), ty) = Cat(OfType(s, ty), OfType(u, ty))
           T == {n \in Nat : \A u \in Seq(Frames) : Len(u) = n => Good(u)}
<1>0. \A u \in Seq(Frames) : OfType(u, ty) \in Seq(Frames)
  <2> SUFFICES ASSUME NEW u \in Seq(Frames) PROVE OfType(u, ty) \in Seq(Frames)
    OBVIOUS
  <2>1. Picks(u, ty) \in Seq(Seq(Frames))
    BY MapTypes
  <2> QED
    BY <2>1, FlattenType, MapsAre
<1>1. 0 \in T
  <2> SUFFICES ASSUME NEW u \in Seq(Frames), Len(u) = 0 PROVE Good(u)
    OBVIOUS
  <2>1. u = <<>>
    BY EmptySeq
  <2>2. Cat(s, u) = s /\ Cat(OfType(s, ty), <<>>) = OfType(s, ty)
    BY <1>0, <2>1, CatProperties
  <2> QED
    BY <2>1, <2>2, MapsEmpty
<1>2. ASSUME NEW n \in T PROVE n + 1 \in T
  <2>0. n \in Nat /\ \A u \in Seq(Frames) : Len(u) = n => Good(u)
    OBVIOUS
  <2> SUFFICES ASSUME NEW u \in Seq(Frames), Len(u) = n + 1 PROVE Good(u)
    BY <2>0
  <2> DEFINE v == SubSeq(u, 1, n)
             x == u[n + 1]
  <2>1. n + 1 <= Len(u) /\ SubSeq(u, 1, n + 1) = u
    BY <2>0, SubSeqFull
  <2>2. v \in Seq(Frames) /\ Len(v) = n /\ x \in Frames /\ SubSeq(u, 1, n + 1) = Append(v, x)
    BY <2>0, <2>1, PrefixMore
  <2>3. x \in Frames
    BY <2>2
  <2>4. u = Append(v, x)
    BY <2>1, <2>2
  <2> HIDE DEF v, x
  <2>5. Cat(s, u) = Append(Cat(s, v), x) /\ Cat(s, v) \in Seq(Frames)
    BY <2>2, <2>3, <2>4, CatAppend
  <2>6. /\ OfType(Append(Cat(s, v), x), ty) = Cat(OfType(Cat(s, v), ty), Pick(x, ty))
        /\ OfType(Append(v, x), ty) = Cat(OfType(v, ty), Pick(x, ty))
        /\ Pick(x, ty) \in Seq(Frames)
    BY <2>2, <2>3, <2>5, MapsOneMore
  <2>7. OfType(Cat(s, v), ty) = Cat(OfType(s, ty), OfType(v, ty))
    BY <2>0, <2>2
  <2>8. Cat(Cat(OfType(s, ty), OfType(v, ty)), Pick(x, ty))
          = Cat(OfType(s, ty), Cat(OfType(v, ty), Pick(x, ty)))
    BY <1>0, <2>2, <2>6, CatProperties
  <2> QED
    BY <2>4, <2>5, <2>6, <2>7, <2>8
<1>3. T \in SUBSET Nat
  OBVIOUS
<1>4. T = Nat
  <2> HIDE DEF T
  <2> QED
    BY <1>1, <1>2, <1>3, SetInduction
<1>5. Len(t) \in Nat
  BY LenProperties
<1> QED
  BY <1>4, <1>5

\* Where no frame is of that type.
LEMMA OfTypeNone ==
  ASSUME NEW s \in Seq(Frames), NEW ty, \A i \in 1 .. Len(s) : s[i].ty # ty
  PROVE  OfType(s, ty) = <<>>
<1> DEFINE T == {n \in Nat : n <= Len(s) => OfType(SubSeq(s, 1, n), ty) = <<>>}
<1>0. PICK z \in Nat : z = Len(s)
  BY LenProperties
<1>1. 0 \in T
  <2>1. SubSeq(s, 1, 0) = <<>>
    BY SubSeqEmpty
  <2> QED
    BY <2>1, MapsEmpty
<1>2. ASSUME NEW n \in T PROVE n + 1 \in T
  <2>0. n \in Nat /\ (n <= z => OfType(SubSeq(s, 1, n), ty) = <<>>)
    BY <1>0
  <2> SUFFICES ASSUME n + 1 <= z PROVE OfType(SubSeq(s, 1, n + 1), ty) = <<>>
    BY <1>0, <2>0
  <2> DEFINE v == SubSeq(s, 1, n)
             w == SubSeq(s, 1, n + 1)
             x == s[n + 1]
  <2>1. n + 1 <= Len(s) /\ n + 1 \in 1 .. Len(s)
    BY <1>0, <2>0
  <2>2. v \in Seq(Frames) /\ x \in Frames /\ w = Append(v, x)
    BY <2>0, <2>1, PrefixMore
  <2>3. x.ty # ty
    BY <2>1
  <2> HIDE DEF v, w, x
  <2>5. OfType(w, ty) = Cat(OfType(v, ty), Pick(x, ty))
    BY <2>2, MapsOneMore
  <2>6. OfType(v, ty) = <<>> /\ Pick(x, ty) = <<>>
    BY <2>0, <2>3 DEF Pick, v
  <2>7. Cat(<<>>, <<>>) = <<>>
    BY CatProperties
  <2> QED
    BY <2>5, <2>6, <2>7 DEF w
<1>3. T \in SUBSET Nat
  OBVIOUS
<1>4. T = Nat
  <2> HIDE DEF T
  <2> QED
    BY <1>1, <1>2, <1>3, SetInduction
<1>5. SubSeq(s, 1, z) = s
  BY <1>0, SubSeqFull
<1>6. z \in T
  <2> HIDE DEF T
  <2> QED
    BY <1>4
<1>7. z <= Len(s) => OfType(SubSeq(s, 1, z), ty) = <<>>
  BY <1>6
<1>8. OfType(SubSeq(s, 1, z), ty) = <<>>
  BY <1>0, <1>7
<1> QED
  BY <1>5, <1>8


\* discard counts what it drops.
LEMMA DiscardCounts ==
  ASSUME FrType, CountType, EveryByteCounted, NEW n \in Nat, n <= Len(buf), discard(n)
  PROVE  CountType' /\ EveryByteCounted'
<1> DEFINE room == IF NoiseCap > Len(noise) THEN NoiseCap - Len(noise) ELSE 0
           keep == IF room <= n THEN room ELSE n
<1>1. PICK z \in Nat : z = Len(buf) /\ n <= z
  BY LenProperties DEF FrType
<1>2. PICK m \in Nat : m = Len(noise) /\ m <= NoiseCap
  BY LenProperties DEF CountType, EveryByteCounted
<1>3. /\ noise' = Cat(noise, SubSeq(buf, 1, keep)) /\ dropped_noise' = dropped_noise + n - keep
      /\ buf' = SubSeq(buf, n + 1, Len(buf)) /\ pushed' = pushed
      /\ consumed' = consumed /\ reported' = reported
  BY DEF discard, Cat
<1>4. keep \in Nat /\ keep <= n /\ m + keep <= NoiseCap
  BY <1>2, FramingAssumption DEF FramingAssumption
<1> HIDE DEF room, keep
<1>5. Parts(Bytes, buf, keep, SubSeq(buf, 1, keep), SubSeq(buf, keep + 1, Len(buf)))
  BY <1>1, <1>4, CutAt DEF FrType
<1>6. Parts(Bytes, buf, n, SubSeq(buf, 1, n), SubSeq(buf, n + 1, Len(buf)))
  BY <1>1, CutAt DEF FrType
<1>7. SubSeq(buf, 1, keep) \in Seq(Bytes) /\ Len(SubSeq(buf, 1, keep)) = keep /\ Len(buf') = z - n
  BY <1>1, <1>3, <1>5, <1>6 DEF Parts
<1>8. Joined(Bytes, Cat(noise, SubSeq(buf, 1, keep)), noise, SubSeq(buf, 1, keep))
  BY <1>7, CatAt DEF CountType
<1>9. noise' \in Seq(Bytes) /\ Len(noise') = m + keep
  BY <1>2, <1>3, <1>7, <1>8 DEF Joined
<1>10. dropped_noise + n - keep \in Nat /\ dropped_noise \in Nat /\ consumed \in Nat /\ reported \in Nat
  BY <1>4 DEF CountType
<1>11. CountType'
  BY <1>3, <1>9, <1>10 DEF CountType
<1>12. Len(pushed) = z + consumed + reported + m + dropped_noise
  BY <1>1, <1>2 DEF EveryByteCounted
<1>13. Len(pushed) = (z - n) + consumed + reported + (m + keep) + (dropped_noise + n - keep)
  BY <1>1, <1>4, <1>10, <1>12
<1>14. EveryByteCounted'
  BY <1>3, <1>4, <1>7, <1>9, <1>13 DEF EveryByteCounted
<1> QED
  BY <1>11, <1>14

\* Decoding and reporting count too.
LEMMA StepCounts ==
  ASSUME FrInv, CountType, EveryByteCounted, [FramingNext]_framingVars
  PROVE  CountType' /\ EveryByteCounted'
<1>1. FrType /\ BufOK
  BY DEF FrInv
<1>2. Len(buf) \in Nat /\ Len(pushed) \in Nat /\ Len(noise) \in Nat /\ Len(stream) \in Nat
  BY <1>1, FrBounds, LenProperties DEF CountType
<1>3. ASSUME UNCHANGED <<noise, dropped_noise, consumed, reported, buf, pushed>>
      PROVE  CountType' /\ EveryByteCounted'
  BY <1>3 DEF CountType, EveryByteCounted
<1>4. CASE Sender
  <2>1. UNCHANGED <<noise, dropped_noise, consumed, reported, buf, pushed>>
    BY <1>4 DEF Sender, SendFrame, SendText, SendPart, SendSplit, Sends, decVars
  <2> QED
    BY <1>3, <2>1
<1>5. ASSUME NEW n \in 1 .. Len(stream), push(n) PROVE CountType' /\ EveryByteCounted'
  <2> DEFINE x == SubSeq(stream, 1, n)
  <2>1. n \in Nat /\ n <= Len(stream)
    BY <1>2
  <2>2. Parts(Bytes, stream, n, x, SubSeq(stream, n + 1, Len(stream)))
    BY <1>1, <2>1, CutAt DEF FrType
  <2>3. x \in Seq(Bytes) /\ Len(x) = n
    BY <2>2 DEF Parts
  <2>4. /\ pushed' = Cat(pushed, x) /\ buf' = Cat(buf, x)
        /\ noise' = noise /\ dropped_noise' = dropped_noise /\ consumed' = consumed
        /\ reported' = reported
    BY <1>5 DEF push, Cat
  <2> HIDE DEF x
  <2>5. Joined(Bytes, Cat(pushed, x), pushed, x) /\ Joined(Bytes, Cat(buf, x), buf, x)
    BY <1>1, <2>3, CatAt DEF FrType
  <2>6. Len(pushed') = Len(pushed) + n /\ Len(buf') = Len(buf) + n
    BY <2>3, <2>4, <2>5 DEF Joined
  <2>7. CountType'
    BY <2>4 DEF CountType
  <2>8. Len(pushed) + n = Len(buf) + n + consumed + reported + Len(noise) + dropped_noise
    BY <1>2, <2>1 DEF EveryByteCounted, CountType
  <2> QED
    BY <2>4, <2>6, <2>7, <2>8 DEF EveryByteCounted
<1>6. CASE NoSync
  <2> DEFINE k == Len(buf) - (IF buf # <<>> /\ Last(buf).v = LO THEN 1 ELSE 0)
  <2>1. discard(k)
    BY <1>6 DEF NoSync
  <2>2. buf # <<>> => Len(buf) # 0
    BY <1>1, EmptySeq DEF FrType
  <2>3. k \in Nat /\ k <= Len(buf)
    BY <1>2, <2>2
  <2> HIDE DEF k
  <2> QED
    BY <1>1, <2>1, <2>3, DiscardCounts
<1>7. CASE SkipToSync
  <2>1. FirstSync(buf) \in 1 .. Len(buf) - 1
    BY <1>1, <1>7, FirstSyncAt DEF SkipToSync, FrType
  <2>2. PICK k \in Nat : k = FirstSync(buf) - 1 /\ k <= Len(buf)
    BY <1>2, <2>1
  <2>3. discard(k)
    BY <1>7, <2>2 DEF SkipToSync
  <2> QED
    BY <1>1, <2>2, <2>3, DiscardCounts
<1>8. CASE NeedsMore
  BY <1>3, <1>8 DEF NeedsMore
<1>9. CASE Rejects
  <2>1. 2 \in Nat /\ 2 <= Len(buf) /\ discard(2)
    BY <1>2, <1>9 DEF Rejects, HEADER
  <2> QED
    BY <1>1, <2>1, DiscardCounts
<1>10. CASE Decodes
  <2>1. AtSync /\ Len(buf) >= HEADER /\ Len(buf) >= total
    BY <1>10 DEF Decodes
  <2>2. len \in Nat /\ total = len + 5
    BY <2>1, HeaderAt
  <2>3. PICK k \in Nat : k = total /\ k <= Len(buf)
    BY <1>2, <2>1, <2>2
  <2>4. /\ buf' = SubSeq(buf, k + 1, Len(buf)) /\ consumed' = consumed + k
        /\ noise' = noise /\ dropped_noise' = dropped_noise /\ reported' = reported /\ pushed' = pushed
    BY <1>10, <2>3 DEF Decodes
  <2>5. Parts(Bytes, buf, k, SubSeq(buf, 1, k), SubSeq(buf, k + 1, Len(buf)))
    BY <1>1, <2>3, CutAt DEF FrType
  <2>6. Len(buf') = Len(buf) - k
    BY <2>4, <2>5 DEF Parts
  <2>7. CountType'
    BY <2>4 DEF CountType
  <2>8. Len(pushed) = (Len(buf) - k) + (consumed + k) + reported + Len(noise) + dropped_noise
    BY <1>2 DEF EveryByteCounted, CountType
  <2> QED
    BY <2>4, <2>6, <2>7, <2>8 DEF EveryByteCounted
<1>11. ASSUME NEW want \in {Page, Ack}, take_matching(want) PROVE CountType' /\ EveryByteCounted'
  BY <1>3, <1>11 DEF take_matching
<1>12. CASE take_console
  BY <1>3, <1>12 DEF take_console
<1>13. CASE take_noise
  <2>1. /\ noise' = <<>> /\ dropped_noise' = 0 /\ reported' = reported + Len(noise) + dropped_noise
        /\ buf' = buf /\ pushed' = pushed /\ consumed' = consumed
    BY <1>13 DEF take_noise
  <2>2. CountType'
    BY <1>2, <2>1, EmptySeq DEF CountType
  <2>3. Len(noise') = 0
    BY <2>1
  <2>4. /\ Len(pushed) = Len(buf) + consumed + (reported + Len(noise) + dropped_noise) + 0 + 0
        /\ 0 <= NoiseCap
    BY <1>2, FramingAssumption DEF EveryByteCounted, CountType, FramingAssumption
  <2> QED
    BY <2>1, <2>2, <2>3, <2>4 DEF EveryByteCounted
<1>14. CASE UNCHANGED framingVars
  BY <1>3, <1>14 DEF framingVars, decVars
<1> QED
  BY <1>4, <1>5, <1>6, <1>7, <1>8, <1>9, <1>10, <1>11, <1>12, <1>13, <1>14 DEF FramingNext, Decode


\* x taken out of the middle.
LEMMA TakenOut ==
  ASSUME NEW S, NEW s \in Seq(S), NEW n \in 1 .. Len(s)
  PROVE  \E u, w \in Seq(S) : /\ s[n] \in S
                              /\ s = Cat(Append(u, s[n]), w) /\ RemoveAt(s, n) = Cat(u, w)
                              /\ Len(u) = n - 1 /\ \A i \in 1 .. n - 1 : u[i] = s[i]
<1>1. PICK z \in Nat : z = Len(s)
  BY LenProperties
<1>2. PICK m \in Nat : n = m + 1 /\ m = n - 1 /\ m + 1 <= Len(s)
  <2>1. n - 1 \in Nat /\ n = (n - 1) + 1 /\ (n - 1) + 1 <= Len(s)
    BY <1>1
  <2> QED
    BY <2>1
<1> DEFINE u == SubSeq(s, 1, m)
           w == SubSeq(s, n + 1, Len(s))
<1>3. /\ u \in Seq(S) /\ Len(u) = m /\ s[m + 1] \in S
      /\ \A i \in 1 .. m : u[i] = s[i]
      /\ SubSeq(s, 1, m + 1) = Append(u, s[m + 1])
  BY <1>2, PrefixMore
<1>4. Parts(S, s, n, SubSeq(s, 1, n), w)
  BY <1>1, CutAt
<1>5. w \in Seq(S) /\ Cat(SubSeq(s, 1, n), w) = s
  BY <1>4 DEF Parts
<1>6. RemoveAt(s, n) = Cat(u, w)
  BY <1>2 DEF RemoveAt, Cat
<1> HIDE DEF u, w
<1>7. s = Cat(Append(u, s[n]), w)
  BY <1>2, <1>3, <1>5
<1>8. s[n] \in S /\ Len(u) = n - 1 /\ \A i \in 1 .. n - 1 : u[i] = s[i]
  BY <1>2, <1>3
<1> QED
  BY <1>3, <1>5, <1>6, <1>7, <1>8

LEMMA TakesDemultiplexed ==
  ASSUME MuxType, out \in Seq(Frames), Demultiplexed, NEW want \in {Page, Ack}, take_matching(want)
  PROVE  MuxType' /\ Demultiplexed'
<1> DEFINE of == {i \in 1 .. Len(held) : held[i].ty = want}
<1>1. Len(held) \in Nat
  BY LenProperties DEF MuxType
<1>2. of \in SUBSET Nat /\ of # {}
  BY <1>1 DEF take_matching
<1>3. \E i \in of : \A j \in of : i <= j
  <2> HIDE DEF of
  <2> QED
    BY <1>2, LeastNatural
<1>4. PICK i \in of : /\ \A j \in of : i <= j
                      /\ handed' = Append(handed, held[i]) /\ held' = RemoveAt(held, i)
  BY <1>3 DEF take_matching
<1>5. i \in 1 .. Len(held) /\ held[i].ty = want /\ \A j \in 1 .. Len(held) : held[j].ty = want => i <= j
  BY <1>4
<1>6. console' = console /\ typed' = typed /\ out' = out
  BY DEF take_matching
<1> HIDE DEF of
<1>7. PICK u, w \in Seq(Frames) :
         /\ held[i] \in Frames /\ held = Cat(Append(u, held[i]), w) /\ RemoveAt(held, i) = Cat(u, w)
         /\ Len(u) = i - 1 /\ \A j \in 1 .. i - 1 : u[j] = held[j]
  BY <1>5, TakenOut DEF MuxType
<1>8. PICK x \in Frames : x = held[i] /\ x.ty = want
  BY <1>5, <1>7
<1>9. handed' = Append(handed, x) /\ held' = Cat(u, w) /\ held = Cat(Append(u, x), w)
  BY <1>4, <1>7, <1>8
<1>10. Append(u, x) \in Seq(Frames) /\ Cat(u, w) \in Seq(Frames) /\ Append(handed, x) \in Seq(Frames)
  BY <1>7, AppendProperties, CatProperties DEF MuxType
<1>11. OfType(u, want) = <<>>
  <2>1. ASSUME NEW j \in 1 .. Len(u) PROVE u[j].ty # want
    <3>1. j \in 1 .. Len(held) /\ ~(i <= j) /\ j \in 1 .. i - 1
      BY <1>1, <1>5, <1>7
    <3> QED
      BY <1>5, <1>7, <3>1
  <2> QED
    BY <1>7, <2>1, OfTypeNone
<1>12. ASSUME NEW ty \in {Page, Ack}
       PROVE  Cat(OfType(handed', ty), OfType(held', ty)) = OfType(out, ty)
  <2> DEFINE H == OfType(handed, ty)
             U == OfType(u, ty)
             W == OfType(w, ty)
             X == Pick(x, ty)
  <2>1. /\ H \in Seq(Frames) /\ U \in Seq(Frames) /\ X \in Seq(Frames)
        /\ OfType(Append(handed, x), ty) = Cat(H, X) /\ OfType(Append(u, x), ty) = Cat(U, X)
    BY <1>7, MapsOneMore DEF MuxType
  <2>2. W \in Seq(Frames)
    BY <1>7, MapsOneMore
  <2>3. OfType(Cat(Append(u, x), w), ty) = Cat(OfType(Append(u, x), ty), W) /\ OfType(Cat(u, w), ty) = Cat(U, W)
    <3>1. PICK v \in Seq(Frames) : v = Append(u, x)
      BY <1>10
    <3>2. OfType(Cat(v, w), ty) = Cat(OfType(v, ty), OfType(w, ty))
      BY OfTypeCat
    <3>3. OfType(Cat(u, w), ty) = Cat(OfType(u, ty), OfType(w, ty))
      BY OfTypeCat
    <3> QED
      BY <3>1, <3>2, <3>3
  <2>4. Cat(H, OfType(held, ty)) = OfType(out, ty)
    BY DEF Demultiplexed, Cat
  <2>5. U = <<>> \/ X = <<>>
    BY <1>8, <1>11 DEF Pick
  <2> HIDE DEF H, U, W, X
  <2>6. Cat(H, Cat(Cat(U, X), W)) = OfType(out, ty)
    BY <1>9, <2>1, <2>3, <2>4
  <2>7. Cat(Cat(H, X), Cat(U, W)) = Cat(H, Cat(Cat(U, X), W))
    <3>1. CASE U = <<>>
      <4>1. Cat(U, W) = W /\ Cat(U, X) = X
        BY <2>1, <2>2, <3>1, CatProperties
      <4>2. Cat(Cat(H, X), W) = Cat(H, Cat(X, W))
        BY <2>1, <2>2, CatProperties
      <4> QED
        BY <4>1, <4>2
    <3>2. CASE X = <<>>
      <4>1. Cat(U, X) = U /\ Cat(H, X) = H
        BY <2>1, <2>2, <3>2, CatProperties
      <4> QED
        BY <4>1
    <3> QED
      BY <2>5, <3>1, <3>2
  <2> QED
    BY <1>9, <2>1, <2>3, <2>6, <2>7
<1>13. MuxType'
  BY <1>6, <1>9, <1>10 DEF MuxType
<1>14. Demultiplexed'
  <2>1. \A ty \in {Page, Ack} : OfType(handed', ty) \o OfType(held', ty) = OfType(out', ty)
    BY <1>6, <1>12 DEF Cat
  <2>2. typed' \o console' = Typed(out')
    BY <1>6 DEF Demultiplexed
  <2> QED
    BY <2>1, <2>2 DEF Demultiplexed
<1> QED
  BY <1>13, <1>14

LEMMA DecodesDemultiplexed ==
  ASSUME FrInv, MuxType, Demultiplexed, Decodes
  PROVE  MuxType' /\ Demultiplexed'
<1>1. /\ out' = IF Frame.ty = Unknown THEN out ELSE Append(out, Frame)
      /\ held' = IF Frame.ty \in {Page, Ack} THEN Append(held, Frame) ELSE held
      /\ console' = IF Frame.ty = Console THEN Cat(console, Frame.payload) ELSE console
      /\ handed' = handed /\ typed' = typed
  BY DEF Decodes, Frame, Cat
<1>2. Frame.ty # Unknown => Frame \in Frames
  BY DecodesOK DEF Frame
<1>3. out \in Seq(Frames)
  BY DEF FrInv, FrType
<1> HIDE DEF Frame
<1>4. CASE Frame.ty = Unknown
  <2>1. Frame.ty \notin {Page, Ack} /\ Frame.ty # Console
    BY <1>4 DEF Page, Ack, Console, Unknown
  <2>2. UNCHANGED <<out, held, console, handed, typed>>
    BY <1>1, <1>4, <2>1
  <2> QED
    BY <2>2 DEF MuxType, Demultiplexed
<1>5. CASE Frame.ty # Unknown
  <2>1. PICK x \in Frames : x = Frame
    BY <1>2, <1>5
  <2>2. out' = Append(out, x)
    BY <1>1, <1>5, <2>1
  <2>3. Typed(out') = Cat(Typed(out), Typing(x)) /\ Typing(x) \in Seq(Nat)
    BY <1>3, <2>2, MapsOneMore
  <2>4. x.ty \in {Page, Ack, Console}
    BY DEF Frames
  <2>5. CASE x.ty = Console
    <3>1. x.ty \notin {Page, Ack}
      BY <2>5 DEF Page, Ack, Console
    <3>2. held' = held /\ console' = Cat(console, x.payload) /\ Typing(x) = x.payload
      BY <1>1, <2>1, <2>5, <3>1 DEF Typing
    <3>3. MuxType'
      <4>1. Cat(console, x.payload) \in Seq(Nat)
        BY <2>3, <3>2, CatProperties DEF MuxType
      <4> QED
        BY <1>1, <3>2, <4>1 DEF MuxType
    <3>4. ASSUME NEW ty \in {Page, Ack} PROVE OfType(out', ty) = OfType(out, ty)
      <4>1. /\ OfType(Append(out, x), ty) = Cat(OfType(out, ty), Pick(x, ty))
            /\ OfType(out, ty) \in Seq(Frames)
        BY <1>3, MapsOneMore
      <4>2. Pick(x, ty) = <<>>
        BY <3>1 DEF Pick
      <4> QED
        BY <2>2, <4>1, <4>2, CatProperties
    <3>5. Cat(typed, Cat(console, x.payload)) = Cat(Cat(typed, console), x.payload)
      <4>1. PICK p \in Seq(Nat) : p = x.payload
        BY <2>3, <3>2
      <4>2. Cat(typed, Cat(console, p)) = Cat(Cat(typed, console), p)
        BY CatProperties DEF MuxType
      <4> QED
        BY <4>1, <4>2
    <3>6. typed' \o console' = Typed(out')
      <4>1. Cat(typed, console) = Typed(out)
        BY DEF Demultiplexed, Cat
      <4>2. Cat(typed', console') = Typed(out')
        BY <1>1, <2>3, <3>2, <3>5, <4>1
      <4> QED
        BY <4>2 DEF Cat
    <3>7. \A ty \in {Page, Ack} : OfType(handed', ty) \o OfType(held', ty) = OfType(out', ty)
      BY <1>1, <3>2, <3>4 DEF Demultiplexed
    <3> QED
      BY <3>3, <3>6, <3>7 DEF Demultiplexed
  <2>6. CASE x.ty # Console
    <3>1. x.ty \in {Page, Ack}
      BY <2>4, <2>6
    <3>2. held' = Append(held, x) /\ console' = console /\ Typing(x) = <<>>
      BY <1>1, <2>1, <2>6, <3>1 DEF Typing
    <3>3. MuxType'
      <4>1. Append(held, x) \in Seq(Frames)
        BY AppendProperties DEF MuxType
      <4> QED
        BY <1>1, <3>2, <4>1 DEF MuxType
    <3>4. ASSUME NEW ty \in {Page, Ack}
          PROVE  Cat(OfType(handed, ty), OfType(Append(held, x), ty)) = OfType(Append(out, x), ty)
      <4>1. /\ OfType(Append(out, x), ty) = Cat(OfType(out, ty), Pick(x, ty))
            /\ OfType(Append(held, x), ty) = Cat(OfType(held, ty), Pick(x, ty))
            /\ OfType(held, ty) \in Seq(Frames) /\ Pick(x, ty) \in Seq(Frames)
        BY <1>3, MapsOneMore DEF MuxType
      <4>2. OfType(handed, ty) \in Seq(Frames)
        BY MapsOneMore DEF MuxType
      <4>3. Cat(OfType(handed, ty), OfType(held, ty)) = OfType(out, ty)
        BY DEF Demultiplexed, Cat
      <4>4. Cat(OfType(handed, ty), Cat(OfType(held, ty), Pick(x, ty)))
              = Cat(Cat(OfType(handed, ty), OfType(held, ty)), Pick(x, ty))
        BY <4>1, <4>2, CatProperties
      <4> QED
        BY <4>1, <4>3, <4>4
    <3>5. \A ty \in {Page, Ack} : OfType(handed', ty) \o OfType(held', ty) = OfType(out', ty)
      BY <1>1, <2>2, <3>2, <3>4 DEF Cat
    <3>6. Typed(out') = Typed(out)
      <4>1. Typed(out) \in Seq(Nat)
        BY <1>3, MapsOneMore
      <4> QED
        BY <2>3, <3>2, <4>1, CatProperties
    <3>7. typed' \o console' = Typed(out')
      BY <1>1, <3>2, <3>6 DEF Demultiplexed
    <3> QED
      BY <3>3, <3>5, <3>7 DEF Demultiplexed
  <2> QED
    BY <2>5, <2>6
<1> QED
  BY <1>4, <1>5

LEMMA StepDemultiplexed ==
  ASSUME FrInv, MuxType, Demultiplexed, [FramingNext]_framingVars
  PROVE  MuxType' /\ Demultiplexed'
<1>1. ASSUME UNCHANGED <<out, held, console, handed, typed>> PROVE MuxType' /\ Demultiplexed'
  BY <1>1 DEF MuxType, Demultiplexed
<1>2. CASE Sender
  <2>1. UNCHANGED decVars
    BY <1>2 DEF Sender, SendFrame, SendText, SendPart, SendSplit, Sends
  <2> QED
    BY <1>1, <2>1 DEF decVars, muxVars
<1>3. ASSUME NEW n \in 1 .. Len(stream), push(n) PROVE MuxType' /\ Demultiplexed'
  BY <1>1, <1>3 DEF push, muxVars
<1>4. CASE NoSync \/ SkipToSync \/ NeedsMore \/ Rejects
  <2>1. UNCHANGED <<out, held, console, handed, typed>>
    BY <1>4 DEF NoSync, SkipToSync, NeedsMore, Rejects, discard, muxVars
  <2> QED
    BY <1>1, <2>1
<1>5. CASE Decodes
  BY <1>5, DecodesDemultiplexed
<1>6. ASSUME NEW want \in {Page, Ack}, take_matching(want) PROVE MuxType' /\ Demultiplexed'
  BY <1>6, TakesDemultiplexed DEF FrInv, FrType
<1>7. CASE take_console
  <2>1. /\ typed' = Cat(typed, console) /\ console' = <<>>
        /\ out' = out /\ held' = held /\ handed' = handed
    BY <1>7 DEF take_console, Cat
  <2>2. Cat(typed, console) \in Seq(Nat) /\ <<>> \in Seq(Nat) /\ Cat(Cat(typed, console), <<>>) = Cat(typed, console)
    BY CatProperties DEF MuxType
  <2>3. MuxType'
    BY <2>1, <2>2 DEF MuxType
  <2>4. Cat(typed', console') = Typed(out)
    BY <2>1, <2>2 DEF Demultiplexed, Cat
  <2> QED
    BY <2>1, <2>3, <2>4 DEF Demultiplexed, Cat
<1>8. CASE take_noise
  BY <1>1, <1>8 DEF take_noise, muxVars
<1>9. CASE UNCHANGED framingVars
  BY <1>1, <1>9 DEF framingVars, decVars, muxVars
<1> QED
  BY <1>2, <1>3, <1>4, <1>5, <1>6, <1>7, <1>8, <1>9 DEF FramingNext, Decode

(***************************************************************************)
(* For every cap, payload and order of pushes and takes: each byte pushed  *)
(* is in the buffer, in a frame or in the noise count, exactly             *)
(* (Decoder::discard, take_noise), and Mux::push, take_matching and        *)
(* take_console keep the order of each type and of the console bytes.      *)
(***************************************************************************)
THEOREM NothingUnaccounted == FramingSpec => []AllAccountedFor
<1> DEFINE I == FrInv /\ CountType /\ MuxType /\ EveryByteCounted /\ Demultiplexed
<1>1. FramingInit => I
  <2> SUFFICES ASSUME FramingInit PROVE I
    OBVIOUS
  <2>1. /\ noise = <<>> /\ dropped_noise = 0 /\ consumed = 0 /\ reported = 0 /\ out = <<>>
        /\ held = <<>> /\ console = <<>> /\ handed = <<>> /\ typed = <<>> /\ buf = <<>> /\ pushed = <<>>
    BY DEF FramingInit
  <2>2. CountType /\ MuxType
    BY <2>1, EmptySeq DEF CountType, MuxType
  <2>3. EveryByteCounted
    BY <2>1, FramingAssumption DEF EveryByteCounted, FramingAssumption
  <2>4. Demultiplexed
    <3>1. Cat(<<>>, <<>>) = <<>>
      BY CatProperties
    <3> QED
      BY <2>1, <3>1, MapsEmpty DEF Demultiplexed, Cat
  <2> QED
    BY <2>2, <2>3, <2>4, FrInitOK
<1>2. I /\ [FramingNext]_framingVars => I'
  BY FrStepOK, StepCounts, StepDemultiplexed
<1>3. I => AllAccountedFor
  BY DEF AllAccountedFor
<1> QED
  BY <1>1, <1>2, <1>3, PTL DEF FramingSpec
===============================================================================
