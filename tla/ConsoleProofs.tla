----------------------------- MODULE ConsoleProofs -----------------------------
(***************************************************************************)
(* Proofs about Console.tla, for every script of the operator, capacity of *)
(* the sink, interrupt mask and bound.                                     *)
(*                                                                         *)
(* Output: the transcript and the sink together go up and have been        *)
(* printed, and what is missing is no more than the counts allow.  What a  *)
(* send adds is followed frame by frame, by induction (SendArrives).       *)
(*                                                                         *)
(* Keys: what is on its way is in order and is what the operator meant by  *)
(* the keys read so far.  That is inductive with what the lock says about  *)
(* the last half frame written (LastOK), what the badge's decoder holds    *)
(* for the next one it takes (HeadOK), and what the keyboard thread's two  *)
(* flags say between reads (ReadingOK).  The scan of a read, a recursion   *)
(* over its keys, is shown to find ForGuest's keys by induction.           *)
(***************************************************************************)
EXTENDS Console, SequenceTheorems, FiniteSetTheorems, WellFoundedInduction, TLAPS

-------------------------------------------------------------------------------
(* Sequences. *)

\* Concatenation under a name, which keeps the provers from unfolding it.
Cat(s, t) == s \o t

\* Concatenation is associative, and the empty sequence is its unit.
LEMMA CatProperties ==
  ASSUME NEW S
  PROVE  /\ <<>> \in Seq(S)
         /\ \A s \in Seq(S) : Cat(s, <<>>) = s /\ Cat(<<>>, s) = s
         /\ \A s, t \in Seq(S) : Cat(s, t) \in Seq(S)
         /\ \A s, t, u \in Seq(S) : Cat(s, Cat(t, u)) = Cat(Cat(s, t), u)
         /\ \A s \in Seq(S) : \A x \in S : Append(s, x) = Cat(s, <<x>>) /\ <<x>> \in Seq(S)
<1>1. <<>> \in Seq(S)
  BY EmptySeq
<1>2. \A s \in Seq(S) : Cat(s, <<>>) = s /\ Cat(<<>>, s) = s
  BY ConcatEmptySeq DEF Cat
<1>3. \A s, t \in Seq(S) : Cat(s, t) \in Seq(S)
  BY ConcatProperties DEF Cat
<1>4. ASSUME NEW s \in Seq(S), NEW t \in Seq(S), NEW u \in Seq(S)
      PROVE  Cat(s, Cat(t, u)) = Cat(Cat(s, t), u)
  <2>1. (s \o t) \o u = s \o (t \o u)
    BY ConcatAssociative
  <2> QED
    BY <2>1, Zenon DEF Cat
<1>5. ASSUME NEW s \in Seq(S), NEW x \in S PROVE Append(s, x) = Cat(s, <<x>>) /\ <<x>> \in Seq(S)
  BY AppendIsConcat DEF Cat
<1> QED
  BY <1>1, <1>2, <1>3, <1>4, <1>5

\* Every nonempty set of naturals has a least element.
LEMMA LeastNatural ==
  ASSUME NEW T \in SUBSET Nat, T # {}
  PROVE  \E x \in T : \A y \in T : x <= y
<1>1. IsWellFoundedOn(OpToRel(<, Nat), Nat)
  BY NatLessThanWellFounded
<1>2. PICK x \in T : \A y \in T : ~ (<<y, x>> \in OpToRel(<, Nat))
  BY <1>1, WFMin
<1>3. \A y \in T : ~(y < x)
  BY <1>2 DEF OpToRel
<1> QED
  BY <1>3

\* Induction over the naturals, for a set of them.
LEMMA SetInduction ==
  ASSUME NEW T \in SUBSET Nat, 0 \in T, \A n \in T : n + 1 \in T
  PROVE  T = Nat
<1> SUFFICES ASSUME Nat \ T # {} PROVE FALSE
  OBVIOUS
<1>1. PICK x \in Nat \ T : \A y \in Nat \ T : x <= y
  BY LeastNatural
<1>2. x - 1 \in Nat /\ x - 1 \in T
  BY <1>1
<1> QED
  BY <1>1, <1>2

\* g concatenates the first 1, 2, ..., n sequences of s.
Unfolds(g, s, n) == g = [i \in 1 .. n |-> IF i = 1 THEN s[i] ELSE g[i - 1] \o s[i]]

\* FlattenSeq's recursion has a solution.
LEMMA UnfoldsExists ==
  ASSUME NEW s
  PROVE  \A n \in Nat : \E g : Unfolds(g, s, n)
<1> DEFINE T == {n \in Nat : \E g : Unfolds(g, s, n)}
<1>1. 0 \in T
  <2> DEFINE g == [i \in 1 .. 0 |-> 0]
  <2>1. Unfolds(g, s, 0)
    BY DEF Unfolds
  <2> QED
    BY <2>1
<1>2. ASSUME NEW n \in T PROVE n + 1 \in T
  <2>1. PICK g : Unfolds(g, s, n)
    OBVIOUS
  <2>a. n \in Nat
    OBVIOUS
  <2> HIDE DEF T
  <2> DEFINE last == IF n = 0 THEN s[1] ELSE g[n] \o s[n + 1]
             h == [i \in 1 .. n + 1 |-> IF i = n + 1 THEN last ELSE g[i]]
  <2>2. \A i \in 1 .. n : g[i] = IF i = 1 THEN s[i] ELSE g[i - 1] \o s[i]
    BY <2>1 DEF Unfolds
  <2>3. \A i \in 1 .. n + 1 : h[i] = IF i = 1 THEN s[i] ELSE h[i - 1] \o s[i]
    <3> TAKE i \in 1 .. n + 1
    <3>1. CASE i = 1
      <4>1. CASE n = 0
        BY <3>1, <4>1
      <4>2. CASE n # 0
        <5>1. i \in 1 .. n /\ i # n + 1
          BY <2>a, <3>1, <4>2
        <5> QED
          BY <2>2, <3>1, <5>1
      <4> QED
        BY <4>1, <4>2
    <3>2. CASE i # 1 /\ i = n + 1
      <4>1. n # 0 /\ i - 1 = n /\ n \in 1 .. n + 1 /\ n # n + 1
        BY <2>a, <3>2
      <4>2. h[n] = g[n] /\ h[i] = last
        BY <3>2, <4>1
      <4> QED
        BY <3>2, <4>1, <4>2
    <3>3. CASE i # 1 /\ i # n + 1
      <4>1. i \in 1 .. n /\ i - 1 \in 1 .. n + 1 /\ i - 1 # n + 1
        BY <2>a, <3>3
      <4>2. h[i] = g[i] /\ h[i - 1] = g[i - 1]
        BY <3>3, <4>1
      <4> QED
        BY <2>2, <3>3, <4>1, <4>2
    <3> QED
      BY <3>1, <3>2, <3>3
  <2>4. DOMAIN h = 1 .. n + 1 /\ h = [i \in 1 .. n + 1 |-> h[i]]
    OBVIOUS
  <2> HIDE DEF h
  <2>5. h = [i \in 1 .. n + 1 |-> IF i = 1 THEN s[i] ELSE h[i - 1] \o s[i]]
    BY <2>3, <2>4
  <2>6. \E k : Unfolds(k, s, n + 1)
    BY <2>5 DEF Unfolds
  <2> QED
    BY <2>a, <2>6 DEF T
<1>3. T \in SUBSET Nat
  OBVIOUS
<1> HIDE DEF T
<1>4. T = Nat
  BY <1>1, <1>2, <1>3, SetInduction
<1> QED
  BY <1>4 DEF T

\* FlattenSeq is the last value of its recursion.
LEMMA FlattenUnfolds ==
  ASSUME NEW s, Len(s) \in Nat \ {0}
  PROVE  \E g : Unfolds(g, s, Len(s)) /\ FlattenSeq(s) = g[Len(s)]
<1> DEFINE G == CHOOSE g : g = [i \in 1 .. Len(s) |-> IF i = 1 THEN s[i] ELSE g[i - 1] \o s[i]]
<1>1. \E g : g = [i \in 1 .. Len(s) |-> IF i = 1 THEN s[i] ELSE g[i - 1] \o s[i]]
  BY UnfoldsExists DEF Unfolds
<1>2. Unfolds(G, s, Len(s))
  BY <1>1 DEF Unfolds
<1>3. FlattenSeq(s) = G[Len(s)]
  BY Zenon DEF FlattenSeq
<1> QED
  BY <1>2, <1>3

\* s and t begin with the same n elements.
Same(s, t, n) == \A i \in 1 .. n : s[i] = t[i]

\* The recursions over two sequences agree as far as the sequences do.
LEMMA UnfoldsAgree ==
  ASSUME NEW n \in Nat, NEW m \in Nat, n <= m,
         NEW s, NEW t, Same(s, t, n),
         NEW g, NEW h, Unfolds(g, s, n), Unfolds(h, t, m)
  PROVE  Same(g, h, n)
<1> DEFINE T == {i \in 1 .. n : g[i] # h[i]}
<1> SUFFICES ASSUME T # {} PROVE FALSE
  BY DEF Same
<1>1. PICK x \in T : \A y \in T : x <= y
  <2>1. T \in SUBSET Nat
    OBVIOUS
  <2> HIDE DEF T
  <2> QED
    BY <2>1, LeastNatural
<1>2. x \in 1 .. n /\ g[x] # h[x] /\ s[x] = t[x]
  BY <1>1 DEF Same
<1>3. x \in 1 .. m
  BY <1>2
<1>4. /\ g[x] = IF x = 1 THEN s[x] ELSE g[x - 1] \o s[x]
      /\ h[x] = IF x = 1 THEN t[x] ELSE h[x - 1] \o t[x]
  BY <1>2, <1>3 DEF Unfolds
<1>5. x # 1
  BY <1>2, <1>4
<1>6. x - 1 \in 1 .. n /\ ~(x <= x - 1)
  BY <1>2, <1>5
<1>7. g[x - 1] = h[x - 1]
  BY <1>1, <1>6
<1> QED
  BY <1>2, <1>4, <1>5, <1>7

\* t is s with one more sequence.
LEMMA FlattenOneMore ==
  ASSUME NEW S, NEW s \in Seq(Seq(S)), NEW t \in Seq(Seq(S)),
         Len(t) = Len(s) + 1, \A i \in 1 .. Len(s) : t[i] = s[i]
  PROVE  FlattenSeq(t) = Cat(FlattenSeq(s), t[Len(t)])
<1>a. PICK n \in Nat : n = Len(s)
  BY LenProperties
<1>0. n + 1 \in Nat \ {0} /\ n + 1 \in 1 .. n + 1 /\ n <= n + 1 /\ n <= n
  OBVIOUS
<1>1. PICK h : Unfolds(h, t, n + 1) /\ FlattenSeq(t) = h[n + 1]
  <2>1. Len(t) \in Nat \ {0}
    BY <1>a
  <2>2. \E h : Unfolds(h, t, Len(t)) /\ FlattenSeq(t) = h[Len(t)]
    BY <2>1, FlattenUnfolds
  <2> QED
    BY <1>a, <2>2
<1>b. \A i \in 1 .. n + 1 : h[i] = IF i = 1 THEN t[i] ELSE h[i - 1] \o t[i]
  BY <1>1 DEF Unfolds
<1>2. h[n + 1] = IF n + 1 = 1 THEN t[n + 1] ELSE h[n + 1 - 1] \o t[n + 1]
  BY <1>0, <1>b
<1>3. CASE n = 0
  <2>1. FlattenSeq(s) = s /\ s = <<>>
    BY <1>a, <1>3, EmptySeq DEF FlattenSeq
  <2>2. t[n + 1] \in Seq(S)
    BY <1>a, <1>0, ElementOfSeq
  <2>3. \A u \in Seq(S) : Cat(<<>>, u) = u
    BY ConcatEmptySeq DEF Cat
  <2> QED
    BY <1>a, <1>1, <1>2, <1>3, <2>1, <2>2, <2>3
<1>4. CASE n # 0
  <2>1. n \in Nat \ {0} /\ n \in 1 .. n /\ n + 1 - 1 = n /\ n + 1 # 1
    BY <1>0, <1>4
  <2>2. PICK g : Unfolds(g, s, n) /\ FlattenSeq(s) = g[n]
    BY <1>a, <2>1, FlattenUnfolds
  <2>3. Same(g, h, n)
    <3>1. Same(s, t, n)
      BY <1>a DEF Same
    <3>2. PICK m \in Nat : m = n + 1 /\ n <= m
      OBVIOUS
    <3>3. Unfolds(g, s, n) /\ Unfolds(h, t, m)
      BY <1>1, <2>2, <3>2
    <3> QED
      BY <3>1, <3>2, <3>3, UnfoldsAgree
  <2> QED
    BY <1>a, <1>1, <1>2, <2>1, <2>2, <2>3 DEF Cat, Same
<1> QED
  BY <1>3, <1>4

\* Flattening sequences of S gives a sequence of S.
LEMMA FlattenType ==
  ASSUME NEW S, NEW s \in Seq(Seq(S))
  PROVE  FlattenSeq(s) \in Seq(S)
<1> DEFINE n == Len(s)
<1>0. n \in Nat /\ \A i \in 1 .. n : s[i] \in Seq(S)
  BY LenProperties, ElementOfSeq
<1>1. CASE n = 0
  <2>1. FlattenSeq(s) = s /\ s = <<>>
    BY <1>1, EmptySeq DEF FlattenSeq
  <2> QED
    BY <2>1, EmptySeq
<1>2. CASE n # 0
  <2>1. PICK g : Unfolds(g, s, n) /\ FlattenSeq(s) = g[n]
    BY <1>0, <1>2, FlattenUnfolds
  <2> DEFINE T == {i \in 1 .. n : g[i] \notin Seq(S)}
  <2>2. ASSUME T # {} PROVE FALSE
    <3>1. PICK x \in T : \A y \in T : x <= y
      <4>1. T \in SUBSET Nat
        OBVIOUS
      <4> HIDE DEF T
      <4> QED
        BY <2>2, <4>1, LeastNatural
    <3>2. x \in 1 .. n /\ g[x] \notin Seq(S)
      OBVIOUS
    <3>3. g[x] = IF x = 1 THEN s[x] ELSE g[x - 1] \o s[x]
      BY <2>1, <3>2 DEF Unfolds
    <3>4. x # 1
      BY <1>0, <3>2, <3>3
    <3>5. x - 1 \in 1 .. n /\ ~(x <= x - 1)
      BY <1>0, <3>2, <3>4
    <3>6. g[x - 1] \in Seq(S)
      BY <3>1, <3>5
    <3> QED
      BY <1>0, <3>2, <3>3, <3>4, <3>6, ConcatProperties
  <2>3. n \in 1 .. n
    BY <1>0, <1>2
  <2> QED
    BY <2>1, <2>2, <2>3
<1> QED
  BY <1>1, <1>2

\* The first sequence comes first.
LEMMA FlattenFirst ==
  ASSUME NEW S, NEW s \in Seq(Seq(S)), s # <<>>
  PROVE  FlattenSeq(s) = Cat(Head(s), FlattenSeq(Tail(s)))
<1> DEFINE Good(u) == FlattenSeq(u) = Cat(Head(u), FlattenSeq(Tail(u)))
           T == {n \in Nat : \A u \in Seq(Seq(S)) : Len(u) = n + 1 => Good(u)}
<1>a. /\ <<>> \in Seq(S)
      /\ \A u \in Seq(S) : Cat(u, <<>>) = u /\ Cat(<<>>, u) = u
      /\ \A u, v, w \in Seq(S) : Cat(u, Cat(v, w)) = Cat(Cat(u, v), w)
  BY CatProperties
<1>b. FlattenSeq(<<>>) = <<>> /\ <<>> \in Seq(Seq(S)) /\ Len(<<>>) = 0
  BY EmptySeq DEF FlattenSeq
<1>1. 0 \in T
  <2> SUFFICES ASSUME NEW u \in Seq(Seq(S)), Len(u) = 0 + 1 PROVE Good(u)
    OBVIOUS
  <2>1. Len(u) = 1 /\ u # <<>> /\ u[1] \in Seq(S)
    <3>1. Len(u) = 1 /\ 1 \in 1 .. Len(u)
      OBVIOUS
    <3>2. u[1] \in Seq(S)
      BY <3>1, ElementOfSeq
    <3>3. u # <<>>
      <4>1. 0 # 1
        OBVIOUS
      <4> QED
        BY <1>b, <3>1, <4>1, Zenon
    <3> QED
      BY <3>1, <3>2, <3>3
  <2>2. Head(u) = u[1] /\ Tail(u) = <<>>
    <3>1. Tail(u) \in Seq(Seq(S)) /\ Len(Tail(u)) = 0 /\ Head(u) = u[1]
      BY <2>1, HeadTailProperties
    <3> QED
      BY <3>1, EmptySeq
  <2>3. FlattenSeq(u) = Cat(FlattenSeq(<<>>), u[Len(u)])
    <3>1. Len(u) = Len(<<>>) + 1 /\ \A i \in 1 .. Len(<<>>) : u[i] = <<>>[i]
      BY <1>b, <2>1
    <3> QED
      BY <1>b, <3>1, FlattenOneMore
  <2>4. FlattenSeq(u) = u[1]
    BY <1>a, <1>b, <2>1, <2>3
  <2>5. Cat(Head(u), FlattenSeq(Tail(u))) = u[1]
    <3>1. Cat(u[1], <<>>) = u[1]
      BY <1>a, <2>1
    <3>2. FlattenSeq(Tail(u)) = <<>>
      BY <1>b, <2>2
    <3> QED
      BY <2>2, <3>1, <3>2, Zenon
  <2> QED
    BY <2>4, <2>5
<1>2. ASSUME NEW n \in T PROVE n + 1 \in T
  <2>0. n \in Nat /\ \A u \in Seq(Seq(S)) : Len(u) = n + 1 => Good(u)
    OBVIOUS
  <2>1. ASSUME NEW u \in Seq(Seq(S)), Len(u) = n + 1 + 1 PROVE Good(u)
    <3>0. PICK m \in Nat : m = n + 1 /\ m # 0
      BY <2>0
    <3>1. Len(u) = m + 1 /\ u # <<>> /\ Len(u) - 1 = m
      BY <1>b, <2>1, <3>0
    <3> DEFINE f == SubSeq(u, 1, m)
    <3>2. f \in Seq(Seq(S)) /\ Len(f) = m /\ \A i \in 1 .. m : f[i] = u[i]
      <4>1. 1 \in 1 .. Len(u) + 1 /\ m \in 0 .. Len(u) /\ 1 \in 1 .. m + 1 /\ m - 1 + 1 = m
        BY <3>0, <3>1
      <4>2. \A i \in 1 .. m : u[i] \in Seq(S) /\ 1 + i - 1 = i
        BY <3>1, ElementOfSeq
      <4>3. f \in Seq(Seq(S)) /\ Len(f) = m
        BY <3>0, <4>1, <4>2, SubSeqProperties
      <4>4. \A i \in 1 .. m : f[i] = u[1 + i - 1]
        BY <3>0, <4>1, <4>2, SubSeqProperties
      <4> QED
        BY <4>2, <4>3, <4>4
    <3> HIDE DEF f
    <3>3. f # <<>> /\ Good(f)
      BY <1>b, <2>0, <3>0, <3>2
    <3>4. /\ Head(u) = u[1] /\ Tail(u) \in Seq(Seq(S)) /\ Len(Tail(u)) = m
          /\ \A i \in 1 .. m : Tail(u)[i] = u[i + 1]
      BY <3>1, HeadTailProperties
    <3>5. /\ Head(f) = f[1] /\ Tail(f) \in Seq(Seq(S)) /\ Len(Tail(f)) = m - 1
          /\ \A i \in 1 .. m - 1 : Tail(f)[i] = f[i + 1]
      BY <3>2, <3>3, HeadTailProperties
    <3>6. FlattenSeq(u) = Cat(FlattenSeq(f), u[m + 1])
      <4>1. Len(u) = Len(f) + 1 /\ \A i \in 1 .. Len(f) : u[i] = f[i]
        BY <3>1, <3>2
      <4>2. FlattenSeq(u) = Cat(FlattenSeq(f), u[Len(u)])
        BY <3>2, <4>1, FlattenOneMore
      <4> QED
        BY <3>1, <4>2
    <3>7. FlattenSeq(Tail(u)) = Cat(FlattenSeq(Tail(f)), u[m + 1])
      <4>1. Len(Tail(u)) = Len(Tail(f)) + 1
        BY <3>0, <3>4, <3>5
      <4>2. \A i \in 1 .. Len(Tail(f)) : Tail(u)[i] = Tail(f)[i]
        <5> TAKE i \in 1 .. Len(Tail(f))
        <5>1. i \in 1 .. m - 1 /\ i \in 1 .. m /\ i + 1 \in 1 .. m
          BY <3>0, <3>5
        <5> QED
          BY <3>2, <3>4, <3>5, <5>1
      <4>3. Tail(u)[Len(Tail(u))] = u[m + 1]
        BY <3>0, <3>4
      <4>4. PICK a \in Seq(Seq(S)), b \in Seq(Seq(S)) : a = Tail(u) /\ b = Tail(f)
        BY <3>4, <3>5
      <4>5. Len(a) = Len(b) + 1 /\ \A i \in 1 .. Len(b) : a[i] = b[i]
        BY <4>1, <4>2, <4>4
      <4>6. FlattenSeq(a) = Cat(FlattenSeq(b), a[Len(a)])
        BY <4>5, FlattenOneMore
      <4> QED
        BY <4>3, <4>4, <4>6
    <3>8. /\ FlattenSeq(Tail(f)) \in Seq(S) /\ u[m + 1] \in Seq(S)
          /\ Head(f) = Head(u) /\ Head(u) \in Seq(S)
      <4>1. 1 \in 1 .. m /\ 1 \in 1 .. m + 1 /\ m + 1 \in 1 .. m + 1
        BY <3>0
      <4>2. u[1] \in Seq(S) /\ u[m + 1] \in Seq(S)
        BY <3>1, <4>1, ElementOfSeq
      <4>3. FlattenSeq(Tail(f)) \in Seq(S)
        BY <3>5, FlattenType
      <4> QED
        BY <3>2, <3>4, <3>5, <4>1, <4>2, <4>3
    <3> QED
      BY <1>a, <3>3, <3>6, <3>7, <3>8
  <2> QED
    BY <2>0, <2>1
<1>3. T \in SUBSET Nat
  OBVIOUS
<1> HIDE DEF T
<1>4. T = Nat
  BY <1>1, <1>2, <1>3, SetInduction
<1>5. PICK n \in Nat : Len(s) = n + 1
  <2>1. Len(s) \in Nat /\ Len(s) # 0
    BY EmptySeq, LenProperties
  <2>2. Len(s) - 1 \in Nat /\ Len(s) = (Len(s) - 1) + 1
    BY <2>1
  <2> QED
    BY <2>2
<1> QED
  BY <1>4, <1>5 DEF T

-------------------------------------------------------------------------------
(* Sequences that only go up. *)

Up(s) == \A j, k \in 1 .. Len(s) : j < k => s[j] < s[k]

\* A concatenation holds what its parts hold.
LEMMA RangeCat ==
  ASSUME NEW S, NEW s \in Seq(S), NEW t \in Seq(S)
  PROVE  Range(Cat(s, t)) = Range(s) \cup Range(t)
<1>1. PICK m \in Nat, n \in Nat : m = Len(s) /\ n = Len(t)
  BY LenProperties
<1>2. DOMAIN s = 1 .. m /\ DOMAIN t = 1 .. n
  BY <1>1, LenProperties
<1> DEFINE c == Cat(s, t)
<1>3. /\ c \in Seq(S) /\ Len(c) = m + n
      /\ \A i \in 1 .. m + n : c[i] = IF i <= m THEN s[i] ELSE t[i - m]
  BY <1>1, ConcatProperties DEF Cat
<1>4. DOMAIN c = 1 .. m + n
  BY <1>3, LenProperties
<1> HIDE DEF c
<1>5. ASSUME NEW i \in 1 .. m + n PROVE c[i] \in Range(s) \cup Range(t)
  <2>1. CASE i <= m
    <3>1. i \in 1 .. m /\ c[i] = s[i]
      BY <1>3, <2>1
    <3> QED
      BY <1>2, <3>1 DEF Range
  <2>2. CASE ~(i <= m)
    <3>1. i - m \in 1 .. n /\ c[i] = t[i - m]
      BY <1>3, <2>2
    <3> QED
      BY <1>2, <3>1 DEF Range
  <2> QED
    BY <2>1, <2>2
<1>6. ASSUME NEW i \in 1 .. m PROVE s[i] \in Range(c)
  <2>1. i \in 1 .. m + n /\ i <= m
    OBVIOUS
  <2> QED
    BY <1>3, <1>4, <2>1 DEF Range
<1>7. ASSUME NEW i \in 1 .. n PROVE t[i] \in Range(c)
  <2>1. PICK j \in 1 .. m + n : j = i + m
    OBVIOUS
  <2>2. ~(j <= m) /\ j - m = i
    BY <2>1
  <2> QED
    BY <1>3, <1>4, <2>2 DEF Range
<1> QED
  BY <1>2, <1>4, <1>5, <1>6, <1>7 DEF Range, c

\* Below(s, t): everything in s is less than everything in t.
Below(s, t) == \A x \in Range(s), y \in Range(t) : x < y

\* A concatenation goes up when its parts do, and the first stays below the second.
LEMMA UpCat ==
  ASSUME NEW s \in Seq(Nat), NEW t \in Seq(Nat)
  PROVE  Up(Cat(s, t)) <=> Up(s) /\ Up(t) /\ Below(s, t)
<1>1. PICK m \in Nat, n \in Nat : m = Len(s) /\ n = Len(t)
  BY LenProperties
<1>2. DOMAIN s = 1 .. m /\ DOMAIN t = 1 .. n
  BY <1>1, LenProperties
<1> DEFINE c == Cat(s, t)
<1>3. /\ c \in Seq(Nat) /\ Len(c) = m + n
      /\ \A i \in 1 .. m + n : c[i] = IF i <= m THEN s[i] ELSE t[i - m]
  BY <1>1, ConcatProperties DEF Cat
<1> HIDE DEF c
<1>4. /\ \A i \in 1 .. m : i \in 1 .. m + n /\ c[i] = s[i]
      /\ \A i \in 1 .. n : i + m \in 1 .. m + n /\ c[i + m] = t[i]
  <2>1. \A i \in 1 .. m : i \in 1 .. m + n /\ i <= m
    OBVIOUS
  <2>2. \A i \in 1 .. n : i + m \in 1 .. m + n /\ ~(i + m <= m) /\ (i + m) - m = i
    OBVIOUS
  <2> QED
    BY <1>3, <2>1, <2>2
<1>5. ASSUME Up(c) PROVE Up(s) /\ Up(t) /\ Below(s, t)
  <2>0. \A j, k \in 1 .. m + n : j < k => c[j] < c[k]
    BY <1>3, <1>5 DEF Up
  <2>1. \A j, k \in 1 .. m : j < k => s[j] < s[k]
    BY <1>4, <2>0
  <2>2. ASSUME NEW j \in 1 .. n, NEW k \in 1 .. n, j < k PROVE t[j] < t[k]
    <3>1. j + m < k + m
      BY <2>2
    <3> QED
      BY <1>4, <2>0, <3>1
  <2>3. ASSUME NEW j \in 1 .. m, NEW k \in 1 .. n PROVE s[j] < t[k]
    <3>1. j < k + m
      BY <2>3
    <3> QED
      BY <1>4, <2>0, <3>1
  <2>4. Up(s) /\ Up(t)
    BY <1>1, <2>1, <2>2 DEF Up
  <2>5. Below(s, t)
    BY <1>2, <2>3 DEF Below, Range
  <2> QED
    BY <2>4, <2>5
<1>6. ASSUME Up(s), Up(t), Below(s, t) PROVE Up(c)
  <2>1. /\ \A j, k \in 1 .. m : j < k => s[j] < s[k]
        /\ \A j, k \in 1 .. n : j < k => t[j] < t[k]
    BY <1>1, <1>6 DEF Up
  <2>2. \A j \in 1 .. m, k \in 1 .. n : s[j] < t[k]
    BY <1>2, <1>6 DEF Below, Range
  <2> SUFFICES ASSUME NEW j \in 1 .. m + n, NEW k \in 1 .. m + n, j < k PROVE c[j] < c[k]
    BY <1>3 DEF Up
  <2>3. CASE k <= m
    <3>1. j \in 1 .. m /\ k \in 1 .. m
      BY <2>3
    <3> QED
      BY <1>4, <2>1, <3>1
  <2>4. CASE j <= m /\ ~(k <= m)
    <3>1. j \in 1 .. m /\ k - m \in 1 .. n
      BY <2>4
    <3>2. c[j] = s[j] /\ c[k] = t[k - m]
      BY <1>3, <2>4
    <3> QED
      BY <2>2, <3>1, <3>2
  <2>5. CASE ~(j <= m)
    <3>1. j - m \in 1 .. n /\ k - m \in 1 .. n /\ j - m < k - m /\ ~(k <= m)
      BY <2>5
    <3>2. c[j] = t[j - m] /\ c[k] = t[k - m]
      BY <1>3, <2>5, <3>1
    <3> QED
      BY <2>1, <3>1, <3>2
  <2> QED
    BY <2>3, <2>4, <2>5
<1> QED
  BY <1>5, <1>6 DEF c

-------------------------------------------------------------------------------
(* Output. *)

Sent == Cat(transcript, buf)

OutType == /\ printed \in Nat /\ dropped \in Nat /\ mirror_faults \in Nat /\ unheard \in Nat
           /\ transcript \in Seq(Nat) /\ buf \in Seq(Nat)
           /\ Len(buf) <= MIRROR_CAP

\* What is in the transcript and the sink goes up, and has been printed.
OutInOrder == Up(Sent) /\ \A x \in Range(Sent) : x <= printed

\* Of p bytes d are dropped and l are there: f faults and u frames that went astray explain the rest.
Explained(p, d, l, f, u) == /\ d + l <= p
                            /\ p <= d + l + f * MIRROR_CAP + u * MAX_PAYLOAD

OutCounted == Explained(printed, dropped, Len(transcript) + Len(buf), mirror_faults, unheard)

NothingLeft == bpc = "ended" => buf = <<>>

OutInv == OutType /\ OutInOrder /\ OutCounted /\ NothingLeft

\* One byte more goes up when it is greater than the rest.
LEMMA UpAppend ==
  ASSUME NEW s \in Seq(Nat), NEW x \in Nat, Up(s), \A y \in Range(s) : y < x
  PROVE  /\ Append(s, x) \in Seq(Nat) /\ Up(Append(s, x))
         /\ Range(Append(s, x)) = Range(s) \cup {x}
<1> DEFINE t == <<x>>
<1>1. t \in Seq(Nat) /\ Len(t) = 1 /\ t[1] = x /\ Range(t) = {x}
  BY DEF Range
<1>2. Append(s, x) = Cat(s, t) /\ Cat(s, t) \in Seq(Nat)
  <2>1. Cat(s, t) \in Seq(Nat)
    BY CatProperties, <1>1
  <2>2. Append(s, x) = s \o <<x>>
    BY AppendIsConcat
  <2> QED
    BY <2>1, <2>2, Zenon DEF Cat
<1>3. Up(t)
  BY <1>1 DEF Up
<1> HIDE DEF t
<1>4. Below(s, t)
  BY <1>1 DEF Below
<1> QED
  BY <1>1, <1>2, <1>3, <1>4, UpCat, RangeCat

\* What the sink gathers of at most one byte.
LEMMA GatheredOne ==
  ASSUME OutType, NEW n \in {0, 1}
  PROVE  \/ Gathered(n) = buf
         \/ n = 1 /\ Gathered(n) = Append(buf, printed + 1) /\ Len(buf) + 1 <= MIRROR_CAP
<1>0. MIRROR_CAP \in Nat /\ printed \in Nat /\ buf \in Seq(Nat) /\ Len(buf) \in Nat /\ Len(buf) <= MIRROR_CAP
  BY ConsoleAssumption, LenProperties DEF OutType
<1> DEFINE room == MIRROR_CAP - Len(buf)
           m == IF n <= room THEN n ELSE room
           more == [i \in 1 .. m |-> printed + i]
<1>1. Gathered(n) = Cat(buf, more)
  BY DEF Gathered, Cat
<1>2. m = 0 \/ (m = 1 /\ n = 1 /\ Len(buf) + 1 <= MIRROR_CAP)
  BY <1>0
<1> HIDE DEF m
<1>3. CASE m = 0
  <2>1. more = <<>>
    BY <1>3
  <2>2. Cat(buf, <<>>) = buf
    BY <1>0, CatProperties
  <2> QED
    BY <1>1, <2>1, <2>2
<1>4. CASE m = 1 /\ n = 1 /\ Len(buf) + 1 <= MIRROR_CAP
  <2>1. more = <<printed + 1>>
    BY <1>0, <1>4
  <2>2. Append(buf, printed + 1) = Cat(buf, <<printed + 1>>)
    <3>1. PICK x \in Nat : x = printed + 1
      BY <1>0
    <3>2. Append(buf, x) = buf \o <<x>>
      BY <1>0, AppendIsConcat
    <3> QED
      BY <3>1, <3>2, Zenon DEF Cat
  <2> QED
    BY <1>1, <1>4, <2>1, <2>2
<1> QED
  BY <1>2, <1>3, <1>4

\* Products of naturals, for the provers.
LEMMA Products ==
  ASSUME NEW a \in Nat, NEW b \in Nat, NEW c \in Nat
  PROVE  a * c \in Nat /\ (a + b) * c = a * c + b * c /\ 1 * c = c /\ 0 * c = 0
OBVIOUS

\* n bytes more, all of them there or dropped.
LEMMA ExplainedMoves ==
  ASSUME NEW p \in Nat, NEW d \in Nat, NEW l \in Nat, NEW f \in Nat, NEW u \in Nat,
         Explained(p, d, l, f, u),
         NEW n \in Nat, NEW e \in Nat, NEW m \in Nat, e + m = d + l + n
  PROVE  Explained(p + n, e, m, f, u)
<1>1. MIRROR_CAP \in Nat /\ MAX_PAYLOAD \in Nat
  BY ConsoleAssumption
<1>2. PICK x \in Nat, y \in Nat : x = f * MIRROR_CAP /\ y = u * MAX_PAYLOAD
  BY <1>1, Products
<1>3. d + l <= p /\ p <= d + l + x + y
  BY <1>2 DEF Explained
<1>4. e + m <= p + n /\ p + n <= e + m + x + y
  BY <1>3
<1> QED
  BY <1>2, <1>4 DEF Explained

\* What holds of the sink once it has gathered n bytes more.
LEMMA GatheredOK ==
  ASSUME OutInv, NEW n \in {0, 1}
  PROVE  /\ Gathered(n) \in Seq(Nat) /\ Len(Gathered(n)) <= MIRROR_CAP
         /\ Up(Cat(transcript, Gathered(n)))
         /\ \A x \in Range(Cat(transcript, Gathered(n))) : x <= printed + n
         /\ dropped + n - (Len(Gathered(n)) - Len(buf)) \in Nat
         /\ Explained(printed + n, dropped + n - (Len(Gathered(n)) - Len(buf)),
                      Len(transcript) + Len(Gathered(n)), mirror_faults, unheard)
<1>0. /\ OutType /\ printed \in Nat /\ dropped \in Nat /\ buf \in Seq(Nat) /\ transcript \in Seq(Nat)
      /\ Len(buf) \in Nat /\ Len(transcript) \in Nat /\ Len(buf) <= MIRROR_CAP
  BY LenProperties DEF OutInv, OutType
<1>1. Up(Cat(transcript, buf)) /\ \A x \in Range(Cat(transcript, buf)) : x <= printed /\ x \in Nat
  <2>1. Cat(transcript, buf) \in Seq(Nat)
    BY <1>0, CatProperties
  <2>2. \A x \in Range(Cat(transcript, buf)) : x \in Nat
    BY <2>1, ElementOfSeq, LenProperties DEF Range
  <2> QED
    BY <2>2 DEF OutInv, OutInOrder, Sent
<1>2. Explained(printed, dropped, Len(transcript) + Len(buf), mirror_faults, unheard)
  BY DEF OutInv, OutCounted
<1>a. PICK a \in Nat, b \in Nat : a = Len(transcript) /\ b = Len(buf)
  BY <1>0
<1>b. mirror_faults \in Nat /\ unheard \in Nat
  BY <1>0 DEF OutType
<1>3. CASE Gathered(n) = buf
  <2>1. \A x \in Range(Cat(transcript, buf)) : x <= printed + n
    BY <1>0, <1>1
  <2>2. Len(buf) - Len(buf) = 0 /\ dropped + n - 0 \in Nat
    BY <1>0
  <2>3. Explained(printed + n, dropped + n - (b - b), a + b, mirror_faults, unheard)
    <3>1. dropped + n - (b - b) = dropped + n /\ dropped + n \in Nat /\ printed + n \in Nat
      BY <1>0, <1>a
    <3>2. (dropped + n) + (a + b) = dropped + (a + b) + n
      BY <1>0, <1>a
    <3>3. Explained(printed, dropped, a + b, mirror_faults, unheard)
      BY <1>2, <1>a
    <3>4. n \in Nat /\ a + b \in Nat
      BY <1>a
    <3>5. Explained(printed + n, dropped + n, a + b, mirror_faults, unheard)
      BY <1>0, <1>b, <3>1, <3>2, <3>3, <3>4, ExplainedMoves
    <3> QED
      BY <1>a, <3>1, <3>5
  <2> QED
    BY <1>0, <1>1, <1>3, <1>a, <2>1, <2>2, <2>3
<1>4. CASE n = 1 /\ Gathered(n) = Append(buf, printed + 1) /\ Len(buf) + 1 <= MIRROR_CAP
  <2>0. PICK g : g = Gathered(n)
    OBVIOUS
  <2>a. PICK x \in Nat : x = printed + 1
    BY <1>0
  <2>1. g \in Seq(Nat) /\ Len(g) = Len(buf) + 1
    BY <1>0, <1>4, <2>0, <2>a, AppendProperties
  <2>2. Cat(transcript, g) = Append(Cat(transcript, buf), x)
    <3>1. /\ \A s, t, u \in Seq(Nat) : Cat(s, Cat(t, u)) = Cat(Cat(s, t), u)
          /\ \A s, t \in Seq(Nat) : Cat(s, t) \in Seq(Nat)
          /\ \A s \in Seq(Nat) : \A y \in Nat : Append(s, y) = Cat(s, <<y>>) /\ <<y>> \in Seq(Nat)
      BY CatProperties
    <3>2. g = Cat(buf, <<x>>) /\ <<x>> \in Seq(Nat)
      BY <1>0, <1>4, <2>0, <2>a, <3>1
    <3>3. PICK o \in Seq(Nat) : o = <<x>>
      BY <3>2
    <3>4. Cat(transcript, Cat(buf, o)) = Cat(Cat(transcript, buf), o) /\ Cat(transcript, buf) \in Seq(Nat)
      BY <1>0, <3>1
    <3>5. Append(Cat(transcript, buf), x) = Cat(Cat(transcript, buf), <<x>>)
      BY <3>1, <3>4, Zenon
    <3> QED
      BY <3>2, <3>3, <3>4, <3>5
  <2>3. Cat(transcript, buf) \in Seq(Nat) /\ \A y \in Range(Cat(transcript, buf)) : y < x
    BY <1>0, <1>1, <2>a, CatProperties
  <2>4. Up(Cat(transcript, g)) /\ Range(Cat(transcript, g)) = Range(Cat(transcript, buf)) \cup {x}
    BY <1>1, <2>2, <2>3, UpAppend
  <2>5. \A y \in Range(Cat(transcript, g)) : y <= printed + n
    BY <1>0, <1>1, <1>4, <2>a, <2>4
  <2>6. dropped + n - (Len(g) - Len(buf)) = dropped
    BY <1>0, <1>4, <2>1
  <2>7. Explained(printed + n, dropped, Len(transcript) + Len(g), mirror_faults, unheard)
    <3>1. a + (b + 1) \in Nat /\ a + b \in Nat /\ dropped + (a + (b + 1)) = dropped + (a + b) + 1
      BY <1>0
    <3>2. Explained(printed, dropped, a + b, mirror_faults, unheard)
      BY <1>2, <1>a
    <3>3. Explained(printed + 1, dropped, a + (b + 1), mirror_faults, unheard)
      BY <1>0, <1>b, <3>1, <3>2, ExplainedMoves
    <3> QED
      BY <1>4, <1>a, <2>1, <3>3
  <2> QED
    BY <1>0, <1>4, <2>0, <2>1, <2>4, <2>5, <2>6, <2>7
<1> QED
  BY <1>0, <1>3, <1>4, GatheredOne

\* Where frame i of a send ends: at the end of the bytes sent, or MAX_PAYLOAD after frame i - 1.
LEMMA FrameEnds ==
  ASSUME NEW out \in Seq(Nat)
  PROVE  /\ FrameEnd(out, 0) = 0
         /\ \A i \in Nat : /\ FrameEnd(out, i) \in Nat
                           /\ FrameEnd(out, i) <= Len(out)
                           /\ FrameEnd(out, i) <= FrameEnd(out, i + 1)
                           /\ FrameEnd(out, i + 1) <= FrameEnd(out, i) + MAX_PAYLOAD
                           /\ Len(out) <= i * MAX_PAYLOAD => FrameEnd(out, i) = Len(out)
<1>1. MAX_PAYLOAD \in Nat /\ Len(out) \in Nat
  BY ConsoleAssumption, LenProperties
<1>2. FrameEnd(out, 0) = 0
  <2>1. 0 * MAX_PAYLOAD = 0
    BY <1>1, Products
  <2> QED
    BY <1>1, <2>1 DEF FrameEnd
<1>3. ASSUME NEW i \in Nat
      PROVE  /\ FrameEnd(out, i) \in Nat
             /\ FrameEnd(out, i) <= Len(out)
             /\ FrameEnd(out, i) <= FrameEnd(out, i + 1)
             /\ FrameEnd(out, i + 1) <= FrameEnd(out, i) + MAX_PAYLOAD
             /\ Len(out) <= i * MAX_PAYLOAD => FrameEnd(out, i) = Len(out)
  <2>1. PICK x \in Nat, y \in Nat : x = i * MAX_PAYLOAD /\ y = (i + 1) * MAX_PAYLOAD
    <3>1. i + 1 \in Nat
      OBVIOUS
    <3> QED
      BY <1>1, <3>1, Products
  <2>2. y = x + MAX_PAYLOAD
    <3>1. (i + 1) * MAX_PAYLOAD = i * MAX_PAYLOAD + 1 * MAX_PAYLOAD /\ 1 * MAX_PAYLOAD = MAX_PAYLOAD
      BY <1>1, Products
    <3> QED
      BY <2>1, <3>1
  <2>3. /\ FrameEnd(out, i) = IF x <= Len(out) THEN x ELSE Len(out)
        /\ FrameEnd(out, i + 1) = IF y <= Len(out) THEN y ELSE Len(out)
    BY <2>1 DEF FrameEnd
  <2> QED
    BY <1>1, <2>1, <2>2, <2>3
<1> QED
  BY <1>2, <1>3

\* The frame behind k others, as it is sent and as it arrives.
Frame(out, k, gone) == IF k + 1 \in gone THEN <<>> ELSE Chunk(out, k + 1)

\* A frame holds what lies between its ends.
LEMMA ChunkHolds ==
  ASSUME NEW out \in Seq(Nat), NEW k \in Nat
  PROVE  /\ Chunk(out, k + 1) \in Seq(Nat)
         /\ Len(Chunk(out, k + 1)) = FrameEnd(out, k + 1) - FrameEnd(out, k)
         /\ \A i \in 1 .. FrameEnd(out, k + 1) - FrameEnd(out, k) :
              Chunk(out, k + 1)[i] = out[FrameEnd(out, k) + i]
<1>1. PICK x \in Nat, y \in Nat : /\ x = FrameEnd(out, k) /\ y = FrameEnd(out, k + 1)
                                  /\ x <= y /\ y <= Len(out)
  <2>1. k + 1 \in Nat
    OBVIOUS
  <2> QED
    BY <2>1, FrameEnds
<1>2. Chunk(out, k + 1) = SubSeq(out, x + 1, y)
  <2>1. PICK j \in Nat : j = k + 1 /\ j - 1 = k
    OBVIOUS
  <2>2. Chunk(out, j) = SubSeq(out, FrameEnd(out, j - 1) + 1, FrameEnd(out, j))
    BY DEF Chunk
  <2> QED
    BY <1>1, <2>1, <2>2, Zenon
<1>3. x + 1 \in Int /\ y \in Int /\ \A i \in x + 1 .. y : out[i] \in Nat
  <2>1. ASSUME NEW i \in x + 1 .. y PROVE out[i] \in Nat
    <3>1. i \in 1 .. Len(out)
      BY <1>1, LenProperties
    <3> QED
      BY <3>1, ElementOfSeq
  <2> QED
    BY <2>1
<1>4. /\ SubSeq(out, x + 1, y) \in Seq(Nat)
      /\ Len(SubSeq(out, x + 1, y)) = IF x + 1 <= y THEN y - (x + 1) + 1 ELSE 0
      /\ \A i \in 1 .. y - (x + 1) + 1 : SubSeq(out, x + 1, y)[i] = out[x + 1 + i - 1]
  BY <1>3, SubSeqProperties
<1>5. /\ y - (x + 1) + 1 = y - x /\ (IF x + 1 <= y THEN y - x ELSE 0) = y - x
      /\ \A i \in 1 .. y - x : x + 1 + i - 1 = x + i
  BY <1>1
<1>6. \A i \in 1 .. y - x : SubSeq(out, x + 1, y)[i] = out[x + i]
  BY <1>4, <1>5
<1>7. Len(SubSeq(out, x + 1, y)) = y - x
  BY <1>4, <1>5
<1> QED
  BY <1>1, <1>2, <1>4, <1>6, <1>7

\* With one frame more, the laptop has what it had and that frame, unless it is gone.
LEMMA ArrivedOneMore ==
  ASSUME NEW out \in Seq(Nat), NEW k \in Nat, NEW gone
  PROVE  /\ Arrived(out, 0, gone) = <<>>
         /\ Arrived(out, k, gone) \in Seq(Nat)
         /\ Arrived(out, k + 1, gone) = Cat(Arrived(out, k, gone), Frame(out, k, gone))
<1> DEFINE S(n) == [i \in 1 .. n |-> IF i \in gone THEN <<>> ELSE Chunk(out, i)]
<1>1. ASSUME NEW n \in Nat PROVE S(n) \in Seq(Seq(Nat)) /\ Len(S(n)) = n
  <2>1. ASSUME NEW i \in 1 .. n PROVE (IF i \in gone THEN <<>> ELSE Chunk(out, i)) \in Seq(Nat)
    <3>1. PICK j \in Nat : i = j + 1
      <4>1. i - 1 \in Nat /\ i = (i - 1) + 1
        OBVIOUS
      <4> QED
        BY <4>1
    <3>2. Chunk(out, i) \in Seq(Nat)
      BY <3>1, ChunkHolds
    <3> QED
      BY <3>2, EmptySeq
  <2>2. S(n) \in [1 .. n -> Seq(Nat)]
    BY <2>1
  <2> HIDE DEF S
  <2> QED
    BY <2>2, IsASeq, LenProperties
<1>2. k + 1 \in Nat /\ k + 1 \in 1 .. k + 1 /\ \A i \in 1 .. k : i \in 1 .. k + 1
  OBVIOUS
<1>3. S(k + 1)[k + 1] = Frame(out, k, gone) /\ \A i \in 1 .. k : S(k + 1)[i] = S(k)[i]
  BY <1>2 DEF Frame
<1>4. S(0) = <<>>
  OBVIOUS
<1>5. \A n : Arrived(out, n, gone) = FlattenSeq(S(n))
  BY DEF Arrived
<1> HIDE DEF S
<1>6. FlattenSeq(<<>>) = <<>>
  BY DEF FlattenSeq
<1>7. FlattenSeq(S(k)) \in Seq(Nat)
  BY <1>1, FlattenType
<1>8. FlattenSeq(S(k + 1)) = Cat(FlattenSeq(S(k)), S(k + 1)[k + 1])
  <2>1. PICK a \in Seq(Seq(Nat)), b \in Seq(Seq(Nat)) :
           a = S(k) /\ b = S(k + 1) /\ Len(a) = k /\ Len(b) = k + 1
    BY <1>1, <1>2
  <2>2. Len(b) = Len(a) + 1 /\ \A i \in 1 .. Len(a) : b[i] = a[i]
    BY <1>3, <2>1
  <2>3. FlattenSeq(b) = Cat(FlattenSeq(a), b[Len(b)])
    BY <2>2, FlattenOneMore
  <2> QED
    BY <2>1, <2>3
<1> QED
  BY <1>3, <1>4, <1>5, <1>6, <1>7, <1>8

(***************************************************************************)
(* What the laptop has of the first k frames: bytes of theirs, in order,   *)
(* and no fewer than the frames that are gone leave.                       *)
(***************************************************************************)
Reaches(out, k, gone) ==
    /\ Up(Arrived(out, k, gone))
    /\ \A x \in Range(Arrived(out, k, gone)) : \E i \in 1 .. FrameEnd(out, k) : x = out[i]
    /\ Len(Arrived(out, k, gone)) <= FrameEnd(out, k)
    /\ FrameEnd(out, k) <= Len(Arrived(out, k, gone)) + Cardinality(gone \cap 1 .. k) * MAX_PAYLOAD

\* A frame that is gone takes MAX_PAYLOAD bytes with it at most.
LEMMA FrameGone ==
  ASSUME NEW out \in Seq(Nat), NEW k \in Nat, NEW gone, Reaches(out, k, gone), k + 1 \in gone
  PROVE  Reaches(out, k + 1, gone)
<1>1. Arrived(out, k, gone) \in Seq(Nat) /\ Arrived(out, k + 1, gone) = Cat(Arrived(out, k, gone), <<>>)
  BY ArrivedOneMore DEF Frame
<1>2. Arrived(out, k + 1, gone) = Arrived(out, k, gone)
  BY <1>1, CatProperties
<1>3. PICK a \in Seq(Nat) : a = Arrived(out, k, gone) /\ a = Arrived(out, k + 1, gone) /\ Len(a) \in Nat
  BY <1>1, <1>2, LenProperties
<1>4. PICK x \in Nat, y \in Nat : /\ x = FrameEnd(out, k) /\ y = FrameEnd(out, k + 1)
                                  /\ x <= y /\ y <= x + MAX_PAYLOAD
  <2>1. k + 1 \in Nat
    OBVIOUS
  <2> QED
    BY <2>1, FrameEnds
<1>5. /\ Up(a) /\ \A z \in Range(a) : \E i \in 1 .. x : z = out[i]
      /\ Len(a) <= x /\ x <= Len(a) + Cardinality(gone \cap 1 .. k) * MAX_PAYLOAD
  BY <1>3, <1>4 DEF Reaches
<1>6. PICK c \in Nat : c = Cardinality(gone \cap 1 .. k) /\ Cardinality(gone \cap 1 .. k + 1) = c + 1
  <2>1. IsFiniteSet(1 .. k)
    BY FS_Interval
  <2>2. IsFiniteSet(gone \cap 1 .. k) /\ Cardinality(gone \cap 1 .. k) \in Nat
    BY <2>1, FS_Subset, FS_CardinalityType
  <2>3. gone \cap 1 .. k + 1 = (gone \cap 1 .. k) \cup {k + 1} /\ k + 1 \notin gone \cap 1 .. k
    OBVIOUS
  <2>4. PICK g : g = gone \cap 1 .. k
    OBVIOUS
  <2>5. Cardinality(g \cup {k + 1}) = Cardinality(g) + 1
    BY <2>2, <2>3, <2>4, FS_AddElement
  <2> QED
    BY <2>2, <2>3, <2>4, <2>5
<1>7. (c + 1) * MAX_PAYLOAD = c * MAX_PAYLOAD + MAX_PAYLOAD /\ c * MAX_PAYLOAD \in Nat /\ MAX_PAYLOAD \in Nat
  <2>1. MAX_PAYLOAD \in Nat
    BY ConsoleAssumption
  <2>2. (c + 1) * MAX_PAYLOAD = c * MAX_PAYLOAD + 1 * MAX_PAYLOAD /\ 1 * MAX_PAYLOAD = MAX_PAYLOAD
    BY <2>1, Products
  <2> QED
    BY <2>1, <2>2, Products
<1>8. PICK q \in Nat : q = c * MAX_PAYLOAD /\ (c + 1) * MAX_PAYLOAD = q + MAX_PAYLOAD
  BY <1>7
<1>9. Len(a) <= y /\ y <= Len(a) + (q + MAX_PAYLOAD)
  <2>1. Len(a) <= x /\ x <= Len(a) + q
    BY <1>5, <1>6, <1>8
  <2> QED
    BY <1>3, <1>4, <1>7, <2>1
<1>10. \A z \in Range(a) : \E i \in 1 .. y : z = out[i]
  <2>1. \A i \in 1 .. x : i \in 1 .. y
    BY <1>4
  <2> QED
    BY <1>5, <2>1
<1> QED
  BY <1>3, <1>4, <1>5, <1>6, <1>8, <1>9, <1>10 DEF Reaches

\* A frame that arrives adds its bytes, which lie behind those before.
LEMMA FrameArrives ==
  ASSUME NEW out \in Seq(Nat), Up(out), NEW k \in Nat, NEW gone, Reaches(out, k, gone), k + 1 \notin gone
  PROVE  Reaches(out, k + 1, gone)
<1>1. PICK a \in Seq(Nat), t \in Seq(Nat) :
         /\ a = Arrived(out, k, gone) /\ t = Chunk(out, k + 1)
         /\ Arrived(out, k + 1, gone) = Cat(a, t)
         /\ Len(a) \in Nat /\ Len(t) \in Nat
  <2>1. /\ Arrived(out, k, gone) \in Seq(Nat) /\ Chunk(out, k + 1) \in Seq(Nat)
        /\ Arrived(out, k + 1, gone) = Cat(Arrived(out, k, gone), Chunk(out, k + 1))
    BY ArrivedOneMore, ChunkHolds DEF Frame
  <2> QED
    BY <2>1, LenProperties
<1>2. PICK x \in Nat, y \in Nat : /\ x = FrameEnd(out, k) /\ y = FrameEnd(out, k + 1)
                                  /\ x <= y /\ y <= Len(out)
  <2>1. k + 1 \in Nat
    OBVIOUS
  <2> QED
    BY <2>1, FrameEnds
<1>3. Len(t) = y - x /\ \A i \in 1 .. y - x : t[i] = out[x + i]
  <2>1. /\ Len(Chunk(out, k + 1)) = FrameEnd(out, k + 1) - FrameEnd(out, k)
        /\ \A i \in 1 .. FrameEnd(out, k + 1) - FrameEnd(out, k) :
             Chunk(out, k + 1)[i] = out[FrameEnd(out, k) + i]
    BY ChunkHolds
  <2> QED
    BY <1>1, <1>2, <2>1, Zenon
<1>a. PICK l \in Nat : l = Len(out) /\ y <= l
  BY <1>2, LenProperties
<1>4. /\ Up(a) /\ \A z \in Range(a) : \E i \in 1 .. x : z = out[i]
      /\ Len(a) <= x /\ x <= Len(a) + Cardinality(gone \cap 1 .. k) * MAX_PAYLOAD
  BY <1>1, <1>2 DEF Reaches
<1>5. \A z \in Range(t) : \E i \in x + 1 .. y : z = out[i]
  <2>1. DOMAIN t = 1 .. y - x
    BY <1>3, LenProperties
  <2>2. ASSUME NEW i \in 1 .. y - x PROVE x + i \in x + 1 .. y
    BY <1>a
  <2> QED
    BY <1>3, <2>1, <2>2 DEF Range
<1>6. \A i, j \in 1 .. Len(out) : i < j => out[i] < out[j]
  BY DEF Up
<1>7. Up(t)
  <2> SUFFICES ASSUME NEW i \in 1 .. y - x, NEW j \in 1 .. y - x, i < j PROVE t[i] < t[j]
    BY <1>3 DEF Up
  <2>1. x + i \in 1 .. l /\ x + j \in 1 .. l /\ x + i < x + j
    BY <1>a
  <2> QED
    BY <1>3, <1>6, <1>a, <2>1
<1>8. Below(a, t)
  <2> SUFFICES ASSUME NEW z \in Range(a), NEW w \in Range(t) PROVE z < w
    BY DEF Below
  <2>1. PICK i \in 1 .. x, j \in x + 1 .. y : z = out[i] /\ w = out[j]
    BY <1>4, <1>5
  <2>2. x <= y /\ y <= l
    BY <1>2, <1>a
  <2>3. i \in 1 .. l /\ j \in 1 .. l /\ i < j
    BY <2>2
  <2> QED
    BY <1>6, <1>a, <2>1, <2>3
<1>9. PICK b \in Seq(Nat) : b = Cat(a, t) /\ Up(b) /\ Range(b) = Range(a) \cup Range(t)
  <2>1. Cat(a, t) \in Seq(Nat)
    BY CatProperties
  <2>2. Up(Cat(a, t))
    BY <1>4, <1>7, <1>8, UpCat
  <2>3. Range(Cat(a, t)) = Range(a) \cup Range(t)
    BY RangeCat
  <2> QED
    BY <2>1, <2>2, <2>3
<1>10. Len(b) = Len(a) + Len(t)
  BY <1>9, ConcatProperties DEF Cat
<1>11. \A z \in Range(b) : \E i \in 1 .. y : z = out[i]
  <2>1. (\A i \in 1 .. x : i \in 1 .. y) /\ (\A i \in x + 1 .. y : i \in 1 .. y)
    BY <1>2
  <2> QED
    BY <1>4, <1>5, <1>9, <2>1
<1>12. gone \cap 1 .. k + 1 = gone \cap 1 .. k
  OBVIOUS
<1>13. PICK q \in Nat : q = Cardinality(gone \cap 1 .. k) * MAX_PAYLOAD
  <2>1. IsFiniteSet(gone \cap 1 .. k)
    <3>1. IsFiniteSet(1 .. k)
      BY FS_Interval
    <3> QED
      BY <3>1, FS_Subset
  <2> QED
    BY <2>1, FS_CardinalityType, Products, ConsoleAssumption
<1>14. Len(b) <= y /\ y <= Len(b) + q
  <2>1. PICK m \in Nat : m = Len(a)
    BY <1>1
  <2>2. m <= x /\ x <= m + q /\ Len(b) = m + (y - x)
    BY <1>3, <1>4, <1>10, <1>13, <2>1
  <2>3. x <= y
    BY <1>2
  <2>4. m + (y - x) <= y /\ y <= m + (y - x) + q
    BY <2>2, <2>3
  <2> QED
    BY <2>2, <2>4
<1> QED
  BY <1>1, <1>2, <1>9, <1>11, <1>12, <1>13, <1>14 DEF Reaches

\* So it is for any number of frames, by induction.
LEMMA SendArrives ==
  ASSUME NEW out \in Seq(Nat), Up(out), NEW gone
  PROVE  \A k \in Nat : Reaches(out, k, gone)
<1> DEFINE T == {k \in Nat : Reaches(out, k, gone)}
<1>1. Reaches(out, 0, gone)
  <2>1. Arrived(out, 0, gone) = <<>> /\ FrameEnd(out, 0) = 0
    BY ArrivedOneMore, FrameEnds
  <2>2. Up(<<>>) /\ Range(<<>>) = {} /\ Len(<<>>) = 0
    BY EmptySeq DEF Up, Range
  <2>3. gone \cap 1 .. 0 = {}
    OBVIOUS
  <2>4. Cardinality(gone \cap 1 .. 0) * MAX_PAYLOAD = 0
    <3>1. Cardinality({}) = 0 /\ MAX_PAYLOAD \in Nat
      BY FS_EmptySet, ConsoleAssumption
    <3> QED
      BY <2>3, <3>1, Products
  <2> QED
    BY <2>1, <2>2, <2>4 DEF Reaches
<1>2. ASSUME NEW k \in T PROVE k + 1 \in T
  <2>1. k \in Nat /\ k + 1 \in Nat /\ Reaches(out, k, gone)
    OBVIOUS
  <2>2. Reaches(out, k + 1, gone)
    BY <2>1, FrameGone, FrameArrives
  <2> QED
    BY <2>1, <2>2
<1>3. T \in SUBSET Nat /\ 0 \in T
  BY <1>1
<1> HIDE DEF T
<1>4. T = Nat
  BY <1>2, <1>3, SetInduction
<1> QED
  BY <1>4 DEF T

\* A send: what is missing in the end is a sinkful when it failed, and a frame for each one gone.
LEMMA ExplainedSend ==
  ASSUME NEW p \in Nat, NEW d \in Nat, NEW t \in Nat, NEW l \in Nat, NEW f \in Nat, NEW u \in Nat,
         Explained(p, d, t + l, f, u), l <= MIRROR_CAP,
         NEW a \in Nat, NEW e \in Nat, NEW c \in Nat, NEW g \in {0, 1},
         a <= e, e <= l, e <= a + c * MAX_PAYLOAD, g = 0 => e = l
  PROVE  Explained(p, d, t + a, f + g, u + c)
<1>1. MIRROR_CAP \in Nat /\ MAX_PAYLOAD \in Nat /\ g \in Nat
  BY ConsoleAssumption
<1>2. PICK x \in Nat, y \in Nat, z \in Nat, w \in Nat :
         /\ x = f * MIRROR_CAP /\ y = u * MAX_PAYLOAD
         /\ z = c * MAX_PAYLOAD /\ w = g * MIRROR_CAP
  BY <1>1, Products
<1>3. (f + g) * MIRROR_CAP = x + w /\ (u + c) * MAX_PAYLOAD = y + z
  BY <1>1, <1>2, Products
<1>4. g = 0 \/ w = MIRROR_CAP
  BY <1>1, <1>2, Products
<1>5. d + (t + l) <= p /\ p <= d + (t + l) + x + y
  BY <1>2 DEF Explained
<1>6. e <= a + z
  BY <1>2
<1>7. l <= a + w + z
  BY <1>1, <1>2, <1>4, <1>6
<1>8. d + (t + a) <= p
  BY <1>5
<1>9. p <= d + (t + a) + (x + w) + (y + z)
  BY <1>5, <1>7
<1> QED
  BY <1>3, <1>8, <1>9 DEF Explained

\* Sending what was gathered keeps the transcript true, whatever becomes of the frames.
LEMMA MirrorOK ==
  ASSUME OutInv, NEW out \in Seq(Nat), Len(out) <= MIRROR_CAP, Mirror(out),
         Up(Cat(transcript, out)), printed' \in Nat, dropped' \in Nat,
         \A x \in Range(Cat(transcript, out)) : x <= printed',
         Explained(printed', dropped', Len(transcript) + Len(out), mirror_faults, unheard)
  PROVE  OutInv'
<1>0. /\ transcript \in Seq(Nat) /\ mirror_faults \in Nat /\ unheard \in Nat /\ MIRROR_CAP \in Nat
      /\ Len(transcript) \in Nat /\ Len(out) \in Nat
  BY ConsoleAssumption, LenProperties DEF OutInv, OutType
<1>1. buf' = <<>> /\ buf' \in Seq(Nat) /\ Len(buf') = 0
  BY EmptySeq DEF Mirror
<1>2. PICK n \in Nat, k \in Nat, gone \in SUBSET Nat :
         /\ Len(out) <= n * MAX_PAYLOAD
         /\ k <= n /\ gone \subseteq 1 .. k
         /\ transcript' = Cat(transcript, Arrived(out, k, gone))
         /\ unheard' = unheard + Cardinality(gone)
         /\ mirror_faults' = mirror_faults + (IF k < n THEN 1 ELSE 0)
  <2>1. PICK n \in 0 .. Len(out) :
           /\ Len(out) \in (n - 1) * MAX_PAYLOAD + 1 .. n * MAX_PAYLOAD
           /\ \E k \in 0 .. n, gone \in SUBSET (1 .. n) :
                /\ gone \subseteq 1 .. k
                /\ transcript' = Cat(transcript, Arrived(out, k, gone))
                /\ unheard' = unheard + Cardinality(gone)
                /\ mirror_faults' = mirror_faults + (IF k < n THEN 1 ELSE 0)
    BY Zenon DEF Mirror, Cat
  <2>2. n \in Nat /\ Len(out) <= n * MAX_PAYLOAD
    BY <1>0, <2>1
  <2>3. PICK k \in 0 .. n, gone \in SUBSET (1 .. n) :
           /\ gone \subseteq 1 .. k
           /\ transcript' = Cat(transcript, Arrived(out, k, gone))
           /\ unheard' = unheard + Cardinality(gone)
           /\ mirror_faults' = mirror_faults + (IF k < n THEN 1 ELSE 0)
    BY <2>1, Zenon
  <2>4. k \in Nat /\ k <= n /\ gone \in SUBSET Nat
    BY <2>2
  <2> QED
    BY <2>2, <2>3, <2>4, Zenon
<1>3. k \in Nat /\ k <= n
  BY <1>2
<1>4. PICK a \in Seq(Nat) : a = Arrived(out, k, gone) /\ Len(a) \in Nat
  <2>1. Arrived(out, k, gone) \in Seq(Nat)
    BY <1>3, ArrivedOneMore
  <2> QED
    BY <2>1, LenProperties
<1>5. PICK c \in Nat : c = Cardinality(gone)
  <2>1. IsFiniteSet(1 .. k)
    BY FS_Interval
  <2>2. IsFiniteSet(gone)
    BY <1>2, <2>1, FS_Subset
  <2> QED
    BY <2>2, FS_CardinalityType
<1>6. Up(transcript) /\ Up(out) /\ Below(transcript, out)
  BY <1>0, UpCat
<1>7. PICK e \in Nat : e = FrameEnd(out, k) /\ e <= Len(out) /\ (k = n => e = Len(out))
  BY <1>2, <1>3, FrameEnds
<1>8. /\ Up(a) /\ \A x \in Range(a) : \E i \in 1 .. e : x = out[i]
      /\ Len(a) <= e /\ e <= Len(a) + c * MAX_PAYLOAD
  <2>1. Reaches(out, k, gone)
    BY <1>3, <1>6, SendArrives
  <2>2. gone \cap 1 .. k = gone
    BY <1>2
  <2> QED
    BY <1>4, <1>5, <1>7, <2>1, <2>2, Zenon DEF Reaches
<1>9. Range(a) \subseteq Range(out)
  <2>1. DOMAIN out = 1 .. Len(out)
    BY LenProperties
  <2>2. \A i \in 1 .. e : i \in 1 .. Len(out)
    BY <1>0, <1>7
  <2> QED
    BY <1>8, <2>1, <2>2 DEF Range
<1>10. /\ Cat(transcript, a) \in Seq(Nat) /\ Up(Cat(transcript, a))
       /\ Range(Cat(transcript, a)) \subseteq Range(Cat(transcript, out))
  <2>1. Below(transcript, a)
    BY <1>6, <1>9 DEF Below
  <2>2. Cat(transcript, a) \in Seq(Nat)
    BY <1>0, CatProperties
  <2>3. Up(Cat(transcript, a))
    BY <1>0, <1>6, <1>8, <2>1, UpCat
  <2>4. /\ Range(Cat(transcript, a)) = Range(transcript) \cup Range(a)
        /\ Range(Cat(transcript, out)) = Range(transcript) \cup Range(out)
    BY <1>0, RangeCat
  <2> QED
    BY <1>9, <2>2, <2>3, <2>4
<1>11. /\ transcript' = Cat(transcript, a) /\ transcript' \in Seq(Nat)
       /\ Len(transcript') = Len(transcript) + Len(a)
  <2>1. Len(Cat(transcript, a)) = Len(transcript) + Len(a)
    BY <1>0, ConcatProperties DEF Cat
  <2> QED
    BY <1>2, <1>4, <1>10, <2>1
<1>12. Sent' = Cat(transcript, a)
  <2>1. Cat(Cat(transcript, a), <<>>) = Cat(transcript, a)
    BY <1>10, CatProperties
  <2> QED
    BY <1>1, <1>11, <2>1 DEF Sent
<1>13. OutInOrder'
  BY <1>10, <1>12 DEF OutInOrder
<1>14. PICK g \in {0, 1} : g = (IF k < n THEN 1 ELSE 0) /\ (g = 0 => k = n)
  BY <1>3
<1>15. mirror_faults' = mirror_faults + g /\ unheard' = unheard + c
  BY <1>2, <1>5, <1>14
<1>16. OutType'
  BY <1>0, <1>1, <1>11, <1>15 DEF OutType
<1>17. OutCounted'
  <2>1. PICK t \in Nat, l \in Nat, m \in Nat : t = Len(transcript) /\ l = Len(out) /\ m = Len(a)
    BY <1>0, <1>4
  <2>2. Explained(printed', dropped', t + l, mirror_faults, unheard) /\ l <= MIRROR_CAP
    BY <2>1
  <2>3. m <= e /\ e <= l /\ e <= m + c * MAX_PAYLOAD /\ (g = 0 => e = l)
    BY <1>7, <1>8, <1>14, <2>1
  <2>4. Explained(printed', dropped', t + m, mirror_faults + g, unheard + c)
    BY <1>0, <2>2, <2>3, ExplainedSend
  <2>5. Len(transcript') + Len(buf') = t + m
    BY <1>1, <1>11, <2>1
  <2> QED
    BY <1>15, <2>4, <2>5 DEF OutCounted
<1> QED
  BY <1>1, <1>13, <1>16, <1>17 DEF OutInv, NothingLeft

\* Nothing is printed at first.
LEMMA OutInitInv == ASSUME Init PROVE OutInv
<1>1. <<>> \in Seq(Nat) /\ Len(<<>>) = 0 /\ Range(<<>>) = {}
  BY EmptySeq DEF Range
<1>2. Cat(<<>>, <<>>) = <<>>
  BY CatProperties
<1>3. Sent = <<>>
  BY <1>2 DEF Init, Sent
<1>4. OutType /\ OutInOrder /\ NothingLeft
  BY <1>1, <1>3, ConsoleAssumption DEF Init, OutType, OutInOrder, NothingLeft, Up
<1>5. OutCounted
  <2>1. MIRROR_CAP \in Nat /\ MAX_PAYLOAD \in Nat
    BY ConsoleAssumption
  <2>2. 0 * MIRROR_CAP = 0 /\ 0 * MAX_PAYLOAD = 0
    BY <2>1, Products
  <2>3. Explained(0, 0, 0 + 0, 0, 0)
    BY <2>2 DEF Explained
  <2> QED
    BY <1>1, <2>3 DEF Init, OutCounted
<1> QED
  BY <1>4, <1>5 DEF OutInv

\* A step that leaves the output alone, and does not end the run.
LEMMA OutElsewhere ==
  ASSUME OutInv, UNCHANGED mirrorVars, bpc' = "ended" => bpc = "ended"
  PROVE  OutInv'
BY DEF OutInv, OutType, OutInOrder, OutCounted, NothingLeft, Sent, mirrorVars

\* Every step preserves the invariant of the output.
LEMMA OutNextInv == ASSUME OutInv, [Next]_vars PROVE OutInv'
<1>0. /\ transcript \in Seq(Nat) /\ buf \in Seq(Nat) /\ printed \in Nat /\ dropped \in Nat
      /\ mirror_faults \in Nat /\ unheard \in Nat /\ Len(buf) <= MIRROR_CAP
  BY DEF OutInv, OutType
<1>1. CASE StoreTHR
  <2>1. PICK n \in {0, 1} : /\ printed' = printed + n
                            /\ buf' = Gathered(n)
                            /\ dropped' = dropped + n - (Len(buf') - Len(buf))
    BY <1>1 DEF StoreTHR
  <2>2. UNCHANGED <<mirror_faults, transcript, unheard, bpc>> /\ bpc # "ended"
    BY <1>1 DEF StoreTHR, Running, mainVars
  <2>3. /\ buf' \in Seq(Nat) /\ Len(buf') <= MIRROR_CAP
        /\ Up(Cat(transcript, buf'))
        /\ \A x \in Range(Cat(transcript, buf')) : x <= printed'
        /\ dropped' \in Nat
        /\ Explained(printed', dropped', Len(transcript) + Len(buf'), mirror_faults, unheard)
    BY <2>1, GatheredOK
  <2>4. printed' \in Nat
    BY <1>0, <2>1
  <2> QED
    BY <1>0, <2>2, <2>3, <2>4 DEF OutInv, OutType, OutInOrder, OutCounted, NothingLeft, Sent
<1>2. CASE Service
  <2>1. Mirror(buf) /\ UNCHANGED <<printed, dropped>>
    BY <1>2 DEF Service
  <2>2. /\ Up(Cat(transcript, buf)) /\ \A x \in Range(Cat(transcript, buf)) : x <= printed'
        /\ Explained(printed', dropped', Len(transcript) + Len(buf), mirror_faults, unheard)
    BY <2>1 DEF OutInv, OutInOrder, OutCounted, Sent
  <2> QED
    BY <1>0, <2>1, <2>2, MirrorOK
<1>3. CASE RunEnds
  <2>1. PICK n \in {0, 1} : /\ printed' = printed + n
                            /\ dropped' = dropped + n - (Len(Gathered(n)) - Len(buf))
                            /\ Mirror(Gathered(n))
    BY <1>3 DEF RunEnds
  <2>2. printed' \in Nat
    BY <1>0, <2>1
  <2>3. PICK g : g = Gathered(n)
    OBVIOUS
  <2>4. /\ g \in Seq(Nat) /\ Len(g) <= MIRROR_CAP
        /\ Up(Cat(transcript, g))
        /\ \A x \in Range(Cat(transcript, g)) : x <= printed'
        /\ dropped' \in Nat
        /\ Explained(printed', dropped', Len(transcript) + Len(g), mirror_faults, unheard)
    BY <2>1, <2>3, GatheredOK
  <2> QED
    BY <2>1, <2>2, <2>3, <2>4, MirrorOK
<1>4. CASE Keyboard \/ InputEof \/ PageLoop \/ Ask \/ Absorb \/ GiveUp
  <2>1. UNCHANGED mirrorVars /\ UNCHANGED bpc
    BY <1>4
    DEF Keyboard, ReadKeys, SendKeys, SendKeysRest, Exit, InputEof, PageLoop, ReadRequest, SendReply,
        SendReplyRest, Write, Ask, Absorb, GiveUp, badgeVars, mainVars
  <2> QED
    BY <2>1, OutElsewhere
<1>5. CASE \/ DriverReads \/ SetDlab \/ ReadDivisor \/ ClearDlab \/ SliceEnds
           \/ \E e \in Masks : StoreIER(e)
  <2>1. UNCHANGED mirrorVars /\ (bpc' = "ended" => bpc = "ended")
    BY <1>5 DEF DriverReads, SetDlab, ReadDivisor, ClearDlab, StoreIER, SliceEnds, mainVars
  <2> QED
    BY <2>1, OutElsewhere
<1>6. CASE UNCHANGED vars
  BY <1>6, OutElsewhere DEF vars, badgeVars, mainVars
<1> QED
  BY <1>1, <1>2, <1>3, <1>4, <1>5, <1>6 DEF Next

(***************************************************************************)
(* For every script, sizes of the sink and of a frame, fate of the frames  *)
(* and interleaving: the laptop's transcript is the guest's output in      *)
(* order, no more of it is missing than mirror_faults, the sink's count    *)
(* and the frames that went astray explain, and a run that has ended left  *)
(* nothing in the sink.                                                    *)
(***************************************************************************)
THEOREM TranscriptIsTrue == Spec => []TranscriptTrue
<1>1. Init => OutInv
  BY OutInitInv
<1>2. OutInv /\ [Next]_vars => OutInv'
  BY OutNextInv
<1>3. OutInv => TranscriptTrue
  <2> SUFFICES ASSUME OutInv PROVE TranscriptTrue
    OBVIOUS
  <2>1. Len(transcript \o buf) = Len(transcript) + Len(buf)
    BY ConcatProperties DEF OutInv, OutType
  <2>2. \A j, k \in 1 .. Len(transcript \o buf) : j < k => (transcript \o buf)[j] < (transcript \o buf)[k]
    BY DEF OutInv, OutInOrder, Sent, Up, Cat
  <2>3. printed - dropped - Len(transcript \o buf) \in 0 .. mirror_faults * MIRROR_CAP + unheard * MAX_PAYLOAD
    <3>1. PICK l \in Nat : l = Len(transcript \o buf) /\ l = Len(transcript) + Len(buf)
      BY <2>1, LenProperties DEF OutInv, OutType
    <3>2. PICK x \in Nat, y \in Nat : x = mirror_faults * MIRROR_CAP /\ y = unheard * MAX_PAYLOAD
      BY ConsoleAssumption, Products DEF OutInv, OutType
    <3>3. printed \in Nat /\ dropped \in Nat
      BY DEF OutInv, OutType
    <3>4. dropped + l <= printed /\ printed <= dropped + l + x + y
      BY <3>1, <3>2 DEF OutInv, OutCounted, Explained
    <3>5. printed - dropped - l \in 0 .. x + y
      BY <3>3, <3>4
    <3> QED
      BY <3>1, <3>2, <3>5
  <2> QED
    BY <2>2, <2>3, Zenon DEF TranscriptTrue, Ended, OutInv, NothingLeft
<1> QED
  BY <1>1, <1>2, <1>3, PTL DEF Spec

-------------------------------------------------------------------------------
(* Keys: what the operator meant. *)

Keys == {"KEY", "ESCAPE", "QUIT"}

\* j is the last key before i that is no ESCAPE, or 0.
Stops(j, i) == /\ j \in 0 .. i - 1
               /\ j = 0 \/ typed[j] # "ESCAPE"
               /\ \A l \in j + 1 .. i - 1 : typed[l] = "ESCAPE"

\* There is at most one such key,
LEMMA StopsOnce ==
  ASSUME NEW i \in Nat \ {0}, NEW j, NEW k, Stops(j, i), Stops(k, i)
  PROVE  j = k
<1>1. j \in 0 .. i - 1 /\ k \in 0 .. i - 1 /\ j \in Nat /\ k \in Nat
  BY DEF Stops
<1>2. CASE j < k
  <2>1. k \in j + 1 .. i - 1 /\ k # 0
    BY <1>1, <1>2
  <2> QED
    BY <2>1 DEF Stops
<1>3. CASE k < j
  <2>1. j \in k + 1 .. i - 1 /\ j # 0
    BY <1>1, <1>3
  <2> QED
    BY <2>1 DEF Stops
<1> QED
  BY <1>1, <1>2, <1>3

\* One key more.
LEMMA StopsNext ==
  ASSUME NEW i \in Nat \ {0}, NEW j, Stops(j, i)
  PROVE  /\ typed[i] = "ESCAPE" => Stops(j, i + 1)
         /\ typed[i] # "ESCAPE" => Stops(i, i + 1)
<1>1. j \in 0 .. i - 1
  BY DEF Stops
<1>2. /\ j \in 0 .. (i + 1) - 1 /\ i \in 0 .. (i + 1) - 1
      /\ \A l \in j + 1 .. (i + 1) - 1 : l \in j + 1 .. i - 1 \/ l = i
      /\ (i + 1 .. (i + 1) - 1) = {}
  BY <1>1
<1> QED
  BY <1>2 DEF Stops

\* and there is one,
LEMMA StopsExist == \A i \in Nat \ {0} : \E j : Stops(j, i)
<1> DEFINE T == {n \in Nat : \E j : Stops(j, n + 1)}
<1>1. 0 \in T
  <2>1. 0 \in 0 .. (0 + 1) - 1 /\ (0 + 1 .. (0 + 1) - 1) = {}
    OBVIOUS
  <2>2. Stops(0, 0 + 1)
    BY <2>1 DEF Stops
  <2> QED
    BY <2>2
<1>2. ASSUME NEW n \in T PROVE n + 1 \in T
  <2>1. PICK j : Stops(j, n + 1)
    OBVIOUS
  <2>2. PICK i \in Nat \ {0} : i = n + 1
    OBVIOUS
  <2>3. \E k : Stops(k, i + 1)
    BY <2>1, <2>2, StopsNext
  <2> QED
    BY <2>2, <2>3
<1>3. T \in SUBSET Nat
  OBVIOUS
<1> HIDE DEF T
<1>4. T = Nat
  BY <1>1, <1>2, <1>3, SetInduction
<1> SUFFICES ASSUME NEW i \in Nat \ {0} PROVE \E j : Stops(j, i)
  OBVIOUS
<1>5. PICK n \in Nat : n + 1 = i
  <2>1. i - 1 \in Nat /\ (i - 1) + 1 = i
    OBVIOUS
  <2> QED
    BY <2>1
<1> QED
  BY <1>4, <1>5 DEF T

\* so that EscapedKey is decided by it.
LEMMA EscapedIs ==
  ASSUME NEW i \in Nat \ {0}, NEW j, Stops(j, i)
  PROVE  EscapedKey(i) <=> (i - 1 - j) % 2 = 1
<1> DEFINE stop == CHOOSE l \in 0 .. i - 1 : Stops(l, i)
<1>1. EscapedKey(i) <=> (i - 1 - stop) % 2 = 1
  <2>1. stop = CHOOSE l \in 0 .. i - 1 :
                 /\ l = 0 \/ typed[l] # "ESCAPE"
                 /\ \A k \in l + 1 .. i - 1 : typed[k] = "ESCAPE"
    <3>1. \A l \in 0 .. i - 1 : Stops(l, i) <=> /\ l = 0 \/ typed[l] # "ESCAPE"
                                               /\ \A k \in l + 1 .. i - 1 : typed[k] = "ESCAPE"
      BY DEF Stops
    <3> QED
      BY <3>1
  <2> HIDE DEF stop
  <2> QED
    BY <2>1, Zenon DEF EscapedKey
<1>2. Stops(stop, i)
  <2>1. j \in 0 .. i - 1
    BY DEF Stops
  <2> QED
    BY <2>1
<1>3. stop = j
  BY <1>2, StopsOnce
<1> QED
  BY <1>1, <1>3

\* A key is escaped when the key before it is an unescaped ESCAPE.
LEMMA EscapedNext ==
  /\ ~EscapedKey(1)
  /\ \A i \in Nat \ {0} : EscapedKey(i + 1) <=> typed[i] = "ESCAPE" /\ ~EscapedKey(i)
<1>1. ~EscapedKey(1)
  <2>1. 0 \in 0 .. 1 - 1 /\ (0 + 1 .. 1 - 1) = {} /\ ~((1 - 1 - 0) % 2 = 1)
    OBVIOUS
  <2>2. Stops(0, 1)
    BY <2>1 DEF Stops
  <2> QED
    BY <2>1, <2>2, EscapedIs
<1>2. ASSUME NEW i \in Nat \ {0}
      PROVE  EscapedKey(i + 1) <=> typed[i] = "ESCAPE" /\ ~EscapedKey(i)
  <2>1. PICK j : Stops(j, i)
    BY StopsExist
  <2>2. j \in 0 .. i - 1
    BY <2>1 DEF Stops
  <2>3. PICK n \in Nat \ {0} : n = i + 1
    OBVIOUS
  <2>4. EscapedKey(i) <=> (i - 1 - j) % 2 = 1
    BY <2>1, EscapedIs
  <2>5. CASE typed[i] = "ESCAPE"
    <3>1. EscapedKey(n) <=> (n - 1 - j) % 2 = 1
      BY <2>1, <2>3, <2>5, StopsNext, EscapedIs
    <3>2. (n - 1 - j) % 2 = 1 <=> ~((i - 1 - j) % 2 = 1)
      BY <2>2, <2>3
    <3> QED
      BY <2>3, <2>4, <2>5, <3>1, <3>2
  <2>6. CASE typed[i] # "ESCAPE"
    <3>1. EscapedKey(n) <=> (n - 1 - i) % 2 = 1
      BY <2>1, <2>3, <2>6, StopsNext, EscapedIs
    <3>2. ~((n - 1 - i) % 2 = 1)
      BY <2>3
    <3> QED
      BY <2>3, <2>6, <3>1, <3>2
  <2> QED
    BY <2>5, <2>6
<1> QED
  BY <1>1, <1>2

\* No unescaped QUIT up to i; the keys up to n that are for the guest.
NoQuit(i)  == \A j \in 1 .. i : typed[j] = "QUIT" => EscapedKey(j)
MeantIn(m, n) == {i \in m + 1 .. n : ForGuest(i)}

\* What scanning the keys after nread, as far as m, has found.
ScanOK(s, m) == /\ s \in [out : Seq(Nat), escaped : BOOLEAN, quit : BOOLEAN]
                /\ Up(s.out) /\ Range(s.out) = MeantIn(nread, m)
                /\ s.quit => ~NoQuit(m)
                /\ ~s.quit => NoQuit(m) /\ (s.escaped <=> EscapedKey(m + 1))

\* One key more is scanned.
LEMMA ScanStep ==
  ASSUME NEW m \in Nat, nread \in Nat, nread <= m, typed[m + 1] \in Keys,
         NEW s, ScanOK(s, m)
  PROVE  ScanOK(Scan(s, m + 1), m + 1)
<1> DEFINE i == m + 1
           r == Scan(s, i)
<1>0. i \in Nat \ {0} /\ i \in 1 .. i
  OBVIOUS
<1>1. /\ s \in [out : Seq(Nat), escaped : BOOLEAN, quit : BOOLEAN]
      /\ Up(s.out) /\ Range(s.out) = MeantIn(nread, m)
      /\ s.quit => ~NoQuit(m)
      /\ ~s.quit => NoQuit(m) /\ (s.escaped <=> EscapedKey(i))
  BY DEF ScanOK
<1>2. NoQuit(i) <=> NoQuit(m) /\ (typed[i] = "QUIT" => EscapedKey(i))
  <2>1. \A j : j \in 1 .. i <=> j \in 1 .. m \/ j = i
    OBVIOUS
  <2> HIDE DEF i
  <2> QED
    BY <2>1 DEF NoQuit
<1>3. ForGuest(i) <=> (EscapedKey(i) \/ typed[i] = "KEY") /\ NoQuit(m)
  <2>1. i - 1 = m
    OBVIOUS
  <2> HIDE DEF i
  <2> QED
    BY <2>1 DEF ForGuest, NoQuit
<1>4. MeantIn(nread, i) = MeantIn(nread, m) \cup (IF ForGuest(i) THEN {i} ELSE {})
  <2>1. \A j : j \in nread + 1 .. i <=> j \in nread + 1 .. m \/ j = i
    OBVIOUS
  <2> HIDE DEF i
  <2> QED
    BY <2>1 DEF MeantIn
<1>5. EscapedKey(i + 1) <=> typed[i] = "ESCAPE" /\ ~EscapedKey(i)
  <2> HIDE DEF i
  <2> QED
    BY <1>0, EscapedNext
<1>6. typed[i] \in Keys
  OBVIOUS
<1>7. \A y \in Range(s.out) : y < i /\ y \in Nat
  BY <1>1 DEF MeantIn
<1> HIDE DEF i
<1>8. CASE s.quit
  <2>1. r = s
    BY <1>8 DEF Scan
  <2>2. ~ForGuest(i) /\ ~NoQuit(i)
    BY <1>1, <1>2, <1>3, <1>8
  <2> QED
    BY <1>1, <1>4, <1>8, <2>1, <2>2 DEF ScanOK, i
<1>9. CASE ~s.quit /\ ~s.escaped /\ typed[i] = "ESCAPE"
  <2>1. r = [s EXCEPT !.escaped = TRUE]
    BY <1>9 DEF Scan
  <2>2. r \in [out : Seq(Nat), escaped : BOOLEAN, quit : BOOLEAN] /\ r.out = s.out /\ r.escaped /\ ~r.quit
    BY <1>1, <1>9, <2>1
  <2>3. ~ForGuest(i) /\ NoQuit(i) /\ EscapedKey(i + 1)
    BY <1>1, <1>2, <1>3, <1>5, <1>9
  <2>4. MeantIn(nread, i) = MeantIn(nread, m)
    BY <1>4, <2>3
  <2> QED
    BY <1>1, <2>2, <2>3, <2>4 DEF ScanOK, i
<1>10. CASE ~s.quit /\ ~s.escaped /\ typed[i] = "QUIT"
  <2>1. r = [s EXCEPT !.quit = TRUE]
    BY <1>10 DEF Scan
  <2>2. r \in [out : Seq(Nat), escaped : BOOLEAN, quit : BOOLEAN] /\ r.out = s.out /\ r.quit
    BY <1>1, <1>10, <2>1
  <2>3. ~ForGuest(i) /\ ~NoQuit(i)
    BY <1>1, <1>2, <1>3, <1>10
  <2>4. MeantIn(nread, i) = MeantIn(nread, m)
    BY <1>4, <2>3
  <2> QED
    BY <1>1, <2>2, <2>3, <2>4 DEF ScanOK, i
<1>11. CASE ~s.quit /\ (s.escaped \/ typed[i] = "KEY")
  <2>1. r = [s EXCEPT !.out = Append(s.out, i), !.escaped = FALSE]
    BY <1>11 DEF Scan
  <2>2. s.out \in Seq(Nat)
    BY <1>1
  <2>3. PICK o \in Seq(Nat) : o = Append(s.out, i) /\ Up(o) /\ Range(o) = Range(s.out) \cup {i}
    BY <1>0, <1>1, <1>7, <2>2, UpAppend
  <2>4. r = [s EXCEPT !.out = o, !.escaped = FALSE]
    BY <2>1, <2>3
  <2>5. r \in [out : Seq(Nat), escaped : BOOLEAN, quit : BOOLEAN] /\ r.out = o /\ ~r.escaped /\ ~r.quit
    BY <1>1, <1>11, <2>4
  <2>6. ForGuest(i) /\ NoQuit(i) /\ ~EscapedKey(i + 1)
    BY <1>1, <1>2, <1>3, <1>5, <1>11
  <2>7. MeantIn(nread, i) = Range(o)
    BY <1>1, <1>4, <2>3, <2>6
  <2> QED
    BY <2>3, <2>5, <2>6, <2>7 DEF ScanOK, i
<1> QED
  BY <1>1, <1>6, <1>8, <1>9, <1>10, <1>11 DEF Keys

\* g scans the keys of a read of n, one after the other.
NothingScanned == [out |-> <<>>, escaped |-> escaped, quit |-> FALSE]
Scans(g, n) == g = [j \in 0 .. n |-> IF j = 0 THEN NothingScanned ELSE Scan(g[j - 1], nread + j)]

\* The scan's recursion has a solution.
LEMMA ScansExist == \A n \in Nat : \E g : Scans(g, n)
<1> DEFINE T == {n \in Nat : \E g : Scans(g, n)}
<1>1. 0 \in T
  <2> DEFINE g == [j \in 0 .. 0 |-> NothingScanned]
  <2>1. \A j \in 0 .. 0 : j = 0
    OBVIOUS
  <2>2. Scans(g, 0)
    BY <2>1 DEF Scans
  <2> QED
    BY <2>2
<1>2. ASSUME NEW n \in T PROVE n + 1 \in T
  <2>a. n \in Nat
    OBVIOUS
  <2>1. PICK g : Scans(g, n)
    OBVIOUS
  <2> HIDE DEF T
  <2>2. PICK z : z = Scan(g[n], nread + (n + 1))
    OBVIOUS
  <2> DEFINE h == [j \in 0 .. n + 1 |-> IF j = n + 1 THEN z ELSE g[j]]
  <2>3. \A j \in 0 .. n : g[j] = IF j = 0 THEN NothingScanned ELSE Scan(g[j - 1], nread + j)
    BY <2>1 DEF Scans
  <2>4. \A j \in 0 .. n + 1 : h[j] = IF j = 0 THEN NothingScanned ELSE Scan(h[j - 1], nread + j)
    <3> TAKE j \in 0 .. n + 1
    <3>1. CASE j = n + 1
      <4>1. n \in 0 .. n + 1 /\ n # n + 1 /\ j # 0 /\ j - 1 = n
        BY <2>a, <3>1
      <4>2. h[n] = g[n] /\ h[j] = z
        BY <3>1, <4>1
      <4> HIDE DEF h
      <4> QED
        BY <2>2, <3>1, <4>1, <4>2
    <3>2. CASE j # n + 1 /\ j # 0
      <4>1. j \in 0 .. n /\ j - 1 \in 0 .. n + 1 /\ j - 1 # n + 1
        BY <2>a, <3>2
      <4>2. h[j] = g[j] /\ h[j - 1] = g[j - 1]
        BY <3>2, <4>1
      <4> HIDE DEF h
      <4> QED
        BY <2>3, <3>2, <4>1, <4>2
    <3>3. CASE j = 0
      <4>1. j \in 0 .. n /\ j # n + 1
        BY <2>a, <3>3
      <4> QED
        BY <2>3, <3>3, <4>1
    <3> QED
      BY <3>1, <3>2, <3>3
  <2>5. h = [j \in 0 .. n + 1 |-> h[j]]
    OBVIOUS
  <2> HIDE DEF h
  <2>6. h = [j \in 0 .. n + 1 |-> IF j = 0 THEN NothingScanned ELSE Scan(h[j - 1], nread + j)]
    BY <2>4, <2>5
  <2>7. \E k : Scans(k, n + 1)
    BY <2>6 DEF Scans
  <2> QED
    BY <2>a, <2>7 DEF T
<1>3. T \in SUBSET Nat
  OBVIOUS
<1> HIDE DEF T
<1>4. T = Nat
  BY <1>1, <1>2, <1>3, SetInduction
<1> QED
  BY <1>4 DEF T

\* What a read of n keys finds is what the operator meant by them.
LEMMA ScannedOK ==
  ASSUME typed \in Seq(Keys), nread \in Nat, NEW n \in Nat, nread + n <= Len(typed),
         escaped \in BOOLEAN, NoQuit(nread), escaped <=> EscapedKey(nread + 1)
  PROVE  ScanOK(Scanned(n), nread + n)
<1> DEFINE G == CHOOSE g : g = [j \in 0 .. n |-> IF j = 0 THEN NothingScanned ELSE Scan(g[j - 1], nread + j)]
<1>1. \E g : g = [j \in 0 .. n |-> IF j = 0 THEN NothingScanned ELSE Scan(g[j - 1], nread + j)]
  BY ScansExist DEF Scans
<1>2. Scans(G, n)
  BY <1>1 DEF Scans
<1>3. Scanned(n) = G[n]
  BY Zenon DEF Scanned, NothingScanned
<1> HIDE DEF G
<1>4. \A j \in 0 .. n : G[j] = IF j = 0 THEN NothingScanned ELSE Scan(G[j - 1], nread + j)
  BY <1>2 DEF Scans
<1> DEFINE T == {j \in 0 .. n : ~ScanOK(G[j], nread + j)}
<1>5. ASSUME T # {} PROVE FALSE
  <2>1. PICK x \in T : \A y \in T : x <= y
    <3>1. T \in SUBSET Nat
      OBVIOUS
    <3> HIDE DEF T
    <3> QED
      BY <1>5, <3>1, LeastNatural
  <2>2. x \in 0 .. n /\ ~ScanOK(G[x], nread + x)
    OBVIOUS
  <2>3. x # 0
    <3> SUFFICES ASSUME x = 0 PROVE FALSE
      OBVIOUS
    <3>1. G[x] = NothingScanned
      BY <1>4, <2>2
    <3>2. NothingScanned \in [out : Seq(Nat), escaped : BOOLEAN, quit : BOOLEAN] /\ NothingScanned.out = <<>>
          /\ NothingScanned.quit = FALSE /\ NothingScanned.escaped = escaped
      BY EmptySeq DEF NothingScanned
    <3>3. nread + x = nread /\ MeantIn(nread, nread) = {}
      BY DEF MeantIn
    <3>4. Up(<<>>) /\ Range(<<>>) = {}
      BY DEF Up, Range
    <3> QED
      BY <2>2, <3>1, <3>2, <3>3, <3>4 DEF ScanOK
  <2>4. x - 1 \in 0 .. n /\ ~(x <= x - 1)
    BY <2>2, <2>3
  <2>5. ScanOK(G[x - 1], nread + (x - 1))
    BY <2>1, <2>4
  <2>6. PICK m \in Nat : m = nread + (x - 1)
    BY <2>4
  <2>7. m + 1 = nread + x /\ nread <= m /\ m + 1 \in 1 .. Len(typed)
    BY <2>2, <2>3, <2>6, LenProperties
  <2>8. typed[m + 1] \in Keys
    BY <2>7, ElementOfSeq
  <2>9. ScanOK(Scan(G[x - 1], m + 1), m + 1)
    BY <2>5, <2>6, <2>7, <2>8, ScanStep
  <2>10. G[x] = Scan(G[x - 1], m + 1)
    BY <1>4, <2>2, <2>3, <2>7
  <2> QED
    BY <2>2, <2>7, <2>9, <2>10
<1>6. n \in 0 .. n
  OBVIOUS
<1> QED
  BY <1>3, <1>5, <1>6

-------------------------------------------------------------------------------
(* Keys: on the wire. *)

Parts == [from : {"keys", "pages"}, keys : Seq(Nat), part : {1, 2}]

Carried(x) == IF x.part = 2 THEN x.keys ELSE <<>>
Flight(w)  == FlattenSeq([k \in 1 .. Len(w) |-> Carried(w[k])])

\* What the parts on the wire carry are sequences of keys.
LEMMA FlightSeq ==
  ASSUME NEW w \in Seq(Parts)
  PROVE  /\ [k \in 1 .. Len(w) |-> Carried(w[k])] \in Seq(Seq(Nat))
         /\ Flight(w) \in Seq(Nat)
         /\ \A k \in 1 .. Len(w) : w[k] \in Parts /\ Carried(w[k]) \in Seq(Nat)
<1>1. Len(w) \in Nat /\ \A k \in 1 .. Len(w) : w[k] \in Parts
  BY LenProperties, ElementOfSeq
<1>2. <<>> \in Seq(Nat)
  BY EmptySeq
<1>3. \A x \in Parts : Carried(x) \in Seq(Nat)
  BY <1>2 DEF Parts, Carried
<1>4. [k \in 1 .. Len(w) |-> Carried(w[k])] \in Seq(Seq(Nat))
  BY <1>1, <1>3, IsASeq
<1> QED
  BY <1>1, <1>3, <1>4, FlattenType DEF Flight

\* A part that is written comes last in flight,
LEMMA FlightAppend ==
  ASSUME NEW w \in Seq(Parts), NEW x \in Parts
  PROVE  Flight(Append(w, x)) = Cat(Flight(w), Carried(x))
<1> DEFINE v == Append(w, x)
           s == [k \in 1 .. Len(w) |-> Carried(w[k])]
           t == [k \in 1 .. Len(v) |-> Carried(v[k])]
<1>1. /\ v \in Seq(Parts) /\ Len(v) = Len(w) + 1 /\ Len(w) \in Nat
      /\ \A k \in 1 .. Len(w) : v[k] = w[k]
      /\ v[Len(w) + 1] = x
  BY AppendProperties, LenProperties
<1> HIDE DEF v
<1>2. s \in Seq(Seq(Nat)) /\ t \in Seq(Seq(Nat))
  BY <1>1, FlightSeq
<1>3. Len(s) = Len(w) /\ Len(t) = Len(v)
  BY <1>1
<1>4. \A k \in 1 .. Len(w) : k \in 1 .. Len(v) /\ t[k] = s[k]
  BY <1>1
<1>5. t[Len(v)] = Carried(x)
  BY <1>1
<1> HIDE DEF s, t
<1>6. Len(t) = Len(s) + 1 /\ \A k \in 1 .. Len(s) : t[k] = s[k]
  BY <1>1, <1>3, <1>4
<1>7. FlattenSeq(t) = Cat(FlattenSeq(s), t[Len(t)])
  BY <1>2, <1>6, FlattenOneMore
<1> QED
  BY <1>3, <1>5, <1>7 DEF Flight, s, t, v

\* and the part that is taken was first.
LEMMA FlightHead ==
  ASSUME NEW w \in Seq(Parts), w # <<>>
  PROVE  Flight(w) = Cat(Carried(Head(w)), Flight(Tail(w)))
<1> DEFINE v == Tail(w)
           s == [k \in 1 .. Len(w) |-> Carried(w[k])]
           t == [k \in 1 .. Len(v) |-> Carried(v[k])]
<1>1. /\ v \in Seq(Parts) /\ Len(v) = Len(w) - 1 /\ Len(w) \in Nat \ {0} /\ Head(w) = w[1]
      /\ \A k \in 1 .. Len(v) : v[k] = w[k + 1]
  BY HeadTailProperties, LenProperties, EmptySeq
<1> HIDE DEF v
<1>2. s \in Seq(Seq(Nat)) /\ t \in Seq(Seq(Nat))
  BY <1>1, FlightSeq
<1>3. Len(s) = Len(w) /\ Len(t) = Len(v) /\ s[1] = Carried(w[1])
  BY <1>1
<1>4. \A k \in 1 .. Len(v) : k + 1 \in 1 .. Len(w)
  BY <1>1
<1>5. \A k \in 1 .. Len(v) : t[k] = s[k + 1]
  BY <1>1, <1>4
<1> HIDE DEF s, t
<1>6. s # <<>> /\ Head(s) = s[1] /\ Tail(s) \in Seq(Seq(Nat)) /\ Len(Tail(s)) = Len(s) - 1
      /\ \A k \in 1 .. Len(s) - 1 : Tail(s)[k] = s[k + 1]
  BY <1>1, <1>2, <1>3, HeadTailProperties, EmptySeq
<1>7. Tail(s) = t
  <2>1. Len(Tail(s)) = Len(t)
    BY <1>1, <1>3, <1>6
  <2>2. \A k \in 1 .. Len(Tail(s)) : Tail(s)[k] = t[k]
    BY <1>1, <1>3, <1>5, <1>6
  <2> QED
    BY <1>2, <1>6, <2>1, <2>2, SeqEqual
<1>8. FlattenSeq(s) = Cat(Head(s), FlattenSeq(t))
  BY <1>2, <1>6, <1>7, FlattenFirst
<1> QED
  BY <1>1, <1>3, <1>6, <1>8 DEF Flight, s, t, v

-------------------------------------------------------------------------------
(* Keys: the invariant. *)

KeyType == /\ typed \in Seq(Keys) /\ nread \in Nat /\ nread <= Len(typed)
           /\ escaped \in BOOLEAN /\ quit \in BOOLEAN
           /\ kpc \in {"read", "send", "rest", "exit", "done"}
           /\ payload \in Seq(Nat) /\ console \in Seq(Nat)
           /\ input \in Seq(Nat) /\ got \in Seq(Nat)
           /\ wire \in Seq(Parts)
           /\ partial = <<>> \/ \E x \in Parts : partial = <<x>>

\* Between reads, the keyboard thread's flags say what the keys read so far mean.
ReadingOK == /\ kpc = "read" => ~quit
             /\ kpc \in {"read", "exit", "done"} => payload = <<>>
             /\ ~quit => NoQuit(nread) /\ (escaped <=> EscapedKey(nread + 1))

\* The lock is held by the thread that is half way through a frame.
LockOK == /\ lock \in {"free", "keys", "pages"}
          /\ lock = "keys" <=> kpc = "rest"
          /\ lock = "pages" <=> ppc = "rest"

\* The keys of the frame that is half way out, and its first half.
Outgoing == IF lock = "keys" THEN payload ELSE <<>>
Opened   == Part(lock, Outgoing, 1)

\* The badge can complete x, the second half of a frame, or its keys are lost.
Completes(x) == partial = <<[x EXCEPT !.part = 1]>> \/ Range(x.keys) \subseteq lost

\* Each half is followed by its other half, the next frame, or the end of what is written.
Paired == \A k \in 1 .. Len(wire) - 1 :
            /\ wire[k].part = 1 => wire[k + 1] = [wire[k] EXCEPT !.part = 2]
            /\ wire[k].part = 2 => wire[k + 1].part = 1
LastOK == wire # <<>> => IF lock = "free" THEN wire[Len(wire)].part = 2
                         ELSE wire[Len(wire)] = Opened
HeadOK == IF wire # <<>> THEN Head(wire).part = 2 => Completes(Head(wire))
          ELSE lock # "free" => Completes([Opened EXCEPT !.part = 2])

\* Everything on its way, in order.
Way == Cat(Cat(Cat(Cat(got, input), console), Flight(wire)), payload)
OnItsWay == /\ Up(Way)
            /\ Range(Way) \subseteq MeantIn(0, nread)
            /\ MeantIn(0, nread) \subseteq Range(Way) \cup lost

KeyInv == KeyType /\ ReadingOK /\ LockOK /\ Paired /\ LastOK /\ HeadOK /\ OnItsWay

\* At first no key is read.
LEMMA KeyInitInv == ASSUME Init PROVE KeyInv
<1>1. <<>> \in Seq(Nat) /\ <<>> \in Seq(Parts) /\ Len(<<>>) = 0
  BY EmptySeq
<1>2. \A s \in Seq(Nat) : Cat(s, <<>>) = s
  BY CatProperties
<1>3. Flight(<<>>) = <<>>
  BY DEF Flight, FlattenSeq
<1>4. typed \in Seq(Keys) /\ Len(typed) \in Nat
  BY ConsoleAssumption, LenProperties DEF Init, Keys
<1>5. Way = <<>>
  BY <1>1, <1>2, <1>3, Zenon DEF Init, Way
<1>6. Up(<<>>) /\ Range(<<>>) = {} /\ MeantIn(0, 0) = {}
  BY DEF Up, Range, MeantIn
<1>7. NoQuit(0) /\ ~EscapedKey(0 + 1)
  <2>1. 0 + 1 = 1 /\ 1 .. 0 = {}
    OBVIOUS
  <2> QED
    BY <2>1, EscapedNext DEF NoQuit
<1>8. KeyType
  <2>1. nread \in Nat /\ nread <= Len(typed)
    BY <1>4 DEF Init
  <2>2. escaped \in BOOLEAN /\ quit \in BOOLEAN /\ kpc = "read"
    BY DEF Init
  <2> QED
    BY <1>1, <1>4, <2>1, <2>2, Zenon DEF Init, KeyType
<1>9. ReadingOK /\ LockOK
  BY <1>7 DEF Init, ReadingOK, LockOK
<1>10. Paired /\ LastOK /\ HeadOK
  BY <1>1 DEF Init, Paired, LastOK, HeadOK
<1>11. OnItsWay
  BY <1>5, <1>6 DEF Init, OnItsWay
<1> QED
  BY <1>8, <1>9, <1>10, <1>11 DEF KeyInv

\* A step that leaves the wire, the locks and the keyboard thread alone, and the way as it is.
LEMMA KeyElsewhere ==
  ASSUME KeyInv, UNCHANGED <<typed, nread, escaped, kpc, payload, quit, lock, wire, partial, lost>>,
         ppc' = "rest" <=> ppc = "rest",
         console' \in Seq(Nat), input' \in Seq(Nat), got' \in Seq(Nat), Way' = Way
  PROVE  KeyInv'
<1>1. /\ \A i : EscapedKey(i)' = EscapedKey(i) 
      /\ \A i : ForGuest(i)' = ForGuest(i)
  BY DEF EscapedKey, ForGuest
<1>2. NoQuit(nread)' = NoQuit(nread) /\ MeantIn(0, nread)' = MeantIn(0, nread)
  BY <1>1 DEF NoQuit, MeantIn
<1>3. KeyType'
  BY DEF KeyInv, KeyType
<1>4. ReadingOK' /\ LockOK'
  BY <1>1, <1>2 DEF KeyInv, ReadingOK, LockOK
<1>5. Paired' /\ LastOK' /\ HeadOK'
  BY DEF KeyInv, Paired, LastOK, HeadOK, Completes, Opened, Outgoing
<1>6. OnItsWay'
  BY <1>2 DEF KeyInv, OnItsWay
<1> QED
  BY <1>3, <1>4, <1>5, <1>6 DEF KeyInv

\* The guest reads a key, and the run loop hands keys to the UART: the way stays as it is.
LEMMA UartInv ==
  ASSUME KeyInv,
         \/ DriverReads \/ SetDlab \/ ReadDivisor \/ ClearDlab \/ SliceEnds \/ Service \/ RunEnds
         \/ StoreTHR \/ \E e \in Masks : StoreIER(e)
  PROVE  KeyInv'
<1>0. /\ got \in Seq(Nat) /\ input \in Seq(Nat) /\ console \in Seq(Nat)
      /\ wire \in Seq(Parts) /\ Flight(wire) \in Seq(Nat) /\ payload \in Seq(Nat)
  BY FlightSeq DEF KeyInv, KeyType
<1>a. /\ <<>> \in Seq(Nat)
      /\ \A s \in Seq(Nat) : Cat(s, <<>>) = s /\ Cat(<<>>, s) = s
      /\ \A s, t \in Seq(Nat) : Cat(s, t) \in Seq(Nat)
      /\ \A s, t, u \in Seq(Nat) : Cat(s, Cat(t, u)) = Cat(Cat(s, t), u)
  BY CatProperties
<1>1. CASE UNCHANGED <<got, input, console>> /\ UNCHANGED <<hostVars, wire, partial, lost>>
  <2>1. Way' = Way
    BY <1>1 DEF Way, hostVars, keyVars
  <2> QED
    BY <1>0, <1>1, <2>1, KeyElsewhere DEF hostVars, keyVars, pageVars, txVars
<1>2. CASE Service
  <2>1. /\ UNCHANGED <<hostVars, wire, partial, lost, got>>
        /\ input' = Cat(input, console) /\ console' = <<>>
    BY <1>2 DEF Service, Cat
  <2>2. Cat(Cat(got, Cat(input, console)), <<>>) = Cat(Cat(got, input), console)
    BY <1>0, <1>a
  <2>3. Way' = Way
    BY <2>1, <2>2 DEF Way, hostVars, keyVars
  <2> QED
    BY <1>0, <1>a, <2>1, <2>3, KeyElsewhere DEF hostVars, keyVars, pageVars, txVars
<1>3. CASE LoadRBR /\ UNCHANGED <<hostVars, wire, linkVars>>
  <2>1. CASE UNCHANGED <<got, input>>
    BY <1>1, <1>3, <2>1 DEF linkVars
  <2>2. CASE input # <<>> /\ got' = Append(got, Head(input)) /\ input' = Tail(input)
    <3>1. Head(input) \in Nat /\ Tail(input) \in Seq(Nat)
      BY <1>0, <2>2, HeadTailProperties
    <3>2. PICK x \in Nat : x = Head(input)
      BY <3>1
    <3>3. Append(got, x) = Cat(got, <<x>>) /\ <<x>> \in Seq(Nat)
      <4>1. \A s \in Seq(Nat) : \A y \in Nat : Append(s, y) = Cat(s, <<y>>) /\ <<y>> \in Seq(Nat)
        BY CatProperties
      <4> QED
        BY <1>0, <4>1
    <3>4. PICK o \in Seq(Nat), r \in Seq(Nat) : o = <<x>> /\ r = Tail(input)
      BY <3>1, <3>3
    <3>5. input = Cat(o, r)
      BY <1>0, <2>2, <3>2, <3>4, HeadTailProperties DEF Cat
    <3>6. Cat(got', input') = Cat(got, input) /\ got' \in Seq(Nat) /\ input' \in Seq(Nat)
      <4>1. got' = Cat(got, o) /\ input' = r
        BY <2>2, <3>2, <3>3, <3>4
      <4>2. Cat(Cat(got, o), r) = Cat(got, Cat(o, r)) /\ Cat(got, o) \in Seq(Nat)
        BY <1>0, <1>a
      <4> QED
        BY <3>4, <3>5, <4>1, <4>2
    <3>7. Way' = Way
      BY <1>3, <3>6 DEF Way, hostVars, keyVars, linkVars
    <3> QED
      BY <1>0, <1>3, <3>6, <3>7, KeyElsewhere DEF hostVars, keyVars, pageVars, txVars, linkVars
  <2> QED
    BY <1>3, <2>1, <2>2 DEF LoadRBR
<1>4. CASE DriverReads \/ ReadDivisor
  BY <1>3, <1>4 DEF DriverReads, ReadDivisor
<1>5. CASE \/ SetDlab \/ ClearDlab \/ SliceEnds \/ RunEnds
           \/ StoreTHR \/ \E e \in Masks : StoreIER(e)
  BY <1>1, <1>5 DEF SetDlab, ClearDlab, SliceEnds, RunEnds, StoreTHR, StoreIER, linkVars, uartVars
<1> QED
  BY <1>2, <1>4, <1>5

\* A read of the keyboard: the keys for the guest come last on their way.
LEMMA ReadKeysInv == ASSUME KeyInv, ReadKeys PROVE KeyInv'
<1>0. /\ typed \in Seq(Keys) /\ nread \in Nat /\ nread <= Len(typed) /\ Len(typed) \in Nat
      /\ got \in Seq(Nat) /\ input \in Seq(Nat) /\ console \in Seq(Nat) /\ escaped \in BOOLEAN
      /\ wire \in Seq(Parts) /\ Flight(wire) \in Seq(Nat) /\ payload \in Seq(Nat)
  BY FlightSeq, LenProperties DEF KeyInv, KeyType
<1>1. PICK n \in 1 .. Len(typed) - nread :
        /\ nread' = nread + n
        /\ payload' = Scanned(n).out /\ escaped' = Scanned(n).escaped /\ quit' = Scanned(n).quit
        /\ kpc' = IF Scanned(n).out # <<>> THEN "send"
                  ELSE IF Scanned(n).quit THEN "exit" ELSE "read"
  BY DEF ReadKeys
<1>2. /\ kpc = "read"
      /\ UNCHANGED <<typed, ppc, lock, wire, partial, lost, console, input, got>>
  BY DEF ReadKeys, pageVars, txVars, badgeVars, linkVars, uartVars
<1>3. payload = <<>> /\ ~quit /\ NoQuit(nread) /\ (escaped <=> EscapedKey(nread + 1)) /\ lock # "keys"
  BY <1>2 DEF KeyInv, ReadingOK, LockOK
<1>4. PICK s : s = Scanned(n)
  OBVIOUS
<1>5. n \in Nat /\ nread + n <= Len(typed) /\ nread + n \in Nat
  BY <1>0
<1>6. ScanOK(s, nread + n)
  BY <1>0, <1>3, <1>4, <1>5, ScannedOK
<1>7. PICK m \in Nat : m = nread + n
  BY <1>5
<1>8. /\ nread' = m /\ payload' = s.out /\ escaped' = s.escaped /\ quit' = s.quit
      /\ kpc' = IF s.out # <<>> THEN "send" ELSE IF s.quit THEN "exit" ELSE "read"
  BY <1>1, <1>4, <1>7
<1>9. /\ s.out \in Seq(Nat) /\ s.escaped \in BOOLEAN /\ s.quit \in BOOLEAN
      /\ Up(s.out) /\ Range(s.out) = MeantIn(nread, m)
      /\ s.quit => ~NoQuit(m)
      /\ ~s.quit => NoQuit(m) /\ (s.escaped <=> EscapedKey(m + 1))
  BY <1>6, <1>7 DEF ScanOK
<1>10. /\ \A i : EscapedKey(i)' = EscapedKey(i) /\ ForGuest(i)' = ForGuest(i)
       /\ NoQuit(m)' = NoQuit(m) /\ MeantIn(0, m)' = MeantIn(0, m)
  <2>1. \A i : EscapedKey(i)' = EscapedKey(i)
    BY <1>2 DEF EscapedKey
  <2>2. \A i : ForGuest(i)' = ForGuest(i)
    BY <1>2, <2>1 DEF ForGuest
  <2> QED
    BY <1>2, <2>1, <2>2 DEF NoQuit, MeantIn
<1>11. KeyType'
  <2>1. kpc' \in {"read", "send", "rest", "exit", "done"}
    BY <1>8
  <2>2. m <= Len(typed)
    BY <1>5, <1>7
  <2> QED
    BY <1>0, <1>2, <1>8, <1>9, <2>1, <2>2 DEF KeyInv, KeyType
<1>12. ReadingOK'
  <2>1. (kpc' = "read" => ~quit') /\ (kpc' \in {"read", "exit", "done"} => payload' = <<>>)
    BY <1>8
  <2>2. ~quit' => NoQuit(m)' /\ (escaped' <=> EscapedKey(m + 1)')
    BY <1>8, <1>9, <1>10
  <2>3. NoQuit(nread)' = NoQuit(m)' /\ EscapedKey(nread + 1)' = EscapedKey(m + 1)'
    BY <1>8 DEF NoQuit, EscapedKey
  <2> QED
    BY <2>1, <2>2, <2>3 DEF ReadingOK
<1>13. LockOK'
  BY <1>2, <1>8 DEF KeyInv, LockOK
<1>14. Paired' /\ LastOK' /\ HeadOK'
  <2>1. Outgoing' = Outgoing
    BY <1>2, <1>3 DEF Outgoing
  <2> QED
    BY <1>2, <2>1 DEF KeyInv, Paired, LastOK, HeadOK, Completes, Opened
<1>15. OnItsWay'
  <2> DEFINE A == Cat(Cat(Cat(got, input), console), Flight(wire))
  <2>a. /\ <<>> \in Seq(Nat)
        /\ \A t \in Seq(Nat) : Cat(t, <<>>) = t
        /\ \A t, u \in Seq(Nat) : Cat(t, u) \in Seq(Nat)
    BY CatProperties
  <2>1. A \in Seq(Nat)
    BY <1>0, <2>a
  <2> HIDE DEF A
  <2>2. Way = A
    BY <1>3, <2>a, <2>1 DEF Way, A
  <2>3. Way' = Cat(A, s.out)
    BY <1>2, <1>8 DEF Way, A
  <2>4. Up(A) /\ Range(A) \subseteq MeantIn(0, nread) /\ MeantIn(0, nread) \subseteq Range(A) \cup lost
    BY <2>2 DEF KeyInv, OnItsWay
  <2>5. MeantIn(0, m) = MeantIn(0, nread) \cup MeantIn(nread, m)
    <3>1. \A i : i \in 0 + 1 .. m <=> i \in 0 + 1 .. nread \/ i \in nread + 1 .. m
      BY <1>0, <1>5, <1>7
    <3> QED
      BY <3>1 DEF MeantIn
  <2>6. Below(A, s.out)
    <3>1. \A i \in MeantIn(0, nread), j \in MeantIn(nread, m) : i < j
      BY <1>0 DEF MeantIn
    <3> QED
      BY <1>9, <2>4, <3>1 DEF Below
  <2>7. Up(Cat(A, s.out)) /\ Range(Cat(A, s.out)) = Range(A) \cup Range(s.out)
    BY <1>9, <2>1, <2>4, <2>6, UpCat, RangeCat
  <2>8. MeantIn(0, nread)' = MeantIn(0, m)
    <3>1. MeantIn(0, nread)' = MeantIn(0, m)'
      BY <1>8 DEF MeantIn
    <3> QED
      BY <1>10, <3>1
  <2> QED
    BY <1>2, <1>9, <2>3, <2>4, <2>5, <2>7, <2>8 DEF OnItsWay
<1> QED
  BY <1>11, <1>12, <1>13, <1>14, <1>15 DEF KeyInv

\* A half frame that its writer may write keeps the wire in order.
LEMMA WriteKeepsFrames ==
  ASSUME KeyInv, NEW x \in Parts, wire' = Append(wire, x), UNCHANGED <<partial, lost>>,
         \/ x.part = 1 /\ lock = "free" /\ lock' # "free" /\ x = Opened'
         \/ x.part = 2 /\ lock # "free" /\ lock' = "free" /\ x = [Opened EXCEPT !.part = 2]
  PROVE  Paired' /\ LastOK' /\ HeadOK'
<1>0. wire \in Seq(Parts) /\ Paired /\ LastOK /\ HeadOK
  BY DEF KeyInv, KeyType
<1>1. PICK n \in Nat : n = Len(wire)
  BY <1>0, LenProperties
<1>2. /\ wire' \in Seq(Parts) /\ Len(wire') = n + 1
      /\ \A k \in 1 .. n : wire'[k] = wire[k] /\ wire[k] \in Parts
      /\ wire'[n + 1] = x /\ wire' # <<>> /\ Head(wire') = wire'[1]
  <2>1. Len(wire') = n + 1 /\ wire' \in Seq(Parts)
    BY <1>0, <1>1, AppendProperties
  <2>2. wire' # <<>>
    BY <1>1, <2>1, EmptySeq
  <2>3. Head(wire') = wire'[1]
    BY <2>1, <2>2, HeadTailProperties
  <2>4. \A k \in 1 .. n : wire[k] \in Parts
    BY <1>0, <1>1, ElementOfSeq
  <2> QED
    BY <1>0, <1>1, <2>1, <2>2, <2>3, <2>4, AppendProperties
<1>3. n = 0 <=> wire = <<>>
  BY <1>0, <1>1, EmptySeq
<1>4. LastOK'
  <2>1. wire'[Len(wire')] = x
    BY <1>2
  <2> QED
    BY <2>1 DEF LastOK
<1>5. Paired'
  <2>0. Len(wire') - 1 = n
    BY <1>2
  <2> SUFFICES ASSUME NEW k \in 1 .. n
               PROVE  /\ wire'[k].part = 1 => wire'[k + 1] = [wire'[k] EXCEPT !.part = 2]
                      /\ wire'[k].part = 2 => wire'[k + 1].part = 1
    BY <2>0, Zenon DEF Paired
  <2>1. CASE k = n
    <3>1. wire # <<>> /\ wire'[k] = wire[Len(wire)] /\ wire'[k + 1] = x
      BY <1>1, <1>2, <1>3, <2>1
    <3>2. CASE x.part = 1 /\ lock = "free"
      BY <1>0, <3>1, <3>2 DEF LastOK
    <3>3. CASE x.part = 2 /\ lock # "free" /\ x = [Opened EXCEPT !.part = 2]
      BY <1>0, <3>1, <3>3 DEF LastOK, Opened, Part
    <3> QED
      BY <3>2, <3>3
  <2>2. CASE k # n
    <3>1. k \in 1 .. n - 1 /\ k + 1 \in 1 .. n
      BY <2>2
    <3>2. wire'[k] = wire[k] /\ wire'[k + 1] = wire[k + 1]
      BY <1>2, <3>1
    <3> QED
      BY <1>0, <1>1, <3>1, <3>2 DEF Paired
  <2> QED
    BY <2>1, <2>2
<1>6. HeadOK'
  <2>1. CASE wire # <<>>
    <3>1. 1 \in 1 .. n /\ Head(wire) = wire[1]
      BY <1>0, <1>1, <1>3, <2>1, HeadTailProperties
    <3>2. Head(wire') = Head(wire)
      BY <1>2, <3>1
    <3> QED
      BY <1>0, <1>2, <2>1, <3>2 DEF HeadOK, Completes
  <2>2. CASE wire = <<>>
    <3>1. Head(wire') = x
      BY <1>2, <1>3, <2>2
    <3>2. x.part = 2 => Completes(x)
      BY <1>0, <2>2 DEF HeadOK
    <3> QED
      BY <1>2, <3>1, <3>2 DEF HeadOK, Completes
  <2> QED
    BY <2>1, <2>2
<1> QED
  BY <1>4, <1>5, <1>6

\* The two threads write: a frame's second half puts the keys in flight that its thread held.
LEMMA WritesInv ==
  ASSUME KeyInv, SendKeys \/ SendKeysRest \/ SendReply \/ SendReplyRest
  PROVE  KeyInv'
<1>0. /\ typed \in Seq(Keys) /\ nread \in Nat /\ nread <= Len(typed)
      /\ got \in Seq(Nat) /\ input \in Seq(Nat) /\ console \in Seq(Nat) /\ escaped \in BOOLEAN
      /\ wire \in Seq(Parts) /\ Flight(wire) \in Seq(Nat) /\ payload \in Seq(Nat)
  BY FlightSeq DEF KeyInv, KeyType
<1>a. /\ <<>> \in Seq(Nat)
      /\ \A s \in Seq(Nat) : Cat(s, <<>>) = s /\ Cat(<<>>, s) = s
      /\ \A s, t \in Seq(Nat) : Cat(s, t) \in Seq(Nat)
      /\ \A s, t, u \in Seq(Nat) : Cat(s, Cat(t, u)) = Cat(Cat(s, t), u)
  BY CatProperties
<1>1. PICK who, n, x :
        /\ who \in {"keys", "pages"} /\ n \in {1, 2}
        /\ x = Part(who, IF who = "keys" THEN payload ELSE <<>>, n)
        /\ wire' = Append(wire, x)
        /\ lock \in {"free", who} /\ lock' = IF n = 1 THEN who ELSE "free"
        /\ IF who = "keys"
           THEN /\ ppc' = ppc
                /\ kpc = IF n = 1 THEN "send" ELSE "rest"
                /\ kpc' = IF n = 1 THEN "rest" ELSE IF quit THEN "exit" ELSE "read"
                /\ payload' = IF n = 1 THEN payload ELSE <<>>
           ELSE /\ kpc' = kpc /\ payload' = payload
                /\ ppc = IF n = 1 THEN "send" ELSE "rest"
                /\ ppc' = IF n = 1 THEN "rest" ELSE "read"
  <2>1. CASE SendKeys
    BY <2>1 DEF SendKeys, Write, pageVars
  <2>2. CASE SendKeysRest
    BY <2>2 DEF SendKeysRest, Write, pageVars
  <2>3. CASE SendReply
    BY <2>3 DEF SendReply, Write, keyVars
  <2>4. CASE SendReplyRest
    BY <2>4 DEF SendReplyRest, Write, keyVars
  <2> QED
    BY <2>1, <2>2, <2>3, <2>4
<1>2. UNCHANGED <<typed, nread, escaped, quit, partial, lost, console, input, got>>
  BY DEF SendKeys, SendKeysRest, SendReply, SendReplyRest, Write, keyVars, badgeVars, linkVars, uartVars
<1>3. x \in Parts /\ x.part = n /\ x.keys = (IF who = "keys" THEN payload ELSE <<>>)
  BY <1>0, <1>a, <1>1 DEF Part, Parts
<1>4. (n = 1 => lock = "free") /\ (n = 2 => lock = who)
  BY <1>1 DEF KeyInv, LockOK
<1>5. Paired' /\ LastOK' /\ HeadOK'
  <2>1. CASE n = 1
    <3>1. x = Opened' /\ lock' # "free"
      BY <1>1, <2>1 DEF Opened, Outgoing, Part
    <3> QED
      BY <1>1, <1>2, <1>3, <1>4, <2>1, <3>1, WriteKeepsFrames
  <2>2. CASE n = 2
    <3>1. x = [Opened EXCEPT !.part = 2] /\ lock # "free" /\ lock' = "free"
      BY <1>1, <1>4, <2>2 DEF Opened, Outgoing, Part
    <3> QED
      BY <1>1, <1>2, <1>3, <2>2, <3>1, WriteKeepsFrames
  <2> QED
    BY <1>1, <2>1, <2>2
<1>6. LockOK'
  BY <1>1, <1>4 DEF KeyInv, LockOK
<1>7. /\ \A i : EscapedKey(i)' = EscapedKey(i) /\ ForGuest(i)' = ForGuest(i)
      /\ NoQuit(nread)' = NoQuit(nread) /\ MeantIn(0, nread)' = MeantIn(0, nread)
  <2>1. \A i : EscapedKey(i)' = EscapedKey(i)
    BY <1>2 DEF EscapedKey
  <2>2. \A i : ForGuest(i)' = ForGuest(i)
    BY <1>2, <2>1 DEF ForGuest
  <2> QED
    BY <1>2, <2>1, <2>2 DEF NoQuit, MeantIn
<1>8. ReadingOK'
  BY <1>1, <1>2, <1>7 DEF KeyInv, ReadingOK
<1>9. KeyType'
  <2>1. payload' \in Seq(Nat) /\ kpc' \in {"read", "send", "rest", "exit", "done"}
    BY <1>0, <1>a, <1>1 DEF KeyInv, KeyType
  <2>2. wire' \in Seq(Parts)
    BY <1>0, <1>1, <1>3, AppendProperties
  <2> QED
    BY <1>0, <1>2, <2>1, <2>2 DEF KeyInv, KeyType
<1>10. Way' = Way
  <2> DEFINE A == Cat(Cat(got, input), console)
  <2>1. A \in Seq(Nat)
    BY <1>0, <1>a
  <2>2. Flight(wire') = Cat(Flight(wire), Carried(x))
    BY <1>0, <1>1, <1>3, FlightAppend
  <2>3. Way = Cat(Cat(A, Flight(wire)), payload) /\ Way' = Cat(Cat(A, Flight(wire)'), payload')
    BY <1>2 DEF Way
  <2> HIDE DEF A
  <2>4. Flight(wire)' = Flight(wire')
    BY DEF Flight, Carried
  <2>5. CASE Carried(x) = <<>> /\ payload' = payload
    BY <1>0, <1>a, <2>2, <2>3, <2>4, <2>5
  <2>6. CASE Carried(x) = payload /\ payload' = <<>>
    <3>1. Way' = Cat(Cat(A, Cat(Flight(wire), payload)), <<>>)
      BY <2>2, <2>3, <2>4, <2>6
    <3>2. Cat(A, Cat(Flight(wire), payload)) \in Seq(Nat)
      BY <1>0, <1>a, <2>1
    <3>3. Cat(A, Cat(Flight(wire), payload)) = Cat(Cat(A, Flight(wire)), payload)
      BY <1>0, <1>a, <2>1
    <3> QED
      BY <1>a, <2>3, <3>1, <3>2, <3>3
  <2>7. (Carried(x) = <<>> /\ payload' = payload) \/ (Carried(x) = payload /\ payload' = <<>>)
    BY <1>1, <1>3 DEF Carried
  <2> QED
    BY <2>5, <2>6, <2>7
<1>11. OnItsWay'
  BY <1>2, <1>7, <1>10 DEF KeyInv, OnItsWay
<1> QED
  BY <1>5, <1>6, <1>8, <1>9, <1>11 DEF KeyInv

\* Giving the exchange up loses the keys of the frame half way in, and says so.
LEMMA GiveUpInv == ASSUME KeyInv, GiveUp PROVE KeyInv'
<1>1. /\ partial' = <<>> /\ lost' = lost \cup UNION {Range(x.keys) : x \in Range(partial)}
      /\ UNCHANGED <<typed, nread, escaped, kpc, payload, quit, ppc, lock, wire, console, input, got>>
  BY DEF GiveUp, hostVars, keyVars, pageVars, txVars, uartVars
<1>2. \A x \in Parts : Completes(x) => Completes(x)'
  <2> SUFFICES ASSUME NEW x \in Parts, Completes(x) PROVE Range(x.keys) \subseteq lost'
    BY DEF Completes
  <2>1. CASE partial = <<[x EXCEPT !.part = 1]>>
    <3>1. PICK y : y = [x EXCEPT !.part = 1]
      OBVIOUS
    <3>2. y.keys = x.keys
      BY <3>1 DEF Parts
    <3>3. y \in Range(partial)
      BY <2>1, <3>1 DEF Range
    <3> QED
      BY <1>1, <3>2, <3>3
  <2>2. CASE Range(x.keys) \subseteq lost
    BY <1>1, <2>2
  <2> QED
    BY <2>1, <2>2 DEF Completes
<1>3. /\ \A i : EscapedKey(i)' = EscapedKey(i) /\ ForGuest(i)' = ForGuest(i)
      /\ NoQuit(nread)' = NoQuit(nread) /\ MeantIn(0, nread)' = MeantIn(0, nread)
  <2>1. \A i : EscapedKey(i)' = EscapedKey(i)
    BY <1>1 DEF EscapedKey
  <2>2. \A i : ForGuest(i)' = ForGuest(i)
    BY <1>1, <2>1 DEF ForGuest
  <2> QED
    BY <1>1, <2>1, <2>2 DEF NoQuit, MeantIn
<1>4. KeyType' /\ ReadingOK' /\ LockOK'
  BY <1>1, <1>3 DEF KeyInv, KeyType, ReadingOK, LockOK
<1>5. Paired' /\ LastOK'
  BY <1>1 DEF KeyInv, Paired, LastOK, Opened, Outgoing
<1>6. HeadOK'
  <2>1. Opened' = Opened
    BY <1>1 DEF Opened, Outgoing
  <2>2. CASE wire # <<>>
    <3>1. Head(wire).part = 2 => Completes(Head(wire))
      BY <2>2 DEF KeyInv, HeadOK
    <3>2. Completes(Head(wire))' = (Completes(Head(wire)))' /\ (Head(wire).part = 2 => Completes(Head(wire))')
      <4>1. PICK h \in Parts : h = Head(wire)
        BY <2>2, HeadTailProperties DEF KeyInv, KeyType
      <4>2. h.part = 2 => Completes(h)'
        BY <1>2, <3>1, <4>1
      <4>3. h = Head(wire')
        BY <1>1, <4>1
      <4> QED
        BY <4>1, <4>2, <4>3 DEF Completes
    <3> QED
      BY <1>1, <2>2, <3>2 DEF HeadOK
  <2>3. CASE wire = <<>>
    <3>1. PICK o : o = [Opened EXCEPT !.part = 2]
      OBVIOUS
    <3>2. lock # "free" => Completes(o)
      BY <2>3, <3>1 DEF KeyInv, HeadOK
    <3>a. lock # "free" => o \in Parts
      <4>1. Outgoing \in Seq(Nat)
        BY EmptySeq DEF KeyInv, KeyType, Outgoing
      <4>2. lock \in {"free", "keys", "pages"}
        BY DEF KeyInv, LockOK
      <4> QED
        BY <3>1, <4>1, <4>2 DEF Opened, Part, Parts
    <3>3. lock' # "free" => Completes(o)'
      BY <1>1, <1>2, <3>2, <3>a
    <3>4. o = [Opened EXCEPT !.part = 2]'
      BY <2>1, <3>1
    <3> QED
      BY <1>1, <2>3, <3>3, <3>4 DEF HeadOK, Completes
  <2> QED
    BY <2>2, <2>3
<1>7. OnItsWay'
  <2>1. Way' = Way
    BY <1>1 DEF Way
  <2> QED
    BY <1>1, <1>3, <2>1 DEF KeyInv, OnItsWay
<1> QED
  BY <1>4, <1>5, <1>6, <1>7 DEF KeyInv

\* Taking t out of the way, keys and order stay as they are but for t's keys.
LEMMA UpWithout ==
  ASSUME NEW s \in Seq(Nat), NEW t \in Seq(Nat), NEW u \in Seq(Nat), Up(Cat(s, Cat(t, u)))
  PROVE  /\ Up(Cat(s, u)) /\ Range(Cat(s, u)) \subseteq Range(Cat(s, Cat(t, u)))
         /\ Range(Cat(s, Cat(t, u))) \subseteq Range(Cat(s, u)) \cup Range(t)
<1>1. Cat(t, u) \in Seq(Nat)
  BY CatProperties
<1>2. Up(s) /\ Up(Cat(t, u)) /\ Below(s, Cat(t, u))
  BY <1>1, UpCat
<1>3. Up(u)
  BY <1>2, UpCat
<1>4. /\ Range(Cat(t, u)) = Range(t) \cup Range(u)
      /\ Range(Cat(s, Cat(t, u))) = Range(s) \cup Range(Cat(t, u))
      /\ Range(Cat(s, u)) = Range(s) \cup Range(u)
  BY <1>1, RangeCat
<1>5. Below(s, u)
  BY <1>2, <1>4 DEF Below
<1>6. Up(Cat(s, u))
  BY <1>2, <1>3, <1>5, UpCat
<1> QED
  BY <1>4, <1>6

\* The badge takes the next half frame off the wire.
LEMMA AbsorbInv == ASSUME KeyInv, Absorb PROVE KeyInv'
<1>0. /\ got \in Seq(Nat) /\ input \in Seq(Nat) /\ console \in Seq(Nat)
      /\ wire \in Seq(Parts) /\ Flight(wire) \in Seq(Nat) /\ payload \in Seq(Nat)
      /\ Paired /\ LastOK /\ HeadOK
  BY FlightSeq DEF KeyInv, KeyType
<1>a. /\ <<>> \in Seq(Nat)
      /\ \A s \in Seq(Nat) : Cat(s, <<>>) = s /\ Cat(<<>>, s) = s
      /\ \A s, t \in Seq(Nat) : Cat(s, t) \in Seq(Nat)
      /\ \A s, t, u \in Seq(Nat) : Cat(s, Cat(t, u)) = Cat(Cat(s, t), u)
  BY CatProperties
<1>1. PICK x : x = Head(wire)
  OBVIOUS
<1> DEFINE whole == x.part = 2 /\ partial = <<[x EXCEPT !.part = 1]>>
<1>2. /\ wire # <<>> /\ wire' = Tail(wire)
      /\ partial' = IF x.part = 1 THEN <<x>> ELSE <<>>
      /\ console' = IF whole THEN Cat(console, x.keys) ELSE console
  BY <1>1 DEF Absorb, Cat
<1>3. UNCHANGED <<typed, nread, escaped, kpc, payload, quit, ppc, lock, lost, input, got>>
  BY DEF Absorb, hostVars, keyVars, pageVars, txVars, uartVars
<1>4. PICK n \in Nat : n = Len(wire) /\ n # 0
  BY <1>0, <1>2, LenProperties, EmptySeq
<1>5. /\ x \in Parts /\ x = wire[1]
      /\ wire' \in Seq(Parts) /\ Len(wire') = n - 1
      /\ \A k \in 1 .. n - 1 : wire'[k] = wire[k + 1]
  BY <1>0, <1>1, <1>2, <1>4, HeadTailProperties
<1>6. x.part \in {1, 2} /\ x.keys \in Seq(Nat)
  BY <1>5 DEF Parts
<1>7. wire' = <<>> <=> n = 1
  BY <1>4, <1>5, EmptySeq
<1>8. wire' # <<>> => Head(wire') = wire[2] /\ 1 \in 1 .. n - 1
  <2> SUFFICES ASSUME wire' # <<>> PROVE Head(wire') = wire[2] /\ 1 \in 1 .. n - 1
    OBVIOUS
  <2>1. 1 \in 1 .. n - 1 /\ 1 + 1 = 2
    BY <1>4, <1>7
  <2>2. Head(wire') = wire'[1]
    BY <1>5, HeadTailProperties
  <2> QED
    BY <1>5, <2>1, <2>2
<1>9. x.part = 2 => Completes(x)
  BY <1>0, <1>1, <1>2 DEF HeadOK
<1>10. /\ \A i : EscapedKey(i)' = EscapedKey(i) /\ ForGuest(i)' = ForGuest(i)
       /\ NoQuit(nread)' = NoQuit(nread) /\ MeantIn(0, nread)' = MeantIn(0, nread)
  <2>1. \A i : EscapedKey(i)' = EscapedKey(i)
    BY <1>3 DEF EscapedKey
  <2>2. \A i : ForGuest(i)' = ForGuest(i)
    BY <1>3, <2>1 DEF ForGuest
  <2> QED
    BY <1>3, <2>1, <2>2 DEF NoQuit, MeantIn
<1>11. KeyType'
  <2>1. console' \in Seq(Nat)
    BY <1>0, <1>a, <1>2, <1>6
  <2>2. partial' = <<>> \/ \E y \in Parts : partial' = <<y>>
    BY <1>2, <1>5
  <2> QED
    BY <1>3, <1>5, <2>1, <2>2 DEF KeyInv, KeyType
<1>12. ReadingOK' /\ LockOK'
  BY <1>3, <1>10 DEF KeyInv, ReadingOK, LockOK
<1>13. Paired'
  <2> SUFFICES ASSUME NEW k \in 1 .. n - 1 - 1
               PROVE  /\ wire'[k].part = 1 => wire'[k + 1] = [wire'[k] EXCEPT !.part = 2]
                      /\ wire'[k].part = 2 => wire'[k + 1].part = 1
    BY <1>5 DEF Paired
  <2>1. k \in 1 .. n - 1 /\ k + 1 \in 1 .. n - 1
    OBVIOUS
  <2>2. wire'[k] = wire[k + 1] /\ wire'[k + 1] = wire[(k + 1) + 1]
    BY <1>5, <2>1
  <2>3. PICK j \in 1 .. n - 1 : j = k + 1
    BY <2>1
  <2>4. /\ wire[j].part = 1 => wire[j + 1] = [wire[j] EXCEPT !.part = 2]
        /\ wire[j].part = 2 => wire[j + 1].part = 1
    BY <1>0, <1>4, <2>3 DEF Paired
  <2> QED
    BY <2>2, <2>3, <2>4
<1>b. Opened' = Opened
  BY <1>3 DEF Opened, Outgoing
<1>14. LastOK'
  <2> SUFFICES ASSUME wire' # <<>> PROVE wire'[Len(wire')] = wire[Len(wire)]
    BY <1>0, <1>2, <1>3, <1>b DEF LastOK
  <2>1. n - 1 \in 1 .. n - 1 /\ (n - 1) + 1 = n
    BY <1>4, <1>7
  <2> QED
    BY <1>4, <1>5, <2>1
<1>15. HeadOK'
  <2>1. CASE wire' # <<>>
    <3>1. Head(wire') = wire[2] /\ 1 \in 1 .. n - 1 /\ 1 + 1 = 2
      BY <1>8, <2>1
    <3>2. /\ wire[1].part = 1 => wire[2] = [wire[1] EXCEPT !.part = 2]
          /\ wire[1].part = 2 => wire[2].part = 1
      BY <1>0, <1>4, <3>1 DEF Paired
    <3>3. CASE x.part = 1
      <4>1. Head(wire') = [x EXCEPT !.part = 2] /\ partial' = <<x>>
        BY <1>2, <1>5, <3>1, <3>2, <3>3
      <4>2. [[x EXCEPT !.part = 2] EXCEPT !.part = 1] = x
        BY <1>5, <3>3 DEF Parts
      <4> QED
        BY <2>1, <4>1, <4>2 DEF HeadOK, Completes
    <3>4. CASE x.part = 2
      BY <1>5, <2>1, <3>1, <3>2, <3>4 DEF HeadOK
    <3> QED
      BY <1>6, <3>3, <3>4
  <2>2. CASE wire' = <<>>
    <3>1. x = wire[Len(wire)]
      BY <1>4, <1>5, <1>7, <2>2
    <3>2. ASSUME lock # "free" PROVE Completes([Opened EXCEPT !.part = 2])'
      <4>1. x = Opened /\ x.part = 1
        BY <1>0, <1>2, <3>1, <3>2 DEF LastOK, Opened, Part
      <4>2. partial' = <<Opened>>
        BY <1>2, <4>1
      <4>3. [[x EXCEPT !.part = 2] EXCEPT !.part = 1] = x
        BY <1>5, <4>1 DEF Parts
      <4> QED
        BY <1>b, <4>1, <4>2, <4>3 DEF Completes
    <3> QED
      BY <1>3, <2>2, <3>2 DEF HeadOK, Completes
  <2> QED
    BY <2>1, <2>2
<1>16. OnItsWay'
  <2> DEFINE A == Cat(got, input)
             F == Flight(wire')
             C == Carried(x)
  <2>1. A \in Seq(Nat) /\ F \in Seq(Nat)
    BY <1>0, <1>a, <1>5, FlightSeq
  <2>2. C \in Seq(Nat)
    BY <1>a, <1>6 DEF Carried
  <2>3. Flight(wire) = Cat(C, F)
    BY <1>0, <1>1, <1>2, FlightHead
  <2>4. Flight(wire)' = F
    BY DEF Flight, Carried
  <2>5. Way = Cat(Cat(Cat(A, console), Cat(C, F)), payload)
    BY <2>3 DEF Way
  <2>6. Way' = Cat(Cat(Cat(A, console'), F), payload)
    BY <1>3, <2>4 DEF Way
  <2>7. C = (IF x.part = 2 THEN x.keys ELSE <<>>)
    BY DEF Carried
  <2> HIDE DEF A, F, C
  <2>8. PICK B \in Seq(Nat), R \in Seq(Nat) : B = Cat(A, console) /\ R = Cat(F, payload)
    BY <1>0, <1>a, <2>1
  <2>9. Way = Cat(B, Cat(C, R))
    <3>1. Cat(Cat(B, Cat(C, F)), payload) = Cat(B, Cat(Cat(C, F), payload)) /\ Cat(Cat(C, F), payload) = Cat(C, Cat(F, payload))
      <4>1. Cat(C, F) \in Seq(Nat)
        BY <1>a, <2>1, <2>2
      <4> QED
        BY <1>0, <1>a, <2>1, <2>2, <4>1
    <3> QED
      BY <2>5, <2>8, <3>1
  <2>10. CASE console' = Cat(console, C)
    <3>1. Cat(A, Cat(console, C)) = Cat(B, C)
      BY <1>0, <1>a, <2>1, <2>2, <2>8
    <3>2. Cat(Cat(Cat(B, C), F), payload) = Cat(Cat(B, C), R)
      <4>1. Cat(B, C) \in Seq(Nat)
        BY <1>a, <2>2
      <4>2. Cat(Cat(Cat(B, C), F), payload) = Cat(Cat(B, C), Cat(F, payload))
        BY <1>0, <1>a, <2>1, <4>1
      <4> QED
        BY <2>8, <4>2
    <3>3. Cat(Cat(B, C), R) = Cat(B, Cat(C, R))
      BY <1>a, <2>2
    <3>4. Way' = Way
      BY <2>6, <2>9, <2>10, <3>1, <3>2, <3>3
    <3> QED
      BY <1>3, <1>10, <3>4 DEF KeyInv, OnItsWay
  <2>11. CASE console' = console /\ Range(C) \subseteq lost
    <3>1. Way' = Cat(B, R)
      BY <1>0, <1>a, <2>1, <2>6, <2>8, <2>11
    <3>2. Up(Cat(B, Cat(C, R)))
      BY <2>9 DEF KeyInv, OnItsWay
    <3>3. /\ Up(Way') /\ Range(Way') \subseteq Range(Way)
          /\ Range(Way) \subseteq Range(Way') \cup Range(C)
      BY <2>2, <2>9, <3>1, <3>2, UpWithout
    <3> QED
      BY <1>3, <1>10, <2>11, <3>3 DEF KeyInv, OnItsWay
  <2>12. console' = Cat(console, C) \/ (console' = console /\ Range(C) \subseteq lost)
    <3>1. CASE x.part = 2
      BY <1>2, <1>9, <2>7, <3>1 DEF Completes
    <3>2. CASE x.part = 1
      <4>1. C = <<>> /\ console' = console
        BY <1>2, <2>7, <3>2
      <4>2. Range(<<>>) = {}
        BY DEF Range
      <4> QED
        BY <4>1, <4>2
    <3> QED
      BY <1>6, <3>1, <3>2
  <2> QED
    BY <2>10, <2>11, <2>12
<1> QED
  BY <1>11, <1>12, <1>13, <1>14, <1>15, <1>16 DEF KeyInv

\* Every step of the two machines preserves the invariant of the keys.
LEMMA KeyNextInv == ASSUME KeyInv, [Next]_vars PROVE KeyInv'
<1>0. console \in Seq(Nat) /\ input \in Seq(Nat) /\ got \in Seq(Nat)
  BY DEF KeyInv, KeyType
<1>1. CASE InputEof
  <2>1. /\ kpc = "read" /\ kpc' = "done"
        /\ UNCHANGED <<typed, nread, escaped, payload, quit, ppc, lock, wire, partial, lost, console, input, got>>
    BY <1>1 DEF InputEof, pageVars, txVars, badgeVars, linkVars, uartVars
  <2>2. /\ \A i : EscapedKey(i)' = EscapedKey(i) /\ ForGuest(i)' = ForGuest(i)
        /\ NoQuit(nread)' = NoQuit(nread) /\ MeantIn(0, nread)' = MeantIn(0, nread)
    <3>1. \A i : EscapedKey(i)' = EscapedKey(i)
      BY <2>1 DEF EscapedKey
    <3>2. \A i : ForGuest(i)' = ForGuest(i)
      BY <2>1, <3>1 DEF ForGuest
    <3> QED
      BY <2>1, <3>1, <3>2 DEF NoQuit, MeantIn
  <2>3. KeyType' /\ ReadingOK' /\ LockOK'
    BY <2>1, <2>2 DEF KeyInv, KeyType, ReadingOK, LockOK
  <2>4. Paired' /\ LastOK' /\ HeadOK'
    BY <2>1 DEF KeyInv, Paired, LastOK, HeadOK, Completes, Opened, Outgoing
  <2>5. Way' = Way
    BY <2>1 DEF Way
  <2> QED
    BY <2>1, <2>2, <2>3, <2>4, <2>5 DEF KeyInv, OnItsWay
<1>2. CASE Exit \/ ReadRequest \/ Ask \/ UNCHANGED vars
  <2>1. /\ UNCHANGED <<typed, nread, escaped, kpc, payload, quit, lock, wire, partial, lost, console, input, got>>
        /\ ppc' = "rest" <=> ppc = "rest"
    BY <1>2 DEF Exit, ReadRequest, Ask, vars, hostVars, keyVars, pageVars, txVars, badgeVars, linkVars, uartVars
  <2>2. Way' = Way
    BY <2>1 DEF Way
  <2> QED
    BY <1>0, <2>1, <2>2, KeyElsewhere
<1> QED
  BY <1>1, <1>2, ReadKeysInv, WritesInv, GiveUpInv, AbsorbInv, UartInv DEF Next, Keyboard, PageLoop

(***************************************************************************)
(* For every script of the operator, however reads cut it and frames       *)
(* interleave: the keys meant for the guest reach it once and in order     *)
(* (pump_input, FrameTx, absorb and the UART), but for those of a frame    *)
(* half way in when an exchange is given up, and no frame of one writer    *)
(* lands inside a frame of the other.                                      *)
(***************************************************************************)
THEOREM KeysAreExact == Spec => []KeysExact
<1>1. Init => KeyInv
  BY KeyInitInv
<1>2. KeyInv /\ [Next]_vars => KeyInv'
  BY KeyNextInv
<1>3. KeyInv => KeysExact
  <2> SUFFICES ASSUME KeyInv PROVE KeysExact
    OBVIOUS
  <2>1. Way = got \o input \o console \o InFlight \o payload
    BY Zenon DEF Way, Cat, InFlight, Flight, Carried
  <2>2. MeantIn(0, nread) = {i \in 1 .. nread : ForGuest(i)}
    <3>1. 0 + 1 = 1
      OBVIOUS
    <3> QED
      BY <3>1 DEF MeantIn
  <2>3. \A j, k \in 1 .. Len(Way) : j < k => Way[j] < Way[k]
    BY DEF KeyInv, OnItsWay, Up
  <2>4. Range(Way) \ lost = {i \in 1 .. nread : ForGuest(i)} \ lost
    BY <2>2 DEF KeyInv, OnItsWay
  <2>5. \A k \in 1 .. Len(wire) - 1 : wire[k].part = 1 => wire[k + 1] = [wire[k] EXCEPT !.part = 2]
    BY DEF KeyInv, Paired
  <2> QED
    BY <2>1, <2>3, <2>4, <2>5, Zenon DEF KeysExact
<1> QED
  BY <1>1, <1>2, <1>3, PTL DEF Spec
===============================================================================
