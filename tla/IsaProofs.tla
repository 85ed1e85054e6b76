------------------------------- MODULE IsaProofs -------------------------------
(***************************************************************************)
(* Proofs about Atomics.tla, for every page size, mapping, granule and set *)
(* of access widths, and about Mmu.tla, for every number of levels, table  *)
(* size, TLB size and set of entries.                                      *)
(*                                                                         *)
(* Atomics: Exact is the inductive invariant: the reservation register     *)
(* says neither more nor less than the history does.  ReservationIntact is *)
(* one half of it and is not enough for the second theorem, which also     *)
(* needs that a reservation is never dropped without a write to its        *)
(* granule.                                                                *)
(*                                                                         *)
(* Mmu: what the TLB holds is among what walks could have found since the  *)
(* last flush; when that is one mapping, it is the tables' own (NowIsSeen) *)
(* and a hit answers as a walk would.  That the walk, a recursion over the *)
(* levels, finds exactly Sv39's chain is shown by induction from the last  *)
(* level up (DescentSettles), with the least-element form of induction.    *)
(***************************************************************************)
EXTENDS Atomics, Mmu, WellFoundedInduction, TLAPS

-------------------------------------------------------------------------------
(* Atomics. *)

\* The reservation is the last LR's while its granule is unwritten, and otherwise is none.
Exact ==
    reservation = IF armed # NONE /\ Span(armed, GRANULE) \cap written = {}
                  THEN armed ELSE NONE

IInv == TypeOK /\ Exact /\ ScExactlyWhenReserved

\* A store overlaps the granule exactly when it writes one of the granule's addresses.
LEMMA Overlap ==
  ASSUME NEW r \in Nat, NEW a \in Nat, NEW n \in Nat \ {0}
  PROVE  (a < r + GRANULE /\ r < a + n) <=> Span(r, GRANULE) \cap Span(a, n) # {}
<1>1. ASSUME a < r + GRANULE, r < a + n
      PROVE  \E x \in Nat : r <= x /\ x <= r + GRANULE - 1 /\ a <= x /\ x <= a + n - 1
  <2>1. CASE r <= a
    BY <1>1, <2>1, AtomicsAssumption
  <2>2. CASE a < r
    BY <1>1, <2>2, AtomicsAssumption
  <2> QED
    BY <2>1, <2>2
<1>2. ASSUME NEW x \in Span(r, GRANULE) \cap Span(a, n)
      PROVE  a < r + GRANULE /\ r < a + n
  BY <1>2, AtomicsAssumption DEF Span
<1>3. \A x \in Nat : r <= x /\ x <= r + GRANULE - 1 /\ a <= x /\ x <= a + n - 1
         => x \in Span(r, GRANULE) \cap Span(a, n)
  BY AtomicsAssumption DEF Span
<1> QED
  BY <1>1, <1>2, <1>3

\* A write of n units at a, followed by invalidate_reservation, keeps Exact.
LEMMA WriteKeepsExact ==
  ASSUME TypeOK, Exact, NEW a \in Nat, NEW n \in Nat \ {0},
         reservation' = invalidate_reservation(reservation, a, n),
         written' = written \cup Span(a, n), armed' = armed
  PROVE  Exact'
<1>0. armed # NONE => armed \in Nat
  BY AtomicsAssumption DEF TypeOK, Phys
<1>1. CASE reservation = NONE
  <2>1. armed # NONE => Span(armed, GRANULE) \cap written # {} \/ armed = NONE
    BY <1>1 DEF Exact
  <2> QED
    BY <1>1, <2>1 DEF Exact, invalidate_reservation
<1>2. CASE reservation # NONE
  <2>1. reservation = armed /\ armed # NONE /\ Span(armed, GRANULE) \cap written = {}
    BY <1>2 DEF Exact
  <2>2. (a < armed + GRANULE /\ armed < a + n) <=> Span(armed, GRANULE) \cap Span(a, n) # {}
    BY <1>0, <2>1, Overlap
  <2>3. Span(armed, GRANULE) \cap written' = Span(armed, GRANULE) \cap Span(a, n)
    BY <2>1
  <2> QED
    BY <2>1, <2>2, <2>3 DEF Exact, invalidate_reservation
<1> QED
  BY <1>1, <1>2

\* The same for the addresses of a straddling store, which are invalidated one by one.
LEMMA UnitsKeepExact ==
  ASSUME TypeOK, Exact, NEW hit \in SUBSET Phys,
         reservation' = IF \E a \in hit : invalidate_reservation(reservation, a, 1) = NONE
                        THEN NONE ELSE reservation,
         written' = written \cup hit, armed' = armed
  PROVE  Exact'
<1>0. armed # NONE => armed \in Nat
  BY AtomicsAssumption DEF TypeOK, Phys
<1>1. CASE reservation = NONE
  <2>1. armed = NONE \/ Span(armed, GRANULE) \cap written # {}
    BY <1>1 DEF Exact
  <2> QED
    BY <1>1, <2>1 DEF Exact
<1>2. CASE reservation # NONE
  <2>1. reservation = armed /\ armed # NONE /\ Span(armed, GRANULE) \cap written = {}
    BY <1>2 DEF Exact
  <2>2. \A a \in hit : invalidate_reservation(armed, a, 1) = NONE <=> a \in Span(armed, GRANULE)
    <3> SUFFICES ASSUME NEW a \in hit
                 PROVE  (a < armed + GRANULE /\ armed < a + 1) <=> a \in Span(armed, GRANULE)
      BY <2>1 DEF invalidate_reservation
    <3> QED
      BY <1>0, <2>1, AtomicsAssumption DEF Span, Phys
  <2>3. Span(armed, GRANULE) \cap written' = Span(armed, GRANULE) \cap hit
    BY <2>1
  <2>4. reservation' = IF \E a \in hit : a \in Span(armed, GRANULE) THEN NONE ELSE armed
    BY <2>1, <2>2
  <2> QED
    BY <2>1, <2>3, <2>4 DEF Exact
<1> QED
  BY <1>1, <1>2

\* A mapped address is a natural number and an access in RAM covers it.
LEMMA TranslateOK ==
  ASSUME TypeOK, NEW va \in VAddrs, Mapped(va)
  PROVE  translate(va) \in Nat
<1>1. map[va[1]] \in Nat /\ va[2] \in Nat
  BY AtomicsAssumption DEF TypeOK, Mapped, VAddrs, Offs
<1>2. \A m, o \in Nat : m * PAGE + o \in Nat
  BY AtomicsAssumption
<1> QED
  BY <1>1, <1>2 DEF translate

\* Nothing is reserved, armed or written at first.
LEMMA InitOK == Init => IInv
BY DEF Init, IInv, TypeOK, Exact, ScExactlyWhenReserved, NoSc

\* Every instruction of the model preserves the invariant.
LEMMA NextOK == IInv /\ [Next]_vars => IInv'
<1> SUFFICES ASSUME IInv, [Next]_vars PROVE IInv'
  OBVIOUS
<1>0. TypeOK /\ Exact /\ ScExactlyWhenReserved
  BY DEF IInv
<1>1. ASSUME NEW va \in VAddrs, NEW n \in Widths, LR(va, n) PROVE IInv'
  <2>1. translate(va) \in Nat /\ n \in Nat \ {0}
    BY <1>0, <1>1, TranslateOK, AtomicsAssumption DEF LR
  <2>2. translate(va) \in Phys
    BY <1>1, <2>1 DEF LR, InRam, Span
  <2>3. translate(va) # NONE
    BY <2>1 DEF NONE
  <2> QED
    BY <1>0, <1>1, <2>2, <2>3
    DEF LR, IInv, TypeOK, Exact, ScExactlyWhenReserved, NoSc
<1>2. ASSUME NEW va \in VAddrs, NEW n \in Widths, SC(va, n) PROVE IInv'
  <2>1. translate(va) # NONE
    BY <1>0, <1>2, TranslateOK DEF SC, NONE
  <2>2. TypeOK' /\ Exact'
    BY <1>0, <1>2 DEF SC, TypeOK, Exact, InRam
  <2>3. reservation = translate(va) <=>
           armed = translate(va) /\ Span(translate(va), GRANULE) \cap written = {}
    BY <1>0, <2>1 DEF Exact
  <2>4. ScExactlyWhenReserved'
    BY <1>2, <2>3 DEF SC, ScExactlyWhenReserved, NoSc
  <2> QED
    BY <2>2, <2>4 DEF IInv
<1>3. ASSUME NEW va \in VAddrs, NEW n \in Widths \cup StoreSizes,
             AMO(va, n) \/ Store(va, n)
      PROVE  IInv'
  <2>1. translate(va) \in Nat /\ n \in Nat \ {0}
    BY <1>0, <1>3, TranslateOK, AtomicsAssumption DEF AMO, Store
  <2>2. Exact'
    BY <1>0, <1>3, <2>1, WriteKeepsExact DEF AMO, Store
  <2>3. TypeOK'
    BY <1>0, <1>3 DEF AMO, Store, TypeOK, InRam, invalidate_reservation
  <2>4. ScExactlyWhenReserved'
    BY <1>3 DEF AMO, Store, ScExactlyWhenReserved, NoSc
  <2> QED
    BY <2>2, <2>3, <2>4 DEF IInv
<1>4. ASSUME NEW va \in VAddrs, NEW n \in StoreSizes, StraddlingStore(va, n) PROVE IInv'
  <2> DEFINE k == IF Mapped(<<va[1] + 1, 0>>) THEN n ELSE PAGE - va[2]
             hit == {At(va, i) : i \in 0 .. k - 1}
  <2>1. /\ hit \in SUBSET Phys
        /\ reservation' = IF \E a \in hit : invalidate_reservation(reservation, a, 1) = NONE
                          THEN NONE ELSE reservation
        /\ written' = written \cup hit
        /\ sc' = NoSc /\ map' = map /\ armed' = armed
    BY <1>4 DEF StraddlingStore
  <2> HIDE DEF hit
  <2>2. Exact'
    BY <1>0, <2>1, UnitsKeepExact
  <2>3. TypeOK'
    BY <1>0, <2>1 DEF TypeOK
  <2>4. ScExactlyWhenReserved'
    BY <2>1 DEF ScExactlyWhenReserved, NoSc
  <2> QED
    BY <2>2, <2>3, <2>4 DEF IInv
<1>5. ASSUME NEW v \in VPages, NEW p \in (0 .. PhysPages - 1) \cup {UNMAPPED}, Remap(v, p)
      PROVE  IInv'
  BY <1>0, <1>5 DEF Remap, IInv, TypeOK, Exact, ScExactlyWhenReserved, NoSc
<1>6. CASE UNCHANGED vars
  BY <1>0, <1>6 DEF vars, IInv, TypeOK, Exact, ScExactlyWhenReserved
<1> QED
  BY <1>1, <1>2, <1>3, <1>4, <1>5, <1>6 DEF Next

(***************************************************************************)
(* The inductive invariant holds of every state of Atomics.                *)
(***************************************************************************)
THEOREM Invariance == Spec => []IInv
BY InitOK, NextOK, PTL DEF Spec

(***************************************************************************)
(* For every memory layout and mapping, a reservation that rv64a.rs keeps  *)
(* is the last LR's and its granule has not been written since.            *)
(***************************************************************************)
THEOREM ReservationSound == Spec => []ReservationIntact
<1>1. IInv => ReservationIntact
  BY DEF IInv, Exact, ReservationIntact
<1> QED
  BY <1>1, Invariance, PTL

(***************************************************************************)
(* For every memory layout and mapping, the SC of rv64a.rs succeeds        *)
(* exactly when no write to the granule and no SC came since its LR.       *)
(***************************************************************************)
THEOREM ScExact == Spec => []ScExactlyWhenReserved
<1>1. IInv => ScExactlyWhenReserved
  BY DEF IInv
<1> QED
  BY <1>1, Invariance, PTL

(***************************************************************************)
(* LR and SC as a whole, for every memory layout and mapping.              *)
(***************************************************************************)
THEOREM LrScSound == Spec => []ReservationsSound
<1>1. ReservationIntact /\ ScExactlyWhenReserved => ReservationsSound
  BY DEF ReservationsSound
<1> QED
  BY <1>1, ReservationSound, ScExact, PTL

-------------------------------------------------------------------------------
(* Mmu: the walk. *)

\* Every nonempty set of naturals has a least element.
LEMMA LeastNatural ==
  ASSUME NEW T \in SUBSET Nat, T # {}
  PROVE  \E x \in T : \A y \in T : x <= y
<1>1. IsWellFoundedOn(OpToRel(<, Nat), Nat)
  BY NatLessThanWellFounded
<1>2. PICK x \in T : \A y \in T : ~ (<<y, x>> \in OpToRel(<, Nat))
  BY <1>1, WFMin
<1>3. \A y \in T : ~(y < x)
  BY <1>2 DEF OpToRel
<1> QED
  BY <1>3

\* Induction over the naturals, for a set of them.
LEMMA SetInduction ==
  ASSUME NEW T \in SUBSET Nat, 0 \in T, \A n \in T : n + 1 \in T
  PROVE  T = Nat
<1> SUFFICES ASSUME Nat \ T # {} PROVE FALSE
  OBVIOUS
<1>1. PICK x \in Nat \ T : \A y \in Nat \ T : x <= y
  BY LeastNatural
<1>2. x - 1 \in Nat /\ x - 1 \in T
  BY <1>1
<1> QED
  BY <1>1, <1>2

\* One level of the walk for v: what table t of level l gives, when below gives the level under it.
Down(below, l, t, v) ==
    IF l = LEVELS THEN Nothing
    ELSE LET e == table[t][(v \div Size(l)) % FAN]
         IN  IF ~e.v THEN Nothing
             ELSE IF IsLeaf(e)
             THEN IF e.ppn % Size(l) # 0 THEN Nothing
                  ELSE Leaf(e.ppn + (v % Size(l)), e.perms)
             ELSE IF e.ppn \in Tables THEN below[e.ppn] ELSE Nothing

\* f is the walk's recursion, from level k down.
Descends(f, k, v) == f = [l \in k .. LEVELS |-> [t \in Tables |-> Down(f[l + 1], l, t, v)]]

\* The recursion has a solution: from the last level up, one level more each time.
LEMMA DescendsExists ==
  ASSUME NEW v
  PROVE  \E f : Descends(f, 0, v)
<1> DEFINE T == {n \in Nat : n <= LEVELS => \E f : Descends(f, LEVELS - n, v)}
<1>0. LEVELS \in Nat /\ LEVELS # 0
  BY MmuAssumption
<1>1. 0 \in T
  <2> DEFINE f == [l \in LEVELS .. LEVELS |-> [t \in Tables |-> Nothing]]
  <2>1. LEVELS - 0 = LEVELS /\ \A l \in LEVELS .. LEVELS : l = LEVELS
    BY <1>0
  <2>2. f = [l \in LEVELS .. LEVELS |-> [t \in Tables |-> Down(f[l + 1], l, t, v)]]
    BY <2>1 DEF Down
  <2>3. Descends(f, LEVELS - 0, v)
    BY <2>1, <2>2 DEF Descends
  <2> QED
    BY <2>3
<1>2. ASSUME NEW n \in T PROVE n + 1 \in T
  <2>a. n \in Nat
    OBVIOUS
  <2>b. CASE ~(n + 1 <= LEVELS)
    BY <2>a, <2>b
  <2>c. CASE n + 1 <= LEVELS
    <3>1. PICK k \in Nat : k = LEVELS - (n + 1)
      BY <1>0, <2>a, <2>c
    <3>2. LEVELS - n = k + 1 /\ n <= LEVELS /\ k < LEVELS
      BY <1>0, <2>a, <2>c, <3>1
    <3>3. PICK g : Descends(g, k + 1, v)
      BY <3>2
    <3> DEFINE h == [l \in k .. LEVELS |-> IF l = k THEN [t \in Tables |-> Down(g[k + 1], k, t, v)] ELSE g[l]]
    <3>4. \A l \in k .. LEVELS : h[l] = [t \in Tables |-> Down(h[l + 1], l, t, v)]
      <4> TAKE l \in k .. LEVELS
      <4>1. CASE l = k
        <5>1. k + 1 \in k .. LEVELS /\ k + 1 # k /\ k \in k .. LEVELS
          BY <1>0, <3>1, <3>2
        <5>2. h[k + 1] = g[k + 1] /\ h[k] = [t \in Tables |-> Down(g[k + 1], k, t, v)]
          BY <5>1
        <5> HIDE DEF h
        <5> QED
          BY <4>1, <5>2
      <4>2. CASE l # k
        <5>1. l \in k + 1 .. LEVELS
          BY <1>0, <3>1, <4>2
        <5>2. h[l] = g[l]
          BY <4>2
        <5>3. g[l] = [t \in Tables |-> Down(g[l + 1], l, t, v)]
          BY <3>3, <5>1 DEF Descends
        <5>4. CASE l = LEVELS
          <6>1. \A w, t : Down(w, l, t, v) = Nothing
            BY <5>4 DEF Down
          <6> HIDE DEF h
          <6> QED
            BY <5>2, <5>3, <6>1
        <5>5. CASE l # LEVELS
          <6>1. l + 1 \in k .. LEVELS /\ l + 1 # k
            BY <1>0, <3>1, <5>1, <5>5
          <6>2. h[l + 1] = g[l + 1]
            BY <6>1
          <6> HIDE DEF h
          <6> QED
            BY <5>2, <5>3, <6>2
        <5> QED
          BY <5>4, <5>5
      <4> QED
        BY <4>1, <4>2
    <3>5. h = [l \in k .. LEVELS |-> h[l]]
      OBVIOUS
    <3> HIDE DEF h
    <3>6. h = [l \in k .. LEVELS |-> [t \in Tables |-> Down(h[l + 1], l, t, v)]]
      BY <3>4, <3>5
    <3>7. \E f : Descends(f, k, v)
      BY <3>6 DEF Descends
    <3> QED
      BY <2>a, <3>1, <3>7
  <2> QED
    BY <2>b, <2>c
<1>3. T \in SUBSET Nat
  OBVIOUS
<1> HIDE DEF T
<1>4. T = Nat
  BY <1>1, <1>2, <1>3, SetInduction
<1>5. LEVELS \in T /\ LEVELS <= LEVELS /\ LEVELS - LEVELS = 0
  BY <1>0, <1>4
<1> QED
  BY <1>5 DEF T

\* The walk is the recursion from the root table.
LEMMA WalkDescends ==
  ASSUME NEW v
  PROVE  \E f : Descends(f, 0, v) /\ walk(table, satp, v) = f[0][satp]
<1> DEFINE F == CHOOSE f : f = [l \in 0 .. LEVELS |-> [t \in Tables |-> Down(f[l + 1], l, t, v)]]
<1>1. \E f : f = [l \in 0 .. LEVELS |-> [t \in Tables |-> Down(f[l + 1], l, t, v)]]
  BY DescendsExists DEF Descends
<1>2. Descends(F, 0, v)
  BY <1>1 DEF Descends
<1>3. walk(table, satp, v) = F[0][satp]
  BY Zenon DEF walk, Down
<1> QED
  BY <1>2, <1>3

\* The entry of level n that the chain c leads to, and whether c is a chain of n + 1 tables.
Entry(c, n, v) == table[c[n]][Index(v, n)]
Linked(c, n, v) == \A l \in 1 .. n : /\ Entry(c, l - 1, v).v
                                     /\ ~IsLeaf(Entry(c, l - 1, v))
                                     /\ Entry(c, l - 1, v).ppn = c[l]
Chain(c, n, v) == c \in [0 .. n -> Tables] /\ c[0] = satp /\ Linked(c, n, v)

\* The entry maps the page; the answer it gives.
Maps(e, n) == e.v /\ IsLeaf(e) /\ e.ppn % Size(n) = 0
Found(e, n, v) == Leaf(e.ppn + (v % Size(n)), e.perms)

\* Sv39's answers, in these words.
LEMMA Sv39Chains ==
  ASSUME NEW v, NEW p, NEW a, NEW r
  PROVE  r \in Sv39(v, p, a) <=>
           \E n \in 0 .. LEVELS - 1 : \E c :
             /\ Chain(c, n, v) /\ Maps(Entry(c, n, v), n)
             /\ check_perms(Entry(c, n, v).perms, p, a)
             /\ r = [ok |-> TRUE, ppn |-> Entry(c, n, v).ppn + (v % Size(n))]
<1>0. LEVELS \in Nat
  BY MmuAssumption
<1>1. \A c : \A n \in 0 .. LEVELS - 1 :
        c \in Chains(v) /\ DOMAIN c = 0 .. n <=> Chain(c, n, v)
  <2> SUFFICES ASSUME NEW c, NEW n \in 0 .. LEVELS - 1
               PROVE  c \in Chains(v) /\ DOMAIN c = 0 .. n <=> Chain(c, n, v)
    OBVIOUS
  <2>1. (0 .. n) \ {0} = 1 .. n
    BY <1>0
  <2>2. ASSUME c \in Chains(v), DOMAIN c = 0 .. n PROVE Chain(c, n, v)
    <3>1. PICK m \in 0 .. LEVELS - 1 : c \in [0 .. m -> Tables]
      BY <2>2 DEF Chains
    <3>2. c \in [0 .. n -> Tables]
      BY <2>2, <3>1
    <3>3. /\ c[0] = satp
          /\ \A l \in DOMAIN c \ {0} :
               LET up == table[c[l - 1]][Index(v, l - 1)] IN up.v /\ ~IsLeaf(up) /\ up.ppn = c[l]
      BY <2>2 DEF Chains
    <3> QED
      BY <2>1, <2>2, <3>2, <3>3 DEF Chain, Linked, Entry
  <2>3. ASSUME Chain(c, n, v) PROVE c \in Chains(v) /\ DOMAIN c = 0 .. n
    <3>1. c \in [0 .. n -> Tables] /\ DOMAIN c = 0 .. n
      BY <2>3 DEF Chain
    <3>2. c \in UNION {[0 .. m -> Tables] : m \in 0 .. LEVELS - 1}
      BY <3>1
    <3>3. /\ c[0] = satp
          /\ \A l \in DOMAIN c \ {0} :
               LET up == table[c[l - 1]][Index(v, l - 1)] IN up.v /\ ~IsLeaf(up) /\ up.ppn = c[l]
      BY <2>1, <2>3, <3>1 DEF Chain, Linked, Entry
    <3> QED
      BY <3>1, <3>2, <3>3 DEF Chains
  <2> QED
    BY <2>2, <2>3
<1> DEFINE Good(c, n) == /\ DOMAIN c = 0 .. n
                         /\ Maps(Entry(c, n, v), n) /\ check_perms(Entry(c, n, v).perms, p, a)
           Answer(c, n) == [ok |-> TRUE, ppn |-> Entry(c, n, v).ppn + (v % Size(n))]
<1>2. Sv39(v, p, a) = {Answer(x[1], x[2]) : x \in {y \in Chains(v) \X (0 .. LEVELS - 1) : Good(y[1], y[2])}}
  BY DEF Sv39, Entry, Maps
<1>3. r \in Sv39(v, p, a) <=> \E n \in 0 .. LEVELS - 1 : \E c \in Chains(v) : Good(c, n) /\ r = Answer(c, n)
  <2> DEFINE X == {y \in Chains(v) \X (0 .. LEVELS - 1) : Good(y[1], y[2])}
  <2> HIDE DEF Good, Answer
  <2>1. ASSUME r \in Sv39(v, p, a)
        PROVE  \E n \in 0 .. LEVELS - 1 : \E c \in Chains(v) : Good(c, n) /\ r = Answer(c, n)
    <3>1. PICK x \in X : r = Answer(x[1], x[2])
      BY <1>2, <2>1
    <3>2. x[1] \in Chains(v) /\ x[2] \in 0 .. LEVELS - 1 /\ Good(x[1], x[2])
      OBVIOUS
    <3> QED
      BY <3>1, <3>2
  <2>2. ASSUME NEW n \in 0 .. LEVELS - 1, NEW c \in Chains(v), Good(c, n), r = Answer(c, n)
        PROVE  r \in Sv39(v, p, a)
    <3>1. <<c, n>> \in X
      BY <2>2
    <3>2. r = Answer(<<c, n>>[1], <<c, n>>[2])
      BY <2>2
    <3> HIDE DEF X
    <3>3. \E x \in X : r = Answer(x[1], x[2])
      BY <3>1, <3>2, Zenon
    <3>4. r \in {Answer(x[1], x[2]) : x \in X}
      BY <3>3
    <3> QED
      BY <1>2, <3>4 DEF X
  <2> QED
    BY <2>1, <2>2
<1> QED
  BY <1>1, <1>3

\* Two chains for the same page agree as far as both go.
LEMMA ChainsAgree ==
  ASSUME NEW v, NEW c, NEW d, NEW m \in Nat, NEW n \in Nat, m <= n, Chain(c, m, v), Chain(d, n, v)
  PROVE  \A l \in 0 .. m : c[l] = d[l]
<1> DEFINE T == {l \in 0 .. m : c[l] # d[l]}
<1> SUFFICES ASSUME T # {} PROVE FALSE
  OBVIOUS
<1>1. PICK l \in T : \A y \in T : l <= y
  <2>1. T \in SUBSET Nat
    OBVIOUS
  <2> HIDE DEF T
  <2> QED
    BY <2>1, LeastNatural
<1>2. l \in 0 .. m /\ c[l] # d[l]
  BY <1>1
<1>3. l # 0
  BY <1>2 DEF Chain
<1>4. l \in 1 .. m /\ l \in 1 .. n /\ l - 1 \in 0 .. m /\ ~(l <= l - 1)
  BY <1>2, <1>3
<1>5. c[l - 1] = d[l - 1]
  BY <1>1, <1>4
<1>6. Entry(c, l - 1, v).ppn = c[l] /\ Entry(d, l - 1, v).ppn = d[l]
  BY <1>4 DEF Chain, Linked
<1> QED
  BY <1>2, <1>5, <1>6 DEF Entry

\* A chain whose last entry points to a table is one table longer.
LEMMA ChainGrows ==
  ASSUME NEW v, NEW n \in Nat, NEW c, Chain(c, n, v),
         Entry(c, n, v).v, ~IsLeaf(Entry(c, n, v)), Entry(c, n, v).ppn \in Tables
  PROVE  \E d : Chain(d, n + 1, v) /\ d[n + 1] = Entry(c, n, v).ppn
<1> DEFINE d == [l \in 0 .. n + 1 |-> IF l = n + 1 THEN Entry(c, n, v).ppn ELSE c[l]]
<1>1. c \in [0 .. n -> Tables] /\ c[0] = satp /\ Linked(c, n, v)
  BY DEF Chain
<1>2. \A l \in 0 .. n : l \in 0 .. n + 1 /\ l # n + 1
  OBVIOUS
<1>3. n + 1 \in 0 .. n + 1 /\ 0 \in 0 .. n /\ n \in 0 .. n
  OBVIOUS
<1>4. d \in [0 .. n + 1 -> Tables]
  <2> SUFFICES ASSUME NEW l \in 0 .. n + 1, l # n + 1 PROVE c[l] \in Tables
    OBVIOUS
  <2>1. l \in 0 .. n
    OBVIOUS
  <2> QED
    BY <1>1, <2>1
<1>5. \A l \in 0 .. n : d[l] = c[l]
  BY <1>2
<1>6. d[n + 1] = Entry(c, n, v).ppn
  BY <1>3
<1> HIDE DEF d
<1>7. \A l \in 0 .. n : Entry(d, l, v) = Entry(c, l, v)
  BY <1>5 DEF Entry
<1>8. \A l \in 1 .. n + 1 : /\ Entry(d, l - 1, v).v
                            /\ ~IsLeaf(Entry(d, l - 1, v))
                            /\ Entry(d, l - 1, v).ppn = d[l]
  <2> TAKE l \in 1 .. n + 1
  <2>1. CASE l = n + 1
    <3>1. l - 1 = n
      BY <2>1
    <3>2. Entry(d, n, v) = Entry(c, n, v)
      BY <1>3, <1>7
    <3> QED
      BY <1>6, <2>1, <3>1, <3>2
  <2>2. CASE l # n + 1
    <3>1. l \in 1 .. n /\ l - 1 \in 0 .. n /\ l \in 0 .. n
      BY <2>2
    <3>2. Entry(d, l - 1, v) = Entry(c, l - 1, v) /\ d[l] = c[l]
      BY <1>5, <1>7, <3>1
    <3> QED
      BY <1>1, <3>1, <3>2 DEF Linked
  <2> QED
    BY <2>1, <2>2
<1>9. d[0] = satp
  BY <1>1, <1>3, <1>5
<1> QED
  BY <1>4, <1>6, <1>8, <1>9 DEF Chain, Linked

\* Some chain through level l or below maps the page as w says; if w is nothing, none does.
Settles(w, l, v) ==
    IF w = Nothing
    THEN \A n \in l .. LEVELS - 1 : \A d : Chain(d, n, v) => ~Maps(Entry(d, n, v), n)
    ELSE \E n \in l .. LEVELS - 1 : \E d :
           Chain(d, n, v) /\ Maps(Entry(d, n, v), n) /\ w = Found(Entry(d, n, v), n, v)

\* What the recursion finds from a table a chain leads to is what the chains say.
LEMMA DescentSettles ==
  ASSUME NEW v, NEW f, Descends(f, 0, v)
  PROVE  \A l \in 0 .. LEVELS - 1 : \A c : Chain(c, l, v) => Settles(f[l][c[l]], l, v)
<1>0. LEVELS \in Nat /\ LEVELS # 0
  BY MmuAssumption
<1> DEFINE Good(l) == \A c : Chain(c, l, v) => Settles(f[l][c[l]], l, v)
           T == {n \in Nat : n < LEVELS => Good(LEVELS - 1 - n)}
<1>1. \A l \in 0 .. LEVELS : \A t \in Tables : f[l][t] = Down(f[l + 1], l, t, v)
  <2> TAKE l \in 0 .. LEVELS
  <2>1. f[l] = [t \in Tables |-> Down(f[l + 1], l, t, v)]
    BY DEF Descends
  <2> QED
    BY <2>1
<1>2. ASSUME NEW l \in 0 .. LEVELS - 1, l + 1 \in 0 .. LEVELS - 1 => Good(l + 1)
      PROVE  Good(l)
  <2> SUFFICES ASSUME NEW c, Chain(c, l, v) PROVE Settles(f[l][c[l]], l, v)
    OBVIOUS
  <2> DEFINE e == Entry(c, l, v)
             w == f[l][c[l]]
  <2>0. l \in Nat /\ l # LEVELS /\ l \in 0 .. LEVELS /\ l \in 0 .. l /\ l \in l .. LEVELS - 1
    BY <1>0
  <2>1. c[l] \in Tables
    BY <2>0 DEF Chain
  <2>2. w = IF ~e.v THEN Nothing
            ELSE IF IsLeaf(e)
            THEN IF e.ppn % Size(l) # 0 THEN Nothing ELSE Found(e, l, v)
            ELSE IF e.ppn \in Tables THEN f[l + 1][e.ppn] ELSE Nothing
    <3>1. w = Down(f[l + 1], l, c[l], v)
      BY <1>1, <2>0, <2>1
    <3> QED
      BY <2>0, <3>1 DEF Down, Entry, Index, Found
  <2>3. \A n \in l .. LEVELS - 1 : \A d : Chain(d, n, v) => Entry(d, l, v) = e
    <3> SUFFICES ASSUME NEW n \in l .. LEVELS - 1, NEW d, Chain(d, n, v) PROVE d[l] = c[l]
      BY DEF Entry
    <3>1. n \in Nat /\ l <= n
      BY <1>0
    <3> QED
      BY <2>0, <3>1, ChainsAgree
  <2>4. \A n \in l .. LEVELS - 1 : \A d : Chain(d, n, v) /\ n # l =>
           e.v /\ ~IsLeaf(e) /\ e.ppn \in Tables
    <3> SUFFICES ASSUME NEW n \in l .. LEVELS - 1, NEW d, Chain(d, n, v), n # l
                 PROVE  e.v /\ ~IsLeaf(e) /\ e.ppn \in Tables
      OBVIOUS
    <3>1. l + 1 \in 1 .. n /\ (l + 1) - 1 = l /\ l + 1 \in 0 .. n
      BY <1>0
    <3>2. d \in [0 .. n -> Tables] /\ d[l + 1] \in Tables
      BY <3>1 DEF Chain
    <3>3. Entry(d, l, v).v /\ ~IsLeaf(Entry(d, l, v)) /\ Entry(d, l, v).ppn = d[l + 1]
      BY <3>1 DEF Chain, Linked
    <3> QED
      BY <2>3, <3>2, <3>3
  <2>5. \A n \in l .. LEVELS - 1 : n = l \/ n \in l + 1 .. LEVELS - 1
    BY <1>0
  <2>6. \A n \in l + 1 .. LEVELS - 1 : n \in l .. LEVELS - 1 /\ n # l
    BY <1>0
  <2> HIDE DEF w, e, Good
  <2>7. CASE ~e.v \/ IsLeaf(e) \/ e.ppn \notin Tables
    <3>1. \A n \in l .. LEVELS - 1 : \A d : Chain(d, n, v) => n = l /\ Entry(d, n, v) = e
      BY <2>3, <2>4, <2>7
    <3>2. CASE Maps(e, l)
      <4>1. w = Found(e, l, v) /\ w # Nothing
        BY <2>2, <3>2 DEF Maps, Found, Leaf, Nothing
      <4> QED
        BY <2>0, <3>2, <4>1 DEF Settles, e, w
    <3>3. CASE ~Maps(e, l)
      <4>1. w = Nothing
        BY <2>2, <2>7, <3>3 DEF Maps
      <4> QED
        BY <3>1, <3>3, <4>1 DEF Settles, w
    <3> QED
      BY <3>2, <3>3
  <2>8. CASE e.v /\ ~IsLeaf(e) /\ e.ppn \in Tables
    <3>1. w = f[l + 1][e.ppn]
      BY <2>2, <2>8
    <3>2. \A d : Chain(d, l, v) => ~Maps(Entry(d, l, v), l)
      BY <2>0, <2>3, <2>8 DEF Maps
    <3>3. CASE l + 1 \in 0 .. LEVELS - 1
      <4>1. PICK d : Chain(d, l + 1, v) /\ d[l + 1] = e.ppn
        BY <2>0, <2>8, ChainGrows DEF e
      <4>2. Settles(w, l + 1, v)
        BY <1>2, <3>1, <3>3, <4>1 DEF Good
      <4> QED
        <5>1. CASE w = Nothing
          BY <2>5, <3>2, <4>2, <5>1 DEF Settles, w
        <5>2. CASE w # Nothing
          BY <2>6, <4>2, <5>2 DEF Settles, w
        <5> QED
          BY <5>1, <5>2
    <3>4. CASE l + 1 \notin 0 .. LEVELS - 1
      <4>1. l + 1 = LEVELS /\ l + 1 \in 0 .. LEVELS /\ \A n \in l .. LEVELS - 1 : n = l
        BY <1>0, <3>4
      <4>2. w = Nothing
        BY <1>1, <2>8, <3>1, <4>1 DEF Down
      <4> QED
        BY <3>2, <4>1, <4>2 DEF Settles, w
    <3> QED
      BY <3>3, <3>4
  <2> QED
    BY <2>7, <2>8
<1> HIDE DEF Good
<1>3. 0 \in T
  <2>1. LEVELS - 1 - 0 = LEVELS - 1 /\ LEVELS - 1 \in 0 .. LEVELS - 1 /\ (LEVELS - 1) + 1 \notin 0 .. LEVELS - 1
    BY <1>0
  <2>2. Good(LEVELS - 1)
    BY <1>2, <2>1
  <2> QED
    BY <2>1, <2>2
<1>4. ASSUME NEW n \in T PROVE n + 1 \in T
  <2>0. n \in Nat /\ (n < LEVELS => Good(LEVELS - 1 - n))
    OBVIOUS
  <2>1. CASE ~(n + 1 < LEVELS)
    BY <2>0, <2>1
  <2>2. CASE n + 1 < LEVELS
    <3>1. PICK l \in 0 .. LEVELS - 1 : l = LEVELS - 1 - (n + 1)
      BY <1>0, <2>0, <2>2
    <3>2. l + 1 = LEVELS - 1 - n /\ n < LEVELS
      BY <1>0, <2>0, <2>2, <3>1
    <3>3. Good(l + 1)
      BY <2>0, <3>2
    <3>4. Good(l)
      BY <1>2, <3>3
    <3> QED
      BY <2>0, <3>1, <3>4
  <2> QED
    BY <2>1, <2>2
<1>5. T \in SUBSET Nat
  OBVIOUS
<1> HIDE DEF T
<1>6. T = Nat
  BY <1>3, <1>4, <1>5, SetInduction
<1>7. \A l \in 0 .. LEVELS - 1 : Good(l)
  <2> TAKE l \in 0 .. LEVELS - 1
  <2>1. PICK n \in Nat : n = LEVELS - 1 - l
    BY <1>0
  <2>2. n < LEVELS /\ LEVELS - 1 - n = l
    BY <1>0, <2>1
  <2>3. n \in T
    BY <1>6, <2>1
  <2>4. Good(LEVELS - 1 - n)
    BY <2>2, <2>3 DEF T
  <2> QED
    BY <2>2, <2>4
<1> QED
  BY <1>7 DEF Good

\* What a walk from a table of the model finds is what the chains say.
LEMMA WalkSettles ==
  ASSUME NEW v, satp \in Tables
  PROVE  Settles(walk(table, satp, v), 0, v)
<1>0. 0 \in 0 .. LEVELS - 1 /\ 0 \in 0 .. 0 /\ (1 .. 0) = {}
  BY MmuAssumption
<1>1. PICK f : Descends(f, 0, v) /\ walk(table, satp, v) = f[0][satp]
  BY WalkDescends
<1> DEFINE c == [l \in 0 .. 0 |-> satp]
<1>2. c \in [0 .. 0 -> Tables] /\ c[0] = satp
  BY <1>0
<1> HIDE DEF c
<1>3. Chain(c, 0, v)
  BY <1>0, <1>2 DEF Chain, Linked
<1> QED
  BY <1>0, <1>1, <1>2, <1>3, DescentSettles

\* At most one entry maps a page.
LEMMA MapsOnce ==
  ASSUME NEW v, NEW m \in Nat, NEW n \in Nat, NEW c, NEW d,
         Chain(c, m, v), Maps(Entry(c, m, v), m), Chain(d, n, v), Maps(Entry(d, n, v), n)
  PROVE  m = n /\ Entry(c, m, v) = Entry(d, n, v)
<1>1. ASSUME NEW i \in Nat, NEW j \in Nat, i <= j, NEW x, NEW y,
             Chain(x, i, v), IsLeaf(Entry(x, i, v)), Chain(y, j, v)
      PROVE  i = j /\ Entry(x, i, v) = Entry(y, j, v)
  <2>1. x[i] = y[i]
    <3>1. i \in 0 .. i
      OBVIOUS
    <3> QED
      BY <1>1, <3>1, ChainsAgree
  <2>2. Entry(x, i, v) = Entry(y, i, v)
    BY <2>1 DEF Entry
  <2>3. i = j
    <3> SUFFICES ASSUME i # j PROVE FALSE
      OBVIOUS
    <3>1. i + 1 \in 1 .. j /\ (i + 1) - 1 = i
      BY <1>1
    <3>2. ~IsLeaf(Entry(y, i, v))
      BY <1>1, <3>1 DEF Chain, Linked
    <3> QED
      BY <1>1, <2>2, <3>2
  <2> QED
    BY <2>2, <2>3
<1>2. IsLeaf(Entry(c, m, v)) /\ IsLeaf(Entry(d, n, v))
  BY DEF Maps
<1>3. CASE m <= n
  BY <1>1, <1>2, <1>3
<1>4. CASE n <= m
  BY <1>1, <1>2, <1>4
<1> QED
  BY <1>3, <1>4

\* What Sv39 answers, in terms of what the walk finds.
LEMMA WalkIsSv39 ==
  ASSUME NEW v, NEW p, NEW a, satp \in Tables
  PROVE  \/ walk(table, satp, v) = Nothing /\ Sv39(v, p, a) = {}
         \/ \E ppn, perms :
              /\ walk(table, satp, v) = Leaf(ppn, perms)
              /\ check_perms(perms, p, a) => [ok |-> TRUE, ppn |-> ppn] \in Sv39(v, p, a)
              /\ ~check_perms(perms, p, a) => Sv39(v, p, a) = {}
<1> DEFINE w == walk(table, satp, v)
<1>0. \A n \in 0 .. LEVELS - 1 : n \in Nat
  BY MmuAssumption
<1>1. Settles(w, 0, v)
  BY WalkSettles
<1> HIDE DEF w
<1>2. CASE w = Nothing
  <2>1. \A n \in 0 .. LEVELS - 1 : \A d : Chain(d, n, v) => ~Maps(Entry(d, n, v), n)
    BY <1>1, <1>2 DEF Settles
  <2>2. \A r : r \notin Sv39(v, p, a)
    BY <2>1, Sv39Chains
  <2> QED
    BY <1>2, <2>2 DEF w
<1>3. CASE w # Nothing
  <2>1. PICK n, d :
           /\ n \in 0 .. LEVELS - 1
           /\ Chain(d, n, v) /\ Maps(Entry(d, n, v), n) /\ w = Found(Entry(d, n, v), n, v)
    BY <1>1, <1>3 DEF Settles
  <2> DEFINE e == Entry(d, n, v)
             ppn == e.ppn + (v % Size(n))
  <2>2. w = Leaf(ppn, e.perms)
    BY <2>1 DEF Found
  <2>3. check_perms(e.perms, p, a) => [ok |-> TRUE, ppn |-> ppn] \in Sv39(v, p, a)
    BY <2>1, Sv39Chains
  <2>4. ASSUME ~check_perms(e.perms, p, a) PROVE Sv39(v, p, a) = {}
    <3> SUFFICES ASSUME NEW r \in Sv39(v, p, a) PROVE FALSE
      OBVIOUS
    <3>1. PICK m, c :
             /\ m \in 0 .. LEVELS - 1
             /\ Chain(c, m, v) /\ Maps(Entry(c, m, v), m) /\ check_perms(Entry(c, m, v).perms, p, a)
      BY Sv39Chains
    <3>2. Entry(c, m, v) = e
      BY <1>0, <2>1, <3>1, MapsOnce
    <3> QED
      BY <2>4, <3>1, <3>2
  <2> HIDE DEF ppn, e
  <2> QED
    BY <2>2, <2>3, <2>4 DEF w
<1> QED
  BY <1>2, <1>3

-------------------------------------------------------------------------------
(* The TLB. *)

\* The state's shape, as far as the argument needs it.
MmuType == /\ satp \in Tables \cup {BARE}
           /\ tlb = [s \in Slots |-> tlb[s]]
           /\ \A s \in Slots : tlb[s].valid => tlb[s].vpn \in Vpns
           /\ seen = [v \in Vpns |-> seen[v]]

\* The tables as they are now are among what walks could have found since the last flush.
NowIsSeen == \A v \in Vpns : MappedPages(table, satp)[v] \in seen[v]

MmuInv == MmuType /\ NowIsSeen /\ CachedWasMapped /\ TranslationIsSv39

\* A page's slot is one of the TLB's.
LEMMA SlotOK == \A v \in Vpns : slot(v) \in Slots
<1>1. \A n, v : v \in 0 .. n => v \in Nat
  OBVIOUS
<1>2. \A v \in Vpns : v \in Nat
  BY <1>1, Zenon DEF Vpns
<1>3. \A v \in Nat : v % TLB_ENTRIES \in 0 .. TLB_ENTRIES - 1
  BY MmuAssumption
<1> QED
  BY <1>2, <1>3 DEF slot, Slots

\* At first nothing is cached and nothing is mapped.
LEMMA MmuInitInv == ASSUME MmuInit PROVE MmuInv
<1>1. MmuType
  BY DEF MmuInit, MmuType, Empty
<1>2. NowIsSeen
  BY DEF MmuInit, NowIsSeen, MappedPages
<1>3. CachedWasMapped
  BY DEF MmuInit, CachedWasMapped, Empty
<1>4. TranslationIsSv39
  BY DEF MmuInit, TranslationIsSv39
<1> QED
  BY <1>1, <1>2, <1>3, <1>4 DEF MmuInv

\* A flush leaves nothing cached, and only the tables as they are.
LEMMA FlushInv ==
  ASSUME MmuInv, satp' \in Tables \cup {BARE}, flush(table', satp')
  PROVE  MmuInv'
<1>1. MmuType'
  BY DEF flush, MmuType, Empty
<1>2. NowIsSeen'
  <2>1. seen' = [v \in Vpns |-> {MappedPages(table', satp')[v]}]
    BY DEF flush
  <2> QED
    BY <2>1 DEF NowIsSeen
<1>3. CachedWasMapped'
  BY DEF flush, CachedWasMapped, Empty
<1>4. TranslationIsSv39'
  BY DEF flush, TranslationIsSv39
<1> QED
  BY <1>1, <1>2, <1>3, <1>4 DEF MmuInv

\* An answer that agrees with Sv39.
Agrees(out, v, p, a) == IF out.ok THEN out \in Sv39(v, p, a) ELSE Sv39(v, p, a) = {}

\* What a step that keeps the address space leaves to show.
LEMMA ResultInv ==
  ASSUME MmuInv, UNCHANGED <<table, satp, priv_, seen>>,
         NEW v, NEW a, NEW out, Result(v, a, out),
         ~Bare /\ seen[v] = {MappedPages(table, satp)[v]} => Agrees(out, v, priv_, a)
  PROVE  TranslationIsSv39'
<1>1. /\ \A u : (MappedPages(table, satp)[u])' = MappedPages(table, satp)[u]
      /\ Bare' = Bare
      /\ \A u, p, b : Sv39(u, p, b)' = Sv39(u, p, b)
  BY DEF Bare, Sv39, Chains
<1>2. /\ res'.vpn = v /\ res'.access = a /\ res'.priv = priv_ /\ res'.out = out
  BY DEF Result
<1> QED
  BY <1>1, <1>2 DEF TranslationIsSv39, Agrees

\* A hit answers from a mapping that, if it is the only one since the flush, is the tables'.
LEMMA HitInv ==
  ASSUME MmuInv, NEW v \in Vpns, NEW a \in Accesses, TranslateHit(v, a)
  PROVE  MmuInv'
<1> DEFINE e == tlb[slot(v)]
           ok == check_perms(e.perms, priv_, a)
           out == IF ok THEN [ok |-> TRUE, ppn |-> e.ppn] ELSE [ok |-> FALSE]
<1>0. MmuType /\ NowIsSeen /\ CachedWasMapped
  BY DEF MmuInv
<1>1. UNCHANGED <<table, satp, priv_, tlb, seen>> /\ Result(v, a, out) /\ ~Bare /\ Cached(v)
  BY DEF TranslateHit
<1>2. Leaf(e.ppn, e.perms) \in seen[v]
  BY <1>0, <1>1, SlotOK DEF Cached, CachedWasMapped
<1>3. MmuType' /\ NowIsSeen' /\ CachedWasMapped'
  BY <1>0, <1>1 DEF MmuType, NowIsSeen, CachedWasMapped
<1> HIDE DEF e
<1>4. ASSUME seen[v] = {MappedPages(table, satp)[v]} PROVE Agrees(out, v, priv_, a)
  <2>1. satp \in Tables /\ satp # BARE
    BY <1>0, <1>1 DEF MmuType, Bare
  <2>2. walk(table, satp, v) = Leaf(e.ppn, e.perms)
    BY <1>2, <1>4, <2>1 DEF MappedPages
  <2>3. PICK ppn, perms :
          /\ walk(table, satp, v) = Leaf(ppn, perms)
          /\ check_perms(perms, priv_, a) => [ok |-> TRUE, ppn |-> ppn] \in Sv39(v, priv_, a)
          /\ ~check_perms(perms, priv_, a) => Sv39(v, priv_, a) = {}
    <3>1. walk(table, satp, v) # Nothing
      BY <2>2 DEF Leaf, Nothing
    <3> QED
      BY <2>1, <3>1, WalkIsSv39
  <2>4. ppn = e.ppn /\ perms = e.perms
    BY <2>2, <2>3 DEF Leaf
  <2> QED
    BY <2>3, <2>4 DEF Agrees
<1> HIDE DEF out
<1>5. TranslationIsSv39'
  BY <1>1, <1>4, ResultInv
<1> QED
  BY <1>3, <1>5 DEF MmuInv

\* A walk answers from the tables, and what it caches they map now.
LEMMA WalkInv ==
  ASSUME MmuInv, NEW v \in Vpns, NEW a \in Accesses, TranslateWalk(v, a)
  PROVE  MmuInv'
<1> DEFINE found == walk(table, satp, v)
           ok == found.found /\ check_perms(found.perms, priv_, a)
           out == IF ok THEN [ok |-> TRUE, ppn |-> found.ppn] ELSE [ok |-> FALSE]
<1>0. MmuType /\ NowIsSeen /\ CachedWasMapped
  BY DEF MmuInv
<1>1. UNCHANGED <<table, satp, priv_, seen>> /\ ~Bare
  BY DEF TranslateWalk
<1>2. Result(v, a, out)
  BY DEF TranslateWalk
<1>3. tlb' = IF ok THEN [tlb EXCEPT ![slot(v)] = [valid |-> TRUE, vpn |-> v, ppn |-> found.ppn, perms |-> found.perms]]
             ELSE tlb
  BY DEF TranslateWalk
<1>4. satp \in Tables /\ satp # BARE
  BY <1>0, <1>1 DEF MmuType, Bare
<1>5. found \in seen[v]
  BY <1>0, <1>4 DEF NowIsSeen, MappedPages
<1>6. \/ found = Nothing /\ Sv39(v, priv_, a) = {}
      \/ \E ppn, perms :
              /\ found = Leaf(ppn, perms)
              /\ check_perms(perms, priv_, a) => [ok |-> TRUE, ppn |-> ppn] \in Sv39(v, priv_, a)
              /\ ~check_perms(perms, priv_, a) => Sv39(v, priv_, a) = {}
  BY <1>4, WalkIsSv39
<1> HIDE DEF found
<1>7. Agrees(out, v, priv_, a)
  <2>1. CASE found = Nothing /\ Sv39(v, priv_, a) = {}
    BY <2>1 DEF Nothing, Agrees
  <2>2. ASSUME NEW ppn, NEW perms, found = Leaf(ppn, perms),
               check_perms(perms, priv_, a) => [ok |-> TRUE, ppn |-> ppn] \in Sv39(v, priv_, a),
               ~check_perms(perms, priv_, a) => Sv39(v, priv_, a) = {}
        PROVE  Agrees(out, v, priv_, a)
    <3>1. found.found = TRUE /\ found.ppn = ppn /\ found.perms = perms
      BY <2>2 DEF Leaf
    <3> QED
      BY <2>2, <3>1 DEF Agrees
  <2> QED
    BY <1>6, <2>1, <2>2
<1>8. ok => Leaf(found.ppn, found.perms) \in seen[v]
  <2>1. CASE found = Nothing
    BY <2>1 DEF Nothing
  <2>2. ASSUME NEW ppn, NEW perms, found = Leaf(ppn, perms)
        PROVE  Leaf(found.ppn, found.perms) \in seen[v]
    <3>1. found.ppn = ppn /\ found.perms = perms
      BY <2>2 DEF Leaf
    <3> QED
      BY <1>5, <2>2, <3>1
  <2> QED
    BY <1>6, <2>1, <2>2
<1> HIDE DEF out, ok
<1>9. TranslationIsSv39'
  BY <1>1, <1>2, <1>7, ResultInv
<1>10. NowIsSeen'
  BY <1>0, <1>1 DEF NowIsSeen
<1>11. MmuType' /\ CachedWasMapped'
  <2>1. CASE ~ok
    BY <1>0, <1>1, <1>3, <2>1 DEF MmuType, CachedWasMapped
  <2>2. CASE ok
    <3>1. slot(v) \in Slots
      BY SlotOK
    <3> DEFINE new == [valid |-> TRUE, vpn |-> v, ppn |-> found.ppn, perms |-> found.perms]
    <3>2. new.valid /\ new.vpn = v /\ new.ppn = found.ppn /\ new.perms = found.perms
      OBVIOUS
    <3> HIDE DEF new
    <3>3. tlb' = [tlb EXCEPT ![slot(v)] = new]
      BY <1>3, <2>2 DEF new
    <3>4. \A s \in Slots : tlb'[s] = IF s = slot(v) THEN new ELSE tlb[s]
      BY <1>0, <3>1, <3>3 DEF MmuType
    <3>5. tlb' = [s \in Slots |-> tlb'[s]]
      BY <1>0, <3>3 DEF MmuType
    <3>6. MmuType'
      BY <1>0, <1>1, <3>2, <3>4, <3>5 DEF MmuType
    <3>7. CachedWasMapped'
      <4> SUFFICES ASSUME NEW s \in Slots, tlb'[s].valid
                   PROVE  slot(tlb'[s].vpn) = s /\ Leaf(tlb'[s].ppn, tlb'[s].perms) \in seen[tlb'[s].vpn]
        BY <1>1 DEF CachedWasMapped
      <4>1. CASE s = slot(v)
        BY <1>8, <2>2, <3>2, <3>4, <4>1
      <4>2. CASE s # slot(v)
        BY <1>0, <3>4, <4>2 DEF CachedWasMapped
      <4> QED
        BY <4>1, <4>2
    <3> QED
      BY <3>6, <3>7
  <2> QED
    BY <2>1, <2>2
<1> QED
  BY <1>9, <1>10, <1>11 DEF MmuInv

\* Every step of the MMU and of the guest preserves the invariant.
LEMMA MmuNextInv == ASSUME MmuInv, [MmuNext]_mmuVars PROVE MmuInv'
<1>0. MmuType /\ NowIsSeen /\ CachedWasMapped /\ TranslationIsSv39
  BY DEF MmuInv
<1>1. ASSUME NEW v \in Vpns, NEW a \in Accesses, TranslateBare(v, a) PROVE MmuInv'
  <2>1. UNCHANGED <<table, satp, priv_, tlb, seen>> /\ Bare /\ Result(v, a, [ok |-> TRUE, ppn |-> v])
    BY <1>1 DEF TranslateBare
  <2>2. TranslationIsSv39'
    BY <2>1, ResultInv
  <2> QED
    BY <1>0, <2>1, <2>2 DEF MmuInv, MmuType, NowIsSeen, CachedWasMapped
<1>2. CASE TranslateLost
  BY <1>0, <1>2 DEF TranslateLost, MmuInv, MmuType, NowIsSeen, CachedWasMapped, TranslationIsSv39
<1>3. CASE SfenceVma
  BY <1>0, <1>3, FlushInv DEF SfenceVma, MmuType
<1>4. ASSUME NEW sp \in Tables \cup {BARE}, WriteSatp(sp) PROVE MmuInv'
  BY <1>4, FlushInv DEF WriteSatp
<1>5. ASSUME NEW t \in Tables, NEW i \in 0 .. FAN - 1, NEW e \in Ptes, Edit(t, i, e) PROVE MmuInv'
  <2>1. /\ UNCHANGED <<satp, priv_, tlb>> /\ res' = NoRes
        /\ seen' = [v \in Vpns |-> seen[v] \cup {MappedPages(table', satp)[v]}]
    BY <1>5 DEF Edit
  <2>2. \A v \in Vpns : seen'[v] = seen[v] \cup {MappedPages(table', satp)[v]}
    BY <2>1
  <2>3. NowIsSeen'
    BY <2>1, <2>2 DEF NowIsSeen
  <2>4. MmuType'
    BY <1>0, <2>1 DEF MmuType
  <2>5. CachedWasMapped'
    BY <1>0, <2>1, <2>2 DEF CachedWasMapped, MmuType
  <2>6. TranslationIsSv39'
    BY <2>1 DEF TranslationIsSv39
  <2> QED
    BY <2>3, <2>4, <2>5, <2>6 DEF MmuInv
<1>6. ASSUME NEW p \in {"U", "S", "M"}, ChangePriv(p) PROVE MmuInv'
  BY <1>0, <1>6 DEF ChangePriv, MmuInv, MmuType, NowIsSeen, CachedWasMapped, TranslationIsSv39
<1>7. CASE UNCHANGED mmuVars
  <2>1. UNCHANGED <<table, satp, priv_, tlb, seen, res>>
    BY <1>7 DEF mmuVars
  <2>2. TranslationIsSv39'
    <3>1. Bare' = Bare /\ \A u, p, b : Sv39(u, p, b)' = Sv39(u, p, b)
      BY <2>1 DEF Bare, Sv39, Chains
    <3>2. \A u : (MappedPages(table, satp)[u])' = MappedPages(table, satp)[u]
      BY <2>1
    <3> QED
      BY <1>0, <2>1, <3>1, <3>2 DEF TranslationIsSv39
  <2> QED
    BY <1>0, <2>1, <2>2 DEF MmuInv, MmuType, NowIsSeen, CachedWasMapped
<1> QED
  BY <1>1, <1>2, <1>3, <1>4, <1>5, <1>6, <1>7, HitInv, WalkInv
  DEF MmuNext, Translate, WriteSatpUnsupported

(***************************************************************************)
(* For every number of levels, table size, TLB size and set of entries:    *)
(* what Mmu::translate answers, from the TLB or from a walk, is Sv39's     *)
(* answer for as long as the page's mapping has stood since the last       *)
(* flush, and the TLB holds no translation of another address space.       *)
(***************************************************************************)
THEOREM TlbTransparency == MmuSpec => []TlbIsTransparent
<1>1. MmuInit => MmuInv
  BY MmuInitInv
<1>2. MmuInv /\ [MmuNext]_mmuVars => MmuInv'
  BY MmuNextInv
<1>3. MmuInv => TlbIsTransparent
  BY DEF MmuInv, TlbIsTransparent
<1> QED
  BY <1>1, <1>2, <1>3, PTL DEF MmuSpec
===============================================================================
