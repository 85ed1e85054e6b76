------------------------------- MODULE Compressed -------------------------------
(***************************************************************************)
(* The decoder's bit work: expand in crates/rv64/src/insn/rvc.rs, which    *)
(* rewrites a 16-bit instruction as the 32-bit one that does the same, and *)
(* the field and immediate accessors of insn/mod.rs that take the 32-bit   *)
(* word apart again.                                                       *)
(*                                                                         *)
(* A word is the set of its 1 bits: a shift moves the members, an OR is a  *)
(* union, a mask an intersection.  Nothing is scaled down: words are 16    *)
(* and 32 bits, and every halfword is expanded.                            *)
(***************************************************************************)
EXTENDS Integers, Sequences

VARIABLES half,      \* the halfword at pc
          expanded   \* what expand returned for it

rvcVars == <<half, expanded>>

NotYet == [expanded |-> FALSE]
None   == [expanded |-> TRUE, some |-> FALSE]
Some(w) == [expanded |-> TRUE, some |-> TRUE, word |-> w]

Bits(k) == {i \in 0 .. 7 : (k \div 2 ^ i) % 2 = 1}      \* a small number as a set of bits
Val(s) == LET b(i) == IF i \in s THEN 2 ^ i ELSE 0
          IN  b(0) + b(1) + b(2) + b(3) + b(4) + b(5) + b(6)

Field(w, lo, n) == {i - lo : i \in w \cap (lo .. lo + n - 1)}   \* (w >> lo) & (2^n - 1)
Shl(s, k) == {i + k : i \in s}
sext(s, n) == IF n - 1 \in s THEN s \cup (n .. 31) ELSE s       \* sext6, sext9, sext10, sext12

\* Fields <<lo, n, to>> of a halfword, each moved to bit `to` of an immediate.
Gather(h, fields) == UNION {Shl(Field(h, f[1], f[2]), f[3]) : f \in fields}
-------------------------------------------------------------------------------
(* insn/mod.rs: the accessors of a 32-bit word. *)

opcode(w) == Val(Field(w, 0, 7))
rd(w)     == Field(w, 7, 5)
rs1(w)    == Field(w, 15, 5)
rs2(w)    == Field(w, 20, 5)
funct3(w) == Val(Field(w, 12, 3))
funct7(w) == Val(Field(w, 25, 7))

imm_i(w) == sext(Field(w, 20, 12), 12)
imm_u(w) == w \ (0 .. 11)
imm_s(w) == sext(Gather(w, {<<25, 7, 5>>, <<7, 5, 0>>}), 12)
imm_b(w) == sext(Gather(w, {<<31, 1, 12>>, <<25, 6, 5>>, <<8, 4, 1>>, <<7, 1, 11>>}), 13)
imm_j(w) == sext(Gather(w, {<<31, 1, 20>>, <<21, 10, 1>>, <<20, 1, 11>>, <<12, 8, 12>>}), 21)
-------------------------------------------------------------------------------
(* insn/rvc.rs: the builders and expand. *)

Base(src2, src1, f3, dst, opc) ==
    Shl(src2, 20) \cup Shl(src1, 15) \cup Shl(Bits(f3), 12) \cup Shl(dst, 7) \cup Bits(opc)

i_type(imm, src1, f3, dst, opc) == Shl(imm \cap (0 .. 11), 20) \cup Base({}, src1, f3, dst, opc)
s_type(imm, src2, src1, f3, opc) ==
    Shl(Field(imm, 5, 27), 25) \cup Base(src2, src1, f3, Field(imm, 0, 5), opc)
r_type(f7, src2, src1, f3, dst, opc) == Shl(Bits(f7), 25) \cup Base(src2, src1, f3, dst, opc)

\* Mutant: bit 11 of the offset is left out.
b_type_no_bit11(imm, src2, src1, f3, opc) ==
    Gather(imm, {<<12, 1, 31>>, <<5, 6, 25>>, <<1, 4, 8>>}) \cup Base(src2, src1, f3, {}, opc)

b_type(imm, src2, src1, f3, opc) ==
    Gather(imm, {<<12, 1, 31>>, <<5, 6, 25>>, <<1, 4, 8>>, <<11, 1, 7>>})
      \cup Base(src2, src1, f3, {}, opc)

j_type(imm, dst, opc) ==
    Gather(imm, {<<20, 1, 31>>, <<1, 10, 21>>, <<11, 1, 20>>, <<12, 8, 12>>})
      \cup Base({}, {}, 0, dst, opc)

expand(h) ==
    LET f3   == Val(Field(h, 13, 3))
        dst  == Field(h, 7, 5)
        src2 == Field(h, 2, 5)
        dstp == {3} \cup Field(h, 2, 3)          \* x8 .. x15
        s1p  == {3} \cup Field(h, 7, 3)
        sp   == {1}                              \* x2
        zero == {}                               \* x0
        imm6 == Gather(h, {<<12, 1, 5>>, <<2, 5, 0>>})
        wOff == Gather(h, {<<5, 1, 6>>, <<10, 3, 3>>, <<6, 1, 2>>})
        dOff == Gather(h, {<<5, 2, 6>>, <<10, 3, 3>>})
        bOff == sext(Gather(h, {<<12, 1, 8>>, <<10, 2, 3>>, <<5, 2, 6>>, <<3, 2, 1>>, <<2, 1, 5>>}), 9)
        jOff == sext(Gather(h, {<<12, 1, 11>>, <<11, 1, 4>>, <<9, 2, 8>>, <<8, 1, 10>>, <<7, 1, 6>>,
                                <<6, 1, 7>>, <<3, 3, 1>>, <<2, 1, 5>>}), 12)
        spn  == Gather(h, {<<7, 4, 6>>, <<11, 2, 4>>, <<5, 1, 3>>, <<6, 1, 2>>})
        sp16 == sext(Gather(h, {<<12, 1, 9>>, <<3, 2, 7>>, <<5, 1, 6>>, <<2, 1, 5>>, <<6, 1, 4>>}), 10)
        alu(f7, g3, opc) == Some(r_type(f7, dstp, s1p, g3, s1p, opc))
        arith == CASE Val(Field(h, 10, 2)) = 0 -> Some(i_type(imm6, s1p, 5, s1p, 19))
                   [] Val(Field(h, 10, 2)) = 1 -> Some(i_type(imm6 \cup {10}, s1p, 5, s1p, 19))
                   [] Val(Field(h, 10, 2)) = 2 -> Some(i_type(sext(imm6, 6), s1p, 7, s1p, 19))
                   [] OTHER -> CASE 12 \notin h /\ Field(h, 5, 2) = {}     -> alu(32, 0, 51)
                                 [] 12 \notin h /\ Field(h, 5, 2) = {0}    -> alu(0, 4, 51)
                                 [] 12 \notin h /\ Field(h, 5, 2) = {1}    -> alu(0, 6, 51)
                                 [] 12 \notin h /\ Field(h, 5, 2) = {0, 1} -> alu(0, 7, 51)
                                 [] 12 \in h /\ Field(h, 5, 2) = {}        -> alu(32, 0, 59)
                                 [] 12 \in h /\ Field(h, 5, 2) = {0}       -> alu(0, 0, 59)
                                 [] OTHER -> None
        moves == CASE src2 = zero /\ dst = zero -> IF 12 \in h THEN Some({20} \cup Bits(115)) ELSE None
                   [] src2 = zero /\ dst # zero ->
                        Some(i_type({}, dst, 0, IF 12 \in h THEN {0} ELSE zero, 103))
                   [] OTHER -> Some(Base(src2, IF 12 \in h THEN dst ELSE zero, 0, dst, 51))
        q0 == CASE f3 = 0 -> IF spn = {} THEN None ELSE Some(i_type(spn, sp, 0, dstp, 19))
                [] f3 = 2 -> Some(i_type(wOff, s1p, 2, dstp, 3))
                [] f3 = 3 -> Some(i_type(dOff, s1p, 3, dstp, 3))
                [] f3 = 6 -> Some(s_type(wOff, dstp, s1p, 2, 35))
                [] f3 = 7 -> Some(s_type(dOff, dstp, s1p, 3, 35))
                [] OTHER -> None
        q1 == CASE f3 = 0 -> Some(i_type(sext(imm6, 6), dst, 0, dst, 19))
                [] f3 = 1 -> IF dst = zero THEN None ELSE Some(i_type(sext(imm6, 6), dst, 0, dst, 27))
                [] f3 = 2 -> Some(i_type(sext(imm6, 6), zero, 0, dst, 19))
                [] f3 = 3 -> IF dst = sp
                             THEN IF sp16 = {} THEN None ELSE Some(i_type(sp16, sp, 0, sp, 19))
                             ELSE IF imm6 = {} THEN None
                             ELSE Some(Shl(sext(imm6, 6) \cap (0 .. 19), 12) \cup Shl(dst, 7) \cup Bits(55))
                [] f3 = 4 -> arith
                [] f3 = 5 -> Some(j_type(jOff, zero, 111))
                [] f3 = 6 -> Some(b_type(bOff, zero, s1p, 0, 99))
                [] f3 = 7 -> Some(b_type(bOff, zero, s1p, 1, 99))
        q2 == CASE f3 = 0 -> Some(i_type(imm6, dst, 1, dst, 19))
                [] f3 = 2 -> IF dst = zero THEN None
                             ELSE Some(i_type(Gather(h, {<<12, 1, 5>>, <<4, 3, 2>>, <<2, 2, 6>>}), sp, 2, dst, 3))
                [] f3 = 3 -> IF dst = zero THEN None
                             ELSE Some(i_type(Gather(h, {<<12, 1, 5>>, <<5, 2, 3>>, <<2, 3, 6>>}), sp, 3, dst, 3))
                [] f3 = 4 -> moves
                [] f3 = 6 -> Some(s_type(Gather(h, {<<9, 4, 2>>, <<7, 2, 6>>}), src2, sp, 2, 35))
                [] f3 = 7 -> Some(s_type(Gather(h, {<<10, 3, 3>>, <<7, 3, 6>>}), src2, sp, 3, 35))
                [] OTHER -> None
    IN  CASE Field(h, 0, 2) = {}     -> q0
          [] Field(h, 0, 2) = {0}    -> q1
          [] Field(h, 0, 2) = {1}    -> q2
          [] Field(h, 0, 2) = {0, 1} -> None

RvcInit == half \in SUBSET (0 .. 15) /\ expanded = NotYet

\* Cpu::step: an expansion that fails is an illegal instruction.
Expand == /\ expanded = NotYet
          /\ expanded' = expand(half)
          /\ UNCHANGED half
-------------------------------------------------------------------------------
(* What the compressed instructions are, from the ISA's own table. *)

\* What a 32-bit word says, through the accessors the executing code uses.
Decoded(w) ==
    LET opc == opcode(w)
        row(name, d, s1, s2, imm) == [is |-> name, rd |-> d, rs1 |-> s1, rs2 |-> s2, imm |-> imm]
    IN  CASE opc \in {3, 19, 27, 103, 115} -> row(<<opc, funct3(w)>>, rd(w), rs1(w), {}, imm_i(w))
          [] opc = 35 -> row(<<opc, funct3(w)>>, {}, rs1(w), rs2(w), imm_s(w))
          [] opc = 99 -> row(<<opc, funct3(w)>>, {}, rs1(w), rs2(w), imm_b(w))
          [] opc = 111 -> row(<<opc>>, rd(w), {}, {}, imm_j(w))
          [] opc = 55 -> row(<<opc>>, rd(w), {}, {}, imm_u(w))
          [] OTHER -> row(<<opc, funct3(w), funct7(w)>>, rd(w), rs1(w), rs2(w), {})

\* The table prints an immediate as the list of its bits that the halfword holds from bit
\* `top` down, "imm[11|4|9:8|10|6|7|3:1|5]"; a signed one is extended from its highest bit.
Held(h, top, bits) == {bits[k] : k \in {k \in 1 .. Len(bits) : top + 1 - k \in h}}
Signed(s, high) == IF high \in s THEN s \cup (high .. 31) ELSE s

Rvc(h) ==
    LET at == <<Val(Field(h, 0, 2)), Val(Field(h, 13, 3))>>
        r  == Field(h, 7, 5)
        r2 == Field(h, 2, 5)
        p  == {3} \cup Field(h, 7, 3)
        p2 == {3} \cup Field(h, 2, 3)
        i6 == IF 12 \in h THEN Field(h, 2, 5) \cup (5 .. 31) ELSE Field(h, 2, 5)
        sh == IF 12 \in h THEN Field(h, 2, 5) \cup {5} ELSE Field(h, 2, 5)
        lw == Held(h, 12, <<5, 4, 3>>) \cup Held(h, 6, <<2, 6>>)
        ld == Held(h, 12, <<5, 4, 3>>) \cup Held(h, 6, <<7, 6>>)
        row(name, d, s1, s2, imm) == {[is |-> name, rd |-> d, rs1 |-> s1, rs2 |-> s2, imm |-> imm]}
        only(c, s) == IF c THEN s ELSE {}
        br == Signed(Held(h, 12, <<8, 4, 3>>) \cup Held(h, 6, <<7, 6, 2, 1, 5>>), 8)
        n16 == Held(h, 12, <<9>>) \cup Held(h, 6, <<4, 6, 8, 7, 5>>)
        spn == Held(h, 12, <<5, 4, 9, 8, 7, 6, 2, 3>>)
        op == Val(Held(h, 12, <<2>>) \cup Held(h, 6, <<1, 0>>))
    IN  CASE at = <<0, 0>> -> only(spn # {}, row(<<19, 0>>, p2, {1}, {}, spn))     \* c.addi4spn
          [] at = <<0, 2>> -> row(<<3, 2>>, p2, p, {}, lw)                         \* c.lw
          [] at = <<0, 3>> -> row(<<3, 3>>, p2, p, {}, ld)                         \* c.ld
          [] at = <<0, 6>> -> row(<<35, 2>>, {}, p, p2, lw)                        \* c.sw
          [] at = <<0, 7>> -> row(<<35, 3>>, {}, p, p2, ld)                        \* c.sd
          [] at = <<1, 0>> -> row(<<19, 0>>, r, r, {}, i6)                         \* c.addi
          [] at = <<1, 1>> -> only(r # {}, row(<<27, 0>>, r, r, {}, i6))           \* c.addiw
          [] at = <<1, 2>> -> row(<<19, 0>>, r, {}, {}, i6)                        \* c.li
          [] at = <<1, 3>> /\ r = {1} ->                                           \* c.addi16sp
               only(n16 # {}, row(<<19, 0>>, {1}, {1}, {}, Signed(n16, 9)))
          [] at = <<1, 3>> /\ r # {1} ->                                           \* c.lui
               only(i6 # {}, row(<<55>>, r, {}, {}, Shl(i6, 12) \cap (0 .. 31)))
          [] at = <<1, 4>> /\ {10, 11} \cap h = {}   -> row(<<19, 5>>, p, p, {}, sh)            \* c.srli
          [] at = <<1, 4>> /\ {10, 11} \cap h = {10} -> row(<<19, 5>>, p, p, {}, sh \cup {10})  \* c.srai
          [] at = <<1, 4>> /\ {10, 11} \cap h = {11} -> row(<<19, 7>>, p, p, {}, i6)            \* c.andi
          [] at = <<1, 4>> /\ {10, 11} \subseteq h ->                              \* c.sub .. c.addw
               only(op \in 0 .. 5, row(<< <<51, 51, 51, 51, 59, 59>>[op + 1], <<0, 4, 6, 7, 0, 0>>[op + 1],
                                          <<32, 0, 0, 0, 32, 0>>[op + 1] >>, p, p, p2, {}))
          [] at = <<1, 5>> ->                                                      \* c.j
               row(<<111>>, {}, {}, {}, Signed(Held(h, 12, <<11, 4, 9, 8, 10, 6, 7, 3, 2, 1, 5>>), 11))
          [] at = <<1, 6>> -> row(<<99, 0>>, {}, p, {}, br)                        \* c.beqz
          [] at = <<1, 7>> -> row(<<99, 1>>, {}, p, {}, br)                        \* c.bnez
          [] at = <<2, 0>> -> row(<<19, 1>>, r, r, {}, sh)                         \* c.slli
          [] at = <<2, 2>> -> only(r # {}, row(<<3, 2>>, r, {1}, {},               \* c.lwsp
                                               Held(h, 12, <<5>>) \cup Held(h, 6, <<4, 3, 2, 7, 6>>)))
          [] at = <<2, 3>> -> only(r # {}, row(<<3, 3>>, r, {1}, {},               \* c.ldsp
                                               Held(h, 12, <<5>>) \cup Held(h, 6, <<4, 3, 8, 7, 6>>)))
          [] at = <<2, 4>> /\ r2 # {} ->                                           \* c.mv, c.add
               row(<<51, 0, 0>>, r, IF 12 \in h THEN r ELSE {}, r2, {})
          [] at = <<2, 4>> /\ r2 = {} /\ r # {} ->                                 \* c.jr, c.jalr
               row(<<103, 0>>, IF 12 \in h THEN {0} ELSE {}, r, {}, {})
          [] at = <<2, 4>> /\ r2 = {} /\ r = {} ->                                 \* c.ebreak
               only(12 \in h, row(<<115, 0>>, {}, {}, {}, {0}))
          [] at = <<2, 6>> -> row(<<35, 2>>, {}, {1}, r2, Held(h, 12, <<5, 4, 3, 2, 7, 6>>))  \* c.swsp
          [] at = <<2, 7>> -> row(<<35, 3>>, {}, {1}, r2, Held(h, 12, <<5, 4, 3, 8, 7, 6>>))  \* c.sdsp
          [] OTHER -> {}

(***************************************************************************)
(* Every one of the 65536 halfwords expands to the instruction the ISA's   *)
(* table gives for it, read back with the accessors that will execute it   *)
(* (the B- and J-immediates unscrambled and scrambled again on the way),   *)
(* or is refused exactly when the table reserves it, when it is one of the *)
(* floating-point forms this hart lacks, or when it starts a 32-bit word.  *)
(***************************************************************************)
CompressedIsItsExpansion ==
    expanded # NotYet => (IF expanded.some THEN {Decoded(expanded.word)} ELSE {}) = Rvc(half)
===============================================================================
