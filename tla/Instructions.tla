------------------------------ MODULE Instructions ------------------------------
(***************************************************************************)
(* What one decoded instruction does: the dispatch of Cpu::step and the    *)
(* execute functions of insn/rv64m.rs, rv64a.rs (the value an AMO writes)  *)
(* and rv64i.rs (SYSTEM apart, which is Hart's).                           *)
(*                                                                         *)
(* Registers have XLEN bits, a byte is an eighth of that, a word a half.   *)
(* An instruction is its decoded fields; Compressed has the decoding.      *)
(* Translation, reservations and straddling accesses are Mmu's and         *)
(* Atomics': memory here is MEM bytes, and an access outside them traps.   *)
(***************************************************************************)
EXTENDS Integers, Bitwise

CONSTANTS XLEN, MEM,
          Operands,     \* register values
          Immediates,   \* sign-extended immediates
          Memories      \* contents of memory

ASSUME InstructionsAssumption ==
    /\ XLEN \in Nat /\ XLEN % 8 = 0 /\ XLEN > 0 /\ MEM \in Nat
    /\ Operands \subseteq 0 .. 2 ^ XLEN - 1 /\ Immediates \subseteq 0 .. 2 ^ XLEN - 1
    /\ Memories \subseteq [0 .. MEM - 1 -> 0 .. 2 ^ (XLEN \div 8) - 1]

VARIABLES x,      \* register -> value
          pc, mem,
          insn,   \* the instruction at pc
          out     \* "fetched", then "retired" or "trapped"

insnVars == <<x, pc, mem, insn, out>>

WLEN == XLEN \div 2
BYTE == XLEN \div 8

\* Opcodes.
LOAD == 3
FENCE == 15
OP_IMM == 19
AUIPC == 23
OP_IMM_32 == 27
STORE == 35
AMO_OP == 47
OP == 51
LUI == 55
OP_32 == 59
BRANCH == 99
JALR == 103
JAL == 111

wrap(v) == v % 2 ^ XLEN
signed(v, n) == LET u == v % 2 ^ n IN IF u >= 2 ^ (n - 1) THEN u - 2 ^ n ELSE u   \* v as i64, as i32
sx(v, n) == wrap(signed(v, n))                                 \* v as i32 as i64 as u64
Truth(b) == IF b THEN 1 ELSE 0
-------------------------------------------------------------------------------
(* Arithmetic.  A result is the set {value}, or {} for an illegal instruction. *)

Sign(v) == IF v < 0 THEN -1 ELSE 1
Abs(v) == v * Sign(v)
Quotient(a, b) == Sign(a) * Sign(b) * (Abs(a) \div Abs(b))     \* Rust's /, towards zero

div_signed(a, b, n) == CASE b = 0 -> -1
                         [] b # 0 /\ a = -(2 ^ (n - 1)) /\ b = -1 -> a
                         [] OTHER -> Quotient(a, b)

rem_signed(a, b, n) == CASE b = 0 -> a
                         [] b # 0 /\ a = -(2 ^ (n - 1)) /\ b = -1 -> 0
                         [] OTHER -> a - b * Quotient(a, b)

\* rv64m.rs: OP with funct7 = 1, at XLEN bits, and OP-32, at WLEN bits.
mul_div(f3, a, b) ==
    LET sa == signed(a, XLEN)  sb == signed(b, XLEN)
    IN  CASE f3 = 0 -> {wrap(a * b)}
          [] f3 = 1 -> {wrap((sa * sb) \div 2 ^ XLEN)}
          [] f3 = 2 -> {wrap((sa * b) \div 2 ^ XLEN)}
          [] f3 = 3 -> {wrap((a * b) \div 2 ^ XLEN)}
          [] f3 = 4 -> {wrap(div_signed(sa, sb, XLEN))}
          [] f3 = 5 -> {IF b = 0 THEN 2 ^ XLEN - 1 ELSE a \div b}
          [] f3 = 6 -> {wrap(rem_signed(sa, sb, XLEN))}
          [] f3 = 7 -> {IF b = 0 THEN a ELSE a % b}

mul_div_w(f3, a, b) ==
    LET wa == signed(a, WLEN)  wb == signed(b, WLEN)
        ua == a % 2 ^ WLEN     ub == b % 2 ^ WLEN
    IN  CASE f3 = 0 -> {sx(wa * wb, WLEN)}
          [] f3 = 4 -> {sx(div_signed(wa, wb, WLEN), WLEN)}
          [] f3 = 5 -> {IF wb = 0 THEN wrap(-1) ELSE sx(ua \div ub, WLEN)}
          [] f3 = 6 -> {sx(rem_signed(wa, wb, WLEN), WLEN)}
          [] f3 = 7 -> {sx(IF wb = 0 THEN wa ELSE ua % ub, WLEN)}
          [] OTHER -> {}

\* rv64i.rs: OP and, with b an immediate, OP-IMM.  Most rows do not look at funct7.
op(f3, f7, a, b) ==
    LET shamt == b % XLEN
    IN  CASE f3 = 0 /\ f7 = 0  -> {wrap(a + b)}
          [] f3 = 0 /\ f7 = 32 -> {wrap(a - b)}
          [] f3 = 1 -> {wrap(a * 2 ^ shamt)}
          [] f3 = 2 -> {Truth(signed(a, XLEN) < signed(b, XLEN))}
          [] f3 = 3 -> {Truth(a < b)}
          [] f3 = 4 -> {a ^^ b}
          [] f3 = 5 /\ f7 = 0  -> {a \div 2 ^ shamt}
          [] f3 = 5 /\ f7 = 32 -> {wrap(signed(a, XLEN) \div 2 ^ shamt)}
          [] f3 = 6 -> {a | b}
          [] f3 = 7 -> {a & b}
          [] OTHER -> {}

op_32(f3, f7, a, b) ==
    LET shamt == b % WLEN  ua == a % 2 ^ WLEN
    IN  CASE f3 = 0 /\ f7 = 0  -> {sx(a + b, WLEN)}
          [] f3 = 0 /\ f7 = 32 -> {sx(a - b, WLEN)}
          [] f3 = 1 -> {sx(ua * 2 ^ shamt, WLEN)}
          [] f3 = 5 /\ f7 = 0  -> {sx(ua \div 2 ^ shamt, WLEN)}
          [] f3 = 5 /\ f7 = 32 -> {wrap(signed(a, WLEN) \div 2 ^ shamt)}
          [] OTHER -> {}

\* OP-IMM and OP-IMM-32 take ADDI whatever the immediate's high bits, and test one bit of
\* them for the right shifts.
shift_kind(f3, f7) == IF f3 = 5 /\ (f7 & 32) # 0 THEN 32 ELSE 0
op_imm(f3, f7, a, imm) == op(f3, shift_kind(f3, f7), a, imm)
op_imm_32(f3, f7, a, imm) == op_32(f3, shift_kind(f3, f7), a, imm)

\* rv64a.rs: the value an AMO writes.  Comparisons are at the access width.
amo(f5, old, src, n) ==
    LET sold == signed(old, n)  ssrc == signed(src, n)
        usrc == src % 2 ^ n
    IN  CASE f5 = 0  -> {wrap(old + src)}
          [] f5 = 1  -> {src}
          [] f5 = 4  -> {old ^^ src}
          [] f5 = 8  -> {old | src}
          [] f5 = 12 -> {old & src}
          [] f5 = 16 -> {IF sold < ssrc THEN old ELSE src}
          [] f5 = 20 -> {IF sold > ssrc THEN old ELSE src}
          [] f5 = 24 -> {IF old < usrc THEN old ELSE src}
          [] f5 = 28 -> {IF old > usrc THEN old ELSE src}
          [] OTHER -> {}
-------------------------------------------------------------------------------
(* Memory, bytes in little-endian order. *)

InMem(a, n) == a + n <= MEM
load(a, n) == LET part[i \in 0 .. n] == IF i = 0 THEN 0
                                        ELSE part[i - 1] + mem[a + i - 1] * 2 ^ (BYTE * (i - 1))
              IN  part[n]
store(a, n, v) == [i \in DOMAIN mem |-> IF i \in a .. a + n - 1
                                        THEN (v \div 2 ^ (BYTE * (i - a))) % 2 ^ BYTE ELSE mem[i]]

access_size(f3) == 2 ^ (f3 % 4)              \* bytes of LB, LH, LW, LD and of the stores
-------------------------------------------------------------------------------
(* Cpu::step after the fetch. *)

A == x[insn.rs1]
B == x[insn.rs2]

Trap == out' = "trapped" /\ UNCHANGED <<x, pc, mem, insn>>

\* Cpu::set_reg: x0 stays zero.
set_reg(v) == IF insn.rd = 0 THEN x ELSE [x EXCEPT ![insn.rd] = v]
Retire(regs, target, bytes) == /\ x' = regs /\ pc' = target /\ mem' = bytes
                               /\ out' = "retired"
                               /\ UNCHANGED insn
Following == wrap(pc + insn.len)
Give(vs) == IF vs = {} THEN Trap ELSE \E v \in vs : Retire(set_reg(v), Following, mem)

\* Mutant: the base decoder is asked before rv64m, and its rows that ignore funct7 match.
OfM_last(i) == /\ i.f7 = 1 /\ i.opc \in {OP, OP_32}
               /\ (IF i.opc = OP THEN op(i.f3, 1, 0, 0) ELSE op_32(i.f3, 1, 0, 0)) = {}

\* Which decoder takes the instruction: rv64m is asked first, and takes funct7 = 1.
OfM(i) == i.f7 = 1 /\ i.opc \in {OP, OP_32}

ExecuteM == /\ OfM(insn)
            /\ Give(IF insn.opc = OP THEN mul_div(insn.f3, A, B) ELSE mul_div_w(insn.f3, A, B))

ExecuteAlu ==
    /\ ~OfM(insn)
    /\ \/ insn.opc = OP        /\ Give(op(insn.f3, insn.f7, A, B))
       \/ insn.opc = OP_32     /\ Give(op_32(insn.f3, insn.f7, A, B))
       \/ insn.opc = OP_IMM    /\ Give(op_imm(insn.f3, insn.f7, A, insn.imm))
       \/ insn.opc = OP_IMM_32 /\ Give(op_imm_32(insn.f3, insn.f7, A, insn.imm))
       \/ insn.opc = LUI       /\ Give({insn.imm})
       \/ insn.opc = AUIPC     /\ Give({wrap(pc + insn.imm)})

ExecuteLoad ==
    LET addr == wrap(A + insn.imm)
        n == access_size(insn.f3)
    IN  /\ insn.opc = LOAD
        /\ IF insn.f3 = 7 \/ ~InMem(addr, n) THEN Trap
           ELSE Give({IF insn.f3 < 3 THEN sx(load(addr, n), n * BYTE) ELSE load(addr, n)})

ExecuteStore ==
    LET addr == wrap(A + insn.imm)
        n == access_size(insn.f3)
    IN  /\ insn.opc = STORE
        /\ IF insn.f3 > 3 \/ ~InMem(addr, n) THEN Trap ELSE Retire(x, Following, store(addr, n, B))

ExecuteAmo ==
    LET n == access_size(insn.f3)
    IN  /\ insn.opc = AMO_OP
        /\ IF insn.f3 \notin {2, 3} \/ ~InMem(A, n) THEN Trap
           ELSE LET old == load(A, n)
                    new == amo(insn.f7 \div 4, old, B, n * BYTE)
                IN  IF new = {} THEN Trap
                    ELSE \E v \in new : Retire(set_reg(sx(old, n * BYTE)), Following, store(A, n, v))

take(f3, a, b) == CASE f3 = 0 -> {a = b}
                    [] f3 = 1 -> {a # b}
                    [] f3 = 4 -> {signed(a, XLEN) < signed(b, XLEN)}
                    [] f3 = 5 -> {signed(a, XLEN) >= signed(b, XLEN)}
                    [] f3 = 6 -> {a < b}
                    [] f3 = 7 -> {a >= b}
                    [] OTHER -> {}

ExecuteBranch ==
    /\ insn.opc = BRANCH
    /\ IF take(insn.f3, A, B) = {} THEN Trap
       ELSE \E t \in take(insn.f3, A, B) : Retire(x, IF t THEN wrap(pc + insn.imm) ELSE Following, mem)

\* The target is computed before the link is written, which may be its base.
ExecuteJump ==
    \/ insn.opc = JAL  /\ Retire(set_reg(Following), wrap(pc + insn.imm), mem)
    \/ insn.opc = JALR /\ LET to == wrap(A + insn.imm)
                          IN  Retire(set_reg(Following), 2 * (to \div 2), mem)

ExecuteFence == /\ insn.opc = FENCE
                /\ IF insn.f3 \in {0, 1} THEN Retire(x, Following, mem) ELSE Trap

Insns ==
    LET All(opcs, f3s, f7s, imms, lens) ==
          [opc : opcs, f3 : f3s, f7 : f7s, rd : {0, 1}, rs1 : {1}, rs2 : {2}, imm : imms, len : lens]
    IN  All({OP, OP_32}, 0 .. 7, {0, 1, 32, 64}, {0}, {4})
        \cup All({OP_IMM, OP_IMM_32}, 0 .. 7, {0, 1, 32}, Immediates, {2})
        \cup All({LUI, AUIPC, JAL, JALR}, {0}, {0}, Immediates, {2, 4})
        \cup All({LOAD, STORE, BRANCH}, 0 .. 7, {0}, {0, 2, 2 ^ XLEN - 2}, {4})
        \cup All({AMO_OP}, {1, 2, 3}, {4 * f : f \in {0, 1, 4, 8, 9, 12, 16, 20, 24, 28}}, {0}, {4})
        \cup All({FENCE}, {0, 1, 2}, {0}, {0}, {4})

InsnInit == /\ insn \in Insns
            /\ \E a, b \in Operands :
                 /\ x = [r \in 0 .. 2 |-> <<0, a, b>>[r + 1]]
                 /\ b = 0 \/ insn.opc \in {OP, OP_32, STORE, BRANCH, AMO_OP}
            /\ pc \in {0, 2 ^ XLEN - 2}
            /\ pc = 0 \/ insn.opc \in {AUIPC, BRANCH, JAL, JALR}
            /\ mem \in Memories
            /\ mem[0] = 0 \/ insn.opc \in {LOAD, STORE, AMO_OP}
            /\ out = "fetched"

InsnNext == /\ out = "fetched"
            /\ \/ ExecuteM \/ ExecuteAlu \/ ExecuteLoad \/ ExecuteStore
               \/ ExecuteAmo \/ ExecuteBranch \/ ExecuteJump \/ ExecuteFence
-------------------------------------------------------------------------------
(* What the ISA says an instruction does, as conditions on its result. *)

Basic  == <<"add", "sll", "slt", "sltu", "xor", "srl", "or", "and">>
MulDiv == <<"mul", "mulh", "mulhsu", "mulhu", "div", "divu", "rem", "remu">>
Words  == {"add", "sub", "sll", "srl", "sra", "mul", "div", "divu", "rem", "remu"}
Amos   == [f \in {0, 1, 4, 8, 12, 16, 20, 24, 28} |->
             CASE f = 0 -> "add" [] f = 1 -> "swap" [] f = 4 -> "xor" [] f = 8 -> "or" [] f = 12 -> "and"
               [] f = 16 -> "min" [] f = 20 -> "max" [] f = 24 -> "minu" [] f = 28 -> "maxu"]

Mnemonic(i) ==
    LET imm == i.opc \in {OP_IMM, OP_IMM_32}
        shift == i.f3 \in {1, 5}
    IN  CASE i.f7 = 0 \/ (imm /\ ~shift) -> Basic[i.f3 + 1]
          [] ~imm /\ i.f7 = 1            -> MulDiv[i.f3 + 1]
          [] ~imm /\ i.f7 = 32 /\ i.f3 = 0 -> "sub"
          [] i.f7 = 32 /\ i.f3 = 5       -> "sra"
          [] OTHER                       -> "reserved"

Ones(v, n) == {k \in 0 .. n - 1 : (v \div 2 ^ k) % 2 = 1}
Number(s, n) == CHOOSE v \in 0 .. 2 ^ n - 1 : Ones(v, n) = s
Extended(s, n, asSigned) == IF asSigned /\ n - 1 \in s THEN s \cup (n .. XLEN - 1) ELSE s

\* r is a divided by b, with remainder m, rounding towards zero.
Divides(a, b, r, m) == /\ a = b * r + m
                       /\ Abs(m) < Abs(b)
                       /\ m # 0 => (m < 0 <=> a < 0)

\* r is the n-bit result of the named operation on the n-bit a and b.
Means(name, a, b, r, n) ==
    LET sa == signed(a, n)  sb == signed(b, n)  sr == signed(r, n)
        shamt == b % n
        High(p) == \E low \in 0 .. 2 ^ n - 1 : p = low
    IN  CASE name = "add"  -> (a + b - r) % 2 ^ n = 0
          [] name = "sub"  -> (r + b - a) % 2 ^ n = 0
          [] name = "sll"  -> Ones(r, n) = {k + shamt : k \in Ones(a, n)} \cap (0 .. n - 1)
          [] name = "srl"  -> Ones(r, n) = {k - shamt : k \in Ones(a, n)} \cap (0 .. n - 1)
          [] name = "sra"  -> Ones(r, n) = {k \in 0 .. n - 1 : (IF k + shamt < n THEN k + shamt ELSE n - 1)
                                                                 \in Ones(a, n)}
          [] name = "slt"  -> r = Truth(sa < sb)
          [] name = "sltu" -> r = Truth(a < b)
          [] name = "xor"  -> Ones(r, n) = (Ones(a, n) \cup Ones(b, n)) \ (Ones(a, n) \cap Ones(b, n))
          [] name = "or"   -> Ones(r, n) = Ones(a, n) \cup Ones(b, n)
          [] name = "and"  -> Ones(r, n) = Ones(a, n) \cap Ones(b, n)
          [] name = "mul"    -> (a * b - r) % 2 ^ n = 0
          [] name = "mulh"   -> High(sa * sb - sr * 2 ^ n)
          [] name = "mulhsu" -> High(sa * b - sr * 2 ^ n)
          [] name = "mulhu"  -> High(a * b - r * 2 ^ n)
          [] name = "div"  -> IF b = 0 THEN sr = -1 ELSE Divides(sa, sb, sr, sa - sb * sr)
                                                         \/ (sb = -1 /\ sa = sr /\ sr = -(2 ^ (n - 1)))
          [] name = "divu" -> IF b = 0 THEN r = 2 ^ n - 1 ELSE Divides(a, b, r, a - b * r)
          [] name = "rem"  -> IF b = 0 THEN r = a ELSE \E q \in -(2 ^ n) .. 2 ^ n : Divides(sa, sb, q, sr)
          [] name = "remu" -> IF b = 0 THEN r = a ELSE \E q \in 0 .. 2 ^ n : Divides(a, b, q, r)
          [] name = "swap" -> r = b
          [] name = "min"  -> r \in {a, b} /\ sr <= sa /\ sr <= sb
          [] name = "max"  -> r \in {a, b} /\ sr >= sa /\ sr >= sb
          [] name = "minu" -> r \in {a, b} /\ r <= a /\ r <= b
          [] name = "maxu" -> r \in {a, b} /\ r >= a /\ r >= b

\* The same at register width, or at word width with the result sign-extended.
Computes(name, a, b, r, word) ==
    LET lo(v) == v % 2 ^ WLEN
    IN  IF word THEN /\ Means(name, lo(a), lo(b), lo(r), WLEN)
                     /\ Ones(r, XLEN) = Extended(Ones(r, WLEN), WLEN, TRUE)
                ELSE Means(name, a, b, r, XLEN)

MemOnes(m, a, n) == {BYTE * (i - a) + k : <<i, k>> \in {p \in (a .. a + n - 1) \X (0 .. BYTE - 1) :
                                                           p[2] \in Ones(m[p[1]], BYTE)}}
Beside(m, a, n) == [i \in DOMAIN m \ (a .. a + n - 1) |-> m[i]]

IsaArithmetic ==
    insn.opc \in {OP, OP_32, OP_IMM, OP_IMM_32} =>
      LET name == Mnemonic(insn)
          word == insn.opc \in {OP_32, OP_IMM_32}
          b == IF insn.opc \in {OP, OP_32} THEN B ELSE insn.imm
      IN  name # "reserved" /\ (word => name \in Words) =>
            /\ out' = "retired"
            /\ insn.rd = 1 => Computes(name, A, b, x'[1], word)

IsaMemory ==
    LET addr == wrap(A + (IF insn.opc = AMO_OP THEN 0 ELSE insn.imm))
        n == access_size(insn.f3)
        f5 == insn.f7 \div 4
    IN  /\ insn.opc = LOAD /\ insn.f3 # 7 /\ InMem(addr, n) /\ insn.rd = 1 =>
             Ones(x'[1], XLEN) = Extended(MemOnes(mem, addr, n), n * BYTE, insn.f3 < 4)
        /\ insn.opc = STORE /\ insn.f3 < 4 /\ InMem(addr, n) =>
             /\ MemOnes(mem', addr, n) = Ones(B, n * BYTE)
             /\ Beside(mem', addr, n) = Beside(mem, addr, n)
        /\ insn.opc = AMO_OP /\ insn.f3 \in {2, 3} /\ f5 \in DOMAIN Amos /\ InMem(addr, n) =>
             /\ LET a == Number(MemOnes(mem, addr, n), n * BYTE)
                    r == Number(MemOnes(mem', addr, n), n * BYTE)
                IN  /\ Means(Amos[f5], a, B % 2 ^ (n * BYTE), r, n * BYTE)
                    /\ insn.rd = 1 => Ones(x'[1], XLEN) = Extended(Ones(a, n * BYTE), n * BYTE, TRUE)
             /\ Beside(mem', addr, n) = Beside(mem, addr, n)

IsaControl ==
    LET Less == Means("slt", A, B, 1, XLEN)
        Below == Means("sltu", A, B, 1, XLEN)
        taken == CASE insn.f3 = 0 -> A = B  [] insn.f3 = 1 -> A # B
                   [] insn.f3 = 4 -> Less   [] insn.f3 = 5 -> ~Less
                   [] insn.f3 = 6 -> Below  [] insn.f3 = 7 -> ~Below
    IN  /\ out' = "retired" =>
             CASE insn.opc = JAL -> Means("add", pc, insn.imm, pc', XLEN)
               [] insn.opc = JALR -> pc' \in {2 * k : k \in 0 .. 2 ^ (XLEN - 1)}
                                     /\ \E d \in {0, 1} : Means("add", A, insn.imm, pc' + d, XLEN)
               [] insn.opc = BRANCH -> Means("add", pc, IF taken THEN insn.imm ELSE insn.len, pc', XLEN)
               [] OTHER -> Means("add", pc, insn.len, pc', XLEN)
        /\ insn.opc \in {JAL, JALR} /\ insn.rd = 1 => Means("add", pc, insn.len, x'[1], XLEN)
        /\ insn.opc \in {LUI, AUIPC} /\ insn.rd = 1 =>
             Means("add", IF insn.opc = LUI THEN 0 ELSE pc, insn.imm, x'[1], XLEN)

(***************************************************************************)
(* Every instruction the ISA defines does what the ISA says: its result by *)
(* the sum, the bits or the division it is defined by, at the right width  *)
(* and sign-extended, the one link or target a jump takes although rd is   *)
(* its base, the bytes of memory it names and no other.  A trap changes    *)
(* nothing, x0 stays zero, and no register but rd changes.                 *)
(***************************************************************************)
StepIsTheIsa ==
    [][out = "fetched" => /\ IsaArithmetic /\ IsaMemory /\ IsaControl
                          /\ out' = "trapped" => UNCHANGED <<x, pc, mem>>
                          /\ insn.opc \notin {STORE, AMO_OP} => mem' = mem
                          /\ \A r \in DOMAIN x : r # insn.rd \/ r = 0 => x'[r] = x[r]]_insnVars
===============================================================================
