--------------------------------- MODULE MCIsa ---------------------------------
(***************************************************************************)
(* The instruction set for TLC: translation, reservations, decoding and    *)
(* execution.  The four share no state, so a behaviour is one part's, and  *)
(* the others stand still in one initial state.                            *)
(***************************************************************************)
EXTENDS Mmu, Atomics, Compressed, Instructions

VARIABLE part

Parts == {"mmu", "atomics", "compressed", "instructions"}

Pte(ppn, perms) == [v |-> TRUE, ppn |-> ppn, perms |-> perms]
Invalid == [v |-> FALSE, ppn |-> 0, perms |-> {}]

\* A pointer, a page that was never written, a user page, and a misaligned superpage.
MCPtes == {Invalid, Pte(1, {}), Pte(4, {"R", "W", "A"}), Pte(4, {"R", "W", "X", "U", "A", "D"}),
           Pte(7, {"R", "X", "A"})}

MCMemories == {[i \in 0 .. MEM - 1 |-> 0], [i \in 0 .. MEM - 1 |-> Truth(i \in {0, 2, 3, 4, 7, 8})]}

isaVars == <<part, mmuVars, vars, rvcVars, insnVars>>

IsaInit == /\ part \in Parts
           /\ MmuInit
           /\ (part = "atomics" \/ map = [v \in VPages |-> 0]) /\ Init
           /\ (part = "compressed" \/ half = {}) /\ RvcInit
           /\ \/ part = "instructions"
              \/ insn = [opc |-> FENCE, f3 |-> 0, f7 |-> 0, rd |-> 0, rs1 |-> 1, rs2 |-> 2, imm |-> 0, len |-> 4]
                 /\ x = [r \in 0 .. 2 |-> 0]
           /\ InsnInit

IsaNext == /\ UNCHANGED part
           /\ \/ part = "mmu" /\ MmuNext /\ UNCHANGED <<vars, rvcVars, insnVars>>
              \/ part = "atomics" /\ Next /\ UNCHANGED <<mmuVars, rvcVars, insnVars>>
              \/ part = "compressed" /\ Expand /\ UNCHANGED <<mmuVars, vars, insnVars>>
              \/ part = "instructions" /\ InsnNext /\ UNCHANGED <<mmuVars, vars, rvcVars>>

IsaSpec == IsaInit /\ [][IsaNext]_isaVars
===============================================================================
