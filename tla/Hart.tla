--------------------------------- MODULE Hart ---------------------------------
(***************************************************************************)
(* Privilege, traps, the timer and the loop that drives them: Cpu and Csrs *)
(* in crates/rv64/src (cpu.rs, csr.rs), the CLINT (clint.rs), the SBI stub *)
(* (sbi.rs), the SYSTEM instructions (insn/rv64i.rs), and run in           *)
(* badge/app/src/run.rs.                                                   *)
(*                                                                         *)
(* The guest is any program: at each step it executes an instruction of    *)
(* its choice, and what the machine does with it is what the code does.    *)
(* Addresses are the few the traps tell apart, 0 among them; xtval, and    *)
(* what an instruction computes, are left out.                             *)
(***************************************************************************)
EXTENDS Integers

CONSTANTS Pcs,          \* addresses, 0 one of them
          Deadlines,    \* values the guest programs mtimecmp with
          Never,        \* the reset value of mtimecmp, later than any mtime
          StartPrivs,   \* "S" for a kernel, "M" for a bare-metal program
          max_insns, slice_insns  \* Config

ASSUME HartAssumption == /\ 0 \in Pcs
                         /\ Never \in Nat /\ Deadlines \subseteq Nat
                         /\ StartPrivs \subseteq {"S", "M"}
                         /\ max_insns \in Nat /\ slice_insns \in Nat \ {0}

VARIABLES priv_, pc,
          csr,                 \* the fields of Csrs that traps and interrupts use
          mtime, mtimecmp,     \* Clint
          phase,               \* where run's loop stands
          executed, left,      \* run: instructions counted, and left in this slice
          ending,
          start,               \* the privilege the run started in (auxiliary)
          due,                 \* has the timer been due since it was last set? (auxiliary)
          context,             \* what the last trap interrupted, while its handler has
                               \* left the saved state alone (auxiliary)
          last                 \* the last trap taken (auxiliary)

hartVars == <<priv_, pc, csr>>
timeVars == <<mtime, mtimecmp>>
loopVars == <<phase, executed, left, ending>>
auxVars  == <<due, context, last>>
vars == <<hartVars, timeVars, loopVars, auxVars, start>>

Priv == {"U", "S", "M"}
Rank == [p \in Priv |-> CASE p = "U" -> 0 [] p = "S" -> 1 [] p = "M" -> 3]

STimer == "SupervisorTimer"
MTimer == "MachineTimer"

\* Exceptions an instruction can raise, and those Csrs::default's medeleg hands to S-mode.
Exceptions == {"IllegalInstruction", "Breakpoint", "AccessFault", "PageFault",
               "EcallU", "EcallM"}
medeleg == Exceptions \ {"IllegalInstruction", "EcallM"}

NoContext == [of |-> "none"]
NoTrap    == [cause |-> "none", pc |-> 0]
Running   == [kind |-> "running"]

Csr == [SIE : BOOLEAN, SPIE : BOOLEAN, SPP : BOOLEAN,
        MIE : BOOLEAN, MPIE : BOOLEAN, MPP : Priv,
        STIE : BOOLEAN, MTIE : BOOLEAN, STIP : BOOLEAN, MTIP : BOOLEAN,
        stvec : Pcs, mtvec : Pcs, sepc : Pcs, mepc : Pcs,
        scause : Exceptions \cup {STimer, "none"}, mcause : Exceptions \cup {MTimer, "none"}]

ResetCsr == [SIE |-> FALSE, SPIE |-> FALSE, SPP |-> FALSE,
             MIE |-> FALSE, MPIE |-> FALSE, MPP |-> "U",
             STIE |-> FALSE, MTIE |-> FALSE, STIP |-> FALSE, MTIP |-> FALSE,
             stvec |-> 0, mtvec |-> 0, sepc |-> 0, mepc |-> 0,
             scause |-> "none", mcause |-> "none"]

Init == /\ start \in StartPrivs /\ priv_ = start /\ pc \in Pcs \ {0}
        /\ csr = ResetCsr
        /\ mtime = 0 /\ mtimecmp = Never
        /\ phase = "outer" /\ executed = 0 /\ left = 0 /\ ending = Running
        /\ due = FALSE /\ context = NoContext /\ last = NoTrap
-------------------------------------------------------------------------------
(* Trap entry and return. *)

\* enter_trap, both halves; c is the register file it starts from.
ToS(c, cause) ==
    /\ csr' = [c EXCEPT !.sepc = pc, !.scause = cause,
                        !.SPIE = c.SIE, !.SIE = FALSE, !.SPP = (priv_ # "U")]
    /\ priv_' = "S"
    /\ pc' = c.stvec
    /\ context' = [of |-> "S", pc |-> pc, priv |-> priv_, ie |-> c.SIE]
    /\ last' = [cause |-> cause, pc |-> pc]

\* Mutant: mepc is not saved.
ToM_without_mepc(c, cause) ==
    /\ csr' = [c EXCEPT !.mcause = cause, !.MPIE = c.MIE, !.MIE = FALSE, !.MPP = priv_]
    /\ priv_' = "M"
    /\ pc' = c.mtvec
    /\ context' = [of |-> "M", pc |-> pc, priv |-> priv_, ie |-> c.MIE]
    /\ last' = [cause |-> cause, pc |-> pc]

ToM(c, cause) ==
    /\ csr' = [c EXCEPT !.mepc = pc, !.mcause = cause,
                        !.MPIE = c.MIE, !.MIE = FALSE, !.MPP = priv_]
    /\ priv_' = "M"
    /\ pc' = c.mtvec
    /\ context' = [of |-> "M", pc |-> pc, priv |-> priv_, ie |-> c.MIE]
    /\ last' = [cause |-> cause, pc |-> pc]

trap(e) == IF priv_ # "M" /\ e \in medeleg THEN ToS(csr, e) ELSE ToM(csr, e)

interrupt_enabled(to_s) ==
    IF to_s THEN priv_ = "U" \/ (priv_ = "S" /\ csr.SIE)
            ELSE priv_ # "M" \/ csr.MIE

pending == mtime >= mtimecmp

\* Mutant: the interrupt enable is not restored.
sret_keeps_sie ==
    IF priv_ = "U" THEN trap("IllegalInstruction")
    ELSE /\ csr' = [csr EXCEPT !.SPIE = TRUE, !.SPP = FALSE]
         /\ priv_' = IF csr.SPP THEN "S" ELSE "U"
         /\ pc' = csr.sepc
         /\ context' = NoContext
         /\ UNCHANGED last

sret == IF priv_ = "U" THEN trap("IllegalInstruction")
        ELSE /\ csr' = [csr EXCEPT !.SIE = csr.SPIE, !.SPIE = TRUE, !.SPP = FALSE]
             /\ priv_' = IF csr.SPP THEN "S" ELSE "U"
             /\ pc' = csr.sepc
             /\ context' = NoContext
             /\ UNCHANGED last

mret == IF priv_ # "M" THEN trap("IllegalInstruction")
        ELSE /\ csr' = [csr EXCEPT !.MIE = csr.MPIE, !.MPIE = TRUE, !.MPP = "U"]
             /\ priv_' = csr.MPP
             /\ pc' = csr.mepc
             /\ context' = NoContext
             /\ UNCHANGED last
-------------------------------------------------------------------------------
(* What one instruction can do.  Each either retires or traps. *)

Retires == pc' \in Pcs /\ UNCHANGED <<priv_, last>>

\* Computation, jumps, memory, fences, wfi: nothing here changes.
Ordinary == Retires /\ UNCHANGED <<csr, timeVars, due, context>>

Fault(e) == trap(e) /\ UNCHANGED <<timeVars, due>>

(***************************************************************************)
(* CSR instructions that write: the lowest privilege, and the fields a     *)
(* write reaches.  A program that itself writes medeleg, mideleg, mip or   *)
(* mcause, as only one started in M-mode can, is not among the guests.     *)
(***************************************************************************)
CsrNames == {"sstatus", "sie", "sip", "stvec", "sepc", "mstatus", "mie", "mtvec", "mepc"}
MinPriv(c) == IF c \in {"sstatus", "sie", "sip", "stvec", "sepc"} THEN 1 ELSE 3
WriteValues(c) ==
    CASE c = "sstatus" -> [{"SIE", "SPIE", "SPP"} -> BOOLEAN]
      [] c = "sie"     -> [{"STIE"} -> BOOLEAN]
      [] c = "sip"     -> [{"STIP"} -> BOOLEAN]
      [] c = "stvec"   -> [{"stvec"} -> Pcs]
      [] c = "sepc"    -> [{"sepc"} -> Pcs]
      [] c = "mstatus" -> [{"MIE", "MPIE"} -> BOOLEAN] \cup [{"MPP"} -> Priv]
      [] c = "mie"     -> [{"STIE", "MTIE"} -> BOOLEAN]
      [] c = "mtvec"   -> [{"mtvec"} -> Pcs]
      [] c = "mepc"    -> [{"mepc"} -> Pcs]

\* Mutant: a CSR's lowest privilege is not checked.
CsrWrite_unchecked(c, v) ==
    /\ Retires
    /\ csr' = [f \in DOMAIN csr |-> IF f \in DOMAIN v THEN v[f] ELSE csr[f]]
    /\ due' = (due \/ ("STIP" \in DOMAIN v /\ v["STIP"]))
    /\ context' = NoContext
    /\ UNCHANGED timeVars

CsrWrite(c, v) ==
    IF Rank[priv_] < MinPriv(c)
    THEN Fault("IllegalInstruction")
    ELSE /\ Retires
         /\ csr' = [f \in DOMAIN csr |-> IF f \in DOMAIN v THEN v[f] ELSE csr[f]]
         /\ due' = (due \/ ("STIP" \in DOMAIN v /\ v["STIP"]))
         /\ context' = IF c \in {"sstatus", "sepc", "mstatus", "mepc"} THEN NoContext ELSE context
         /\ UNCHANGED timeVars

\* Stores to the CLINT.  Neither acknowledges a supervisor timer interrupt.
StoreMtimecmp(d) == /\ Retires
                    /\ mtimecmp' = d
                    /\ UNCHANGED <<csr, mtime, due, context>>
StoreMtime(t) == /\ Retires
                 /\ mtime' = t
                 /\ UNCHANGED <<csr, mtimecmp, due, context>>

\* Mutant: setting the timer does not acknowledge the pending interrupt.
set_timer_unacknowledged(d) ==
    /\ priv_ = "S"
    /\ Retires
    /\ mtimecmp' = d
    /\ due' = FALSE
    /\ UNCHANGED <<csr, mtime, context>>

\* ecall: from S-mode it is an SBI call, from the others an exception.
set_timer(d) == /\ priv_ = "S"
                /\ Retires
                /\ mtimecmp' = d
                /\ csr' = [csr EXCEPT !.STIP = FALSE]
                /\ due' = FALSE
                /\ UNCHANGED <<mtime, context>>

EcallTraps == \/ priv_ = "U" /\ Fault("EcallU")
              \/ priv_ = "M" /\ Fault("EcallM")

Execute == \/ Ordinary
           \/ \E e \in {"IllegalInstruction", "Breakpoint", "AccessFault", "PageFault"} : Fault(e)
           \/ sret /\ UNCHANGED <<timeVars, due>>
           \/ mret /\ UNCHANGED <<timeVars, due>>
           \/ \E c \in CsrNames : \E v \in WriteValues(c) : CsrWrite(c, v)
           \/ \E d \in Deadlines : StoreMtimecmp(d)
           \/ StoreMtime(0)
           \/ \E d \in Deadlines : set_timer(d)
           \/ EcallTraps
-------------------------------------------------------------------------------
(* run. *)

Smaller(a, b) == IF a <= b THEN a ELSE b
Ends(e) == ending' = e /\ phase' = "over"

\* Mutant: at the cap the loop goes on serving instead of ending.
Outer_never_ends ==
    /\ phase = "outer"
    /\ left' = Smaller(slice_insns, max_insns - executed)
    /\ phase' = IF executed >= max_insns THEN "service" ELSE "head"
    /\ UNCHANGED <<hartVars, timeVars, executed, ending, auxVars>>

Outer == /\ phase = "outer"
         /\ IF executed >= max_insns
            THEN Ends([kind |-> "Capped"]) /\ UNCHANGED left
            ELSE /\ left' = Smaller(slice_insns, max_insns - executed)
                 /\ phase' = "head"
                 /\ UNCHANGED ending
         /\ UNCHANGED <<hartVars, timeVars, executed, auxVars>>

\* A trap that nothing can handle has brought the hart to mtvec = 0.
DeadEnd == pc = 0 /\ priv_ = "M" /\ csr.mtvec = 0

MachineTrap == /\ phase = "head"
               /\ DeadEnd
               /\ Ends([kind |-> "MachineTrap", mcause |-> csr.mcause, mepc |-> csr.mepc])
               /\ UNCHANGED <<hartVars, timeVars, executed, left, auxVars>>

\* check_interrupts, once per instruction and before it.
check_interrupts ==
    LET c == [csr EXCEPT !.MTIP = pending, !.STIP = @ \/ pending]
    IN  /\ phase = "head"
        /\ ~DeadEnd
        /\ due' = (due \/ pending)
        /\ \/ /\ c.MTIP /\ c.MTIE /\ interrupt_enabled(FALSE)
              /\ ToM(c, MTimer)
           \/ /\ ~(c.MTIP /\ c.MTIE /\ interrupt_enabled(FALSE))
              /\ c.STIP /\ c.STIE /\ interrupt_enabled(TRUE)
              /\ ToS(c, STimer)
           \/ /\ ~(c.MTIP /\ c.MTIE /\ interrupt_enabled(FALSE))
              /\ ~(c.STIP /\ c.STIE /\ interrupt_enabled(TRUE))
              /\ csr' = c
              /\ UNCHANGED <<priv_, pc, context, last>>
        /\ phase' = "step"
        /\ UNCHANGED <<timeVars, executed, left, ending>>

\* step_trapping says Handled: the instruction counts; tick(1) follows it.
Step == /\ phase = "step"
        /\ Execute
        /\ executed' = executed + 1
        /\ left' = left - 1
        /\ phase' = "tick"
        /\ UNCHANGED ending

Tick == /\ phase = "tick"
        /\ mtime' = mtime + 1
        /\ phase' = IF left = 0 THEN "service" ELSE "head"
        /\ UNCHANGED <<hartVars, mtimecmp, executed, left, ending, auxVars>>

Shutdown == /\ phase = "step"
            /\ priv_ = "S"
            /\ pc' \in Pcs
            /\ executed' = executed + 1
            /\ Ends([kind |-> "Shutdown"])
            /\ UNCHANGED <<priv_, csr, timeVars, left, auxVars>>

\* Guest memory failed: the instruction did not complete and is not counted.
Backing == /\ phase = "step"
           /\ Ends([kind |-> "Backing"])
           /\ UNCHANGED <<hartVars, timeVars, executed, left, auxVars>>

\* Between slices the console and the screen are served, and the caller may stop the run.
Service == /\ phase = "service"
           /\ \/ phase' = "outer" /\ UNCHANGED ending
              \/ Ends([kind |-> "Stopped"])
           /\ UNCHANGED <<hartVars, timeVars, executed, left, auxVars>>

Next == /\ \/ Outer
           \/ MachineTrap
           \/ check_interrupts
           \/ Step
           \/ Tick
           \/ Shutdown
           \/ Backing
           \/ Service
        /\ UNCHANGED start

Spec == Init /\ [][Next]_vars
-------------------------------------------------------------------------------
(* Properties. *)

\* The state's types: executed never passes the cap, and left never passes a slice.
TypeOK ==
    /\ priv_ \in Priv /\ pc \in Pcs /\ csr \in Csr
    /\ mtime \in Nat /\ mtimecmp \in Nat
    /\ phase \in {"outer", "head", "step", "tick", "service", "over"}
    /\ executed \in 0 .. max_insns /\ left \in 0 .. slice_insns

(***************************************************************************)
(* A kernel started in S-mode never executes an instruction in M-mode,     *)
(* whatever it writes where: the hart gets there only to be found at the   *)
(* dead end.  cpu.rs rests the timer on it (check_interrupts: "that branch *)
(* stays permanently inert").                                              *)
(***************************************************************************)
MachineModeIsADeadEnd ==
    start = "S" => /\ (priv_ = "M" => pc = 0 /\ phase # "step")
                   /\ csr.mtvec = 0 /\ ~csr.MTIE

(***************************************************************************)
(* run.rs: the dead end "must fire on the first arrival, while mcause and  *)
(* mepc still describe the instruction that caused it".  What a            *)
(* MachineTrap ending reports is the last trap that was taken, and that    *)
(* trap came out of the kernel's or a program's code, not out of M-mode.   *)
(***************************************************************************)
FirstArrivalReported ==
    start = "S" /\ ending.kind = "MachineTrap" =>
      /\ ending.mcause = last.cause /\ ending.mepc = last.pc
      /\ csr.MPP \in {"U", "S"}

(***************************************************************************)
(* Timer interrupts are precise: no guest instruction executes while one   *)
(* is due, enabled and deliverable.                                        *)
(***************************************************************************)
NoInstructionPastATimer ==
    phase = "step" => ~(mtime >= mtimecmp /\ csr.STIE /\ interrupt_enabled(TRUE))

(***************************************************************************)
(* A supervisor timer interrupt that is pending was due since the guest    *)
(* last set the timer: set_timer acknowledges the old one there and then,  *)
(* and moving mtimecmp or mtime by a store never raises one.               *)
(***************************************************************************)
NoSpuriousTimer == csr.STIP => due

(***************************************************************************)
(* Both: the guest gets a timer interrupt when it is due and deliverable,  *)
(* before its next instruction, and gets none that is not due.             *)
(***************************************************************************)
TimerIsPrecise == NoInstructionPastATimer /\ NoSpuriousTimer

(***************************************************************************)
(* A handler that leaves the saved state alone returns to exactly what it  *)
(* interrupted, address, privilege and interrupt enable, whatever traps    *)
(* and interrupts came and went before it.                                 *)
(***************************************************************************)
HandlerReturns ==
    [][/\ (phase = "step" /\ priv_ # "U" /\ sret /\ context.of = "S"
             => pc' = context.pc /\ priv_' = context.priv /\ csr'.SIE = context.ie)
       /\ (phase = "step" /\ priv_ = "M" /\ mret /\ context.of = "M"
             => pc' = context.pc /\ priv_' = context.priv /\ csr'.MIE = context.ie)]_vars

\* The loop's thread keeps running, and the guest keeps executing.
FairSpec == Spec /\ WF_vars(Next)

(***************************************************************************)
(* Every run ends: each turn of the loop counts, trapped or not, so the    *)
(* cap is reached even by a guest that does nothing but trap.              *)
(***************************************************************************)
RunEnds == <>(ending # Running)
===============================================================================
