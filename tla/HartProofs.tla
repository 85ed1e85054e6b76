------------------------------ MODULE HartProofs ------------------------------
(***************************************************************************)
(* Proofs about Hart.tla, for every set of addresses, deadlines and run    *)
(* lengths: first for a kernel that starts in S-mode, then for any guest.  *)
(*                                                                         *)
(* That M-mode is a dead end is inductive only together with why: mtvec is *)
(* still 0 and MTIE still off because only M-mode could change them, and   *)
(* M-mode executes nothing because the loop looks for the dead end before  *)
(* each instruction.  Arrived says what the machine registers hold between *)
(* the arrival and the moment the loop notices it.                         *)
(***************************************************************************)
EXTENDS Hart, TLAPS

Fields == {"SIE", "SPIE", "SPP", "MIE", "MPIE", "MPP", "STIE", "MTIE", "STIP", "MTIP",
           "stvec", "mtvec", "sepc", "mepc", "scause", "mcause"}

Shape == /\ priv_ \in Priv
         /\ DOMAIN csr = Fields

Inert == /\ csr.mtvec = 0 /\ csr.MTIE = FALSE
         /\ priv_ = "M" => pc = 0 /\ phase # "step"

Arrived == priv_ = "M" => /\ csr.mcause = last.cause
                          /\ csr.mepc = last.pc
                          /\ csr.MPP \in {"U", "S"}

Reported == ending.kind = "MachineTrap" => /\ phase = "over"
                                           /\ ending.mcause = last.cause
                                           /\ ending.mepc = last.pc
                                           /\ csr.MPP \in {"U", "S"}

\* The inductive invariant of a kernel.
IInv == start = "S" => Shape /\ Inert /\ Arrived /\ Reported

\* The reset state of a hart that run starts in S-mode satisfies the invariant.
LEMMA InitOK == Init => IInv
<1> SUFFICES ASSUME Init, start = "S" PROVE Shape /\ Inert /\ Arrived /\ Reported
  BY DEF IInv
<1>1. DOMAIN ResetCsr = Fields
  BY DEF ResetCsr, Fields
<1> QED
  BY <1>1 DEF Init, Shape, Inert, Arrived, Reported, ResetCsr, Priv, Running

\* A trap out of S-mode or U-mode leaves either a handler to run or the dead end.
LEMMA TrapOK ==
  ASSUME Shape, Inert, priv_ # "M", NEW e, trap(e), phase' # "step"
  PROVE  Shape' /\ Inert' /\ Arrived'
<1>1. CASE ToS(csr, e)
  BY <1>1 DEF ToS, Shape, Inert, Arrived, Priv, Fields
<1>2. CASE ToM(csr, e)
  BY <1>2 DEF ToM, Shape, Inert, Arrived, Priv, Fields
<1> QED
  BY <1>1, <1>2 DEF trap

\* A CSR write below M-mode reaches neither mtvec nor MTIE, or traps.
LEMMA CsrWriteOK ==
  ASSUME Shape, Inert, priv_ # "M", phase' # "step",
         NEW c \in CsrNames, NEW v \in WriteValues(c), CsrWrite(c, v)
  PROVE  Shape' /\ Inert' /\ Arrived'
<1>1. CASE Rank[priv_] < MinPriv(c)
  BY <1>1, TrapOK DEF CsrWrite, Fault
<1>2. CASE ~(Rank[priv_] < MinPriv(c))
  <2>1. Rank[priv_] \in {0, 1}
    BY DEF Rank, Shape, Priv
  <2>2. c \in {"sstatus", "sie", "sip", "stvec", "sepc"}
    BY <1>2, <2>1 DEF MinPriv
  <2>3. \/ v \in [{"SIE", "SPIE", "SPP"} -> BOOLEAN] \/ v \in [{"STIE"} -> BOOLEAN]
        \/ v \in [{"STIP"} -> BOOLEAN] \/ v \in [{"stvec"} -> Pcs] \/ v \in [{"sepc"} -> Pcs]
    BY <2>2 DEF WriteValues
  <2>4. "mtvec" \notin DOMAIN v /\ "MTIE" \notin DOMAIN v
    BY <2>3
  <2>5. /\ csr' = [f \in DOMAIN csr |-> IF f \in DOMAIN v THEN v[f] ELSE csr[f]]
        /\ priv_' = priv_
    BY <1>2 DEF CsrWrite, Retires
  <2>6. csr'.mtvec = csr.mtvec /\ csr'.MTIE = csr.MTIE /\ DOMAIN csr' = Fields
    BY <2>4, <2>5 DEF Shape, Fields
  <2> QED
    BY <2>5, <2>6 DEF Shape, Inert, Arrived
<1> QED
  BY <1>1, <1>2

\* No instruction below M-mode can do worse than arrive at the dead end.
LEMMA ExecuteOK ==
  ASSUME Shape, Inert, priv_ # "M", phase' # "step", Execute
  PROVE  Shape' /\ Inert' /\ Arrived'
<1>1. ASSUME UNCHANGED <<csr, priv_>> PROVE Shape' /\ Inert' /\ Arrived'
  BY <1>1 DEF Shape, Inert, Arrived
<1>2. CASE \E e \in {"IllegalInstruction", "Breakpoint", "AccessFault", "PageFault"} : Fault(e)
  BY <1>2, TrapOK DEF Fault
<1>3. CASE sret
  <2>1. CASE trap("IllegalInstruction")
    BY <2>1, TrapOK
  <2>2. CASE ~trap("IllegalInstruction")
    BY <1>3, <2>2 DEF sret, Shape, Inert, Arrived, Priv, Fields
  <2> QED
    BY <2>1, <2>2
<1>4. CASE mret
  BY <1>4, TrapOK DEF mret
<1>5. CASE \E c \in CsrNames : \E v \in WriteValues(c) : CsrWrite(c, v)
  BY <1>5, CsrWriteOK
<1>6. CASE \E d \in Deadlines : set_timer(d)
  BY <1>6 DEF set_timer, Retires, Shape, Inert, Arrived, Fields
<1>7. CASE EcallTraps
  BY <1>7, TrapOK DEF EcallTraps, Fault
<1>8. CASE Ordinary \/ (\E d \in Deadlines : StoreMtimecmp(d)) \/ StoreMtime(0)
  BY <1>1, <1>8 DEF Ordinary, StoreMtimecmp, StoreMtime, Retires
<1> QED
  BY <1>2, <1>3, <1>4, <1>5, <1>6, <1>7, <1>8 DEF Execute

\* The interrupt check below M-mode never enters M-mode: MTIE is off.
LEMMA InterruptOK ==
  ASSUME Shape, Inert, check_interrupts
  PROVE  Shape' /\ Inert' /\ Arrived'
<1> DEFINE c == [csr EXCEPT !.MTIP = pending, !.STIP = @ \/ pending]
<1>1. priv_ # "M"
  BY DEF check_interrupts, DeadEnd, Inert
<1>2. /\ DOMAIN c = Fields /\ c.mtvec = 0 /\ c.MTIE = FALSE
  BY DEF Shape, Inert, Fields
<1>3. \/ ToS(c, STimer)
      \/ csr' = c /\ UNCHANGED <<priv_, pc, context, last>>
  BY <1>2 DEF check_interrupts
<1> HIDE DEF c
<1>4. CASE ToS(c, STimer)
  BY <1>2, <1>4 DEF ToS, Shape, Inert, Arrived, Priv, Fields
<1>5. CASE csr' = c /\ UNCHANGED <<priv_, pc, context, last>>
  BY <1>1, <1>2, <1>5 DEF Shape, Inert, Arrived
<1> QED
  BY <1>3, <1>4, <1>5

\* Every step of the loop preserves the invariant.
LEMMA NextOK == IInv /\ [Next]_vars => IInv'
<1> SUFFICES ASSUME IInv, [Next]_vars, start = "S"
             PROVE  Shape' /\ Inert' /\ Arrived' /\ Reported'
  <2>1. ASSUME [Next]_vars PROVE start' = start
    BY <2>1 DEF Next, vars
  <2> QED
    BY <2>1 DEF IInv
<1>0. Shape /\ Inert /\ Arrived /\ Reported
  BY DEF IInv
<1>a. ASSUME UNCHANGED <<hartVars, last, ending>>, phase' # "step", phase # "over"
      PROVE  Shape' /\ Inert' /\ Arrived' /\ Reported'
  BY <1>0, <1>a DEF Shape, Inert, Arrived, Reported, hartVars
<1>b. ASSUME phase # "over", ending' = ending PROVE Reported'
  BY <1>0, <1>b DEF Reported
<1>1. CASE Outer
  <2>1. UNCHANGED <<hartVars, last>> /\ phase' # "step" /\ ending'.kind # "MachineTrap"
    BY <1>0, <1>1 DEF Outer, Ends, auxVars, Reported
  <2> QED
    BY <1>0, <2>1 DEF Shape, Inert, Arrived, Reported, hartVars
<1>2. CASE MachineTrap
  <2>1. /\ UNCHANGED <<hartVars, last>> /\ phase' = "over" /\ priv_ = "M"
        /\ ending' = [kind |-> "MachineTrap", mcause |-> csr.mcause, mepc |-> csr.mepc]
    BY <1>2 DEF MachineTrap, DeadEnd, Ends, auxVars
  <2> QED
    BY <1>0, <2>1 DEF Shape, Inert, Arrived, Reported, hartVars
<1>3. CASE check_interrupts
  <2>1. phase # "over" /\ ending' = ending
    BY <1>3 DEF check_interrupts
  <2> QED
    BY <1>0, <1>3, <1>b, <2>1, InterruptOK
<1>4. CASE Step
  <2>1. phase' # "step" /\ phase # "over" /\ ending' = ending /\ Execute /\ priv_ # "M"
    BY <1>0, <1>4 DEF Step, Inert
  <2> QED
    BY <1>0, <1>b, <2>1, ExecuteOK
<1>5. CASE Tick
  BY <1>5, <1>a DEF Tick, auxVars
<1>6. CASE Shutdown \/ Backing \/ Service
  <2>1. /\ UNCHANGED <<priv_, csr, last>> /\ phase' # "step" /\ ending'.kind # "MachineTrap"
        /\ priv_ = "M" => pc' = pc
    BY <1>0, <1>6 DEF Shutdown, Backing, Service, Ends, auxVars, hartVars, Reported
  <2> QED
    BY <1>0, <2>1 DEF Shape, Inert, Arrived, Reported
<1>7. CASE UNCHANGED vars
  BY <1>0, <1>7 DEF vars, hartVars, loopVars, auxVars, Shape, Inert, Arrived, Reported
<1> QED
  BY <1>1, <1>2, <1>3, <1>4, <1>5, <1>6, <1>7 DEF Next

(***************************************************************************)
(* The inductive invariant holds of every state of a kernel's run.         *)
(***************************************************************************)
THEOREM Invariance == Spec => []IInv
BY InitOK, NextOK, PTL DEF Spec

(***************************************************************************)
(* A kernel that run starts in S-mode never executes an instruction in     *)
(* M-mode and never gets mtvec or MTIE changed, whatever it executes and   *)
(* however long: the branch of check_interrupts for M-mode is inert.       *)
(***************************************************************************)
THEOREM KernelStaysBelowMachineMode == Spec => []MachineModeIsADeadEnd
<1>1. IInv => MachineModeIsADeadEnd
  BY DEF IInv, Inert, MachineModeIsADeadEnd
<1> QED
  BY <1>1, Invariance, PTL

(***************************************************************************)
(* When run ends with Ending::MachineTrap, the cause and the address it    *)
(* reports are those of the trap that brought the hart there.              *)
(***************************************************************************)
THEOREM TrapReportIsTrue == Spec => []FirstArrivalReported
<1>1. IInv => FirstArrivalReported
  BY DEF IInv, Reported, FirstArrivalReported
<1> QED
  BY <1>1, Invariance, PTL

-------------------------------------------------------------------------------
(* Types, and what the loop counts. *)

\* What is counted and what is left of the slice fit under the cap.
Counted == /\ executed <= max_insns
           /\ phase \in {"head", "step", "tick"} => executed + left <= max_insns
           /\ phase \in {"head", "step"} => left >= 1

MachineType == /\ priv_ \in Priv /\ pc \in Pcs /\ csr \in Csr
               /\ mtime \in Nat /\ mtimecmp \in Nat /\ due \in BOOLEAN

TypeInv == TypeOK /\ MachineType /\ Counted

LEMMA CsrFields ==
  ASSUME NEW c \in Csr
  PROVE  /\ DOMAIN c = Fields
         /\ c.SIE \in BOOLEAN /\ c.SPIE \in BOOLEAN /\ c.SPP \in BOOLEAN
         /\ c.MIE \in BOOLEAN /\ c.MPIE \in BOOLEAN /\ c.MPP \in Priv
         /\ c.STIE \in BOOLEAN /\ c.MTIE \in BOOLEAN /\ c.STIP \in BOOLEAN /\ c.MTIP \in BOOLEAN
         /\ c.stvec \in Pcs /\ c.mtvec \in Pcs /\ c.sepc \in Pcs /\ c.mepc \in Pcs
         /\ c.scause \in Exceptions \cup {STimer, "none"}
         /\ c.mcause \in Exceptions \cup {MTimer, "none"}
  BY DEF Csr, Fields

\* A trap from a well-formed register file leaves a well-formed one.
LEMMA ToSType ==
  ASSUME NEW c \in Csr, NEW cause \in Exceptions \cup {STimer}, priv_ \in Priv, pc \in Pcs,
         ToS(c, cause)
  PROVE  csr' \in Csr /\ priv_' \in Priv /\ pc' \in Pcs
<1>1. csr' \in Csr
  <2>1. PICK b \in BOOLEAN : b = (priv_ # "U")
    OBVIOUS
  <2>2. csr' = [c EXCEPT !.sepc = pc, !.scause = cause,
                         !.SPIE = c.SIE, !.SIE = FALSE, !.SPP = b]
    BY <2>1 DEF ToS
  <2> QED
    BY <2>2, CsrFields DEF Csr
<1> QED
  BY <1>1, CsrFields DEF ToS, Priv

LEMMA ToMType ==
  ASSUME NEW c \in Csr, NEW cause \in Exceptions \cup {MTimer}, priv_ \in Priv, pc \in Pcs,
         ToM(c, cause)
  PROVE  csr' \in Csr /\ priv_' \in Priv /\ pc' \in Pcs
<1>1. csr' \in Csr
  BY CsrFields DEF ToM, Csr
<1> QED
  BY <1>1, CsrFields DEF ToM, Priv

LEMMA TrapType ==
  ASSUME csr \in Csr, priv_ \in Priv, pc \in Pcs, NEW e \in Exceptions, trap(e)
  PROVE  csr' \in Csr /\ priv_' \in Priv /\ pc' \in Pcs
<1>1. CASE ToS(csr, e)
  BY <1>1, ToSType
<1>2. CASE ToM(csr, e)
  BY <1>2, ToMType
<1> QED
  BY <1>1, <1>2 DEF trap

LEMMA CsrWriteType ==
  ASSUME csr \in Csr, NEW c \in CsrNames, NEW v \in WriteValues(c),
         csr' = [f \in DOMAIN csr |-> IF f \in DOMAIN v THEN v[f] ELSE csr[f]]
  PROVE  csr' \in Csr
<1>1. \/ v \in [{"SIE", "SPIE", "SPP"} -> BOOLEAN] \/ v \in [{"STIE"} -> BOOLEAN]
      \/ v \in [{"STIP"} -> BOOLEAN] \/ v \in [{"stvec"} -> Pcs] \/ v \in [{"sepc"} -> Pcs]
      \/ v \in [{"MIE", "MPIE"} -> BOOLEAN] \/ v \in [{"MPP"} -> Priv]
      \/ v \in [{"STIE", "MTIE"} -> BOOLEAN] \/ v \in [{"mtvec"} -> Pcs] \/ v \in [{"mepc"} -> Pcs]
  BY DEF WriteValues, CsrNames
<1>2. DOMAIN csr = Fields
  BY CsrFields
<1>3. csr' = [f \in Fields |-> csr'[f]]
  BY <1>2
<1>4. /\ csr'["SIE"] \in BOOLEAN /\ csr'["SPIE"] \in BOOLEAN /\ csr'["SPP"] \in BOOLEAN
      /\ csr'["MIE"] \in BOOLEAN /\ csr'["MPIE"] \in BOOLEAN /\ csr'["MPP"] \in Priv
  BY <1>1, <1>2, CsrFields DEF Fields
<1>5. /\ csr'["STIE"] \in BOOLEAN /\ csr'["MTIE"] \in BOOLEAN /\ csr'["STIP"] \in BOOLEAN
      /\ csr'["MTIP"] \in BOOLEAN
  BY <1>1, <1>2, CsrFields DEF Fields
<1>6. /\ csr'["stvec"] \in Pcs /\ csr'["mtvec"] \in Pcs /\ csr'["sepc"] \in Pcs
      /\ csr'["mepc"] \in Pcs
      /\ csr'["scause"] \in Exceptions \cup {STimer, "none"}
      /\ csr'["mcause"] \in Exceptions \cup {MTimer, "none"}
  BY <1>1, <1>2, CsrFields DEF Fields
<1> QED
  BY <1>3, <1>4, <1>5, <1>6 DEF Csr, Fields

LEMMA ExecuteType ==
  ASSUME MachineType, Execute
  PROVE  MachineType'
<1> USE DEF MachineType
<1>1. ASSUME UNCHANGED <<mtime, mtimecmp, due>>, csr' \in Csr, priv_' \in Priv, pc' \in Pcs
      PROVE  MachineType'
  BY <1>1
<1>2. ASSUME NEW e \in Exceptions, trap(e), UNCHANGED <<timeVars, due>> PROVE MachineType'
  BY <1>1, <1>2, TrapType DEF timeVars
<1>3. CASE Ordinary
  BY <1>1, <1>3 DEF Ordinary, Retires, timeVars
<1>4. CASE \E e \in {"IllegalInstruction", "Breakpoint", "AccessFault", "PageFault"} : Fault(e)
  BY <1>2, <1>4 DEF Fault, Exceptions
<1>5. CASE sret /\ UNCHANGED <<timeVars, due>>
  <2>1. CASE priv_ = "U"
    BY <1>2, <1>5, <2>1 DEF sret, Exceptions
  <2>2. CASE priv_ # "U"
    <3>1. csr' \in Csr
      <4>1. csr' = [csr EXCEPT !.SIE = csr.SPIE, !.SPIE = TRUE, !.SPP = FALSE]
        BY <1>5, <2>2 DEF sret
      <4> QED
        BY <4>1, CsrFields DEF Csr
    <3> QED
      BY <1>1, <1>5, <2>2, <3>1, CsrFields DEF sret, Priv, timeVars
  <2> QED
    BY <2>1, <2>2
<1>6. CASE mret /\ UNCHANGED <<timeVars, due>>
  <2>1. CASE priv_ # "M"
    BY <1>2, <1>6, <2>1 DEF mret, Exceptions
  <2>2. CASE priv_ = "M"
    <3>1. csr' \in Csr
      <4>1. csr' = [csr EXCEPT !.MIE = csr.MPIE, !.MPIE = TRUE, !.MPP = "U"]
        BY <1>6, <2>2 DEF mret
      <4>2. "U" \in Priv
        BY DEF Priv
      <4> QED
        BY <4>1, <4>2, CsrFields DEF Csr
    <3> QED
      BY <1>1, <1>6, <2>2, <3>1, CsrFields DEF mret, Priv, timeVars
  <2> QED
    BY <2>1, <2>2
<1>7. ASSUME NEW c \in CsrNames, NEW v \in WriteValues(c), CsrWrite(c, v) PROVE MachineType'
  <2>1. CASE Rank[priv_] < MinPriv(c)
    BY <1>2, <1>7, <2>1 DEF CsrWrite, Fault, Exceptions
  <2>2. CASE ~(Rank[priv_] < MinPriv(c))
    <3>1. /\ csr' \in Csr /\ priv_' \in Priv /\ pc' \in Pcs
          /\ UNCHANGED <<mtime, mtimecmp>>
      BY <1>7, <2>2, CsrWriteType DEF CsrWrite, Retires, timeVars
    <3>2. due' \in BOOLEAN
      BY <1>7, <2>2 DEF CsrWrite
    <3> QED
      BY <3>1, <3>2
  <2> QED
    BY <2>1, <2>2
<1>8. CASE \E d \in Deadlines : StoreMtimecmp(d)
  BY <1>8, HartAssumption DEF StoreMtimecmp, Retires, HartAssumption
<1>9. CASE StoreMtime(0)
  BY <1>9 DEF StoreMtime, Retires
<1>10. CASE \E d \in Deadlines : set_timer(d)
  <2>1. csr' \in Csr
    BY <1>10, CsrFields DEF set_timer, Csr
  <2> QED
    BY <1>10, <2>1, HartAssumption DEF set_timer, Retires, HartAssumption
<1>11. CASE EcallTraps
  BY <1>2, <1>11 DEF EcallTraps, Fault, Exceptions
<1> QED
  BY <1>3, <1>4, <1>5, <1>6, <1>7, <1>8, <1>9, <1>10, <1>11 DEF Execute

LEMMA InterruptType ==
  ASSUME MachineType, check_interrupts
  PROVE  MachineType'
<1> DEFINE c == [csr EXCEPT !.MTIP = pending, !.STIP = @ \/ pending]
<1>1. c \in Csr
  <2>1. PICK m \in BOOLEAN : m = pending
    <3>1. pending \in BOOLEAN
      BY DEF pending, MachineType
    <3> QED
      BY <3>1, Zenon
  <2>2. PICK s \in BOOLEAN : s = (csr.STIP \/ pending)
    BY Zenon
  <2>3. c = [csr EXCEPT !.MTIP = m, !.STIP = s]
    BY <2>1, <2>2
  <2>4. csr \in Csr
    BY DEF MachineType
  <2> HIDE DEF c
  <2> QED
    BY <2>3, <2>4, CsrFields DEF Csr
<1>2. UNCHANGED <<mtime, mtimecmp>> /\ due' \in BOOLEAN
  BY DEF check_interrupts, timeVars
<1>3. ToM(c, MTimer) \/ ToS(c, STimer) \/ (csr' = c /\ UNCHANGED <<priv_, pc>>)
  BY DEF check_interrupts
<1> HIDE DEF c
<1>4. csr' \in Csr /\ priv_' \in Priv /\ pc' \in Pcs
  BY <1>1, <1>3, ToMType, ToSType DEF MachineType
<1> QED
  BY <1>2, <1>4 DEF MachineType

LEMMA TypeInit == Init => TypeInv
<1> SUFFICES ASSUME Init PROVE TypeInv
  OBVIOUS
<1>1. csr \in Csr
  BY HartAssumption DEF Init, ResetCsr, Csr, Priv, HartAssumption
<1>2. priv_ \in Priv /\ pc \in Pcs
  BY HartAssumption DEF Init, Priv, HartAssumption
<1>3. /\ mtime \in Nat /\ mtimecmp \in Nat /\ phase = "outer" /\ executed \in 0 .. max_insns
      /\ left \in 0 .. slice_insns /\ executed <= max_insns
  BY HartAssumption DEF Init, HartAssumption
<1>4. due \in BOOLEAN
  BY DEF Init
<1> QED
  BY <1>1, <1>2, <1>3, <1>4 DEF TypeInv, TypeOK, MachineType, Counted

LEMMA TypeNext == TypeInv /\ [Next]_vars => TypeInv'
<1> SUFFICES ASSUME TypeInv, [Next]_vars PROVE TypeInv'
  OBVIOUS
<1> USE HartAssumption DEF HartAssumption
<1>0. MachineType /\ Counted /\ executed \in 0 .. max_insns /\ left \in 0 .. slice_insns
  BY DEF TypeInv, TypeOK
<1>a. ASSUME MachineType', Counted', executed' \in Nat, left' \in 0 .. slice_insns,
             phase' \in {"outer", "head", "step", "tick", "service", "over"}
      PROVE  TypeInv'
  <2>1. executed' \in 0 .. max_insns
    BY <1>a DEF Counted
  <2> QED
    BY <1>a, <2>1 DEF TypeInv, TypeOK, MachineType
<1>b. ASSUME UNCHANGED <<hartVars, timeVars, due>> PROVE MachineType'
  BY <1>0, <1>b DEF MachineType, hartVars, timeVars
<1>1. CASE Outer
  <2>1. MachineType'
    BY <1>1, <1>b DEF Outer, auxVars
  <2>2. CASE executed >= max_insns
    BY <1>0, <1>1, <1>a, <2>1, <2>2 DEF Outer, Ends, Counted
  <2>3. CASE ~(executed >= max_insns)
    <3>1. /\ phase' = "head" /\ executed' = executed
          /\ left' = Smaller(slice_insns, max_insns - executed)
      BY <1>1, <2>3 DEF Outer
    <3>2. left' \in 1 .. slice_insns /\ executed' + left' <= max_insns
      BY <1>0, <2>3, <3>1 DEF Smaller
    <3> QED
      BY <1>0, <1>a, <2>1, <3>1, <3>2 DEF Counted
  <2> QED
    BY <2>2, <2>3
<1>2. CASE MachineTrap
  <2>1. MachineType'
    BY <1>2, <1>b DEF MachineTrap, auxVars
  <2> QED
    BY <1>0, <1>2, <1>a, <2>1 DEF MachineTrap, Ends, Counted
<1>3. CASE check_interrupts
  <2>1. MachineType'
    BY <1>0, <1>3, InterruptType
  <2> QED
    BY <1>0, <1>3, <1>a, <2>1 DEF check_interrupts, Counted
<1>4. CASE Step
  <2>1. MachineType'
    BY <1>0, <1>4, ExecuteType DEF Step
  <2> QED
    BY <1>0, <1>4, <1>a, <2>1 DEF Step, Counted
<1>5. CASE Tick
  <2>1. MachineType'
    BY <1>0, <1>5 DEF Tick, MachineType, hartVars, auxVars
  <2> QED
    BY <1>0, <1>5, <1>a, <2>1 DEF Tick, Counted
<1>6. CASE Shutdown \/ Backing \/ Service
  <2>1. MachineType'
    BY <1>0, <1>6 DEF Shutdown, Backing, Service, MachineType, hartVars, timeVars, auxVars
  <2> QED
    BY <1>0, <1>6, <1>a, <2>1 DEF Shutdown, Backing, Service, Ends, Counted
<1>7. CASE UNCHANGED vars
  BY <1>7 DEF vars, hartVars, timeVars, loopVars, auxVars, TypeInv, TypeOK, MachineType, Counted
<1> QED
  BY <1>1, <1>2, <1>3, <1>4, <1>5, <1>6, <1>7 DEF Next

-------------------------------------------------------------------------------
(* The timer. *)

\* An instruction sets STIP only by a write to sip, which counts as due.
LEMMA ExecuteTimer ==
  ASSUME MachineType, NoSpuriousTimer, Execute
  PROVE  NoSpuriousTimer'
<1> USE DEF NoSpuriousTimer
<1>0. csr \in Csr /\ due \in BOOLEAN
  BY DEF MachineType
<1>1. ASSUME csr'.STIP = csr.STIP, due' = due PROVE NoSpuriousTimer'
  BY <1>1
<1>2. ASSUME NEW e, trap(e), due' = due PROVE NoSpuriousTimer'
  <2>1. csr'.STIP = csr.STIP
    BY <1>0, <1>2, CsrFields DEF trap, ToS, ToM, Fields
  <2> QED
    BY <1>1, <1>2, <2>1
<1>3. CASE Ordinary \/ (\E d \in Deadlines : StoreMtimecmp(d)) \/ StoreMtime(0)
  BY <1>1, <1>3 DEF Ordinary, StoreMtimecmp, StoreMtime
<1>4. CASE \E e \in {"IllegalInstruction", "Breakpoint", "AccessFault", "PageFault"} : Fault(e)
  BY <1>2, <1>4 DEF Fault
<1>5. CASE sret /\ UNCHANGED <<timeVars, due>>
  <2>1. CASE priv_ = "U"
    BY <1>2, <1>5, <2>1 DEF sret
  <2>2. CASE priv_ # "U"
    <3>1. csr'.STIP = csr.STIP
      BY <1>0, <1>5, <2>2, CsrFields DEF sret, Fields
    <3> QED
      BY <1>1, <1>5, <3>1
  <2> QED
    BY <2>1, <2>2
<1>6. CASE mret /\ UNCHANGED <<timeVars, due>>
  <2>1. CASE priv_ # "M"
    BY <1>2, <1>6, <2>1 DEF mret
  <2>2. CASE priv_ = "M"
    <3>1. csr'.STIP = csr.STIP
      BY <1>0, <1>6, <2>2, CsrFields DEF mret, Fields
    <3> QED
      BY <1>1, <1>6, <3>1
  <2> QED
    BY <2>1, <2>2
<1>7. ASSUME NEW c \in CsrNames, NEW v \in WriteValues(c), CsrWrite(c, v)
      PROVE  NoSpuriousTimer'
  <2>1. CASE Rank[priv_] < MinPriv(c)
    BY <1>2, <1>7, <2>1 DEF CsrWrite, Fault
  <2>2. CASE ~(Rank[priv_] < MinPriv(c))
    <3>1. csr' = [f \in DOMAIN csr |-> IF f \in DOMAIN v THEN v[f] ELSE csr[f]]
      BY <1>7, <2>2 DEF CsrWrite
    <3>2. due' = (due \/ ("STIP" \in DOMAIN v /\ v["STIP"]))
      BY <1>7, <2>2 DEF CsrWrite
    <3>3. csr'["STIP"] = IF "STIP" \in DOMAIN v THEN v["STIP"] ELSE csr["STIP"]
      BY <1>0, <3>1, CsrFields DEF Fields
    <3> QED
      BY <3>2, <3>3
  <2> QED
    BY <2>1, <2>2
<1>8. CASE \E d \in Deadlines : set_timer(d)
  BY <1>0, <1>8, CsrFields DEF set_timer, Fields
<1>9. CASE EcallTraps
  BY <1>2, <1>9 DEF EcallTraps, Fault
<1> QED
  BY <1>3, <1>4, <1>5, <1>6, <1>7, <1>8, <1>9 DEF Execute

\* The check takes an interrupt that is due, enabled and deliverable, and only marks pending
\* what is due.
LEMMA InterruptTimer ==
  ASSUME MachineType, NoSpuriousTimer, check_interrupts
  PROVE  TimerIsPrecise'
<1> DEFINE c == [csr EXCEPT !.MTIP = pending, !.STIP = @ \/ pending]
           late == mtime >= mtimecmp
<1>0. csr \in Csr
  BY DEF MachineType
<1>1. /\ c.STIP = (csr.STIP \/ pending) /\ c.STIE = csr.STIE /\ c.SIE = csr.SIE
      /\ DOMAIN c = Fields
  BY <1>0, CsrFields DEF Fields
<1>2. due' = (due \/ pending) /\ UNCHANGED <<mtime, mtimecmp>>
  BY DEF check_interrupts, timeVars
<1>3. c.STIP => due'
  BY <1>1, <1>2 DEF NoSpuriousTimer
<1>4. \/ ToM(c, MTimer)
      \/ ToS(c, STimer)
      \/ ~(c.STIP /\ c.STIE /\ interrupt_enabled(TRUE)) /\ csr' = c /\ UNCHANGED priv_
  BY DEF check_interrupts
<1>5. pending' <=> pending
  BY <1>2 DEF pending
<1> HIDE DEF c
<1>6. csr'.STIP = c.STIP
  BY <1>1, <1>4 DEF ToM, ToS, Fields
<1>7. NoSpuriousTimer'
  BY <1>3, <1>6 DEF NoSpuriousTimer
<1>8. ~(pending' /\ csr'.STIE /\ interrupt_enabled(TRUE)')
  <2>1. CASE ToM(c, MTimer)
    BY <2>1 DEF ToM, interrupt_enabled
  <2>2. CASE ToS(c, STimer)
    BY <1>1, <2>2 DEF ToS, interrupt_enabled, Fields
  <2>3. CASE ~(c.STIP /\ c.STIE /\ interrupt_enabled(TRUE)) /\ csr' = c /\ UNCHANGED priv_
    BY <1>1, <1>5, <2>3 DEF interrupt_enabled
  <2> QED
    BY <1>4, <2>1, <2>2, <2>3
<1> QED
  BY <1>7, <1>8 DEF TimerIsPrecise, NoInstructionPastATimer, pending

LEMMA TimerNext == TypeInv /\ TimerIsPrecise /\ [Next]_vars => TimerIsPrecise'
<1> SUFFICES ASSUME TypeInv, TimerIsPrecise, [Next]_vars PROVE TimerIsPrecise'
  OBVIOUS
<1>0. MachineType /\ NoSpuriousTimer
  BY DEF TypeInv, TimerIsPrecise
<1>a. ASSUME NoSpuriousTimer', phase' # "step" PROVE TimerIsPrecise'
  BY <1>a DEF TimerIsPrecise, NoInstructionPastATimer
<1>b. ASSUME UNCHANGED <<csr, due>> PROVE NoSpuriousTimer'
  BY <1>0, <1>b DEF NoSpuriousTimer
<1>1. CASE Outer \/ MachineTrap \/ Tick \/ Shutdown \/ Backing \/ Service
  <2>1. UNCHANGED <<csr, due>>
    BY <1>1 DEF Outer, MachineTrap, Tick, Shutdown, Backing, Service, hartVars, auxVars
  <2>2. phase' # "step"
    BY <1>1 DEF Outer, MachineTrap, Tick, Shutdown, Backing, Service, Ends
  <2> QED
    BY <1>a, <1>b, <2>1, <2>2
<1>2. CASE check_interrupts
  BY <1>0, <1>2, InterruptTimer
<1>3. CASE Step
  BY <1>0, <1>3, <1>a, ExecuteTimer DEF Step
<1>4. CASE UNCHANGED vars
  <2>1. UNCHANGED <<csr, priv_, mtime, mtimecmp, phase, due>>
    BY <1>4 DEF vars, hartVars, timeVars, loopVars, auxVars
  <2> QED
    BY <2>1 DEF TimerIsPrecise, NoInstructionPastATimer, NoSpuriousTimer, interrupt_enabled
<1> QED
  BY <1>1, <1>2, <1>3, <1>4 DEF Next

-------------------------------------------------------------------------------
(* Trap and return. *)

\* What the saved fields hold while a handler leaves them alone.
SavedS == context.of = "S" => /\ csr.sepc = context.pc /\ csr.SPIE = context.ie
                              /\ context.priv = IF csr.SPP THEN "S" ELSE "U"
SavedM == context.of = "M" => /\ csr.mepc = context.pc /\ csr.MPIE = context.ie
                              /\ csr.MPP = context.priv
Saved == SavedS /\ SavedM

\* Steps that keep the saved fields, and the context with them or not at all.
LEMMA SavedKept ==
  ASSUME Saved, context' \in {context, NoContext},
         context' = context =>
           /\ csr'.sepc = csr.sepc /\ csr'.SPIE = csr.SPIE /\ csr'.SPP = csr.SPP
           /\ csr'.mepc = csr.mepc /\ csr'.MPIE = csr.MPIE /\ csr'.MPP = csr.MPP
  PROVE  Saved'
  BY DEF Saved, SavedS, SavedM, NoContext

LEMMA SavedByToS ==
  ASSUME NEW c \in Csr, NEW cause, priv_ \in {"U", "S"}, ToS(c, cause)
  PROVE  Saved'
  BY CsrFields DEF ToS, Saved, SavedS, SavedM, Fields

LEMMA SavedByToM ==
  ASSUME NEW c \in Csr, NEW cause, ToM(c, cause)
  PROVE  Saved'
  BY CsrFields DEF ToM, Saved, SavedS, SavedM, Fields

LEMMA SavedByTrap ==
  ASSUME MachineType, NEW e, trap(e)
  PROVE  Saved'
  BY SavedByToS, SavedByToM DEF trap, MachineType, Priv

LEMMA ExecuteSaved ==
  ASSUME MachineType, Saved, Execute
  PROVE  Saved'
<1>0. csr \in Csr
  BY DEF MachineType
<1>1. CASE Ordinary \/ (\E d \in Deadlines : StoreMtimecmp(d)) \/ StoreMtime(0)
  BY <1>1, SavedKept DEF Ordinary, StoreMtimecmp, StoreMtime
<1>2. CASE \E e \in {"IllegalInstruction", "Breakpoint", "AccessFault", "PageFault"} : Fault(e)
  BY <1>2, SavedByTrap DEF Fault
<1>3. CASE sret \/ mret
  <2>1. ASSUME context' = NoContext PROVE Saved'
    BY <2>1 DEF Saved, SavedS, SavedM, NoContext
  <2> QED
    BY <1>3, <2>1, SavedByTrap DEF sret, mret
<1>4. ASSUME NEW c \in CsrNames, NEW v \in WriteValues(c), CsrWrite(c, v)
      PROVE  Saved'
  <2>1. CASE Rank[priv_] < MinPriv(c)
    BY <1>4, <2>1, SavedByTrap DEF CsrWrite, Fault
  <2>2. CASE ~(Rank[priv_] < MinPriv(c))
    <3>1. /\ csr' = [f \in DOMAIN csr |-> IF f \in DOMAIN v THEN v[f] ELSE csr[f]]
          /\ context' = IF c \in {"sstatus", "sepc", "mstatus", "mepc"} THEN NoContext
                        ELSE context
      BY <1>4, <2>2 DEF CsrWrite
    <3>2. CASE c \in {"sstatus", "sepc", "mstatus", "mepc"}
      BY <3>1, <3>2 DEF Saved, SavedS, SavedM, NoContext
    <3>3. CASE c \notin {"sstatus", "sepc", "mstatus", "mepc"}
      <4>1. \/ v \in [{"STIE"} -> BOOLEAN] \/ v \in [{"STIP"} -> BOOLEAN]
            \/ v \in [{"stvec"} -> Pcs] \/ v \in [{"STIE", "MTIE"} -> BOOLEAN]
            \/ v \in [{"mtvec"} -> Pcs]
        BY <3>3 DEF WriteValues, CsrNames
      <4>2. \A f \in {"sepc", "SPIE", "SPP", "mepc", "MPIE", "MPP"} : f \notin DOMAIN v
        BY <4>1
      <4>3. /\ csr'.sepc = csr.sepc /\ csr'.SPIE = csr.SPIE /\ csr'.SPP = csr.SPP
            /\ csr'.mepc = csr.mepc /\ csr'.MPIE = csr.MPIE /\ csr'.MPP = csr.MPP
        BY <1>0, <3>1, <4>2, CsrFields DEF Fields
      <4> QED
        BY <3>1, <3>3, <4>3, SavedKept
    <3> QED
      BY <3>2, <3>3
  <2> QED
    BY <2>1, <2>2
<1>5. CASE \E d \in Deadlines : set_timer(d)
  <2>1. context' = context /\ csr' = [csr EXCEPT !.STIP = FALSE]
    BY <1>5 DEF set_timer
  <2> QED
    BY <1>0, <2>1, CsrFields, SavedKept DEF Fields
<1>6. CASE EcallTraps
  BY <1>6, SavedByTrap DEF EcallTraps, Fault
<1> QED
  BY <1>1, <1>2, <1>3, <1>4, <1>5, <1>6 DEF Execute

LEMMA InterruptSaved ==
  ASSUME MachineType, Saved, check_interrupts
  PROVE  Saved'
<1> DEFINE c == [csr EXCEPT !.MTIP = pending, !.STIP = @ \/ pending]
<1>0. csr \in Csr /\ priv_ \in Priv
  BY DEF MachineType
<1>1. /\ DOMAIN c = Fields /\ c.sepc = csr.sepc /\ c.SPIE = csr.SPIE /\ c.SPP = csr.SPP
      /\ c.mepc = csr.mepc /\ c.MPIE = csr.MPIE /\ c.MPP = csr.MPP
  BY <1>0, CsrFields DEF Fields
<1>2. \/ ToM(c, MTimer)
      \/ interrupt_enabled(TRUE) /\ ToS(c, STimer)
      \/ csr' = c /\ UNCHANGED context
  BY DEF check_interrupts
<1> HIDE DEF c
<1>3. CASE ToM(c, MTimer)
  BY <1>1, <1>3 DEF ToM, Saved, SavedS, SavedM, Fields
<1>4. CASE interrupt_enabled(TRUE) /\ ToS(c, STimer)
  BY <1>1, <1>4 DEF interrupt_enabled, ToS, Saved, SavedS, SavedM, Fields
<1>5. CASE csr' = c /\ UNCHANGED context
  BY <1>1, <1>5, SavedKept
<1> QED
  BY <1>2, <1>3, <1>4, <1>5

LEMMA SavedNext == TypeInv /\ Saved /\ [Next]_vars => Saved'
<1> SUFFICES ASSUME TypeInv, Saved, [Next]_vars PROVE Saved'
  OBVIOUS
<1>0. MachineType
  BY DEF TypeInv
<1>1. CASE Outer \/ MachineTrap \/ Tick \/ Shutdown \/ Backing \/ Service \/ UNCHANGED vars
  <2>1. UNCHANGED <<csr, context>>
    BY <1>1 DEF Outer, MachineTrap, Tick, Shutdown, Backing, Service, vars, hartVars, auxVars
  <2> QED
    BY <2>1 DEF Saved, SavedS, SavedM
<1>2. CASE check_interrupts
  BY <1>0, <1>2, InterruptSaved
<1>3. CASE Step
  BY <1>0, <1>3, ExecuteSaved DEF Step
<1> QED
  BY <1>1, <1>2, <1>3 DEF Next

(***************************************************************************)
(* The machine's state keeps its types, and the loop counts no instruction *)
(* beyond the cap, for every guest, cap and slice.                         *)
(***************************************************************************)
THEOREM TypeCorrect == Spec => []TypeOK
<1>1. TypeInv => TypeOK
  BY DEF TypeInv
<1> QED
  BY <1>1, TypeInit, TypeNext, PTL DEF Spec

(***************************************************************************)
(* No instruction executes while a supervisor timer interrupt is due,      *)
(* enabled and deliverable, and none is pending that was not due since the *)
(* last set_timer: for every guest, in S-mode or bare metal.               *)
(***************************************************************************)
THEOREM TimerPrecision == Spec => []TimerIsPrecise
<1>1. Init => TypeInv /\ TimerIsPrecise
  <2>1. Init => TimerIsPrecise
    BY DEF Init, ResetCsr, TimerIsPrecise, NoInstructionPastATimer, NoSpuriousTimer
  <2> QED
    BY <2>1, TypeInit
<1> QED
  BY <1>1, TypeNext, TimerNext, PTL DEF Spec

(***************************************************************************)
(* sret and mret undo the trap whose handler left the saved state alone,   *)
(* whatever interrupts were checked in between.                            *)
(***************************************************************************)
THEOREM ReturnsAreExact == Spec => HandlerReturns
<1>1. Init => Saved
  BY DEF Init, Saved, SavedS, SavedM, NoContext
<1>2. TypeInv /\ Saved /\ [Next]_vars =>
        [/\ (phase = "step" /\ priv_ # "U" /\ sret /\ context.of = "S"
              => pc' = context.pc /\ priv_' = context.priv /\ csr'.SIE = context.ie)
         /\ (phase = "step" /\ priv_ = "M" /\ mret /\ context.of = "M"
              => pc' = context.pc /\ priv_' = context.priv /\ csr'.MIE = context.ie)]_vars
  <2> SUFFICES ASSUME TypeInv, Saved
               PROVE  /\ (priv_ # "U" /\ sret /\ context.of = "S"
                           => pc' = context.pc /\ priv_' = context.priv /\ csr'.SIE = context.ie)
                      /\ (priv_ = "M" /\ mret /\ context.of = "M"
                           => pc' = context.pc /\ priv_' = context.priv /\ csr'.MIE = context.ie)
    BY Zenon
  <2>1. csr \in Csr
    BY DEF TypeInv, MachineType
  <2>2. ASSUME priv_ # "U", sret, context.of = "S"
        PROVE  pc' = context.pc /\ priv_' = context.priv /\ csr'.SIE = context.ie
    BY <2>1, <2>2, CsrFields DEF sret, Saved, SavedS, Fields
  <2>3. ASSUME priv_ = "M", mret, context.of = "M"
        PROVE  pc' = context.pc /\ priv_' = context.priv /\ csr'.MIE = context.ie
    BY <2>1, <2>3, CsrFields DEF mret, Saved, SavedM, Fields
  <2> QED
    BY <2>2, <2>3
<1> QED
  BY <1>1, <1>2, TypeInit, TypeNext, SavedNext, PTL DEF Spec, HandlerReturns
===============================================================================
