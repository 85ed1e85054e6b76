-------------------------------- MODULE Atomics --------------------------------
(***************************************************************************)
(* Load-reserved and store-conditional, and everything that can break a    *)
(* reservation: insn/rv64a.rs, and the store path of cpu.rs                *)
(* (write_translated, invalidate_reservation).                             *)
(*                                                                         *)
(* An address is a page and an offset in it; a page is PAGE units long, a  *)
(* unit being the shortest access.  What bytes hold does not matter to a   *)
(* reservation, only which of them are written, so memory is the set of    *)
(* physical addresses written since the last LR.  The guest may map two    *)
(* virtual pages to one physical page and may remap between an LR and its  *)
(* SC: reservations are kept on physical addresses.                        *)
(***************************************************************************)
EXTENDS Integers

CONSTANTS PAGE,        \* units in a page
          VPages,      \* virtual pages
          PhysPages,   \* pages of RAM, numbered from 0
          GRANULE,     \* units a reservation covers: those of the widest access
          Widths,      \* units of an LR, SC or AMO: .w and .d
          StoreSizes   \* units of a plain store

ASSUME AtomicsAssumption == /\ PAGE \in Nat \ {0} /\ PhysPages \in Nat \ {0}
                            /\ GRANULE \in Nat \ {0}
                            /\ Widths \subseteq 1 .. GRANULE
                            /\ StoreSizes \subseteq 1 .. GRANULE

VARIABLES map,          \* virtual page -> physical page, or UNMAPPED
          reservation,  \* a physical address, or NONE
          armed,        \* where the last LR was, NONE once an SC has been tried (auxiliary)
          written,      \* physical addresses written since the last LR (auxiliary)
          sc            \* the outcome of the last instruction if it was an SC (auxiliary)

vars == <<map, reservation, armed, written, sc>>

UNMAPPED == 0 - 1
NONE     == 0 - 1
NoSc     == [done |-> FALSE]
Phys     == 0 .. PhysPages * PAGE - 1
Offs     == 0 .. PAGE - 1
VAddrs   == VPages \X Offs

Span(a, n) == a .. a + n - 1

\* Where a virtual address is; the next units of an access that runs past the page.
Mapped(va) == map[va[1]] # UNMAPPED
translate(va) == map[va[1]] * PAGE + va[2]
InRam(a, n) == Span(a, n) \subseteq Phys
Unit(va, i) == IF va[2] + i < PAGE THEN va ELSE <<va[1] + 1, va[2] - PAGE>>
At(va, i) == map[Unit(va, i)[1]] * PAGE + Unit(va, i)[2] + i

invalidate_reservation(r, a, n) ==
    IF r # NONE /\ a < r + GRANULE /\ r < a + n THEN NONE ELSE r

Init == /\ map \in [VPages -> 0 .. PhysPages - 1]
        /\ reservation = NONE
        /\ armed = NONE
        /\ written = {}
        /\ sc = NoSc
-------------------------------------------------------------------------------
\* LR, SC and AMO translate once.  A fault changes nothing, except that an SC whose store
\* the bus refuses traps with its reservation already spent.
LR(va, n) ==
    /\ Mapped(va) /\ InRam(translate(va), n)
    /\ reservation' = translate(va)
    /\ armed' = translate(va)
    /\ written' = {}
    /\ sc' = NoSc
    /\ UNCHANGED map

SC(va, n) ==
    /\ Mapped(va)
    /\ LET pa == translate(va)
           success == reservation = pa
       IN  /\ reservation' = NONE
           /\ armed' = NONE
           /\ written' = IF success /\ InRam(pa, n) THEN written \cup Span(pa, n) ELSE written
           /\ sc' = IF success /\ ~InRam(pa, n) THEN NoSc
                    ELSE [done |-> TRUE, pa |-> pa, success |-> success,
                          armed |-> armed, written |-> written]
    /\ UNCHANGED map

\* Mutant: an AMO leaves the reservation standing.
AMO_keeps_reservation(va, n) ==
    /\ Mapped(va) /\ InRam(translate(va), n)
    /\ written' = written \cup Span(translate(va), n)
    /\ sc' = NoSc
    /\ UNCHANGED <<map, reservation, armed>>

\* An AMO that decodes; an operation that does not is illegal before its store.
AMO(va, n) ==
    /\ Mapped(va) /\ InRam(translate(va), n)
    /\ reservation' = invalidate_reservation(reservation, translate(va), n)
    /\ written' = written \cup Span(translate(va), n)
    /\ sc' = NoSc
    /\ UNCHANGED <<map, armed>>

\* A store inside one page is one bus access.
Store(va, n) ==
    /\ va[2] + n <= PAGE
    /\ Mapped(va) /\ InRam(translate(va), n)
    /\ reservation' = invalidate_reservation(reservation, translate(va), n)
    /\ written' = written \cup Span(translate(va), n)
    /\ sc' = NoSc
    /\ UNCHANGED <<map, armed>>

\* A store that straddles two pages goes unit by unit, each translated by itself; the
\* first unit that faults ends it, and the units before it stay written.
StraddlingStore(va, n) ==
    /\ va[2] + n > PAGE
    /\ <<va[1] + 1, 0>> \in VAddrs
    /\ Mapped(va)
    /\ LET k == IF Mapped(<<va[1] + 1, 0>>) THEN n ELSE PAGE - va[2]
           hit == {At(va, i) : i \in 0 .. k - 1}
       IN  /\ hit \subseteq Phys
           /\ reservation' = IF \E a \in hit : invalidate_reservation(reservation, a, 1) = NONE
                             THEN NONE ELSE reservation
           /\ written' = written \cup hit
    /\ sc' = NoSc
    /\ UNCHANGED <<map, armed>>

\* The guest edits its page table and fences; a trap, a return or a load does less.
Remap(v, p) == /\ map' = [map EXCEPT ![v] = p]
               /\ sc' = NoSc
               /\ UNCHANGED <<reservation, armed, written>>

Next == \/ \E va \in VAddrs, n \in Widths : LR(va, n) \/ SC(va, n) \/ AMO(va, n)
        \/ \E va \in VAddrs, n \in StoreSizes : Store(va, n) \/ StraddlingStore(va, n)
        \/ \E v \in VPages, p \in 0 .. PhysPages - 1 : Remap(v, p)
        \/ \E v \in VPages : Remap(v, UNMAPPED)

Spec == Init /\ [][Next]_vars
-------------------------------------------------------------------------------
(* Properties. *)

\* The state's types: a reservation names a physical address of RAM, or none stands.
TypeOK == /\ map \in [VPages -> (0 .. PhysPages - 1) \cup {UNMAPPED}]
          /\ reservation \in Phys \cup {NONE}
          /\ armed \in Phys \cup {NONE}
          /\ written \subseteq Phys

(***************************************************************************)
(* While a reservation stands, it is the last LR's and no byte of the      *)
(* granule it covers has been written since, through whichever virtual     *)
(* page, by a plain store, a straddling one, one that faulted half way, an *)
(* AMO, or an SC to another address.                                       *)
(***************************************************************************)
ReservationIntact ==
    reservation # NONE => reservation = armed /\ Span(reservation, GRANULE) \cap written = {}

(***************************************************************************)
(* An SC succeeds exactly when it goes to the physical address of the last *)
(* LR, no SC came between them and nothing wrote to the granule: it never  *)
(* succeeds over another's write, and it does not fail for nothing, which  *)
(* a retry loop could spin on.                                             *)
(***************************************************************************)
ScExactlyWhenReserved ==
    sc.done => (sc.success <=> /\ sc.armed = sc.pa
                               /\ Span(sc.pa, GRANULE) \cap sc.written = {})

(***************************************************************************)
(* Both: what stands is intact, and an SC is decided by it alone.          *)
(***************************************************************************)
ReservationsSound == ReservationIntact /\ ScExactlyWhenReserved
===============================================================================
