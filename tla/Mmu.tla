---------------------------------- MODULE Mmu ----------------------------------
(***************************************************************************)
(* Address translation: Mmu::translate in crates/rv64/src/mmu.rs, its TLB, *)
(* and the two things that flush it (SFENCE.VMA and a write to satp, in    *)
(* insn/rv64i.rs).                                                         *)
(*                                                                         *)
(* The guest edits its page tables, fences, switches tables and accesses   *)
(* memory in any order.  Sv39's three levels of 512 entries are LEVELS     *)
(* levels of FAN; shifts and masks of 9 bits become div and mod of FAN.    *)
(* Page offsets do not matter to a translation and are left out.           *)
(***************************************************************************)
EXTENDS Integers

CONSTANTS LEVELS, FAN,
          TLB_ENTRIES,
          Tables,     \* physical pages that hold page tables
          Ptes,       \* the entries a guest writes
          MaxEdits    \* bound on the edits of one behaviour

ASSUME MmuAssumption == /\ LEVELS \in Nat \ {0} /\ FAN \in Nat \ {0, 1}
                        /\ TLB_ENTRIES \in Nat \ {0}
                        /\ Tables # {} /\ Tables \subseteq Nat
                        /\ MaxEdits \in Nat
                        /\ \A e \in Ptes : /\ e.v \in BOOLEAN /\ e.ppn \in Nat
                                           /\ e.perms \subseteq {"R", "W", "X", "U", "A", "D"}

VARIABLES table,   \* page -> index -> entry
          satp,    \* BARE, or the page of the root table
          priv_,
          tlb,     \* slot -> entry
          edits,
          seen,    \* vpn -> what walks could have found since the last flush (auxiliary)
          res      \* the last translation, until something else happens (auxiliary)

mmuVars == <<table, satp, priv_, tlb, edits, seen, res>>

Size(l) == FAN ^ (LEVELS - 1 - l)       \* pages an entry of level l maps
Vpns  == 0 .. FAN ^ LEVELS - 1
Slots == 0 .. TLB_ENTRIES - 1
Accesses == {"Fetch", "Load", "Store"}

BARE == 0 - 1                           \* satp.MODE = 0
Nothing == [found |-> FALSE]
Leaf(ppn, perms) == [found |-> TRUE, ppn |-> ppn, perms |-> perms]
Empty == [valid |-> FALSE]
NoRes == [access |-> "none"]
BackingFailure == [access |-> "lost"]

IsLeaf(e) == e.perms \cap {"R", "W", "X"} # {}

(***************************************************************************)
(* The walk: from the root down, a leaf at any level ends it.  A superpage *)
(* whose low page number bits are not zero is no mapping.  A table pointer *)
(* to any other page maps nothing either: the page is outside the memory   *)
(* map (Bus::load fails, a page fault) or it holds no valid entry.         *)
(***************************************************************************)
walk(tab, root, vpn) ==
    LET from[l \in 0 .. LEVELS] ==
          [t \in Tables |->
             IF l = LEVELS THEN Nothing
             ELSE LET e == tab[t][(vpn \div Size(l)) % FAN]
                  IN  IF ~e.v THEN Nothing
                      ELSE IF IsLeaf(e)
                      THEN IF e.ppn % Size(l) # 0 THEN Nothing
                           ELSE Leaf(e.ppn + (vpn % Size(l)), e.perms)
                      ELSE IF e.ppn \in Tables THEN from[l + 1][e.ppn] ELSE Nothing]
    IN  from[0][root]

check_perms(perms, priv, access) ==
    /\ (CASE access = "Fetch" -> "X" [] access = "Load" -> "R" [] access = "Store" -> "W") \in perms
    /\ priv = "U" => "U" \in perms
    /\ "A" \in perms
    /\ access = "Store" => "D" \in perms

MappedPages(tab, sp) == [v \in Vpns |-> IF sp = BARE THEN Nothing ELSE walk(tab, sp, v)]

MmuInit == /\ table \in [Tables -> [0 .. FAN - 1 -> {e \in Ptes : ~e.v}]]
           /\ satp = BARE
           /\ priv_ = "S"
           /\ tlb = [s \in Slots |-> Empty]
           /\ edits = 0
           /\ seen = [v \in Vpns |-> {Nothing}]
           /\ res = NoRes
-------------------------------------------------------------------------------
Bare == satp = BARE \/ priv_ = "M"
slot(vpn) == vpn % TLB_ENTRIES
Cached(vpn) == tlb[slot(vpn)].valid /\ tlb[slot(vpn)].vpn = vpn

Result(vpn, access, out) == res' = [vpn |-> vpn, access |-> access, priv |-> priv_, out |-> out]

TranslateBare(vpn, access) ==
    /\ Bare
    /\ Result(vpn, access, [ok |-> TRUE, ppn |-> vpn])
    /\ UNCHANGED <<table, satp, priv_, tlb, edits, seen>>

\* Mutant: a hit is not checked for permission.
TranslateHit_unchecked(vpn, access) ==
    /\ ~Bare
    /\ Cached(vpn)
    /\ Result(vpn, access, [ok |-> TRUE, ppn |-> tlb[slot(vpn)].ppn])
    /\ UNCHANGED <<table, satp, priv_, tlb, edits, seen>>

\* A hit is checked against the cached entry exactly as a walk is.
TranslateHit(vpn, access) ==
    /\ ~Bare
    /\ Cached(vpn)
    /\ Result(vpn, access, IF check_perms(tlb[slot(vpn)].perms, priv_, access)
                           THEN [ok |-> TRUE, ppn |-> tlb[slot(vpn)].ppn]
                           ELSE [ok |-> FALSE])
    /\ UNCHANGED <<table, satp, priv_, tlb, edits, seen>>

\* A walk that finds a usable leaf leaves it in the TLB; any other leaves the TLB alone.
TranslateWalk(vpn, access) ==
    LET found == walk(table, satp, vpn)
        ok    == found.found /\ check_perms(found.perms, priv_, access)
    IN  /\ ~Bare
        /\ ~Cached(vpn)
        /\ IF ok
           THEN /\ tlb' = [tlb EXCEPT ![slot(vpn)] = [valid |-> TRUE, vpn |-> vpn,
                                                      ppn |-> found.ppn, perms |-> found.perms]]
                /\ Result(vpn, access, [ok |-> TRUE, ppn |-> found.ppn])
           ELSE Result(vpn, access, [ok |-> FALSE]) /\ UNCHANGED tlb
        /\ UNCHANGED <<table, satp, priv_, edits, seen>>

\* A PTE whose page the backing cannot produce: not a page fault, the run ends.
TranslateLost == /\ ~Bare
                 /\ \E vpn \in Vpns : ~Cached(vpn)
                 /\ res' = BackingFailure
                 /\ UNCHANGED <<table, satp, priv_, tlb, edits, seen>>

flush(tab, sp) == /\ tlb' = [s \in Slots |-> Empty]
                  /\ seen' = [v \in Vpns |-> {MappedPages(tab, sp)[v]}]
                  /\ res' = NoRes

SfenceVma == /\ priv_ # "U"
             /\ flush(table, satp)
             /\ UNCHANGED <<table, satp, priv_, edits>>

\* Every write to satp flushes; one that names an unsupported mode does nothing else.
WriteSatpUnsupported == SfenceVma

WriteSatp(sp) == /\ priv_ # "U"
                 /\ satp' = sp
                 /\ flush(table, sp)
                 /\ UNCHANGED <<table, priv_, edits>>

\* The guest edits a table: an ordinary store, which the TLB does not notice.
Edit(t, i, e) ==
    /\ edits < MaxEdits
    /\ edits' = edits + 1
    /\ table' = [table EXCEPT ![t] = [@ EXCEPT ![i] = e]]
    /\ seen' = [v \in Vpns |-> seen[v] \cup {MappedPages(table', satp)[v]}]
    /\ res' = NoRes
    /\ UNCHANGED <<satp, priv_, tlb>>

\* Traps and returns change the privilege and leave translation alone.
ChangePriv(p) == /\ p # priv_
                 /\ priv_' = p
                 /\ res' = NoRes
                 /\ UNCHANGED <<table, satp, tlb, edits, seen>>

Translate(v, a) == TranslateBare(v, a) \/ TranslateHit(v, a) \/ TranslateWalk(v, a)

MmuNext == /\ res # BackingFailure
           /\ \/ \E v \in Vpns, a \in Accesses : Translate(v, a)
              \/ TranslateLost
              \/ SfenceVma
              \/ \E sp \in Tables \cup {BARE} : WriteSatp(sp)
              \/ WriteSatpUnsupported
              \/ \E t \in Tables, i \in 0 .. FAN - 1, e \in Ptes : Edit(t, i, e)
              \/ \E p \in {"U", "S", "M"} : ChangePriv(p)

MmuSpec == MmuInit /\ [][MmuNext]_mmuVars
-------------------------------------------------------------------------------
(* Properties. *)

(***************************************************************************)
(* A cached translation was a mapping of the current address space at some *)
(* time since the last flush: none survives SFENCE.VMA or a change of      *)
(* satp, and none sits in another page's slot.                             *)
(***************************************************************************)
CachedWasMapped ==
    \A s \in Slots : tlb[s].valid =>
      /\ slot(tlb[s].vpn) = s
      /\ Leaf(tlb[s].ppn, tlb[s].perms) \in seen[tlb[s].vpn]

(***************************************************************************)
(* The translation the tables define, said without walking: a virtual page *)
(* is mapped by the one chain of entries its index picks, as in Sv39, and  *)
(* the access is allowed by the leaf's bits, Accessed and Dirty included.  *)
(* What the bits allow is the code's check_perms: SUM and MXR, the         *)
(* reserved W without R and non-canonical addresses are not treated as the *)
(* manual says, neither there nor here.  So this is a reference for the    *)
(* walk and the TLB, and no statement of conformance to Sv39.              *)
(***************************************************************************)
Index(vpn, l) == (vpn \div Size(l)) % FAN
Chains(vpn) ==
    {c \in UNION {[0 .. n -> Tables] : n \in 0 .. LEVELS - 1} :
       /\ c[0] = satp
       /\ \A l \in DOMAIN c \ {0} :
            LET up == table[c[l - 1]][Index(vpn, l - 1)]
            IN  up.v /\ ~IsLeaf(up) /\ up.ppn = c[l]}
Sv39(vpn, priv, access) ==
    {[ok |-> TRUE, ppn |-> table[x[1][x[2]]][Index(vpn, x[2])].ppn + (vpn % Size(x[2]))] :
       x \in {y \in Chains(vpn) \X (0 .. LEVELS - 1) :
                /\ DOMAIN y[1] = 0 .. y[2]
                /\ LET e == table[y[1][y[2]]][Index(vpn, y[2])]
                   IN  /\ e.v /\ IsLeaf(e) /\ e.ppn % Size(y[2]) = 0
                       /\ check_perms(e.perms, priv, access)}}

(***************************************************************************)
(* Whenever a page's mapping has been the same since the last flush, every *)
(* access to it gets exactly the answer of the tables, whether the TLB was *)
(* warm or cold, whichever accesses warmed it and whatever was edited      *)
(* elsewhere.                                                              *)
(***************************************************************************)
TranslationIsSv39 ==
    res \notin {NoRes, BackingFailure} /\ ~Bare /\ seen[res.vpn] = {MappedPages(table, satp)[res.vpn]} =>
      IF res.out.ok THEN res.out \in Sv39(res.vpn, res.priv, res.access)
                    ELSE Sv39(res.vpn, res.priv, res.access) = {}

(***************************************************************************)
(* Both: what the TLB holds is a mapping of the current address space, and *)
(* what translate answers from it or from a walk is the tables' answer     *)
(* under check_perms.                                                      *)
(***************************************************************************)
TlbIsTransparent == CachedWasMapped /\ TranslationIsSv39
===============================================================================
