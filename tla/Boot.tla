--------------------------------- MODULE Boot ---------------------------------
(***************************************************************************)
(* The images of a boot: `rv64-host serve` lays kernel, device tree and    *)
(* initrd into guest RAM, flushes it to the image file and reopens that;   *)
(* the badge finds the device tree again in what it is served              *)
(* (rv64-host lib.rs, elf.rs, fdt.rs, main.rs; badge run.rs).              *)
(*                                                                         *)
(* A memory cell is Zero or names the byte it holds: <<image, part, i>>.   *)
(* A kernel is its loadable segments; a raw Image is one segment at        *)
(* KERNEL_LOAD_ADDR, an ELF has any.  The fields of the boot header are    *)
(* the first bytes of segment 1.                                           *)
(***************************************************************************)
EXTENDS Integers, Sequences, SequencesExt

CONSTANTS W,                            \* width of an address, in bits
          RAM_BASE, RAM_SIZE, BOOT_PAGE, KERNEL_LOAD_ADDR,
          WORD,                         \* alignment of the device tree
          RISCV_IMAGE_HEADER_LEN,       \* the last header byte is the magic
          Kernels, Dtbs, Initrds        \* the files; an initrd is its length, or NoInitrd

VARIABLES images,      \* [kernel, dtb, initrd] as read from disk
          load_stage,
          mem,         \* guest RAM in the load phase
          kernel_end, layout,
          chosen,      \* token -> value written by set_u64
          file,        \* the image file
          probe        \* what the badge's start_cpu made of it

bootVars == <<images, load_stage, mem, kernel_end, layout, chosen, file, probe>>

Zero == <<"zero", 0, 0>>
NoInitrd == -1
Top == 2 ^ W
RAM == RAM_BASE .. RAM_BASE + RAM_SIZE - 1
ZeroRam == [a \in RAM |-> Zero]
Cells(image, part, n) == [i \in 1 .. n |-> <<image, part, i - 1>>]
Zeros(n) == [i \in 1 .. n |-> Zero]

\* u64 arithmetic of a release build.
Add(a, b) == (a + b) % Top
next_multiple_of(a, n) == IF a % n = 0 THEN a ELSE Add(a, n - (a % n))
Greater(a, b) == IF a > b THEN a ELSE b

-------------------------------------------------------------------------------
(* Writing to guest RAM: m is RAM, or Unmapped once a store has faulted.   *)
(* Outside of RAM every store faults.  The bus has two windows there, the  *)
(* CLINT and the UART, which take a store and keep none of the image; they *)
(* are left out, so a segment that lies in one is refused here only.       *)

Unmapped == [a \in {} |-> Zero]
write_blob(m, addr, data) ==
    IF m = Unmapped \/ \E i \in 1 .. Len(data) : Add(addr, i - 1) \notin RAM THEN Unmapped
    ELSE [a \in RAM |-> IF a - addr \in 0 .. Len(data) - 1 THEN data[a - addr + 1] ELSE m[a]]

\* The data of the segment and its .bss, the longer of the two sizes in all.
write_segment(m, j, seg) ==
    write_blob(m, seg.paddr, Cells("kernel", j, seg.filesz)
                             \o Zeros(Greater(seg.memsz, seg.filesz) - seg.filesz))
load(m, k) == FoldLeft(LAMBDA acc, j : write_segment(acc, j, k.segs[j]), m,
                       [j \in 1 .. Len(k.segs) |-> j])

\* max(p_paddr + p_memsz), saturating.
extent(k) == FoldLeft(LAMBDA e, s : Greater(e, IF s.paddr + s.memsz < Top
                                               THEN s.paddr + s.memsz ELSE Top - 1),
                      0, k.segs)

-------------------------------------------------------------------------------
(* The kernel. *)

FileLen(k) == k.segs[1].filesz
has_riscv_image_header(k) == k.magic /\ FileLen(k) >= RISCV_IMAGE_HEADER_LEN
OurOffset == KERNEL_LOAD_ADDR - RAM_BASE

\* Mutant: the footprint of an Image is its file.
riscv_image_footprint_file(k) == FileLen(k)

\* The declared size, unless there is no header or it is smaller than the file.
riscv_image_footprint(k) ==
    IF has_riscv_image_header(k) /\ k.image_size >= FileLen(k) THEN k.image_size ELSE FileLen(k)

\* Where the kernel ends in memory, or -1 for a kernel that is refused.
load_kernel(k) ==
    CASE k.elf -> IF k.broken THEN -1 ELSE extent(k)
      [] ~k.elf /\ has_riscv_image_header(k) /\ k.text_offset # OurOffset -> -1
      [] OTHER -> IF KERNEL_LOAD_ADDR + riscv_image_footprint(k) < Top
                  THEN KERNEL_LOAD_ADDR + riscv_image_footprint(k) ELSE -1

-------------------------------------------------------------------------------
(* Layout and device tree. *)

boot_layout(end, dtb_len, initrd_len) ==
    LET dtb == next_multiple_of(end, WORD)
        start == next_multiple_of(Add(dtb, dtb_len), BOOT_PAGE)
    IN  IF initrd_len = NoInitrd THEN [dtb |-> dtb, start |-> 0, end |-> Add(dtb, dtb_len)]
        ELSE [dtb |-> dtb, start |-> start, end |-> Add(start, initrd_len)]

Leave(stack) == IF stack = << >> THEN << >> ELSE Front(stack)

\* The walk over the struct block: the first property `name` of node /chosen, or 0.
prop_range(tokens, name) ==
    LET Step(w, i) ==
            LET t == tokens[i]
            IN  CASE w.over \/ w.at # 0 -> w
                  [] t.token = "begin" -> [w EXCEPT !.stack = Append(@, t.name)]
                  [] t.token = "end" -> [w EXCEPT !.stack = Leave(@)]
                  [] t.token = "prop" ->
                       IF t.name = name /\ Len(w.stack) > 1 /\ Tail(w.stack) = <<"chosen">>
                       THEN [w EXCEPT !.at = i] ELSE w
                  [] t.token = "nop" -> w
                  [] OTHER -> [w EXCEPT !.over = TRUE]
    IN  FoldLeft(Step, [stack |-> << >>, at |-> 0, over |-> FALSE],
                 [i \in 1 .. Len(tokens) |-> i]).at

\* set_u64 fails without the property, or if it is not two cells long.
CanSet(tokens, name) == LET i == prop_range(tokens, name) IN i # 0 /\ tokens[i].len = 8

-------------------------------------------------------------------------------
(* serve_main, the load phase.  Any store may also fail in the backing file. *)

Go(s) == load_stage' = s

LoadKernel == /\ load_stage = "kernel"
              /\ LET m == load(mem, images.kernel)
                     end == load_kernel(images.kernel)
                 IN  \/ /\ m # Unmapped /\ end # -1
                        /\ mem' = m /\ kernel_end' = end /\ Go("layout")
                     \/ Go("failed") /\ UNCHANGED <<mem, kernel_end>>
              /\ UNCHANGED <<images, layout, chosen, file, probe>>

LayOut == /\ load_stage = "layout"
          /\ layout' = boot_layout(kernel_end, images.dtb.len, images.initrd)
          /\ Go(IF layout'.end > RAM_BASE + RAM_SIZE THEN "failed" ELSE "patch")
          /\ UNCHANGED <<images, mem, kernel_end, chosen, file, probe>>

PatchChosen ==
    /\ load_stage = "patch"
    /\ LET tokens == images.dtb.tokens
       IN  \/ images.initrd = NoInitrd /\ Go("dtb") /\ UNCHANGED chosen
           \/ /\ images.initrd # NoInitrd
              /\ CanSet(tokens, "initrd-start") /\ CanSet(tokens, "initrd-end")
              /\ chosen' = [chosen EXCEPT ![prop_range(tokens, "initrd-start")] = layout.start,
                                          ![prop_range(tokens, "initrd-end")] = layout.end]
              /\ Go("dtb")
           \/ /\ images.initrd # NoInitrd
              /\ ~(CanSet(tokens, "initrd-start") /\ CanSet(tokens, "initrd-end"))
              /\ Go("failed") /\ UNCHANGED chosen
    /\ UNCHANGED <<images, mem, kernel_end, layout, file, probe>>

Place(from, m, to) == /\ load_stage = from
                      /\ \/ m # Unmapped /\ mem' = m /\ Go(to)
                         \/ Go("failed") /\ UNCHANGED mem
                      /\ UNCHANGED <<images, kernel_end, layout, chosen, file, probe>>
PlaceDtb == Place("dtb", write_blob(mem, layout.dtb, Cells("dtb", 0, images.dtb.len)), "initrd")
PlaceInitrd == Place("initrd", IF images.initrd = NoInitrd THEN mem
                               ELSE write_blob(mem, layout.start, Cells("initrd", 0, images.initrd)),
                     "flush")

FlushImage == /\ load_stage = "flush"
              /\ \/ file' = mem /\ Go("reopen")
                 \/ file' = file /\ Go("failed")
              /\ UNCHANGED <<images, mem, kernel_end, layout, chosen, probe>>

\* The serve phase opens the file without truncating it.
Reopen == /\ load_stage = "reopen"
          /\ Go("serve") \/ Go("failed")
          /\ UNCHANGED <<images, mem, kernel_end, layout, chosen, file, probe>>

-------------------------------------------------------------------------------
(* The badge: dtb_address and start_cpu. *)

\* A header field as it stands in the image: the kernel's, if its bytes are there.
Field(off, value, none) ==
    IF file[KERNEL_LOAD_ADDR + off] = <<"kernel", 1, off>> THEN value ELSE none

\* Mutant: the badge trusts its own arithmetic.
IsFdt_trusted(a) == a \in RAM

IsFdt(a) == a \in RAM /\ file[a] = <<"dtb", 0, 0>>

dtb_address ==
    LET magic == Field(RISCV_IMAGE_HEADER_LEN - 1, images.kernel.magic, FALSE)
        text_offset == Field(0, images.kernel.text_offset, 0)
        image_size == Field(1, images.kernel.image_size, 0)
        at == next_multiple_of(KERNEL_LOAD_ADDR + image_size, WORD)
    IN  CASE ~magic -> [is |-> "NoImageHeader"]
          [] magic /\ text_offset # OurOffset -> [is |-> "TextOffset"]
          [] magic /\ text_offset = OurOffset
                /\ (image_size < BOOT_PAGE \/ KERNEL_LOAD_ADDR + image_size >= Top)
               -> [is |-> "ImageSize"]
          [] OTHER -> IF IsFdt(at) THEN [is |-> "a1", at |-> at] ELSE [is |-> "NoFdt"]

\* start_cpu; a read may fail on the link.
StartCpu == /\ load_stage = "serve" /\ probe = [is |-> "none"]
            /\ probe' \in {dtb_address, [is |-> "Read"]}
            /\ UNCHANGED <<images, load_stage, mem, kernel_end, layout, chosen, file>>

-------------------------------------------------------------------------------
BootInit == /\ images \in [kernel : Kernels, dtb : Dtbs, initrd : Initrds]
            /\ load_stage = "kernel"
            /\ mem = ZeroRam /\ file = ZeroRam
            /\ kernel_end = 0 /\ layout = [dtb |-> 0, start |-> 0, end |-> 0]
            /\ chosen = [i \in 1 .. Len(images.dtb.tokens) |-> 0]
            /\ probe = [is |-> "none"]

BootNext == LoadKernel \/ LayOut \/ PatchChosen \/ PlaceDtb \/ PlaceInitrd
            \/ FlushImage \/ Reopen \/ StartCpu
-------------------------------------------------------------------------------
(* Properties. *)

\* A kernel file that is not malformed: no segment holds more than it occupies and no
\* two share a byte.
Span(s) == s.paddr .. s.paddr + s.memsz - 1
WellFormed(k) == \A i, j \in 1 .. Len(k.segs) :
                   k.segs[i].filesz <= k.segs[i].memsz
                   /\ (i # j => Span(k.segs[i]) \cap Span(k.segs[j]) = {})

\* The memory a kernel takes, .bss included.
Occupied(k) == UNION {Span(k.segs[j]) : j \in 1 .. Len(k.segs)}
               \cup IF ~k.elf /\ has_riscv_image_header(k)
                    THEN KERNEL_LOAD_ADDR .. KERNEL_LOAD_ADDR + k.image_size - 1 ELSE {}

\* Token i lies directly in /chosen, told by depth alone.
Depth(ts, i) == LET Count(w) == Len(SelectSeq(SubSeq(ts, 1, i - 1), LAMBDA t : t.token = w))
                IN  Count("begin") - Count("end")
InChosen(ts, i) == \E b \in 1 .. i - 1 :
                     /\ ts[b].token = "begin" /\ ts[b].name = "chosen" /\ Depth(ts, b) = 1
                     /\ Depth(ts, i) = 2 /\ \A j \in b + 1 .. i : Depth(ts, j) >= 2
Recorded(name, v) == \E i \in 1 .. Len(images.dtb.tokens) :
                       /\ images.dtb.tokens[i].token = "prop" /\ images.dtb.tokens[i].name = name
                       /\ InChosen(images.dtb.tokens, i) /\ chosen[i] = v

Holds(addr, cells) == \A i \in 1 .. Len(cells) : file[addr + i - 1] = cells[i]

(***************************************************************************)
(* What is served boots: in the reopened image every byte of the kernel    *)
(* stands where its header put it, nothing but the kernel is in the memory *)
(* the kernel will claim, .bss included, the device tree and the initrd    *)
(* are whole, the initrd starts a page that nothing shares, and /chosen    *)
(* gives the addresses it was placed at.                                   *)
(***************************************************************************)
BootImagesIntact ==
    load_stage = "serve" /\ WellFormed(images.kernel) =>
      LET k == images.kernel IN
      /\ \A j \in 1 .. Len(k.segs) :
           Holds(k.segs[j].paddr, Cells("kernel", j, k.segs[j].filesz)
                                  \o Zeros(k.segs[j].memsz - k.segs[j].filesz))
      /\ \A a \in Occupied(k) : file[a][1] \in {"kernel", "zero"}
      /\ layout.dtb % WORD = 0 /\ Holds(layout.dtb, Cells("dtb", 0, images.dtb.len))
      /\ images.initrd # NoInitrd =>
           /\ Holds(layout.start, Cells("initrd", 0, images.initrd))
           /\ \A a \in RAM : file[a][1] \in {"kernel", "dtb"} =>
                               a \div BOOT_PAGE < layout.start \div BOOT_PAGE
           /\ Recorded("initrd-start", layout.start) /\ Recorded("initrd-end", layout.end)

(***************************************************************************)
(* The badge derives the host's placement again: an address it accepts is  *)
(* the one the host chose, whatever the header says; and it accepts the    *)
(* image of every raw kernel with a true header of at least a page, if the *)
(* link brings what it reads.                                              *)
(***************************************************************************)
BadgeFindsDtb ==
    /\ probe.is = "a1" => probe.at = layout.dtb
    /\ probe.is \notin {"none", "a1", "Read"} =>
         \/ images.kernel.elf \/ ~has_riscv_image_header(images.kernel)
         \/ images.kernel.image_size < Greater(FileLen(images.kernel), BOOT_PAGE)
===============================================================================
