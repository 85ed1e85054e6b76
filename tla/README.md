# Verification of the tethered RV64 interpreter

The program boots riscv64 Linux in an interpreter on a DEF CON 34 badge whose
free memory is a hundredth of the guest's RAM. Guest RAM is a file on a laptop;
pages travel over a USB serial line on demand, through a page cache on the
badge. This directory holds TLA+ specifications of the parts of that machine
that a test hardly reaches, the TLC runs that check them on small instances,
and proofs, checked by TLAPS, that hold for every size.

`PROJECT.json` lists components, runs, mutants, findings, hazards and theorems,
and maps every definition that models code to the lines it models. Run a
configuration with `tlc -config MCLink.cfg MCLink`, check proofs with
`tlapm PageCacheProofs.tla`.

## 1. Inventory

| component (source) | state | operations | hard behaviour | what makes it correct |
|---|---|---|---|---|
| page cache (`crates/rv64/src/cache.rs`, `backing.rs`) | frames with page, dirty, referenced, pinned; index `slot_of`; clock hand | read, write, pin, flush; fetch, evict, decline an eviction | the backing refuses a call in the middle of `resident`; a write is applied and reported as failed | guest memory is flat; index and frames agree; a clean frame is stored; a pin holds |
| page protocol, badge (`badge/app/src/usbhost.rs`, `LinkInner`) | held frames, attempt and deadline, the fault slot | `exchange_inner`, `resync`, `pump`, `take_fault` | lost and duplicated frames, re-sent requests, late answers, half-sent frames, no request ids | an answer belongs to its request; an acknowledged write is stored; an exchange ends; a fault is the failure's own |
| page protocol, laptop (`crates/rv64-host/src/serve.rs`) | the image file, its `Mux` | `serve_once` | requests that arrive in one batch are answered by type, not in order | writes land in the order they were asked for |
| framing (`crates/rv64-proto/src/lib.rs`) | decode buffer, noise sample and count, held frames, console bytes | `encode`, `push`, `next_frame`, `take_matching`, `take_console`, `take_noise` | streams cut anywhere, log text between and inside frames, frames cut short, payloads that look like SYNC | good frames come out once and in order; cuts do not matter; every byte is accounted for |
| badge receive path (`usbhost.rs`, `UsbTransport`) | parked flag, byte queue, error budget; in the USB server: mode, listener, buffer | reader thread's park loop, `arm`/`confirm_park`, `send`, `recv` | reader, watchdog, interrupt and main thread interleave; a failed lend leaks a page for good; the server clears what arrives before the first park | no packet is lost or reordered; a confirmed park is one; a reply is received whole |
| badge transmit path (`usbhost.rs`, `send_all`, `send_paced`, `TxTally`) | units accepted, refusals in a row, the send's clock | offer a packet, flush, give up | short accepts, stalls, deadlines in the middle of a frame; the flush takes the reader's listener | what leaves is what was accepted, in order; `Ok` means all of it |
| run loop (`badge/app/src/run.rs`) | executed, slice, ending | slices, link service, console mirror, dead-end check | a guest that only traps; a failure that shows up two failures later | the cap ends every run; the ending names the cause |
| hart (`cpu.rs`, `csr.rs`, `exception.rs`, SYSTEM of `insn/rv64i.rs`), CLINT, SBI | privilege, pc, CSR fields, timer | trap, interrupt, `sret`, `mret`, CSR writes, `set_timer`, shutdown | interrupts between any two instructions; nested traps; M-mode with `mtvec` 0 | M-mode is a dead end; the timer is precise and not spurious; handlers return where they came from |
| MMU (`mmu.rs`) | TLB, `satp` | `translate`, `flush` | stale entries after edits, fences and switches | the TLB changes no answer |
| atomics (`insn/rv64a.rs`, `Cpu::write_translated`) | the reservation | LR, SC, AMO, stores | aliases, remaps and half-done stores between LR and SC | SC succeeds exactly when it should |
| bus, UART (`bus.rs`, `uart.rs`) | receive queue, IER, divisor latch; the `Mirrored` sink (`run.rs`) | load, store, `push_input`, `put`, `take_output` | DLAB shadows the data register; the sink fills up within a slice; the mirror's send fails; log text splits its frames | keys reach the guest once, in order and in the end; the transcript is in order, and short of no more than the drops, the counted faults and the frames lost on the way explain |
| integer, multiply and compressed instructions (`insn/rv64i.rs`, `rv64m.rs`, `rvc.rs`, `mod.rs`, `Cpu::step`) | registers, memory, pc | expand, decode, execute | immediates scrambled twice, decoders that overlap, division and width edges | every halfword is the instruction the ISA says; every instruction computes what the ISA says, or traps and changes nothing |
| console input (`serve.rs` `pump_input`, `FrameTx`; `rawtty.rs`) | the pending escape, the payload; the lock | read keys, send a frame, quit | reads cut escapes anywhere; two threads write to one port; QUIT ends the process in the middle of a reply | no frame lands inside another; what was typed before QUIT is sent |
| operator's terminal (`rawtty.rs`, `main.rs` of the host) | the settings found, the `Restore` guard | make raw, put back | two threads may both end the process; `tcsetattr` may do half of what it is asked | the terminal is left as it was found; nothing is served over a port that is not raw |
| badge screen (`badge/app/src/oled.rs`) | grid, cursor, escape state; owed frame, spinner, failures in a row | put a byte, flush, tick | deferred wraps and scrolls, escapes cut anywhere, draws that fail | the grid is the end of the text; a failed frame is drawn again; an outage is flagged once |
| badge start-up (`badge/app/src/main.rs`, `startup.rs`) | the stage, the wait, the report | wait, connect, note, stop | servers that come late or never, a clock that stands still | a badge that hangs names the call; bounded waits end |
| boot images (`rv64-host/src/lib.rs`, `elf.rs`, `fdt.rs`, `hostfile.rs`, `run.rs` on the badge) | guest RAM, layout, `/chosen`, the image file | load, lay out, patch, flush, reopen; find the tree again | `.bss` beyond the file, sizes at the end of RAM, headers that lie | nothing overlaps; both sides agree on the tree's address |
| boot in one process (`run_until`, `boot_capturing`) | slices, counts, the console seen so far | run a slice, scan for the marker | the marker is printed across two polls; an end on the last instruction of a slice | slices do not show |
| probe; differential tester | - | measure; generate tests | - | - |

How they interact: the hart's loads and stores go through the MMU and the bus
to the page cache; a miss or an eviction is a `MemBacking` call, on the badge
one exchange of the page protocol; the exchange arms the receive path, sends a
frame and takes the answer out of the `Mux` that decodes the received bytes;
the laptop serves the image. Between slices the run loop polls the same link
for console bytes, and it ends the run when guest memory fails.

Concurrency is in five places only: the threads of the badge around the USB
server (`Transport`), the badge and the laptop (`Link`), the laptop's keyboard
thread and page loop (`Console`, and at their end `Terminal`), the badge's
`main` and the servers that register (`Startup`), and the timer against the
instruction stream (`Hart`). Nothing is persisted by the badge, and a crash
of either side ends the run, so there is no recovery to model.

## 2. Modules

| module | models |
|---|---|
| `FlatMemory` | the abstract promise: guest RAM as a flat array, accesses in page-sized pieces that may fail between two pieces |
| `PageCache` | `PageCache` over any `MemBacking`; one action per point where `resident` or `flush` calls the backing or returns |
| `Link` | `exchange_inner`, `serve_once` and the two streams between them |
| `Tether` | `PageCache` with `Link` as its backing, driven by `run`: composition by `INSTANCE`; the laptop's `store` is the cache's `backing` |
| `Receive` | the reader thread, the main thread's `arm`, the flush watchdog and the USB server |
| `Transmit` | `send` with `send_paced`, its tally, and the ring of the USB class |
| `Transport` | `UsbTransport`: `Receive` and `Transmit` joined at the main thread and at the flush, with a laptop that answers what it decodes |
| `Console` | keystrokes from `pump_input` to the guest's read, output from the guest's write to the transcript; host threads, wire, UART, `Mirrored` and the run loop's service |
| `Framing` | `encode`, `Decoder` and `Mux` over one byte stream |
| `Hart` | privilege, traps, timer, SBI and the run loop |
| `Mmu` | `Mmu::translate` with its TLB, guest edits, fences and `satp` |
| `Atomics` | reservations |
| `Compressed` | `rvc::expand` and the accessors of `insn/mod.rs`, at full width |
| `Instructions` | the dispatch of `Cpu::step` and what M, A and I instructions do to registers, memory and pc |
| `Screen` | `Grid` and `OledSink` |
| `Startup` | the badge's `main` up to the guest's first instruction, with `wait_for` |
| `Boot` | `load_boot_images` and the load phase of `serve`, then the badge's `dtb_address` |
| `HostRun` | `run_until` and `boot_capturing_frames` |
| `Terminal` | `rawtty` and its two users in `serve_main` |
| `MC*` | instances for TLC; `MCPageCache` and `MCFraming` add reference definitions written as the loops of the source. `MCIsa` and `MCBringUp` each hold several modules that share nothing and step one of them per behaviour (`part`) |
| `*Proofs` | proofs |

How state and actions correspond to the code:

* **PageCache.** `frames`, `slot_of`, `hand` are the fields of `PageCache`
  (slots are numbered from 1, 0 is `NOT_RESIDENT`). `pc` is where a call
  stands: `loop` in `read_bytes`/`write_bytes`, `read` and `write` inside the
  two backing calls of `resident`, `flush` and `sync` inside those of `flush`.
  `victim` and `fetched` are `resident`'s locals across the second call. The
  two-lap loop of `select_victim` is a closed form (`Stop`, `Aged`,
  `HandAfter`), compared with the loop itself by `SweepIsTheLoop`. A backing
  call may fail, and a failed write may have been applied (`Stores`): that is
  what a lost acknowledgement looks like. The counters of `Stats` decide
  nothing and are left out.
* **Link.** A frame is a type, a page and data. One exchange walks `attempt`,
  `arm`, `send`, `wait`; every early return of `exchange_inner` is an action.
  The field `ex` of a frame, and `applied` and `drained`, are auxiliary: no
  action reads them to decide anything. `MaxBatch` is how many ReadReqs one
  `read()` of the laptop can bring behind the tail of a WriteReq; `serve_once`
  then answers them first, which is the only reordering. `PassPart` is a header
  without its frame, which the host's decoder waits on until it has been filled.
* **Tether.** A `MemBacking` call is outstanding exactly while an exchange is.
  `CallDeclined` is the fallback of `resident`; `CallFails` ends `run` with
  whatever `take_fault` returns.
* **Receive.** The server is external and is modelled from what `usbhost.rs`
  says of it: a lend flips its mode and keeps the listener, an interrupt
  delivers at most one buffer to a listener, keeps bytes without one, and
  clears them in `NoListener` mode; a flush takes the listener with whatever is
  there. `parked` is stored before the lend, as in the source.
* **Transmit.** A frame is a number of units, offered `TX_PACKET` at a time; the
  ring takes any part of an offer (`Accepted`) or none (`Refused`). `spc` is
  where `send` stands: in the loop, at the flush, returned. `sends` keeps a
  `TxTally` per send, of which `TxLog` is the sum; call and time figures decide
  nothing and are left out. `Decoded` is the laptop's decoder reduced to what
  a frame cut short does to its successors; `Framing` has it in full.
* **Transport.** `Send`, `SendReturns` and `SendFlushes` are joint actions of the
  two halves. The flush at the end of a multi-packet send is the server's
  `SerialFlush`, and so delivers to, or un-parks, the reader.
* **Console.** Keys and printed bytes are numbered. A frame crosses the wire in
  two parts, since neither a paced reply nor any write to a tty is atomic.
  `kpc` and `ppc` are the two host threads, `bpc` the run loop: `slice`,
  `service`, `ended`. `lost` holds the keys of a frame whose first half the
  decoder held when an exchange was given up. The guest's driver is external:
  it polls IIR, reads when told to and visits the divisor latch. A send of the
  mirror is one step: `encode`'s frames (`Chunk`), how many of them the link
  took whole (all, if the send returned `Ok`) and which of those went astray.
  `unheard` counts the latter and is auxiliary: the code has no such count.
  What stays of a frame cut short holds up the frames behind it for a while at
  the laptop's decoder (`Framing`, `HiddenOnlyByAHeader`): they come late, which
  `transcript` does not show, or, if nothing follows, are among those that went
  astray. `Scanned` is
  `pump_input`'s loop over one read, its pending escape carried along; `ForGuest`,
  which only the properties use, says the same of the script as a whole.
* **Framing.** A byte carries the frame and position it was encoded at, which
  only the checksum reads: the CRC is ideal. Sizes are shrunk (length and CRC
  take one byte), the order of tests in `next_frame` is kept.
* **Hart.** The guest is any program: at each step it picks an instruction, and
  the model does what the code does with it. `phase` is where the body of
  `run`'s loop stands: dead-end check, interrupts, the instruction, the tick,
  the service between slices.
* **Mmu.** Three levels of 512 become `LEVELS` of `FAN`. Tables are edited at
  will, without a fence, as a guest may.
* **Atomics.** Memory is the set of addresses written since the last LR.
* **Compressed.** A word is the set of its 1 bits, so a shift, an OR and a mask
  are what they are in the source, at 16 and 32 bits. `Rvc` is the ISA's table:
  it lists each immediate as the manual prints it and knows nothing of
  `expand`'s builders; `Decoded` reads the expansion back through the accessors
  that will execute it.
* **Instructions.** Registers have `XLEN` bits, a byte is an eighth and a word a
  half of that, so double-width, word and byte forms keep their proportions.
  One action per kind of instruction; the guards are the dispatch order (`OfM`
  first). `Computes` says what a mnemonic means as sets of bits and integer
  equations, without the code's wrapping arithmetic.
* **Screen.** Bytes are reduced to the classes `Grid::put` tells apart. `paper`
  is the same text on endless paper; `current` says whether the panel shows
  exactly `frame()`.
* **Startup.** `stage` is the call `main` is in, `up` the servers that have
  registered (external, monotone); one action per call that can block or fail.
* **Boot.** A memory cell names the byte it holds (image, segment, offset) or is
  zero, so an overlap shows. Addresses are `W` bits wide and wrap like a release
  build's. Reading a file that is no kernel or no tree, and a backing that fails,
  is the outcome `failed`.
* **HostRun.** The guest is a script of what each `step_trapping` does: print a
  character, end the run in one of three ways, or nothing visible. An empty marker
  is never found, as `console_reached` returns early on one. The reference for
  `BootRunExact` looks at the script alone: which of its steps print, and whether
  consecutive ones of those printed by a poll spell the marker.
* **Terminal.** Settings are sets of flags, one per group the code treats alike.
  `restore` is two steps, the swap and the `tcsetattr`, in whichever thread won;
  `Exit` waits for nobody, as `std::process::exit` does.

## 3. Runs

Every run takes about two minutes at most with two workers.

| run | instance | what it shows |
|---|---|---|
| `cache` | 3 pages, 2 frames, 1-byte pages, accesses of 1 and 2 bytes, pages 0 and 1 may be pinned | all the cache's properties, refinement of `FlatMemory` included, with refusals at every backing call. One-byte pages make every longer access a straddling one; offsets inside a page are covered by the proof, for every page size |
| `link` | 2 pages, 1 value, 2 exchanges, 1 re-send, batches of 1, page 1 may be refused, losses | order and drain properties and termination. Two exchanges are enough for a leftover to meet a later request; longer histories are those of the `tether` runs |
| `tether_retry` | 2 pages, 1 frame, 7 exchanges, 1 re-send, no give-up, batches of 1 | no answer is stale while no exchange is given up; that memory is flat there too is `TetherIsFlat`. One frame makes every access of another page a write and a read |
| `tether_decline` | 3 pages, 2 frames, 6 exchanges, 1 give-up, answers in order | a declined eviction loses nothing when the host answers in order |
| `tether_lost_update` | the same with batches of 1 | **violated**, finding 1 |
| `tether_refused` | 3 pages, 2 frames, 1 give-up, page 2 may be refused | **violated**, finding 2 |
| `transport` | 3-packet replies, 2-packet deliveries, 2 failed lends, 2 requests of 1 or 3 units, packets and ring of 2, 1 tolerated refusal | a reply needs two deliveries, so its tail needs the watchdog; a frame of 3 needs two offers and a flush, and can be cut by a stall or the clock in front of another; the lend budget is reached |
| `console` | scripts ESC QUIT KEY, ESC ESC QUIT and KEY QUIT KEY with 1 byte printed, and an empty script with 5; a sink of 3 bytes, frames of 2; 1 exchange, 1 visit to the divisor | every cut of an escaped quit, an escaped escape and a plain quit; a keystroke frame next to a reply and half in at a give-up; sends of two frames, the second one short, that fail behind either; any of the frames lost; the sink overflows within a slice |
| `framing` | payloads of 0 and 2 bytes, the latter looking like SYNC, text bytes that are halves of SYNC, 2 items, noise cap 3 | all framing properties for every cut of every such stream |
| `hart` | 2 addresses, deadlines 0 and 3, 4 instructions in slices of 2, starts in S-mode and in M-mode | a trap, its handler, a second trap or interrupt inside it and the return fit in four instructions; a deadline of 3 falls due exactly when the fourth is about to execute |
| `isa` | part *mmu*: 2 levels of 2 entries, 2 tables, 2 TLB slots, 5 entries, 3 edits. Part *atomics*: 2 virtual and 2 physical pages of 3 units, granule 2. Part *compressed*: all 65536 halfwords. Part *instructions*: 8-bit registers, 11 operands and 8 immediates at the edges of the range, 12 bytes of memory | 4 virtual pages share 2 slots, so entries collide, and the entries hold a pointer, a page never written, a user page and a misaligned superpage; aliases, straddles and a granule that crosses a page; the compressed expansion, exhaustively; each instruction form against the ISA's meaning of it, at 0, 1, -1, the extremes and the word boundary |
| `bring_up` | part *grid*: 3 columns, 2 rows, tab stops of 2, 3 lines of paper. Part *sink*: the bars at the second failure, 2 phases. Part *startup*: every subset of servers up at first, 4 attempts, a deadline of 2 polls. Part *boot*: 6-bit addresses, 24 cells of RAM in pages of 4, raw kernels and ELFs with true, short and lying headers, trees with `/chosen` in the wrong place, initrds of 0 to 5. Part *run*: every script of 4 steps, polls of 2, cap 5, a marker of 2. Part *terminal*: terminals and pipes | wraps, scrolls and what is written after a scroll; a failing panel; each server late or missing with a running and a standing clock; images that fit exactly, by one too long, or wrap past the top of the address space; a marker cut by a poll; an ending on each instruction of a slice; every order of the two threads' ends |

Most runs turn deadlock checking off: a bounded number of exchanges, requests,
items, edits or instructions is used up, and a run of the guest ends; start-up,
boot and an expansion are over when they are over.

Every bound is a constant named in its module (`MaxExchanges`, `MaxFailed`,
`MaxRequests`, `MaxPrinted`, `MaxAsked`, `MaxTermios`, `MaxItems`, `MaxEdits`, `MaxLines`, `MaxStreak`, `max_insns`, `cap`; `MaxLen` and `MaxBatch` bound
what one step does). `MaxFailed` equals `MaxExchanges` where `ExchangeEnds` is
checked, so that the bound never blocks a failing exchange.

**Fairness.** `PageCache!CallStep`: a call in progress is one thread's
straight-line code, and the backing answers (`ExchangeEnds` says so of the
link). `Link!BadgeStep` and `Expire`: the same thread, and a clock; nothing is
assumed of the host or the stream. `Transport`: each thread runs, the watchdog
is periodic, the wire and the ring bring what is owed; a lend is not required to
fail, a deadline not to pass. `Hart`: the loop's thread runs. All of these are
weak. `Console`: weak for the two host threads and for the run loop's turns;
strong for `Absorb`, `DriverReads` and `ClearDlab`, each of which is enabled only
in one phase of the run loop and is done there by straight-line code: `pump`
takes whatever has arrived at every service, and the guest's driver polls on a
timer and does not stay in the divisor latch. `Screen`: weak for `Flush`, which
the run loop calls between slices and the final loop of `main` for ever after,
and strong for `FlushDraws`: a panel that fails now and then is caught up with,
one that always fails cannot be. `Startup`: weak for `main`; nothing is assumed
of any server.

### Findings

1. *A lost update* (`tether_lost_update`). A write is given up and its page
   declined; its request is still on the wire. The next fetch's ReadReq reaches
   the laptop in one `read()` with it; `serve_once` answers the read first. The
   badge takes the answer and moves on, with the old WriteAck behind it. The
   page's next eviction, whose own WriteReq is lost, is acknowledged by that
   WriteAck: frames carry no request id. The comment at `RETRY_BUDGET` says a
   leftover "cannot satisfy a later exchange". It is true while answers come in
   order or while nothing is given up: that is what `TetherProofs` assumes.
2. *A stale fault* (`tether_refused`). A survived failure leaves its fault in
   the link; a page the laptop refuses records none; the run then ends with the
   old one.

Observations without a run of their own:

* A WriteReq that was given up half sent leaves a header at the host's decoder
  that swallows what follows until about 4 KiB more have come (`PassPart`,
  `HiddenOnlyByAHeader`, the exemption `Hidden` of `ReplyIsReceived`). Read
  requests are 13 bytes, so the next fetches go unanswered; `cache.rs` calls a
  declined eviction "self-healing by construction", which holds only if the next
  thing sent is long.
* `parked` is published before the lend, so `UsbTransport::new` may return, and
  the first request may leave, while the server still clears what arrives: the
  exemption `ReplyLost` of `ReplyIsReceived`. The comment on `Rx::parked` knows
  the gap; after the first lend nothing is ever cleared.
* `Mirrored::dropped` counts what one slice prints beyond `MIRROR_CAP`; every
  service empties the sink whether or not its send works. The comments there
  ("the link is why", "only grows when the link has stopped taking bytes") name
  a cause the code does not have: a dead link shows in `mirror_faults`.
* `mirror_faults == 0` does not mean a whole transcript. `send_console` returns
  `Ok` once the link has taken the bytes; a log line between two packets of a
  frame makes the host drop it (`usbhost.rs:292`). A request is sent again then,
  a console frame is not, and nothing counts it. `TranscriptTrue` bounds such a
  hole by the frames lost; it cannot bound their number.
* Exit races restore. `Restore::restore` swaps its flag and then calls
  `tcsetattr`; if the other thread ends the process in between, the terminal
  stays raw. The comment (`rawtty.rs:318`) says either can call it without
  knowing whether the other got there first: true of calling it, not of exiting
  after it. `TerminalPutBack` exempts exactly that window (`Restoring`).
* `serve_main` starts the keyboard thread also when `make_raw_console` failed,
  though the message there says serving goes on without a keyboard; and `apply`
  reads back the flags but not VMIN and VTIME.
* The mirror hook connects to the log server without a bound, whatever the
  bounded wait for it said: without a log server the badge hangs at `mirror...`,
  named on the screen, although step 4 of the start-up order calls a missing log
  server not fatal. `MainSettles` counts it among the calls main may stay in.
* `Halt::NoScreen` stops with no screen and no mirror, so it is reported nowhere,
  though its comment says the wire.
* The badge refuses an image smaller than a page and knows no fallback to the
  file's length, though the comment at `dtb_address` calls the guards
  `load_kernel`'s own; `BadgeFindsDtb` states what it does accept. `elf::extent`
  goes by `p_memsz` alone while `write_segment` writes the longer of the two
  sizes: for a malformed segment the tree could be laid over its end
  (`WellFormed`).
* A marker that is printed in the slice in which the guest ends is reported as
  the guest's ending, not as the marker.
* A tab at the right edge, with the wrap pending, writes no blank at all.
* The rows of `rv64i` for shifts and comparisons take any `funct7`, so reserved
  encodings execute instead of trapping; multiplications are kept from them only
  by the order of the decoders (the mutant of `StepIsTheIsa`).

## 4. Proofs

`PageCacheProofs` (from `SizesAssumption` and `BytesAssumption`: the sizes are
positive and RAM is filled with a byte): for every RAM, page, access and cache size,

* `Refinement`: `Spec => ImplementsFlatMemory`. Every step is a step of the flat
  memory or a stutter under the map *page -> its frame if resident, else the
  backing's page*. The lemmas `...Seen`, one per action, show what the guest
  sees; the lemmas `...OK` show that the inductive invariant is kept.
* `TypeCorrect`, `Coherence` (the invariant `Coherent` of the run),
  `FlushIsComplete`, `PinsAreKept`.

The inductive invariant is `TypeOK /\ IndexMatchesFrames /\ CleanIsStored /\
FetchedStaysCurrent /\ CallConsistent`. None is inductive alone: replacing a
frame keeps the index only if the new page is not resident, which is known only
because nothing was inserted while the write was outstanding; dropping a clean
frame keeps the guest's view only because it is stored; and a write that was
applied and then failed keeps clean frames stored only because it went to the
page of a dirty one.

`LinkProofs` (from `LinkAssumption`: budgets and bounds are numbers; for every set
of pages and values, retry budget, batch, loss and refusal):

* `OwnAckLeavesNothingOlder`, that is `OwnAckDrains`, and `WritesInOrder`, that
  is `StoreNeverRegresses`. Both rest on `Ordered`: requests lie on their stream
  in the order of their exchanges, no answer is to a request not yet made, and
  no answer behind a WriteAck, nor any request still on its way, is older than
  it. Every way a stream gets shorter (a loss, a purge, a frame taken out of
  the middle by its type) only thins it (`Thins`), and a thinned stream is still
  in order; the one step that reorders, a batch, puts reads in front of a write
  whose answer is then the last of its batch.

`TetherProofs` (from `TetherAssumption`; for every RAM, page and cache size, retry
budget, number of exchanges and loss) takes the theorems of the two parts by
`INSTANCE` and adds what joins them. Its results have a hypothesis, `Regular`: the
host answers in the order it was asked (`MaxBatch = 0`), or no exchange fails
(`MaxFailed = 0` and no page is refused). Without it they are false: finding 1 is a
behaviour outside of both.

* `WritesAreStored`, that is `AcknowledgedIsStored`, and `TetherIsFlat`: the cache
  over the wire is a flat memory.
* `AnswersAreOwn`, that is `NoStaleAnswer`, if no page is refused either: an `Err`
  carries only a page, so the `Err` to a write's duplicate may end a later read of
  that page.

`TetherInv` is the two parts' invariants and sixteen clauses that relate them. A
success is judged by type and page alone, so the argument is about which frames
can be in flight when an exchange begins. `LeftBehind`: after a success, only
duplicates of that exchange, and the ack of the write before it if the read
overtook it; it needs `BehindAnswer`, the same of the streams while the answer is
still on its way. `ReadsAreResident` and `ReadsAreFetched`: reads in flight are of
pages the cache now has, so the next fetch, of a page it has not, cannot be
answered by them; a failed read ends the run, so this survives give-ups.
`WritesAreHarmless`: a WriteReq in flight is of a page whose frame is dirty, or
repeats what the image holds, so its late arrival changes nothing the guest sees;
this is what a declined eviction needs. `LateAreEvicted`, `WrittenAreEvicted`
and `OneExchangeBack` are for batches, where a write's ack may come an exchange
late: its page has just been evicted, and cannot be evicted again before it has
been read, which is an exchange too. Together they give `OldAreOfOtherPages`: no
older frame can pass for the answer. A step of the cache is a step of `PageCache`
over a store that keeps still; a step of the host that writes is, for `FlatMemory`,
a stutter (`AppliedUnseen`).

`TransportProofs` (from `ReceiveAssumption` and `TransmitAssumption`: lengths and
limits are positive; and `FramingAssumption`: payloads are byte sequences of at
most `MAX_PAYLOAD`), with one inductive invariant for each direction, kept by the
joint actions too, and one for the framing:

* `NothingLostBetweenThreads`, that is `ReceivesIntact`: nothing is lost or
  reordered between server, reader and main thread. Needed besides: what each
  value of the reader's program counter says about the listener, the mode, the
  flag and the packets in the reader's hands (`ReaderPlace`), and that nothing
  is on its way before the first lend (`NothingYet`), or clearing would make a
  hole.
* `SendsAreWhole`, that is `HandedOver`: the units on the wire and in the ring are
  the accepted part of each send. `FlattenSeq` is recursive; that appending one
  unit to the last send's share appends it to the whole is `FlattenSeq`'s
  recursion carried by induction.
* `NoParkAfterStop`, that is `NoConfirmAfterStop`, an action property of the same
  invariant: a stopped reader is not parked, and `confirm_park` looks again.
* `FramesComeOutInOrder`, that is `GoodFramesInOrder`: the decoder returns the
  frames that went out whole, in order, and nothing else. `FrInv` is about the
  line, all bytes ever sent, of which the buffer and the stream are the part that
  has not left (`BufOK`). Each whole frame of a known type has a place on it;
  whatever on it would be accepted is one of them or of an unknown type
  (`Placed`); and the first `Len(out)` are those whose first byte has left
  (`Ahead`). That no whole frame begins inside a rejected header or another
  frame's bytes comes from the positions bytes carry (`FramesApart`), that is from
  the checksum being ideal.
* `OnlyAHeaderHides`, that is `HiddenOnlyByAHeader`: besides, the decoder stops
  only where it needs more bytes (`Waits`).
* `NothingUnaccounted`, that is `AllAccountedFor`: the counts are inductive by
  themselves; the order within a type, through a `take_matching` from the middle of
  the held frames, is an induction over `FlattenSeq`.

`ConsoleProofs` (from `ConsoleAssumption`; for every script, sink, frame size,
interrupt mask and bound):

* `TranscriptIsTrue`, that is `TranscriptTrue`. `OutInv` adds that whatever is in
  the transcript or the sink has been printed. What one send leaves at the laptop
  is an induction over its frames (`SendArrives`): what came of the first `k` is
  in order, is from their bytes, and is short of `MAX_PAYLOAD` for each one gone at
  most. A failed send is short of a sinkful at most, as the sink never holds more.
* `KeysAreExact`, that is `KeysExact`. `KeyInv` says what makes it inductive:
  what the keyboard thread's pending escape and payload mean between two reads
  (`ReadingOK`), who holds the lock when the last item on the wire is the first
  half of a frame (`LockOK`, `LastOK`), that halves come in pairs (`Paired`) and
  what the badge's decoder holds when a second half is next (`HeadOK`).
  `ScannedOK` shows by induction over the keys of one read that the loop of
  `pump_input` with its flag finds exactly what `ForGuest` says by counting the
  escapes in front of a key.

`HartProofs` (from `HartAssumption`; for every set of addresses, deadlines, cap
and slice, and any guest): `KernelStaysBelowMachineMode` and `TrapReportIsTrue`.
The invariant adds why M-mode is a dead end: `mtvec` is still 0 and MTIE off,
since only M-mode can write them, and M-mode executes nothing, since the loop
looks before each instruction; `Arrived` keeps the cause and address from the
trap until the loop notices. `TypeCorrect`, `TimerPrecision` (`TimerIsPrecise`)
and `ReturnsAreExact` (`HandlerReturns`) hold from either start. `TimerIsPrecise`
is inductive over the types: the check stands between every tick and the next
instruction. The returns need `Saved`, that the trap registers hold the recorded
context as long as nothing has written over them.

`IsaProofs`, two modules that share nothing:

* `Atomics` (from `AtomicsAssumption`; for every page size, map, granule and
  width): `ReservationSound` and `ScExact`, together `LrScSound`. The invariant
  `Exact` says that the register holds the last LR's address if its granule is
  unwritten and nothing otherwise; the half of it that `ReservationIntact` states
  would not prove that an SC does not fail for nothing.
* `Mmu` (from `MmuAssumption`; for every number of levels, fan-out, TLB size and
  set of entries): `TlbTransparency`, that is `TlbIsTransparent`. `NowIsSeen`, that
  the mapping of the tables as they are now is among those seen since the last
  flush, connects an entry cached earlier with a walk made now. That the walk
  (a recursion downwards that returns early on a leaf, a fault or a pointer at
  the last level) finds the chain that `Sv39` asks for, and only that, is proved by
  induction from the last level up (`Descends`, `DescentSettles`, `WalkIsSv39`).

`BringUpProofs` (from `ScreenAssumption`, `StartupAssumption`, `HostRunAssumption`
and `TerminalAssumption`: sizes and limits are positive, the alert comes before the
streak's saturation, a script is a sequence of steps and the marker one of
characters, settings are sets of flags), each module by itself:

* `OutagesAreFlagged`, that is `OutageIsFlagged`, for every panel and limit. It
  is inductive once the streak is known to lie below its saturation; the step
  that matters is that a streak passes `ALERT_AFTER` through equality.
* `CallsAreNamed`, that is `StuckIsNamed`, for every deadline and poll interval.
  `StartupInv` adds what the property leaves out: the last line noted is the
  stage's (`LineOK`), and how much of the report each stage has (`Reported`,
  `Staged`), so the first missing server can only be the log.
* `SlicesDoNotShow`, that is `BootRunExact`, for every guest, poll interval, cap
  and marker. `RunInv` holds until the boot is over: no step that ends the run has
  been passed and the total is a multiple of the poll interval or the cap
  (`Progress`); no earlier poll had the marker to find (`NotYet`); no marker begins
  where the next scan will not look (`ScanOK`), which is why it resumes
  `Len(Marker) - 1` short of the end; and each character of the console is known by
  the step that printed it, in order and with none left out (`ConsoleTrue`). From
  the last, the marker stands in the console exactly when consecutive printing
  steps of the script spell it.
* `TerminalIsPutBack`, that is `TerminalPutBack`, for every setting. `Guarded`
  says at every step, not only at the exit, that a spent guard means a terminal
  put back, refused, or still in the hands of the thread that won the swap, and
  that a held guard outlives neither thread's restore.

Induction over data. The library's induction theorems cannot be applied by the
installed provers, but the principle that a nonempty set of numbers has a least
element can (`WFMin` with `NatLessThanWellFounded`). `LeastNatural` and
`SetInduction` restate it, and carry the proofs about `FlattenSeq`, the page-table
walk, the demultiplexer and the scan of a read.

Only model-checked:

* liveness (`EveryCallEnds`, `ExchangeEnds`, `ReplyIsReceived`, `KeyIsRead`,
  `RunEnds`, `SinkCatchesUp`, `MainSettles`), since the prover handles neither
  fairness nor ENABLED;
* `SweepIsTheLoop` and `CutsDoNotMatter`, whose reference definitions are
  `RECURSIVE` operators; `StepIsTheIsa`, whose module uses `Bitwise`;
* `CompressedIsItsExpansion`, which TLC decides for every input there is;
* `GridIsTheBottomOfThePaper` and the images of `Boot`, which are stated with
  folds of sequences and wait for the same treatment as `FlattenSeq`.

## 5. Not modelled

The hardware probe (`badge/probe`), a program that prints timings, and the
differential tester (`rv64-difftest`), which generates programs and compares
with Spike: neither is part of the system. The bus's address decoding (in `Boot`
a store outside of RAM faults, also where the bus would hand it to the CLINT or
the UART), ELF and device-tree parsing where it only refuses, the command line,
reports, figures and wording. CRC collisions. Wall-clock values: a deadline may
pass at any moment it is looked at.

Three references stop short of the standard they come from. `Mmu`'s takes its
permission check from the code, which knows no SUM, no MXR, no reserved W without
R and no canonical addresses: `TlbIsTransparent` says that walk, TLB and tables
agree, not that they conform to Sv39. `Hart`'s guest, started in M-mode, does not
itself write `medeleg`, `mideleg`, `mip` or `mcause`. `Startup`'s panel shows what
is noted; one that fails to draw is in `Screen`, where the boot banner is one of
the texts that may come first.

## 6. Plan

Done: the page cache and its proofs; the page protocol and its composition with
the cache; the transport in both directions; the console; framing; hart, MMU,
atomics and the instruction set; screen, start-up, boot images, the boot in one
process and the terminal; a proof module for each group of modules. Left, in this order:

1. Proofs: the layout half of `Boot` and the grid of `Screen`.
2. Compose `Transport` under `Link`, so that a reply cleared or hidden is one of
   the losses of the stream rather than a free choice.
3. `Bus` address decoding.
