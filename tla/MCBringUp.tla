------------------------------- MODULE MCBringUp -------------------------------
(***************************************************************************)
(* What surrounds a guest's run, checked side by side: the images, the     *)
(* badge's start-up and its screen, the laptop's own boot loop and its     *)
(* terminal.  They share no state, so a behaviour is one part's, and the   *)
(* others stand still in one initial state.                                *)
(***************************************************************************)
EXTENDS Screen, Startup, Boot, HostRun, Terminal

VARIABLE part

\* The grid takes every class of byte; the sink, flushed and ticked, only two.
Parts == {"grid", "sink", "startup", "boot", "run", "terminal"}
SinkAlphabet == {"a", "nl"}

MCMarker == <<"x", "y">>
MCScripts == [1 .. 4 -> {"run", "x", "y", "shutdown", "backing", "mtrap"}]
             \cup [1 .. 5 -> {"run", "x", "y"}]

MCSettings == {Flags, {"echo", "cs8"}, {"icrnl", "opost"}}

\* Raw Images with and without a header, short, exact, with .bss, too large and wrapping;
\* ELFs with a gap, downwards, outside RAM, broken, and with more file than memory.
Seg(p, f, m) == [paddr |-> p, filesz |-> f, memsz |-> m]
Raw(len, magic, off, size) ==
    [elf |-> FALSE, broken |-> FALSE, magic |-> magic, text_offset |-> off, image_size |-> size,
     segs |-> << Seg(KERNEL_LOAD_ADDR, len, len) >>]
Elf(magic, size, broken, segs) ==
    [elf |-> TRUE, broken |-> broken, magic |-> magic, text_offset |-> OurOffset,
     image_size |-> size, segs |-> segs]
MCKernels ==
    {Raw(l, m, o, s) : l \in {2, 3, 5}, m \in BOOLEAN, o \in {4, 5}, s \in {2, 4, 5, 7, 42, 43, 44, 63}}
    \cup {Elf(m, s, FALSE, ss) : m \in BOOLEAN, s \in {4, 6},
            ss \in {<<Seg(20, 4, 5)>>, <<Seg(20, 3, 4), Seg(25, 1, 2)>>,
                    <<Seg(20, 3, 4), Seg(17, 1, 2)>>, <<Seg(8, 1, 1)>>,
                    <<Seg(20, 4, 2)>>, <<Seg(62, 1, 9)>>}}
    \cup {Elf(TRUE, 4, TRUE, <<Seg(20, 4, 5)>>)}

\* Device trees: plain, with another /soc/chosen, with the properties elsewhere first,
\* with one of them outside, with one too short.
Token(t, n, l) == [token |-> t, name |-> n, len |-> l]
Begin(n) == Token("begin", n, 0)
End == Token("end", "", 0)
InitrdStart == Token("prop", "initrd-start", 8)
InitrdEnd == Token("prop", "initrd-end", 8)
Root(ts) == <<Begin("")>> \o ts \o <<End, Token("stop", "", 0)>>
Plain == Root(<<Begin("chosen"), Token("nop", "", 0), InitrdStart, InitrdEnd, End>>)
MCDtbs ==
    [len : {1, 3},
     tokens : {Plain,
               Root(<<Begin("soc"), Begin("chosen"), InitrdStart, InitrdEnd, End, End,
                      Begin("chosen"), InitrdStart, InitrdEnd, End>>),
               Root(<<InitrdStart, Begin("chosen"), End, Begin("cpus"), InitrdStart, InitrdEnd, End,
                      Begin("chosen"), InitrdEnd, InitrdStart, End>>),
               Root(<<Begin("chosen"), InitrdStart, End, InitrdEnd>>),
               Root(<<Begin("chosen"), Token("prop", "initrd-start", 4), InitrdEnd, End>>)}]
MCInitrds == {NoInitrd, 0, 2, 5}

-------------------------------------------------------------------------------
vars == <<part, screenVars, startupVars, bootVars, runVars, termVars>>

Init == /\ part \in Parts
        /\ (part \in {"grid", "sink"} \/ pending = FALSE) /\ ScreenInit
        /\ (part = "startup" \/ up = {}) /\ StartupInit
        /\ \/ part = "boot"
           \/ images = [kernel |-> Raw(3, TRUE, 4, 4), dtb |-> [len |-> 1, tokens |-> Plain],
                        initrd |-> 0]
        /\ BootInit
        /\ (part = "run" \/ script = <<"run", "run", "run", "run">>) /\ HostRunInit
        /\ (part = "terminal" \/ (port = Pipe /\ stdin = Pipe)) /\ TerminalInit

OfGrid == part = "grid" /\ \E b \in Alphabet : PutByte(b)
OfSink == part = "sink" /\ (SinkStep \/ \E b \in SinkAlphabet : PutByte(b))
OfStartup == part = "startup" /\ StartupNext
OfBoot == part = "boot" /\ BootNext
OfRun == part = "run" /\ HostRunNext
OfTerminal == part = "terminal" /\ TerminalNext

Next == /\ UNCHANGED part
        /\ \/ (OfGrid \/ OfSink) /\ UNCHANGED <<startupVars, bootVars, runVars, termVars>>
           \/ OfStartup /\ UNCHANGED <<screenVars, bootVars, runVars, termVars>>
           \/ OfBoot /\ UNCHANGED <<screenVars, startupVars, runVars, termVars>>
           \/ OfRun /\ UNCHANGED <<screenVars, startupVars, bootVars, termVars>>
           \/ OfTerminal /\ UNCHANGED <<screenVars, startupVars, bootVars, runVars>>

(***************************************************************************)
(* Fairness.  The run loop flushes after every slice, and not every draw   *)
(* fails; main goes on whenever its call can return.                       *)
(***************************************************************************)
Still == UNCHANGED <<part, startupVars, bootVars, runVars, termVars>>
Fair == /\ WF_vars(part = "sink" /\ Flush /\ Still)
        /\ SF_vars(part = "sink" /\ FlushDraws /\ Still)
        /\ WF_vars(part = "startup" /\ Main /\ UNCHANGED <<part, screenVars, bootVars, runVars, termVars>>)

FairSpec == Init /\ [][Next]_vars /\ Fair

\* PanelCatchesUp of Screen, in the part where the sink is flushed.
SinkCatchesUp == part = "sink" => PanelCatchesUp

\* StartupSettles of Startup, in the part where main runs.
MainSettles == part = "startup" => StartupSettles
===============================================================================
