-------------------------------- MODULE Framing --------------------------------
(***************************************************************************)
(* Framing: encode, Decoder and Mux in crates/rv64-proto/src/lib.rs, over  *)
(* a byte stream that is cut anywhere, mixed with log text, and that may   *)
(* carry frames split or cut short by what happened on the sending side.   *)
(*                                                                         *)
(* A frame is SYNC (two bytes), a type, a length, its payload and a CRC.   *)
(* Here length and CRC take one byte each.  A byte carries, besides its    *)
(* value, the frame and the position it was encoded at; only crc32 looks   *)
(* at those: a checksum matches when type, length, payload and checksum    *)
(* were encoded together, which leaves out CRC collisions and nothing else.*)
(***************************************************************************)
EXTENDS Integers, Sequences, SequencesExt

CONSTANTS MAX_PAYLOAD,  \* longest legal payload
          NoiseCap,     \* noise_cap: discarded bytes kept as a sample
          Payloads,     \* the payloads frames carry
          Texts,        \* the byte values of log text
          MaxItems      \* bound on the frames and pieces of text on the stream

LO == 1
HI == 2
HEADER  == 4
TRAILER == 1

Page    == 3  \* two types of frame that Mux holds for take_matching,
Ack     == 4
Console == 5  \* one whose payload is console bytes,
Unknown == 6  \* and one decode_body does not know, or not with that length
Types   == {Page, Ack, Console, Unknown}

ASSUME FramingAssumption == /\ MAX_PAYLOAD \in Nat /\ NoiseCap \in Nat /\ MaxItems \in Nat
                            /\ \A p \in Payloads : p \in Seq(Nat) /\ Len(p) <= MAX_PAYLOAD
                            /\ Texts \subseteq Nat

VARIABLES stream,     \* bytes sent and not yet pushed
          items,      \* frames and pieces of text sent so far
          good,       \* the frames that went out whole, of types known here (auxiliary)
          pushed,     \* every byte given to push (auxiliary)
          buf,        \* Decoder.buf
          running,    \* is push still calling next_frame?
          noise, dropped_noise,
          consumed,   \* bytes of buf that left it as frames (auxiliary)
          reported,   \* bytes take_noise has accounted for (auxiliary)
          out,        \* the frames next_frame returned, in order (auxiliary)
          held, console,
          handed,     \* the frames take_matching handed out, in order (auxiliary)
          typed       \* the console bytes take_console handed out (auxiliary)

muxVars == <<held, console, handed, typed>>
decVars == <<buf, running, noise, dropped_noise, consumed, reported, out, muxVars>>
framingVars == <<stream, items, good, pushed, decVars>>

FramingInit ==
        /\ stream = <<>> /\ items = 0 /\ good = <<>> /\ pushed = <<>>
        /\ buf = <<>> /\ running = FALSE
        /\ noise = <<>> /\ dropped_noise = 0 /\ consumed = 0 /\ reported = 0
        /\ out = <<>> /\ held = <<>> /\ console = <<>> /\ handed = <<>> /\ typed = <<>>
-------------------------------------------------------------------------------
(* The sender. *)

Values(ty, p) == <<LO, HI, ty, Len(p)>> \o p \o <<0>>
encode(ty, p, f) ==
    [i \in 1 .. HEADER + Len(p) + TRAILER |-> [v |-> Values(ty, p)[i], f |-> f, i |-> i]]
Text(v) == <<[v |-> v, f |-> 0, i |-> 0]>>

Sends(bytes) == /\ items < MaxItems
                /\ items' = items + 1
                /\ stream' = stream \o bytes
                /\ UNCHANGED <<pushed, decVars>>

SendFrame(ty, p) ==
    /\ Sends(encode(ty, p, items + 1))
    /\ good' = IF ty = Unknown THEN good
               ELSE Append(good, [ty |-> ty, payload |-> p, f |-> items + 1])

SendText(v) == Sends(Text(v)) /\ UNCHANGED good

\* A writer that gave up part of the way.
SendPart(p, n) == /\ n < HEADER + Len(p) + TRAILER
                  /\ Sends(SubSeq(encode(Page, p, items + 1), 1, n))
                  /\ UNCHANGED good

\* A writer whose frame log text got into.  A LO within SYNC itself leaves a whole frame.
SendSplit(p, n, v) ==
    LET whole == encode(Page, p, items + 1)
    IN  /\ n < Len(whole)
        /\ Sends(SubSeq(whole, 1, n) \o Text(v) \o SubSeq(whole, n + 1, Len(whole)))
        /\ good' = IF n = 1 /\ v = LO
                   THEN Append(good, [ty |-> Page, payload |-> p, f |-> items + 1])
                   ELSE good
-------------------------------------------------------------------------------
(* The receiver. *)

\* Decoder::push, called by Mux::push with whatever one read brought.
push(n) == /\ ~running
           /\ n \in 1 .. Len(stream)
           /\ pushed' = pushed \o SubSeq(stream, 1, n)
           /\ buf' = buf \o SubSeq(stream, 1, n)
           /\ stream' = SubSeq(stream, n + 1, Len(stream))
           /\ running' = TRUE
           /\ UNCHANGED <<items, good, noise, dropped_noise, consumed, reported, out, muxVars>>

Syncs(b) == {i \in 1 .. Len(b) - 1 : b[i].v = LO /\ b[i + 1].v = HI}
FirstSync(b) == CHOOSE i \in Syncs(b) : \A j \in Syncs(b) : i <= j

\* discard(n): the first n bytes are kept as noise while there is room, and counted.
discard(n) ==
    LET room == IF NoiseCap > Len(noise) THEN NoiseCap - Len(noise) ELSE 0
        keep == IF room <= n THEN room ELSE n
    IN  /\ noise' = noise \o SubSeq(buf, 1, keep)
        /\ dropped_noise' = dropped_noise + n - keep
        /\ buf' = SubSeq(buf, n + 1, Len(buf))
        /\ UNCHANGED <<stream, items, good, pushed, consumed, reported, out, muxVars>>

\* Mutant: half a SYNC at the end of a read is thrown away.
NoSync_drops_half == running /\ Syncs(buf) = {} /\ discard(Len(buf)) /\ running' = FALSE

\* No SYNC: all of it is noise, but for a last byte that may begin one.
NoSync == /\ running
          /\ Syncs(buf) = {}
          /\ discard(Len(buf) - (IF buf # <<>> /\ Last(buf).v = LO THEN 1 ELSE 0))
          /\ running' = FALSE

SkipToSync == /\ running
              /\ Syncs(buf) # {} /\ FirstSync(buf) > 1
              /\ discard(FirstSync(buf) - 1)
              /\ UNCHANGED running

AtSync == running /\ Syncs(buf) # {} /\ FirstSync(buf) = 1
len    == buf[HEADER].v
total  == HEADER + len + TRAILER

\* The header or the frame has not arrived whole: next_frame returns None.
NeedsMore == /\ AtSync
             /\ \/ Len(buf) < HEADER
                \/ Len(buf) >= HEADER /\ len <= MAX_PAYLOAD /\ Len(buf) < total
             /\ running' = FALSE
             /\ UNCHANGED <<stream, items, good, pushed, buf, noise, dropped_noise, consumed,
                            reported, out, muxVars>>

\* Mutant: the checksum covers the header only.
Matches_header == \A i \in 3 .. HEADER : buf[i].f = buf[3].f /\ buf[i].f # 0 /\ buf[i].i = i

\* crc32 over type, length and payload against the trailer.
Matches == \A i \in 3 .. total : buf[i].f = buf[3].f /\ buf[i].f # 0 /\ buf[i].i = i

\* Mutant: a rejected frame is skipped whole.
Rejects_whole == /\ AtSync
                 /\ Len(buf) >= HEADER
                 /\ \/ len > MAX_PAYLOAD /\ discard(2)
                    \/ len <= MAX_PAYLOAD /\ Len(buf) >= total /\ ~Matches /\ discard(total)
                 /\ UNCHANGED running

Rejects == /\ AtSync
           /\ Len(buf) >= HEADER
           /\ len > MAX_PAYLOAD \/ (Len(buf) >= total /\ ~Matches)
           /\ discard(2)
           /\ UNCHANGED running

\* A frame: Mux keeps console bytes apart and holds the rest; unknown types go nowhere.
Decodes ==
    LET ty == buf[3].v
        p  == [i \in 1 .. len |-> buf[HEADER + i].v]
        frame == [ty |-> ty, payload |-> p, f |-> buf[3].f]
    IN  /\ AtSync
        /\ Len(buf) >= HEADER /\ len <= MAX_PAYLOAD /\ Len(buf) >= total
        /\ Matches
        /\ buf' = SubSeq(buf, total + 1, Len(buf))
        /\ consumed' = consumed + total
        /\ out' = IF ty = Unknown THEN out ELSE Append(out, frame)
        /\ held' = IF ty \in {Page, Ack} THEN Append(held, frame) ELSE held
        /\ console' = IF ty = Console THEN console \o p ELSE console
        /\ UNCHANGED <<stream, items, good, pushed, running, noise, dropped_noise, reported,
                       handed, typed>>

\* Mutant: the last held frame of a type is taken first.
take_matching_last(want) ==
    LET of == {i \in 1 .. Len(held) : held[i].ty = want}
        i  == CHOOSE i \in of : \A j \in of : i >= j
    IN  /\ ~running
        /\ of # {}
        /\ handed' = Append(handed, held[i])
        /\ held' = RemoveAt(held, i)
        /\ UNCHANGED <<stream, items, good, pushed, buf, running, noise, dropped_noise,
                       consumed, reported, out, console, typed>>

\* take_matching(want): the first held frame of a type leaves, the others keep their order.
take_matching(want) ==
    LET of == {i \in 1 .. Len(held) : held[i].ty = want}
        i  == CHOOSE i \in of : \A j \in of : i <= j
    IN  /\ ~running
        /\ of # {}
        /\ handed' = Append(handed, held[i])
        /\ held' = RemoveAt(held, i)
        /\ UNCHANGED <<stream, items, good, pushed, buf, running, noise, dropped_noise,
                       consumed, reported, out, console, typed>>

take_console == /\ ~running
                /\ console # <<>>
                /\ typed' = typed \o console
                /\ console' = <<>>
                /\ UNCHANGED <<stream, items, good, pushed, buf, running, noise, dropped_noise,
                               consumed, reported, out, held, handed>>

take_noise == /\ ~running
              /\ noise # <<>> \/ dropped_noise > 0
              /\ reported' = reported + Len(noise) + dropped_noise
              /\ noise' = <<>>
              /\ dropped_noise' = 0
              /\ UNCHANGED <<stream, items, good, pushed, buf, running, consumed, out, muxVars>>
-------------------------------------------------------------------------------
Sender == \/ \E ty \in Types, p \in Payloads : SendFrame(ty, p)
          \/ \E v \in Texts : SendText(v)
          \/ \E p \in Payloads, n \in 1 .. HEADER + MAX_PAYLOAD : SendPart(p, n)
          \/ \E p \in Payloads, v \in Texts, n \in 1 .. HEADER + MAX_PAYLOAD : SendSplit(p, n, v)

Decode == NoSync \/ SkipToSync \/ NeedsMore \/ Rejects \/ Decodes

FramingNext ==
        \/ Sender
        \/ \E n \in 1 .. Len(stream) : push(n)
        \/ Decode
        \/ \E want \in {Page, Ack} : take_matching(want)
        \/ take_console
        \/ take_noise

FramingSpec == FramingInit /\ [][FramingNext]_framingVars
-------------------------------------------------------------------------------
(* Properties. *)

\* The frames of one type in s, and the bytes of the console frames in s.
OfType(s, ty) == FlattenSeq([i \in 1 .. Len(s) |-> IF s[i].ty = ty THEN <<s[i]>> ELSE <<>>])
Typed(s) == FlattenSeq([i \in 1 .. Len(s) |-> IF s[i].ty = Console THEN s[i].payload ELSE <<>>])

(***************************************************************************)
(* The frames that come out are the frames that went in whole, in order,   *)
(* each once, none invented and none skipped: rejecting a header two bytes *)
(* at a time never eats into a good frame behind it.                       *)
(***************************************************************************)
GoodFramesInOrder == IsPrefix(out, good)

(***************************************************************************)
(* Mux keeps their order for whoever takes them: of each type, the frames  *)
(* taken and those still held are the ones that came out, in order, and    *)
(* the console bytes are those of the console frames, whatever else came   *)
(* in between and however takes and pushes alternate.                      *)
(***************************************************************************)
Demultiplexed ==
    /\ \A ty \in {Page, Ack} : OfType(handed, ty) \o OfType(held, ty) = OfType(out, ty)
    /\ typed \o console = Typed(out)

(***************************************************************************)
(* Decoder::capturing_noise_capped: "The count is exact whatever the cap   *)
(* is".  Every byte pushed is in the buffer, left in a frame, or counted   *)
(* as noise, and the sample of noise kept stays within its cap.            *)
(***************************************************************************)
EveryByteCounted == /\ Len(pushed) = Len(buf) + consumed + reported + Len(noise) + dropped_noise
                    /\ Len(noise) <= NoiseCap

(***************************************************************************)
(* Nothing that went in is unaccounted for: a byte is in the buffer, in a  *)
(* frame or in the noise count, a frame is taken or held in its place.     *)
(***************************************************************************)
AllAccountedFor == Demultiplexed /\ EveryByteCounted

(***************************************************************************)
(* When everything has been pushed, a whole frame is still inside the      *)
(* decoder only behind a header that announces more bytes than have come:  *)
(* nothing else keeps it back.                                             *)
(***************************************************************************)
HiddenOnlyByAHeader ==
    ~running /\ stream = <<>> /\ out # good =>
      /\ Len(buf) >= HEADER
      /\ Syncs(buf) # {} /\ FirstSync(buf) = 1
      /\ Len(buf) < total
===============================================================================
