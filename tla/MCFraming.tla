------------------------------- MODULE MCFraming -------------------------------
(* Framing for TLC, with a reference decoder that sees the stream at once. *)
EXTENDS Framing

MCPayloads == {<<>>, <<LO, HI>>}

Rest(b, n) == SubSeq(b, n + 1, Len(b))

(***************************************************************************)
(* What a stream decodes to when it is there from the beginning: the       *)
(* frames found by trying every SYNC in turn, and the bytes left over.     *)
(***************************************************************************)
RECURSIVE Reference(_, _)
Reference(b, frames) ==
    IF Syncs(b) = {}
    THEN [frames |-> frames, left |-> IF b # <<>> /\ Last(b).v = LO THEN 1 ELSE 0]
    ELSE IF FirstSync(b) > 1 THEN Reference(Rest(b, FirstSync(b) - 1), frames)
    ELSE IF Len(b) < HEADER THEN [frames |-> frames, left |-> Len(b)]
    ELSE LET n == b[HEADER].v
             t == HEADER + n + TRAILER
         IN  IF n > MAX_PAYLOAD THEN Reference(Rest(b, 2), frames)
             ELSE IF Len(b) < t THEN [frames |-> frames, left |-> Len(b)]
             ELSE IF \A i \in 3 .. t : b[i].f # 0 /\ b[i].f = b[3].f /\ b[i].i = i
             THEN Reference(Rest(b, t),
                            IF b[3].v = Unknown THEN frames ELSE Append(frames, b[3].f))
             ELSE Reference(Rest(b, 2), frames)

(***************************************************************************)
(* How the stream was cut into reads makes no difference: between pushes,  *)
(* what has come out and what is left is what the same bytes give when     *)
(* they arrive at once.                                                    *)
(***************************************************************************)
CutsDoNotMatter ==
    ~running => LET ref == Reference(pushed, <<>>)
                IN  /\ [i \in 1 .. Len(out) |-> out[i].f] = ref.frames
                    /\ Len(buf) = ref.left
===============================================================================
