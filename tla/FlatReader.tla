----------------------------- MODULE FlatReader -----------------------------
(***************************************************************************)
(* What a reader of Bytes promises: the chunks cannot be seen, it reads a  *)
(* flat sequence of bytes at a position.  An operation that finds too few  *)
(* bytes fails; most of them have then moved the position to an end.  An   *)
(* operation may refuse after a step back, or where bytes are not in one   *)
(* piece, and then it moves nothing.                                       *)
(***************************************************************************)
EXTENDS Integers, Sequences

CONSTANT Counts     \* how many bytes are asked for

VARIABLES
    data,           \* what is read
    pos,            \* how many bytes are before the cursor
    back,           \* the reader stepped back and may stumble
    out             \* the last operation and its answer, <<op, ok, bytes>>

vars == <<data, pos, back, out>>

Rest == Len(data) - pos
Ahead(n) == SubSeq(data, pos + 1, pos + n)
Opened == <<"open", TRUE, <<>>>>

Init == data = <<>> /\ pos = 0 /\ back = FALSE /\ out = Opened

Open == pos' = 0 /\ back' = FALSE /\ out' = Opened

Go(op, ok, bytes, p) ==
    /\ out' = <<op, ok, bytes>> /\ pos' = p /\ back' = FALSE
    /\ UNCHANGED data

\* As many as there are, at most n.
Some(op, n) ==
    LET k == IF n <= Rest THEN n ELSE Rest IN Go(op, k > 0, Ahead(k), pos + k)

\* All of n, or none: what there is is consumed in vain, or nothing moves.
All(op, n) == n <= Rest /\ Go(op, TRUE, Ahead(n), pos + n)
Spent(op, n) == n > Rest /\ Go(op, FALSE, <<>>, Len(data))
Refused(op) ==
    /\ out' = <<op, FALSE, <<>>>>
    /\ UNCHANGED <<data, pos, back>>

Read(n) == Some("read", n)
ReadExact(n) == All("exact", n) \/ Spent("exact", n)
ReadU8 == All("u8", 1) \/ ((Rest = 0 \/ back) /\ Refused("u8"))
ReadChunk(n) == All("chunk", n) \/ Spent("chunk", n)
ReadContiguous(n) == All("contiguous", n) \/ Refused("contiguous")
ReadChunks(n) == All("chunks", n) \/ (n > Rest /\ Refused("chunks"))
Siphon(n) == Some("siphon", n) \/ (back /\ Refused("siphon"))

Skip(n) ==
    \/ n <= Rest /\ Go("skip", TRUE, <<>>, pos + n)
    \/ Spent("skip", n)
Backtrack(n) ==
    /\ out' = <<"backtrack", n <= pos, <<>>>>
    /\ pos' = IF n <= pos THEN pos - n ELSE 0
    /\ back' \in BOOLEAN
    /\ UNCHANGED data
Seek(n) ==
    \/ n >= pos /\ n <= Len(data) /\ Go("seek", TRUE, <<>>, n)
    \/ n > Len(data) /\ Go("seek", FALSE, <<>>, Len(data))
    \/ n <= pos /\ out' = <<"seek", TRUE, <<>>>> /\ pos' = n /\ back' \in BOOLEAN /\ UNCHANGED data

Next ==
    \/ Open \/ ReadU8
    \/ \E n \in Counts :
        Read(n) \/ ReadExact(n) \/ ReadChunk(n) \/ ReadContiguous(n) \/ ReadChunks(n)
            \/ Siphon(n) \/ Skip(n) \/ Backtrack(n) \/ Seek(n)
Spec == Init /\ [][Next]_vars
=============================================================================
