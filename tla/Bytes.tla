------------------------------- MODULE Bytes --------------------------------
(***************************************************************************)
(* The containers of src/src/buffers and src/src/collections as operators. *)
(*                                                                         *)
(* A chunk is the sequence of the bytes it shows: its buffer is shared and *)
(* never written again where a chunk shows it.  Bytes are a SingleOrVec of *)
(* chunks.  A reader is a record of the chunks and a cursor (slice, byte)  *)
(* counted from 0; an operation returns [ok, data, r]: whether it          *)
(* succeeded, what it read and the reader after it, which a failure may    *)
(* have moved.  A writer is a record of the same kind.                     *)
(***************************************************************************)
EXTENDS Integers, SequencesExt

Least(a, b) == IF a <= b THEN a ELSE b

\* A loop: what n turns make of its state.  A turn leaves alone what is finished.
Loop(Turn(_), start, n) ==
    LET after[k \in Nat] == IF k = 0 THEN start ELSE Turn(after[k - 1]) IN after[n]

----------------------------------------------------------------------------
(* SingleOrVec: the first push into a vector that never grew makes a Single. *)

EmptyVec == [kind |-> "vec", items |-> <<>>, grown |-> FALSE]
Single(x) == [kind |-> "single", items |-> <<x>>, grown |-> FALSE]
PushItem(sv, x) ==
    IF sv.kind = "vec" /\ ~sv.grown
    THEN Single(x)
    ELSE [kind |-> "vec", items |-> Append(sv.items, x), grown |-> TRUE]
Truncate(sv, n) ==
    IF sv.kind = "vec" THEN [sv EXCEPT !.items = SubSeq(@, 1, Least(n, Len(@)))]
    ELSE IF n = 0 THEN EmptyVec ELSE sv

\* IntoIter: the items before the last, then the last.
IntoIter(sv) ==
    IF sv.kind = "single" \/ sv.items = <<>>
    THEN [drain |-> <<>>, last |-> sv.items]
    ELSE [drain |-> Front(sv.items), last |-> <<Last(sv.items)>>]
Items(sv) == IntoIter(sv).drain \o IntoIter(sv).last

----------------------------------------------------------------------------
(* Chunk and Bytes *)

\* Chunk::view: from start on, up to end.
HasView(c, start, end) == start <= end /\ end <= Len(c)
ChunkView(c, start, end) == SubSeq(c, start + 1, end)

NoBytes == EmptyVec
PushChunk(b, c) == IF c = <<>> THEN b ELSE PushItem(b, c)
Cleared(b) == Truncate(b, 0)
Extend(b, more) ==
    LET cs == Items(more)
        after[k \in Nat] == IF k = 0 THEN b ELSE PushChunk(after[k - 1], cs[k]) IN
    after[Len(cs)]
Content(b) == FlattenSeq(b.items)
LenOf(b) == Len(Content(b))

\* PartialEq: slices are compared piece by piece; of two equal contents an empty
\* chunk makes a difference.
After(q, n) ==
    IF n = Len(q[1]) THEN Tail(q) ELSE [q EXCEPT ![1] = SubSeq(@, n + 1, Len(@))]
EqualTurn(e) ==
    IF ~e.same \/ e.s = <<>> \/ e.t = <<>> THEN e
    ELSE LET n == Least(Len(e.s[1]), Len(e.t[1])) IN
         [s |-> After(e.s, n), t |-> After(e.t, n),
          same |-> SubSeq(e.s[1], 1, n) = SubSeq(e.t[1], 1, n)]
EqualSlices(s, t) ==
    LET end == Loop(EqualTurn, [s |-> s, t |-> t, same |-> TRUE], Len(s) + Len(t)) IN
    end.same /\ end.s = <<>> /\ end.t = <<>>
EqualBytes(b, c) == EqualSlices(b.items, c.items)

----------------------------------------------------------------------------
(* BytesReader *)

Reader(b) == [chunks |-> b.items, slice |-> 0, byte |-> 0]
AtChunk(r) == r.slice < Len(r.chunks)
ChunkOf(r) == r.chunks[r.slice + 1]
RestOf(r) == SubSeq(ChunkOf(r), r.byte + 1, Len(ChunkOf(r)))
Remaining(r) == Len(FlattenSeq(SubSeq(r.chunks, r.slice + 1, Len(r.chunks)))) - r.byte
Offset(r) == Len(FlattenSeq(SubSeq(r.chunks, 1, r.slice))) + r.byte

Ok(data, r) == [ok |-> TRUE, data |-> data, r |-> r]
Fail(r) == [ok |-> FALSE, data |-> <<>>, r |-> r]

\* The cursor moves k bytes within its chunk, and on to the next chunk at its end.
Advance(r, k) ==
    IF r.byte + k = Len(ChunkOf(r))
    THEN [r EXCEPT !.slice = @ + 1, !.byte = 0]
    ELSE [r EXCEPT !.byte = @ + k]

\* read: as many as there are, at most n; nothing is a failure.
ReadTurn(s) ==
    IF ~s.on \/ ~AtChunk(s.r) THEN s
    ELSE LET k == Least(s.n, Len(RestOf(s.r))) IN
         [r |-> Advance(s.r, k), n |-> s.n - k, on |-> s.n # k,
          data |-> s.data \o SubSeq(RestOf(s.r), 1, k)]
Read(r, n) ==
    LET start == [r |-> r, n |-> n, on |-> TRUE, data |-> <<>>]
        end == Loop(ReadTurn, start, Len(r.chunks)) IN
    IF end.data = <<>> THEN Fail(end.r) ELSE Ok(end.data, end.r)
ReadExact(r, n) ==
    LET a == Read(r, n) IN IF a.ok /\ Len(a.data) = n THEN a ELSE Fail(a.r)
ReadU8(r) ==
    IF AtChunk(r) /\ r.byte < Len(ChunkOf(r))
    THEN Ok(<<RestOf(r)[1]>>, Advance(r, 1))
    ELSE Fail(r)

\* read_chunks gives views of the chunks, collected here in Bytes (BytesSliceIterator).
ViewsTurn(s) ==
    IF s.n = 0 THEN s
    ELSE LET k == Least(s.n, Len(RestOf(s.r))) IN
         [r |-> Advance(s.r, k), n |-> s.n - k,
          data |-> PushChunk(s.data, ChunkView(ChunkOf(s.r), s.r.byte, s.r.byte + k))]
ReadChunks(r, n) ==
    IF Remaining(r) < n THEN [Fail(r) EXCEPT !.data = NoBytes]
    ELSE LET end == Loop(ViewsTurn, [r |-> r, n |-> n, data |-> NoBytes], Len(r.chunks)) IN
         Ok(end.data, end.r)

\* read_chunk copies when the bytes are not in one chunk.
ReadChunk(r, n) ==
    IF ~AtChunk(r) THEN Fail(r)
    ELSE IF ~HasView(ChunkOf(r), r.byte, r.byte + n) THEN ReadExact(r, n)
    ELSE Ok(ChunkView(ChunkOf(r), r.byte, r.byte + n), Advance(r, n))

\* Mutant: the cursor moves before the view is known to exist.
ReadContiguous_Moves(r, n) ==
    IF ~AtChunk(r) THEN Fail(r)
    ELSE IF Len(RestOf(r)) < n THEN Fail(Advance(r, Len(RestOf(r))))
    ELSE Ok(SubSeq(RestOf(r), 1, n), Advance(r, n))

\* read_chunk_contiguous gives up without moving the cursor.
ReadContiguous(r, n) ==
    IF AtChunk(r) /\ HasView(ChunkOf(r), r.byte, r.byte + n)
    THEN Ok(ChunkView(ChunkOf(r), r.byte, r.byte + n), Advance(r, n))
    ELSE Fail(r)

\* siphon into a writer that has room for n bytes.
SiphonTurn(s) ==
    IF ~AtChunk(s.r) \/ Least(s.n, Len(RestOf(s.r))) = 0 THEN s
    ELSE LET k == Least(s.n, Len(RestOf(s.r))) IN
         [r |-> Advance(s.r, k), n |-> s.n - k, data |-> s.data \o SubSeq(RestOf(s.r), 1, k)]
Siphon(r, n) ==
    LET end == Loop(SiphonTurn, [r |-> r, n |-> n, data |-> <<>>], Len(r.chunks)) IN
    IF end.data = <<>> THEN Fail(end.r) ELSE Ok(end.data, end.r)

\* skip and backtrack succeed when nothing is left to go.
Moved(end) == IF end.n = 0 THEN Ok(<<>>, end.r) ELSE Fail(end.r)

SkipTurn(s) ==
    IF s.n = 0 \/ ~AtChunk(s.r) THEN s
    ELSE LET k == Least(s.n, Len(RestOf(s.r))) IN [r |-> Advance(s.r, k), n |-> s.n - k]
Skip(r, n) == Moved(Loop(SkipTurn, [r |-> r, n |-> n], Len(r.chunks)))

\* backtrack may leave the cursor at the end of a chunk.
BacktrackTurn(s) ==
    LET k == Least(s.n, s.r.byte) IN
    IF s.n = 0 THEN s
    ELSE [n |-> s.n - k,
          r |-> IF s.r.byte > k THEN [s.r EXCEPT !.byte = @ - k]
                ELSE IF s.r.slice = 0 THEN [s.r EXCEPT !.byte = 0]
                ELSE [s.r EXCEPT !.slice = @ - 1, !.byte = Len(s.r.chunks[s.r.slice])]]
Backtrack(r, n) == Moved(Loop(BacktrackTurn, [r |-> r, n |-> n], r.slice + 1))

\* Mutant: the offset is taken from the start of the chunk.
SeekTo_InChunk(r, pos) ==
    IF pos > r.byte THEN Skip(r, pos - r.byte) ELSE Backtrack(r, r.byte - pos)
\* io::Seek, to a position counted from the start.
SeekTo(r, pos) ==
    IF pos > Offset(r) THEN Skip(r, pos - Offset(r)) ELSE Backtrack(r, Offset(r) - pos)

\* mark and seek of SeekableReader.
Mark(r) == [slice |-> r.slice, byte |-> r.byte]
SeekMark(r, mark) ==
    IF mark.slice < Len(r.chunks) /\ mark.byte <= Len(r.chunks[mark.slice + 1])
    THEN Ok(<<>>, [r EXCEPT !.slice = mark.slice, !.byte = mark.byte])
    ELSE Fail(r)

\* Bytes::view from start on.
ViewFrom(b, start) ==
    LET s == Skip(Reader(b), start) IN
    IF s.ok /\ start <= LenOf(b) THEN ReadChunks(s.r, LenOf(b) - start) ELSE Fail(s.r)

----------------------------------------------------------------------------
(* Writers *)

\* BytesWriter: what was written after the last snapshot is pending.
Writer(b) == [inner |-> b, pending |-> <<>>]
WriteBytes(w, data) == [inner |-> w.inner, pending |-> w.pending \o data]
Flushed(w) == [inner |-> PushChunk(w.inner, w.pending), pending |-> <<>>]
WriteChunk(w, c) == [inner |-> PushChunk(Flushed(w).inner, c), pending |-> <<>>]
Dropped(w) == Flushed(w).inner

\* BoxBuf: a piece is written whole or not at all (write_exact, with_slot), and a
\* writer that fails keeps the pieces before.
Room(buf) == buf.cap - Len(buf.data)
Written(buf, pieces, n) ==
    [cap |-> buf.cap, data |-> buf.data \o FlattenSeq(SubSeq(pieces, 1, n))]
WriteAll(buf, pieces) ==
    LET Fits(n) == Len(Written(buf, pieces, n).data) <= buf.cap
        n == CHOOSE n \in 0..Len(pieces) : Fits(n) /\ (n = Len(pieces) \/ ~Fits(n + 1)) IN
    [ok |-> n = Len(pieces), buf |-> Written(buf, pieces, n)]
RewindTo(buf, mark) == [cap |-> buf.cap, data |-> SubSeq(buf.data, 1, mark)]
=============================================================================
