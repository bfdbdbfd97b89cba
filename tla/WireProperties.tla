--------------------------- MODULE WireProperties ---------------------------
(* What the representation of messages guarantees, stated over Wire. *)
EXTENDS Wire

Contents(s) == [i \in DOMAIN s |-> [content |-> Content(s[i].bytes), cc |-> s[i].cc]]

\* Accepted messages that the receiver is ready to put together.
Arriving(m) ==
    IF m.fragmented /\ VleLen(Len(m.content)) + Len(m.content) > FragMax THEN <<>>
    ELSE <<[content |-> m.content, cc |-> m.cc]>>
Arrivals(s) == FlattenSeq([i \in DOMAIN s |-> Arriving(s[i])])
Deliverable == Arrivals(sent)

\* The elements of t at the places of the set s.
AtPlaces(t, s) ==
    [i \in 1..Cardinality(s) |-> t[CHOOSE k \in s : Cardinality({j \in s : j < k}) = i - 1]]

TypeOK ==
    /\ quota \in [sends : Nat, reads : Nat]
    /\ enc.pc \in {"idle", "append", "fresh", "more"}
    /\ Len(booked) <= 1 /\ \A i \in DOMAIN booked : booked[i].cc \in Ccs
    /\ DOMAIN sns = Ccs \cup {"fragid"} /\ \A g \in DOMAIN sns : sns[g] \in SeqNums
    /\ alive \in BOOLEAN /\ spoiled \in BOOLEAN
    /\ \A cc \in Ccs : defrag[cc].sn \in SeqNums /\ defrag[cc].fragid \in SeqNums
    /\ \A i \in DOMAIN inbox : inbox[i].pos.slice <= Len(inbox[i].bytes.items)
    /\ seen \in [Ccs -> SeqNums]

\* recv returns the content that was sent, in the order in which it was sent: the
\* bytes of a message survive frames, fragments of any size, the views that a
\* fragment takes across chunks, and the position kept in a batch.  After a failed
\* push, whose half-written batch is sent with what follows, messages may be lost,
\* but none is altered or overtaken (push of tx.rs, push and try_pull of rx.rs).
DeliveredAsSent ==
    IF spoiled
    THEN \E s \in SUBSET DOMAIN Deliverable : Contents(got) = AtPlaces(Deliverable, s)
    ELSE /\ IsPrefix(Contents(got), Deliverable)
         /\ Quiet => Contents(got) = Deliverable

\* The batch at the head of the wire.
First == Single(SubSeq(wire, 2, wire[1] + 1))

\* A batch is never longer than batch_size, and the length that announces it is its
\* own; every fragment but the first carries data (FragmentHeader w_len, read_chunks).
BatchFits ==
    alive /\ wire # <<>> =>
        /\ wire[1] <= batchSize /\ wire[1] < Len(wire)
        /\ LET h == ReadHeader(Reader(First)) IN
           h.ok /\ h.body \in {"more", "last"} => Remaining(h.r) > 0

\* What a sender writes, a receiver decodes: a batch is refused only after a push
\* failed half-way, and a push fails only if the longest header of a fragment and the
\* length of a message do not fit (read_task ends with DecodingFailed, EncodingFailed).
LongestHead(plan) ==
    HeaderLen(Modulus - 1, "first", Modulus - 1) + VleLen(LenOf(Composed(plan, 0)))
EverythingDecodes ==
    /\ ~spoiled => alive
    /\ spoiled => \E plan \in Plans : batchSize < LongestHead(plan)

\* The ways to decode a payload give the same bytes and leave the reader at the same
\* place, whether the bytes are in one chunk or in several (codec/core).
DecodersAgree ==
    inbox # <<>> =>
        LET s == SeekMark(Reader(inbox[1].bytes), inbox[1].pos)
            bytes == ReadBytes(s.r)
            Same(a) ==
                /\ a.ok /\ a.data = Content(bytes.data) /\ a.r = bytes.r
                /\ a.data # <<>> => EqualBytes(Single(a.data), bytes.data) IN
        s.ok => IF bytes.ok
                THEN Same(ReadVec(s.r)) /\ (bytes.data = NoBytes \/ Same(ReadChunkField(s.r)))
                ELSE ~ReadVec(s.r).ok

\* The sequence numbers of one congestion control go up by one from batch to batch,
\* also where they wrap, and the order of SeqNum sees it (SeqNumPool, SeqNum::cmp).
InSequence ==
    [][Len(wire') < Len(wire) /\ wire[1] # 0 /\ ~spoiled =>
        LET h == ReadHeader(Reader(First))
            last == seen[h.qos.cc] IN
        h.sn = Next_Sn(last) /\ Cmp(last, h.sn) = "less"]_vars

\* A reader of a received message cannot tell its chunks.
Stumbles == AtChunk(app.r) /\ app.r.byte = Len(ChunkOf(app.r))
Flat == INSTANCE FlatReader WITH
    data <- FlattenSeq(app.r.chunks), pos <- Offset(app.r), back <- Stumbles, out <- app.out
ReadsFlat == Flat!Spec

\* A push ends: every turn of its loop sends some of the message.
SendEnds == (enc # Idle) ~> (enc = Idle \/ ~alive)
=============================================================================
