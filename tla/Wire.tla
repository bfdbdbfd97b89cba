-------------------------------- MODULE Wire --------------------------------
(***************************************************************************)
(* What a message becomes on its way: the chunks the application puts in   *)
(* it, the frames and fragments that the push of src/src/pipeline/tx.rs    *)
(* makes of them, the bytes on the wire, the batches that push of          *)
(* src/src/pipeline/rx.rs puts together, the Bytes that recv returns and   *)
(* what a reader gets out of them.                                         *)
(*                                                                         *)
(* One lane, in which pushes exclude each other; the lanes, the waiting    *)
(* for buffers, loss and congestion are in TxPipeline and RxPipeline.  The *)
(* wire carries numbers: the length of a batch, then its bytes.  Payload   *)
(* bytes are larger than any byte of a header, a decoder that is off by    *)
(* one cannot miss it.                                                     *)
(***************************************************************************)
EXTENDS Codec, FiniteSets

CONSTANTS
    BatchSizes,     \* batch_size, each
    LenMax,         \* the largest length on the wire (BatchSize::MAX)
    FragMax,        \* max_frag_size, in bytes
    Starts,         \* sequence numbers after which the model starts
    Plans,          \* how a message is composed: sequences of <<op, length>>
    Qos,            \* settings of a message, records [prio, cc, express]
    Quotas,         \* messages to send and operations to read with, [sends, reads]
    Counts,         \* arguments of the reading operations
    WireMax         \* bytes in flight before the sender waits

Ccs == {"block", "drop"}

ASSUME WireAssumption ==
    /\ BatchSizes \subseteq 0..LenMax /\ LenMax \in Nat /\ FragMax \in Nat
    /\ Starts \subseteq SeqNums /\ WireMax \in Nat
    /\ Plans \subseteq Seq({"write", "chunk"} \X Nat)
    /\ Counts \subseteq Nat \ {0}
    /\ Qos \subseteq [prio : 0..3, cc : Ccs, express : BOOLEAN]
    /\ Quotas \subseteq [sends : Nat, reads : Nat]

VARIABLES
    batchSize, quota,       \* chosen once
    \* the sender
    enc,        \* the push under way: pc, msg, qos, reader, sn, fragid
    booked,     \* the batch being filled, a sequence of length 0 or 1
    sns,        \* SeqNumPool
    wire,
    \* the receiver
    alive,      \* the reader task has not ended
    defrag,     \* DefragBuffer per congestion control
    inbox,      \* the lane of the ring: [bytes, cc, pos]
    app,        \* the application's reader of a received message
    \* history
    sent,       \* messages that a push accepted, [content, cc, fragmented]
    got,        \* what recv returned, [bytes, cc]
    spoiled,    \* a push failed and left what it had written
    seen        \* per congestion control: last sequence number received

senderVars == <<enc, booked, sns, sent, spoiled, quota>>
receiverVars == <<alive, defrag, inbox, seen>>
vars == <<batchSize, senderVars, wire, receiverVars, app, got>>

Idle == [pc |-> "idle"]
Zero == [slice |-> 0, byte |-> 0]
Unread == [k |-> 0, r |-> Reader(NoBytes), out |-> <<"open", TRUE, <<>>>>]

Init ==
    /\ batchSize \in BatchSizes /\ quota \in Quotas
    /\ enc = Idle /\ booked = <<>> /\ wire = <<>>
    /\ sns \in {[block |-> n, drop |-> n, fragid |-> n] : n \in Starts}
    /\ alive = TRUE /\ inbox = <<>> /\ app = Unread
    /\ defrag = [cc \in Ccs |-> [sn |-> 0, fragid |-> 0, buffer |-> NoBytes]]
    /\ sent = <<>> /\ got = <<>> /\ spoiled = FALSE
    /\ seen = [cc \in Ccs |-> sns[cc]]

----------------------------------------------------------------------------
(* The application composes a message and sends it *)

\* A writer of Bytes: bytes are written, or a chunk of the application's is appended.
Put(s, op) ==
    LET data == [i \in 1..op[2] |-> s.next + i] IN
    [w |-> IF op[1] = "write" THEN WriteBytes(s.w, data) ELSE WriteChunk(s.w, data),
     next |-> s.next + op[2]]
Composed(plan, first) ==
    LET after[k \in 0..Len(plan)] ==
            IF k = 0 THEN [w |-> Writer(NoBytes), next |-> first]
            ELSE Put(after[k - 1], plan[k]) IN
    Dropped(after[Len(plan)].w)
\* Payload bytes name their message and their place in it.
Message(plan) == Composed(plan, 100 * quota.sends)

Send(plan, qos) ==
    /\ enc = Idle /\ quota.sends > 0 /\ Len(wire) <= WireMax
    /\ enc' = [pc |-> "append", msg |-> Message(plan), qos |-> qos]
    /\ quota' = [quota EXCEPT !.sends = @ - 1]
    /\ UNCHANGED <<batchSize, booked, sns, sent, spoiled, wire, receiverVars, app, got>>

----------------------------------------------------------------------------
(* StageInPrio::push: steps 1 to 3 *)

NewBatch(cc) == [buf |-> [cap |-> batchSize, data |-> <<>>], fragment |-> NoBytes, cc |-> cc]

\* batch_or_return: the booked batch, or one that is booked now.
TheBatch(cc) == IF booked = <<>> THEN NewBatch(cc) ELSE booked[1]

\* WriteBatch::len, a 16-bit number, and what the writer task puts on the wire: the
\* length, the frame, the fragment.
BatchLen(b) == (Len(b.buf.data) + LenOf(b.fragment)) % (LenMax + 1)
OnWire(b) == <<BatchLen(b)>> \o b.buf.data \o Content(b.fragment)
Commit(b) == wire' = wire \o OnWire(b) /\ booked' = <<>>

\* return_notify: the batch is sent at once, or left for more messages.
Done(b, flush) ==
    /\ IF enc.qos.express \/ flush THEN Commit(b) ELSE booked' = <<b>> /\ UNCHANGED wire
    /\ enc' = Idle

\* The batch of a fragment: its header in the buffer, views of the message behind it.
Filled(b, buf, views) == [buf |-> buf, fragment |-> Extend(b.fragment, views), cc |-> b.cc]

QosOfEnc == QosByte(enc.qos.prio, enc.qos.cc, enc.qos.express)
Accepted(fragmented) ==
    sent' = Append(sent, [content |-> Content(enc.msg), cc |-> enc.qos.cc,
                          fragmented |-> fragmented])

\* Mutant: a write that did not fit is left in the batch.
Rewound_Kept(b, w) == [b EXCEPT !.buf = w]
\* The batch b after the write to it failed and was rewound; w is the buffer before that.
Rewound(b, w) == [b EXCEPT !.buf = RewindTo(w, Len(b.buf.data))]

\* Step 1: append to the booked frame if it has the same congestion control.
Append1(flush) ==
    /\ enc.pc = "append"
    /\ LET b == TheBatch(enc.qos.cc)
           w == WriteAll(b.buf, BytesPieces(enc.msg))
           same == b.cc = enc.qos.cc IN
       IF BatchLen(b) # 0
       THEN IF same /\ w.ok
            THEN Done([b EXCEPT !.buf = w.buf], flush) /\ Accepted(FALSE)
            ELSE /\ Commit(IF same THEN Rewound(b, w.buf) ELSE b)
                 /\ enc' = [enc EXCEPT !.pc = "fresh"]
                 /\ UNCHANGED sent
       ELSE /\ enc' = [enc EXCEPT !.pc = "fresh"]
            /\ UNCHANGED <<booked, wire, sent>>
    /\ UNCHANGED <<batchSize, quota, sns, spoiled, receiverVars, app, got>>

\* Mutant: the number of a frame is not taken.
UseSn_Forgotten(sn, fragid) == sns' = [sns EXCEPT !.fragid = fragid]
UseSn(sn, fragid) == sns' = [sns EXCEPT ![enc.qos.cc] = sn, !.fragid = fragid]

\* Step 2: a frame of its own.
Frame(b, sn) ==
    WriteAll(b.buf, HeaderPieces(QosOfEnc, sn, "frame", 0) \o BytesPieces(enc.msg))

WriteFrame(flush) ==
    /\ enc.pc = "fresh"
    /\ LET b == TheBatch(enc.qos.cc)
           sn == Next_Sn(sns[enc.qos.cc])
           w == Frame(b, sn) IN
       /\ w.ok
       /\ UseSn(sn, sns.fragid)
       /\ Done([b EXCEPT !.buf = w.buf], flush)
       /\ Accepted(FALSE)
    /\ UNCHANGED <<batchSize, quota, spoiled, receiverVars, app, got>>

\* The push failed: what it wrote last stays in the booked batch.
EncodingFailed(b) ==
    /\ booked' = <<b>> /\ enc' = Idle /\ spoiled' = TRUE
    /\ UNCHANGED <<wire, sent>>

\* Mutant: every fragment begins with the message.
Continue_Restarted(r, sn, fragid) ==
    /\ enc' = [pc |-> "more", msg |-> enc.msg, qos |-> enc.qos,
               r |-> Reader(enc.msg), sn |-> Next_Sn(sn), fragid |-> fragid]
    /\ UNCHANGED <<sent, spoiled>>
\* What was read so far is in fragments: the rest follows, or the push returns.
Continue(r, sn, fragid) ==
    /\ IF Remaining(r) > 0
       THEN /\ enc' = [pc |-> "more", msg |-> enc.msg, qos |-> enc.qos,
                       r |-> r, sn |-> Next_Sn(sn), fragid |-> fragid]
            /\ UNCHANGED sent
       ELSE enc' = Idle /\ Accepted(TRUE)
    /\ UNCHANGED spoiled

\* Step 3: the first fragment, with the length of the message and what fits of it.
WriteFirst ==
    /\ enc.pc = "fresh"
    /\ LET e == TheBatch(enc.qos.cc)
           sn == Next_Sn(sns[enc.qos.cc])
           fragid == Next_Sn(sns.fragid)
           b == Rewound(e, Frame(e, sn).buf)
           w == WriteAll(b.buf, HeaderPieces(QosOfEnc, sn, "first", fragid)
                                \o <<VleBytes(LenOf(enc.msg))>>)
           views == ReadChunks(Reader(enc.msg), Room(w.buf))
           f == Filled(b, w.buf, views.data) IN
       /\ ~Frame(e, sn).ok
       /\ IF w.ok /\ views.ok
          THEN Commit(f) /\ UseSn(sn, fragid) /\ Continue(views.r, sn, fragid)
          ELSE /\ EncodingFailed([b EXCEPT !.buf = w.buf])
               /\ sns' = [sns EXCEPT !.fragid = fragid]
    /\ UNCHANGED <<batchSize, quota, receiverVars, app, got>>

\* Mutant: the room of a fragment is computed for the header of a frame.
FragmentRoom_Frame(b) == Room(b.buf) - HeaderLen(enc.sn, "frame", enc.fragid)
\* The room for data; a smaller one than the header's would wrap, as usize does.
FragmentRoom(b) == (Room(b.buf) - HeaderLen(enc.sn, "more", enc.fragid)) % 65536

\* The next fragment, the last one if the rest fits.
WriteNext ==
    /\ enc.pc = "more" /\ Len(wire) <= WireMax
    /\ LET b == TheBatch(enc.qos.cc)
           room == FragmentRoom(b)
           rest == Remaining(enc.r)
           kind == IF room >= rest THEN "last" ELSE "more"
           w == WriteAll(b.buf, HeaderPieces(QosOfEnc, enc.sn, kind, enc.fragid))
           views == ReadChunks(enc.r, Least(rest, room)) IN
       IF w.ok /\ views.ok
       THEN /\ Commit(Filled(b, w.buf, views.data))
            /\ UseSn(enc.sn, enc.fragid)
            /\ Continue(views.r, enc.sn, enc.fragid)
       ELSE EncodingFailed([b EXCEPT !.buf = w.buf]) /\ UNCHANGED sns
    /\ UNCHANGED <<batchSize, quota, receiverVars, app, got>>

\* The writer task finds nothing else to send and flushes, the lane being free.
Flush ==
    /\ enc = Idle /\ booked # <<>>
    /\ Commit(booked[1])
    /\ UNCHANGED <<batchSize, quota, enc, sns, sent, spoiled, receiverVars, app, got>>

----------------------------------------------------------------------------
(* read_task and PipelineRxIn::push *)

Box(bytes, cc, pos) == inbox' = Append(inbox, [bytes |-> bytes, cc |-> cc, pos |-> pos])

\* DefragBuffer::extend accepts a fragment.
Extends(d, h, view) ==
    /\ d.sn = h.sn /\ d.fragid = h.fid
    /\ LenOf(d.buffer) + LenOf(view) <= FragMax

ReceiveFragment(bytes, h) ==
    LET cc == h.qos.cc
        old == defrag[cc]
        d == IF h.body # "first" THEN old
             ELSE [sn |-> h.sn, fragid |-> h.fid, buffer |-> Cleared(old.buffer)]
        view == ViewFrom(bytes, LenOf(bytes) - Remaining(h.r)).data
        longer == Extend(d.buffer, view) IN
    IF ~Extends(d, h, view)
    THEN /\ defrag' = [defrag EXCEPT ![cc] =
                IF h.body = "more" THEN [d EXCEPT !.buffer = Cleared(@)] ELSE d]
         /\ UNCHANGED inbox
    ELSE /\ defrag' = [defrag EXCEPT ![cc] =
                [d EXCEPT !.sn = Next_Sn(d.sn),
                          !.buffer = IF h.body = "last" THEN NoBytes ELSE longer]]
         /\ IF h.body = "last" THEN Box(longer, cc, Zero) ELSE UNCHANGED inbox

Receive ==
    /\ alive /\ wire # <<>> /\ wire[1] < Len(wire)
    /\ wire' = SubSeq(wire, wire[1] + 2, Len(wire))
    /\ LET bytes == Single(SubSeq(wire, 2, wire[1] + 1))
           h == ReadHeader(Reader(bytes)) IN
       IF wire[1] = 0 THEN UNCHANGED receiverVars
       ELSE IF ~h.ok THEN alive' = FALSE /\ UNCHANGED <<defrag, inbox, seen>>
       ELSE /\ seen' = [seen EXCEPT ![h.qos.cc] = h.sn]
            /\ IF h.body = "frame"
               THEN Box(bytes, h.qos.cc, Mark(h.r)) /\ UNCHANGED defrag
               ELSE ReceiveFragment(bytes, h)
            /\ UNCHANGED alive
    /\ UNCHANGED <<batchSize, senderVars, app, got>>

----------------------------------------------------------------------------
(* PipelineRxOut::try_pull *)

\* Mutant: the position in the batch is not kept.
Kept_Start(r) == Zero
\* The position kept in a batch between two calls.
Kept(r) == Mark(r)

Decoded(b) ==
    LET s == SeekMark(Reader(b.bytes), b.pos) IN IF s.ok THEN ReadBytes(s.r) ELSE s

Pull ==
    /\ inbox # <<>>
    /\ LET b == inbox[1]
           m == Decoded(b) IN
       IF m.ok
       THEN /\ got' = Append(got, [bytes |-> m.data, cc |-> b.cc])
            /\ inbox' = [inbox EXCEPT ![1].pos = Kept(m.r)]
       ELSE /\ inbox' = Tail(inbox)
            /\ UNCHANGED got
    /\ UNCHANGED <<batchSize, senderVars, wire, alive, defrag, seen, app>>

----------------------------------------------------------------------------
(* The application reads a message.  When it does so makes no difference: it waits *)
(* until nothing else is left to do.                                               *)

Quiet == enc = Idle /\ quota.sends = 0 /\ booked = <<>> /\ wire = <<>> /\ inbox = <<>>

OpenReader ==
    /\ Quiet /\ quota.reads > 0 /\ app.k = 0
    /\ \E k \in DOMAIN got : app' = [k |-> k, r |-> Reader(got[k].bytes), out |-> app.out]
    /\ UNCHANGED <<batchSize, senderVars, wire, receiverVars, got>>

\* One operation: a is what it gives.
Answer(op, a, bytes) ==
    app' = [app EXCEPT !.r = a.r, !.out = <<op, a.ok, IF a.ok THEN bytes ELSE <<>>>>]

Operation(n) ==
    LET r == app.r
        Gives(op, a) == Answer(op, a, a.data) IN
    \/ Gives("read", Read(r, n))
    \/ Gives("exact", ReadExact(r, n))
    \/ Gives("u8", ReadU8(r))
    \/ Gives("chunk", ReadChunk(r, n))
    \/ Gives("contiguous", ReadContiguous(r, n))
    \/ Answer("chunks", ReadChunks(r, n), Content(ReadChunks(r, n).data))
    \/ Gives("siphon", Siphon(r, n))
    \/ Gives("skip", Skip(r, n))
    \/ Gives("seek", SeekTo(r, n))
    \/ Gives("backtrack", Backtrack(r, n))

ReadOn ==
    /\ app.k # 0 /\ quota.reads > 0
    /\ \E n \in Counts : Operation(n)
    /\ quota' = [quota EXCEPT !.reads = @ - 1]
    /\ UNCHANGED <<batchSize, enc, booked, sns, sent, spoiled, wire, receiverVars, got>>

----------------------------------------------------------------------------
SendStep ==
    \/ \E flush \in BOOLEAN : Append1(flush) \/ WriteFrame(flush)
    \/ WriteFirst \/ WriteNext \/ Flush

Next ==
    \/ \E plan \in Plans, qos \in Qos : Send(plan, qos)
    \/ SendStep \/ Receive \/ Pull
    \/ OpenReader \/ ReadOn

\* A push that has its buffer goes on, and so do the writer task, the reader task and
\* a receiving application: weak fairness, with the enabling conditions spelled out.
SenderReady ==
    \/ enc.pc \in {"append", "fresh"}
    \/ enc.pc = "more" /\ Len(wire) <= WireMax
    \/ enc = Idle /\ booked # <<>>
Arrived == alive /\ wire # <<>> /\ wire[1] < Len(wire)
Fairness ==
    /\ []<>~SenderReady \/ []<><<SendStep>>_vars
    /\ []<>~Arrived \/ []<><<Receive>>_vars
    /\ []<>(inbox = <<>>) \/ []<><<Pull>>_vars
Spec == Init /\ [][Next]_vars /\ Fairness
=============================================================================
