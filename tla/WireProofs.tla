----------------------------- MODULE WireProofs -----------------------------
(***************************************************************************)
(* Theorems about the representation of messages, for any plans, batch     *)
(* sizes and scale of the integers: what the state holds, how payloads are *)
(* decoded, that a reader of chunks implements a flat reader, and that     *)
(* what a sender writes arrives whole and in sequence.                     *)
(***************************************************************************)
EXTENDS WireProperties, CodecProofs

----------------------------------------------------------------------------
(* A message, as the application composes it *)

Writers == [inner : Vecs, pending : Seq(Nat)]
Ops == {"write", "chunk"} \X Nat

LEMMA PutIs ==
    ASSUME NEW s \in [w : Writers, next : Nat], NEW op \in Ops
    PROVE  Put(s, op) \in [w : Writers, next : Nat]
<1> DEFINE data == [i \in 1..op[2] |-> s.next + i]
           f == Flushed(s.w)
<1>1. op[2] \in Nat /\ s.next \in Nat /\ s.w \in Writers
  BY DEF Ops
<1>2. data \in Seq(Nat)
  BY <1>1
<1> HIDE DEF data
<1>3. s.w.inner \in Vecs /\ s.w.pending \in Seq(Nat)
  BY <1>1 DEF Writers
<1>4. f.inner \in Vecs
  BY <1>3, PushIs DEF Flushed
<1>5. WriteBytes(s.w, data) \in Writers
  <2>1. s.w.pending \o data \in Seq(Nat)
    BY <1>2, <1>3, ConcatProperties
  <2> QED
    BY <1>3, <2>1 DEF WriteBytes, Writers
<1>6. WriteChunk(s.w, data) \in Writers
  <2>1. PushChunk(f.inner, data) \in Vecs /\ <<>> \in Seq(Nat)
    BY <1>2, <1>4, PushIs
  <2> QED
    BY <2>1 DEF WriteChunk, Writers
<1>7. s.next + op[2] \in Nat
  BY <1>1
<1>8. Put(s, op) = [w |-> IF op[1] = "write" THEN WriteBytes(s.w, data) ELSE WriteChunk(s.w, data),
                    next |-> s.next + op[2]]
  BY DEF Put, data
<1> QED
  BY <1>5, <1>6, <1>7, <1>8

\* The writer of a message after each of its operations.
Composing(f, plan, first) ==
    /\ f \in [Nat -> [w : Writers, next : Nat]]
    /\ f[0] = [w |-> Writer(NoBytes), next |-> first]
    /\ \A k \in Nat : k + 1 \in 1..Len(plan) => f[k + 1] = Put(f[k], plan[k + 1])
    /\ Composed(plan, first) = Dropped(f[Len(plan)].w)

LEMMA ComposedRun ==
    ASSUME NEW plan \in Seq(Ops), NEW first \in Nat
    PROVE  \E f : Composing(f, plan, first)
<1> DEFINE n == Len(plan)
           S == [w : Writers, next : Nat]
           start == [w |-> Writer(NoBytes), next |-> first]
           after[k \in 0..n] == IF k = 0 THEN start ELSE Put(after[k - 1], plan[k])
           G == [k \in Nat |-> [s \in S |-> IF k + 1 \in 1..n THEN Put(s, plan[k + 1]) ELSE s]]
<1>1. n \in Nat /\ \A k \in 1..n : plan[k] \in Ops
  BY LenProperties, ElementOfSeq
<1>2. start \in S
  <2>1. Writer(NoBytes) \in Writers
    BY NoBytesIs DEF Writer, Writers
  <2> QED
    BY <2>1
<1>3. \A s \in S, k \in 1..n : Put(s, plan[k]) \in S
  BY <1>1, PutIs
<1>10. Composed(plan, first) = Dropped(after[n].w)
  BY DEF Composed
<1> HIDE DEF S, start
<1>4. /\ G \in [Nat -> [S -> S]]
      /\ \A k \in Nat : \A s \in S : G[k][s] = IF k + 1 \in 1..n THEN Put(s, plan[k + 1]) ELSE s
  BY <1>3
<1> HIDE DEF G
<1>5. PICK f : Chain(f, S, start, G)
  BY <1>2, <1>4, ChainExists, Zenon
<1>6. /\ f \in [Nat -> S] /\ f[0] = start
      /\ \A k \in Nat : k + 1 \in 1..n => f[k + 1] = Put(f[k], plan[k + 1])
  BY <1>4, <1>5 DEF Chain
<1> DEFINE g == [k \in 0..n |-> f[k]]
<1>7. ASSUME NEW k \in 0..n PROVE g[k] = IF k = 0 THEN start ELSE Put(g[k - 1], plan[k])
  <2>1. k # 0 => k - 1 \in Nat /\ k - 1 \in 0..n /\ (k - 1) + 1 = k /\ k \in 1..n
    BY <1>1
  <2> QED
    BY <1>6, <2>1
<1>8. g = [k \in 0..n |-> IF k = 0 THEN start ELSE Put(g[k - 1], plan[k])]
  BY <1>7
<1> HIDE DEF g
<1>9. after = [k \in 0..n |-> IF k = 0 THEN start ELSE Put(after[k - 1], plan[k])]
  BY <1>8
<1> HIDE DEF after
<1> DEFINE T == {k \in Nat : k <= n => after[k] = f[k]}
<1>11. 0 \in T
  BY <1>1, <1>6, <1>9
<1>12. ASSUME NEW k \in Nat, k \in T PROVE k + 1 \in T
  <2> SUFFICES ASSUME k + 1 <= n PROVE after[k + 1] = f[k + 1]
    OBVIOUS
  <2>1. k <= n /\ k + 1 \in 0..n /\ k + 1 \in 1..n /\ k + 1 # 0 /\ (k + 1) - 1 = k
    BY <1>1
  <2>2. after[k + 1] = Put(after[k], plan[k + 1]) /\ after[k] = f[k]
    BY <1>9, <1>12, <2>1
  <2> QED
    BY <1>6, <2>1, <2>2
<1> HIDE DEF T
<1>13. n \in T
  BY <1>1, <1>11, <1>12, SetInduction
<1>14. after[n] = f[n]
  BY <1>1, <1>13 DEF T
<1>15. Composed(plan, first) = Dropped(f[n].w)
  BY <1>10, <1>14
<1> QED
  BY <1>6, <1>15 DEF Composing, S, start

LEMMA ComposedIs ==
    ASSUME NEW plan \in Seq(Ops), NEW first \in Nat
    PROVE  Composed(plan, first) \in Vecs
<1>1. PICK f : Composing(f, plan, first)
  BY ComposedRun
<1>2. /\ f \in [Nat -> [w : Writers, next : Nat]]
      /\ Composed(plan, first) = Dropped(f[Len(plan)].w)
  BY <1>1 DEF Composing
<1>3. Len(plan) \in Nat
  BY LenProperties
<1> DEFINE w == f[Len(plan)].w
<1>4. w \in Writers /\ Composed(plan, first) = Dropped(w)
  BY <1>2, <1>3
<1> HIDE DEF w
<1> QED
  BY <1>4, PushIs DEF Writers, Dropped, Flushed

----------------------------------------------------------------------------
(* The types of the state *)

Batches == [buf : Bufs, fragment : Vecs, cc : Ccs]

Starting == [pc : {"append", "fresh"}, msg : Vecs, qos : Qos]
Going == {e \in [pc : {"more"}, msg : Vecs, qos : Qos, r : Readers, sn : SeqNums,
                 fragid : SeqNums] : Firm(e.r)}
Encs == {Idle} \cup Starting \cup Going
Booked == {<<>>} \cup {<<b>> : b \in Batches}
Defrags == [sn : SeqNums, fragid : SeqNums, buffer : Vecs]

\* A batch of the ring, and the cursor kept in it.
CursorOf(b) == [chunks |-> b.bytes.items, slice |-> b.pos.slice, byte |-> b.pos.byte]
Boxes == {b \in [bytes : Vecs, cc : Ccs, pos : [slice : Nat, byte : Nat]] :
    CursorOf(b) \in Readers /\ Firm(CursorOf(b))}
Messages == [bytes : Vecs, cc : Ccs]

SenderTyped ==
    /\ batchSize \in Nat /\ quota \in [sends : Nat, reads : Nat]
    /\ enc \in Encs /\ booked \in Booked
    /\ sns \in [Ccs \cup {"fragid"} -> SeqNums]
    /\ wire \in Seq(Nat) /\ spoiled \in BOOLEAN
ReceiverTyped ==
    /\ alive \in BOOLEAN /\ defrag \in [Ccs -> Defrags]
    /\ inbox \in Seq(Boxes) /\ seen \in [Ccs -> SeqNums]
AppTyped ==
    /\ app.k \in Nat /\ app.r \in Readers
    /\ app = [k |-> app.k, r |-> app.r, out |-> app.out]
    /\ app.k = 0 => app.out = Flat!Opened
    /\ got \in Seq(Messages)
Typed == SenderTyped /\ ReceiverTyped /\ AppTyped

LEMMA SnTypes == SeqNums \subseteq Nat /\ 0 \in SeqNums
BY SeqNumAssumption DEF SeqNums, Modulus

LEMMA InitTyped == Init => Typed
<1> SUFFICES ASSUME Init PROVE Typed
  OBVIOUS
<1>1. NoBytes \in Vecs
  BY NoBytesIs
<1>2. batchSize \in Nat /\ quota \in [sends : Nat, reads : Nat]
  BY WireAssumption DEF Init
<1>3. PICK n \in Starts : sns = [block |-> n, drop |-> n, fragid |-> n]
  BY DEF Init
<1>4. n \in SeqNums
  BY WireAssumption
<1>5. sns \in [Ccs \cup {"fragid"} -> SeqNums]
  BY <1>3, <1>4 DEF Ccs
<1>6. SenderTyped
  <2>1. enc = Idle /\ booked = <<>> /\ wire = <<>> /\ spoiled = FALSE
    BY DEF Init
  <2>2. Idle \in Encs /\ <<>> \in Booked /\ <<>> \in Seq(Nat)
    BY DEF Encs, Booked
  <2> QED
    BY <1>2, <1>5, <2>1, <2>2 DEF SenderTyped
<1>7. defrag \in [Ccs -> Defrags]
  BY <1>1, SnTypes DEF Init, Defrags
<1>8. seen \in [Ccs -> SeqNums]
  BY <1>5 DEF Init
<1>9. ReceiverTyped
  BY <1>7, <1>8 DEF ReceiverTyped, Init
<1>10. Reader(NoBytes) \in Readers
  BY <1>1, ReaderIs
<1>11. app = [k |-> 0, r |-> Reader(NoBytes), out |-> Flat!Opened] /\ got = <<>>
  BY DEF Init, Unread, Flat!Opened
<1>12. AppTyped
  BY <1>10, <1>11 DEF AppTyped
<1> QED
  BY <1>6, <1>9, <1>12 DEF Typed

----------------------------------------------------------------------------
(* Batches *)

LEMMA SetBuf ==
    ASSUME NEW b \in Batches, NEW buf \in Bufs
    PROVE  /\ [b EXCEPT !.buf = buf] \in Batches
           /\ [b EXCEPT !.buf = buf] = [buf |-> buf, fragment |-> b.fragment, cc |-> b.cc]
BY DEF Batches

LEMMA FilledIs ==
    ASSUME NEW b \in Batches, NEW buf \in Bufs, NEW v \in Vecs
    PROVE  Filled(b, buf, v) \in Batches
<1>1. Extend(b.fragment, v) \in Vecs
  BY ExtendIs DEF Batches
<1> QED
  BY <1>1 DEF Filled, Batches

LEMMA TheBatchIs ==
    ASSUME SenderTyped, NEW cc \in Ccs
    PROVE  TheBatch(cc) \in Batches
<1>1. NewBatch(cc) \in Batches
  <2>1. [cap |-> batchSize, data |-> <<>>] \in Bufs
    <3>1. <<>> \in Seq(Nat) /\ Len(<<>>) = 0
      OBVIOUS
    <3> QED
      BY <3>1 DEF Bufs, SenderTyped
  <2> QED
    BY <2>1, NoBytesIs DEF NewBatch, Batches
<1>2. booked # <<>> => booked[1] \in Batches
  BY DEF SenderTyped, Booked
<1> QED
  BY <1>1, <1>2 DEF TheBatch

LEMMA OnWireIs ==
    ASSUME NEW b \in Batches
    PROVE  OnWire(b) \in Seq(Nat) /\ BatchLen(b) \in Nat
<1>1. b.buf.data \in Seq(Nat) /\ b.fragment \in Vecs
  BY DEF Batches, Bufs
<1>2. Content(b.fragment) \in Seq(Nat) /\ LenOf(b.fragment) \in Nat
  BY <1>1, ReaderIs
<1>3. BatchLen(b) \in Nat
  <2> DEFINE x == Len(b.buf.data) + LenOf(b.fragment)
  <2>1. Len(b.buf.data) \in Nat
    BY <1>1
  <2>2. x \in Nat
    BY <1>2, <2>1
  <2> HIDE DEF x
  <2>3. LenMax \in Nat
    BY WireAssumption
  <2>4. x % (LenMax + 1) \in Nat
    BY <2>2, <2>3
  <2> QED
    BY <2>4 DEF BatchLen, x
<1>4. <<BatchLen(b)>> \in Seq(Nat)
  BY <1>3
<1>5. <<BatchLen(b)>> \o b.buf.data \in Seq(Nat)
  BY <1>1, <1>4, ConcatProperties
<1>6. OnWire(b) \in Seq(Nat)
  BY <1>2, <1>5, ConcatProperties DEF OnWire
<1> QED
  BY <1>3, <1>6

LEMMA CommitIs ==
    ASSUME wire \in Seq(Nat), NEW b \in Batches, Commit(b)
    PROVE  wire' \in Seq(Nat) /\ booked' \in Booked
BY OnWireIs, ConcatProperties DEF Commit, Booked

LEMMA DoneIs ==
    ASSUME wire \in Seq(Nat), NEW b \in Batches, NEW flush, Done(b, flush)
    PROVE  wire' \in Seq(Nat) /\ booked' \in Booked /\ enc' \in Encs
<1>1. enc' \in Encs
  BY DEF Done, Encs
<1>2. CASE enc.qos.express \/ flush
  BY <1>1, <1>2, CommitIs DEF Done
<1>3. CASE ~(enc.qos.express \/ flush)
  BY <1>1, <1>3 DEF Done, Booked
<1> QED
  BY <1>2, <1>3

----------------------------------------------------------------------------
(* The steps of the sender keep the types *)

LEMMA WriteTyped ==
    ASSUME NEW b \in Batches, NEW pieces \in Seq(Seq(Nat))
    PROVE  /\ WriteAll(b.buf, pieces).ok \in BOOLEAN /\ WriteAll(b.buf, pieces).buf \in Bufs
           /\ Rewound(b, WriteAll(b.buf, pieces).buf) = b
<1> DEFINE w == WriteAll(b.buf, pieces)
<1>1. b.buf \in Bufs
  BY DEF Batches
<1>2. PICK n : Wrote(b.buf, pieces, w, n)
  BY <1>1, WriteAllIs
<1> HIDE DEF w
<1>3. RewindTo(w.buf, Len(b.buf.data)) = b.buf
  BY <1>1, <1>2, RewindIs
<1>4. [b EXCEPT !.buf = b.buf] = b
  BY DEF Batches
<1>5. Rewound(b, w.buf) = b
  BY <1>3, <1>4 DEF Rewound
<1> QED
  BY <1>2, <1>5 DEF Wrote, w

LEMMA QosOfEncIs ==
    ASSUME enc.qos \in Qos
    PROVE  QosOfEnc \in Nat /\ enc.qos.cc \in Ccs
<1>1. enc.qos.prio \in Nat /\ enc.qos.cc \in Ccs
  BY WireAssumption
<1> QED
  BY <1>1, QosByteIs DEF QosOfEnc

\* What is known of the push under way.
LEMMA EncIs ==
    ASSUME SenderTyped, enc.pc # "idle"
    PROVE  /\ enc.msg \in Vecs /\ enc.qos \in Qos /\ enc.qos.cc \in Ccs /\ QosOfEnc \in Nat
           /\ enc.pc # "more" => enc \in Starting
           /\ enc.pc = "more" =>
                enc.r \in Readers /\ Firm(enc.r) /\ enc.sn \in SeqNums /\ enc.fragid \in SeqNums
<1>1. enc \in Starting \cup Going
  BY DEF SenderTyped, Encs, Idle
<1>2. enc.msg \in Vecs /\ enc.qos \in Qos
  BY <1>1 DEF Starting, Going
<1>3. enc.pc # "more" => enc \in Starting
  BY <1>1 DEF Going
<1>4. enc.pc = "more" =>
        enc.r \in Readers /\ Firm(enc.r) /\ enc.sn \in SeqNums /\ enc.fragid \in SeqNums
  BY <1>1 DEF Starting, Going
<1> QED
  BY <1>2, <1>3, <1>4, QosOfEncIs

LEMMA NextSn ==
    ASSUME NEW sn \in SeqNums
    PROVE  Next_Sn(sn) \in SeqNums /\ Next_Sn(sn) \in Nat /\ sn \in Nat
BY SnTypes, NewSnIs

LEMMA SendTyped ==
    ASSUME SenderTyped, NEW plan \in Plans, NEW qos \in Qos, Send(plan, qos)
    PROVE  SenderTyped'
<1>1. quota.sends \in Nat /\ quota.sends > 0 /\ quota.reads \in Nat
  BY DEF Send, SenderTyped
<1>2. quota' \in [sends : Nat, reads : Nat]
  <2>1. quota' = [quota EXCEPT !.sends = @ - 1]
    BY DEF Send
  <2>2. quota.sends - 1 \in Nat
    BY <1>1
  <2> QED
    BY <2>1, <2>2 DEF SenderTyped
<1>3. Message(plan) \in Vecs
  <2>1. 100 * quota.sends \in Nat
    BY <1>1
  <2>2. plan \in Seq(Ops)
    BY WireAssumption DEF Ops
  <2> QED
    BY <2>1, <2>2, ComposedIs DEF Message
<1>4. enc' \in Encs
  <2>1. enc' = [pc |-> "append", msg |-> Message(plan), qos |-> qos]
    BY DEF Send
  <2>2. enc' \in Starting
    BY <1>3, <2>1 DEF Starting
  <2> QED
    BY <2>2 DEF Encs
<1> QED
  BY <1>2, <1>4 DEF Send, SenderTyped

LEMMA AppendTyped ==
    ASSUME SenderTyped, NEW flush, Append1(flush)
    PROVE  SenderTyped'
<1> DEFINE b == TheBatch(enc.qos.cc)
           w == WriteAll(b.buf, BytesPieces(enc.msg))
           same == b.cc = enc.qos.cc
<1>1. enc.msg \in Vecs /\ enc.qos.cc \in Ccs /\ enc \in Starting
  BY EncIs DEF Append1
<1>2. b \in Batches
  BY <1>1, TheBatchIs
<1>3. w.ok \in BOOLEAN /\ w.buf \in Bufs /\ Rewound(b, w.buf) = b
  BY <1>1, <1>2, BytesPiecesAre, WriteTyped
<1>4. /\ IF BatchLen(b) # 0
         THEN IF same /\ w.ok
              THEN Done([b EXCEPT !.buf = w.buf], flush) /\ Accepted(FALSE)
              ELSE /\ Commit(IF same THEN Rewound(b, w.buf) ELSE b)
                   /\ enc' = [enc EXCEPT !.pc = "fresh"]
                   /\ UNCHANGED sent
         ELSE /\ enc' = [enc EXCEPT !.pc = "fresh"]
              /\ UNCHANGED <<booked, wire, sent>>
      /\ UNCHANGED <<batchSize, quota, sns, spoiled, receiverVars, app, got>>
  BY DEF Append1
<1> HIDE DEF b, w
<1>5. [enc EXCEPT !.pc = "fresh"] \in Encs
  BY <1>1 DEF Starting, Encs
<1>6. wire \in Seq(Nat) /\ booked \in Booked
  BY DEF SenderTyped
<1>7. wire' \in Seq(Nat) /\ booked' \in Booked /\ enc' \in Encs
  <2>1. CASE BatchLen(b) # 0 /\ same /\ w.ok
    <3>1. Done([b EXCEPT !.buf = w.buf], flush)
      BY <1>4, <2>1
    <3>2. [b EXCEPT !.buf = w.buf] \in Batches
      BY <1>2, <1>3, SetBuf
    <3> QED
      BY <1>6, <3>1, <3>2, DoneIs
  <2>2. CASE BatchLen(b) # 0 /\ ~(same /\ w.ok)
    <3>1. Commit(b) /\ enc' = [enc EXCEPT !.pc = "fresh"]
      BY <1>3, <1>4, <2>2
    <3> QED
      BY <1>2, <1>5, <1>6, <3>1, CommitIs
  <2>3. CASE ~(BatchLen(b) # 0)
    BY <1>4, <1>5, <1>6, <2>3
  <2> QED
    BY <2>1, <2>2, <2>3
<1> QED
  BY <1>4, <1>7 DEF SenderTyped

LEMMA UseSnTyped ==
    ASSUME sns \in [Ccs \cup {"fragid"} -> SeqNums], enc.qos.cc \in Ccs,
           NEW sn \in SeqNums, NEW fragid \in SeqNums, UseSn(sn, fragid)
    PROVE  sns' \in [Ccs \cup {"fragid"} -> SeqNums]
BY DEF UseSn, Ccs

LEMMA FrameTyped ==
    ASSUME SenderTyped, NEW flush, WriteFrame(flush)
    PROVE  SenderTyped'
<1> DEFINE b == TheBatch(enc.qos.cc)
           sn == Next_Sn(sns[enc.qos.cc])
           pieces == HeaderPieces(QosOfEnc, sn, "frame", 0) \o BytesPieces(enc.msg)
           w == Frame(b, sn)
<1>1. enc.msg \in Vecs /\ enc.qos.cc \in Ccs /\ QosOfEnc \in Nat
  BY EncIs DEF WriteFrame
<1>2. b \in Batches
  BY <1>1, TheBatchIs
<1>3. sn \in SeqNums /\ sn \in Nat /\ sns.fragid \in SeqNums
  BY <1>1, NextSn DEF SenderTyped
<1>4. /\ UseSn(sn, sns.fragid) /\ Done([b EXCEPT !.buf = w.buf], flush)
      /\ UNCHANGED <<batchSize, quota, spoiled>>
  BY DEF WriteFrame
<1>5. w = WriteAll(b.buf, pieces)
  BY DEF Frame
<1>6. HeaderPieces(QosOfEnc, sn, "frame", 0) \in Seq(Seq(Nat))
  BY <1>1, <1>3, HeaderPiecesAre DEF Bodies
<1>7. pieces \in Seq(Seq(Nat))
  BY <1>1, <1>6, BytesPiecesAre, JoinedPieces
<1> HIDE DEF pieces, w, b, sn
<1>8. w.buf \in Bufs
  BY <1>2, <1>5, <1>7, WriteTyped
<1>9. [b EXCEPT !.buf = w.buf] \in Batches
  BY <1>2, <1>8, SetBuf
<1>10. wire' \in Seq(Nat) /\ booked' \in Booked /\ enc' \in Encs
  BY <1>4, <1>9, DoneIs DEF SenderTyped
<1>11. sns' \in [Ccs \cup {"fragid"} -> SeqNums]
  BY <1>1, <1>3, <1>4, UseSnTyped DEF SenderTyped
<1> QED
  BY <1>4, <1>10, <1>11 DEF SenderTyped

\* A fragment takes what the reader of the message has.
LEMMA ContinueTyped ==
    ASSUME enc.msg \in Vecs, enc.qos \in Qos, NEW r \in Readers, Firm(r), NEW sn \in SeqNums,
           NEW fragid \in SeqNums, Continue(r, sn, fragid)
    PROVE  enc' \in Encs /\ spoiled' = spoiled
<1>1. CASE Remaining(r) > 0
  <2>1. enc' = [pc |-> "more", msg |-> enc.msg, qos |-> enc.qos,
                r |-> r, sn |-> Next_Sn(sn), fragid |-> fragid]
    BY <1>1 DEF Continue
  <2>2. Next_Sn(sn) \in SeqNums
    BY NextSn
  <2>3. enc' \in Going
    BY <2>1, <2>2 DEF Going
  <2> QED
    BY <2>3 DEF Continue, Encs
<1>2. CASE ~(Remaining(r) > 0)
  BY <1>2 DEF Continue, Encs
<1> QED
  BY <1>1, <1>2

\* A view of n bytes that are there, or none.
LEMMA ViewsTyped ==
    ASSUME NEW r \in Readers, Firm(r), NEW n \in Nat
    PROVE  /\ ReadChunks(r, n).ok \in BOOLEAN /\ ReadChunks(r, n).data \in Vecs
           /\ ReadChunks(r, n).r \in Readers /\ Firm(ReadChunks(r, n).r)
<1> DEFINE v == ReadChunks(r, n)
<1>1. /\ v.ok \in BOOLEAN /\ v.data \in Vecs
      /\ n <= Remaining(r) => Gives(r, Ok(Content(v.data), v.r), n)
      /\ ~(n <= Remaining(r)) => v.r = r
  BY ReadChunksIs
<1> HIDE DEF v
<1>2. Gives(r, Ok(Content(v.data), v.r), n) => v.r \in Readers /\ Firm(v.r)
  BY DEF Gives, Ok
<1>3. v.r \in Readers /\ Firm(v.r)
  BY <1>1, <1>2
<1> QED
  BY <1>1, <1>3 DEF v

LEMMA FailedTyped ==
    ASSUME SenderTyped, NEW b \in Batches, EncodingFailed(b)
    PROVE  enc' \in Encs /\ booked' \in Booked /\ wire' \in Seq(Nat) /\ spoiled' \in BOOLEAN
BY DEF EncodingFailed, SenderTyped, Encs, Booked

LEMMA RoomIs ==
    ASSUME NEW buf \in Bufs
    PROVE  Room(buf) \in Nat
<1>1. buf.cap \in Nat /\ Len(buf.data) \in Nat /\ Len(buf.data) <= buf.cap
  BY DEF Bufs
<1> QED
  BY <1>1 DEF Room

LEMMA FirstTyped ==
    ASSUME SenderTyped, WriteFirst
    PROVE  SenderTyped'
<1> DEFINE e == TheBatch(enc.qos.cc)
           sn == Next_Sn(sns[enc.qos.cc])
           fragid == Next_Sn(sns.fragid)
           b == Rewound(e, Frame(e, sn).buf)
           pieces == HeaderPieces(QosOfEnc, sn, "first", fragid) \o <<VleBytes(LenOf(enc.msg))>>
           w == WriteAll(b.buf, pieces)
           views == ReadChunks(Reader(enc.msg), Room(w.buf))
           f == Filled(b, w.buf, views.data)
<1>1. enc.msg \in Vecs /\ enc.qos \in Qos /\ enc.qos.cc \in Ccs /\ QosOfEnc \in Nat
  BY EncIs DEF WriteFirst
<1>2. e \in Batches
  BY <1>1, TheBatchIs
<1>3. /\ sn \in SeqNums /\ sn \in Nat /\ fragid \in SeqNums /\ fragid \in Nat
  BY <1>1, NextSn DEF SenderTyped
<1>4. /\ IF w.ok /\ views.ok
         THEN Commit(f) /\ UseSn(sn, fragid) /\ Continue(views.r, sn, fragid)
         ELSE /\ EncodingFailed([b EXCEPT !.buf = w.buf])
              /\ sns' = [sns EXCEPT !.fragid = fragid]
      /\ UNCHANGED <<batchSize, quota>>
  BY DEF WriteFirst
<1>5. b = e
  <2>1. HeaderPieces(QosOfEnc, sn, "frame", 0) \in Seq(Seq(Nat))
    BY <1>1, <1>3, HeaderPiecesAre DEF Bodies
  <2>2. HeaderPieces(QosOfEnc, sn, "frame", 0) \o BytesPieces(enc.msg) \in Seq(Seq(Nat))
    BY <1>1, <2>1, BytesPiecesAre, JoinedPieces
  <2> QED
    BY <1>2, <2>2, WriteTyped DEF Frame
<1>6. pieces \in Seq(Seq(Nat))
  <2>1. HeaderPieces(QosOfEnc, sn, "first", fragid) \in Seq(Seq(Nat))
    BY <1>1, <1>3, HeaderPiecesAre DEF Bodies
  <2>2. VleBytes(LenOf(enc.msg)) \in Seq(Nat)
    BY <1>1, ReaderIs, VleBytesAre
  <2>3. <<VleBytes(LenOf(enc.msg))>> \in Seq(Seq(Nat))
    BY <2>2
  <2> QED
    BY <2>1, <2>3, JoinedPieces
<1> HIDE DEF e, sn, fragid, pieces, b
<1>7. b \in Batches
  BY <1>2, <1>5
<1>8. w.ok \in BOOLEAN /\ w.buf \in Bufs
  BY <1>6, <1>7, WriteTyped
<1> HIDE DEF w
<1>9. /\ views.ok \in BOOLEAN /\ views.data \in Vecs
      /\ views.r \in Readers /\ Firm(views.r)
  BY <1>1, <1>8, ReaderIs, RoomIs, ViewsTyped
<1> HIDE DEF views
<1>10. f \in Batches
  BY <1>7, <1>8, <1>9, FilledIs
<1> HIDE DEF f
<1>11. CASE w.ok /\ views.ok
  <2>1. Commit(f) /\ UseSn(sn, fragid) /\ Continue(views.r, sn, fragid)
    BY <1>4, <1>11
  <2>2. wire' \in Seq(Nat) /\ booked' \in Booked
    BY <1>10, <2>1, CommitIs DEF SenderTyped
  <2>3. sns' \in [Ccs \cup {"fragid"} -> SeqNums]
    BY <1>1, <1>3, <2>1, UseSnTyped DEF SenderTyped
  <2>4. enc' \in Encs /\ spoiled' = spoiled
    BY <1>1, <1>3, <1>9, <2>1, ContinueTyped
  <2> QED
    BY <1>4, <2>2, <2>3, <2>4 DEF SenderTyped
<1>12. CASE ~(w.ok /\ views.ok)
  <2>1. EncodingFailed([b EXCEPT !.buf = w.buf]) /\ sns' = [sns EXCEPT !.fragid = fragid]
    BY <1>4, <1>12
  <2>2. [b EXCEPT !.buf = w.buf] \in Batches
    BY <1>7, <1>8, SetBuf
  <2>3. enc' \in Encs /\ booked' \in Booked /\ wire' \in Seq(Nat) /\ spoiled' \in BOOLEAN
    BY <2>1, <2>2, FailedTyped
  <2>4. sns' \in [Ccs \cup {"fragid"} -> SeqNums]
    BY <1>3, <2>1 DEF SenderTyped
  <2> QED
    BY <1>4, <2>3, <2>4 DEF SenderTyped
<1> QED
  BY <1>11, <1>12

LEMMA FragmentRoomIs ==
    ASSUME NEW b \in Batches, enc.sn \in Nat, enc.fragid \in Nat
    PROVE  FragmentRoom(b) \in Nat
<1> DEFINE x == Room(b.buf)
           y == HeaderLen(enc.sn, "more", enc.fragid)
<1>1. x \in Nat
  BY RoomIs DEF Batches
<1>2. y \in Nat
  <2>1. VleLen(enc.sn) \in Nat /\ VleLen(enc.fragid) \in Nat
    BY VleLenIs
  <2> QED
    BY <2>1 DEF HeaderLen, FragmentLen, SnLen
<1> HIDE DEF x, y
<1>3. (x - y) % 65536 \in Nat
  BY <1>1, <1>2
<1> QED
  BY <1>3 DEF FragmentRoom, x, y

LEMMA NextTyped ==
    ASSUME SenderTyped, WriteNext
    PROVE  SenderTyped'
<1> DEFINE b == TheBatch(enc.qos.cc)
           room == FragmentRoom(b)
           rest == Remaining(enc.r)
           kind == IF room >= rest THEN "last" ELSE "more"
           pieces == HeaderPieces(QosOfEnc, enc.sn, kind, enc.fragid)
           w == WriteAll(b.buf, pieces)
           views == ReadChunks(enc.r, Least(rest, room))
           f == Filled(b, w.buf, views.data)
<1>1. /\ enc.msg \in Vecs /\ enc.qos \in Qos /\ enc.qos.cc \in Ccs /\ QosOfEnc \in Nat
      /\ enc.r \in Readers /\ Firm(enc.r) /\ enc.sn \in SeqNums /\ enc.fragid \in SeqNums
  BY EncIs DEF WriteNext
<1>2. b \in Batches
  BY <1>1, TheBatchIs
<1>3. enc.sn \in Nat /\ enc.fragid \in Nat
  BY <1>1, NextSn
<1>4. /\ IF w.ok /\ views.ok
         THEN Commit(f) /\ UseSn(enc.sn, enc.fragid) /\ Continue(views.r, enc.sn, enc.fragid)
         ELSE EncodingFailed([b EXCEPT !.buf = w.buf]) /\ UNCHANGED sns
      /\ UNCHANGED <<batchSize, quota>>
  BY DEF WriteNext
<1>5. pieces \in Seq(Seq(Nat))
  <2>1. kind \in Bodies
    BY DEF Bodies
  <2> QED
    BY <1>1, <1>3, <2>1, HeaderPiecesAre
<1>6. Least(rest, room) \in Nat
  <2>1. rest \in Nat
    BY <1>1, OffsetIn
  <2>2. room \in Nat
    BY <1>2, <1>3, FragmentRoomIs
  <2> HIDE DEF rest, room
  <2> QED
    BY <2>1, <2>2 DEF Least
<1> HIDE DEF b, pieces, room, rest
<1>8. w.ok \in BOOLEAN /\ w.buf \in Bufs
  BY <1>2, <1>5, WriteTyped
<1> HIDE DEF w
<1>9. /\ views.ok \in BOOLEAN /\ views.data \in Vecs
      /\ views.r \in Readers /\ Firm(views.r)
  BY <1>1, <1>6, ViewsTyped
<1> HIDE DEF views
<1>10. f \in Batches
  BY <1>2, <1>8, <1>9, FilledIs
<1> HIDE DEF f
<1>11. CASE w.ok /\ views.ok
  <2>1. Commit(f) /\ UseSn(enc.sn, enc.fragid) /\ Continue(views.r, enc.sn, enc.fragid)
    BY <1>4, <1>11
  <2>2. wire' \in Seq(Nat) /\ booked' \in Booked
    BY <1>10, <2>1, CommitIs DEF SenderTyped
  <2>3. sns' \in [Ccs \cup {"fragid"} -> SeqNums]
    BY <1>1, <2>1, UseSnTyped DEF SenderTyped
  <2>4. enc' \in Encs /\ spoiled' = spoiled
    BY <1>1, <1>9, <2>1, ContinueTyped
  <2> QED
    BY <1>4, <2>2, <2>3, <2>4 DEF SenderTyped
<1>12. CASE ~(w.ok /\ views.ok)
  <2>1. EncodingFailed([b EXCEPT !.buf = w.buf]) /\ sns' = sns
    BY <1>4, <1>12
  <2>2. [b EXCEPT !.buf = w.buf] \in Batches
    BY <1>2, <1>8, SetBuf
  <2>3. enc' \in Encs /\ booked' \in Booked /\ wire' \in Seq(Nat) /\ spoiled' \in BOOLEAN
    BY <2>1, <2>2, FailedTyped
  <2> QED
    BY <1>4, <2>1, <2>3 DEF SenderTyped
<1> QED
  BY <1>11, <1>12

LEMMA FlushTyped ==
    ASSUME SenderTyped, Flush
    PROVE  SenderTyped'
<1>1. booked[1] \in Batches /\ Commit(booked[1])
  BY DEF Flush, SenderTyped, Booked
<1>2. wire' \in Seq(Nat) /\ booked' \in Booked
  BY <1>1, CommitIs DEF SenderTyped
<1> QED
  BY <1>2 DEF Flush, SenderTyped

----------------------------------------------------------------------------
(* The steps of the receiver keep the types *)

LEMMA ClearedIs ==
    ASSUME NEW v \in Vecs
    PROVE  Cleared(v) \in Vecs /\ Content(Cleared(v)) = <<>>
<1>1. /\ v \in [kind : {"vec", "single"}, items : Seq(Chunk), grown : BOOLEAN]
      /\ v.kind = "single" => Len(v.items) = 1
  BY DEF Vecs
<1>2. CASE v.kind = "vec"
  <2> DEFINE s == SubSeq(v.items, 1, Least(0, Len(v.items)))
  <2>1. s = <<>>
    <3>1. Len(v.items) \in Nat
      BY <1>1, LenProperties
    <3>2. Least(0, Len(v.items)) = 0
      BY <3>1 DEF Least
    <3>3. SubSeq(v.items, 1, 0) = <<>>
      BY <1>1, SubSeqEmpty
    <3> QED
      BY <3>2, <3>3, Zenon
  <2>2. Cleared(v) = [v EXCEPT !.items = s]
    BY <1>2 DEF Cleared, Truncate
  <2> HIDE DEF s
  <2>3. Cleared(v) = [kind |-> "vec", items |-> <<>>, grown |-> v.grown]
    BY <1>1, <1>2, <2>1, <2>2
  <2>4. <<>> \in Seq(Chunk)
    OBVIOUS
  <2>5. Cleared(v) \in Vecs
    BY <1>1, <2>3, <2>4 DEF Vecs
  <2>6. Content(Cleared(v)) = FlattenSeq(<<>>)
    BY <2>3 DEF Content
  <2>7. Content(NoBytes) = FlattenSeq(<<>>)
    BY NoBytesIs DEF Content
  <2> QED
    BY <2>5, <2>6, <2>7, NoBytesIs
<1>3. CASE v.kind # "vec"
  <2>1. Cleared(v) = NoBytes
    BY <1>3 DEF Cleared, Truncate, NoBytes
  <2> QED
    BY <2>1, NoBytesIs
<1> QED
  BY <1>2, <1>3

\* A cursor put away is found again.
LEMMA MarkIs ==
    ASSUME NEW v \in Vecs, NEW r \in Readers, r.chunks = v.items, Firm(r), NEW cc \in Ccs
    PROVE  /\ [bytes |-> v, cc |-> cc, pos |-> Mark(r)] \in Boxes
           /\ CursorOf([bytes |-> v, cc |-> cc, pos |-> Mark(r)]) = r
<1> DEFINE b == [bytes |-> v, cc |-> cc, pos |-> Mark(r)]
<1>1. r.slice \in Nat /\ r.byte \in Nat /\ r = [chunks |-> r.chunks, slice |-> r.slice, byte |-> r.byte]
  BY DEF Readers
<1>2. CursorOf(b) = r
  BY <1>1 DEF CursorOf, Mark
<1>3. b \in [bytes : Vecs, cc : Ccs, pos : [slice : Nat, byte : Nat]]
  BY <1>1 DEF Mark
<1> QED
  BY <1>2, <1>3 DEF Boxes

LEMMA ZeroIs ==
    ASSUME NEW v \in Vecs, NEW cc \in Ccs
    PROVE  [bytes |-> v, cc |-> cc, pos |-> Zero] \in Boxes
<1>1. Reader(v) \in Readers /\ Firm(Reader(v)) /\ Reader(v).chunks = v.items
  BY ReaderIs
<1>2. Mark(Reader(v)) = Zero
  BY DEF Mark, Reader, Zero
<1> QED
  BY <1>1, <1>2, MarkIs

LEMMA BoxIs ==
    ASSUME inbox \in Seq(Boxes), NEW v, NEW cc, NEW pos, Box(v, cc, pos),
           [bytes |-> v, cc |-> cc, pos |-> pos] \in Boxes
    PROVE  inbox' \in Seq(Boxes)
BY AppendProperties DEF Box

\* What a decoder has left.
LEMMA RestIs ==
    ASSUME NEW v \in Vecs, NEW q, Follows(Reader(v), q)
    PROVE  /\ LenOf(v) - Remaining(q) \in Nat /\ LenOf(v) - Remaining(q) <= LenOf(v)
           /\ LenOf(v) - Remaining(q) = Offset(q)
<1>1. q \in Readers /\ DataOf(q) = Content(v) /\ LenOf(v) = Len(Content(v)) /\ LenOf(v) \in Nat
  BY ReaderIs DEF Follows, DataOf, LenOf
<1>2. /\ Offset(q) \in Nat /\ Offset(q) <= LenOf(v)
      /\ Remaining(q) = LenOf(v) - Offset(q)
  BY <1>1, OffsetIn
<1> DEFINE x == LenOf(v)
           y == Offset(q)
           z == Remaining(q)
<1>3. x \in Nat /\ y \in Nat /\ y <= x /\ z = x - y
  BY <1>1, <1>2
<1> HIDE DEF x, y, z
<1>4. x - z \in Nat /\ x - z <= x /\ x - z = y
  BY <1>3
<1> QED
  BY <1>4 DEF x, y, z

LEMMA FragmentReceived ==
    ASSUME ReceiverTyped, NEW bytes \in Vecs, NEW h, h.qos.cc \in Ccs, h.sn \in SeqNums,
           h.fid \in SeqNums, Follows(Reader(bytes), h.r), ReceiveFragment(bytes, h)
    PROVE  defrag' \in [Ccs -> Defrags] /\ inbox' \in Seq(Boxes)
<1> DEFINE cc == h.qos.cc
           old == defrag[cc]
           d == IF h.body # "first" THEN old
                ELSE [sn |-> h.sn, fragid |-> h.fid, buffer |-> Cleared(old.buffer)]
           start == LenOf(bytes) - Remaining(h.r)
           view == ViewFrom(bytes, start).data
           longer == Extend(d.buffer, view)
<1>1. cc \in Ccs /\ old \in Defrags /\ old.buffer \in Vecs
  BY DEF ReceiverTyped, Defrags
<1>2. d \in Defrags
  <2>1. Cleared(old.buffer) \in Vecs
    BY <1>1, ClearedIs
  <2> QED
    BY <1>1, <2>1 DEF Defrags
<1>3. view \in Vecs
  <2>1. start \in Nat /\ start <= LenOf(bytes)
    BY RestIs
  <2> QED
    BY <2>1, ViewFromIs
<1>4. IF ~Extends(d, h, view)
      THEN /\ defrag' = [defrag EXCEPT ![cc] =
                  IF h.body = "more" THEN [d EXCEPT !.buffer = Cleared(@)] ELSE d]
           /\ UNCHANGED inbox
      ELSE /\ defrag' = [defrag EXCEPT ![cc] =
                  [d EXCEPT !.sn = Next_Sn(d.sn),
                            !.buffer = IF h.body = "last" THEN NoBytes ELSE longer]]
           /\ IF h.body = "last" THEN Box(longer, cc, Zero) ELSE UNCHANGED inbox
  BY DEF ReceiveFragment
<1> HIDE DEF d, view, cc
<1>5. d.sn \in SeqNums /\ d.buffer \in Vecs /\ d = [sn |-> d.sn, fragid |-> d.fragid, buffer |-> d.buffer]
  BY <1>2 DEF Defrags
<1>6. longer \in Vecs /\ Cleared(d.buffer) \in Vecs /\ Next_Sn(d.sn) \in SeqNums /\ NoBytes \in Vecs
  BY <1>3, <1>5, ExtendIs, ClearedIs, NextSn, NoBytesIs
<1> HIDE DEF longer
<1>7. CASE ~Extends(d, h, view)
  <2> DEFINE e == IF h.body = "more" THEN [d EXCEPT !.buffer = Cleared(@)] ELSE d
  <2>1. [d EXCEPT !.buffer = Cleared(@)] = [d EXCEPT !.buffer = Cleared(d.buffer)]
    BY <1>5
  <2>2. [d EXCEPT !.buffer = Cleared(d.buffer)] \in Defrags
    BY <1>2, <1>6 DEF Defrags
  <2>3. e \in Defrags
    BY <1>2, <2>1, <2>2
  <2>4. defrag' = [defrag EXCEPT ![cc] = e] /\ inbox' = inbox
    BY <1>4, <1>7
  <2> HIDE DEF e
  <2> QED
    BY <1>1, <2>3, <2>4 DEF ReceiverTyped
<1>8. CASE Extends(d, h, view)
  <2> DEFINE x == IF h.body = "last" THEN NoBytes ELSE longer
             e == [d EXCEPT !.sn = Next_Sn(d.sn), !.buffer = x]
  <2>1. defrag' = [defrag EXCEPT ![cc] = e]
    BY <1>4, <1>8
  <2>2. x \in Vecs
    BY <1>6
  <2> HIDE DEF x
  <2>3. e \in Defrags
    BY <1>2, <1>6, <2>2 DEF Defrags
  <2> HIDE DEF e
  <2>4. defrag' \in [Ccs -> Defrags]
    BY <1>1, <2>1, <2>3 DEF ReceiverTyped
  <2>5. [bytes |-> longer, cc |-> cc, pos |-> Zero] \in Boxes
    BY <1>1, <1>6, ZeroIs
  <2>6. CASE h.body = "last"
    <3>1. Box(longer, cc, Zero)
      BY <1>4, <1>8, <2>6
    <3> QED
      BY <2>4, <2>5, <3>1, BoxIs DEF ReceiverTyped
  <2>7. CASE h.body # "last"
    BY <1>4, <1>8, <2>4, <2>7 DEF ReceiverTyped
  <2> QED
    BY <2>6, <2>7
<1> QED
  BY <1>7, <1>8

\* The batch at the head of the wire, and what follows it.
LEMMA HeadOfWire ==
    ASSUME wire \in Seq(Nat), wire # <<>>, wire[1] < Len(wire)
    PROVE  /\ wire[1] \in Nat /\ SubSeq(wire, 2, wire[1] + 1) \in Seq(Nat)
           /\ Len(SubSeq(wire, 2, wire[1] + 1)) = wire[1]
           /\ SubSeq(wire, wire[1] + 2, Len(wire)) \in Seq(Nat)
           /\ wire[1] # 0 => First \in Vecs /\ SubSeq(wire, 2, wire[1] + 1) \in Chunk
<1>1. Len(wire) \in Nat /\ Len(wire) # 0
  BY LenProperties, EmptySeq
<1> DEFINE n == wire[1]
           c == SubSeq(wire, 2, n + 1)
<1>2. n \in Nat
  BY <1>1, ElementOfSeq
<1> HIDE DEF n
<1>3. n < Len(wire)
  BY DEF n
<1>4. /\ \A i \in 2..(n + 1) : i \in 1..Len(wire)
      /\ \A i \in (n + 2)..Len(wire) : i \in 1..Len(wire)
  BY <1>1, <1>2, <1>3
<1>5. c \in Seq(Nat) /\ Len(c) = n
  <2>1. \A i \in 2..(n + 1) : wire[i] \in Nat
    BY <1>4, ElementOfSeq
  <2>2. c \in Seq(Nat) /\ Len(c) = IF 2 <= n + 1 THEN (n + 1) - 2 + 1 ELSE 0
    BY <1>2, <2>1, SubSeqProperties
  <2> DEFINE l == Len(c)
  <2>3. l = IF 2 <= n + 1 THEN (n + 1) - 2 + 1 ELSE 0
    BY <2>2
  <2> HIDE DEF l
  <2>4. l = n
    BY <1>2, <2>3
  <2> QED
    BY <2>2, <2>4 DEF l
<1>6. SubSeq(wire, n + 2, Len(wire)) \in Seq(Nat)
  <2>1. \A i \in (n + 2)..Len(wire) : wire[i] \in Nat
    BY <1>4, ElementOfSeq
  <2>2. n + 2 \in Int /\ Len(wire) \in Int
    BY <1>1, <1>2
  <2> QED
    BY <1>2, <2>1, <2>2, SubSeqProperties
<1>7. n # 0 => c \in Chunk
  BY <1>5, EmptySeq DEF Chunk
<1> HIDE DEF c
<1>8. n # 0 => Single(c) \in Vecs
  BY <1>7, SingleIs
<1> QED
  BY <1>2, <1>5, <1>6, <1>7, <1>8 DEF c, n, First

LEMMA ReceiveTyped ==
    ASSUME SenderTyped, ReceiverTyped, Receive
    PROVE  ReceiverTyped' /\ wire' \in Seq(Nat)
<1> DEFINE h == ReadHeader(Reader(First))
<1>1. wire \in Seq(Nat) /\ wire # <<>> /\ wire[1] < Len(wire)
  BY DEF Receive, SenderTyped
<1>2. /\ wire' = SubSeq(wire, wire[1] + 2, Len(wire))
      /\ IF wire[1] = 0 THEN UNCHANGED receiverVars
         ELSE IF ~h.ok THEN alive' = FALSE /\ UNCHANGED <<defrag, inbox, seen>>
         ELSE /\ seen' = [seen EXCEPT ![h.qos.cc] = h.sn]
              /\ IF h.body = "frame"
                 THEN Box(First, h.qos.cc, Mark(h.r)) /\ UNCHANGED defrag
                 ELSE ReceiveFragment(First, h)
              /\ UNCHANGED alive
  BY DEF Receive, First
<1>3. wire' \in Seq(Nat) /\ (wire[1] # 0 => First \in Vecs)
  BY <1>1, <1>2, HeadOfWire
<1>4. CASE wire[1] = 0
  BY <1>2, <1>3, <1>4 DEF ReceiverTyped, receiverVars
<1>5. CASE wire[1] # 0 /\ ~h.ok
  <2>1. alive' = FALSE /\ UNCHANGED <<defrag, inbox, seen>>
    BY <1>2, <1>5
  <2> QED
    BY <1>3, <2>1 DEF ReceiverTyped
<1>6. CASE wire[1] # 0 /\ h.ok
  <2>1. First \in Vecs /\ Reader(First) \in Readers /\ Firm(Reader(First))
        /\ Reader(First).chunks = First.items
    BY <1>3, <1>6, ReaderIs
  <2>2. /\ Follows(Reader(First), h.r) /\ h.qos.cc \in Ccs
        /\ h.sn \in SeqNums /\ h.fid \in SeqNums
    BY <1>6, <2>1, ReadHeaderIs DEF Ccs
  <2>3. /\ seen' = [seen EXCEPT ![h.qos.cc] = h.sn] /\ alive' = alive
        /\ IF h.body = "frame"
           THEN Box(First, h.qos.cc, Mark(h.r)) /\ UNCHANGED defrag
           ELSE ReceiveFragment(First, h)
    BY <1>2, <1>6
  <2> HIDE DEF h
  <2>4. seen' \in [Ccs -> SeqNums]
    BY <2>2, <2>3 DEF ReceiverTyped
  <2>5. defrag' \in [Ccs -> Defrags] /\ inbox' \in Seq(Boxes)
    <3>1. CASE h.body = "frame"
      <4>1. h.r \in Readers /\ h.r.chunks = First.items /\ Firm(h.r)
        BY <2>1, <2>2 DEF Follows
      <4>2. [bytes |-> First, cc |-> h.qos.cc, pos |-> Mark(h.r)] \in Boxes
        BY <2>1, <2>2, <4>1, MarkIs
      <4> QED
        BY <2>3, <3>1, <4>2, BoxIs DEF ReceiverTyped
    <3>2. CASE h.body # "frame"
      BY <2>1, <2>2, <2>3, <3>2, FragmentReceived
    <3> QED
      BY <3>1, <3>2
  <2> QED
    BY <1>3, <2>3, <2>4, <2>5 DEF ReceiverTyped
<1> QED
  BY <1>4, <1>5, <1>6

\* The cursor kept in a batch is taken up again, or there is nothing left to read.
LEMMA SeekKept ==
    ASSUME NEW b \in Boxes
    PROVE  IF b.pos.slice < Len(b.bytes.items)
           THEN SeekMark(Reader(b.bytes), b.pos) = Ok(<<>>, CursorOf(b))
           ELSE SeekMark(Reader(b.bytes), b.pos) = Fail(Reader(b.bytes))
<1> DEFINE r == Reader(b.bytes)
           c == CursorOf(b)
<1>1. r = [chunks |-> b.bytes.items, slice |-> 0, byte |-> 0]
  BY DEF Reader
<1>2. c \in Readers /\ c = [chunks |-> b.bytes.items, slice |-> b.pos.slice, byte |-> b.pos.byte]
  BY DEF Boxes, CursorOf
<1>3. SeekMark(r, b.pos) =
        IF b.pos.slice < Len(r.chunks) /\ b.pos.byte <= Len(r.chunks[b.pos.slice + 1])
        THEN Ok(<<>>, [r EXCEPT !.slice = b.pos.slice, !.byte = b.pos.byte])
        ELSE Fail(r)
  BY DEF SeekMark
<1>4. b.pos.slice < Len(b.bytes.items) => b.pos.byte <= Len(b.bytes.items[b.pos.slice + 1])
  BY <1>2 DEF Readers
<1> HIDE DEF r, c
<1>5. [r EXCEPT !.slice = b.pos.slice, !.byte = b.pos.byte] = c
  <2> DEFINE a == [r EXCEPT !.slice = b.pos.slice, !.byte = b.pos.byte]
             R == [chunks : Seq(Chunk), slice : Nat, byte : Nat]
  <2>1. r \in R /\ c \in R /\ r.chunks = c.chunks
    <3>1. r \in Readers
      BY ReaderIs DEF Boxes, r
    <3> QED
      BY <1>1, <1>2, <3>1 DEF Readers
  <2>2. c.slice = b.pos.slice /\ c.byte = b.pos.byte
    BY <1>2
  <2>3. a \in R /\ a.chunks = r.chunks /\ a.slice = b.pos.slice /\ a.byte = b.pos.byte
    BY <2>1, <2>2
  <2> HIDE DEF a
  <2>4. a = c
    BY <2>1, <2>2, <2>3
  <2> QED
    BY <2>4 DEF a
<1>6. r.chunks = b.bytes.items
  BY <1>1
<1> QED
  BY <1>3, <1>4, <1>5, <1>6 DEF r, c

LEMMA PullTyped ==
    ASSUME ReceiverTyped, got \in Seq(Messages), Pull
    PROVE  inbox' \in Seq(Boxes) /\ got' \in Seq(Messages)
<1> DEFINE b == inbox[1]
           m == Decoded(b)
           s == SeekMark(Reader(b.bytes), b.pos)
<1>1. inbox \in Seq(Boxes) /\ inbox # <<>> /\ 1 \in 1..Len(inbox)
  <2>1. inbox \in Seq(Boxes) /\ inbox # <<>>
    BY DEF ReceiverTyped, Pull
  <2>2. Len(inbox) \in Nat /\ Len(inbox) # 0
    BY <2>1, LenProperties, EmptySeq
  <2> QED
    BY <2>1, <2>2
<1>2. b \in Boxes
  BY <1>1, ElementOfSeq
<1>3. /\ b \in [bytes : Vecs, cc : Ccs, pos : [slice : Nat, byte : Nat]]
      /\ CursorOf(b) \in Readers /\ Firm(CursorOf(b)) /\ CursorOf(b).chunks = b.bytes.items
  BY <1>2 DEF Boxes, CursorOf
<1>4. IF m.ok
      THEN /\ got' = Append(got, [bytes |-> m.data, cc |-> b.cc])
           /\ inbox' = [inbox EXCEPT ![1].pos = Kept(m.r)]
      ELSE /\ inbox' = Tail(inbox)
           /\ UNCHANGED got
  BY DEF Pull
<1>5. m = IF s.ok THEN ReadBytes(s.r) ELSE s
  BY DEF Decoded
<1>6. s = Ok(<<>>, CursorOf(b)) \/ s = Fail(Reader(b.bytes))
  BY <1>2, SeekKept
<1> HIDE DEF b, m, s
<1>7. CASE m.ok
  <2>1. s = Ok(<<>>, CursorOf(b)) /\ s.ok
    BY <1>5, <1>6, <1>7 DEF Ok, Fail
  <2>2. m = ReadBytes(CursorOf(b))
    BY <1>5, <2>1 DEF Ok
  <2>3. m.data \in Vecs /\ Follows(CursorOf(b), m.r)
    BY <1>3, <2>2, ReadBytesIs
  <2>4. m.r \in Readers /\ Firm(m.r) /\ m.r.chunks = b.bytes.items
    BY <1>3, <2>3 DEF Follows
  <2> DEFINE c == [bytes |-> b.bytes, cc |-> b.cc, pos |-> Mark(m.r)]
  <2>5. c \in Boxes
    BY <1>3, <2>4, MarkIs
  <2>6. inbox' = [inbox EXCEPT ![1] = c]
    <3>1. inbox' = [inbox EXCEPT ![1].pos = Mark(m.r)]
      BY <1>4, <1>7 DEF Kept
    <3>2. [b EXCEPT !.pos = Mark(m.r)] = c
      BY <1>3
    <3>3. inbox' = [inbox EXCEPT ![1] = [b EXCEPT !.pos = Mark(m.r)]]
      BY <3>1 DEF b
    <3> QED
      BY <3>2, <3>3
  <2> HIDE DEF c
  <2>7. inbox' \in Seq(Boxes)
    BY <1>1, <2>5, <2>6, ExceptSeq
  <2>8. [bytes |-> m.data, cc |-> b.cc] \in Messages
    BY <1>3, <2>3 DEF Messages
  <2>9. got' \in Seq(Messages)
    BY <1>4, <1>7, <2>8, AppendProperties
  <2> QED
    BY <2>7, <2>9
<1>8. CASE ~m.ok
  BY <1>1, <1>4, <1>8, HeadTailProperties
<1> QED
  BY <1>7, <1>8

----------------------------------------------------------------------------
(* A reader of a message is a flat reader *)

LEMMA StumblesIs ==
    ASSUME app.r \in Readers
    PROVE  Stumbles = ~Firm(app.r)
BY DEF Stumbles, Firm, AtChunk, ChunkOf, Readers

\* What an operation does to the application's reader.
Answers(op, a, bytes) ==
    /\ app' = [k |-> app.k, r |-> a.r, out |-> <<op, a.ok, IF a.ok THEN bytes ELSE <<>>>>]
    /\ app.k # 0
Moves(r, a) == a.r \in Readers /\ a.r.chunks = r.chunks

LEMMA AnswerIs ==
    ASSUME AppTyped, app.k # 0, NEW op, NEW a, NEW bytes, Answer(op, a, bytes)
    PROVE  Answers(op, a, bytes)
<1> DEFINE o == <<op, a.ok, IF a.ok THEN bytes ELSE <<>>>>
<1>1. app' = [app EXCEPT !.r = a.r, !.out = o]
  BY DEF Answer
<1>2. app = [k |-> app.k, r |-> app.r, out |-> app.out]
  BY DEF AppTyped
<1> HIDE DEF o
<1>3. app' = [k |-> app.k, r |-> a.r, out |-> o]
  BY <1>1, <1>2
<1> QED
  BY <1>3 DEF Answers, o

LEMMA AnswerTyped ==
    ASSUME AppTyped, NEW op, NEW a, NEW bytes, Answers(op, a, bytes), Moves(app.r, a), got' = got
    PROVE  AppTyped'
<1> DEFINE o == <<op, a.ok, IF a.ok THEN bytes ELSE <<>>>>
<1>1. app' = [k |-> app.k, r |-> a.r, out |-> o] /\ app.k # 0
  BY DEF Answers
<1> HIDE DEF o
<1>2. app'.k = app.k /\ app'.r = a.r /\ app'.out = o
  BY <1>1
<1> QED
  BY <1>1, <1>2 DEF AppTyped, Moves

\* What the flat reader sees of it.
LEMMA FlatStep ==
    ASSUME AppTyped, NEW op, NEW a, NEW bytes, Answers(op, a, bytes), Moves(app.r, a)
    PROVE  /\ (app.out)' = <<op, a.ok, IF a.ok THEN bytes ELSE <<>>>>
           /\ (FlattenSeq(app.r.chunks))' = FlattenSeq(app.r.chunks)
           /\ (Offset(app.r))' = Offset(a.r)
           /\ Stumbles' = ~Firm(a.r) /\ Stumbles = ~Firm(app.r)
<1> DEFINE o == <<op, a.ok, IF a.ok THEN bytes ELSE <<>>>>
<1>1. app' = [k |-> app.k, r |-> a.r, out |-> o] /\ app.k # 0
  BY DEF Answers
<1> HIDE DEF o
<1>2. app'.r = a.r /\ app'.out = o /\ a.r \in Readers /\ a.r.chunks = app.r.chunks
  BY <1>1 DEF Moves
<1>3. Stumbles' = ~Firm(a.r)
  BY <1>2 DEF Stumbles, Firm, AtChunk, ChunkOf, Readers
<1>4. Stumbles = ~Firm(app.r)
  BY StumblesIs DEF AppTyped
<1> QED
  BY <1>2, <1>3, <1>4 DEF o

LEMMA FlatRest ==
    ASSUME app.r \in Readers
    PROVE  /\ Flat!Rest = Remaining(app.r) /\ \A n : Flat!Ahead(n) = Ahead(app.r, n)
           /\ Flat!Rest \in Nat
BY OffsetIn DEF Flat!Rest, Flat!Ahead, Ahead, Part, DataOf

LEMMA FailedOut ==
    ASSUME NEW op, NEW ok, NEW bytes, ok = FALSE
    PROVE  <<op, ok, IF ok THEN bytes ELSE <<>>>> = <<op, FALSE, <<>>>>
BY Zenon

LEMMA FlatGets ==
    ASSUME AppTyped, NEW op, NEW a, NEW bytes, NEW n \in Nat, Answers(op, a, bytes),
           Gets(app.r, a, n), bytes = Ahead(app.r, n)
    PROVE  Flat!All(op, n) /\ Moves(app.r, a)
<1>1. Moves(app.r, a) /\ Firm(a.r) /\ Offset(a.r) = Offset(app.r) + n /\ a.ok = TRUE
      /\ n <= Remaining(app.r)
  BY DEF Gets, Gives, Moves
<1>2. /\ (app.out)' = <<op, a.ok, IF a.ok THEN bytes ELSE <<>>>>
      /\ (FlattenSeq(app.r.chunks))' = FlattenSeq(app.r.chunks)
      /\ (Offset(app.r))' = Offset(a.r)
      /\ Stumbles' = FALSE
  BY <1>1, FlatStep
<1>3. Flat!Rest = Remaining(app.r) /\ Flat!Ahead(n) = bytes
  BY FlatRest DEF AppTyped
<1>4. Flat!Go(op, TRUE, Flat!Ahead(n), Offset(app.r) + n)
  BY <1>1, <1>2, <1>3 DEF Flat!Go
<1> QED
  BY <1>1, <1>3, <1>4 DEF Flat!All

LEMMA FlatWastes ==
    ASSUME AppTyped, NEW op, NEW a, NEW bytes, NEW n \in Nat, Answers(op, a, bytes),
           Wastes(app.r, a), ~(n <= Remaining(app.r))
    PROVE  Flat!Spent(op, n) /\ Moves(app.r, a)
<1>1. Moves(app.r, a) /\ Firm(a.r) /\ Offset(a.r) = Len(DataOf(app.r)) /\ a.ok = FALSE
  BY DEF Wastes, Moves
<1>2. /\ (app.out)' = <<op, FALSE, <<>>>>
      /\ (FlattenSeq(app.r.chunks))' = FlattenSeq(app.r.chunks)
      /\ (Offset(app.r))' = Offset(a.r)
      /\ Stumbles' = FALSE
  <2>1. /\ (app.out)' = <<op, a.ok, IF a.ok THEN bytes ELSE <<>>>>
        /\ (FlattenSeq(app.r.chunks))' = FlattenSeq(app.r.chunks)
        /\ (Offset(app.r))' = Offset(a.r)
        /\ Stumbles' = ~Firm(a.r)
    BY <1>1, FlatStep
  <2> QED
    BY <1>1, <2>1, FailedOut, Zenon
<1>3. Flat!Rest = Remaining(app.r) /\ Flat!Rest \in Nat
  BY FlatRest DEF AppTyped
<1>4. Flat!Go(op, FALSE, <<>>, Len(FlattenSeq(app.r.chunks)))
  BY <1>1, <1>2 DEF Flat!Go, DataOf
<1>5. n > Flat!Rest
  BY <1>3
<1> QED
  BY <1>1, <1>4, <1>5 DEF Flat!Spent

LEMMA FlatRefuses ==
    ASSUME AppTyped, NEW op, NEW a, NEW bytes, Answers(op, a, bytes), Refuses(app.r, a)
    PROVE  Flat!Refused(op) /\ Moves(app.r, a)
<1>1. Moves(app.r, a) /\ a.r = app.r /\ a.ok = FALSE
  BY DEF Refuses, Moves, AppTyped
<1>2. /\ (app.out)' = <<op, FALSE, <<>>>>
      /\ (FlattenSeq(app.r.chunks))' = FlattenSeq(app.r.chunks)
      /\ (Offset(app.r))' = Offset(app.r)
      /\ Stumbles' = Stumbles
  <2>1. /\ (app.out)' = <<op, a.ok, IF a.ok THEN bytes ELSE <<>>>>
        /\ (FlattenSeq(app.r.chunks))' = FlattenSeq(app.r.chunks)
        /\ (Offset(app.r))' = Offset(a.r)
        /\ Stumbles' = ~Firm(a.r) /\ Stumbles = ~Firm(app.r)
    BY <1>1, FlatStep
  <2> QED
    BY <1>1, <2>1, FailedOut, Zenon
<1> QED
  BY <1>1, <1>2 DEF Flat!Refused

LEMMA FlatSome ==
    ASSUME AppTyped, NEW op, NEW a, NEW n \in Nat, Answers(op, a, a.data), a.ok \in BOOLEAN,
           Gives(app.r, a, Least(n, Remaining(app.r))),
           a.ok <=> Least(n, Remaining(app.r)) # 0
    PROVE  Flat!Some(op, n) /\ Moves(app.r, a)
<1> DEFINE k == Least(n, Remaining(app.r))
<1>1. /\ Moves(app.r, a) /\ Firm(a.r) /\ Offset(a.r) = Offset(app.r) + k
      /\ a.data = Ahead(app.r, k) /\ a.data \in Seq(Nat) /\ Len(a.data) = k
  BY DEF Gives, Moves
<1>2. /\ (app.out)' = <<op, a.ok, IF a.ok THEN a.data ELSE <<>>>>
      /\ (FlattenSeq(app.r.chunks))' = FlattenSeq(app.r.chunks)
      /\ (Offset(app.r))' = Offset(a.r)
      /\ Stumbles' = ~Firm(a.r)
  BY <1>1, FlatStep
<1>3. Flat!Rest = Remaining(app.r) /\ Flat!Rest \in Nat /\ Flat!Ahead(k) = Ahead(app.r, k)
  BY FlatRest DEF AppTyped
<1>4. k = IF n <= Flat!Rest THEN n ELSE Flat!Rest
  BY <1>3 DEF Least
<1>5. k \in Nat
  BY <1>3, <1>4
<1>6. a.ok <=> k # 0
  OBVIOUS
<1> HIDE DEF k
<1>7. a.ok = (k > 0)
  BY <1>5, <1>6
<1>8. ~a.ok => a.data = <<>>
  BY <1>1, <1>6, EmptySeq
<1>9. (app.out)' = <<op, k > 0, Flat!Ahead(k)>>
  <2>1. (IF a.ok THEN a.data ELSE <<>>) = Flat!Ahead(k)
    BY <1>1, <1>3, <1>8, Zenon
  <2> QED
    BY <1>2, <1>7, <2>1, Zenon
<1>10. Flat!Go(op, k > 0, Flat!Ahead(k), Offset(app.r) + k)
  BY <1>1, <1>2, <1>9 DEF Flat!Go
<1> QED
  BY <1>1, <1>4, <1>10 DEF Flat!Some

LEMMA CountIs ==
    ASSUME NEW n \in Counts
    PROVE  n \in Nat /\ n # 0 /\ n \in Nat \ {0}
BY WireAssumption

\* Every operation of a reader of Bytes is one of a flat reader.
LEMMA FlatRead ==
    ASSUME AppTyped, app.k # 0, NEW n \in Counts,
           \/ Answer("read", Read(app.r, n), Read(app.r, n).data)
           \/ Answer("siphon", Siphon(app.r, n), Siphon(app.r, n).data)
    PROVE  Flat!Next /\ \E op, a, bytes : Answers(op, a, bytes) /\ Moves(app.r, a)
<1>1. app.r \in Readers /\ n \in Nat /\ n # 0 /\ n \in Nat \ {0}
  BY CountIs DEF AppTyped
<1>2. CASE Answer("read", Read(app.r, n), Read(app.r, n).data)
  <2> DEFINE a == Read(app.r, n)
  <2>1. Answers("read", a, a.data)
    BY <1>2, AnswerIs
  <2>2. /\ Gives(app.r, a, Least(n, Remaining(app.r)))
        /\ a.ok <=> Least(n, Remaining(app.r)) # 0
    BY <1>1, ReadIs
  <2>3. a.ok \in BOOLEAN
    BY DEF Read, Ok, Fail
  <2> HIDE DEF a
  <2>4. Flat!Some("read", n) /\ Moves(app.r, a)
    BY <1>1, <2>1, <2>2, <2>3, FlatSome
  <2> QED
    BY <2>1, <2>4 DEF Flat!Next, Flat!Read
<1>3. CASE Answer("siphon", Siphon(app.r, n), Siphon(app.r, n).data)
  <2> DEFINE a == Siphon(app.r, n)
  <2>1. Answers("siphon", a, a.data)
    BY <1>3, AnswerIs
  <2>2. \/ /\ Gives(app.r, a, Least(n, Remaining(app.r)))
           /\ a.ok <=> Least(n, Remaining(app.r)) # 0
        \/ ~Firm(app.r) /\ a = Fail(app.r)
    BY <1>1, SiphonIs
  <2>3. a.ok \in BOOLEAN
    BY DEF Siphon, Ok, Fail
  <2> HIDE DEF a
  <2>4. CASE /\ Gives(app.r, a, Least(n, Remaining(app.r)))
             /\ a.ok <=> Least(n, Remaining(app.r)) # 0
    <3>1. Flat!Some("siphon", n) /\ Moves(app.r, a)
      BY <1>1, <2>1, <2>3, <2>4, FlatSome
    <3> QED
      BY <2>1, <3>1 DEF Flat!Next, Flat!Siphon
  <2>5. CASE ~Firm(app.r) /\ a = Fail(app.r)
    <3>1. Refuses(app.r, a) /\ Stumbles
      BY <1>1, <2>5, StumblesIs DEF Refuses, Fail
    <3>2. Flat!Refused("siphon") /\ Moves(app.r, a)
      BY <2>1, <3>1, FlatRefuses
    <3> QED
      BY <2>1, <3>1, <3>2 DEF Flat!Next, Flat!Siphon
  <2> QED
    BY <2>2, <2>4, <2>5
<1> QED
  BY <1>2, <1>3

LEMMA FlatExact ==
    ASSUME AppTyped, app.k # 0, NEW n \in Counts,
           \/ Answer("exact", ReadExact(app.r, n), ReadExact(app.r, n).data)
           \/ Answer("chunk", ReadChunk(app.r, n), ReadChunk(app.r, n).data)
           \/ Answer("contiguous", ReadContiguous(app.r, n), ReadContiguous(app.r, n).data)
           \/ Answer("u8", ReadU8(app.r), ReadU8(app.r).data)
    PROVE  Flat!Next /\ \E op, a, bytes : Answers(op, a, bytes) /\ Moves(app.r, a)
<1>1. app.r \in Readers /\ n \in Nat /\ n # 0 /\ n \in Nat \ {0}
  BY CountIs DEF AppTyped
<1>2. ASSUME NEW op, NEW a, NEW m \in Nat, Answers(op, a, a.data), Gets(app.r, a, m)
      PROVE  Flat!All(op, m) /\ Moves(app.r, a)
  <2>1. a.data = Ahead(app.r, m)
    BY <1>2 DEF Gets, Gives
  <2> QED
    BY <1>2, <2>1, FlatGets
<1>3. CASE Answer("exact", ReadExact(app.r, n), ReadExact(app.r, n).data)
  <2> DEFINE a == ReadExact(app.r, n)
  <2>1. Answers("exact", a, a.data)
    BY <1>3, AnswerIs
  <2>2. IF n <= Remaining(app.r) THEN Gets(app.r, a, n) ELSE Wastes(app.r, a)
    BY <1>1, ReadExactIs
  <2> HIDE DEF a
  <2>3. (Flat!All("exact", n) \/ Flat!Spent("exact", n)) /\ Moves(app.r, a)
    BY <1>1, <1>2, <2>1, <2>2, FlatWastes
  <2> QED
    BY <2>1, <2>3 DEF Flat!Next, Flat!ReadExact
<1>4. CASE Answer("chunk", ReadChunk(app.r, n), ReadChunk(app.r, n).data)
  <2> DEFINE a == ReadChunk(app.r, n)
  <2>1. Answers("chunk", a, a.data)
    BY <1>4, AnswerIs
  <2>2. IF n <= Remaining(app.r) THEN Gets(app.r, a, n) ELSE Wastes(app.r, a)
    BY <1>1, ReadChunkIs
  <2> HIDE DEF a
  <2>3. (Flat!All("chunk", n) \/ Flat!Spent("chunk", n)) /\ Moves(app.r, a)
    BY <1>1, <1>2, <2>1, <2>2, FlatWastes
  <2> QED
    BY <2>1, <2>3 DEF Flat!Next, Flat!ReadChunk
<1>5. CASE Answer("contiguous", ReadContiguous(app.r, n), ReadContiguous(app.r, n).data)
  <2> DEFINE a == ReadContiguous(app.r, n)
  <2>1. Answers("contiguous", a, a.data)
    BY <1>5, AnswerIs
  <2>2. Gets(app.r, a, n) \/ Refuses(app.r, a)
    BY <1>1, ReadContiguousIs
  <2> HIDE DEF a
  <2>3. (Flat!All("contiguous", n) \/ Flat!Refused("contiguous")) /\ Moves(app.r, a)
    BY <1>1, <1>2, <2>1, <2>2, FlatRefuses
  <2> QED
    BY <2>1, <2>3 DEF Flat!Next, Flat!ReadContiguous
<1>6. CASE Answer("u8", ReadU8(app.r), ReadU8(app.r).data)
  <2> DEFINE a == ReadU8(app.r)
  <2>1. Answers("u8", a, a.data)
    BY <1>6, AnswerIs
  <2>2. \/ Gets(app.r, a, 1)
        \/ Refuses(app.r, a) /\ (Remaining(app.r) = 0 \/ ~Firm(app.r))
    BY <1>1, ReadU8Is
  <2> HIDE DEF a
  <2>3. CASE Gets(app.r, a, 1)
    <3>1. Flat!All("u8", 1) /\ Moves(app.r, a)
      BY <1>2, <2>1, <2>3
    <3> QED
      BY <2>1, <3>1 DEF Flat!Next, Flat!ReadU8
  <2>4. CASE Refuses(app.r, a) /\ (Remaining(app.r) = 0 \/ ~Firm(app.r))
    <3>1. Flat!Refused("u8") /\ Moves(app.r, a)
      BY <2>1, <2>4, FlatRefuses
    <3>2. Flat!Rest = 0 \/ Stumbles
      BY <1>1, <2>4, FlatRest, StumblesIs
    <3> QED
      BY <2>1, <3>1, <3>2 DEF Flat!Next, Flat!ReadU8
  <2> QED
    BY <2>2, <2>3, <2>4
<1> QED
  BY <1>3, <1>4, <1>5, <1>6

LEMMA EmptyOut ==
    ASSUME NEW op, NEW ok, NEW bytes, bytes = <<>>
    PROVE  <<op, ok, IF ok THEN bytes ELSE <<>>>> = <<op, ok, <<>>>>
<1>1. (IF ok THEN bytes ELSE <<>>) = <<>>
  OBVIOUS
<1> QED
  BY <1>1, Zenon

LEMMA FlatViews ==
    ASSUME AppTyped, app.k # 0, NEW n \in Counts,
           Answer("chunks", ReadChunks(app.r, n), Content(ReadChunks(app.r, n).data))
    PROVE  Flat!Next /\ \E op, a, bytes : Answers(op, a, bytes) /\ Moves(app.r, a)
<1> DEFINE a == ReadChunks(app.r, n)
           bytes == Content(a.data)
<1>1. app.r \in Readers /\ n \in Nat /\ n # 0 /\ n \in Nat \ {0}
  BY CountIs DEF AppTyped
<1>2. Answers("chunks", a, bytes)
  BY AnswerIs
<1>3. /\ a.ok <=> n <= Remaining(app.r)
      /\ a.ok \in BOOLEAN
      /\ n <= Remaining(app.r) => Gives(app.r, Ok(Content(a.data), a.r), n)
      /\ ~(n <= Remaining(app.r)) => a.r = app.r
  BY <1>1, ReadChunksIs
<1> HIDE DEF a, bytes
<1>4. CASE n <= Remaining(app.r)
  <2> DEFINE c == Ok(bytes, a.r)
  <2>1. Gives(app.r, c, n) /\ a.ok = TRUE
    BY <1>3, <1>4 DEF bytes
  <2>2. c.ok = TRUE /\ c.r = a.r /\ c.data = bytes
    BY DEF Ok
  <2>3. Answers("chunks", c, bytes)
    BY <1>2, <2>1, <2>2 DEF Answers
  <2> HIDE DEF c
  <2>4. Gets(app.r, c, n) /\ bytes = Ahead(app.r, n)
    BY <1>4, <2>1, <2>2 DEF Gets, Gives
  <2>5. Flat!All("chunks", n) /\ Moves(app.r, c)
    BY <1>1, <2>3, <2>4, FlatGets
  <2> QED
    BY <2>3, <2>5 DEF Flat!Next, Flat!ReadChunks
<1>5. CASE ~(n <= Remaining(app.r))
  <2> DEFINE c == Fail(app.r)
  <2>1. Refuses(app.r, c) /\ c.ok = FALSE /\ c.r = app.r
    BY DEF Fail, Refuses
  <2>2. a.ok = FALSE /\ a.r = app.r
    BY <1>3, <1>5
  <2>3. Answers("chunks", c, bytes)
    BY <1>2, <2>1, <2>2 DEF Answers
  <2> HIDE DEF c
  <2>4. Flat!Refused("chunks") /\ Moves(app.r, c)
    BY <2>1, <2>3, FlatRefuses
  <2>5. n > Flat!Rest
    <3>1. Flat!Rest = Remaining(app.r) /\ Flat!Rest \in Nat
      BY <1>1, FlatRest
    <3> QED
      BY <1>1, <1>5, <3>1
  <2> QED
    BY <2>3, <2>4, <2>5 DEF Flat!Next, Flat!ReadChunks
<1> QED
  BY <1>4, <1>5

LEMMA FlatSkip ==
    ASSUME AppTyped, app.k # 0, NEW n \in Counts,
           Answer("skip", Skip(app.r, n), Skip(app.r, n).data)
    PROVE  Flat!Next /\ \E op, a, bytes : Answers(op, a, bytes) /\ Moves(app.r, a)
<1> DEFINE a == Skip(app.r, n)
           left == Remaining(app.r)
           o == Offset(app.r)
<1>1. app.r \in Readers /\ n \in Nat /\ n # 0 /\ n \in Nat \ {0}
  BY CountIs DEF AppTyped
<1>2. Answers("skip", a, a.data)
  BY AnswerIs
<1>3. /\ Moves(app.r, a) /\ Firm(a.r) /\ Offset(a.r) = o + Least(n, left)
      /\ a.ok <=> n <= left
      /\ a.ok \in BOOLEAN /\ a.data = <<>>
  BY <1>1, SkipIs DEF Moves
<1> HIDE DEF a
<1>4. /\ (app.out)' = <<"skip", a.ok, <<>>>>
      /\ (FlattenSeq(app.r.chunks))' = FlattenSeq(app.r.chunks)
      /\ (Offset(app.r))' = Offset(a.r)
      /\ Stumbles' = FALSE
  <2>1. /\ (app.out)' = <<"skip", a.ok, IF a.ok THEN a.data ELSE <<>>>>
        /\ (FlattenSeq(app.r.chunks))' = FlattenSeq(app.r.chunks)
        /\ (Offset(app.r))' = Offset(a.r)
        /\ Stumbles' = ~Firm(a.r)
    BY <1>2, <1>3, FlatStep
  <2> QED
    BY <1>3, <2>1, EmptyOut, Zenon
<1>5. /\ Flat!Rest = left /\ left \in Nat /\ o \in Nat
      /\ o + left = Len(FlattenSeq(app.r.chunks))
  <2>1. Flat!Rest = left /\ left \in Nat
    BY <1>1, FlatRest
  <2> DEFINE l == Len(DataOf(app.r))
  <2>2. l \in Nat /\ o \in Nat /\ left = l - o
    BY <1>1, OffsetIn
  <2>3. l = Len(FlattenSeq(app.r.chunks))
    BY DEF DataOf
  <2> HIDE DEF l, o, left
  <2>4. o + left = l
    BY <2>2
  <2> QED
    BY <2>1, <2>2, <2>3, <2>4
<1> HIDE DEF left
<1>6. CASE n <= left
  <2>1. a.ok = TRUE /\ Offset(a.r) = o + n
    BY <1>3, <1>6 DEF Least
  <2>2. Flat!Go("skip", TRUE, <<>>, o + n)
    BY <1>4, <2>1 DEF Flat!Go
  <2> QED
    BY <1>2, <1>3, <1>5, <1>6, <2>2 DEF Flat!Next, Flat!Skip
<1>7. CASE ~(n <= left)
  <2>1. a.ok = FALSE /\ Offset(a.r) = Len(FlattenSeq(app.r.chunks))
    BY <1>3, <1>5, <1>7 DEF Least
  <2>2. Flat!Go("skip", FALSE, <<>>, Len(FlattenSeq(app.r.chunks)))
    BY <1>4, <2>1 DEF Flat!Go
  <2>3. n > Flat!Rest
    BY <1>1, <1>5, <1>7
  <2> QED
    BY <1>2, <1>3, <2>2, <2>3 DEF Flat!Next, Flat!Skip, Flat!Spent
<1> QED
  BY <1>6, <1>7

LEMMA FlatBacktrack ==
    ASSUME AppTyped, app.k # 0, NEW n \in Counts,
           Answer("backtrack", Backtrack(app.r, n), Backtrack(app.r, n).data)
    PROVE  Flat!Next /\ \E op, a, bytes : Answers(op, a, bytes) /\ Moves(app.r, a)
<1> DEFINE a == Backtrack(app.r, n)
           o == Offset(app.r)
<1>1. app.r \in Readers /\ n \in Nat
  BY CountIs DEF AppTyped
<1>2. Answers("backtrack", a, a.data)
  BY AnswerIs
<1>3. /\ Moves(app.r, a) /\ Offset(a.r) = IF n <= o THEN o - n ELSE 0
      /\ a.ok <=> n <= o
      /\ a.ok \in BOOLEAN /\ a.data = <<>>
  BY <1>1, BacktrackIs DEF Moves
<1> HIDE DEF a
<1>4. /\ (app.out)' = <<"backtrack", a.ok, <<>>>>
      /\ (FlattenSeq(app.r.chunks))' = FlattenSeq(app.r.chunks)
      /\ (Offset(app.r))' = Offset(a.r)
      /\ Stumbles' = ~Firm(a.r)
  <2>1. /\ (app.out)' = <<"backtrack", a.ok, IF a.ok THEN a.data ELSE <<>>>>
        /\ (FlattenSeq(app.r.chunks))' = FlattenSeq(app.r.chunks)
        /\ (Offset(app.r))' = Offset(a.r)
        /\ Stumbles' = ~Firm(a.r)
    BY <1>2, <1>3, FlatStep
  <2> QED
    BY <1>3, <2>1, EmptyOut, Zenon
<1>5. a.ok = (n <= o)
  BY <1>3
<1>6. Stumbles' \in BOOLEAN
  BY <1>4
<1>7. (app.out)' = <<"backtrack", n <= o, <<>>>>
  BY <1>4, <1>5, Zenon
<1>8. Flat!Backtrack(n)
  BY <1>3, <1>4, <1>6, <1>7 DEF Flat!Backtrack
<1> QED
  BY <1>2, <1>3, <1>8 DEF Flat!Next

LEMMA FlatSeek ==
    ASSUME AppTyped, app.k # 0, NEW n \in Counts,
           Answer("seek", SeekTo(app.r, n), SeekTo(app.r, n).data)
    PROVE  Flat!Next /\ \E op, a, bytes : Answers(op, a, bytes) /\ Moves(app.r, a)
<1> DEFINE a == SeekTo(app.r, n)
           o == Offset(app.r)
           l == Len(DataOf(app.r))
<1>1. app.r \in Readers /\ n \in Nat
  BY CountIs DEF AppTyped
<1>2. Answers("seek", a, a.data)
  BY AnswerIs
<1>3. /\ Moves(app.r, a) /\ a.ok \in BOOLEAN /\ a.data = <<>>
      /\ IF n <= l THEN a.ok = TRUE /\ Offset(a.r) = n ELSE a.ok = FALSE /\ Offset(a.r) = l
      /\ n > o => Firm(a.r)
  BY <1>1, SeekToIs DEF Moves
<1> HIDE DEF a
<1>4. /\ (app.out)' = <<"seek", a.ok, <<>>>>
      /\ (FlattenSeq(app.r.chunks))' = FlattenSeq(app.r.chunks)
      /\ (Offset(app.r))' = Offset(a.r)
      /\ Stumbles' = ~Firm(a.r)
  <2>1. /\ (app.out)' = <<"seek", a.ok, IF a.ok THEN a.data ELSE <<>>>>
        /\ (FlattenSeq(app.r.chunks))' = FlattenSeq(app.r.chunks)
        /\ (Offset(app.r))' = Offset(a.r)
        /\ Stumbles' = ~Firm(a.r)
    BY <1>2, <1>3, FlatStep
  <2> QED
    BY <1>3, <2>1, EmptyOut, Zenon
<1>5. o \in Nat /\ l \in Nat /\ o <= l /\ l = Len(FlattenSeq(app.r.chunks))
  BY <1>1, OffsetIn DEF DataOf
<1> HIDE DEF l
<1>6. CASE n > l
  <2>1. a.ok = FALSE /\ Offset(a.r) = l /\ Firm(a.r)
    BY <1>1, <1>3, <1>5, <1>6
  <2>2. (app.out)' = <<"seek", FALSE, <<>>>> /\ Stumbles' = FALSE
    BY <1>4, <2>1, Zenon
  <2>3. Flat!Go("seek", FALSE, <<>>, Len(FlattenSeq(app.r.chunks)))
    BY <1>4, <1>5, <2>1, <2>2 DEF Flat!Go
  <2> QED
    BY <1>2, <1>3, <1>5, <1>6, <2>3 DEF Flat!Next, Flat!Seek
<1>7. CASE n <= l
  <2>1. a.ok = TRUE /\ Offset(a.r) = n
    BY <1>3, <1>7
  <2>2. (app.out)' = <<"seek", TRUE, <<>>>> /\ Stumbles' \in BOOLEAN
    BY <1>4, <2>1, Zenon
  <2>3. CASE n > o
    <3>1. Stumbles' = FALSE
      BY <1>3, <1>4, <2>3
    <3>2. Flat!Go("seek", TRUE, <<>>, n)
      BY <1>4, <2>1, <2>2, <3>1 DEF Flat!Go
    <3>3. n >= o
      BY <1>1, <1>5, <2>3
    <3> QED
      BY <1>2, <1>3, <1>5, <1>7, <3>2, <3>3 DEF Flat!Next, Flat!Seek
  <2>4. CASE ~(n > o)
    <3>1. n <= o
      BY <1>1, <1>5, <2>4
    <3>2. Flat!Seek(n)
      BY <1>4, <2>1, <2>2, <3>1 DEF Flat!Seek
    <3> QED
      BY <1>2, <1>3, <3>2 DEF Flat!Next
  <2> QED
    BY <2>3, <2>4
<1> QED
  BY <1>1, <1>5, <1>6, <1>7

----------------------------------------------------------------------------
(* Steps of the application, and all steps together *)

LEMMA OpenStep ==
    ASSUME AppTyped, OpenReader
    PROVE  AppTyped' /\ Flat!Open
<1>1. PICK k \in DOMAIN got : app' = [k |-> k, r |-> Reader(got[k].bytes), out |-> app.out]
  BY DEF OpenReader
<1> DEFINE v == got[k].bytes
<1>2. k \in Nat /\ k # 0 /\ v \in Vecs
  <2>1. got \in Seq(Messages)
    BY DEF AppTyped
  <2>2. DOMAIN got = 1..Len(got) /\ Len(got) \in Nat
    BY <2>1, LenProperties
  <2>3. got[k] \in Messages
    BY <2>1, <2>2, ElementOfSeq
  <2> QED
    BY <2>2, <2>3 DEF Messages
<1>3. app' = [k |-> k, r |-> Reader(v), out |-> app.out]
  BY <1>1
<1> HIDE DEF v
<1>4. Reader(v) \in Readers /\ Firm(Reader(v)) /\ Offset(Reader(v)) = 0
  BY <1>2, ReaderIs
<1>5. app'.k = k /\ app'.r = Reader(v) /\ app'.out = app.out
  BY <1>3
<1>6. AppTyped'
  BY <1>2, <1>3, <1>4, <1>5 DEF AppTyped, OpenReader
<1>7. app.out = Flat!Opened
  BY DEF AppTyped, OpenReader
<1>8. (Offset(app.r))' = 0 /\ (app.out)' = Flat!Opened
  BY <1>4, <1>5, <1>7
<1>9. Stumbles' = FALSE
  BY <1>4, <1>5 DEF Stumbles, Firm, AtChunk, ChunkOf, Readers
<1> QED
  BY <1>6, <1>8, <1>9 DEF Flat!Open

LEMMA ReadStep ==
    ASSUME AppTyped, ReadOn
    PROVE  AppTyped' /\ Flat!Next
<1>1. app.k # 0 /\ got' = got
  BY DEF ReadOn
<1>2. PICK n \in Counts : Operation(n)
  BY DEF ReadOn
<1>3. Flat!Next /\ \E op, a, bytes : Answers(op, a, bytes) /\ Moves(app.r, a)
  <2>1. \/ Answer("read", Read(app.r, n), Read(app.r, n).data)
        \/ Answer("exact", ReadExact(app.r, n), ReadExact(app.r, n).data)
        \/ Answer("u8", ReadU8(app.r), ReadU8(app.r).data)
        \/ Answer("chunk", ReadChunk(app.r, n), ReadChunk(app.r, n).data)
        \/ Answer("contiguous", ReadContiguous(app.r, n), ReadContiguous(app.r, n).data)
        \/ Answer("chunks", ReadChunks(app.r, n), Content(ReadChunks(app.r, n).data))
        \/ Answer("siphon", Siphon(app.r, n), Siphon(app.r, n).data)
        \/ Answer("skip", Skip(app.r, n), Skip(app.r, n).data)
        \/ Answer("seek", SeekTo(app.r, n), SeekTo(app.r, n).data)
        \/ Answer("backtrack", Backtrack(app.r, n), Backtrack(app.r, n).data)
    BY <1>2 DEF Operation
  <2> QED
    BY <1>1, <2>1, FlatRead, FlatExact, FlatViews, FlatSkip, FlatSeek, FlatBacktrack
<1> QED
  BY <1>1, <1>3, AnswerTyped

LEMMA SenderKept == SenderTyped /\ UNCHANGED <<batchSize, senderVars, wire>> => SenderTyped'
BY DEF SenderTyped, senderVars

LEMMA ReceiverKept == ReceiverTyped /\ UNCHANGED receiverVars => ReceiverTyped'
BY DEF ReceiverTyped, receiverVars

LEMMA AppKept == AppTyped /\ UNCHANGED <<app, got>> => AppTyped'
BY DEF AppTyped

LEMMA AppSame == UNCHANGED app => UNCHANGED Flat!vars
BY DEF Flat!vars, Stumbles

LEMMA StepTyped ==
    ASSUME Typed, [Next]_vars
    PROVE  Typed' /\ [Flat!Next]_(Flat!vars)
<1>1. SenderTyped /\ ReceiverTyped /\ AppTyped
  BY DEF Typed
<1>2. CASE \E plan \in Plans, qos \in Qos : Send(plan, qos)
  <2>1. PICK plan \in Plans, qos \in Qos : Send(plan, qos)
    BY <1>2
  <2>2. SenderTyped'
    BY <1>1, <2>1, SendTyped
  <2>3. UNCHANGED receiverVars /\ UNCHANGED <<app, got>>
    BY <2>1 DEF Send
  <2> QED
    BY <1>1, <2>2, <2>3, ReceiverKept, AppKept, AppSame DEF Typed
<1>3. CASE SendStep
  <2>1. SenderTyped' /\ UNCHANGED receiverVars /\ UNCHANGED <<app, got>>
    <3>1. ASSUME NEW flush \in BOOLEAN, Append1(flush)
          PROVE  SenderTyped' /\ UNCHANGED receiverVars /\ UNCHANGED <<app, got>>
      BY <1>1, <3>1, AppendTyped DEF Append1
    <3>2. ASSUME NEW flush \in BOOLEAN, WriteFrame(flush)
          PROVE  SenderTyped' /\ UNCHANGED receiverVars /\ UNCHANGED <<app, got>>
      BY <1>1, <3>2, FrameTyped DEF WriteFrame
    <3>3. CASE WriteFirst
      BY <1>1, <3>3, FirstTyped DEF WriteFirst
    <3>4. CASE WriteNext
      BY <1>1, <3>4, NextTyped DEF WriteNext
    <3>5. CASE Flush
      BY <1>1, <3>5, FlushTyped DEF Flush
    <3> QED
      BY <1>3, <3>1, <3>2, <3>3, <3>4, <3>5 DEF SendStep
  <2> QED
    BY <1>1, <2>1, ReceiverKept, AppKept, AppSame DEF Typed
<1>4. CASE Receive
  <2>1. ReceiverTyped' /\ wire' \in Seq(Nat)
    BY <1>1, <1>4, ReceiveTyped
  <2>2. UNCHANGED <<batchSize, senderVars>> /\ UNCHANGED <<app, got>>
    BY <1>4 DEF Receive
  <2>3. SenderTyped'
    BY <1>1, <2>1, <2>2 DEF SenderTyped, senderVars
  <2> QED
    BY <1>1, <2>1, <2>2, <2>3, AppKept, AppSame DEF Typed
<1>5. CASE Pull
  <2>1. inbox' \in Seq(Boxes) /\ got' \in Seq(Messages)
    BY <1>1, <1>5, PullTyped DEF AppTyped
  <2>2. UNCHANGED <<batchSize, senderVars, wire>> /\ UNCHANGED <<alive, defrag, seen>> /\ app' = app
    BY <1>5 DEF Pull
  <2>3. ReceiverTyped'
    BY <1>1, <2>1, <2>2 DEF ReceiverTyped
  <2>4. AppTyped'
    BY <1>1, <2>1, <2>2 DEF AppTyped
  <2> QED
    BY <1>1, <2>2, <2>3, <2>4, SenderKept, AppSame DEF Typed
<1>6. CASE OpenReader
  <2>1. AppTyped' /\ Flat!Open
    BY <1>1, <1>6, OpenStep
  <2>2. UNCHANGED <<batchSize, senderVars, wire>> /\ UNCHANGED receiverVars
    BY <1>6 DEF OpenReader
  <2> QED
    BY <1>1, <2>1, <2>2, SenderKept, ReceiverKept DEF Typed, Flat!Next
<1>7. CASE ReadOn
  <2>1. AppTyped' /\ Flat!Next
    BY <1>1, <1>7, ReadStep
  <2>2. /\ UNCHANGED <<batchSize, enc, booked, sns, sent, spoiled, wire>> /\ UNCHANGED receiverVars
        /\ quota' = [quota EXCEPT !.reads = @ - 1] /\ quota.reads > 0
    BY <1>7 DEF ReadOn
  <2>3. quota' \in [sends : Nat, reads : Nat]
    <3>1. quota \in [sends : Nat, reads : Nat] /\ quota.reads - 1 \in Nat
      BY <1>1, <2>2 DEF SenderTyped
    <3> QED
      BY <2>2, <3>1
  <2>4. SenderTyped'
    BY <1>1, <2>2, <2>3 DEF SenderTyped
  <2> QED
    BY <1>1, <2>1, <2>2, <2>4, ReceiverKept DEF Typed
<1>8. CASE UNCHANGED vars
  <2>1. UNCHANGED <<batchSize, senderVars, wire>> /\ UNCHANGED receiverVars /\ UNCHANGED <<app, got>>
    BY <1>8 DEF vars
  <2> QED
    BY <1>1, <2>1, SenderKept, ReceiverKept, AppKept, AppSame DEF Typed
<1> QED
  BY <1>2, <1>3, <1>4, <1>5, <1>6, <1>7, <1>8 DEF Next

\* The types of the state, the shape of TypeOK.
LEMMA TypedTypes == Typed => TypeOK
<1> SUFFICES ASSUME Typed PROVE TypeOK
  OBVIOUS
<1>1. SenderTyped /\ ReceiverTyped /\ AppTyped
  BY DEF Typed
<1>2. enc.pc \in {"idle", "append", "fresh", "more"}
  BY <1>1 DEF SenderTyped, Encs, Idle, Starting, Going
<1>3. Len(booked) <= 1 /\ \A i \in DOMAIN booked : booked[i].cc \in Ccs
  <2>1. booked \in Booked
    BY <1>1 DEF SenderTyped
  <2>2. CASE booked = <<>>
    BY <2>2
  <2>3. CASE \E b \in Batches : booked = <<b>>
    <3>1. PICK b \in Batches : booked = <<b>>
      BY <2>3
    <3>2. b.cc \in Ccs
      BY DEF Batches
    <3>3. Len(booked) = 1 /\ DOMAIN booked = {1} /\ booked[1] = b
      BY <3>1
    <3> QED
      BY <3>2, <3>3
  <2> QED
    BY <2>1, <2>2, <2>3 DEF Booked
<1>4. DOMAIN sns = Ccs \cup {"fragid"} /\ \A g \in DOMAIN sns : sns[g] \in SeqNums
  BY <1>1 DEF SenderTyped
<1>5. \A cc \in Ccs : defrag[cc].sn \in SeqNums /\ defrag[cc].fragid \in SeqNums
  BY <1>1 DEF ReceiverTyped, Defrags
<1>6. ASSUME NEW i \in DOMAIN inbox PROVE inbox[i].pos.slice <= Len(inbox[i].bytes.items)
  <2>1. inbox \in Seq(Boxes) /\ i \in 1..Len(inbox)
    BY <1>1, <1>6, LenProperties DEF ReceiverTyped
  <2>2. inbox[i] \in Boxes
    BY <2>1, ElementOfSeq
  <2> QED
    BY <2>2 DEF Boxes, Readers, CursorOf
<1> QED
  BY <1>1, <1>2, <1>3, <1>4, <1>5, <1>6 DEF TypeOK, SenderTyped, ReceiverTyped

\* The state keeps its types: the push under way holds a reader that is at a byte of its
\* message, a batch in the ring keeps a cursor that is within its bytes (push of tx.rs,
\* try_pull of rx.rs).
THEOREM WireTypes == Spec => []TypeOK
<1>1. Init => Typed
  BY InitTyped
<1>2. Typed /\ [Next]_vars => Typed'
  BY StepTyped
<1>3. Typed => TypeOK
  BY TypedTypes
<1> QED
  BY <1>1, <1>2, <1>3, PTL DEF Spec

LEMMA TypedAgree == Typed => DecodersAgree
<1> SUFFICES ASSUME Typed, inbox # <<>>,
                    NEW s, s = SeekMark(Reader(inbox[1].bytes), inbox[1].pos), s.ok
             PROVE  IF ReadBytes(s.r).ok
                    THEN /\ SameAs(ReadVec(s.r), ReadBytes(s.r))
                         /\ \/ ReadBytes(s.r).data = NoBytes
                            \/ SameAs(ReadChunkField(s.r), ReadBytes(s.r))
                    ELSE ~ReadVec(s.r).ok
  BY Zenon DEF DecodersAgree, SameAs
<1>1. inbox[1] \in Boxes
  <2>1. inbox \in Seq(Boxes)
    BY DEF Typed, ReceiverTyped
  <2>2. 1 \in 1..Len(inbox)
    BY <2>1, EmptySeq
  <2> QED
    BY <2>1, <2>2, ElementOfSeq
<1> DEFINE b == inbox[1]
           c == CursorOf(b)
<1>2. c \in Readers /\ Firm(c)
  BY <1>1 DEF Boxes
<1>3. s = Ok(<<>>, c) \/ s = Fail(Reader(b.bytes))
  BY <1>1, SeekKept
<1> HIDE DEF b, c
<1>4. s.r = c
  BY <1>3 DEF Ok, Fail
<1> QED
  BY <1>2, <1>4, DecodersSame

\* However a payload is decoded, as Bytes, as a Chunk or as a vector, the bytes are the
\* same and so is the place where the reader goes on; what one decoder of a vector or of
\* Bytes refuses, the other refuses (codec/core).
THEOREM PayloadsDecodeAlike == Spec => []DecodersAgree
<1>1. Init => Typed
  BY InitTyped
<1>2. Typed /\ [Next]_vars => Typed'
  BY StepTyped
<1>3. Typed => DecodersAgree
  BY TypedAgree
<1> QED
  BY <1>1, <1>2, <1>3, PTL DEF Spec

LEMMA InitFlat == Init => Flat!Init
<1> SUFFICES ASSUME Init PROVE Flat!Init
  OBVIOUS
<1> DEFINE r == Reader(NoBytes)
<1>1. r \in Readers /\ Firm(r) /\ Offset(r) = 0 /\ DataOf(r) = <<>>
  BY NoBytesIs, ReaderIs
<1>2. app = [k |-> 0, r |-> r, out |-> <<"open", TRUE, <<>>>>]
  BY DEF Init, Unread
<1> HIDE DEF r
<1>3. app.r = r /\ app.out = <<"open", TRUE, <<>>>>
  BY <1>2
<1>4. FlattenSeq(app.r.chunks) = <<>> /\ Offset(app.r) = 0
  BY <1>1, <1>3 DEF DataOf
<1>5. Stumbles = FALSE
  BY <1>1, <1>3, StumblesIs
<1> QED
  BY <1>3, <1>4, <1>5 DEF Flat!Init, Flat!Opened

\* A reader of a received message implements a reader of one flat sequence of bytes: in
\* however many chunks the bytes are, and wherever the chunks end, every operation gives
\* the bytes at the position, moves by what it gives, and refuses only where FlatReader
\* says so (BytesReader of bytes.rs).
THEOREM ImplementsFlatReader == Spec => ReadsFlat
<1>1. Init => Typed /\ Flat!Init
  BY InitTyped, InitFlat
<1>2. Typed /\ [Next]_vars => Typed' /\ [Flat!Next]_(Flat!vars)
  BY StepTyped
<1> QED
  BY <1>1, <1>2, PTL DEF Spec, ReadsFlat, Flat!Spec

----------------------------------------------------------------------------
(* Batches on their way *)

\* A batch: its header and what follows.  Where a fragment that is not the first has
\* room for data behind any header, it carries some.
HeadOf(d) == HeaderBytes(QosByte(d.q.prio, d.q.cc, d.q.express), d.sn, d.body, d.fid)
BytesOf(d) == HeadOf(d) \o d.tail
Roomy(n) == LenMax < 65536 /\ HeaderLen(Modulus - 1, "more", Modulus - 1) < n
Sendable(n) ==
    {d \in [q : Qualities, sn : SeqNums, body : Bodies, fid : SeqNums, tail : Seq(Nat)] :
        /\ Len(BytesOf(d)) <= n
        /\ Roomy(n) /\ d.body \in {"more", "last"} => d.tail # <<>>}
Announced(d) == <<Len(BytesOf(d))>> \o BytesOf(d)
InFlight(ds) == FlattenSeq([i \in 1..Len(ds) |-> Announced(ds[i])])

\* The numbers of the batches ds: each is the one after the last of its congestion
\* control, from g[0] to g[Len(ds)].
Counted(ds, g) ==
    \A i \in 1..Len(ds) :
        /\ ds[i].sn = Next_Sn(g[i - 1][ds[i].q.cc])
        /\ g[i] = [g[i - 1] EXCEPT ![ds[i].q.cc] = ds[i].sn]

\* w carries batches numbered from s to e.
Carries(n, w, s, e) ==
    \E ds \in Seq(Sendable(n)), g \in [Nat -> [Ccs -> SeqNums]] :
        w = InFlight(ds) /\ Counted(ds, g) /\ g[0] = s /\ g[Len(ds)] = e

\* Bytes that d has at o are its part from there.
LEMMA ShowsPart ==
    ASSUME NEW d \in Seq(Nat), NEW o \in Nat, NEW c \in Seq(Nat), Shows(d, o, c)
    PROVE  Part(d, o, Len(c)) = c
<1>1. Len(c) \in Nat /\ o + Len(c) <= Len(d) /\ \A i \in 1..Len(c) : d[o + i] = c[i]
  <2>1. Len(c) \in Nat
    OBVIOUS
  <2>2. o + Len(c) <= Len(d) /\ \A i \in 1..Len(c) : d[o + i] = c[i]
    BY Zenon DEF Shows
  <2> QED
    BY <2>1, <2>2, Zenon
<1> DEFINE p == Part(d, o, Len(c))
<1>2. p \in Seq(Nat) /\ Len(p) = Len(c) /\ \A i \in 1..Len(c) : p[i] = d[o + i]
  BY <1>1, PartIs
<1> HIDE DEF p
<1>3. \A i \in 1..Len(c) : p[i] = c[i]
  BY <1>1, <1>2
<1>4. p = c
  BY <1>2, <1>3, SeqEqual
<1> QED
  BY <1>4 DEF p

\* One number in front of a sequence.
LEMMA Prefixed ==
    ASSUME NEW x \in Nat, NEW b \in Seq(Nat)
    PROVE  /\ <<x>> \o b \in Seq(Nat) /\ Len(<<x>> \o b) = 1 + Len(b) /\ (<<x>> \o b)[1] = x
           /\ \A i \in 1..Len(b) : (<<x>> \o b)[i + 1] = b[i]
<1> DEFINE a == <<x>>
           n == Len(b)
<1>1. a \in Seq(Nat) /\ Len(a) = 1 /\ a[1] = x /\ n \in Nat
  OBVIOUS
<1> HIDE DEF a
<1>2. /\ a \o b \in Seq(Nat) /\ Len(a \o b) = 1 + n
      /\ \A i \in 1..(1 + n) : (a \o b)[i] = IF i <= 1 THEN a[i] ELSE b[i - 1]
  <2>1. /\ a \o b \in Seq(Nat) /\ Len(a \o b) = Len(a) + n
        /\ \A i \in 1..(Len(a) + n) : (a \o b)[i] = IF i <= Len(a) THEN a[i] ELSE b[i - Len(a)]
    BY <1>1, ConcatProperties
  <2> HIDE DEF n
  <2> QED
    BY <1>1, <2>1
<1> DEFINE c == a \o b
<1> HIDE DEF n, c
<1>3. 1 \in 1..(1 + n)
  BY <1>1
<1>4. c[1] = x
  BY <1>1, <1>2, <1>3 DEF c
<1>5. \A i \in 1..n : i + 1 \in 1..(1 + n) /\ ~(i + 1 <= 1) /\ (i + 1) - 1 = i
  BY <1>1
<1>6. \A i \in 1..n : c[i + 1] = b[i]
  BY <1>2, <1>5 DEF c
<1> QED
  BY <1>2, <1>4, <1>6 DEF a, n, c

\* A batch is not empty and fits, its header is as long as HeaderLen says.
LEMMA BytesOfIs ==
    ASSUME NEW n, NEW d \in Sendable(n)
    PROVE  /\ HeadOf(d) \in Seq(Nat) /\ HeadOf(d) # <<>> /\ d.tail \in Seq(Nat)
           /\ BytesOf(d) \in Chunk /\ BytesOf(d) \in Seq(Nat)
           /\ Len(BytesOf(d)) = Len(HeadOf(d)) + Len(d.tail) /\ Len(BytesOf(d)) \in Nat
           /\ Len(BytesOf(d)) > 0 /\ Len(BytesOf(d)) <= n /\ d.q.cc \in Ccs
           /\ Announced(d) \in Seq(Nat) /\ Len(Announced(d)) = 1 + Len(BytesOf(d))
           /\ Len(HeadOf(d)) = HeaderLen(d.sn, d.body, d.fid)
<1>1. /\ d.q \in Qualities /\ d.sn \in SeqNums /\ d.body \in Bodies /\ d.fid \in SeqNums
      /\ d.tail \in Seq(Nat) /\ Len(BytesOf(d)) <= n
  BY DEF Sendable
<1>2. d.q.cc \in Ccs /\ d.q.prio \in Nat
  BY <1>1 DEF Qualities, Ccs
<1> DEFINE x == QosByte(d.q.prio, d.q.cc, d.q.express)
<1>3. x \in Nat /\ d.sn \in Nat /\ d.fid \in Nat
  BY <1>1, <1>2, QosByteIs, SnTypes
<1> HIDE DEF x
<1> DEFINE h == HeaderBytes(x, d.sn, d.body, d.fid)
           b == BytesOf(d)
<1>4. h \in Seq(Nat) /\ Len(h) = HeaderLen(d.sn, d.body, d.fid)
  <2>1. \A q \in Nat, sn \in Nat, body \in Bodies, fid \in Nat :
            /\ HeaderBytes(q, sn, body, fid) \in Seq(Nat)
            /\ Len(HeaderBytes(q, sn, body, fid)) = HeaderLen(sn, body, fid)
    BY HeaderBytesAre
  <2> QED
    BY <1>1, <1>3, <2>1
<1>5. Len(h) > 0
  <2>1. HeaderLen(d.sn, d.body, d.fid) =
            1 + VleLen(d.sn) + (IF d.body = "frame" THEN 1 ELSE 1 + VleLen(d.fid))
    BY DEF HeaderLen, FragmentLen, SnLen
  <2>2. VleLen(d.sn) \in Nat /\ VleLen(d.fid) \in Nat
    BY <1>3, VleLenIs
  <2> HIDE DEF h
  <2> QED
    BY <1>4, <2>1, <2>2
<1>6. HeadOf(d) = h
  BY DEF HeadOf, x
<1>7. b = h \o d.tail
  BY <1>6 DEF BytesOf
<1> HIDE DEF h, b
<1>8. b \in Seq(Nat) /\ Len(b) = Len(h) + Len(d.tail) /\ Len(b) \in Nat /\ Len(d.tail) \in Nat
  BY <1>1, <1>4, <1>7, ConcatProperties, LenProperties
<1>9. Len(b) > 0 /\ Len(h) \in Nat
  BY <1>4, <1>5, <1>8, LenProperties
<1>10. b # <<>> /\ h # <<>>
  BY <1>4, <1>5, <1>8, <1>9, EmptySeq
<1>11. Announced(d) = <<Len(b)>> \o b
  BY DEF Announced, b
<1>13. Announced(d) \in Seq(Nat) /\ Len(Announced(d)) = 1 + Len(b)
  <2> DEFINE n1 == Len(b)
             a == <<n1>> \o b
  <2>1. n1 \in Nat /\ Announced(d) = a
    BY <1>8, <1>11
  <2> HIDE DEF n1
  <2>2. a \in Seq(Nat) /\ Len(a) = 1 + Len(b)
    BY <1>8, <2>1, Prefixed
  <2> HIDE DEF a
  <2> QED
    BY <2>1, <2>2
<1> QED
  BY <1>1, <1>2, <1>4, <1>6, <1>8, <1>9, <1>10, <1>13 DEF Chunk, b

\* The first of what is announced.
LEMMA Opened ==
    ASSUME NEW b \in Seq(Nat), NEW w \in Seq(Nat), NEW v, v = (<<Len(b)>> \o b) \o w
    PROVE  /\ v \in Seq(Nat) /\ Len(v) = 1 + Len(b) + Len(w) /\ v # <<>> /\ v[1] = Len(b)
           /\ SubSeq(v, 2, v[1] + 1) = b /\ SubSeq(v, v[1] + 2, Len(v)) = w
<1> DEFINE n == Len(b)
           m == Len(w)
           a == <<n>> \o b
<1>1. n \in Nat /\ m \in Nat
  OBVIOUS
<1>2. /\ a \in Seq(Nat) /\ Len(a) = 1 + n /\ a[1] = n /\ \A i \in 1..n : a[i + 1] = b[i]
  BY <1>1, Prefixed
<1> HIDE DEF a
<1>3. v = a \o w
  BY DEF a
<1>4. /\ v \in Seq(Nat) /\ Len(v) = 1 + n + m
      /\ \A i \in 1..(1 + n + m) : v[i] = IF i <= 1 + n THEN a[i] ELSE w[i - (1 + n)]
  BY <1>2, <1>3, ConcatProperties
<1>5. v[1] = n
  <2>1. 1 \in 1..(1 + n + m) /\ 1 <= 1 + n
    BY <1>1
  <2>2. v[1] = IF 1 <= 1 + n THEN a[1] ELSE w[1 - (1 + n)]
    BY <1>4, <2>1
  <2> QED
    BY <1>2, <2>1, <2>2
<1>6. v # <<>>
  <2> HIDE DEF n, m
  <2>1. Len(v) # 0
    BY <1>1, <1>4
  <2> QED
    BY <2>1, EmptySeq
<1> HIDE DEF n, m
<1>7. Part(v, 1, n) = b
  <2>1. ASSUME NEW i \in 1..n PROVE v[1 + i] = b[i]
    <3>1. 1 + i \in 1..(1 + n + m) /\ 1 + i <= 1 + n /\ 1 + i = i + 1
      BY <1>1
    <3>2. v[1 + i] = a[1 + i]
      BY <1>4, <3>1
    <3> QED
      BY <1>2, <3>1, <3>2
  <2>2. 1 + n <= Len(v)
    BY <1>1, <1>4
  <2>3. Shows(v, 1, b)
    BY <2>1, <2>2 DEF Shows, n
  <2>4. 1 \in Nat
    OBVIOUS
  <2>5. Part(v, 1, Len(b)) = b
    BY <1>4, <2>3, <2>4, ShowsPart
  <2> QED
    BY <2>5 DEF n
<1>8. Part(v, 1 + n, m) = w
  <2>1. ASSUME NEW i \in 1..m PROVE v[(1 + n) + i] = w[i]
    <3>1. /\ (1 + n) + i \in 1..(1 + n + m) /\ ~((1 + n) + i <= 1 + n)
          /\ ((1 + n) + i) - (1 + n) = i
      BY <1>1
    <3> QED
      BY <1>4, <3>1
  <2>2. (1 + n) + m <= Len(v) /\ 1 + n \in Nat
    BY <1>1, <1>4
  <2>3. Shows(v, 1 + n, w)
    BY <2>1, <2>2 DEF Shows, m
  <2>5. Part(v, 1 + n, Len(w)) = w
    BY <1>4, <2>2, <2>3, ShowsPart
  <2> QED
    BY <2>5 DEF m
<1>9. SubSeq(v, 2, n + 1) = b
  <2>1. 1 + 1 = 2 /\ 1 + n = n + 1
    BY <1>1
  <2> QED
    BY <1>7, <2>1 DEF Part
<1>10. SubSeq(v, n + 2, Len(v)) = w
  <2>1. (1 + n) + 1 = n + 2 /\ (1 + n) + m = Len(v)
    BY <1>1, <1>4
  <2> QED
    BY <1>8, <2>1 DEF Part
<1> QED
  BY <1>4, <1>5, <1>6, <1>9, <1>10 DEF n, m

LEMMA InFlightIs ==
    ASSUME NEW n, NEW ds \in Seq(Sendable(n))
    PROVE  /\ [i \in 1..Len(ds) |-> Announced(ds[i])] \in Seq(Seq(Nat))
           /\ InFlight(ds) \in Seq(Nat)
<1> DEFINE m == [i \in 1..Len(ds) |-> Announced(ds[i])]
<1>1. \A i \in 1..Len(ds) : Announced(ds[i]) \in Seq(Nat)
  BY ElementOfSeq, BytesOfIs
<1>2. m \in Seq(Seq(Nat))
  BY <1>1
<1> HIDE DEF m
<1>3. FlattenSeq(m) \in Seq(Nat)
  BY <1>2, PreSteps
<1> QED
  BY <1>2, <1>3 DEF InFlight, m

\* One more batch on the wire, and the first one taken from it.
LEMMA InFlightAppend ==
    ASSUME NEW n, NEW ds \in Seq(Sendable(n)), NEW d \in Sendable(n)
    PROVE  InFlight(Append(ds, d)) = InFlight(ds) \o Announced(d)
<1> DEFINE m == [i \in 1..Len(ds) |-> Announced(ds[i])]
           es == Append(ds, d)
           l == [i \in 1..Len(es) |-> Announced(es[i])]
           c == Announced(d)
<1>1. m \in Seq(Seq(Nat)) /\ c \in Seq(Nat) /\ Len(m) = Len(ds) /\ Len(ds) \in Nat
  BY InFlightIs, BytesOfIs
<1>2. es \in Seq(Sendable(n)) /\ Len(es) = Len(ds) + 1
      /\ \A i \in 1..Len(ds) : es[i] = ds[i]
      /\ es[Len(ds) + 1] = d
  BY AppendProperties
<1>3. l \in Seq(Seq(Nat)) /\ Len(l) = Len(ds) + 1
  <2>1. l \in Seq(Seq(Nat))
    BY <1>2, InFlightIs
  <2>2. DOMAIN l = 1..(Len(ds) + 1)
    BY <1>2
  <2> HIDE DEF l
  <2> QED
    BY <1>1, <2>1, <2>2, LenProperties
<1>4. Append(m, c) \in Seq(Seq(Nat)) /\ Len(Append(m, c)) = Len(ds) + 1
      /\ \A i \in 1..Len(ds) : Append(m, c)[i] = m[i]
      /\ Append(m, c)[Len(ds) + 1] = c
  BY <1>1, AppendProperties
<1>5. ASSUME NEW i \in 1..(Len(ds) + 1) PROVE l[i] = Append(m, c)[i]
  <2>1. l[i] = Announced(es[i])
    BY <1>2
  <2>2. CASE i = Len(ds) + 1
    BY <1>2, <1>4, <2>1, <2>2
  <2>3. CASE i # Len(ds) + 1
    <3>1. i \in 1..Len(ds)
      BY <1>1, <2>3
    <3>2. m[i] = Announced(ds[i])
      BY <3>1
    <3> QED
      BY <1>2, <1>4, <2>1, <3>1, <3>2
  <2> QED
    BY <2>2, <2>3
<1> HIDE DEF m, l, c, es
<1>6. l = Append(m, c)
  BY <1>3, <1>4, <1>5, SeqEqual
<1>7. FlattenSeq(l) = FlattenSeq(m) \o c
  BY <1>1, <1>6, FlattenAppend
<1>8. FlattenSeq(l) = InFlight(Append(ds, d)) /\ FlattenSeq(m) = InFlight(ds)
  BY DEF InFlight, l, m, es
<1> QED
  BY <1>7, <1>8 DEF c

LEMMA InFlightHead ==
    ASSUME NEW n, NEW ds \in Seq(Sendable(n)), ds # <<>>
    PROVE  /\ InFlight(ds) = Announced(ds[1]) \o InFlight(Tail(ds))
           /\ ds[1] \in Sendable(n) /\ Tail(ds) \in Seq(Sendable(n)) /\ Len(Tail(ds)) = Len(ds) - 1
           /\ Len(ds) \in Nat /\ Len(ds) # 0
           /\ \A i \in 1..(Len(ds) - 1) : Tail(ds)[i] = ds[i + 1]
<1> DEFINE k == Len(ds)
           es == Tail(ds)
           c == Announced(ds[1])
           m == [i \in 1..Len(es) |-> Announced(es[i])]
           l == [i \in 1..k |-> Announced(ds[i])]
           t == <<c>> \o m
<1>1. k \in Nat /\ k # 0
  BY EmptySeq
<1>2. es \in Seq(Sendable(n)) /\ Len(es) = k - 1 /\ \A i \in 1..(k - 1) : es[i] = ds[i + 1]
  <2>1. es \in Seq(Sendable(n)) /\ Len(es) = Len(ds) - 1 /\ \A i \in 1..Len(es) : es[i] = ds[i + 1]
    BY HeadTailProperties
  <2> QED
    BY <2>1
<1>3. ds[1] \in Sendable(n)
  <2>1. 1 \in 1..Len(ds)
    BY <1>1
  <2> QED
    BY <2>1, ElementOfSeq
<1>4. c \in Seq(Nat) /\ m \in Seq(Seq(Nat)) /\ l \in Seq(Seq(Nat)) /\ Len(l) = k /\ Len(m) = k - 1
  <2>1. c \in Seq(Nat)
    BY <1>3, BytesOfIs
  <2>2. [i \in 1..Len(ds) |-> Announced(ds[i])] \in Seq(Seq(Nat))
    BY InFlightIs
  <2>3. m \in Seq(Seq(Nat))
    <3> HIDE DEF es
    <3> QED
      BY <1>2, InFlightIs
  <2>4. Len(l) = k
    BY <1>1
  <2>5. Len(m) = k - 1
    <3> DEFINE j == Len(es)
    <3>1. j \in Nat /\ j = k - 1
      BY <1>1, <1>2
    <3> HIDE DEF j
    <3>2. Len([i \in 1..j |-> Announced(es[i])]) = j
      BY <3>1
    <3> QED
      BY <3>1, <3>2 DEF j
  <2> QED
    BY <2>1, <2>2, <2>3, <2>4, <2>5
<1> HIDE DEF k
<1>5. /\ <<c>> \in Seq(Seq(Nat)) /\ Len(<<c>>) = 1 /\ <<c>>[1] = c
  BY <1>4
<1> DEFINE u == <<c>>
<1>6. /\ t \in Seq(Seq(Nat)) /\ Len(t) = k
      /\ \A i \in 1..k : t[i] = IF i <= 1 THEN c ELSE m[i - 1]
  <2> HIDE DEF u, m
  <2>1. u \in Seq(Seq(Nat)) /\ Len(u) = 1 /\ u[1] = c
    BY <1>5 DEF u
  <2>2. /\ u \o m \in Seq(Seq(Nat)) /\ Len(u \o m) = Len(u) + Len(m)
        /\ \A i \in 1..(Len(u) + Len(m)) : (u \o m)[i] = IF i <= Len(u) THEN u[i] ELSE m[i - Len(u)]
    BY <1>4, <2>1, ConcatProperties
  <2>3. Len(u) + Len(m) = k
    BY <1>1, <1>4, <2>1
  <2>4. \A i \in 1..k : i <= 1 => i = 1
    BY <1>1
  <2>5. \A i \in 1..k : (u \o m)[i] = IF i <= 1 THEN c ELSE m[i - 1]
    BY <2>1, <2>2, <2>3, <2>4
  <2>6. t = u \o m
    BY DEF u
  <2> HIDE DEF t
  <2> QED
    BY <2>2, <2>3, <2>5, <2>6
<1>7. ASSUME NEW i \in 1..k PROVE l[i] = t[i]
  <2>1. l[i] = Announced(ds[i])
    OBVIOUS
  <2>2. CASE i = 1
    BY <1>6, <2>1, <2>2
  <2>3. CASE i # 1
    <3>1. i - 1 \in 1..(k - 1) /\ (i - 1) + 1 = i /\ ~(i <= 1) /\ i - 1 \in 1..Len(es)
      BY <1>1, <1>2, <2>3
    <3>2. m[i - 1] = Announced(es[i - 1])
      BY <3>1
    <3> QED
      BY <1>2, <1>6, <2>1, <3>1, <3>2
  <2> QED
    BY <2>2, <2>3
<1> HIDE DEF l, m, t, c
<1>8. l = t
  BY <1>4, <1>6, <1>7, SeqEqual
<1>9. FlattenSeq(l) = FlattenSeq(<<c>>) \o FlattenSeq(m)
  BY <1>4, <1>5, <1>8, FlattenConcat DEF t
<1>10. FlattenSeq(<<c>>) = c
  <2>1. <<>> \in Seq(Seq(Nat))
    OBVIOUS
  <2> QED
    BY <1>4, <2>1, FlattenAppend
<1>11. FlattenSeq(l) = InFlight(ds) /\ FlattenSeq(m) = InFlight(es)
  BY DEF InFlight, l, m, k
<1> QED
  BY <1>1, <1>2, <1>3, <1>9, <1>10, <1>11 DEF k, c

\* A number for each congestion control.
Grades == [Ccs -> SeqNums]

\* Nothing is on the wire; one more batch; the first batch is taken.
LEMMA CarriesNone ==
    ASSUME NEW n, NEW s \in Grades
    PROVE  Carries(n, <<>>, s, s)
<1> DEFINE ds == <<>>
           g == [k \in Nat |-> s]
<1>1. ds \in Seq(Sendable(n)) /\ Len(ds) = 0
  OBVIOUS
<1>2. g \in [Nat -> Grades] /\ g[0] = s
  OBVIOUS
<1>3. InFlight(ds) = <<>>
  <2> DEFINE m == [i \in 1..Len(ds) |-> Announced(ds[i])]
  <2>1. m = <<>>
    BY <1>1
  <2>2. Content(NoBytes) = <<>> /\ NoBytes.items = <<>>
    BY NoBytesIs
  <2>3. FlattenSeq(<<>>) = <<>>
    BY <2>2 DEF Content
  <2> HIDE DEF m
  <2>4. FlattenSeq(m) = <<>>
    BY <2>1, <2>3
  <2> QED
    BY <2>4 DEF InFlight, m
<1>4. Counted(ds, g)
  BY <1>1 DEF Counted
<1> QED
  BY <1>1, <1>2, <1>3, <1>4 DEF Carries, Grades

LEMMA CarriesMore ==
    ASSUME NEW n, NEW w, NEW s, NEW e, Carries(n, w, s, e),
           NEW d \in Sendable(n), d.sn = Next_Sn(e[d.q.cc])
    PROVE  /\ Carries(n, w \o Announced(d), s, [e EXCEPT ![d.q.cc] = d.sn])
           /\ [e EXCEPT ![d.q.cc] = d.sn] \in Grades
<1> DEFINE f == [e EXCEPT ![d.q.cc] = d.sn]
<1>1. PICK ds \in Seq(Sendable(n)), g \in [Nat -> Grades] :
        w = InFlight(ds) /\ Counted(ds, g) /\ g[0] = s /\ g[Len(ds)] = e
  BY DEF Carries, Grades
<1> DEFINE k == Len(ds)
           es == Append(ds, d)
           h == [g EXCEPT ![k + 1] = f]
<1>2. k \in Nat /\ k + 1 \in Nat /\ k + 1 # 0 /\ k + 1 # k /\ \A i \in 0..k : i # k + 1 /\ i \in Nat
  OBVIOUS
<1>3. e \in Grades /\ d.sn \in SeqNums /\ d.q.cc \in Ccs
  <2>1. e \in Grades
    BY <1>1, <1>2
  <2>2. d.sn \in SeqNums
    BY DEF Sendable
  <2> QED
    BY <2>1, <2>2, BytesOfIs
<1>4. f \in Grades
  BY <1>3 DEF Grades
<1>5. /\ es \in Seq(Sendable(n)) /\ Len(es) = k + 1 /\ \A i \in 1..k : es[i] = ds[i]
      /\ es[k + 1] = d
  BY AppendProperties
<1> HIDE DEF k, es, f
<1>6. /\ h \in [Nat -> Grades] /\ h[k + 1] = f /\ \A i \in 0..k : h[i] = g[i]
  BY <1>1, <1>2, <1>4
<1> HIDE DEF h
<1>7. Counted(es, h)
  <2> SUFFICES ASSUME NEW i \in 1..(k + 1)
               PROVE  /\ es[i].sn = Next_Sn(h[i - 1][es[i].q.cc])
                      /\ h[i] = [h[i - 1] EXCEPT ![es[i].q.cc] = es[i].sn]
    BY <1>5 DEF Counted
  <2>1. CASE i = k + 1
    <3>1. i - 1 = k /\ k \in 0..k
      BY <1>2, <2>1
    <3>2. h[i - 1] = e
      BY <1>1, <1>6, <3>1 DEF k
    <3> QED
      BY <1>5, <1>6, <2>1, <3>2 DEF f
  <2>2. CASE i # k + 1
    <3>1. i \in 1..k /\ i - 1 \in 0..k /\ i \in 0..k
      BY <1>2, <2>2
    <3>2. i \in 1..Len(ds)
      BY <3>1 DEF k
    <3>3. ds[i].sn = Next_Sn(g[i - 1][ds[i].q.cc]) /\ g[i] = [g[i - 1] EXCEPT ![ds[i].q.cc] = ds[i].sn]
      BY <1>1, <3>2 DEF Counted
    <3> QED
      BY <1>5, <1>6, <3>1, <3>3
  <2> QED
    BY <2>1, <2>2
<1>8. InFlight(es) = w \o Announced(d)
  BY <1>1, InFlightAppend DEF es
<1>9. h[0] = s /\ h[Len(es)] = f
  <2>1. 0 \in 0..k
    BY <1>2
  <2> QED
    BY <1>1, <1>5, <1>6, <2>1
<1>10. Carries(n, w \o Announced(d), s, f)
  BY <1>5, <1>6, <1>7, <1>8, <1>9 DEF Carries, Grades
<1> QED
  BY <1>4, <1>10 DEF f

\* What is first on the wire.
Heads(n, w, s, e, d, v) ==
    /\ d \in Sendable(n) /\ w = Announced(d) \o v /\ v \in Seq(Nat)
    /\ d.sn = Next_Sn(s[d.q.cc])
    /\ [s EXCEPT ![d.q.cc] = d.sn] \in Grades
    /\ Carries(n, v, [s EXCEPT ![d.q.cc] = d.sn], e)

LEMMA CarriesHead ==
    ASSUME NEW n, NEW w, w # <<>>, NEW s, NEW e, Carries(n, w, s, e)
    PROVE  \E d, v : Heads(n, w, s, e, d, v)
<1>1. PICK ds \in Seq(Sendable(n)), g \in [Nat -> Grades] :
        w = InFlight(ds) /\ Counted(ds, g) /\ g[0] = s /\ g[Len(ds)] = e
  BY DEF Carries, Grades
<1>2. ds # <<>>
  <2>1. CASE ds = <<>>
    <3> DEFINE m == [i \in 1..Len(ds) |-> Announced(ds[i])]
    <3>1. m = <<>>
      BY <2>1
    <3>2. Content(NoBytes) = <<>> /\ NoBytes.items = <<>>
      BY NoBytesIs
    <3>3. FlattenSeq(<<>>) = <<>>
      BY <3>2 DEF Content
    <3> HIDE DEF m
    <3>4. FlattenSeq(m) = <<>>
      BY <3>1, <3>3
    <3>5. InFlight(ds) = <<>>
      BY <3>4 DEF InFlight, m
    <3> QED
      BY <1>1, <3>5
  <2> QED
    BY <2>1
<1> DEFINE k == Len(ds)
           d == ds[1]
           es == Tail(ds)
           h == [i \in Nat |-> g[i + 1]]
           f == [s EXCEPT ![d.q.cc] = d.sn]
           v == InFlight(es)
<1>3. /\ InFlight(ds) = Announced(d) \o v
      /\ d \in Sendable(n) /\ es \in Seq(Sendable(n)) /\ Len(es) = k - 1
      /\ k \in Nat /\ k # 0
      /\ \A i \in 1..(k - 1) : es[i] = ds[i + 1]
  BY <1>2, InFlightHead
<1>4. v \in Seq(Nat)
  BY <1>3, InFlightIs
<1>5. d.sn = Next_Sn(s[d.q.cc]) /\ g[1] = f
  <2>1. 1 \in 1..Len(ds) /\ 1 - 1 = 0
    BY <1>3
  <2>2. ds[1].sn = Next_Sn(g[1 - 1][ds[1].q.cc]) /\ g[1] = [g[1 - 1] EXCEPT ![ds[1].q.cc] = ds[1].sn]
    BY <1>1, <2>1 DEF Counted
  <2> QED
    BY <1>1, <2>1, <2>2
<1> HIDE DEF d, es, v, f
<1>6. /\ h \in [Nat -> Grades] /\ \A i \in Nat : h[i] = g[i + 1]
  BY <1>1
<1> HIDE DEF h
<1>7. f \in Grades
  <2>1. 1 \in Nat
    OBVIOUS
  <2> QED
    BY <1>1, <1>5, <2>1
<1>8. Counted(es, h)
  <2> SUFFICES ASSUME NEW i \in 1..(k - 1)
               PROVE  /\ es[i].sn = Next_Sn(h[i - 1][es[i].q.cc])
                      /\ h[i] = [h[i - 1] EXCEPT ![es[i].q.cc] = es[i].sn]
    BY <1>3 DEF Counted
  <2>1. i + 1 \in 1..Len(ds) /\ (i + 1) - 1 = (i - 1) + 1 /\ i - 1 \in Nat /\ i \in Nat
    BY <1>3
  <2>2. /\ ds[i + 1].sn = Next_Sn(g[(i + 1) - 1][ds[i + 1].q.cc])
        /\ g[i + 1] = [g[(i + 1) - 1] EXCEPT ![ds[i + 1].q.cc] = ds[i + 1].sn]
    BY <1>1, <2>1 DEF Counted
  <2>3. h[i - 1] = g[(i + 1) - 1] /\ h[i] = g[i + 1]
    BY <1>6, <2>1
  <2>4. es[i] = ds[i + 1]
    BY <1>3
  <2> QED
    BY <2>2, <2>3, <2>4
<1>9. h[0] = f /\ h[Len(es)] = e
  <2>1. 0 \in Nat /\ 0 + 1 = 1 /\ Len(es) \in Nat /\ Len(es) + 1 = Len(ds)
    BY <1>3
  <2>2. h[0] = g[0 + 1] /\ h[Len(es)] = g[Len(es) + 1]
    BY <1>6, <2>1
  <2> QED
    BY <1>1, <1>5, <2>1, <2>2
<1>10. Carries(n, v, f, e)
  BY <1>3, <1>6, <1>8, <1>9 DEF Carries, Grades, v
<1> QED
  BY <1>1, <1>3, <1>4, <1>5, <1>7, <1>10 DEF Heads, f

----------------------------------------------------------------------------
(* What the receiver finds first *)

\* The receiver reads the header of a batch, and is in front of what follows it.
ReadsHead(d) ==
    LET h == ReadHeader(Reader(Single(BytesOf(d)))) IN
    /\ h.ok = TRUE /\ h.qos = d.q /\ h.sn = d.sn /\ h.body = d.body
    /\ h.fid = IF d.body = "frame" THEN 0 ELSE d.fid
    /\ Remaining(h.r) = Len(d.tail)

LEMMA HeadReads ==
    ASSUME SnsFit, NEW n, NEW d \in Sendable(n)
    PROVE  ReadsHead(d)
<1> DEFINE b == BytesOf(d)
           v == Single(b)
           r == Reader(v)
           c == HeadOf(d)
           x == QosByte(d.q.prio, d.q.cc, d.q.express)
           pieces == HeaderPieces(x, d.sn, d.body, d.fid)
           k == HeaderLen(d.sn, d.body, d.fid)
<1>1. /\ c \in Seq(Nat) /\ c # <<>> /\ d.tail \in Seq(Nat) /\ b \in Chunk /\ b \in Seq(Nat)
      /\ Len(b) = Len(c) + Len(d.tail) /\ Len(b) \in Nat /\ Len(c) = k
  BY BytesOfIs
<1>2. /\ d.q \in Qualities /\ d.sn \in SeqNums /\ d.body \in Bodies /\ d.fid \in SeqNums
  BY DEF Sendable
<1>3. b = c \o d.tail
  BY DEF BytesOf
<1>4. FlattenSeq(pieces) = c
  <2>1. d.q.prio \in Nat
    BY <1>2 DEF Qualities
  <2>2. x \in Nat /\ d.sn \in Nat /\ d.fid \in Nat
    BY <1>2, <2>1, QosByteIs, SnTypes
  <2> HIDE DEF x
  <2>3. FlattenSeq(pieces) = HeaderBytes(x, d.sn, d.body, d.fid)
    BY <1>2, <2>2, HeaderBytesAre
  <2> QED
    BY <2>3 DEF HeadOf, x
<1> HIDE DEF b
<1>a. v \in Vecs /\ Content(v) = b /\ v.items = <<b>>
  BY <1>1, SingleIs
<1>5. v \in Vecs /\ v.items = <<b>> /\ r.chunks = <<b>> /\ r.slice = 0 /\ r.byte = 0
  BY <1>a DEF Reader
<1>6. r \in Readers /\ Firm(r) /\ Offset(r) = 0 /\ DataOf(r) = Content(v)
  BY <1>5, ReaderIs
<1>7. Content(v) = b
  BY <1>a
<1>8. AtChunk(r) /\ ChunkOf(r) = b
  BY <1>5 DEF AtChunk, ChunkOf
<1> HIDE DEF v, r, c, pieces, k
<1>9. Len(c) \in Nat /\ Len(d.tail) \in Nat
  BY <1>1, LenProperties
<1>10. \A i \in 1..Len(c) : b[i] = c[i]
  BY <1>1, <1>3, ConcatProperties
<1>11. Holds(r, c)
  <2>1. 0 + Len(c) <= Len(b)
    BY <1>1, <1>9
  <2>2. \A i \in 1..Len(c) : 0 + i = i
    BY <1>9
  <2> QED
    BY <1>5, <1>8, <1>10, <2>1, <2>2 DEF Holds
<1>12. Holds(r, FlattenSeq(pieces))
  BY <1>4, <1>11
<1>13. ReadHeader(r) = [ok |-> TRUE, qos |-> d.q, sn |-> d.sn, body |-> d.body,
                        fid |-> IF d.body = "frame" THEN 0 ELSE d.fid, r |-> Advance(r, k)]
  BY <1>2, <1>6, <1>12, HeadersReadBack DEF pieces, k, x
<1>14. RestOf(r) \in Seq(Nat) /\ Len(RestOf(r)) = Len(b)
  <2>1. RestOf(r) \in Seq(Nat) /\ Len(RestOf(r)) = Len(ChunkOf(r)) - r.byte
    BY <1>6, <1>8, ChunkAhead
  <2> QED
    BY <1>1, <1>5, <1>8, <2>1
<1>15. k \in 0..Len(RestOf(r))
  BY <1>1, <1>9, <1>14
<1>16. /\ Advance(r, k) \in Readers /\ Advance(r, k).chunks = r.chunks
       /\ Offset(Advance(r, k)) = Offset(r) + k
  BY <1>6, <1>8, <1>15, Advances
<1>17. Remaining(Advance(r, k)) = Len(d.tail)
  <2> DEFINE q == Advance(r, k)
  <2> HIDE DEF q
  <2>1. Remaining(q) = Len(DataOf(q)) - Offset(q)
    BY <1>16, OffsetIn DEF q
  <2>2. DataOf(q) = b
    BY <1>6, <1>7, <1>16 DEF DataOf, q
  <2>3. Offset(q) = 0 + k
    BY <1>6, <1>16 DEF q
  <2>4. Len(DataOf(q)) = Len(c) + Len(d.tail) /\ k = Len(c)
    BY <1>1, <2>2
  <2>5. Remaining(q) = Len(d.tail)
    BY <1>9, <2>1, <2>3, <2>4
  <2> QED
    BY <2>5 DEF q
<1> QED
  BY <1>13, <1>17 DEF ReadsHead, b, v, r

\* The batch at the head of a wire that carries batches.
LEMMA FirstOf ==
    ASSUME NEW n, NEW d \in Sendable(n), NEW v \in Seq(Nat), wire = Announced(d) \o v
    PROVE  /\ First = Single(BytesOf(d)) /\ wire[1] = Len(BytesOf(d)) /\ wire[1] # 0
           /\ wire[1] < Len(wire) /\ wire # <<>>
           /\ SubSeq(wire, 2, wire[1] + 1) = BytesOf(d)
           /\ SubSeq(wire, wire[1] + 2, Len(wire)) = v
<1> DEFINE b == BytesOf(d)
<1>1. d \in Sendable(n) /\ wire = Announced(d) \o v /\ v \in Seq(Nat)
  OBVIOUS
<1>2. b \in Seq(Nat) /\ Len(b) \in Nat /\ Len(b) > 0
  BY <1>1, BytesOfIs
<1>3. wire = (<<Len(b)>> \o b) \o v
  BY <1>1 DEF Announced
<1> HIDE DEF b
<1>4. /\ wire \in Seq(Nat) /\ Len(wire) = 1 + Len(b) + Len(v) /\ wire # <<>> /\ wire[1] = Len(b)
      /\ SubSeq(wire, 2, wire[1] + 1) = b /\ SubSeq(wire, wire[1] + 2, Len(wire)) = v
  BY <1>1, <1>2, <1>3, Opened
<1>5. wire[1] < Len(wire) /\ wire[1] # 0
  <2> DEFINE l == Len(b)
             m == Len(v)
             k == Len(wire)
  <2>1. l \in Nat /\ l > 0 /\ m \in Nat /\ k = 1 + l + m
    BY <1>1, <1>2, <1>4, LenProperties
  <2> HIDE DEF l, m, k
  <2>2. l < k /\ l # 0
    BY <2>1
  <2> QED
    BY <1>4, <2>2 DEF l, k
<1> QED
  BY <1>4, <1>5 DEF First, b

LEMMA FirstIs ==
    ASSUME NEW n, NEW s, NEW e, NEW d, NEW v, Heads(n, wire, s, e, d, v)
    PROVE  /\ First = Single(BytesOf(d)) /\ wire[1] = Len(BytesOf(d)) /\ wire[1] # 0
           /\ wire[1] < Len(wire) /\ wire # <<>>
           /\ SubSeq(wire, 2, wire[1] + 1) = BytesOf(d)
           /\ SubSeq(wire, wire[1] + 2, Len(wire)) = v
BY FirstOf DEF Heads

\* What is put on the wire.
LEMMA OnWireAnnounced ==
    ASSUME NEW b \in Batches, NEW n, n \in Nat, n <= LenMax, NEW d \in Sendable(n),
           b.buf.data \o Content(b.fragment) = BytesOf(d)
    PROVE  OnWire(b) = Announced(d)
<1> DEFINE x == b.buf.data
           y == Content(b.fragment)
           l == Len(x)
           m == Len(y)
           k == Len(BytesOf(d))
<1>1. x \in Seq(Nat) /\ y \in Seq(Nat) /\ LenOf(b.fragment) = m
  BY ReaderIs DEF Batches, Bufs, LenOf
<1>2. k \in Nat /\ k <= n
  BY BytesOfIs
<1>3. l \in Nat /\ m \in Nat /\ l + m = k
  <2>1. Len(x \o y) = Len(x) + Len(y) /\ Len(x) \in Nat /\ Len(y) \in Nat
    BY <1>1, ConcatProperties, LenProperties
  <2> QED
    BY <2>1
<1>4. BatchLen(b) = (l + m) % (LenMax + 1)
  BY <1>1 DEF BatchLen
<1> HIDE DEF x, y, l, m, k
<1>5. LenMax \in Nat /\ k < LenMax + 1
  BY <1>2, WireAssumption
<1>6. k % (LenMax + 1) = k
  BY <1>2, <1>5
<1>7. BatchLen(b) = k
  BY <1>3, <1>4, <1>6
<1> DEFINE a == <<k>>
<1>8. a \in Seq(Nat)
  BY <1>2
<1> HIDE DEF a
<1>9. (a \o x) \o y = a \o (x \o y)
  <2>1. Assoc(a, x, y)
    BY <1>1, <1>8, Associative
  <2> QED
    BY <2>1 DEF Assoc
<1>10. OnWire(b) = (a \o x) \o y
  BY <1>7 DEF OnWire, x, y, a
<1>11. Announced(d) = a \o (x \o y)
  BY DEF Announced, x, y, a, k
<1> QED
  BY <1>9, <1>10, <1>11

----------------------------------------------------------------------------
(* How long messages and headers are *)

\* What a writer holds.
Total(w) == LenOf(w.inner) + Len(w.pending)

LEMMA TotalIs ==
    ASSUME NEW w \in Writers
    PROVE  /\ Total(w) \in Nat /\ LenOf(Dropped(w)) = Total(w) /\ Dropped(w) \in Vecs
           /\ LenOf(w.inner) \in Nat /\ Len(w.pending) \in Nat
<1> DEFINE v == w.inner
           p == w.pending
           c == Content(v)
<1>1. v \in Vecs /\ p \in Seq(Nat)
  BY DEF Writers
<1>2. c \in Seq(Nat) /\ LenOf(v) = Len(c)
  BY <1>1, ReaderIs DEF LenOf
<1>3. Dropped(w) = PushChunk(v, p)
  BY DEF Dropped, Flushed
<1> HIDE DEF v, p, c
<1>4. PushChunk(v, p) \in Vecs /\ Content(PushChunk(v, p)) = c \o p
  BY <1>1, PushIs DEF c
<1>5. Len(c \o p) = Len(c) + Len(p) /\ Len(c) \in Nat /\ Len(p) \in Nat
  BY <1>1, <1>2, ConcatProperties, LenProperties
<1>6. LenOf(Dropped(w)) = Len(c) + Len(p)
  BY <1>3, <1>4, <1>5 DEF LenOf
<1>7. Total(w) = Len(c) + Len(p)
  BY <1>2 DEF Total, v, p
<1>8. Len(c) + Len(p) \in Nat
  BY <1>5
<1> QED
  BY <1>2, <1>3, <1>4, <1>5, <1>6, <1>7, <1>8 DEF v, p

\* An operation adds as many bytes as it says.
LEMMA PutTotal ==
    ASSUME NEW s \in [w : Writers, next : Nat], NEW op \in Ops
    PROVE  Total(Put(s, op).w) = Total(s.w) + op[2]
<1> DEFINE data == [i \in 1..op[2] |-> s.next + i]
           l == Len(s.w.pending)
           v == s.w.inner
           n == op[2]
<1>1. n \in Nat /\ s.next \in Nat /\ s.w \in Writers
  BY DEF Ops
<1>2. data \in Seq(Nat) /\ Len(data) = n
  BY <1>1
<1>3. Put(s, op).w = IF op[1] = "write" THEN WriteBytes(s.w, data) ELSE WriteChunk(s.w, data)
  BY DEF Put
<1> HIDE DEF data
<1>4. v \in Vecs /\ s.w.pending \in Seq(Nat)
  BY <1>1 DEF Writers
<1>5. Total(s.w) \in Nat /\ LenOf(v) \in Nat /\ l \in Nat /\ Total(s.w) = LenOf(v) + l
  BY <1>1, TotalIs DEF Total
<1>6. Total(WriteBytes(s.w, data)) = Total(s.w) + n
  <2>1. Len(s.w.pending \o data) = l + n
    <3>1. Len(s.w.pending \o data) = Len(s.w.pending) + Len(data)
      BY <1>2, <1>4, ConcatProperties
    <3> QED
      BY <1>2, <3>1
  <2>2. Total(WriteBytes(s.w, data)) = LenOf(v) + (l + n)
    BY <2>1 DEF Total, WriteBytes
  <2> HIDE DEF v, l, n
  <2> QED
    BY <1>1, <1>5, <2>2
<1>7. Total(WriteChunk(s.w, data)) = Total(s.w) + n
  <2> DEFINE f == Flushed(s.w).inner
             y == Content(f)
  <2>1. f \in Vecs /\ LenOf(f) = Total(s.w)
    BY <1>1, TotalIs DEF Dropped
  <2>2. WriteChunk(s.w, data) = [inner |-> PushChunk(f, data), pending |-> <<>>]
    BY DEF WriteChunk
  <2> HIDE DEF f
  <2>3. Content(PushChunk(f, data)) = y \o data /\ y \in Seq(Nat) /\ LenOf(f) = Len(y)
    BY <1>2, <2>1, PushIs, ReaderIs DEF LenOf
  <2>4. Len(y \o data) = Len(y) + n
    <3>1. Len(y \o data) = Len(y) + Len(data)
      BY <1>2, <2>3, ConcatProperties
    <3> QED
      BY <1>2, <3>1
  <2>5. LenOf(PushChunk(f, data)) = Total(s.w) + n
    BY <2>1, <2>3, <2>4 DEF LenOf
  <2>6. Total(WriteChunk(s.w, data)) = LenOf(PushChunk(f, data)) + 0
    BY <2>2 DEF Total
  <2> HIDE DEF n
  <2>7. (Total(s.w) + n) + 0 = Total(s.w) + n
    BY <1>1, <1>5
  <2> QED
    BY <2>5, <2>6, <2>7
<1> QED
  BY <1>3, <1>6, <1>7

\* The length of a message does not depend on its bytes.
LEMMA ComposedLen ==
    ASSUME NEW plan \in Seq(Ops), NEW first \in Nat
    PROVE  /\ LenOf(Composed(plan, first)) = LenOf(Composed(plan, 0))
           /\ LenOf(Composed(plan, 0)) \in Nat
<1> DEFINE n == Len(plan)
<1>1. n \in Nat /\ \A k \in 1..n : plan[k] \in Ops
  BY LenProperties, ElementOfSeq
<1>2. PICK f : Composing(f, plan, first)
  BY ComposedRun
<1>3. PICK g : Composing(g, plan, 0)
  BY ComposedRun
<1> DEFINE S == [w : Writers, next : Nat]
           T == {k \in Nat : k <= n => Total(f[k].w) = Total(g[k].w)}
<1>4. /\ f \in [Nat -> S] /\ f[0].w = Writer(NoBytes)
      /\ \A k \in Nat : k + 1 \in 1..n => f[k + 1] = Put(f[k], plan[k + 1])
      /\ Composed(plan, first) = Dropped(f[n].w)
  BY <1>2 DEF Composing
<1>5. /\ g \in [Nat -> S] /\ g[0].w = Writer(NoBytes)
      /\ \A k \in Nat : k + 1 \in 1..n => g[k + 1] = Put(g[k], plan[k + 1])
      /\ Composed(plan, 0) = Dropped(g[n].w)
  BY <1>3 DEF Composing
<1> HIDE DEF n
<1>6. 0 \in T
  BY <1>4, <1>5
<1>7. ASSUME NEW k \in Nat, k \in T PROVE k + 1 \in T
  <2> SUFFICES ASSUME k + 1 <= n PROVE Total(f[k + 1].w) = Total(g[k + 1].w)
    OBVIOUS
  <2>1. k <= n /\ k + 1 \in 1..n
    BY <1>1
  <2>2. Total(f[k].w) = Total(g[k].w)
    BY <1>7, <2>1
  <2>3. f[k + 1] = Put(f[k], plan[k + 1]) /\ g[k + 1] = Put(g[k], plan[k + 1])
    BY <1>4, <1>5, <2>1
  <2>4. plan[k + 1] \in Ops /\ f[k] \in S /\ g[k] \in S
    BY <1>1, <1>4, <1>5, <2>1
  <2>5. Total(Put(f[k], plan[k + 1]).w) = Total(f[k].w) + plan[k + 1][2]
    BY <2>4, PutTotal
  <2>6. Total(Put(g[k], plan[k + 1]).w) = Total(g[k].w) + plan[k + 1][2]
    BY <2>4, PutTotal
  <2> QED
    BY <2>2, <2>3, <2>5, <2>6
<1>8. n \in T
  <2> HIDE DEF T
  <2> QED
    BY <1>1, <1>6, <1>7, SetInduction
<1>9. Total(f[n].w) = Total(g[n].w)
  BY <1>1, <1>8
<1>10. f[n].w \in Writers /\ g[n].w \in Writers
  <2>1. f[n] \in S /\ g[n] \in S
    BY <1>1, <1>4, <1>5
  <2> QED
    BY <2>1
<1>11. /\ LenOf(Dropped(f[n].w)) = Total(f[n].w)
       /\ LenOf(Dropped(g[n].w)) = Total(g[n].w) /\ Total(g[n].w) \in Nat
  BY <1>10, TotalIs
<1> QED
  BY <1>4, <1>5, <1>9, <1>11

\* A larger integer is not shorter.
LEMMA VleLenGrows ==
    ASSUME NEW x \in Nat, NEW y \in Nat, x <= y
    PROVE  VleLen(x) <= VleLen(y)
<1> DEFINE m == VleLen(x)
           n == VleLen(y)
<1>1. m \in 1..VleMax /\ m \in Nat /\ (m > 1 => x >= Weight[m - 1])
  BY VleLenIs
<1>2. n \in 1..VleMax /\ n \in Nat /\ (n = VleMax \/ y < Weight[n])
  BY VleLenIs
<1>3. VleMax \in Nat
  BY CodecAssumption
<1> HIDE DEF m, n
<1> SUFFICES ASSUME ~(m <= n) PROVE FALSE
  BY DEF m, n
<1>4. n # VleMax /\ m > 1 /\ m - 1 \in Nat /\ n <= m - 1
  BY <1>1, <1>2, <1>3
<1>5. Weight[n] <= Weight[m - 1]
  BY <1>2, <1>4, WeightGrows
<1> DEFINE a == Weight[n]
           b == Weight[m - 1]
<1>6. a \in Nat /\ b \in Nat
  BY <1>2, <1>4, WeightPositive
<1>7. x >= b /\ y < a /\ a <= b
  BY <1>1, <1>2, <1>4, <1>5
<1> HIDE DEF a, b
<1> QED
  BY <1>6, <1>7

\* No header is longer than the one of the largest numbers.
LEMMA LongestIs ==
    ASSUME NEW sn \in SeqNums, NEW body \in Bodies, NEW fid \in SeqNums
    PROVE  /\ HeaderLen(sn, body, fid) <= HeaderLen(Modulus - 1, "first", Modulus - 1)
           /\ HeaderLen(sn, body, fid) \in Nat
           /\ HeaderLen(Modulus - 1, "first", Modulus - 1) \in Nat
           /\ HeaderLen(Modulus - 1, "first", Modulus - 1) = HeaderLen(Modulus - 1, "more", Modulus - 1)
<1> DEFINE m == Modulus - 1
<1>1. sn \in Nat /\ fid \in Nat /\ m \in Nat /\ sn <= m /\ fid <= m
  BY SeqNumAssumption DEF SeqNums, Modulus
<1> HIDE DEF m
<1> DEFINE a == VleLen(sn)
           b == VleLen(fid)
           c == VleLen(m)
<1>2. a <= c /\ b <= c
  BY <1>1, VleLenGrows
<1>3. a \in Nat /\ b \in Nat /\ c \in Nat
  BY <1>1, VleLenIs
<1>4. HeaderLen(sn, body, fid) = 1 + a + (IF body = "frame" THEN 1 ELSE 1 + b)
  BY DEF HeaderLen, FragmentLen, SnLen
<1>5. HeaderLen(m, "first", m) = 1 + c + (1 + c) /\ HeaderLen(m, "more", m) = 1 + c + (1 + c)
  BY DEF HeaderLen, FragmentLen, SnLen
<1> HIDE DEF a, b, c
<1>6. /\ 1 + a + (IF body = "frame" THEN 1 ELSE 1 + b) <= 1 + c + (1 + c)
      /\ 1 + a + (IF body = "frame" THEN 1 ELSE 1 + b) \in Nat /\ 1 + c + (1 + c) \in Nat
  BY <1>2, <1>3
<1>7. /\ HeaderLen(sn, body, fid) <= HeaderLen(m, "first", m)
      /\ HeaderLen(sn, body, fid) \in Nat /\ HeaderLen(m, "first", m) \in Nat
      /\ HeaderLen(m, "first", m) = HeaderLen(m, "more", m)
  BY <1>4, <1>5, <1>6
<1> QED
  BY <1>7 DEF m

----------------------------------------------------------------------------
(* What goes through a lane while no push has failed: the batches on the wire and the   *)
(* one that is being filled have consecutive numbers, and each of them is a header with *)
(* something behind it.  A push that has failed spoils this, but it fails only if the   *)
(* longest header and the length of its message are more than a batch.                  *)

\* A frame that is being filled: the next batch of its congestion control after e, and
\* the last one that has a number.
Begun(n, b, e, nums) ==
    \E d \in Sendable(n) :
        /\ b.buf.cap = n /\ b.buf.data = BytesOf(d) /\ b.fragment = NoBytes
        /\ d.body = "frame" /\ d.q.cc = b.cc /\ d.sn = Next_Sn(e[d.q.cc])
        /\ nums = [e EXCEPT ![d.q.cc] = d.sn]

\* The numbers that the sender has used last, and what was put on the wire with them: all
\* of it, or all but the frame that is being filled.
Numbers == [cc \in Ccs |-> sns[cc]]
Settled(e) == IF booked = <<>> THEN Numbers = e ELSE Begun(batchSize, booked[1], e, Numbers)
Flowing == \E e \in Grades : Carries(batchSize, wire, seen, e) /\ Settled(e)
\* A push in fragments has nothing booked, the next number and something left to send.
Orderly ==
    /\ alive = TRUE
    /\ enc.pc \in {"fresh", "more"} => booked = <<>>
    /\ enc.pc = "more" => enc.sn = Next_Sn(sns[enc.qos.cc]) /\ Remaining(enc.r) > 0
    /\ Flowing

\* The message of a push is one of those an application composes.
Planned ==
    enc.pc # "idle" => \E plan \in Plans : LenOf(enc.msg) = LenOf(Composed(plan, 0))
Justified == spoiled => \E plan \in Plans : batchSize < LongestHead(plan)
Flow ==
    /\ batchSize <= LenMax
    /\ ~spoiled => Orderly
    /\ Planned
    /\ Justified

LEMMA NumbersIs == sns \in [Ccs \cup {"fragid"} -> SeqNums] => Numbers \in Grades
BY DEF Numbers, Grades

LEMMA InitFlow == Init => Flow
<1> SUFFICES ASSUME Init PROVE Flow
  OBVIOUS
<1>1. Typed
  BY InitTyped
<1>2. /\ alive = TRUE /\ enc = Idle /\ booked = <<>> /\ wire = <<>> /\ spoiled = FALSE
      /\ seen = Numbers
  BY DEF Init, Numbers
<1>3. Numbers \in Grades
  BY <1>1, NumbersIs DEF Typed, SenderTyped
<1>4. Carries(batchSize, wire, seen, Numbers)
  BY <1>2, <1>3, CarriesNone
<1>5. Flowing
  BY <1>2, <1>3, <1>4 DEF Flowing, Settled
<1>6. batchSize <= LenMax
  BY WireAssumption DEF Init
<1> QED
  BY <1>2, <1>5, <1>6 DEF Flow, Orderly, Planned, Justified, Idle

\* The flow is about these variables only.
LEMMA FlowKept ==
    Flow /\ UNCHANGED <<batchSize, enc, booked, sns, wire, spoiled, alive, seen>> => Flow'
<1> SUFFICES ASSUME Flow, UNCHANGED <<batchSize, enc, booked, sns, wire, spoiled, alive, seen>>
             PROVE  Flow'
  OBVIOUS
<1>1. Numbers' = Numbers
  BY DEF Numbers
<1>2. ASSUME Flowing PROVE Flowing'
  BY <1>1, <1>2 DEF Flowing, Settled
<1>3. ASSUME Orderly PROVE Orderly'
  BY <1>2, <1>3 DEF Orderly
<1> QED
  BY <1>3 DEF Flow, Planned, Justified

\* A batch is committed: it comes after e.
LEMMA Commits ==
    ASSUME SenderTyped, batchSize <= LenMax, NEW b \in Batches, NEW d \in Sendable(batchSize),
           b.buf.data \o Content(b.fragment) = BytesOf(d),
           NEW e, Carries(batchSize, wire, seen, e), d.sn = Next_Sn(e[d.q.cc]),
           Commit(b), batchSize' = batchSize, seen' = seen
    PROVE  /\ Carries(batchSize', wire', seen', [e EXCEPT ![d.q.cc] = d.sn])
           /\ [e EXCEPT ![d.q.cc] = d.sn] \in Grades
           /\ booked' = <<>>
<1>1. OnWire(b) = Announced(d)
  BY OnWireAnnounced DEF SenderTyped
<1>2. wire' = wire \o Announced(d) /\ booked' = <<>>
  BY <1>1 DEF Commit
<1> QED
  BY <1>2, CarriesMore

LEMMA CommitsBegun ==
    ASSUME SenderTyped, batchSize <= LenMax, NEW b \in Batches, NEW e, NEW nums,
           Carries(batchSize, wire, seen, e), Begun(batchSize, b, e, nums),
           Commit(b), batchSize' = batchSize, seen' = seen
    PROVE  Carries(batchSize', wire', seen', nums) /\ nums \in Grades /\ booked' = <<>>
<1>1. PICK d \in Sendable(batchSize) :
        /\ b.buf.data = BytesOf(d) /\ b.fragment = NoBytes
        /\ d.sn = Next_Sn(e[d.q.cc]) /\ nums = [e EXCEPT ![d.q.cc] = d.sn]
  BY DEF Begun
<1>2. b.buf.data \o Content(b.fragment) = BytesOf(d)
  <2>1. Content(b.fragment) = <<>> /\ b.buf.data \in Seq(Nat)
    BY <1>1, NoBytesIs DEF Batches, Bufs
  <2>2. b.buf.data \o <<>> = b.buf.data
    BY <2>1, ConcatEmptySeq
  <2> QED
    BY <1>1, <2>1, <2>2
<1> QED
  BY <1>1, <1>2, Commits

\* A batch is sent or left for more messages.
LEMMA DoneFlows ==
    ASSUME SenderTyped, batchSize <= LenMax, NEW b \in Batches, NEW e \in Grades, NEW flush,
           Carries(batchSize, wire, seen, e), Begun(batchSize, b, e, Numbers'),
           Done(b, flush), batchSize' = batchSize, seen' = seen
    PROVE  Flowing' /\ enc' = Idle
<1>1. enc' = Idle
  BY DEF Done
<1>2. CASE enc.qos.express \/ flush
  <2>1. Commit(b)
    BY <1>2 DEF Done
  <2>2. /\ Carries(batchSize', wire', seen', Numbers') /\ Numbers' \in Grades /\ booked' = <<>>
    BY <2>1, CommitsBegun
  <2> QED
    BY <1>1, <2>2 DEF Flowing, Settled
<1>3. CASE ~(enc.qos.express \/ flush)
  <2>1. booked' = <<b>> /\ wire' = wire
    BY <1>3 DEF Done
  <2>2. booked' # <<>> /\ (booked[1])' = b
    BY <2>1
  <2>3. Carries(batchSize', wire', seen', e) /\ Begun(batchSize', (booked[1])', e, Numbers')
    BY <2>1, <2>2
  <2> QED
    BY <1>1, <2>2, <2>3 DEF Flowing, Settled
<1> QED
  BY <1>2, <1>3

----------------------------------------------------------------------------
(* What a push writes *)

\* Pieces are written if they fit.
WritesIf(buf, pieces, w) ==
    LET c == FlattenSeq(pieces) IN
    /\ c \in Seq(Nat) /\ w.ok \in BOOLEAN
    /\ w.ok <=> Len(buf.data) + Len(c) <= buf.cap
    /\ w.ok => /\ w.buf \in Bufs /\ w.buf.cap = buf.cap /\ w.buf.data = buf.data \o c
               /\ Len(w.buf.data) = Len(buf.data) + Len(c)

LEMMA WritesIfFits ==
    ASSUME NEW buf \in Bufs, NEW pieces \in Seq(Seq(Nat))
    PROVE  WritesIf(buf, pieces, WriteAll(buf, pieces))
<1> DEFINE w == WriteAll(buf, pieces)
           c == FlattenSeq(pieces)
           l == Len(pieces)
<1>1. PICK n : Wrote(buf, pieces, w, n)
  BY WriteAllIs
<1>2. c \in Seq(Nat) /\ c = Pre(pieces, l) /\ l \in Nat
  BY PreSteps, LenProperties
<1>3. buf.data \in Seq(Nat) /\ buf.cap \in Nat
  BY DEF Bufs
<1> DEFINE m == Len(buf.data)
           k == Len(c)
<1>4. m \in Nat /\ k \in Nat
  BY <1>2, <1>3, LenProperties
<1> HIDE DEF w, c, l
<1>5. /\ n \in 0..l /\ w.ok = (n = l) /\ w.buf \in Bufs /\ w.buf.cap = buf.cap
      /\ w.buf.data = buf.data \o Pre(pieces, n)
      /\ n # l => m + Len(Pre(pieces, n + 1)) > buf.cap
  BY <1>1 DEF Wrote, l
<1>6. CASE n = l
  <2>1. w.buf.data = buf.data \o c
    BY <1>2, <1>5, <1>6
  <2>2. Len(buf.data \o c) = Len(buf.data) + Len(c)
    BY <1>2, <1>3, ConcatProperties
  <2>3. Len(w.buf.data) <= w.buf.cap
    BY <1>5 DEF Bufs
  <2>4. m + k <= buf.cap
    BY <1>5, <2>1, <2>2, <2>3
  <2> QED
    BY <1>2, <1>5, <1>6, <2>1, <2>2, <2>4 DEF WritesIf, c, w
<1>7. CASE n # l
  <2>1. n + 1 \in 0..Len(pieces)
    BY <1>2, <1>5, <1>7 DEF l
  <2>2. Len(Pre(pieces, n + 1)) <= Len(FlattenSeq(pieces)) /\ Len(Pre(pieces, n + 1)) \in Nat
    BY <2>1, SplitAt
  <2> DEFINE j == Len(Pre(pieces, n + 1))
  <2>3. j \in Nat /\ j <= k /\ m + j > buf.cap
    BY <1>5, <1>7, <2>2 DEF c
  <2> HIDE DEF j, m, k
  <2>4. ~(m + k <= buf.cap)
    BY <1>3, <1>4, <2>3
  <2> QED
    BY <1>2, <1>5, <1>7, <2>4 DEF WritesIf, c, w, m, k
<1> QED
  BY <1>6, <1>7

\* A batch without a fragment is as long as its buffer.
LEMMA LenWithoutFragment ==
    ASSUME NEW b \in Batches, b.fragment = NoBytes, Len(b.buf.data) <= LenMax
    PROVE  BatchLen(b) = Len(b.buf.data)
<1> DEFINE l == Len(b.buf.data)
<1>1. LenOf(b.fragment) = 0
  <2>1. Content(b.fragment) = <<>>
    BY NoBytesIs
  <2> QED
    BY <2>1 DEF LenOf
<1>2. BatchLen(b) = (l + 0) % (LenMax + 1)
  BY <1>1 DEF BatchLen
<1>3. l \in Nat
  <2>1. b.buf.data \in Seq(Nat)
    BY DEF Batches, Bufs
  <2> QED
    BY <2>1, LenProperties
<1>4. LenMax \in Nat /\ l <= LenMax
  BY WireAssumption
<1> HIDE DEF l
<1>5. (l + 0) % (LenMax + 1) = l
  <2>1. l + 0 = l /\ l < LenMax + 1
    BY <1>3, <1>4
  <2>2. l % (LenMax + 1) = l
    BY <1>3, <1>4, <2>1
  <2> QED
    BY <2>1, <2>2
<1> QED
  BY <1>2, <1>5 DEF l

\* A new batch has no length yet, one that is begun has.
LEMMA NewLen ==
    ASSUME SenderTyped, NEW cc \in Ccs
    PROVE  /\ BatchLen(NewBatch(cc)) = 0 /\ NewBatch(cc) \in Batches
           /\ NewBatch(cc).buf \in Bufs /\ NewBatch(cc).buf.cap = batchSize
           /\ NewBatch(cc).buf.data = <<>> /\ NewBatch(cc).fragment = NoBytes
           /\ NewBatch(cc).cc = cc
<1> DEFINE b == NewBatch(cc)
<1>1. b.buf.cap = batchSize /\ b.buf.data = <<>> /\ b.fragment = NoBytes /\ b.cc = cc
  BY DEF NewBatch
<1>2. b \in Batches
  <2>1. [cap |-> batchSize, data |-> <<>>] \in Bufs
    <3>1. <<>> \in Seq(Nat) /\ Len(<<>>) = 0
      OBVIOUS
    <3> QED
      BY <3>1 DEF Bufs, SenderTyped
  <2> QED
    BY <2>1, NoBytesIs DEF NewBatch, Batches
<1> HIDE DEF b
<1>3. Len(b.buf.data) = 0 /\ 0 <= LenMax
  BY <1>1, WireAssumption
<1>4. BatchLen(b) = 0
  BY <1>1, <1>2, <1>3, LenWithoutFragment
<1>5. b.buf \in Bufs
  BY <1>2 DEF Batches
<1> QED
  BY <1>1, <1>2, <1>4, <1>5 DEF b

LEMMA BegunLen ==
    ASSUME NEW b \in Batches, NEW n, n \in Nat, n <= LenMax, NEW e, NEW nums, Begun(n, b, e, nums)
    PROVE  BatchLen(b) # 0
<1>1. PICK d \in Sendable(n) : b.buf.data = BytesOf(d) /\ b.fragment = NoBytes
  BY DEF Begun
<1>2. Len(BytesOf(d)) \in Nat /\ Len(BytesOf(d)) > 0 /\ Len(BytesOf(d)) <= n
  BY BytesOfIs
<1>3. Len(b.buf.data) <= LenMax /\ Len(b.buf.data) # 0
  <2> DEFINE l == Len(BytesOf(d))
  <2>1. l = Len(b.buf.data) /\ l \in Nat /\ l > 0 /\ l <= n
    BY <1>1, <1>2
  <2> HIDE DEF l
  <2>2. l <= LenMax /\ l # 0
    BY <2>1, WireAssumption
  <2> QED
    BY <2>1, <2>2
<1> QED
  BY <1>1, <1>3, LenWithoutFragment

\* Another message in the frame.
LEMMA BegunMore ==
    ASSUME NEW b \in Batches, NEW n, NEW e, NEW nums, Begun(n, b, e, nums),
           NEW pieces \in Seq(Seq(Nat)), NEW w, WritesIf(b.buf, pieces, w), w.ok
    PROVE  Begun(n, [b EXCEPT !.buf = w.buf], e, nums) /\ [b EXCEPT !.buf = w.buf] \in Batches
<1> DEFINE c == FlattenSeq(pieces)
           s == [b EXCEPT !.buf = w.buf]
<1>1. PICK d \in Sendable(n) :
        /\ b.buf.cap = n /\ b.buf.data = BytesOf(d) /\ b.fragment = NoBytes
        /\ d.body = "frame" /\ d.q.cc = b.cc /\ d.sn = Next_Sn(e[d.q.cc])
        /\ nums = [e EXCEPT ![d.q.cc] = d.sn]
  BY DEF Begun
<1>2. c \in Seq(Nat) /\ w.buf \in Bufs /\ w.buf.cap = n /\ w.buf.data = BytesOf(d) \o c
  BY <1>1 DEF WritesIf
<1> HIDE DEF c
<1>3. s \in Batches /\ s.buf = w.buf /\ s.fragment = NoBytes /\ s.cc = b.cc
  <2> DEFINE x == w.buf
  <2>1. x \in Bufs
    BY <1>2
  <2> HIDE DEF x
  <2>2. /\ [b EXCEPT !.buf = x] \in Batches
        /\ [b EXCEPT !.buf = x] = [buf |-> x, fragment |-> b.fragment, cc |-> b.cc]
    BY <2>1, SetBuf
  <2>3. s = [b EXCEPT !.buf = x]
    BY DEF x
  <2> HIDE DEF s
  <2>4. s \in Batches /\ s.buf = x /\ s.fragment = b.fragment /\ s.cc = b.cc
    BY <2>2, <2>3
  <2> QED
    BY <1>1, <2>4 DEF x
<1> HIDE DEF s
<1> DEFINE t == d.tail \o c
           f == [q |-> d.q, sn |-> d.sn, body |-> d.body, fid |-> d.fid, tail |-> t]
<1>4. /\ HeadOf(d) \in Seq(Nat) /\ d.tail \in Seq(Nat)
  BY BytesOfIs
<1>5. t \in Seq(Nat)
  BY <1>2, <1>4, ConcatProperties
<1>6. HeadOf(f) = HeadOf(d)
  BY DEF HeadOf
<1>7. BytesOf(f) = w.buf.data
  <2>1. Assoc(HeadOf(d), d.tail, c)
    BY <1>2, <1>4, Associative
  <2>2. (HeadOf(d) \o d.tail) \o c = HeadOf(d) \o t
    BY <2>1 DEF Assoc
  <2>3. BytesOf(f) = HeadOf(f) \o t
    BY DEF BytesOf
  <2>4. BytesOf(d) = HeadOf(d) \o d.tail
    BY DEF BytesOf
  <2> HIDE DEF f, t
  <2> QED
    BY <1>2, <1>6, <2>2, <2>3, <2>4, Zenon
<1>8. Len(w.buf.data) <= n
  BY <1>2 DEF Bufs
<1>9. f \in Sendable(n)
  <2>1. d.q \in Qualities /\ d.sn \in SeqNums /\ d.body \in Bodies /\ d.fid \in SeqNums
    BY DEF Sendable
  <2>2. f \in [q : Qualities, sn : SeqNums, body : Bodies, fid : SeqNums, tail : Seq(Nat)]
    BY <1>5, <2>1
  <2>3. f.body = "frame"
    BY <1>1
  <2>4. Len(BytesOf(f)) <= n
    BY <1>7, <1>8
  <2> HIDE DEF f
  <2> QED
    BY <2>2, <2>3, <2>4 DEF Sendable
<1>10. f.body = "frame" /\ f.q = d.q /\ f.sn = d.sn
  BY <1>1
<1> HIDE DEF f
<1>11. Begun(n, s, e, nums)
  BY <1>1, <1>2, <1>3, <1>7, <1>9, <1>10 DEF Begun
<1> QED
  BY <1>3, <1>11 DEF s

\* A batch and its header, from the parts; what is written of them.
Made(q, sn, body, fid, tail) == [q |-> q, sn |-> sn, body |-> body, fid |-> fid, tail |-> tail]
HeaderOf(q, sn, body, fid) ==
    HeaderPieces(QosByte(q.prio, q.cc, q.express), sn, body, fid)

MadeWell(q, sn, body, fid, tail, n) ==
    LET d == Made(q, sn, body, fid, tail)
        head == FlattenSeq(HeaderOf(q, sn, body, fid)) IN
    /\ d.q = q /\ d.sn = sn /\ d.body = body /\ d.tail = tail
    /\ BytesOf(d) = head \o tail
    /\ HeaderOf(q, sn, body, fid) \in Seq(Seq(Nat)) /\ head \in Seq(Nat)
    /\ Len(head) = HeaderLen(sn, body, fid) /\ HeaderLen(sn, body, fid) \in Nat
    /\ Len(head \o tail) <= n /\ (Roomy(n) /\ body \in {"more", "last"} => tail # <<>>)
       => d \in Sendable(n)

\* What is written of a batch is the bytes of one that fits.
LEMMA MadeIs ==
    ASSUME NEW q \in Qos, NEW sn \in SeqNums, NEW body \in Bodies, NEW fid \in SeqNums,
           NEW tail \in Seq(Nat), NEW n
    PROVE  MadeWell(q, sn, body, fid, tail, n)
<1> DEFINE d == Made(q, sn, body, fid, tail)
           x == QosByte(q.prio, q.cc, q.express)
           c == FlattenSeq(HeaderOf(q, sn, body, fid))
<1>1. q \in Qualities /\ q.prio \in Nat
  BY WireAssumption DEF Qualities, Ccs
<1>2. x \in Nat /\ sn \in Nat /\ fid \in Nat
  BY <1>1, QosByteIs, SnTypes
<1>3. d.q = q /\ d.sn = sn /\ d.body = body /\ d.fid = fid /\ d.tail = tail
  BY DEF Made
<1> HIDE DEF x
<1>4. /\ FlattenSeq(HeaderPieces(x, sn, body, fid)) = HeaderBytes(x, sn, body, fid)
      /\ HeaderBytes(x, sn, body, fid) \in Seq(Nat)
      /\ Len(HeaderBytes(x, sn, body, fid)) = HeaderLen(sn, body, fid)
      /\ HeaderLen(sn, body, fid) \in Nat
  BY <1>2, HeaderBytesAre
<1>5. HeaderPieces(x, sn, body, fid) \in Seq(Seq(Nat))
  BY <1>2, HeaderPiecesAre
<1>6. HeaderOf(q, sn, body, fid) = HeaderPieces(x, sn, body, fid)
  BY DEF HeaderOf, x
<1>7. HeadOf(d) = HeaderBytes(x, sn, body, fid)
  BY <1>3 DEF HeadOf, x
<1>8. d \in [q : Qualities, sn : SeqNums, body : Bodies, fid : SeqNums, tail : Seq(Nat)]
  BY <1>1 DEF Made
<1> HIDE DEF d
<1>9. BytesOf(d) = c \o tail
  BY <1>3, <1>4, <1>6, <1>7 DEF BytesOf
<1>10. Len(c \o tail) <= n /\ (Roomy(n) /\ body \in {"more", "last"} => tail # <<>>)
       => d \in Sendable(n)
  BY <1>3, <1>8, <1>9 DEF Sendable
<1> QED
  BY <1>3, <1>4, <1>5, <1>6, <1>9, <1>10 DEF MadeWell, d

\* The number is taken from the pool.
LEMMA NumbersUse ==
    ASSUME sns \in [Ccs \cup {"fragid"} -> SeqNums], enc.qos.cc \in Ccs,
           NEW sn \in SeqNums, NEW fragid, UseSn(sn, fragid)
    PROVE  Numbers' = [Numbers EXCEPT ![enc.qos.cc] = sn] /\ sns'[enc.qos.cc] = sn
BY DEF UseSn, Numbers, Ccs

LEMMA QosOfEncHeader ==
    \A sn, body, fid : HeaderPieces(QosOfEnc, sn, body, fid) = HeaderOf(enc.qos, sn, body, fid)
BY DEF QosOfEnc, HeaderOf

\* The content of a message and its length, as they are in a frame.
LEMMA MessagePieces ==
    ASSUME NEW v \in Vecs
    PROVE  /\ FlattenSeq(BytesPieces(v)) \in Seq(Nat)
           /\ Len(FlattenSeq(BytesPieces(v))) = VleLen(LenOf(v)) + LenOf(v)
           /\ VleLen(LenOf(v)) \in Nat /\ LenOf(v) \in Nat
           /\ VleBytes(LenOf(v)) \in Seq(Nat) /\ Len(VleBytes(LenOf(v))) = VleLen(LenOf(v))
<1> DEFINE c == VleBytes(LenOf(v))
           u == <<c>>
           s == v.items
           y == FlattenSeq(s)
<1>1. s \in Seq(Seq(Nat)) /\ y \in Seq(Nat) /\ LenOf(v) = Len(y) /\ LenOf(v) \in Nat
  BY ReaderIs, ChunkSeqs DEF Content, LenOf
<1>2. c \in Seq(Nat) /\ Len(c) = VleLen(LenOf(v)) /\ VleLen(LenOf(v)) \in Nat
  BY <1>1, VleBytesAre, VleLenIs
<1>3. BytesPieces(v) = u \o s
  BY DEF BytesPieces
<1> HIDE DEF c, s
<1>4. u \in Seq(Seq(Nat)) /\ FlattenSeq(u) = c
  <2>1. <<>> \in Seq(Seq(Nat))
    OBVIOUS
  <2>2. c \in Seq(Nat)
    BY <1>2
  <2>3. FlattenSeq(<<c>>) = c
    BY <2>1, <2>2, FlattenAppend
  <2>4. <<c>> \in Seq(Seq(Nat))
    BY <2>2
  <2> QED
    BY <2>3, <2>4
<1> HIDE DEF u, y
<1>5. FlattenSeq(u \o s) = FlattenSeq(u) \o FlattenSeq(s)
  BY <1>1, <1>4, FlattenConcat
<1>6. FlattenSeq(BytesPieces(v)) = c \o y
  BY <1>3, <1>4, <1>5 DEF y
<1>7. c \o y \in Seq(Nat) /\ Len(c \o y) = Len(c) + Len(y)
  BY <1>1, <1>2, ConcatProperties
<1>8. Len(FlattenSeq(BytesPieces(v))) = VleLen(LenOf(v)) + LenOf(v)
  BY <1>1, <1>2, <1>6, <1>7
<1> QED
  BY <1>1, <1>2, <1>6, <1>7, <1>8 DEF c

\* All the pieces of a header and of what comes with it.
LEMMA PiecesJoined ==
    ASSUME NEW s \in Seq(Seq(Nat)), NEW t \in Seq(Seq(Nat))
    PROVE  /\ FlattenSeq(s \o t) = FlattenSeq(s) \o FlattenSeq(t) /\ s \o t \in Seq(Seq(Nat))
           /\ FlattenSeq(s) \in Seq(Nat) /\ FlattenSeq(t) \in Seq(Nat)
           /\ Len(FlattenSeq(s) \o FlattenSeq(t)) = Len(FlattenSeq(s)) + Len(FlattenSeq(t))
           /\ Len(FlattenSeq(s)) \in Nat /\ Len(FlattenSeq(t)) \in Nat
<1>1. FlattenSeq(s) \in Seq(Nat) /\ FlattenSeq(t) \in Seq(Nat)
  BY PreSteps
<1> QED
  BY <1>1, FlattenConcat, JoinedPieces, ConcatProperties, LenProperties

\* What is written of a frame whose batch is new.
LEMMA FrameIs ==
    ASSUME SenderTyped, enc.pc = "fresh", booked = <<>>, NEW sn \in SeqNums
    PROVE  LET b == TheBatch(enc.qos.cc)
               w == Frame(b, sn)
               tail == FlattenSeq(BytesPieces(enc.msg))
               d == Made(enc.qos, sn, "frame", 0, tail) IN
           /\ b = NewBatch(enc.qos.cc) /\ b \in Batches
           /\ tail \in Seq(Nat)
           /\ w.ok <=> HeaderLen(sn, "frame", 0) + (VleLen(LenOf(enc.msg)) + LenOf(enc.msg)) <= batchSize
           /\ w.ok => /\ d \in Sendable(batchSize) /\ w.buf \in Bufs /\ w.buf.cap = batchSize
                      /\ w.buf.data = BytesOf(d)
<1> DEFINE b == TheBatch(enc.qos.cc)
           w == Frame(b, sn)
           hp == HeaderOf(enc.qos, sn, "frame", 0)
           bp == BytesPieces(enc.msg)
           head == FlattenSeq(hp)
           tail == FlattenSeq(bp)
           d == Made(enc.qos, sn, "frame", 0, tail)
           n == HeaderLen(sn, "frame", 0)
           m == VleLen(LenOf(enc.msg)) + LenOf(enc.msg)
<1>1. enc.msg \in Vecs /\ enc.qos \in Qos /\ enc.qos.cc \in Ccs
  BY EncIs
<1>2. /\ b = NewBatch(enc.qos.cc) /\ b \in Batches /\ b.buf \in Bufs /\ b.buf.cap = batchSize
      /\ b.buf.data = <<>>
  BY <1>1, NewLen DEF TheBatch
<1>3. w = WriteAll(b.buf, hp \o bp)
  BY QosOfEncHeader DEF Frame
<1>4. "frame" \in Bodies /\ 0 \in SeqNums
  BY SnTypes DEF Bodies
<1>5. tail \in Seq(Nat) /\ Len(tail) = m /\ m \in Nat /\ bp \in Seq(Seq(Nat))
  <2> DEFINE v == enc.msg
  <2>1. v \in Vecs
    BY <1>1
  <2> HIDE DEF v
  <2>2. /\ FlattenSeq(BytesPieces(v)) \in Seq(Nat)
        /\ Len(FlattenSeq(BytesPieces(v))) = VleLen(LenOf(v)) + LenOf(v)
        /\ VleLen(LenOf(v)) \in Nat /\ LenOf(v) \in Nat
    BY <2>1, MessagePieces
  <2>3. VleLen(LenOf(v)) + LenOf(v) \in Nat
    BY <2>2
  <2>4. BytesPieces(v) \in Seq(Seq(Nat))
    BY <2>1, BytesPiecesAre
  <2> QED
    BY <2>2, <2>3, <2>4 DEF v
<1> HIDE DEF b, w, m, tail
<1>6. /\ BytesOf(d) = head \o tail /\ head \in Seq(Nat) /\ hp \in Seq(Seq(Nat))
      /\ Len(head) = n /\ n \in Nat
      /\ Len(head \o tail) <= batchSize => d \in Sendable(batchSize)
  <2>1. MadeWell(enc.qos, sn, "frame", 0, tail, batchSize)
    BY <1>1, <1>4, <1>5, MadeIs
  <2>2. ~("frame" \in {"more", "last"})
    OBVIOUS
  <2> QED
    BY <2>1, <2>2 DEF MadeWell
<1> HIDE DEF d, n, hp, bp
<1>7. /\ FlattenSeq(hp \o bp) = head \o tail /\ hp \o bp \in Seq(Seq(Nat))
      /\ Len(head \o tail) = Len(head) + Len(tail) /\ Len(head) \in Nat /\ Len(tail) \in Nat
  BY <1>5, <1>6, PiecesJoined DEF head, tail
<1> HIDE DEF head
<1>8. WritesIf(b.buf, hp \o bp, w)
  BY <1>2, <1>3, <1>7, WritesIfFits
<1>9. /\ w.ok <=> Len(b.buf.data) + Len(head \o tail) <= b.buf.cap
      /\ w.ok => /\ w.buf \in Bufs /\ w.buf.cap = b.buf.cap /\ w.buf.data = b.buf.data \o (head \o tail)
  BY <1>7, <1>8 DEF WritesIf
<1>10. Len(b.buf.data) = 0
  BY <1>2
<1>11. Len(head \o tail) = n + m /\ n + m \in Nat
  BY <1>5, <1>6, <1>7
<1>12. w.ok <=> n + m <= batchSize
  <2>1. 0 + (n + m) = n + m
    BY <1>11
  <2> QED
    BY <1>2, <1>9, <1>10, <1>11, <2>1
<1>13. <<>> \o (head \o tail) = head \o tail
  BY <1>5, <1>6, ConcatProperties, ConcatEmptySeq
<1>14. w.ok => d \in Sendable(batchSize) /\ w.buf.data = BytesOf(d)
  BY <1>2, <1>6, <1>9, <1>11, <1>12, <1>13
<1> QED
  BY <1>2, <1>5, <1>9, <1>12, <1>14 DEF b, w, tail, d, n, m, bp

----------------------------------------------------------------------------
(* The steps of a push, and the others *)

\* A push begins; nothing is written yet.
LEMMA SendFlow ==
    ASSUME SenderTyped, Flow, NEW plan \in Plans, NEW qos \in Qos, Send(plan, qos)
    PROVE  Flow'
<1>1. /\ enc' = [pc |-> "append", msg |-> Message(plan), qos |-> qos]
      /\ UNCHANGED <<batchSize, booked, sns, spoiled, wire>> /\ UNCHANGED <<alive, seen>>
      /\ quota.sends > 0
  BY DEF Send, receiverVars
<1>2. enc'.pc = "append" /\ enc'.msg = Message(plan)
  BY <1>1
<1>3. Planned'
  <2>1. quota.sends \in Nat
    BY DEF SenderTyped
  <2>2. 100 * quota.sends \in Nat
    BY <2>1
  <2>3. plan \in Seq(Ops)
    BY WireAssumption DEF Ops
  <2>4. LenOf(Message(plan)) = LenOf(Composed(plan, 0))
    BY <2>2, <2>3, ComposedLen DEF Message
  <2> QED
    BY <1>2, <2>4 DEF Planned
<1>4. ASSUME Flowing PROVE Flowing'
  <2>1. Numbers' = Numbers
    BY <1>1 DEF Numbers
  <2> QED
    BY <1>1, <1>4, <2>1 DEF Flowing, Settled
<1>5. ASSUME Orderly PROVE Orderly'
  BY <1>1, <1>2, <1>4, <1>5 DEF Orderly
<1> QED
  BY <1>1, <1>3, <1>5 DEF Flow, Justified

\* The writer takes the batch that is being filled.
LEMMA FlushFlow ==
    ASSUME SenderTyped, Flow, Flush
    PROVE  Flow'
<1>1. /\ enc = Idle /\ booked # <<>> /\ Commit(booked[1])
      /\ batchSize' = batchSize /\ enc' = enc /\ sns' = sns /\ spoiled' = spoiled
      /\ alive' = alive /\ seen' = seen
  BY DEF Flush, receiverVars
<1>2. booked[1] \in Batches
  BY <1>1 DEF SenderTyped, Booked
<1>3. ASSUME Orderly PROVE Orderly'
  <2>1. PICK e \in Grades : Carries(batchSize, wire, seen, e) /\ Settled(e)
    BY <1>3 DEF Orderly, Flowing
  <2>2. Begun(batchSize, booked[1], e, Numbers)
    BY <1>1, <2>1 DEF Settled
  <2>3. batchSize <= LenMax
    BY DEF Flow
  <2>4. Carries(batchSize', wire', seen', Numbers) /\ Numbers \in Grades /\ booked' = <<>>
    BY <1>1, <1>2, <2>1, <2>2, <2>3, CommitsBegun
  <2>5. Numbers' = Numbers
    BY <1>1 DEF Numbers
  <2>6. Flowing'
    BY <2>4, <2>5 DEF Flowing, Settled
  <2> QED
    BY <1>1, <1>3, <2>6 DEF Orderly, Idle
<1> QED
  BY <1>1, <1>3 DEF Flow, Planned, Justified, Idle

\* A message is appended to the batch that is being filled, or that batch is sent.
LEMMA AppendFlow ==
    ASSUME SenderTyped, Flow, NEW flush, Append1(flush)
    PROVE  Flow'
<1> DEFINE b == TheBatch(enc.qos.cc)
           pieces == BytesPieces(enc.msg)
           w == WriteAll(b.buf, pieces)
           same == b.cc = enc.qos.cc
<1>1. enc.msg \in Vecs /\ enc.qos.cc \in Ccs /\ enc \in Starting
  BY EncIs DEF Append1
<1>2. b \in Batches /\ b.buf \in Bufs
  BY <1>1, TheBatchIs DEF Batches
<1>3. pieces \in Seq(Seq(Nat))
  BY <1>1, BytesPiecesAre
<1>4. w.ok \in BOOLEAN /\ Rewound(b, w.buf) = b /\ WritesIf(b.buf, pieces, w)
  BY <1>2, <1>3, WriteTyped, WritesIfFits
<1>5. /\ IF BatchLen(b) # 0
         THEN IF same /\ w.ok
              THEN Done([b EXCEPT !.buf = w.buf], flush) /\ Accepted(FALSE)
              ELSE /\ Commit(IF same THEN Rewound(b, w.buf) ELSE b)
                   /\ enc' = [enc EXCEPT !.pc = "fresh"]
                   /\ UNCHANGED sent
         ELSE /\ enc' = [enc EXCEPT !.pc = "fresh"]
              /\ UNCHANGED <<booked, wire, sent>>
      /\ batchSize' = batchSize /\ sns' = sns /\ spoiled' = spoiled
      /\ alive' = alive /\ seen' = seen
  BY DEF Append1, receiverVars
<1>6. enc.pc = "append"
  BY DEF Append1
<1>7. booked = <<>> => BatchLen(b) = 0
  BY <1>1, NewLen DEF TheBatch
<1>8. booked # <<>> => b = booked[1]
  BY DEF TheBatch
<1> HIDE DEF b, pieces, w
<1>9. [enc EXCEPT !.pc = "fresh"].pc = "fresh" /\ [enc EXCEPT !.pc = "fresh"].msg = enc.msg
  BY <1>1 DEF Starting
<1>10. enc' = Idle \/ (enc'.pc = "fresh" /\ enc'.msg = enc.msg)
  BY <1>5, <1>9 DEF Done
<1>11. Planned'
  BY <1>6, <1>10 DEF Flow, Planned, Idle
<1>12. ASSUME Orderly PROVE Orderly'
  <2>1. PICK e \in Grades : Carries(batchSize, wire, seen, e) /\ Settled(e)
    BY <1>12 DEF Orderly, Flowing
  <2>2. batchSize <= LenMax /\ batchSize \in Nat
    BY DEF Flow, SenderTyped
  <2>3. Numbers' = Numbers
    BY <1>5 DEF Numbers
  <2>4. CASE BatchLen(b) # 0
    <3>1. Begun(batchSize, b, e, Numbers)
      BY <1>7, <1>8, <2>1, <2>4 DEF Settled
    <3>2. CASE same /\ w.ok
      <4> DEFINE s == [b EXCEPT !.buf = w.buf]
      <4>1. Done(s, flush)
        BY <1>5, <2>4, <3>2
      <4>2. Begun(batchSize, s, e, Numbers) /\ s \in Batches
        BY <1>2, <1>3, <1>4, <3>1, <3>2, BegunMore
      <4> HIDE DEF s
      <4>3. Flowing' /\ enc' = Idle
        BY <1>5, <2>1, <2>2, <2>3, <4>1, <4>2, DoneFlows
      <4> QED
        BY <1>5, <1>12, <4>3 DEF Orderly, Idle
    <3>3. CASE ~(same /\ w.ok)
      <4>1. Commit(b) /\ enc' = [enc EXCEPT !.pc = "fresh"]
        BY <1>4, <1>5, <2>4, <3>3
      <4>2. Carries(batchSize', wire', seen', Numbers) /\ Numbers \in Grades /\ booked' = <<>>
        BY <1>2, <1>5, <2>1, <2>2, <3>1, <4>1, CommitsBegun
      <4>3. Flowing'
        BY <2>3, <4>2 DEF Flowing, Settled
      <4> QED
        BY <1>5, <1>9, <1>12, <4>1, <4>2, <4>3 DEF Orderly
    <3> QED
      BY <3>2, <3>3
  <2>5. CASE ~(BatchLen(b) # 0)
    <3>1. enc' = [enc EXCEPT !.pc = "fresh"] /\ booked' = booked /\ wire' = wire
      BY <1>5, <2>5
    <3>2. booked = <<>>
      <4>1. ASSUME booked # <<>> PROVE FALSE
        <5>1. Begun(batchSize, b, e, Numbers)
          BY <1>8, <2>1, <4>1 DEF Settled
        <5> QED
          BY <1>2, <2>2, <2>5, <5>1, BegunLen
      <4> QED
        BY <4>1
    <3>3. Flowing'
      BY <1>5, <2>1, <2>3, <3>1, <3>2 DEF Flowing, Settled
    <3> QED
      BY <1>5, <1>9, <1>12, <3>1, <3>2, <3>3 DEF Orderly
  <2> QED
    BY <2>4, <2>5
<1> QED
  BY <1>5, <1>11, <1>12 DEF Flow, Justified

\* The receiver takes the first batch, and has its number for the last seen.
LEMMA ReceiveFlow ==
    ASSUME SnsFit, SenderTyped, ReceiverTyped, Flow, Receive
    PROVE  Flow'
<1>1. /\ wire # <<>> /\ wire' = SubSeq(wire, wire[1] + 2, Len(wire))
      /\ batchSize' = batchSize /\ enc' = enc /\ booked' = booked /\ sns' = sns /\ spoiled' = spoiled
  BY DEF Receive, senderVars
<1>2. ASSUME Orderly PROVE Orderly'
  <2>1. PICK e \in Grades : Carries(batchSize, wire, seen, e) /\ Settled(e)
    BY <1>2 DEF Orderly, Flowing
  <2>2. PICK d, v : Heads(batchSize, wire, seen, e, d, v)
    BY <1>1, <2>1, CarriesHead
  <2>3. /\ First = Single(BytesOf(d)) /\ wire[1] # 0
        /\ SubSeq(wire, 2, wire[1] + 1) = BytesOf(d)
        /\ SubSeq(wire, wire[1] + 2, Len(wire)) = v
    BY <2>2, FirstIs
  <2> DEFINE h == ReadHeader(Reader(First))
  <2>4. h.ok = TRUE /\ h.qos = d.q /\ h.sn = d.sn
    <3>1. d \in Sendable(batchSize)
      BY <2>2 DEF Heads
    <3>2. ReadsHead(d)
      BY <3>1, HeadReads
    <3> QED
      BY <2>3, <3>2 DEF ReadsHead
  <2>5. IF wire[1] = 0 THEN UNCHANGED receiverVars
        ELSE IF ~h.ok THEN alive' = FALSE /\ UNCHANGED <<defrag, inbox, seen>>
        ELSE seen' = [seen EXCEPT ![h.qos.cc] = h.sn] /\ UNCHANGED alive
    BY DEF Receive, First
  <2> HIDE DEF h
  <2>6. seen' = [seen EXCEPT ![d.q.cc] = d.sn] /\ alive' = alive
    BY <2>3, <2>4, <2>5
  <2>7. Carries(batchSize', wire', seen', e)
    BY <1>1, <2>2, <2>3, <2>6 DEF Heads
  <2>8. Numbers' = Numbers
    BY <1>1 DEF Numbers
  <2>9. Flowing'
    BY <1>1, <2>1, <2>7, <2>8 DEF Flowing, Settled
  <2> QED
    BY <1>1, <1>2, <2>6, <2>9 DEF Orderly
<1> QED
  BY <1>1, <1>2 DEF Flow, Planned, Justified

\* A frame of its own is the next batch.
LEMMA FrameFlow ==
    ASSUME SenderTyped, Flow, NEW flush, WriteFrame(flush)
    PROVE  Flow'
<1> DEFINE b == TheBatch(enc.qos.cc)
           sn == Next_Sn(sns[enc.qos.cc])
           w == Frame(b, sn)
           s == [b EXCEPT !.buf = w.buf]
           tail == FlattenSeq(BytesPieces(enc.msg))
           d == Made(enc.qos, sn, "frame", 0, tail)
<1>1. enc.msg \in Vecs /\ enc.qos \in Qos /\ enc.qos.cc \in Ccs /\ enc.pc = "fresh"
  BY EncIs DEF WriteFrame
<1>2. sn \in SeqNums
  BY <1>1, NextSn DEF SenderTyped
<1>3. /\ w.ok /\ UseSn(sn, sns.fragid) /\ Done(s, flush)
      /\ batchSize' = batchSize /\ spoiled' = spoiled /\ alive' = alive /\ seen' = seen
  BY DEF WriteFrame, receiverVars
<1>4. enc' = Idle
  BY <1>3 DEF Done
<1>5. ASSUME Orderly PROVE Orderly'
  <2>1. booked = <<>>
    BY <1>1, <1>5 DEF Orderly
  <2>2. /\ b = NewBatch(enc.qos.cc) /\ b \in Batches /\ tail \in Seq(Nat)
        /\ d \in Sendable(batchSize) /\ w.buf \in Bufs /\ w.buf.cap = batchSize
        /\ w.buf.data = BytesOf(d)
    BY <1>1, <1>2, <1>3, <2>1, FrameIs
  <2>3. d.q = enc.qos /\ d.sn = sn /\ d.body = "frame"
    BY DEF Made
  <2> HIDE DEF w, d, sn, tail
  <2>4. b.fragment = NoBytes /\ b.cc = enc.qos.cc
    BY <1>1, <2>2, NewLen
  <2>5. s \in Batches /\ s.buf = w.buf /\ s.fragment = NoBytes /\ s.cc = enc.qos.cc
    <3> DEFINE x == w.buf
    <3>1. x \in Bufs
      BY <2>2
    <3> HIDE DEF x, b
    <3>2. /\ [b EXCEPT !.buf = x] \in Batches
          /\ [b EXCEPT !.buf = x] = [buf |-> x, fragment |-> b.fragment, cc |-> b.cc]
      BY <2>2, <3>1, SetBuf
    <3>3. s = [b EXCEPT !.buf = x]
      BY DEF x
    <3> HIDE DEF s
    <3> QED
      BY <2>4, <3>2, <3>3 DEF x
  <2> HIDE DEF s, b
  <2>6. PICK e \in Grades : Carries(batchSize, wire, seen, e) /\ Settled(e)
    BY <1>5 DEF Orderly, Flowing
  <2>7. Numbers = e
    BY <2>1, <2>6 DEF Settled
  <2>8. Numbers' = [Numbers EXCEPT ![enc.qos.cc] = sn]
    BY <1>1, <1>2, <1>3, NumbersUse DEF SenderTyped
  <2>9. d.sn = Next_Sn(e[d.q.cc])
    BY <1>1, <2>3, <2>7 DEF Numbers, sn
  <2>10. Begun(batchSize, s, e, Numbers')
    BY <2>2, <2>3, <2>5, <2>7, <2>8, <2>9 DEF Begun
  <2>11. batchSize <= LenMax
    BY DEF Flow
  <2>12. Flowing'
    BY <1>3, <2>5, <2>6, <2>10, <2>11, DoneFlows
  <2> QED
    BY <1>3, <1>4, <1>5, <2>12 DEF Orderly, Idle
<1> QED
  BY <1>3, <1>4, <1>5 DEF Flow, Planned, Justified, Idle

\* A fragment is committed, and the push goes on behind it.
LEMMA FragmentFlows ==
    ASSUME SenderTyped, batchSize <= LenMax, Orderly, enc.pc \in {"fresh", "more"},
           NEW f \in Batches, NEW d \in Sendable(batchSize),
           f.buf.data \o Content(f.fragment) = BytesOf(d),
           NEW r, NEW sn \in SeqNums, NEW fragid,
           d.q = enc.qos, d.sn = sn, sn = Next_Sn(sns[enc.qos.cc]),
           Commit(f), UseSn(sn, fragid), Continue(r, sn, fragid),
           batchSize' = batchSize, alive' = alive, seen' = seen
    PROVE  Orderly'
<1>1. enc.qos.cc \in Ccs
  BY EncIs
<1>2. booked = <<>>
  BY DEF Orderly
<1>3. PICK e \in Grades : Carries(batchSize, wire, seen, e) /\ Settled(e)
  BY DEF Orderly, Flowing
<1>4. Numbers = e
  BY <1>2, <1>3 DEF Settled
<1>5. d.sn = Next_Sn(e[d.q.cc])
  BY <1>1, <1>4 DEF Numbers
<1>6. /\ Carries(batchSize', wire', seen', [e EXCEPT ![d.q.cc] = d.sn])
      /\ [e EXCEPT ![d.q.cc] = d.sn] \in Grades /\ booked' = <<>>
  BY <1>3, <1>5, Commits
<1>7. Numbers' = [Numbers EXCEPT ![enc.qos.cc] = sn] /\ sns'[enc.qos.cc] = sn
  BY <1>1, NumbersUse DEF SenderTyped
<1>8. Flowing'
  BY <1>4, <1>6, <1>7 DEF Flowing, Settled
<1>9. CASE Remaining(r) > 0
  <2>1. enc' = [pc |-> "more", msg |-> enc.msg, qos |-> enc.qos,
                r |-> r, sn |-> Next_Sn(sn), fragid |-> fragid]
    BY <1>9 DEF Continue
  <2>2. enc'.sn = Next_Sn(sn) /\ enc'.qos = enc.qos /\ enc'.r = r
    BY <2>1
  <2> QED
    BY <1>6, <1>7, <1>8, <1>9, <2>2 DEF Orderly
<1>10. CASE ~(Remaining(r) > 0)
  <2>1. enc' = Idle
    BY <1>10 DEF Continue
  <2> QED
    BY <1>6, <1>8, <2>1 DEF Orderly, Idle
<1> QED
  BY <1>9, <1>10

\* What the push is about stays.
LEMMA ContinuePlanned ==
    ASSUME Planned, enc.pc # "idle", NEW r, NEW sn, NEW fragid, Continue(r, sn, fragid)
    PROVE  Planned' /\ spoiled' = spoiled
<1>1. enc' = Idle \/ (enc'.pc = "more" /\ enc'.msg = enc.msg)
  <2>1. CASE Remaining(r) > 0
    <3>1. enc' = [pc |-> "more", msg |-> enc.msg, qos |-> enc.qos,
                  r |-> r, sn |-> Next_Sn(sn), fragid |-> fragid]
      BY <2>1 DEF Continue
    <3> QED
      BY <3>1
  <2>2. CASE ~(Remaining(r) > 0)
    BY <2>2 DEF Continue
  <2> QED
    BY <2>1, <2>2
<1> QED
  BY <1>1 DEF Planned, Idle, Continue

LEMMA FailedPlanned ==
    ASSUME NEW b, EncodingFailed(b)
    PROVE  Planned' /\ spoiled' = TRUE
BY DEF EncodingFailed, Planned, Idle

\* A fragment in a new batch.
LEMMA FilledNew ==
    ASSUME SenderTyped, NEW cc \in Ccs, NEW buf \in Bufs, NEW v \in Vecs
    PROVE  /\ Filled(NewBatch(cc), buf, v) \in Batches
           /\ Filled(NewBatch(cc), buf, v).buf = buf
           /\ Content(Filled(NewBatch(cc), buf, v).fragment) = Content(v)
           /\ Content(v) \in Seq(Nat)
<1> DEFINE b == NewBatch(cc)
           f == Filled(b, buf, v)
<1>1. b \in Batches /\ b.fragment = NoBytes
  BY NewLen
<1> HIDE DEF b
<1>2. f \in Batches
  BY <1>1, FilledIs
<1>3. f.buf = buf /\ f.fragment = Extend(NoBytes, v)
  BY <1>1 DEF Filled
<1>4. Content(Extend(NoBytes, v)) = <<>> \o Content(v)
  BY NoBytesIs, ExtendIs
<1>5. Content(v) \in Seq(Nat)
  BY ReaderIs
<1>6. <<>> \o Content(v) = Content(v)
  BY <1>5, ConcatEmptySeq
<1> HIDE DEF f
<1>7. Content(f.fragment) = Content(v)
  BY <1>3, <1>4, <1>6
<1> QED
  BY <1>2, <1>3, <1>5, <1>7 DEF f, b

\* The first fragment in a new batch: it is written if its header and the length of the
\* message fit, and it ends where the batch does.
LEMMA FirstFragmentIs ==
    ASSUME SenderTyped, enc.pc = "fresh", booked = <<>>, NEW sn \in SeqNums, NEW fid \in SeqNums,
           ~Frame(TheBatch(enc.qos.cc), sn).ok
    PROVE  LET b == TheBatch(enc.qos.cc)
               lv == VleBytes(LenOf(enc.msg))
               w == WriteAll(b.buf, HeaderPieces(QosOfEnc, sn, "first", fid) \o <<lv>>)
               views == ReadChunks(Reader(enc.msg), Room(w.buf))
               d == Made(enc.qos, sn, "first", fid, lv \o Content(views.data)) 
               f == Filled(b, w.buf, views.data) IN
           /\ w.ok \in BOOLEAN
           /\ ~w.ok => batchSize < HeaderLen(sn, "first", fid) + VleLen(LenOf(enc.msg))
           /\ w.ok => /\ views.ok /\ d \in Sendable(batchSize) /\ d.q = enc.qos /\ d.sn = sn
                      /\ f \in Batches /\ f.buf.data \o Content(f.fragment) = BytesOf(d)
                      /\ Room(w.buf) \in Nat /\ Room(w.buf) < LenOf(enc.msg)
                      /\ Gives(Reader(enc.msg), Ok(Content(views.data), views.r), Room(w.buf))
<1> DEFINE b == TheBatch(enc.qos.cc)
           v == enc.msg
           lv == VleBytes(LenOf(v))
           u == <<lv>>
           hp == HeaderOf(enc.qos, sn, "first", fid)
           head == FlattenSeq(hp)
           w == WriteAll(b.buf, hp \o u)
           room == Room(w.buf)
           views == ReadChunks(Reader(v), room)
           cv == Content(views.data)
           tail == lv \o cv
           d == Made(enc.qos, sn, "first", fid, tail)
           f == Filled(b, w.buf, views.data)
           n == HeaderLen(sn, "first", fid)
           k == VleLen(LenOf(v))
           l == LenOf(v)
<1>1. v \in Vecs /\ enc.qos \in Qos /\ enc.qos.cc \in Ccs
  BY EncIs
<1>2. /\ b = NewBatch(enc.qos.cc) /\ b \in Batches /\ b.buf \in Bufs /\ b.buf.cap = batchSize
      /\ b.buf.data = <<>>
  BY <1>1, NewLen DEF TheBatch
<1>3. lv \in Seq(Nat) /\ Len(lv) = k /\ k \in Nat /\ l \in Nat
  <2> HIDE DEF v
  <2> QED
    BY <1>1, MessagePieces
<1>4. ~(HeaderLen(sn, "frame", 0) + (k + l) <= batchSize)
  BY FrameIs
<1>5. u \in Seq(Seq(Nat)) /\ FlattenSeq(u) = lv
  <2> HIDE DEF lv
  <2>1. <<>> \in Seq(Seq(Nat))
    OBVIOUS
  <2>2. lv \in Seq(Nat)
    BY <1>3
  <2>3. FlattenSeq(<<lv>>) = lv
    BY <2>1, <2>2, FlattenAppend
  <2>4. <<lv>> \in Seq(Seq(Nat))
    BY <2>2
  <2> QED
    BY <2>3, <2>4
<1>6. "first" \in Bodies
  BY DEF Bodies
<1>7. hp \in Seq(Seq(Nat)) /\ head \in Seq(Nat) /\ Len(head) = n /\ n \in Nat
  <2>1. MadeWell(enc.qos, sn, "first", fid, lv, 0)
    BY <1>1, <1>3, <1>6, MadeIs
  <2> QED
    BY <2>1 DEF MadeWell
<1> HIDE DEF b, v, lv, u, hp, n, k, l
<1>8. /\ FlattenSeq(hp \o u) = head \o lv /\ hp \o u \in Seq(Seq(Nat))
      /\ Len(head \o lv) = n + k
  <2>1. /\ FlattenSeq(hp \o u) = FlattenSeq(hp) \o FlattenSeq(u) /\ hp \o u \in Seq(Seq(Nat))
        /\ Len(FlattenSeq(hp) \o FlattenSeq(u)) = Len(FlattenSeq(hp)) + Len(FlattenSeq(u))
    BY <1>5, <1>7, PiecesJoined
  <2> QED
    BY <1>3, <1>5, <1>7, <2>1
<1> HIDE DEF head
<1>9. WritesIf(b.buf, hp \o u, w)
  BY <1>2, <1>8, WritesIfFits
<1> HIDE DEF w
<1>10. /\ w.ok \in BOOLEAN
       /\ w.ok <=> n + k <= batchSize
       /\ w.ok => w.buf \in Bufs /\ w.buf.cap = batchSize /\ w.buf.data = head \o lv
  <2>1. /\ w.ok \in BOOLEAN
        /\ w.ok <=> Len(b.buf.data) + Len(head \o lv) <= b.buf.cap
        /\ w.ok => /\ w.buf \in Bufs /\ w.buf.cap = b.buf.cap
                   /\ w.buf.data = b.buf.data \o (head \o lv)
    BY <1>8, <1>9 DEF WritesIf
  <2>2. Len(b.buf.data) = 0 /\ 0 + (n + k) = n + k
    BY <1>2, <1>3, <1>7
  <2>3. <<>> \o (head \o lv) = head \o lv
    BY <1>3, <1>7, ConcatProperties, ConcatEmptySeq
  <2> QED
    BY <1>2, <1>8, <2>1, <2>2, <2>3
<1>11. batchSize \in Nat
  BY DEF SenderTyped
<1>12. ~w.ok => batchSize < n + k
  BY <1>3, <1>7, <1>10, <1>11
<1>13. ASSUME w.ok
       PROVE  /\ views.ok /\ d \in Sendable(batchSize) /\ d.q = enc.qos /\ d.sn = sn
              /\ f \in Batches /\ f.buf.data \o Content(f.fragment) = BytesOf(d)
              /\ room \in Nat /\ room < l /\ Gives(Reader(v), Ok(cv, views.r), room)
  <2>1. w.buf \in Bufs /\ w.buf.cap = batchSize /\ w.buf.data = head \o lv /\ n + k <= batchSize
    BY <1>10, <1>13
  <2>2. room = batchSize - (n + k) /\ room \in Nat
    <3>1. room = batchSize - (n + k)
      BY <1>8, <2>1 DEF Room
    <3> HIDE DEF room
    <3> QED
      BY <1>3, <1>7, <1>11, <2>1, <3>1
  <2>3. Reader(v) \in Readers /\ Firm(Reader(v)) /\ Remaining(Reader(v)) = l
    BY <1>1, ReaderIs DEF l, v
  <2> DEFINE r == Reader(v)
  <2> HIDE DEF room, r
  <2>4. /\ views.ok <=> room <= Remaining(r)
        /\ views.data \in Vecs
        /\ room <= Remaining(r) => Gives(r, Ok(cv, views.r), room)
    <3>1. r \in Readers /\ Firm(r)
      BY <2>3 DEF r
    <3>2. views = ReadChunks(r, room)
      BY DEF r
    <3> HIDE DEF views
    <3> QED
      BY <2>2, <3>1, <3>2, ReadChunksIs
  <2> HIDE DEF views
  <2>5. room < l
    <3> DEFINE m == HeaderLen(sn, "frame", 0)
               p == VleLen(sn)
               x == VleLen(fid)
    <3>1. p \in Nat /\ x \in Nat /\ x > 0 /\ sn \in Nat
      BY SnTypes, VleLenIs
    <3>2. m = 1 + p + 1 /\ n = 1 + p + (1 + x)
      BY DEF HeaderLen, FragmentLen, SnLen, n
    <3> HIDE DEF m, p, x
    <3>3. ~(m + (k + l) <= batchSize)
      BY <1>4 DEF m, n
    <3> QED
      BY <1>3, <1>11, <2>1, <2>2, <3>1, <3>2, <3>3
  <2>6. views.ok /\ Gives(r, Ok(cv, views.r), room)
    BY <1>3, <2>2, <2>3, <2>4, <2>5 DEF r
  <2>7. cv \in Seq(Nat) /\ Len(cv) = room
    BY <2>6 DEF Gives, Ok
  <2> HIDE DEF cv
  <2>8. tail \in Seq(Nat) /\ Len(tail) = k + room
    <3>1. lv \o cv \in Seq(Nat) /\ Len(lv \o cv) = Len(lv) + Len(cv)
      BY <1>3, <2>7, ConcatProperties
    <3> QED
      BY <1>3, <2>7, <3>1
  <2>9. MadeWell(enc.qos, sn, "first", fid, tail, batchSize)
    <3> HIDE DEF tail
    <3> QED
      BY <1>1, <1>6, <2>8, MadeIs
  <2>10. (head \o lv) \o cv = head \o tail
    <3>1. Assoc(head, lv, cv)
      BY <1>3, <1>7, <2>7, Associative
    <3> QED
      BY <3>1 DEF Assoc
  <2> HIDE DEF tail
  <2>11. Len(head \o tail) <= batchSize
    <3>1. Len(head \o tail) = Len(head) + Len(tail)
      BY <1>7, <2>8, ConcatProperties
    <3>2. n + (k + room) <= batchSize
      BY <1>3, <1>7, <1>11, <2>2
    <3> QED
      BY <1>7, <2>8, <3>1, <3>2
  <2>12. /\ d.q = enc.qos /\ d.sn = sn /\ BytesOf(d) = head \o tail
         /\ d \in Sendable(batchSize)
    <3>1. ~("first" \in {"more", "last"})
      OBVIOUS
    <3> QED
      BY <2>9, <2>11, <3>1 DEF MadeWell, head, hp
  <2> HIDE DEF d
  <2>13. f \in Batches /\ f.buf = w.buf /\ Content(f.fragment) = cv
    BY <1>1, <1>2, <2>1, <2>4, FilledNew DEF cv
  <2> HIDE DEF f
  <2>14. f.buf.data \o Content(f.fragment) = BytesOf(d)
    BY <2>1, <2>10, <2>12, <2>13
  <2> QED
    BY <2>2, <2>5, <2>6, <2>12, <2>13, <2>14 DEF r
<1>14. HeaderPieces(QosOfEnc, sn, "first", fid) = hp
  BY QosOfEncHeader DEF hp
<1> QED
  BY <1>10, <1>12, <1>13, <1>14 DEF b, v, lv, u, w, n, k, room, l

\* The first fragment is the next batch, or the push fails for lack of room.
LEMMA FirstFlow ==
    ASSUME SenderTyped, Flow, WriteFirst
    PROVE  Flow'
<1> DEFINE b == TheBatch(enc.qos.cc)
           sn == Next_Sn(sns[enc.qos.cc])
           fid == Next_Sn(sns.fragid)
           e == Rewound(b, Frame(b, sn).buf)
           lv == VleBytes(LenOf(enc.msg))
           W(x) == WriteAll(x.buf, HeaderPieces(QosOfEnc, sn, "first", fid) \o <<lv>>)
           Views(x) == ReadChunks(Reader(enc.msg), Room(W(x).buf))
           F(x) == Filled(x, W(x).buf, Views(x).data)
           d == Made(enc.qos, sn, "first", fid, lv \o Content(Views(b).data))
<1>1. enc.msg \in Vecs /\ enc.qos.cc \in Ccs /\ QosOfEnc \in Nat /\ enc.pc = "fresh"
  BY EncIs DEF WriteFirst
<1>2. b \in Batches
  BY <1>1, TheBatchIs
<1>3. sn \in SeqNums /\ sn \in Nat /\ fid \in SeqNums
  BY <1>1, NextSn DEF SenderTyped
<1>4. e = b
  <2>1. HeaderPieces(QosOfEnc, sn, "frame", 0) \in Seq(Seq(Nat))
    BY <1>1, <1>3, HeaderPiecesAre DEF Bodies
  <2>2. HeaderPieces(QosOfEnc, sn, "frame", 0) \o BytesPieces(enc.msg) \in Seq(Seq(Nat))
    BY <1>1, <2>1, BytesPiecesAre, JoinedPieces
  <2> QED
    BY <1>2, <2>2, WriteTyped DEF Frame
<1>5. /\ ~Frame(b, sn).ok
      /\ IF W(e).ok /\ Views(e).ok
         THEN Commit(F(e)) /\ UseSn(sn, fid) /\ Continue(Views(e).r, sn, fid)
         ELSE EncodingFailed([e EXCEPT !.buf = W(e).buf])
      /\ batchSize' = batchSize /\ alive' = alive /\ seen' = seen
  BY DEF WriteFirst, receiverVars
<1> HIDE DEF e
<1>6. IF W(b).ok /\ Views(b).ok
      THEN Commit(F(b)) /\ UseSn(sn, fid) /\ Continue(Views(b).r, sn, fid)
      ELSE EncodingFailed([b EXCEPT !.buf = W(b).buf])
  BY <1>4, <1>5
<1>7. ASSUME ~spoiled
      PROVE  /\ Orderly /\ W(b).ok \in BOOLEAN
             /\ ~W(b).ok => batchSize < HeaderLen(sn, "first", fid) + VleLen(LenOf(enc.msg))
             /\ W(b).ok => /\ Views(b).ok /\ d \in Sendable(batchSize) /\ d.q = enc.qos /\ d.sn = sn
                           /\ F(b) \in Batches
                           /\ F(b).buf.data \o Content(F(b).fragment) = BytesOf(d)
  <2>1. Orderly
    BY <1>7 DEF Flow
  <2>2. booked = <<>>
    BY <1>1, <2>1 DEF Orderly
  <2> QED
    BY <1>1, <1>3, <1>5, <2>1, <2>2, FirstFragmentIs
<1> DEFINE w == W(b)
           views == Views(b)
           f == F(b)
<1> HIDE DEF d
<1>8. IF w.ok /\ views.ok
      THEN Commit(f) /\ UseSn(sn, fid) /\ Continue(views.r, sn, fid)
      ELSE EncodingFailed([b EXCEPT !.buf = w.buf])
  BY <1>6
<1>9. ASSUME ~spoiled
      PROVE  /\ Orderly /\ w.ok \in BOOLEAN
             /\ ~w.ok => batchSize < HeaderLen(sn, "first", fid) + VleLen(LenOf(enc.msg))
             /\ w.ok => /\ views.ok /\ d \in Sendable(batchSize) /\ d.q = enc.qos /\ d.sn = sn
                        /\ f \in Batches /\ f.buf.data \o Content(f.fragment) = BytesOf(d)
  BY <1>7, <1>9
<1>10. sn = Next_Sn(sns[enc.qos.cc])
  OBVIOUS
<1> HIDE DEF w, views, f, b, sn, fid
<1>11. Planned /\ batchSize <= LenMax
  BY DEF Flow
<1>12. CASE w.ok /\ views.ok
  <2>1. Commit(f) /\ UseSn(sn, fid) /\ Continue(views.r, sn, fid)
    BY <1>8, <1>12
  <2>2. Planned' /\ spoiled' = spoiled
    BY <1>1, <1>11, <2>1, ContinuePlanned
  <2>3. ASSUME ~spoiled PROVE Orderly'
    BY <1>1, <1>3, <1>5, <1>9, <1>10, <1>11, <1>12, <2>1, <2>3, FragmentFlows
  <2> QED
    BY <1>5, <2>2, <2>3 DEF Flow, Justified
<1>13. CASE ~(w.ok /\ views.ok)
  <2>1. EncodingFailed([b EXCEPT !.buf = w.buf])
    BY <1>8, <1>13
  <2>2. Planned' /\ spoiled' = TRUE
    BY <2>1, FailedPlanned
  <2>3. \E plan \in Plans : batchSize < LongestHead(plan)
    <3>1. CASE spoiled
      BY <3>1 DEF Flow, Justified
    <3>2. CASE ~spoiled
      <4>1. batchSize < HeaderLen(sn, "first", fid) + VleLen(LenOf(enc.msg))
        BY <1>9, <1>13, <3>2
      <4>2. PICK plan \in Plans : LenOf(enc.msg) = LenOf(Composed(plan, 0))
        BY <1>1, <1>11 DEF Planned
      <4> DEFINE m == HeaderLen(Modulus - 1, "first", Modulus - 1)
                 n == HeaderLen(sn, "first", fid)
                 k == VleLen(LenOf(enc.msg))
      <4>3. n <= m /\ n \in Nat /\ m \in Nat
        BY <1>3, LongestIs DEF Bodies
      <4>4. k \in Nat
        BY <1>1, MessagePieces
      <4>5. LongestHead(plan) = m + k
        BY <4>2 DEF LongestHead
      <4> HIDE DEF m, n, k
      <4>6. batchSize < n + k /\ batchSize \in Nat
        BY <4>1 DEF n, k, SenderTyped
      <4>7. batchSize < LongestHead(plan)
        BY <4>3, <4>4, <4>5, <4>6
      <4> QED
        BY <4>7
    <3> QED
      BY <3>1, <3>2
  <2>4. Justified'
    BY <1>5, <2>3 DEF Justified
  <2> QED
    BY <1>5, <1>11, <2>2, <2>4 DEF Flow
<1> QED
  BY <1>12, <1>13

\* The room for data in 16 bits.
LEMMA RoomLeft ==
    ASSUME NEW z \in Nat
    PROVE  z % 65536 \in Nat /\ z % 65536 <= z /\ (z < 65536 => z % 65536 = z)
OBVIOUS

\* A fragment that is not the first, in a new batch: it is written if its header fits, and
\* has no more data than there is room for.
LEMMA NextFragmentIs ==
    ASSUME SenderTyped, batchSize <= LenMax, enc.pc = "more", booked = <<>>,
           Remaining(enc.r) > 0
    PROVE  LET b == TheBatch(enc.qos.cc)
               room == FragmentRoom(b)
               rest == Remaining(enc.r)
               kind == IF room >= rest THEN "last" ELSE "more"
               w == WriteAll(b.buf, HeaderPieces(QosOfEnc, enc.sn, kind, enc.fragid))
               views == ReadChunks(enc.r, Least(rest, room))
               d == Made(enc.qos, enc.sn, kind, enc.fragid, Content(views.data))
               f == Filled(b, w.buf, views.data) IN
           /\ w.ok \in BOOLEAN
           /\ ~w.ok => batchSize < HeaderLen(enc.sn, kind, enc.fragid)
           /\ w.ok => /\ views.ok /\ d \in Sendable(batchSize) /\ d.q = enc.qos /\ d.sn = enc.sn
                      /\ f \in Batches /\ f.buf.data \o Content(f.fragment) = BytesOf(d)
<1> DEFINE b == TheBatch(enc.qos.cc)
           room == FragmentRoom(b)
           rest == Remaining(enc.r)
           kind == IF room >= rest THEN "last" ELSE "more"
           m == Least(rest, room)
           hp == HeaderOf(enc.qos, enc.sn, kind, enc.fragid)
           head == FlattenSeq(hp)
           w == WriteAll(b.buf, HeaderPieces(QosOfEnc, enc.sn, kind, enc.fragid))
           views == ReadChunks(enc.r, m)
           cv == Content(views.data)
           d == Made(enc.qos, enc.sn, kind, enc.fragid, cv)
           f == Filled(b, w.buf, views.data)
           n == HeaderLen(enc.sn, kind, enc.fragid)
<1> SUFFICES /\ w.ok \in BOOLEAN
             /\ ~w.ok => batchSize < n
             /\ w.ok => /\ views.ok /\ d \in Sendable(batchSize) /\ d.q = enc.qos /\ d.sn = enc.sn
                        /\ f \in Batches /\ f.buf.data \o Content(f.fragment) = BytesOf(d)
  OBVIOUS
<1>1. /\ enc.qos \in Qos /\ enc.qos.cc \in Ccs /\ enc.r \in Readers /\ Firm(enc.r)
      /\ enc.sn \in SeqNums /\ enc.fragid \in SeqNums
  BY EncIs
<1>2. /\ b = NewBatch(enc.qos.cc) /\ b \in Batches /\ b.buf \in Bufs /\ b.buf.cap = batchSize
      /\ b.buf.data = <<>>
  BY <1>1, NewLen DEF TheBatch
<1>3. kind \in Bodies /\ kind \in {"more", "last"}
  BY DEF Bodies
<1>4. HeaderLen(enc.sn, "more", enc.fragid) = n
  BY DEF HeaderLen
<1>5. room = (batchSize - n) % 65536
  <2>1. Room(b.buf) = batchSize - 0
    BY <1>2 DEF Room
  <2>2. batchSize - 0 = batchSize
    BY DEF SenderTyped
  <2> HIDE DEF n, b
  <2> QED
    BY <1>4, <2>1, <2>2 DEF FragmentRoom
<1>6. rest \in Nat /\ rest > 0 /\ room \in Nat
  <2>1. rest \in Nat
    BY <1>1, OffsetIn
  <2>2. enc.sn \in Nat /\ enc.fragid \in Nat
    BY <1>1, NextSn
  <2> QED
    BY <1>2, <2>1, <2>2, FragmentRoomIs
<1> HIDE DEF b, room, rest, kind, n
<1>7. m \in Nat /\ m <= rest /\ m <= room /\ (room > 0 => m > 0)
  BY <1>6 DEF Least
<1> HIDE DEF m
<1>8. m <= Remaining(enc.r)
  BY <1>7 DEF rest
<1>9. views.ok /\ views.data \in Vecs /\ Gives(enc.r, Ok(cv, views.r), m)
  BY <1>1, <1>7, <1>8, ReadChunksIs
<1> HIDE DEF views
<1>10. cv \in Seq(Nat) /\ Len(cv) = m
  BY <1>9 DEF Gives, Ok
<1> HIDE DEF cv
<1>11. MadeWell(enc.qos, enc.sn, kind, enc.fragid, cv, batchSize)
  BY <1>1, <1>3, <1>10, MadeIs
<1>12. /\ d.q = enc.qos /\ d.sn = enc.sn /\ BytesOf(d) = head \o cv
       /\ hp \in Seq(Seq(Nat)) /\ head \in Seq(Nat) /\ Len(head) = n /\ n \in Nat
       /\ Len(head \o cv) <= batchSize /\ (Roomy(batchSize) => cv # <<>>) => d \in Sendable(batchSize)
  BY <1>11 DEF MadeWell, n
<1> HIDE DEF d, hp
<1>18. w = WriteAll(b.buf, hp)
  BY QosOfEncHeader DEF hp
<1> HIDE DEF w
<1>13. WritesIf(b.buf, hp, w)
  BY <1>2, <1>12, <1>18, WritesIfFits
<1>14. /\ w.ok \in BOOLEAN
       /\ w.ok <=> n <= batchSize
       /\ w.ok => w.buf \in Bufs /\ w.buf.data = head
  <2>1. /\ w.ok \in BOOLEAN
        /\ w.ok <=> Len(b.buf.data) + Len(head) <= b.buf.cap
        /\ w.ok => w.buf \in Bufs /\ w.buf.data = b.buf.data \o head
    BY <1>13 DEF WritesIf
  <2> HIDE DEF head
  <2>2. Len(b.buf.data) = 0 /\ 0 + n = n
    BY <1>2, <1>12
  <2>3. <<>> \o head = head
    BY <1>12, ConcatEmptySeq
  <2> QED
    BY <1>2, <1>12, <2>1, <2>2, <2>3
<1> HIDE DEF head
<1>15. batchSize \in Nat
  BY DEF SenderTyped
<1>16. ~w.ok => batchSize < n
  BY <1>12, <1>14, <1>15
<1>17. ASSUME w.ok
       PROVE  d \in Sendable(batchSize) /\ f \in Batches /\ f.buf.data \o Content(f.fragment) = BytesOf(d)
  <2>1. n <= batchSize /\ w.buf \in Bufs /\ w.buf.data = head
    BY <1>14, <1>17
  <2> DEFINE z == batchSize - n
  <2>2. z \in Nat /\ room = z % 65536
    <3>1. z \in Nat
      BY <1>12, <1>15, <2>1
    <3> QED
      BY <1>5, <3>1
  <2>3. n + z = batchSize
    BY <1>12, <1>15
  <2> HIDE DEF z
  <2>4. room <= z /\ (z < 65536 => room = z)
    BY <2>2, RoomLeft
  <2>5. Len(head \o cv) <= batchSize
    <3>1. Len(head \o cv) = Len(head) + Len(cv)
      BY <1>10, <1>12, ConcatProperties
    <3>2. n + m <= batchSize
      BY <1>6, <1>7, <1>12, <1>15, <2>2, <2>3, <2>4
    <3> QED
      BY <1>10, <1>12, <3>1, <3>2
  <2>6. ASSUME Roomy(batchSize) PROVE cv # <<>>
    <3> DEFINE k == HeaderLen(Modulus - 1, "more", Modulus - 1)
    <3>1. LenMax < 65536 /\ k < batchSize
      BY <2>6 DEF Roomy
    <3>2. n <= k /\ k \in Nat
      BY <1>1, <1>3, LongestIs DEF n
    <3> HIDE DEF k
    <3>3. LenMax \in Nat
      BY WireAssumption
    <3>4. z > 0 /\ z < 65536
      BY <1>12, <1>15, <2>2, <2>3, <3>1, <3>2, <3>3
    <3>5. m # 0
      BY <1>6, <1>7, <2>2, <2>4, <3>4
    <3>6. Len(cv) # 0
      BY <1>10, <3>5
    <3> QED
      BY <3>6
  <2>7. d \in Sendable(batchSize)
    BY <1>12, <2>5, <2>6
  <2>8. f \in Batches /\ f.buf = w.buf /\ Content(f.fragment) = cv
    BY <1>1, <1>2, <1>9, <2>1, FilledNew DEF cv
  <2> HIDE DEF f
  <2> QED
    BY <1>12, <2>1, <2>7, <2>8
<1> HIDE DEF f
<1> QED
  BY <1>9, <1>12, <1>14, <1>16, <1>17

\* So is a fragment that is not the first.
LEMMA NextFlow ==
    ASSUME SenderTyped, Flow, WriteNext
    PROVE  Flow'
<1> DEFINE b == TheBatch(enc.qos.cc)
           room == FragmentRoom(b)
           rest == Remaining(enc.r)
           kind == IF room >= rest THEN "last" ELSE "more"
           w == WriteAll(b.buf, HeaderPieces(QosOfEnc, enc.sn, kind, enc.fragid))
           views == ReadChunks(enc.r, Least(rest, room))
           d == Made(enc.qos, enc.sn, kind, enc.fragid, Content(views.data))
           f == Filled(b, w.buf, views.data)
<1>1. enc.msg \in Vecs /\ enc.sn \in SeqNums /\ enc.fragid \in SeqNums /\ enc.pc = "more"
  BY EncIs DEF WriteNext
<1>2. kind \in Bodies
  BY DEF Bodies
<1>3. /\ IF w.ok /\ views.ok
         THEN Commit(f) /\ UseSn(enc.sn, enc.fragid) /\ Continue(views.r, enc.sn, enc.fragid)
         ELSE EncodingFailed([b EXCEPT !.buf = w.buf])
      /\ batchSize' = batchSize /\ alive' = alive /\ seen' = seen
  BY DEF WriteNext, receiverVars
<1>4. Planned /\ batchSize <= LenMax
  BY DEF Flow
<1>5. ASSUME ~spoiled
      PROVE  /\ Orderly /\ enc.sn = Next_Sn(sns[enc.qos.cc]) /\ w.ok \in BOOLEAN
             /\ ~w.ok => batchSize < HeaderLen(enc.sn, kind, enc.fragid)
             /\ w.ok => /\ views.ok /\ d \in Sendable(batchSize) /\ d.q = enc.qos /\ d.sn = enc.sn
                        /\ f \in Batches /\ f.buf.data \o Content(f.fragment) = BytesOf(d)
  <2>1. Orderly
    BY <1>5 DEF Flow
  <2>2. booked = <<>> /\ enc.sn = Next_Sn(sns[enc.qos.cc]) /\ Remaining(enc.r) > 0
    BY <1>1, <2>1 DEF Orderly
  <2> QED
    BY <1>1, <1>4, <2>1, <2>2, NextFragmentIs
<1> HIDE DEF w, views, f, b, d, kind
<1>6. CASE w.ok /\ views.ok
  <2>1. Commit(f) /\ UseSn(enc.sn, enc.fragid) /\ Continue(views.r, enc.sn, enc.fragid)
    BY <1>3, <1>6
  <2>2. Planned' /\ spoiled' = spoiled
    BY <1>1, <1>4, <2>1, ContinuePlanned
  <2>3. ASSUME ~spoiled PROVE Orderly'
    BY <1>1, <1>3, <1>4, <1>5, <1>6, <2>1, <2>3, FragmentFlows
  <2> QED
    BY <1>3, <1>4, <2>2, <2>3 DEF Flow, Justified
<1>7. CASE ~(w.ok /\ views.ok)
  <2>1. EncodingFailed([b EXCEPT !.buf = w.buf])
    BY <1>3, <1>7
  <2>2. Planned' /\ spoiled' = TRUE
    BY <2>1, FailedPlanned
  <2>3. \E plan \in Plans : batchSize < LongestHead(plan)
    <3>1. CASE spoiled
      BY <3>1 DEF Flow, Justified
    <3>2. CASE ~spoiled
      <4>1. batchSize < HeaderLen(enc.sn, kind, enc.fragid)
        BY <1>5, <1>7, <3>2
      <4>2. PICK plan \in Plans : LenOf(enc.msg) = LenOf(Composed(plan, 0))
        BY <1>1, <1>4 DEF Planned
      <4> DEFINE m == HeaderLen(Modulus - 1, "first", Modulus - 1)
                 n == HeaderLen(enc.sn, kind, enc.fragid)
                 k == VleLen(LenOf(enc.msg))
      <4>3. n <= m /\ n \in Nat /\ m \in Nat
        BY <1>1, <1>2, LongestIs
      <4>4. k \in Nat
        BY <1>1, MessagePieces
      <4>5. LongestHead(plan) = m + k
        BY <4>2 DEF LongestHead
      <4> HIDE DEF m, n, k
      <4>6. batchSize < n /\ batchSize \in Nat
        BY <4>1 DEF n, SenderTyped
      <4>7. batchSize < LongestHead(plan)
        BY <4>3, <4>4, <4>5, <4>6
      <4> QED
        BY <4>7
    <3> QED
      BY <3>1, <3>2
  <2>4. Justified'
    BY <1>3, <2>3 DEF Justified
  <2> QED
    BY <1>3, <1>4, <2>2, <2>4 DEF Flow
<1> QED
  BY <1>6, <1>7

\* Every step keeps the flow.
LEMMA StepFlow ==
    ASSUME SnsFit, Typed, Flow, [Next]_vars
    PROVE  Flow'
<1>1. SenderTyped /\ ReceiverTyped
  BY DEF Typed
<1>2. CASE \E plan \in Plans, qos \in Qos : Send(plan, qos)
  BY <1>1, <1>2, SendFlow
<1>3. CASE SendStep
  <2>1. ASSUME NEW flush \in BOOLEAN, Append1(flush) PROVE Flow'
    BY <1>1, <2>1, AppendFlow
  <2>2. ASSUME NEW flush \in BOOLEAN, WriteFrame(flush) PROVE Flow'
    BY <1>1, <2>2, FrameFlow
  <2>3. CASE WriteFirst
    BY <1>1, <2>3, FirstFlow
  <2>4. CASE WriteNext
    BY <1>1, <2>4, NextFlow
  <2>5. CASE Flush
    BY <1>1, <2>5, FlushFlow
  <2> QED
    BY <1>3, <2>1, <2>2, <2>3, <2>4, <2>5 DEF SendStep
<1>4. CASE Receive
  BY <1>1, <1>4, ReceiveFlow
<1>5. CASE Pull
  BY <1>5, FlowKept DEF Pull, senderVars
<1>6. CASE OpenReader
  BY <1>6, FlowKept DEF OpenReader, senderVars, receiverVars
<1>7. CASE ReadOn
  BY <1>7, FlowKept DEF ReadOn, receiverVars
<1>8. CASE UNCHANGED vars
  BY <1>8, FlowKept DEF vars, senderVars, receiverVars
<1> QED
  BY <1>2, <1>3, <1>4, <1>5, <1>6, <1>7, <1>8 DEF Next

----------------------------------------------------------------------------
(* What arrives *)

\* What the receiver finds first on the wire while no push has failed.
LEMMA FirstRead ==
    ASSUME SnsFit, Flow, ~spoiled, wire # <<>>
    PROVE  \E d \in Sendable(batchSize) :
               /\ d.sn = Next_Sn(seen[d.q.cc]) /\ d.q.cc \in Ccs /\ seen \in Grades
               /\ wire[1] = Len(BytesOf(d)) /\ wire[1] <= batchSize /\ wire[1] < Len(wire)
               /\ First = Single(BytesOf(d)) /\ ReadsHead(d)
<1>1. PICK e \in Grades : Carries(batchSize, wire, seen, e)
  BY DEF Flow, Orderly, Flowing
<1>2. PICK d, v : Heads(batchSize, wire, seen, e, d, v)
  BY <1>1, CarriesHead
<1>3. d \in Sendable(batchSize) /\ d.sn = Next_Sn(seen[d.q.cc])
  BY <1>2 DEF Heads
<1>4. /\ First = Single(BytesOf(d)) /\ wire[1] = Len(BytesOf(d)) /\ wire[1] < Len(wire)
  BY <1>2, FirstIs
<1>5. Len(BytesOf(d)) <= batchSize /\ d.q.cc \in Ccs
  BY <1>3, BytesOfIs
<1>6. ReadsHead(d)
  BY <1>3, HeadReads
<1>7. seen \in Grades
  <2>1. PICK ds, g \in [Nat -> [Ccs -> SeqNums]] : g[0] = seen
    BY <1>1 DEF Carries
  <2> QED
    BY <2>1 DEF Grades
<1> QED
  BY <1>3, <1>4, <1>5, <1>6, <1>7

\* The receiver reads what the sender wrote: no batch is refused before a push has failed,
\* and no push fails if the batches of the link hold the longest header and the length of
\* the message (read_task ends with DecodingFailed, push of tx.rs with EncodingFailed).
THEOREM WhatIsWrittenDecodes ==
    ASSUME SnsFit
    PROVE  Spec => []EverythingDecodes
<1>1. Init => Typed /\ Flow
  BY InitTyped, InitFlow
<1>2. Typed /\ Flow /\ [Next]_vars => Typed' /\ Flow'
  BY StepTyped, StepFlow
<1>3. Flow => EverythingDecodes
  BY DEF Flow, Orderly, Justified, EverythingDecodes
<1> QED
  BY <1>1, <1>2, <1>3, PTL DEF Spec

\* The batches of one congestion control arrive with consecutive numbers, across the wrap
\* as well, and the order of sequence numbers has each after the last, if there are more
\* than two numbers (SeqNumPool and SeqNum::next of the sender, read_task of the receiver).
THEOREM ArrivesInSequence ==
    ASSUME SnsFit, Half > 1
    PROVE  Spec => InSequence
<1> DEFINE InStep ==
        Len(wire') < Len(wire) /\ wire[1] # 0 /\ ~spoiled =>
            LET h == ReadHeader(Reader(First))
                last == seen[h.qos.cc] IN
            h.sn = Next_Sn(last) /\ Cmp(last, h.sn) = "less"
<1>1. Init => Typed /\ Flow
  BY InitTyped, InitFlow
<1>2. Typed /\ Flow /\ [Next]_vars => Typed' /\ Flow'
  BY StepTyped, StepFlow
<1>3. Typed /\ Flow /\ Typed' => InStep
  <2> SUFFICES ASSUME Typed, Flow, Typed', Len(wire') < Len(wire), ~spoiled
               PROVE  LET h == ReadHeader(Reader(First))
                          last == seen[h.qos.cc] IN
                      h.sn = Next_Sn(last) /\ Cmp(last, h.sn) = "less"
    OBVIOUS
  <2>1. wire # <<>>
    <3>1. wire' \in Seq(Nat)
      BY DEF Typed, SenderTyped
    <3>2. Len(wire') \in Nat
      BY <3>1, LenProperties
    <3> SUFFICES ASSUME wire = <<>> PROVE FALSE
      OBVIOUS
    <3>3. Len(wire) = 0
      OBVIOUS
    <3> QED
      BY <3>2, <3>3
  <2>2. PICK d \in Sendable(batchSize) :
          /\ d.sn = Next_Sn(seen[d.q.cc]) /\ d.q.cc \in Ccs /\ seen \in Grades
          /\ First = Single(BytesOf(d)) /\ ReadsHead(d)
    BY <2>1, FirstRead
  <2> DEFINE h == ReadHeader(Reader(First))
  <2>3. h.qos = d.q /\ h.sn = d.sn
    BY <2>2 DEF ReadsHead
  <2> HIDE DEF h
  <2>4. h.sn = Next_Sn(seen[h.qos.cc]) /\ seen[h.qos.cc] \in SeqNums
    BY <2>2, <2>3 DEF Grades
  <2>5. Cmp(seen[h.qos.cc], h.sn) = "less"
    BY <2>4, NextIsLater
  <2> QED
    BY <2>4, <2>5 DEF h
<1> QED
  <2>1. Spec => [][InStep]_vars
    BY <1>1, <1>2, <1>3, PTL DEF Spec
  <2> QED
    BY <2>1 DEF InSequence

\* The batches of a link hold the longest header, the length of any message, and a byte.
Ample ==
    /\ LenMax < 65536
    /\ \A n \in BatchSizes :
        /\ HeaderLen(Modulus - 1, "more", Modulus - 1) < n
        /\ \A plan \in Plans : LongestHead(plan) <= n

\* Then no push fails.
LEMMA AmpleUnspoiled ==
    ASSUME SnsFit, Ample, Typed, Flow, batchSize \in BatchSizes
    PROVE  ~spoiled
<1> SUFFICES ASSUME spoiled PROVE FALSE
  OBVIOUS
<1>1. PICK plan \in Plans : batchSize < LongestHead(plan)
  BY DEF Flow, Justified
<1>2. LongestHead(plan) <= batchSize
  BY DEF Ample
<1>3. batchSize \in Nat /\ LongestHead(plan) \in Nat
  <2>1. plan \in Seq(Ops)
    BY WireAssumption DEF Ops
  <2>2. LenOf(Composed(plan, 0)) \in Nat
    BY <2>1, ComposedLen
  <2>3. VleLen(LenOf(Composed(plan, 0))) \in Nat
    BY <2>2, VleLenIs
  <2>4. 0 \in SeqNums /\ "frame" \in Bodies
    BY SnTypes DEF Bodies
  <2>5. HeaderLen(Modulus - 1, "first", Modulus - 1) \in Nat
    BY <2>4, LongestIs
  <2> QED
    BY <2>3, <2>5 DEF Typed, SenderTyped, LongestHead
<1> QED
  BY <1>1, <1>2, <1>3

LEMMA AmpleFits ==
    ASSUME SnsFit, Ample, Typed, Flow, batchSize \in BatchSizes
    PROVE  BatchFits
<1>1. ~spoiled
  BY AmpleUnspoiled
<1> SUFFICES ASSUME wire # <<>>
             PROVE  /\ wire[1] <= batchSize /\ wire[1] < Len(wire)
                    /\ LET h == ReadHeader(Reader(First)) IN
                       h.ok /\ h.body \in {"more", "last"} => Remaining(h.r) > 0
  BY DEF BatchFits
<1>2. PICK d \in Sendable(batchSize) :
        /\ wire[1] <= batchSize /\ wire[1] < Len(wire)
        /\ First = Single(BytesOf(d)) /\ ReadsHead(d)
  BY <1>1, FirstRead
<1> DEFINE h == ReadHeader(Reader(First))
<1>3. h.body = d.body /\ Remaining(h.r) = Len(d.tail)
  BY <1>2 DEF ReadsHead
<1> HIDE DEF h
<1>4. Roomy(batchSize)
  BY DEF Ample, Roomy
<1>5. ASSUME h.body \in {"more", "last"} PROVE Remaining(h.r) > 0
  <2>1. d.tail \in Seq(Nat) /\ d.tail # <<>>
    BY <1>3, <1>4, <1>5 DEF Sendable
  <2>2. Len(d.tail) \in Nat /\ Len(d.tail) # 0
    BY <2>1, LenProperties, EmptySeq
  <2> QED
    BY <1>3, <2>2
<1> QED
  BY <1>2, <1>5 DEF h

\* A batch is as long as announced and no longer than batch_size, and every fragment but
\* the first carries data: a push ends (push of tx.rs; batch sizes are numbers of 16 bits,
\* and the longest header of a fragment with the length of a message takes 19 bytes).
THEOREM BatchesFit ==
    ASSUME SnsFit, Ample
    PROVE  Spec => []BatchFits
<1> DEFINE Sized == batchSize \in BatchSizes
<1>1. Init => Typed /\ Flow /\ Sized
  BY InitTyped, InitFlow DEF Init
<1>2. Typed /\ Flow /\ Sized /\ [Next]_vars => Typed' /\ Flow' /\ Sized'
  <2>1. [Next]_vars => batchSize' = batchSize
    BY DEF Next, SendStep, Send, Append1, WriteFrame, WriteFirst, WriteNext, Flush, Receive,
           Pull, OpenReader, ReadOn, vars
  <2> QED
    BY <2>1, StepTyped, StepFlow
<1>3. Typed /\ Flow /\ Sized => BatchFits
  BY AmpleFits
<1> QED
  BY <1>1, <1>2, <1>3, PTL DEF Spec
=============================================================================
