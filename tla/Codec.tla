------------------------------- MODULE Codec --------------------------------
(***************************************************************************)
(* The codec (src/src/codec) and the headers it writes (src/src/protocol). *)
(* A writer gets a sequence of pieces, each written whole or not at all; a *)
(* decoder takes a BytesReader and returns [ok, data, r] as Bytes does.    *)
(*                                                                         *)
(* Group and VleMax are the scaled sizes of a variable-length integer: in  *)
(* the program a byte carries seven bits (Group = 2^7) and an integer      *)
(* takes up to nine bytes (VleMax = 9).                                    *)
(***************************************************************************)
EXTENDS Bytes, SeqNum

CONSTANTS Group, VleMax

ASSUME CodecAssumption == Group \in Nat \ {0, 1} /\ VleMax \in Nat \ {0}

----------------------------------------------------------------------------
(* Variable-length integers *)

\* What the i-th byte counts, from 0.
Weight[i \in Nat] == IF i = 0 THEN 1 ELSE Group * Weight[i - 1]

\* The largest integer: VleMax - 1 groups and a last byte that is used in full.
MaxVle == Weight[VleMax - 1] * 2 * Group - 1

VleLen(x) == CHOOSE n \in 1..VleMax :
    /\ n = VleMax \/ x < Weight[n]
    /\ n > 1 => x >= Weight[n - 1]

\* Every byte but the last one carries a group and a mark; the VleMax-th has no mark
\* of its own, it is the low byte of what is left.
VleBytes(x) ==
    [i \in 1..VleLen(x) |->
        LET rest == x \div Weight[i - 1] IN
        IF rest >= Group THEN Group + (rest % Group) ELSE rest]

Taken(v, b) ==
    LET marked == b.data[1] >= Group /\ v.i # VleMax - 1 IN
    IF ~b.ok THEN [v EXCEPT !.on = FALSE, !.ok = FALSE]
    ELSE [r |-> b.r, i |-> v.i + 1, on |-> marked, ok |-> TRUE,
          value |-> v.value + (IF marked THEN b.data[1] % Group ELSE b.data[1]) * Weight[v.i]]
VleTurn(v) == IF v.on THEN Taken(v, ReadU8(v.r)) ELSE v
Whole(end) == IF end.ok THEN Ok(end.value, end.r) ELSE Fail(end.r)
ReadVle(r) ==
    Whole(Loop(VleTurn, [r |-> r, i |-> 0, on |-> TRUE, ok |-> TRUE, value |-> 0], VleMax))

----------------------------------------------------------------------------
(* Headers *)

\* QoS is one byte: priority, then the droppable and the express flag.
QosByte(prio, cc, express) ==
    prio + (IF cc = "drop" THEN 4 ELSE 0) + (IF express THEN 8 ELSE 0)
QosOf(byte) ==
    [prio |-> byte % 4,
     cc |-> IF (byte \div 4) % 2 = 1 THEN "drop" ELSE "block",
     express |-> (byte \div 8) % 2 = 1]

\* The byte of the body holds the identifier in its low bits, the kind of a fragment
\* above it.
Frame_Id == 0
Fragment_Id == 1
KindCode == [first |-> 0, more |-> 1, last |-> 2]
BodyByte(body) == IF body = "frame" THEN Frame_Id ELSE Fragment_Id + 32 * KindCode[body]
BodyOf(byte) ==
    CASE byte % 32 = Frame_Id -> "frame"
      [] byte % 32 = Fragment_Id ->
            CHOOSE k \in DOMAIN KindCode : KindCode[k] = (byte \div 32) % 4
      [] OTHER -> "unknown"

\* A sequence number.
SnLen(sn) == VleLen(sn)
SnPieces(sn) == <<VleBytes(sn)>>
AsSn(v) == IF v.ok THEN Ok(NewSn(v.data), v.r) ELSE v
ReadSn(r) == AsSn(ReadVle(r))

\* The pieces of a Message: its header, then a frame or a fragment header.
FramePieces == <<<<BodyByte("frame")>>>>
FragmentPieces(kind, fid) == <<<<BodyByte(kind)>>>> \o SnPieces(fid)
BodyPieces(body, fid) == IF body = "frame" THEN FramePieces ELSE FragmentPieces(body, fid)
HeaderPieces(qos, sn, body, fid) == <<<<qos>>>> \o SnPieces(sn) \o BodyPieces(body, fid)

\* LCodec::w_len of a fragment header, and of a Message.
FragmentLen(fid) == 1 + SnLen(fid)
HeaderLen(sn, body, fid) == 1 + SnLen(sn) + (IF body = "frame" THEN 1 ELSE FragmentLen(fid))

\* Decoders of the headers return [ok, ..., r] with the fields they read.
Undecoded == [ok |-> FALSE]
ReadFragmentHeader(kind, r) ==
    LET fid == ReadSn(r) IN
    IF fid.ok THEN [ok |-> TRUE, body |-> kind, fid |-> fid.data, r |-> fid.r] ELSE Undecoded
ReadBody(r) ==
    LET byte == ReadU8(r)
        body == BodyOf(byte.data[1]) IN
    IF ~byte.ok \/ body = "unknown" THEN Undecoded
    ELSE IF body = "frame" THEN [ok |-> TRUE, body |-> "frame", fid |-> 0, r |-> byte.r]
    ELSE ReadFragmentHeader(body, byte.r)
Header(qos, sn, rest) ==
    IF ~qos.ok \/ ~sn.ok \/ ~rest.ok THEN Undecoded
    ELSE [ok |-> TRUE, qos |-> QosOf(qos.data[1]), sn |-> sn.data,
          body |-> rest.body, fid |-> rest.fid, r |-> rest.r]
ReadHeader(r) ==
    LET qos == ReadU8(r)
        sn == ReadSn(qos.r) IN
    Header(qos, sn, ReadBody(sn.r))

----------------------------------------------------------------------------
(* Payloads: a length, then the bytes *)

BytesPieces(b) == <<VleBytes(LenOf(b))>> \o b.items

\* Bytes: nothing, a view of one chunk, or the views of several.
ReadBytes(r) ==
    LET len == ReadVle(r)
        one == ReadContiguous(len.r, len.data) IN
    IF ~len.ok THEN [Fail(len.r) EXCEPT !.data = NoBytes]
    ELSE IF len.data = 0 THEN Ok(NoBytes, len.r)
    ELSE IF one.ok THEN Ok(Single(one.data), one.r)
    ELSE ReadChunks(one.r, len.data)

\* Chunk: one view, or a copy when the bytes are in several chunks.
ReadChunkField(r) ==
    LET len == ReadVle(r) IN IF len.ok THEN ReadChunk(len.r, len.data) ELSE Fail(len.r)

\* Vec<u8>: a copy.
ReadVec(r) ==
    LET len == ReadVle(r) IN
    IF ~len.ok THEN Fail(len.r)
    ELSE IF len.data = 0 THEN Ok(<<>>, len.r)
    ELSE ReadExact(len.r, len.data)
=============================================================================
