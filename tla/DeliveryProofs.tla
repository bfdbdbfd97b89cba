--------------------------- MODULE DeliveryProofs ---------------------------
(***************************************************************************)
(* Theorems about what arrives: the messages that were accepted, whole and *)
(* in the order in which they were sent, for any plans, batch sizes and    *)
(* scale of the integers.  Every batch that is under way is described by   *)
(* what it will bring to the receiver, its buffers and the messages that   *)
(* have come by then; each step of the sender adds to the end of this      *)
(* description and each step of the receiver takes from its beginning.     *)
(***************************************************************************)
EXTENDS WireProofs

----------------------------------------------------------------------------
(* A message as it is written *)

\* A message as it is in a frame or, cut, in fragments: its length, then its bytes.
Payload(c) == VleBytes(Len(c)) \o c

\* It is never empty.
LEMMA PayloadIs ==
    ASSUME NEW c \in Seq(Nat)
    PROVE  /\ Payload(c) \in Seq(Nat) /\ Len(Payload(c)) = VleLen(Len(c)) + Len(c)
           /\ VleLen(Len(c)) \in Nat /\ VleLen(Len(c)) > 0 /\ Len(c) \in Nat /\ Len(Payload(c)) > 0
           /\ VleBytes(Len(c)) \in Seq(Nat) /\ Len(VleBytes(Len(c))) = VleLen(Len(c))
           /\ Payload(c) # <<>>
<1> DEFINE n == Len(c)
           a == VleBytes(n)
<1>1. n \in Nat
  OBVIOUS
<1>2. a \in Seq(Nat) /\ Len(a) = VleLen(n) /\ VleLen(n) \in Nat /\ VleLen(n) > 0
  <2>1. VleLen(n) \in 1..VleMax /\ VleMax \in Nat
    BY <1>1, VleLenIs, CodecAssumption
  <2> QED
    BY <1>1, <2>1, VleBytesAre
<1> HIDE DEF a
<1>3. a \o c \in Seq(Nat) /\ Len(a \o c) = Len(a) + Len(c)
  BY <1>2
<1>4. Payload(c) = a \o c
  BY DEF Payload, a
<1> HIDE DEF n
<1> QED
  BY <1>1, <1>2, <1>3, <1>4 DEF n, a

\* A payload is read wherever its bytes lie, and the reader goes on behind it.
LEMMA PayloadReadsBack ==
    ASSUME NEW r \in Readers, Firm(r), NEW c \in Seq(Nat), Len(c) <= MaxVle,
           Shows(DataOf(r), Offset(r), Payload(c))
    PROVE  LET m == ReadBytes(r) IN
           /\ m.ok = TRUE /\ m.data \in Vecs /\ Content(m.data) = c
           /\ m.r \in Readers /\ m.r.chunks = r.chunks /\ Firm(m.r)
           /\ Offset(m.r) = Offset(r) + Len(Payload(c))
<1> DEFINE n == Len(c)
           l == VleLen(n)
           a == VleBytes(n)
           d == DataOf(r)
           o == Offset(r)
           len == ReadVle(r)
           q == len.r
           one == ReadContiguous(q, n)
           views == ReadChunks(one.r, n)
<1>1. /\ Payload(c) = a \o c /\ a \in Seq(Nat) /\ Len(a) = l /\ l \in Nat /\ n \in Nat
      /\ Len(Payload(c)) = l + n
  BY PayloadIs DEF Payload
<1>2. d \in Seq(Nat) /\ o \in Nat /\ Len(d) \in Nat
  BY OffsetIn
<1>3. Shows(d, o, a) /\ Shows(d, o + l, c)
  <2>1. o + (l + n) <= Len(d) /\ \A i \in 1..(l + n) : d[o + i] = (a \o c)[i]
    <3>1. o + Len(Payload(c)) <= Len(d) /\ \A i \in 1..Len(Payload(c)) : d[o + i] = Payload(c)[i]
      BY Zenon DEF Shows
    <3> QED
      BY <1>1, <3>1, Zenon
  <2> HIDE DEF a, d, o, l
  <2>2. \A i \in 1..l : i \in 1..(l + n) /\ (a \o c)[i] = a[i]
    BY <1>1
  <2>3. \A i \in 1..n : l + i \in 1..(l + n) /\ (a \o c)[l + i] = c[i]
    BY <1>1
  <2>4. \A i \in 1..n : d[(o + l) + i] = c[i]
    <3>1. TAKE i \in 1..n
    <3>2. (o + l) + i = o + (l + i)
      BY <1>1, <1>2
    <3> QED
      BY <2>1, <2>3, <3>2
  <2>5. o + l <= Len(d) /\ (o + l) + n <= Len(d)
    BY <1>1, <1>2, <2>1
  <2> QED
    BY <1>1, <2>1, <2>2, <2>4, <2>5 DEF Shows, n
<1>4. /\ len = Ok(n, q) /\ q \in Readers /\ q.chunks = r.chunks /\ Firm(q) /\ Offset(q) = o + l
  BY <1>1, <1>3, IntegersReadAcross
<1>5. len.ok = TRUE /\ len.data = n
  BY <1>4 DEF Ok
<1>6. ReadBytes(r) = IF n = 0 THEN Ok(NoBytes, q)
                     ELSE IF one.ok THEN Ok(Single(one.data), one.r)
                     ELSE views
  BY <1>5 DEF ReadBytes
<1>7. DataOf(q) = d /\ Part(d, o + l, n) = c /\ (o + l) + n = o + Len(Payload(c)) /\ n <= Remaining(q)
  <2>1. DataOf(q) = d
    BY <1>4 DEF DataOf
  <2>2. Remaining(q) = Len(d) - (o + l)
    BY <1>4, <2>1, OffsetIn
  <2>3. (o + l) + n <= Len(d)
    BY <1>3 DEF Shows
  <2>4. o + l \in Nat
    BY <1>1, <1>2
  <2>5. Part(d, o + l, n) = c
    BY <1>2, <1>3, <2>4, ShowsPart
  <2> HIDE DEF d, o, l, n, q
  <2> QED
    BY <1>1, <1>2, <2>1, <2>2, <2>3, <2>4, <2>5
<1> DEFINE m == ReadBytes(r)
           Good == /\ m.ok = TRUE /\ m.data \in Vecs /\ Content(m.data) = c
                   /\ m.r \in Readers /\ m.r.chunks = r.chunks /\ Firm(m.r)
                   /\ Offset(m.r) = o + Len(Payload(c))
<1>8. SUFFICES Good
  OBVIOUS
<1>9. Ahead(q, n) = c
  BY <1>4, <1>7 DEF Ahead
<1> HIDE DEF len, q, n, l, o, d, a
<1>10. CASE n = 0
  <2>1. m.ok = TRUE /\ m.data = NoBytes /\ m.r = q
    BY <1>6, <1>10 DEF Ok
  <2>2. c = <<>>
    BY <1>10 DEF n
  <2>3. o + l = o + Len(Payload(c))
    BY <1>1, <1>2, <1>10
  <2> QED
    BY <1>4, <2>1, <2>2, <2>3, NoBytesIs
<1>11. CASE n # 0
  <2>1. Gets(q, one, n) \/ Refuses(q, one)
    BY <1>1, <1>4, ReadContiguousIs
  <2> HIDE DEF one
  <2>2. CASE Gets(q, one, n)
    <3>1. one.ok = TRUE /\ one.data = c /\ one.r \in Readers /\ one.r.chunks = q.chunks /\ Firm(one.r)
          /\ Offset(one.r) = Offset(q) + n
      BY <1>9, <2>2 DEF Gets, Gives
    <3>2. m.ok = TRUE /\ m.data = Single(c) /\ m.r = one.r
      BY <1>6, <1>11, <3>1 DEF Ok
    <3>3. c \in Chunk
      BY <1>11 DEF n, Chunk
    <3> QED
      BY <1>4, <1>7, <3>1, <3>2, <3>3, SingleIs
  <2>3. CASE Refuses(q, one)
    <3>1. ~one.ok /\ one.r = q
      BY <2>3 DEF Refuses
    <3>2. m = ReadChunks(q, n)
      BY <1>6, <1>11, <3>1
    <3>3. /\ m.ok = TRUE /\ m.data \in Vecs /\ Gives(q, Ok(Content(m.data), m.r), n)
      BY <1>1, <1>4, <1>7, <3>2, ViewsAre
    <3> HIDE DEF m
    <3>4. /\ Content(m.data) = Ahead(q, n) /\ m.r \in Readers /\ m.r.chunks = q.chunks
          /\ Firm(m.r) /\ Offset(m.r) = Offset(q) + n
      BY <3>3 DEF Gives, Ok
    <3> QED
      BY <1>4, <1>7, <1>9, <3>3, <3>4
  <2> QED
    BY <2>1, <2>2, <2>3
<1> QED
  BY <1>10, <1>11

\* No pieces are no bytes.
LEMMA FlattenNone == FlattenSeq(<<>>) = <<>>
<1> DEFINE s == <<>>
<1>1. s \in Seq(Seq(Nat)) /\ Len(s) = 0
  OBVIOUS
<1> HIDE DEF s
<1>2. FlattenSeq(s) = Pre(s, Len(s)) /\ Pre(s, 0) = <<>>
  BY <1>1, PreSteps
<1> QED
  BY <1>1, <1>2 DEF s

\* Pieces joined, of which one is at the end or in front of the others.
LEMMA JoinedBehind ==
    ASSUME NEW s \in Seq(Seq(Nat)), NEW c \in Seq(Nat), NEW t \in Seq(Seq(Nat)),
           Len(t) = Len(s) + 1, t[Len(s) + 1] = c, \A i \in 1..Len(s) : t[i] = s[i]
    PROVE  FlattenSeq(t) = FlattenSeq(s) \o c
<1>1. Append(s, c) \in Seq(Seq(Nat)) /\ Len(Append(s, c)) = Len(s) + 1
      /\ \A i \in 1..Len(s) : Append(s, c)[i] = s[i]
      /\ Append(s, c)[Len(s) + 1] = c
  BY AppendProperties
<1>2. Len(s) \in Nat
  OBVIOUS
<1>3. ASSUME NEW i \in 1..(Len(s) + 1) PROVE t[i] = Append(s, c)[i]
  <2>1. CASE i = Len(s) + 1
    BY <1>1, <2>1
  <2>2. CASE i # Len(s) + 1
    <3>1. i \in 1..Len(s)
      BY <1>2, <2>2
    <3> QED
      BY <1>1, <3>1
  <2> QED
    BY <2>1, <2>2
<1>4. t = Append(s, c)
  BY <1>1, <1>3, SeqEqual
<1> QED
  BY ZenonT(60), <1>4, FlattenAppend

LEMMA JoinedInFront ==
    ASSUME NEW s \in Seq(Seq(Nat)), NEW c \in Seq(Nat), NEW t \in Seq(Seq(Nat)),
           Len(t) = Len(s) + 1, t[1] = c, \A i \in 1..Len(s) : t[i + 1] = s[i]
    PROVE  FlattenSeq(t) = c \o FlattenSeq(s)
<1> DEFINE u == <<c>>
<1>1. u \in Seq(Seq(Nat)) /\ Len(u) = 1 /\ u[1] = c /\ Len(s) \in Nat
  OBVIOUS
<1>2. FlattenSeq(u) = c
  <2>1. <<>> \in Seq(Seq(Nat))
    OBVIOUS
  <2> QED
    BY <2>1, FlattenAppend
<1> HIDE DEF u
<1>3. /\ u \o s \in Seq(Seq(Nat)) /\ Len(u \o s) = Len(u) + Len(s)
      /\ \A i \in 1..(Len(u) + Len(s)) : (u \o s)[i] = IF i <= Len(u) THEN u[i] ELSE s[i - Len(u)]
  BY <1>1, ConcatProperties
<1>4. Len(u \o s) = Len(s) + 1
  BY <1>1, <1>3
<1>5. ASSUME NEW i \in 1..(Len(s) + 1) PROVE t[i] = (u \o s)[i]
  <2>1. (u \o s)[i] = IF i <= 1 THEN u[i] ELSE s[i - 1]
    BY <1>1, <1>3
  <2>2. CASE i = 1
    BY <1>1, <2>1, <2>2
  <2>3. CASE i # 1
    <3>1. i - 1 \in 1..Len(s) /\ (i - 1) + 1 = i /\ ~(i <= 1)
      BY SMTT(60), <1>1, <2>3
    <3> QED
      BY <2>1, <3>1
  <2> QED
    BY <2>2, <2>3
<1>6. t = u \o s
  BY <1>3, <1>4, <1>5, SeqEqual
<1> QED
  BY <1>1, <1>2, <1>6, FlattenConcat

----------------------------------------------------------------------------
(* The messages that are to arrive, and where the bytes of each are *)

\* The messages: contents whose length has a representation.
Bodied == {c \in Seq(Nat) : Len(c) <= MaxVle}
Mails == [content : Bodied, cc : Ccs]

\* The payloads of n messages of m, after the first k.
Payloads(m, k, n) == [j \in 1..n |-> Payload(m[k + j].content)]

\* x holds the messages k + 1 to l of m, all with cc.
Tells(m, k, l, x, cc) ==
    /\ k \in Nat /\ l \in Nat /\ k <= l /\ l <= Len(m)
    /\ x = FlattenSeq(Payloads(m, k, l - k))
    /\ \A j \in (k + 1)..l : m[j].cc = cc

LEMMA PayloadsAre ==
    ASSUME NEW m \in Seq(Mails), NEW k \in Nat, NEW n \in Nat, k + n <= Len(m)
    PROVE  /\ Payloads(m, k, n) \in Seq(Seq(Nat)) /\ Len(Payloads(m, k, n)) = n
           /\ \A j \in 1..n : /\ Payloads(m, k, n)[j] = Payload(m[k + j].content)
                              /\ m[k + j] \in Mails /\ m[k + j].content \in Seq(Nat)
                              /\ Payload(m[k + j].content) \in Seq(Nat)
           /\ FlattenSeq(Payloads(m, k, n)) \in Seq(Nat)
<1>1. ASSUME NEW j \in 1..n
      PROVE  /\ m[k + j] \in Mails /\ m[k + j].content \in Seq(Nat)
             /\ Payload(m[k + j].content) \in Seq(Nat)
  <2>1. k + j \in 1..Len(m)
    OBVIOUS
  <2>2. m[k + j] \in Mails
    BY <2>1, ElementOfSeq
  <2>3. m[k + j].content \in Seq(Nat)
    BY <2>2 DEF Mails, Bodied
  <2> QED
    BY <2>2, <2>3, PayloadIs
<1> DEFINE s == Payloads(m, k, n)
<1>2. /\ s \in Seq(Seq(Nat)) /\ Len(s) = n
      /\ \A j \in 1..n : s[j] = Payload(m[k + j].content)
  <2> DEFINE P(j) == Payload(m[k + j].content)
  <2>1. \A j \in 1..n : P(j) \in Seq(Nat)
    BY <1>1
  <2>2. s = [j \in 1..n |-> P(j)]
    BY DEF Payloads
  <2> HIDE DEF P, s
  <2>3. s \in Seq(Seq(Nat)) /\ Len(s) = n /\ \A j \in 1..n : s[j] = P(j)
    BY <2>1, <2>2
  <2> QED
    BY <2>3 DEF P
<1> HIDE DEF s
<1>3. FlattenSeq(s) \in Seq(Nat)
  BY <1>2, PreSteps
<1> QED
  BY <1>1, <1>2, <1>3 DEF s

\* What Tells says of its arguments.
LEMMA TellsIs ==
    ASSUME NEW m \in Seq(Mails), NEW k, NEW l, NEW x, NEW cc, Tells(m, k, l, x, cc)
    PROVE  /\ x \in Seq(Nat) /\ k \in Nat /\ l \in Nat /\ k <= l /\ l <= Len(m)
           /\ k = l => x = <<>>
<1>1. /\ k \in Nat /\ l \in Nat /\ k <= l /\ l <= Len(m)
      /\ x = FlattenSeq(Payloads(m, k, l - k))
  BY DEF Tells
<1>2. l - k \in Nat /\ k + (l - k) <= Len(m)
  BY <1>1
<1>3. x \in Seq(Nat)
  BY <1>1, <1>2, PayloadsAre
<1>4. ASSUME k = l PROVE x = <<>>
  <2>1. l - k = 0 /\ k + 0 <= Len(m)
    BY <1>1, <1>4
  <2>2. Payloads(m, k, 0) \in Seq(Seq(Nat)) /\ Len(Payloads(m, k, 0)) = 0
    BY <1>1, <2>1, PayloadsAre
  <2>3. Payloads(m, k, 0) = <<>>
    BY <2>2, EmptySeq
  <2>4. FlattenSeq(<<>>) = <<>>
    BY FlattenNone
  <2> QED
    BY <1>1, <2>1, <2>3, <2>4
<1> QED
  BY <1>1, <1>3, <1>4

\* No bytes tell no messages.
LEMMA TellsNone ==
    ASSUME NEW m \in Seq(Mails), NEW k \in Nat, k <= Len(m), NEW cc
    PROVE  Tells(m, k, k, <<>>, cc)
<1>1. k - k = 0 /\ k + 0 <= Len(m)
  OBVIOUS
<1>2. Payloads(m, k, 0) \in Seq(Seq(Nat)) /\ Len(Payloads(m, k, 0)) = 0
  BY <1>1, PayloadsAre
<1>3. Payloads(m, k, 0) = <<>>
  BY <1>2, EmptySeq
<1>4. FlattenSeq(<<>>) = <<>>
  BY FlattenNone
<1>5. \A j \in (k + 1)..k : FALSE
  OBVIOUS
<1> QED
  BY <1>1, <1>3, <1>4, <1>5 DEF Tells

\* One more message changes nothing of what is told.
LEMMA TellsOn ==
    ASSUME NEW m \in Seq(Mails), NEW k, NEW l, NEW x, NEW cc, Tells(m, k, l, x, cc),
           NEW a \in Mails
    PROVE  Tells(Append(m, a), k, l, x, cc)
<1> DEFINE o == Append(m, a)
<1>1. o \in Seq(Mails) /\ Len(o) = Len(m) + 1 /\ \A j \in 1..Len(m) : o[j] = m[j]
  BY AppendProperties
<1>2. /\ k \in Nat /\ l \in Nat /\ k <= l /\ l <= Len(m) /\ Len(m) \in Nat
      /\ x = FlattenSeq(Payloads(m, k, l - k)) /\ \A j \in (k + 1)..l : m[j].cc = cc
  BY DEF Tells
<1> HIDE DEF o
<1>3. \A j \in (k + 1)..l : j \in 1..Len(m)
  BY <1>2
<1>4. \A j \in (k + 1)..l : o[j].cc = cc
  BY <1>1, <1>2, <1>3
<1>5. \A j \in 1..(l - k) : k + j \in 1..Len(m)
  BY <1>2
<1>6. Payloads(o, k, l - k) = Payloads(m, k, l - k)
  BY <1>1, <1>5 DEF Payloads
<1>7. l <= Len(o)
  BY <1>1, <1>2
<1>8. Tells(o, k, l, x, cc)
  BY <1>2, <1>4, <1>6, <1>7 DEF Tells
<1> QED
  BY <1>8 DEF o

\* Or it is told behind the others.
LEMMA TellsMore ==
    ASSUME NEW m \in Seq(Mails), NEW k, NEW x, NEW a \in Mails, Tells(m, k, Len(m), x, a.cc)
    PROVE  Tells(Append(m, a), k, Len(m) + 1, x \o Payload(a.content), a.cc)
<1> DEFINE o == Append(m, a)
           l == Len(m)
           n == l - k
<1>1. /\ o \in Seq(Mails) /\ Len(o) = l + 1 /\ o[l + 1] = a
      /\ \A j \in 1..l : o[j] = m[j]
  BY AppendProperties
<1>2. /\ k \in Nat /\ l \in Nat /\ k <= l
      /\ x = FlattenSeq(Payloads(m, k, n)) /\ \A j \in (k + 1)..l : m[j].cc = a.cc
  BY DEF Tells
<1> HIDE DEF o, l
<1>3. n \in Nat /\ k + n <= l /\ k + (n + 1) <= l + 1 /\ (l + 1) - k = n + 1 /\ k + (n + 1) = l + 1
  BY <1>2
<1>4. /\ Payloads(m, k, n) \in Seq(Seq(Nat)) /\ Len(Payloads(m, k, n)) = n
      /\ \A j \in 1..n : Payloads(m, k, n)[j] = Payload(m[k + j].content)
  BY <1>2, <1>3, PayloadsAre DEF l
<1>5. /\ Payloads(o, k, n + 1) \in Seq(Seq(Nat)) /\ Len(Payloads(o, k, n + 1)) = n + 1
      /\ \A j \in 1..(n + 1) : Payloads(o, k, n + 1)[j] = Payload(o[k + j].content)
  <2>1. n + 1 \in Nat /\ k + (n + 1) <= Len(o)
    BY <1>1, <1>3
  <2> HIDE DEF n
  <2> QED
    BY <1>1, <1>2, <2>1, PayloadsAre
<1>6. a.content \in Seq(Nat) /\ Payload(a.content) \in Seq(Nat)
  BY PayloadIs DEF Mails, Bodied
<1>7. \A j \in 1..n : k + j \in 1..l /\ j \in 1..(n + 1)
  BY <1>2, <1>3
<1>8. \A j \in 1..n : Payloads(o, k, n + 1)[j] = Payloads(m, k, n)[j]
  BY <1>1, <1>4, <1>5, <1>7
<1>9. n + 1 \in 1..(n + 1)
  BY <1>3
<1>10. Payloads(o, k, n + 1)[n + 1] = Payload(a.content)
  BY <1>1, <1>3, <1>5, <1>9
<1> HIDE DEF n
<1>11. FlattenSeq(Payloads(o, k, n + 1)) = x \o Payload(a.content)
  <2> DEFINE s == Payloads(m, k, n)
             t == Payloads(o, k, n + 1)
             c == Payload(a.content)
  <2>1. /\ s \in Seq(Seq(Nat)) /\ c \in Seq(Nat) /\ t \in Seq(Seq(Nat))
        /\ Len(t) = Len(s) + 1 /\ t[Len(s) + 1] = c
    BY <1>4, <1>5, <1>6, <1>10
  <2>2. \A i \in 1..Len(s) : t[i] = s[i]
    BY <1>4, <1>8
  <2>3. x = FlattenSeq(s)
    BY <1>2
  <2> HIDE DEF s, t, c
  <2>4. FlattenSeq(t) = FlattenSeq(s) \o c
    BY <2>1, <2>2, JoinedBehind
  <2> QED
    BY <2>3, <2>4 DEF t, c
<1>12. \A j \in (k + 1)..(l + 1) : j = l + 1 \/ (j \in 1..l /\ j \in (k + 1)..l)
  BY <1>2
<1>13. \A j \in (k + 1)..(l + 1) : o[j].cc = a.cc
  BY <1>1, <1>2, <1>12
<1>14. k <= l + 1 /\ l + 1 \in Nat /\ l + 1 <= Len(o)
  BY <1>1, <1>2
<1>15. Tells(o, k, l + 1, x \o Payload(a.content), a.cc)
  BY <1>2, <1>3, <1>11, <1>13, <1>14, Zenon DEF Tells
<1> QED
  BY <1>15 DEF o, l

\* The first message, and what is told behind it.
LEMMA TellsFirst ==
    ASSUME NEW m \in Seq(Mails), NEW k, NEW l, NEW x, NEW cc, Tells(m, k, l, x, cc), k # l
    PROVE  /\ k + 1 \in 1..Len(m) /\ m[k + 1].cc = cc /\ m[k + 1] \in Mails
           /\ \E y \in Seq(Nat) :
                  x = Payload(m[k + 1].content) \o y /\ Tells(m, k + 1, l, y, cc)
<1> DEFINE n == l - (k + 1)
           c == Payload(m[k + 1].content)
           s == Payloads(m, k, n + 1)
           t == Payloads(m, k + 1, n)
           y == FlattenSeq(t)
<1>1. /\ k \in Nat /\ l \in Nat /\ k <= l /\ l <= Len(m) /\ Len(m) \in Nat
      /\ x = FlattenSeq(Payloads(m, k, l - k)) /\ \A j \in (k + 1)..l : m[j].cc = cc
  BY DEF Tells
<1>2. /\ n \in Nat /\ (k + 1) + n <= Len(m) /\ k + (n + 1) <= Len(m) /\ l - k = n + 1
      /\ k + 1 \in 1..Len(m) /\ k + 1 \in (k + 1)..l /\ k + 1 \in Nat /\ k + 1 <= l /\ n + 1 \in Nat
  BY <1>1
<1>3. /\ s \in Seq(Seq(Nat)) /\ Len(s) = n + 1
      /\ \A j \in 1..(n + 1) : s[j] = Payload(m[k + j].content)
  <2> HIDE DEF n
  <2> QED
    BY <1>1, <1>2, PayloadsAre
<1>4. /\ t \in Seq(Seq(Nat)) /\ Len(t) = n /\ y \in Seq(Nat)
      /\ \A j \in 1..n : t[j] = Payload(m[(k + 1) + j].content)
  <2> HIDE DEF n
  <2> QED
    BY <1>1, <1>2, PayloadsAre
<1>5. m[k + 1] \in Mails /\ c \in Seq(Nat)
  <2>1. m[k + 1] \in Mails
    BY <1>2, ElementOfSeq
  <2>2. m[k + 1].content \in Seq(Nat)
    BY <2>1 DEF Mails, Bodied
  <2> QED
    BY <2>1, <2>2, PayloadIs
<1> HIDE DEF n
<1>6. s[1] = c
  <2>1. 1 \in 1..(n + 1)
    BY <1>2
  <2> QED
    BY <1>3, <2>1
<1>7. ASSUME NEW j \in 1..n PROVE s[j + 1] = t[j]
  <2>1. j + 1 \in 1..(n + 1) /\ (k + 1) + j = k + (j + 1)
    BY <1>1, <1>2
  <2> QED
    BY <1>3, <1>4, <2>1
<1>8. x = FlattenSeq(s)
  BY <1>1, <1>2
<1> HIDE DEF s, t, c
<1>9. FlattenSeq(s) = c \o FlattenSeq(t)
  BY <1>3, <1>4, <1>5, <1>6, <1>7, JoinedInFront
<1>10. \A j \in ((k + 1) + 1)..l : j \in (k + 1)..l
  BY <1>1
<1>11. Tells(m, k + 1, l, y, cc)
  <2>1. y = FlattenSeq(Payloads(m, k + 1, l - (k + 1)))
    BY DEF t, n
  <2>2. \A j \in ((k + 1) + 1)..l : m[j].cc = cc
    BY <1>1, <1>10
  <2> HIDE DEF y
  <2> QED
    BY <1>1, <1>2, <2>1, <2>2, Zenon DEF Tells
<1> QED
  BY <1>1, <1>2, <1>4, <1>5, <1>8, <1>9, <1>11 DEF c

\* The messages a push accepted.
Sents == [content : Bodied, cc : Ccs, fragmented : BOOLEAN]
Oversize(c) == VleLen(Len(c)) + Len(c) > FragMax

LEMMA ArrivingIs ==
    ASSUME NEW a \in Sents
    PROVE  /\ Arriving(a) \in Seq(Mails)
           /\ [content |-> a.content, cc |-> a.cc] \in Mails
           /\ Arriving(a) = IF a.fragmented /\ Oversize(a.content) THEN <<>>
                            ELSE <<[content |-> a.content, cc |-> a.cc]>>
<1> DEFINE b == [content |-> a.content, cc |-> a.cc]
<1>1. b \in Mails
  BY DEF Sents, Mails
<1> HIDE DEF b
<1>2. <<b>> \in Seq(Mails) /\ <<>> \in Seq(Mails)
  BY <1>1
<1>3. Arriving(a) = IF a.fragmented /\ Oversize(a.content) THEN <<>> ELSE <<b>>
  BY Zenon DEF Arriving, Oversize, b
<1> QED
  BY <1>1, <1>2, <1>3 DEF b

\* They are a sequence of messages.
LEMMA ArrivalsAre ==
    ASSUME NEW s \in Seq(Sents)
    PROVE  /\ [i \in DOMAIN s |-> Arriving(s[i])] \in Seq(Seq(Mails))
           /\ Len([i \in DOMAIN s |-> Arriving(s[i])]) = Len(s)
           /\ Arrivals(s) \in Seq(Mails)
<1> DEFINE A(i) == Arriving(s[i])
           t == [i \in DOMAIN s |-> A(i)]
<1>1. DOMAIN s = 1..Len(s) /\ Len(s) \in Nat
  OBVIOUS
<1>2. \A i \in 1..Len(s) : A(i) \in Seq(Mails)
  BY ElementOfSeq, ArrivingIs
<1> HIDE DEF A
<1>3. t \in Seq(Seq(Mails)) /\ Len(t) = Len(s)
  BY <1>1, <1>2
<1> HIDE DEF t
<1>4. FlattenSeq(t) \in Seq(Mails)
  BY <1>3, PreSteps
<1> QED
  BY <1>3, <1>4 DEF Arrivals, t, A

\* Nothing sent, nothing to arrive.
LEMMA ArrivesNone == Arrivals(<<>>) = <<>>
<1> DEFINE s == <<>>
           t == [i \in DOMAIN s |-> Arriving(s[i])]
<1>1. s \in Seq(Sents) /\ Len(s) = 0
  OBVIOUS
<1> HIDE DEF s
<1>2. t \in Seq(Seq(Mails)) /\ Len(t) = 0
  BY <1>1, ArrivalsAre
<1> HIDE DEF t
<1>3. t = <<>>
  BY <1>2, EmptySeq
<1> QED
  BY <1>3, FlattenNone DEF Arrivals, t, s

\* One more message was accepted: it is to arrive unless it is oversize and in fragments.
LEMMA ArrivesMore ==
    ASSUME NEW s \in Seq(Sents), NEW a \in Sents
    PROVE  /\ Append(s, a) \in Seq(Sents)
           /\ Arrivals(Append(s, a)) =
                IF a.fragmented /\ Oversize(a.content) THEN Arrivals(s)
                ELSE Append(Arrivals(s), [content |-> a.content, cc |-> a.cc])
<1> DEFINE n == Len(s)
           o == Append(s, a)
           t == [i \in DOMAIN s |-> Arriving(s[i])]
           u == [i \in DOMAIN o |-> Arriving(o[i])]
           c == Arriving(a)
           v == <<c>>
           b == [content |-> a.content, cc |-> a.cc]
<1>1. /\ o \in Seq(Sents) /\ Len(o) = n + 1 /\ o[n + 1] = a /\ n \in Nat
      /\ \A i \in 1..n : o[i] = s[i]
  BY AppendProperties
<1>2. t \in Seq(Seq(Mails)) /\ Len(t) = n /\ \A i \in 1..n : t[i] = Arriving(s[i])
  <2>1. DOMAIN s = 1..n
    OBVIOUS
  <2> QED
    BY <2>1, ArrivalsAre
<1> HIDE DEF o
<1>3. u \in Seq(Seq(Mails)) /\ Len(u) = n + 1 /\ \A i \in 1..(n + 1) : u[i] = Arriving(o[i])
  <2>1. DOMAIN o = 1..(n + 1)
    BY <1>1
  <2> QED
    BY <1>1, <2>1, ArrivalsAre
<1>4. c \in Seq(Mails)
  BY ArrivingIs
<1> HIDE DEF t, u, c, n
<1>5. v \in Seq(Seq(Mails)) /\ Len(v) = 1 /\ v[1] = c
  BY <1>4
<1> HIDE DEF v
<1>6. /\ t \o v \in Seq(Seq(Mails)) /\ Len(t \o v) = Len(t) + Len(v)
      /\ \A i \in 1..(Len(t) + Len(v)) : (t \o v)[i] = IF i <= Len(t) THEN t[i] ELSE v[i - Len(t)]
  BY <1>2, <1>5, ConcatProperties
<1>7. ASSUME NEW i \in 1..(n + 1) PROVE u[i] = (t \o v)[i]
  <2>1. (t \o v)[i] = IF i <= n THEN t[i] ELSE v[i - n]
    BY <1>2, <1>5, <1>6
  <2>2. CASE i = n + 1
    <3>1. ~(i <= n) /\ i - n = 1
      BY <1>1, <2>2
    <3> QED
      BY <1>1, <1>3, <1>5, <2>1, <2>2, <3>1 DEF c
  <2>3. CASE i # n + 1
    <3>1. i \in 1..n /\ i <= n
      BY <1>1, <2>3
    <3> QED
      BY <1>1, <1>2, <1>3, <2>1, <3>1
  <2> QED
    BY <2>2, <2>3
<1>8. u = t \o v
  <2>1. Len(t \o v) = n + 1
    BY <1>1, <1>2, <1>5, <1>6
  <2> QED
    BY <1>3, <1>6, <1>7, <2>1, SeqEqual
<1>9. FlattenSeq(u) = FlattenSeq(t) \o FlattenSeq(v)
  BY <1>2, <1>5, <1>8, FlattenConcat
<1>10. FlattenSeq(v) = c
  <2>1. 1 \in 1..Len(v) /\ 1 - 1 = 0
    BY <1>5
  <2>2. FlattenSeq(v) = Pre(v, 1) /\ Pre(v, 0) = <<>> /\ Pre(v, 1) = Pre(v, 1 - 1) \o v[1]
    BY <1>5, <2>1, PreSteps
  <2>3. Pre(v, 1) = <<>> \o c
    BY <1>5, <2>1, <2>2
  <2> QED
    BY <1>4, <2>2, <2>3, ConcatEmptySeq
<1>11. Arrivals(o) = Arrivals(s) \o c /\ Arrivals(s) \in Seq(Mails)
  BY <1>9, <1>10, ArrivalsAre DEF Arrivals, t, u
<1>12. CASE a.fragmented /\ Oversize(a.content)
  <2>1. c = <<>>
    BY <1>12, ArrivingIs DEF c
  <2>2. Arrivals(o) = Arrivals(s)
    BY <1>11, <2>1, ConcatEmptySeq
  <2> QED
    BY <1>1, <1>12, <2>2 DEF o
<1>13. CASE ~(a.fragmented /\ Oversize(a.content))
  <2>1. c = <<b>> /\ b \in Mails
    BY <1>13, ArrivingIs DEF c
  <2> HIDE DEF b
  <2>2. Arrivals(o) = Append(Arrivals(s), b)
    BY <1>11, <2>1, AppendIsConcat
  <2> QED
    BY <1>1, <1>13, <2>2 DEF o, b
<1> QED
  BY <1>12, <1>13

----------------------------------------------------------------------------
(* What the receiver will make of the batches on the wire *)

\* The state of the receiver after some batches: its buffers, and how many messages have
\* arrived.
Buffers == [sn : SeqNums, fragid : SeqNums, data : Seq(Nat)]
Marks == [defrag : [Ccs -> Buffers], k : Nat]

\* The buffer to which the fragment d is added, if it is the one that is awaited.
BufferFor(z, d) ==
    IF d.body # "first" THEN z.defrag[d.q.cc] ELSE [sn |-> d.sn, fragid |-> d.fid, data |-> <<>>]
Awaited(b, d) == b.sn = d.sn /\ b.fragid = d.fid /\ Len(b.data) + Len(d.tail) <= FragMax
BufferAfter(b, d) ==
    IF ~Awaited(b, d)
    THEN [sn |-> b.sn, fragid |-> b.fragid, data |-> IF d.body = "more" THEN <<>> ELSE b.data]
    ELSE [sn |-> Next_Sn(b.sn), fragid |-> b.fragid,
          data |-> IF d.body = "last" THEN <<>> ELSE b.data \o d.tail]

\* The batch d takes the receiver from z to y, the messages are those of m.
Brings(m, z, d, y) ==
    LET b == BufferFor(z, d) IN
    IF d.body = "frame"
    THEN y.defrag = z.defrag /\ Tells(m, z.k, y.k, d.tail, d.q.cc)
    ELSE /\ y.defrag = [z.defrag EXCEPT ![d.q.cc] = BufferAfter(b, d)]
         /\ IF d.body = "last" /\ Awaited(b, d)
            THEN Tells(m, z.k, y.k, b.data \o d.tail, d.q.cc)
            ELSE y.k = z.k

\* The wire w takes it from s to e.
Leads(m, n, w, s, e) ==
    \E ds \in Seq(Sendable(n)), h \in [Nat -> Marks] :
        /\ w = InFlight(ds) /\ h[0] = s /\ h[Len(ds)] = e
        /\ \A i \in 1..Len(ds) : Brings(m, h[i - 1], ds[i], h[i])

LEMMA InFlightNone == InFlight(<<>>) = <<>>
<1> DEFINE ds == <<>>
           t == [i \in 1..Len(ds) |-> Announced(ds[i])]
<1>1. t = <<>>
  OBVIOUS
<1> HIDE DEF t
<1>2. FlattenSeq(t) = <<>>
  BY <1>1, FlattenNone
<1> QED
  BY <1>2 DEF InFlight, t

\* An empty wire leads nowhere.
LEMMA LeadsNone ==
    ASSUME NEW m, NEW n, NEW s \in Marks
    PROVE  Leads(m, n, <<>>, s, s)
<1> DEFINE ds == <<>>
           g == [k \in Nat |-> s]
<1>1. ds \in Seq(Sendable(n)) /\ Len(ds) = 0 /\ InFlight(ds) = <<>>
  BY InFlightNone
<1>2. g \in [Nat -> Marks] /\ g[0] = s
  OBVIOUS
<1> HIDE DEF ds, g
<1>3. \A i \in 1..Len(ds) : Brings(m, g[i - 1], ds[i], g[i])
  BY <1>1
<1> QED
  BY <1>1, <1>2, <1>3 DEF Leads

\* One batch more.
LEMMA LeadsMore ==
    ASSUME NEW m, NEW n, NEW w, NEW s, NEW e, Leads(m, n, w, s, e),
           NEW d \in Sendable(n), NEW y \in Marks, Brings(m, e, d, y)
    PROVE  Leads(m, n, w \o Announced(d), s, y)
<1>1. PICK ds \in Seq(Sendable(n)), g \in [Nat -> Marks] :
        /\ w = InFlight(ds) /\ g[0] = s /\ g[Len(ds)] = e
        /\ \A i \in 1..Len(ds) : Brings(m, g[i - 1], ds[i], g[i])
  BY DEF Leads
<1> DEFINE k == Len(ds)
           es == Append(ds, d)
           h == [g EXCEPT ![k + 1] = y]
<1>2. k \in Nat /\ k + 1 \in Nat /\ k + 1 # 0 /\ k + 1 # k /\ \A i \in 0..k : i # k + 1 /\ i \in Nat
  OBVIOUS
<1>3. /\ es \in Seq(Sendable(n)) /\ Len(es) = k + 1 /\ \A i \in 1..k : es[i] = ds[i]
      /\ es[k + 1] = d
  BY AppendProperties
<1> HIDE DEF k, es
<1>4. /\ h \in [Nat -> Marks] /\ h[k + 1] = y /\ \A i \in 0..k : h[i] = g[i]
  BY <1>1, <1>2
<1> HIDE DEF h
<1>5. ASSUME NEW i \in 1..(k + 1) PROVE Brings(m, h[i - 1], es[i], h[i])
  <2>1. CASE i = k + 1
    <3>1. i - 1 = k /\ k \in 0..k
      BY <1>2, <2>1
    <3>2. h[i - 1] = e
      BY <1>1, <1>4, <3>1 DEF k
    <3> QED
      BY <1>3, <1>4, <2>1, <3>2
  <2>2. CASE i # k + 1
    <3>1. i \in 1..k /\ i - 1 \in 0..k /\ i \in 0..k
      BY <1>2, <2>2
    <3>2. Brings(m, g[i - 1], ds[i], g[i])
      BY <1>1, <3>1 DEF k
    <3> QED
      BY <1>3, <1>4, <3>1, <3>2
  <2> QED
    BY <2>1, <2>2
<1>6. InFlight(es) = w \o Announced(d)
  BY <1>1, InFlightAppend DEF es
<1>7. h[0] = s /\ h[Len(es)] = y
  <2>1. 0 \in 0..k
    BY <1>2
  <2> QED
    BY <1>1, <1>3, <1>4, <2>1
<1> QED
  BY <1>3, <1>4, <1>5, <1>6, <1>7 DEF Leads

\* The first batch.
Before(m, n, w, s, e, d, v, y) ==
    /\ d \in Sendable(n) /\ w = Announced(d) \o v /\ v \in Seq(Nat)
    /\ y \in Marks /\ s \in Marks /\ Brings(m, s, d, y) /\ Leads(m, n, v, y, e)

LEMMA LeadsFirst ==
    ASSUME NEW m, NEW n, NEW w, w # <<>>, NEW s, NEW e, Leads(m, n, w, s, e)
    PROVE  \E d, v, y : Before(m, n, w, s, e, d, v, y)
<1>1. PICK ds \in Seq(Sendable(n)), g \in [Nat -> Marks] :
        /\ w = InFlight(ds) /\ g[0] = s /\ g[Len(ds)] = e
        /\ \A i \in 1..Len(ds) : Brings(m, g[i - 1], ds[i], g[i])
  BY DEF Leads
<1>2. ds # <<>>
  BY <1>1, InFlightNone
<1> DEFINE k == Len(ds)
           d == ds[1]
           es == Tail(ds)
           h == [i \in Nat |-> g[i + 1]]
           v == InFlight(es)
<1>3. /\ InFlight(ds) = Announced(d) \o v
      /\ d \in Sendable(n) /\ es \in Seq(Sendable(n)) /\ Len(es) = k - 1
      /\ k \in Nat /\ k # 0
      /\ \A i \in 1..(k - 1) : es[i] = ds[i + 1]
  BY <1>2, InFlightHead
<1>4. v \in Seq(Nat)
  BY <1>3, InFlightIs
<1>5. Brings(m, s, d, g[1]) /\ g[1] \in Marks /\ s \in Marks
  <2>1. 1 \in 1..Len(ds) /\ 1 - 1 = 0 /\ 0 \in Nat /\ 1 \in Nat
    BY <1>3
  <2>2. Brings(m, g[1 - 1], ds[1], g[1])
    BY <1>1, <2>1
  <2> QED
    BY <1>1, <2>1, <2>2
<1> HIDE DEF d, es, v
<1>6. /\ h \in [Nat -> Marks] /\ \A i \in Nat : h[i] = g[i + 1]
  BY <1>1
<1> HIDE DEF h
<1>7. ASSUME NEW i \in 1..(k - 1) PROVE Brings(m, h[i - 1], es[i], h[i])
  <2>1. i + 1 \in 1..Len(ds) /\ (i + 1) - 1 = (i - 1) + 1 /\ i - 1 \in Nat /\ i \in Nat
    BY <1>3
  <2>2. Brings(m, g[(i + 1) - 1], ds[i + 1], g[i + 1])
    BY <1>1, <2>1
  <2>3. h[i - 1] = g[(i + 1) - 1] /\ h[i] = g[i + 1]
    BY <1>6, <2>1
  <2>4. es[i] = ds[i + 1]
    BY <1>3
  <2> QED
    BY <2>2, <2>3, <2>4
<1>8. h[0] = g[1] /\ h[Len(es)] = e
  <2>1. 0 \in Nat /\ 0 + 1 = 1 /\ Len(es) \in Nat /\ Len(es) + 1 = Len(ds)
    BY <1>3
  <2>2. h[0] = g[0 + 1] /\ h[Len(es)] = g[Len(es) + 1]
    BY <1>6, <2>1
  <2> QED
    BY <1>1, <2>1, <2>2
<1>9. Leads(m, n, v, g[1], e)
  <2>1. \A i \in 1..Len(es) : Brings(m, h[i - 1], es[i], h[i])
    BY <1>3, <1>7
  <2> QED
    BY <1>3, <1>6, <1>8, <2>1 DEF Leads, v
<1>10. Before(m, n, w, s, e, d, v, g[1])
  BY <1>1, <1>3, <1>4, <1>5, <1>9 DEF Before
<1> QED
  BY <1>10

\* Nothing is on the wire.
LEMMA LeadsEnd ==
    ASSUME NEW m, NEW n, NEW s, NEW e, Leads(m, n, <<>>, s, e)
    PROVE  s = e
<1>1. PICK ds \in Seq(Sendable(n)), g \in [Nat -> Marks] :
        /\ <<>> = InFlight(ds) /\ g[0] = s /\ g[Len(ds)] = e
        /\ \A i \in 1..Len(ds) : Brings(m, g[i - 1], ds[i], g[i])
  BY DEF Leads
<1>2. ds = <<>>
  <2> SUFFICES ASSUME ds # <<>> PROVE FALSE
    OBVIOUS
  <2>1. InFlight(ds) = Announced(ds[1]) \o InFlight(Tail(ds)) /\ ds[1] \in Sendable(n)
        /\ Tail(ds) \in Seq(Sendable(n))
    BY InFlightHead
  <2> DEFINE a == Announced(ds[1])
             t == InFlight(Tail(ds))
  <2>2. a \in Seq(Nat) /\ Len(a) > 0 /\ t \in Seq(Nat)
    <3>1. a \in Seq(Nat) /\ Len(a) = 1 + Len(BytesOf(ds[1])) /\ Len(BytesOf(ds[1])) \in Nat
      BY <2>1, BytesOfIs
    <3>2. t \in Seq(Nat)
      BY <2>1, InFlightIs
    <3> HIDE DEF a, t
    <3> QED
      BY <3>1, <3>2
  <2>3. a \o t = <<>>
    BY <1>1, <2>1
  <2> HIDE DEF a, t
  <2> QED
    BY <2>2, <2>3
<1>3. Len(ds) = 0
  BY <1>2
<1> QED
  BY <1>1, <1>3

LEMMA LeadsMarks ==
    ASSUME NEW m, NEW n, NEW w, NEW s, NEW e, Leads(m, n, w, s, e)
    PROVE  s \in Marks /\ e \in Marks
<1>1. PICK ds \in Seq(Sendable(n)), g \in [Nat -> Marks] : g[0] = s /\ g[Len(ds)] = e
  BY DEF Leads
<1>2. 0 \in Nat /\ Len(ds) \in Nat
  OBVIOUS
<1> QED
  BY <1>1, <1>2

\* One more message that is to arrive later.
LEMMA BringsOn ==
    ASSUME NEW m \in Seq(Mails), NEW z, NEW d, NEW y, Brings(m, z, d, y), NEW a \in Mails
    PROVE  Brings(Append(m, a), z, d, y)
<1> DEFINE b == BufferFor(z, d)
           o == Append(m, a)
<1>1. \A x, cc : Tells(m, z.k, y.k, x, cc) => Tells(o, z.k, y.k, x, cc)
  BY TellsOn
<1> HIDE DEF o
<1>2. CASE d.body = "frame"
  <2>1. y.defrag = z.defrag /\ Tells(m, z.k, y.k, d.tail, d.q.cc)
    BY <1>2, Zenon DEF Brings
  <2>2. Tells(o, z.k, y.k, d.tail, d.q.cc)
    BY <1>1, <2>1
  <2> QED
    BY <1>2, <2>1, <2>2, Zenon DEF Brings, o
<1>3. CASE d.body # "frame"
  <2>1. /\ y.defrag = [z.defrag EXCEPT ![d.q.cc] = BufferAfter(b, d)]
        /\ IF d.body = "last" /\ Awaited(b, d)
           THEN Tells(m, z.k, y.k, b.data \o d.tail, d.q.cc)
           ELSE y.k = z.k
    BY <1>3, Zenon DEF Brings
  <2> HIDE DEF b
  <2>2. IF d.body = "last" /\ Awaited(b, d)
        THEN Tells(o, z.k, y.k, b.data \o d.tail, d.q.cc)
        ELSE y.k = z.k
    BY <1>1, <2>1
  <2> QED
    BY <1>3, <2>1, <2>2, Zenon DEF Brings, b, o
<1> QED
  BY <1>2, <1>3 DEF o

\* The same of all the batches on the wire.
LEMMA LeadsOn ==
    ASSUME NEW m \in Seq(Mails), NEW n, NEW w, NEW s, NEW e, Leads(m, n, w, s, e), NEW a \in Mails
    PROVE  Leads(Append(m, a), n, w, s, e)
<1>1. PICK ds \in Seq(Sendable(n)), g \in [Nat -> Marks] :
        /\ w = InFlight(ds) /\ g[0] = s /\ g[Len(ds)] = e
        /\ \A i \in 1..Len(ds) : Brings(m, g[i - 1], ds[i], g[i])
  BY DEF Leads
<1>2. \A i \in 1..Len(ds) : Brings(Append(m, a), g[i - 1], ds[i], g[i])
  BY <1>1, BringsOn
<1> QED
  BY <1>1, <1>2 DEF Leads

----------------------------------------------------------------------------
(* What waits in the ring *)

\* The bytes of a batch that recv has not come to.
LeftIn(b) == Suffix(DataOf(CursorOf(b)), Offset(CursorOf(b)))

\* The batches bs hold the messages k + 1 to l of m.
Waits(m, bs, k, l) ==
    \E a \in [Nat -> Nat] :
        /\ a[0] = k /\ a[Len(bs)] = l
        /\ \A i \in 1..Len(bs) : Tells(m, a[i - 1], a[i], LeftIn(bs[i]), bs[i].cc)

LEMMA WaitsNone ==
    ASSUME NEW m, NEW k \in Nat
    PROVE  Waits(m, <<>>, k, k)
<1> DEFINE bs == <<>>
           a == [i \in Nat |-> k]
<1>1. Len(bs) = 0
  OBVIOUS
<1>2. a \in [Nat -> Nat] /\ a[0] = k
  OBVIOUS
<1> HIDE DEF bs, a
<1>3. \A i \in 1..Len(bs) : Tells(m, a[i - 1], a[i], LeftIn(bs[i]), bs[i].cc)
  BY <1>1
<1>4. Waits(m, bs, k, k)
  BY <1>1, <1>2, <1>3 DEF Waits
<1> QED
  BY <1>4 DEF bs

LEMMA WaitsEnd ==
    ASSUME NEW m, NEW k, NEW l, Waits(m, <<>>, k, l)
    PROVE  k = l
<1> DEFINE bs == <<>>
<1>1. Len(bs) = 0
  OBVIOUS
<1> HIDE DEF bs
<1>2. Waits(m, bs, k, l)
  BY DEF bs
<1> QED
  BY <1>1, <1>2 DEF Waits

LEMMA WaitsIs ==
    ASSUME NEW m, NEW bs \in Seq(Boxes), NEW k, NEW l, Waits(m, bs, k, l)
    PROVE  k \in Nat /\ l \in Nat
<1>1. Len(bs) \in Nat /\ 0 \in Nat
  OBVIOUS
<1>2. PICK a \in [Nat -> Nat] : a[0] = k /\ a[Len(bs)] = l
  BY DEF Waits
<1> QED
  BY <1>1, <1>2

\* One batch more.
LEMMA WaitsMore ==
    ASSUME NEW m, NEW bs \in Seq(Boxes), NEW k, NEW l, Waits(m, bs, k, l),
           NEW b \in Boxes, NEW j \in Nat, Tells(m, l, j, LeftIn(b), b.cc)
    PROVE  Waits(m, Append(bs, b), k, j)
<1>1. PICK a \in [Nat -> Nat] :
        /\ a[0] = k /\ a[Len(bs)] = l
        /\ \A i \in 1..Len(bs) : Tells(m, a[i - 1], a[i], LeftIn(bs[i]), bs[i].cc)
  BY DEF Waits
<1> DEFINE n == Len(bs)
           es == Append(bs, b)
           h == [a EXCEPT ![n + 1] = j]
<1>a. n \in Nat
  BY LenProperties
<1> HIDE DEF n
<1>2. n \in Nat /\ n + 1 \in Nat /\ n + 1 # 0 /\ n + 1 # n /\ \A i \in 0..n : i # n + 1 /\ i \in Nat
  BY <1>a
<1>3. es \in Seq(Boxes) /\ Len(es) = n + 1 /\ (\A i \in 1..n : es[i] = bs[i]) /\ es[n + 1] = b
  BY AppendProperties DEF n
<1> HIDE DEF es
<1>4. h \in [Nat -> Nat] /\ h[n + 1] = j /\ \A i \in 0..n : h[i] = a[i]
  BY <1>1, <1>2
<1> HIDE DEF h
<1>5. ASSUME NEW i \in 1..(n + 1) PROVE Tells(m, h[i - 1], h[i], LeftIn(es[i]), es[i].cc)
  <2>1. CASE i = n + 1
    <3>1. i - 1 = n /\ n \in 0..n
      BY <1>2, <2>1
    <3>2. h[i - 1] = l /\ h[i] = j /\ es[i] = b
      BY <1>1, <1>3, <1>4, <2>1, <3>1 DEF n
    <3> QED
      BY <3>2
  <2>2. CASE i # n + 1
    <3>1. i \in 1..n /\ i - 1 \in 0..n /\ i \in 0..n
      BY <1>2, <2>2
    <3>2. Tells(m, a[i - 1], a[i], LeftIn(bs[i]), bs[i].cc)
      BY <1>1, <3>1 DEF n
    <3>3. h[i - 1] = a[i - 1] /\ h[i] = a[i] /\ es[i] = bs[i]
      BY <1>3, <1>4, <3>1
    <3> QED
      BY <3>2, <3>3
  <2> QED
    BY <2>1, <2>2
<1>6. h[0] = k /\ h[Len(es)] = j
  <2>1. 0 \in 0..n
    BY <1>2
  <2> QED
    BY <1>1, <1>3, <1>4, <2>1
<1>7. Waits(m, es, k, j)
  BY <1>3, <1>4, <1>5, <1>6 DEF Waits
<1> QED
  BY <1>7 DEF es

\* One more message that is to arrive later.
LEMMA WaitsOn ==
    ASSUME NEW m \in Seq(Mails), NEW bs \in Seq(Boxes), NEW k, NEW l, Waits(m, bs, k, l), NEW a \in Mails
    PROVE  Waits(Append(m, a), bs, k, l)
<1>1. PICK h \in [Nat -> Nat] :
        /\ h[0] = k /\ h[Len(bs)] = l
        /\ \A i \in 1..Len(bs) : Tells(m, h[i - 1], h[i], LeftIn(bs[i]), bs[i].cc)
  BY DEF Waits
<1>2. \A i \in 1..Len(bs) : Tells(Append(m, a), h[i - 1], h[i], LeftIn(bs[i]), bs[i].cc)
  BY <1>1, TellsOn
<1> QED
  BY <1>1, <1>2 DEF Waits

\* What the first batch holds, and what the others do.
LEMMA WaitsFirst ==
    ASSUME NEW m, NEW bs \in Seq(Boxes), bs # <<>>, NEW k, NEW l, Waits(m, bs, k, l)
    PROVE  \E j \in Nat : Tells(m, k, j, LeftIn(bs[1]), bs[1].cc) /\ Waits(m, Tail(bs), j, l)
<1>1. PICK a \in [Nat -> Nat] :
        /\ a[0] = k /\ a[Len(bs)] = l
        /\ \A i \in 1..Len(bs) : Tells(m, a[i - 1], a[i], LeftIn(bs[i]), bs[i].cc)
  BY DEF Waits
<1> DEFINE n == Len(bs)
           es == Tail(bs)
           h == [i \in Nat |-> a[i + 1]]
<1>2. n \in Nat /\ n # 0
  BY LenProperties, EmptySeq
<1>3. es \in Seq(Boxes) /\ Len(es) = n - 1 /\ \A i \in 1..(n - 1) : es[i] = bs[i + 1]
  BY <1>2, HeadTailProperties
<1>4. Tells(m, k, a[1], LeftIn(bs[1]), bs[1].cc)
  <2>1. 1 \in 1..Len(bs) /\ 1 - 1 = 0
    BY <1>2
  <2>2. Tells(m, a[1 - 1], a[1], LeftIn(bs[1]), bs[1].cc)
    BY <1>1, <2>1
  <2> QED
    BY <1>1, <2>1, <2>2
<1> HIDE DEF n, es
<1>5. h \in [Nat -> Nat] /\ \A i \in Nat : h[i] = a[i + 1]
  OBVIOUS
<1> HIDE DEF h
<1>6. ASSUME NEW i \in 1..Len(es) PROVE Tells(m, h[i - 1], h[i], LeftIn(es[i]), es[i].cc)
  <2>1. i \in 1..(n - 1) /\ i + 1 \in 1..n /\ (i + 1) - 1 = (i - 1) + 1 /\ i - 1 \in Nat /\ i \in Nat
    BY <1>2, <1>3
  <2>2. Tells(m, a[(i + 1) - 1], a[i + 1], LeftIn(bs[i + 1]), bs[i + 1].cc)
    BY <1>1, <2>1 DEF n
  <2>3. h[i - 1] = a[(i + 1) - 1] /\ h[i] = a[i + 1] /\ es[i] = bs[i + 1]
    BY <1>3, <1>5, <2>1
  <2> QED
    BY <2>2, <2>3
<1>7. h[0] = a[1] /\ h[Len(es)] = l
  <2>1. 0 \in Nat /\ 0 + 1 = 1 /\ Len(es) \in Nat /\ Len(es) + 1 = n
    BY <1>2, <1>3
  <2>2. h[0] = a[0 + 1] /\ h[Len(es)] = a[Len(es) + 1]
    BY <1>5, <2>1
  <2> QED
    BY <1>1, <2>1, <2>2 DEF n
<1>8. Waits(m, es, a[1], l)
  BY <1>5, <1>6, <1>7 DEF Waits
<1>9. a[1] \in Nat
  BY <1>1
<1> QED
  BY <1>4, <1>8, <1>9 DEF es

\* The first batch is another one.
LEMMA WaitsInFront ==
    ASSUME NEW m, NEW bs \in Seq(Boxes), bs # <<>>, NEW k \in Nat, NEW l, NEW j,
           Waits(m, Tail(bs), j, l), NEW b \in Boxes, Tells(m, k, j, LeftIn(b), b.cc)
    PROVE  Waits(m, [bs EXCEPT ![1] = b], k, l)
<1> DEFINE n == Len(bs)
           es == Tail(bs)
           fs == [bs EXCEPT ![1] = b]
<1>2. n \in Nat /\ n # 0
  BY LenProperties, EmptySeq
<1>3. es \in Seq(Boxes) /\ Len(es) = n - 1 /\ \A i \in 1..(n - 1) : es[i] = bs[i + 1]
  BY <1>2, HeadTailProperties
<1>4. /\ fs \in Seq(Boxes) /\ Len(fs) = n /\ fs[1] = b
      /\ \A i \in 1..(n - 1) : fs[i + 1] = bs[i + 1]
  <2>1. 1 \in 1..Len(bs)
    BY <1>2
  <2>2. fs \in Seq(Boxes) /\ Len(fs) = n /\ \A i \in 1..n : fs[i] = IF i = 1 THEN b ELSE bs[i]
    BY <2>1, ExceptSeq
  <2>3. \A i \in 1..(n - 1) : i + 1 \in 1..n /\ i + 1 # 1
    BY <1>2
  <2> HIDE DEF fs
  <2> QED
    BY <2>1, <2>2, <2>3
<1>1. PICK a \in [Nat -> Nat] :
        /\ a[0] = j /\ a[Len(es)] = l
        /\ \A i \in 1..Len(es) : Tells(m, a[i - 1], a[i], LeftIn(es[i]), es[i].cc)
  BY DEF Waits
<1> DEFINE h == [i \in Nat |-> IF i = 0 THEN k ELSE a[i - 1]]
<1> HIDE DEF n, es, fs
<1>5. h \in [Nat -> Nat] /\ h[0] = k /\ \A i \in Nat : i # 0 => h[i] = a[i - 1]
  BY SMTT(30)
<1> HIDE DEF h
<1>6. ASSUME NEW i \in 1..Len(fs) PROVE Tells(m, h[i - 1], h[i], LeftIn(fs[i]), fs[i].cc)
  <2>1. CASE i = 1
    <3>1. 1 - 1 = 0 /\ 1 \in Nat /\ 1 # 0
      OBVIOUS
    <3>2. h[1] = a[1 - 1]
      BY <1>5, <3>1
    <3>3. h[i - 1] = k /\ h[i] = j /\ fs[i] = b
      BY <1>1, <1>4, <1>5, <2>1, <3>1, <3>2
    <3> QED
      BY <3>3
  <2>2. CASE i # 1
    <3> DEFINE q == i - 1
    <3>1. q \in 1..(n - 1) /\ i = q + 1 /\ q \in Nat /\ q # 0 /\ i \in Nat /\ i # 0
      BY <1>2, <1>4, <2>2
    <3> HIDE DEF q
    <3>2. Tells(m, a[q - 1], a[q], LeftIn(es[q]), es[q].cc)
      BY <1>1, <1>3, <3>1
    <3>3. h[q] = a[q - 1] /\ h[i] = a[i - 1]
      BY <1>5, <3>1
    <3>4. es[q] = fs[i]
      BY <1>3, <1>4, <3>1
    <3> QED
      BY <3>2, <3>3, <3>4 DEF q
  <2> QED
    BY <2>1, <2>2
<1>7. h[Len(fs)] = l
  <2>1. n - 1 = Len(es) /\ h[n] = a[n - 1]
    BY <1>2, <1>3, <1>5
  <2> QED
    BY <1>1, <1>4, <2>1
<1>8. Waits(m, fs, k, l)
  BY <1>5, <1>6, <1>7 DEF Waits
<1> QED
  BY <1>8 DEF fs

----------------------------------------------------------------------------
(* The receiver, and what it makes of the first batch on the wire *)

\* The contents of its buffers.
HeldIn(f) == [cc \in Ccs |-> [sn |-> f[cc].sn, fragid |-> f[cc].fragid,
                              data |-> Content(f[cc].buffer)]]

\* What recv returned are the first messages of m.
Returned(m, g) ==
    \A i \in 1..Len(g) :
        i \in 1..Len(m) /\ m[i].content = Content(g[i].bytes) /\ m[i].cc = g[i].cc

\* The receiver with the buffers f, the ring bs and what it returned, g, is at z.
Behind(m, z, f, bs, g) ==
    /\ z \in Marks /\ z.defrag = HeldIn(f)
    /\ Waits(m, bs, Len(g), z.k) /\ Returned(m, g)

LEMMA HeldIs ==
    ASSUME NEW f \in [Ccs -> Defrags]
    PROVE  /\ HeldIn(f) \in [Ccs -> Buffers]
           /\ \A cc \in Ccs : /\ HeldIn(f)[cc].sn = f[cc].sn /\ HeldIn(f)[cc].fragid = f[cc].fragid
                              /\ HeldIn(f)[cc].data = Content(f[cc].buffer)
<1>1. ASSUME NEW cc \in Ccs
      PROVE  [sn |-> f[cc].sn, fragid |-> f[cc].fragid, data |-> Content(f[cc].buffer)] \in Buffers
  <2>1. f[cc] \in Defrags
    OBVIOUS
  <2>2. f[cc].sn \in SeqNums /\ f[cc].fragid \in SeqNums /\ f[cc].buffer \in Vecs
    BY <2>1 DEF Defrags
  <2>3. Content(f[cc].buffer) \in Seq(Nat)
    BY <2>2, ReaderIs
  <2> QED
    BY <2>2, <2>3 DEF Buffers
<1> QED
  BY <1>1 DEF HeldIn

\* One buffer is another one.
LEMMA HeldExcept ==
    ASSUME NEW f \in [Ccs -> Defrags], NEW cc \in Ccs, NEW e \in Defrags
    PROVE  HeldIn([f EXCEPT ![cc] = e]) =
             [HeldIn(f) EXCEPT ![cc] = [sn |-> e.sn, fragid |-> e.fragid, data |-> Content(e.buffer)]]
<1> DEFINE g == [f EXCEPT ![cc] = e]
           x == [sn |-> e.sn, fragid |-> e.fragid, data |-> Content(e.buffer)]
<1>1. \A c \in Ccs : g[c] = IF c = cc THEN e ELSE f[c]
  OBVIOUS
<1> HIDE DEF g
<1>2. \A c \in Ccs : HeldIn(g)[c] = IF c = cc THEN x ELSE HeldIn(f)[c]
  BY <1>1 DEF HeldIn
<1> HIDE DEF x
<1>3. HeldIn(g) = [c \in Ccs |-> HeldIn(g)[c]] /\ HeldIn(f) = [c \in Ccs |-> HeldIn(f)[c]]
  BY DEF HeldIn
<1>4. HeldIn(g) = [HeldIn(f) EXCEPT ![cc] = x]
  BY <1>2, <1>3
<1> QED
  BY <1>4 DEF g, x

\* What follows the first part of a sequence.
LEMMA SuffixJoined ==
    ASSUME NEW a \in Seq(Nat), NEW b \in Seq(Nat)
    PROVE  Suffix(a \o b, Len(a)) = b /\ Len(a) <= Len(a \o b) /\ Len(a \o b) = Len(a) + Len(b)
<1> DEFINE c == a \o b
           k == Len(a)
           l == Len(b)
           u == Suffix(c, k)
<1>1. c \in Seq(Nat) /\ Len(c) = k + l /\ \A i \in 1..(k + l) : c[i] = IF i <= k THEN a[i] ELSE b[i - k]
  BY ConcatProperties
<1>2. k \in Nat /\ l \in Nat
  BY LenProperties
<1> HIDE DEF c, k, l
<1>3. k <= Len(c) /\ Len(c) - k = l
  BY <1>1, <1>2
<1>4. u \in Seq(Nat) /\ Len(u) = l /\ Shows(c, k, u)
  BY <1>1, <1>2, <1>3, SuffixIs
<1> HIDE DEF u
<1>5. ASSUME NEW i \in 1..l PROVE u[i] = b[i]
  <2>1. c[k + i] = u[i]
    BY <1>4 DEF Shows
  <2>2. k + i \in 1..(k + l) /\ ~(k + i <= k) /\ (k + i) - k = i
    BY <1>2
  <2>3. c[k + i] = b[(k + i) - k]
    BY <1>1, <2>2
  <2> QED
    BY <2>1, <2>2, <2>3
<1>6. u = b
  BY <1>4, <1>5, SeqEqual DEF l
<1> QED
  BY <1>1, <1>3, <1>6 DEF c, k, l, u

\* Behind its header the reader of a batch has the rest of it.
RestOfBatch(d, h) ==
    LET bytes == Single(BytesOf(d)) IN
    /\ bytes \in Vecs /\ h.r \in Readers /\ Firm(h.r) /\ h.r.chunks = bytes.items
    /\ Follows(Reader(bytes), h.r)
    /\ LenOf(bytes) - Remaining(h.r) \in Nat /\ LenOf(bytes) - Remaining(h.r) <= LenOf(bytes)
    /\ From(bytes, LenOf(bytes) - Remaining(h.r)) = d.tail
    /\ Suffix(DataOf(h.r), Offset(h.r)) = d.tail

\* So it has it after ReadHeader.
LEMMA BatchRead ==
    ASSUME SnsFit, NEW n, NEW d \in Sendable(n)
    PROVE  RestOfBatch(d, ReadHeader(Reader(Single(BytesOf(d)))))
<1> DEFINE b == BytesOf(d)
           v == Single(b)
           h == ReadHeader(Reader(v))
           a == HeadOf(d)
<1>1. /\ a \in Seq(Nat) /\ d.tail \in Seq(Nat) /\ b \in Chunk /\ b \in Seq(Nat)
  BY BytesOfIs
<1>2. b = a \o d.tail
  BY DEF BytesOf
<1>3. ReadsHead(d)
  BY HeadReads
<1>4. h.ok = TRUE /\ Remaining(h.r) = Len(d.tail)
  BY <1>3 DEF ReadsHead
<1> HIDE DEF b
<1>5. v \in Vecs /\ Content(v) = b /\ v.items = <<b>>
  BY <1>1, SingleIs
<1> HIDE DEF v
<1>6. Reader(v) \in Readers /\ Firm(Reader(v)) /\ Reader(v).chunks = v.items /\ LenOf(v) = Len(b)
  BY <1>5, ReaderIs DEF LenOf
<1>7. Follows(Reader(v), h.r)
  BY <1>4, <1>6, ReadHeaderIs
<1> HIDE DEF h, a
<1>8. h.r \in Readers /\ Firm(h.r) /\ h.r.chunks = v.items
  BY <1>6, <1>7 DEF Follows
<1>9. /\ LenOf(v) - Remaining(h.r) \in Nat /\ LenOf(v) - Remaining(h.r) <= LenOf(v)
      /\ LenOf(v) - Remaining(h.r) = Offset(h.r)
  BY <1>5, <1>7, RestIs
<1>10. Suffix(b, Len(a)) = d.tail /\ Len(b) = Len(a) + Len(d.tail) /\ Len(a) \in Nat /\ Len(d.tail) \in Nat
  BY <1>1, <1>2, SuffixJoined, LenProperties
<1>11. LenOf(v) - Remaining(h.r) = Len(a)
  BY <1>4, <1>6, <1>10
<1>12. DataOf(h.r) = b
  BY <1>5, <1>8 DEF DataOf, Content
<1>13. From(v, Len(a)) = d.tail
  BY <1>5, <1>6, <1>10 DEF From, Suffix
<1>14. Suffix(DataOf(h.r), Offset(h.r)) = d.tail
  BY <1>9, <1>10, <1>11, <1>12
<1>15. From(v, LenOf(v) - Remaining(h.r)) = d.tail
  BY <1>11, <1>13
<1> QED
  BY <1>5, <1>7, <1>8, <1>9, <1>14, <1>15 DEF RestOfBatch, h, v, b

LEMMA SetBuffer ==
    ASSUME NEW b \in Defrags, NEW s \in SeqNums, NEW v \in Vecs
    PROVE  [b EXCEPT !.sn = s, !.buffer = v] = [sn |-> s, fragid |-> b.fragid, buffer |-> v]
<1> DEFINE a == [b EXCEPT !.sn = s, !.buffer = v]
           c == [sn |-> s, fragid |-> b.fragid, buffer |-> v]
<1>1. b \in Defrags /\ b.fragid \in SeqNums
  BY DEF Defrags
<1>2. a \in Defrags
  BY <1>1 DEF Defrags
<1>3. a.sn = s /\ a.fragid = b.fragid /\ a.buffer = v
  BY <1>1 DEF Defrags
<1>4. c \in Defrags /\ c.sn = s /\ c.fragid = b.fragid /\ c.buffer = v
  BY <1>1 DEF Defrags
<1> HIDE DEF a, c
<1>5. a = c
  BY <1>2, <1>3, <1>4 DEF Defrags
<1> QED
  BY <1>5 DEF a, c

\* A message that is whole.
Completed(inb, bs, cc, x) ==
    \E b \in Boxes : bs = Append(inb, b) /\ b.cc = cc /\ LeftIn(b) = x

LEMMA CompletedIs ==
    ASSUME NEW v \in Vecs, NEW cc \in Ccs, Box(v, cc, Zero)
    PROVE  Completed(inbox, inbox', cc, Content(v))
<1> DEFINE b == [bytes |-> v, cc |-> cc, pos |-> Zero]
<1>1. b \in Boxes /\ b.cc = cc
  BY ZeroIs
<1>2. inbox' = Append(inbox, b)
  BY DEF Box
<1>3. CursorOf(b) = Reader(v)
  BY DEF CursorOf, Reader, Zero
<1> HIDE DEF b
<1>4. DataOf(Reader(v)) = Content(v) /\ Offset(Reader(v)) = 0 /\ Content(v) \in Seq(Nat)
  BY ReaderIs
<1>5. Suffix(Content(v), 0) = Content(v)
  <2> DEFINE c == Content(v)
  <2>1. SubSeq(c, 1, Len(c)) = c
    BY <1>4, WholeIs
  <2> HIDE DEF c
  <2> QED
    BY <2>1 DEF Suffix, c
<1>6. LeftIn(b) = Content(v)
  BY <1>3, <1>4, <1>5 DEF LeftIn
<1> QED
  BY <1>1, <1>2, <1>6 DEF Completed

\* A fragment is added to the buffer, or it is not the one that is awaited.
FragmentBrought(z, d, f, bs) ==
    LET b == BufferFor(z, d) IN
    /\ HeldIn(f) = [z.defrag EXCEPT ![d.q.cc] = BufferAfter(b, d)]
    /\ IF d.body = "last" /\ Awaited(b, d)
       THEN Completed(inbox, bs, d.q.cc, b.data \o d.tail)
       ELSE bs = inbox

\* A fragment does to the receiver what FragmentBrought says.
LEMMA FragmentBrings ==
    ASSUME ReceiverTyped, NEW n, NEW d \in Sendable(n), d.body # "frame",
           NEW bytes, bytes = Single(BytesOf(d)),
           NEW h, h.qos.cc = d.q.cc, h.sn = d.sn, h.fid = d.fid, h.body = d.body,
           RestOfBatch(d, h), ReceiveFragment(bytes, h),
           NEW z, z.defrag = HeldIn(defrag)
    PROVE  FragmentBrought(z, d, defrag', inbox')
<1> DEFINE cc == h.qos.cc
           old == defrag[cc]
           b == IF h.body # "first" THEN old
                ELSE [sn |-> h.sn, fragid |-> h.fid, buffer |-> Cleared(old.buffer)]
           start == LenOf(bytes) - Remaining(h.r)
           view == ViewFrom(bytes, start).data
           longer == Extend(b.buffer, view)
           c == BufferFor(z, d)
<1>a. d.q.cc \in Ccs /\ d.sn \in SeqNums /\ d.fid \in SeqNums /\ d.tail \in Seq(Nat)
  BY BytesOfIs DEF Sendable
<1>1. cc \in Ccs /\ old \in Defrags /\ old.buffer \in Vecs
  BY <1>a DEF ReceiverTyped, Defrags
<1>2. b \in Defrags
  <2>1. Cleared(old.buffer) \in Vecs
    BY <1>1, ClearedIs
  <2> QED
    BY <1>1, <1>a, <2>1 DEF Defrags
<1>3. view \in Vecs /\ Content(view) = d.tail
  <2>1. bytes \in Vecs /\ start \in Nat /\ start <= LenOf(bytes) /\ From(bytes, start) = d.tail
    BY DEF RestOfBatch
  <2> HIDE DEF start
  <2>2. view \in Vecs /\ Content(view) = From(bytes, start)
    BY <2>1, ViewFromIs
  <2> QED
    BY <2>1, <2>2
<1>4. IF ~Extends(b, h, view)
      THEN /\ defrag' = [defrag EXCEPT ![cc] =
                  IF h.body = "more" THEN [b EXCEPT !.buffer = Cleared(@)] ELSE b]
           /\ UNCHANGED inbox
      ELSE /\ defrag' = [defrag EXCEPT ![cc] =
                  [b EXCEPT !.sn = Next_Sn(b.sn),
                            !.buffer = IF h.body = "last" THEN NoBytes ELSE longer]]
           /\ IF h.body = "last" THEN Box(longer, cc, Zero) ELSE UNCHANGED inbox
  BY DEF ReceiveFragment
<1>5. c.sn = b.sn /\ c.fragid = b.fragid /\ c.data = Content(b.buffer) /\ Len(c.data) = LenOf(b.buffer)
  <2>1. defrag \in [Ccs -> Defrags]
    BY DEF ReceiverTyped
  <2>2. CASE d.body # "first"
    <3>1. c = HeldIn(defrag)[cc] /\ b = old
      BY <2>2 DEF BufferFor
    <3>2. HeldIn(defrag)[cc].sn = old.sn /\ HeldIn(defrag)[cc].fragid = old.fragid
          /\ HeldIn(defrag)[cc].data = Content(old.buffer)
      BY <1>1, <2>1, HeldIs
    <3> QED
      BY <3>1, <3>2 DEF LenOf
  <2>3. CASE d.body = "first"
    <3>1. c = [sn |-> d.sn, fragid |-> d.fid, data |-> <<>>]
      BY <2>3 DEF BufferFor
    <3>2. b = [sn |-> h.sn, fragid |-> h.fid, buffer |-> Cleared(old.buffer)]
      BY <2>3
    <3>3. Content(Cleared(old.buffer)) = <<>>
      BY <1>1, ClearedIs
    <3> QED
      BY <3>1, <3>2, <3>3 DEF LenOf
  <2> QED
    BY <2>2, <2>3
<1> HIDE DEF b, view, c
<1>6. b.sn \in SeqNums /\ b.fragid \in SeqNums /\ b.buffer \in Vecs
      /\ b = [sn |-> b.sn, fragid |-> b.fragid, buffer |-> b.buffer]
  BY <1>2 DEF Defrags
<1>7. /\ longer \in Vecs /\ Content(longer) = Content(b.buffer) \o Content(view)
      /\ Cleared(b.buffer) \in Vecs /\ Content(Cleared(b.buffer)) = <<>>
      /\ Next_Sn(b.sn) \in SeqNums /\ NoBytes \in Vecs /\ Content(NoBytes) = <<>>
  BY <1>3, <1>6, ExtendIs, ClearedIs, NextSn, NoBytesIs
<1>8. Content(longer) = c.data \o d.tail
  BY <1>3, <1>5, <1>7
<1>9. Extends(b, h, view) <=> Awaited(c, d)
  <2>1. LenOf(view) = Len(d.tail)
    BY <1>3 DEF LenOf
  <2> QED
    BY <1>5, <2>1 DEF Extends, Awaited
<1> HIDE DEF longer
<1>b. defrag \in [Ccs -> Defrags]
  BY DEF ReceiverTyped
<1>10. CASE ~Awaited(c, d)
  <2> DEFINE e == IF h.body = "more" THEN [b EXCEPT !.buffer = Cleared(@)] ELSE b
             x == [sn |-> e.sn, fragid |-> e.fragid, data |-> Content(e.buffer)]
  <2>1. [b EXCEPT !.buffer = Cleared(@)] = [sn |-> b.sn, fragid |-> b.fragid, buffer |-> Cleared(b.buffer)]
    BY <1>6
  <2>2. e \in Defrags
    BY <1>2, <1>6, <1>7, <2>1 DEF Defrags
  <2>3. x = [sn |-> c.sn, fragid |-> c.fragid, data |-> IF d.body = "more" THEN <<>> ELSE c.data]
    BY <1>5, <1>7, <2>1
  <2>4. x = BufferAfter(c, d)
    BY <1>10, <2>3 DEF BufferAfter
  <2>5. defrag' = [defrag EXCEPT ![cc] = e] /\ inbox' = inbox
    BY <1>4, <1>9, <1>10
  <2> HIDE DEF e
  <2>6. HeldIn(defrag') = [HeldIn(defrag) EXCEPT ![cc] = x]
    BY <1>1, <1>b, <2>2, <2>5, HeldExcept
  <2> HIDE DEF x
  <2> QED
    BY <1>10, <2>4, <2>5, <2>6 DEF FragmentBrought, c
<1>11. CASE Awaited(c, d)
  <2> DEFINE l == IF h.body = "last" THEN NoBytes ELSE longer
             e == [b EXCEPT !.sn = Next_Sn(b.sn), !.buffer = l]
             x == [sn |-> e.sn, fragid |-> e.fragid, data |-> Content(e.buffer)]
  <2>1. l \in Vecs /\ Content(l) = IF d.body = "last" THEN <<>> ELSE c.data \o d.tail
    BY <1>7, <1>8
  <2>2. defrag' = [defrag EXCEPT ![cc] = e]
    BY <1>4, <1>9, <1>11
  <2> HIDE DEF l
  <2>3. e = [sn |-> Next_Sn(b.sn), fragid |-> b.fragid, buffer |-> l]
    BY <1>2, <1>7, <2>1, SetBuffer
  <2>4. e \in Defrags
    BY <1>6, <1>7, <2>1, <2>3 DEF Defrags
  <2>5. x = [sn |-> Next_Sn(c.sn), fragid |-> c.fragid,
             data |-> IF d.body = "last" THEN <<>> ELSE c.data \o d.tail]
    BY <1>5, <2>1, <2>3
  <2>6. x = BufferAfter(c, d)
    BY <1>11, <2>5 DEF BufferAfter
  <2> HIDE DEF e
  <2>7. HeldIn(defrag') = [HeldIn(defrag) EXCEPT ![cc] = x]
    BY <1>1, <1>b, <2>2, <2>4, HeldExcept
  <2> HIDE DEF x
  <2>8. HeldIn(defrag') = [z.defrag EXCEPT ![d.q.cc] = BufferAfter(c, d)]
    BY <2>6, <2>7
  <2>9. CASE d.body = "last"
    <3>1. Box(longer, cc, Zero)
      BY <1>4, <1>9, <1>11, <2>9
    <3>2. Completed(inbox, inbox', cc, Content(longer))
      BY <1>1, <1>7, <3>1, CompletedIs
    <3> QED
      BY <1>8, <1>11, <2>8, <2>9, <3>2 DEF FragmentBrought, c
  <2>10. CASE d.body # "last"
    <3>1. inbox' = inbox
      BY <1>4, <1>9, <1>11, <2>10
    <3> QED
      BY <2>8, <2>10, <3>1 DEF FragmentBrought, c
  <2> QED
    BY <2>9, <2>10
<1> QED
  BY <1>10, <1>11

\* The receiver takes the first batch.
LEMMA ReceiveBehind ==
    ASSUME SnsFit, SenderTyped, ReceiverTyped, Receive,
           NEW m \in Seq(Mails), NEW n, NEW z, NEW e, NEW d, NEW v, NEW y,
           Before(m, n, wire, z, e, d, v, y), Behind(m, z, defrag, inbox, got)
    PROVE  Behind(m, y, defrag', inbox', got') /\ wire' = v
<1> DEFINE h == ReadHeader(Reader(First))
           b == BufferFor(z, d)
<1>1. /\ d \in Sendable(n) /\ wire = Announced(d) \o v /\ v \in Seq(Nat)
      /\ y \in Marks /\ z \in Marks /\ Brings(m, z, d, y)
  BY DEF Before
<1>2. /\ First = Single(BytesOf(d)) /\ wire[1] # 0
      /\ SubSeq(wire, wire[1] + 2, Len(wire)) = v
  BY <1>1, FirstOf
<1>3. /\ wire' = SubSeq(wire, wire[1] + 2, Len(wire))
      /\ IF wire[1] = 0 THEN UNCHANGED receiverVars
         ELSE IF ~h.ok THEN alive' = FALSE /\ UNCHANGED <<defrag, inbox, seen>>
         ELSE /\ seen' = [seen EXCEPT ![h.qos.cc] = h.sn]
              /\ IF h.body = "frame"
                 THEN Box(First, h.qos.cc, Mark(h.r)) /\ UNCHANGED defrag
                 ELSE ReceiveFragment(First, h)
              /\ UNCHANGED alive
      /\ got' = got
  BY DEF Receive, First
<1>4. wire' = v
  BY <1>2, <1>3
<1>5. ReadsHead(d)
  BY <1>1, HeadReads
<1>6. /\ h.ok = TRUE /\ h.qos = d.q /\ h.sn = d.sn /\ h.body = d.body
      /\ h.fid = IF d.body = "frame" THEN 0 ELSE d.fid
  BY <1>2, <1>5 DEF ReadsHead
<1>7. RestOfBatch(d, h)
  BY <1>1, <1>2, BatchRead
<1>8. IF h.body = "frame"
      THEN Box(First, h.qos.cc, Mark(h.r)) /\ UNCHANGED defrag
      ELSE ReceiveFragment(First, h)
  BY <1>2, <1>3, <1>6
<1> HIDE DEF h, b
<1>9. /\ z.defrag = HeldIn(defrag) /\ Waits(m, inbox, Len(got), z.k) /\ Returned(m, got)
      /\ inbox \in Seq(Boxes) /\ defrag \in [Ccs -> Defrags]
  BY DEF Behind, ReceiverTyped
<1>10. z.k \in Nat /\ y.k \in Nat /\ d.q.cc \in Ccs
  BY <1>1, BytesOfIs DEF Marks
\* What comes into the ring.
<1>11. ASSUME NEW x, Completed(inbox, inbox', d.q.cc, x), Tells(m, z.k, y.k, x, d.q.cc)
       PROVE  Waits(m, inbox', Len(got), y.k)
  <2>1. PICK c \in Boxes : inbox' = Append(inbox, c) /\ c.cc = d.q.cc /\ LeftIn(c) = x
    BY <1>11 DEF Completed
  <2>2. Tells(m, z.k, y.k, LeftIn(c), c.cc)
    BY <1>11, <2>1
  <2>3. Waits(m, Append(inbox, c), Len(got), y.k)
    BY <1>9, <1>10, <2>2, WaitsMore
  <2> QED
    BY <2>1, <2>3
<1>12. CASE d.body = "frame"
  <2>1. y.defrag = z.defrag /\ Tells(m, z.k, y.k, d.tail, d.q.cc)
    BY <1>1, <1>12, Zenon DEF Brings
  <2>2. Box(First, d.q.cc, Mark(h.r)) /\ defrag' = defrag
    BY <1>6, <1>8, <1>12
  <2>3. /\ First \in Vecs /\ h.r \in Readers /\ Firm(h.r) /\ h.r.chunks = First.items
        /\ Suffix(DataOf(h.r), Offset(h.r)) = d.tail
    BY <1>2, <1>7 DEF RestOfBatch
  <2> DEFINE c == [bytes |-> First, cc |-> d.q.cc, pos |-> Mark(h.r)]
  <2>4. c \in Boxes /\ CursorOf(c) = h.r
    BY <1>10, <2>3, MarkIs
  <2>5. inbox' = Append(inbox, c) /\ c.cc = d.q.cc
    BY <2>2 DEF Box
  <2> HIDE DEF c
  <2>6. LeftIn(c) = d.tail
    BY <2>3, <2>4 DEF LeftIn
  <2>7. Completed(inbox, inbox', d.q.cc, d.tail)
    BY <2>4, <2>5, <2>6 DEF Completed
  <2>8. Waits(m, inbox', Len(got), y.k)
    BY <1>11, <2>1, <2>7
  <2>9. y.defrag = HeldIn(defrag')
    BY <1>9, <2>1, <2>2
  <2> QED
    BY <1>1, <1>3, <1>4, <1>9, <2>8, <2>9 DEF Behind
<1>13. CASE d.body # "frame"
  <2>1. ReceiveFragment(First, h) /\ h.qos.cc = d.q.cc /\ h.fid = d.fid
    BY <1>6, <1>8, <1>13
  <2>2. FragmentBrought(z, d, defrag', inbox')
    BY <1>1, <1>2, <1>6, <1>7, <1>9, <1>13, <2>1, FragmentBrings
  <2>3. /\ HeldIn(defrag') = [z.defrag EXCEPT ![d.q.cc] = BufferAfter(b, d)]
        /\ IF d.body = "last" /\ Awaited(b, d)
           THEN Completed(inbox, inbox', d.q.cc, b.data \o d.tail)
           ELSE inbox' = inbox
    BY <2>2, Zenon DEF FragmentBrought, b
  <2>4. /\ y.defrag = [z.defrag EXCEPT ![d.q.cc] = BufferAfter(b, d)]
        /\ IF d.body = "last" /\ Awaited(b, d)
           THEN Tells(m, z.k, y.k, b.data \o d.tail, d.q.cc)
           ELSE y.k = z.k
    BY <1>1, <1>13, Zenon DEF Brings, b
  <2>5. y.defrag = HeldIn(defrag')
    BY <2>3, <2>4
  <2>6. Waits(m, inbox', Len(got), y.k)
    <3>1. CASE d.body = "last" /\ Awaited(b, d)
      BY <1>11, <2>3, <2>4, <3>1
    <3>2. CASE ~(d.body = "last" /\ Awaited(b, d))
      <4>1. inbox' = inbox /\ y.k = z.k
        BY <2>3, <2>4, <3>2
      <4> QED
        BY <1>9, <4>1
    <3> QED
      BY <3>1, <3>2
  <2> QED
    BY <1>1, <1>3, <1>4, <1>9, <2>5, <2>6 DEF Behind
<1> QED
  BY <1>12, <1>13

\* What a cursor has left begins with a.
LeftShown(d, p, a, b) ==
    /\ d \in Seq(Nat) /\ p \in Nat /\ p <= Len(d) /\ a \in Seq(Nat) /\ b \in Seq(Nat)
    /\ Suffix(d, p) = a \o b
    => Shows(d, p, a) /\ p + Len(a) <= Len(d) /\ Suffix(d, p + Len(a)) = b
LEMMA LeftShows ==
    ASSUME NEW d, NEW p, NEW a, NEW b
    PROVE  LeftShown(d, p, a, b)
<1> SUFFICES ASSUME d \in Seq(Nat), p \in Nat, p <= Len(d), a \in Seq(Nat), b \in Seq(Nat),
                    Suffix(d, p) = a \o b
             PROVE  Shows(d, p, a) /\ p + Len(a) <= Len(d) /\ Suffix(d, p + Len(a)) = b
  BY Zenon DEF LeftShown
<1> DEFINE s == Suffix(d, p)
<1>1. s \in Seq(Nat) /\ Len(s) = Len(d) - p /\ Shows(d, p, s)
  BY SuffixIs
<1>2. s = a \o b
  OBVIOUS
<1> HIDE DEF s
<1>3. Suffix(s, Len(a)) = b /\ Len(s) = Len(a) + Len(b) /\ Len(a) \in Nat /\ Len(b) \in Nat
  BY <1>2, SuffixJoined, LenProperties
<1>4. \A i \in 1..Len(a) : s[i] = a[i]
  BY <1>2, ConcatProperties
<1> DEFINE k == Len(a)
           l == Len(d)
           u == Len(s)
<1>5. l \in Nat /\ k \in Nat /\ u = l - p /\ k <= u
  <2>1. l \in Nat
    BY LenProperties
  <2>2. u = k + Len(b) /\ u = l - p
    BY <1>1, <1>3
  <2> DEFINE o == Len(b)
  <2>3. k \in Nat /\ o \in Nat /\ u = k + o
    BY <1>3, <2>2
  <2> HIDE DEF k, l, u, o
  <2> QED
    BY <2>1, <2>2, <2>3
<1>6. \A i \in 1..u : d[p + i] = s[i]
  BY <1>1 DEF Shows
<1> HIDE DEF k, l, u
<1>7. p + k <= l /\ k <= l - p /\ \A i \in 1..k : i \in 1..u
  BY <1>5
<1>8. \A i \in 1..k : d[p + i] = a[i]
  BY <1>4, <1>6, <1>7 DEF k
<1>9. Suffix(Suffix(d, p), k) = Suffix(d, p + k)
  BY <1>5, <1>7, Ending DEF l
<1> QED
  BY <1>3, <1>7, <1>8, <1>9 DEF k, l, s, Shows

\* recv returns one message more.
LEMMA ReturnedMore ==
    ASSUME NEW m \in Seq(Mails), NEW g \in Seq(Messages), Returned(m, g), NEW a \in Messages,
           Len(g) + 1 \in 1..Len(m),
           m[Len(g) + 1].content = Content(a.bytes), m[Len(g) + 1].cc = a.cc
    PROVE  Returned(m, Append(g, a))
<1> DEFINE k == Len(g)
           h == Append(g, a)
<1>1. h \in Seq(Messages) /\ Len(h) = k + 1 /\ (\A i \in 1..k : h[i] = g[i]) /\ h[k + 1] = a
  BY AppendProperties
<1>2. k \in Nat
  BY LenProperties
<1>3. /\ \A i \in 1..k : i \in 1..Len(m) /\ m[i].content = Content(g[i].bytes) /\ m[i].cc = g[i].cc
      /\ k + 1 \in 1..Len(m) /\ m[k + 1].content = Content(a.bytes) /\ m[k + 1].cc = a.cc
  BY DEF Returned
<1> HIDE DEF k, h
<1>4. ASSUME NEW i \in 1..Len(h)
      PROVE  i \in 1..Len(m) /\ m[i].content = Content(h[i].bytes) /\ m[i].cc = h[i].cc
  <2>1. i \in 1..k \/ i = k + 1
    BY <1>1, <1>2
  <2>2. CASE i \in 1..k
    <3>1. h[i] = g[i]
      BY <1>1, <2>2
    <3> QED
      BY <1>3, <2>2, <3>1
  <2>3. CASE i = k + 1
    <3>1. h[i] = a
      BY <1>1, <2>3
    <3> QED
      BY <1>3, <2>3, <3>1
  <2> QED
    BY <2>1, <2>2, <2>3
<1>5. Returned(m, h)
  BY <1>4 DEF Returned
<1> QED
  BY <1>5 DEF h

\* recv takes a message from the first batch, or is at the end of that batch.
LEMMA PullBehind ==
    ASSUME ReceiverTyped, got \in Seq(Messages), Pull,
           NEW m \in Seq(Mails), NEW z, Behind(m, z, defrag, inbox, got)
    PROVE  Behind(m, z, defrag', inbox', got')
<1> DEFINE b == inbox[1]
           a == Decoded(b)
           s == SeekMark(Reader(b.bytes), b.pos)
           r == CursorOf(b)
           k == Len(got)
<1>1. inbox \in Seq(Boxes) /\ inbox # <<>> /\ 1 \in 1..Len(inbox) /\ defrag' = defrag
  <2>1. inbox \in Seq(Boxes) /\ inbox # <<>> /\ defrag' = defrag
    BY DEF ReceiverTyped, Pull
  <2>2. Len(inbox) \in Nat /\ Len(inbox) # 0
    BY <2>1, LenProperties, EmptySeq
  <2> QED
    BY <2>1, <2>2
<1>2. b \in Boxes
  BY <1>1, ElementOfSeq
<1>3. /\ b \in [bytes : Vecs, cc : Ccs, pos : [slice : Nat, byte : Nat]]
      /\ r \in Readers /\ Firm(r) /\ r.chunks = b.bytes.items /\ r.slice = b.pos.slice
  BY <1>2 DEF Boxes, CursorOf
<1>4. IF a.ok
      THEN /\ got' = Append(got, [bytes |-> a.data, cc |-> b.cc])
           /\ inbox' = [inbox EXCEPT ![1].pos = Kept(a.r)]
      ELSE /\ inbox' = Tail(inbox)
           /\ UNCHANGED got
  BY DEF Pull
<1>5. a = IF s.ok THEN ReadBytes(s.r) ELSE s
  BY DEF Decoded
<1>6. IF AtChunk(r) THEN s = Ok(<<>>, r) ELSE s = Fail(Reader(b.bytes))
  <2>1. AtChunk(r) <=> b.pos.slice < Len(b.bytes.items)
    BY <1>3 DEF AtChunk
  <2> QED
    BY <1>2, <2>1, SeekKept
<1>7. LeftIn(b) = Suffix(DataOf(r), Offset(r))
  BY DEF LeftIn
<1> DEFINE d == DataOf(r)
           p == Offset(r)
<1>8. d \in Seq(Nat) /\ Len(d) \in Nat /\ p \in Nat /\ p <= Len(d) /\ (~AtChunk(r) => p = Len(d))
  BY <1>3, OffsetIn
<1>14. b \in [bytes : Vecs, cc : Ccs, pos : [slice : Nat, byte : Nat]]
  BY <1>3
<1>15. LeftIn(b) = Suffix(d, p)
  BY <1>7
<1>9. Waits(m, inbox, k, z.k) /\ Returned(m, got) /\ z \in Marks /\ z.defrag = HeldIn(defrag)
  BY DEF Behind
<1> HIDE DEF b, a, s, r, d, p
<1>10. PICK j \in Nat : Tells(m, k, j, LeftIn(b), b.cc) /\ Waits(m, Tail(inbox), j, z.k)
  BY <1>1, <1>9, WaitsFirst DEF b
<1>11. k \in Nat /\ b.cc \in Ccs
  BY <1>3, LenProperties
<1> HIDE DEF k
\* Nothing is left of the batch.
<1>12. CASE k = j
  <2>1. LeftIn(b) = <<>>
    BY <1>10, <1>12, TellsIs
  <2>2. Suffix(d, p) = <<>> /\ Len(Suffix(d, p)) = Len(d) - p
    BY <1>8, <1>15, <2>1, SuffixIs
  <2>3. Len(d) - p = 0
    BY <2>2
  <2>4. ~AtChunk(r)
    <3> SUFFICES ASSUME AtChunk(r) PROVE FALSE
      OBVIOUS
    <3> DEFINE l == Len(RestOf(r))
               x == Len(ChunkOf(r))
               y == r.byte
    <3>1. /\ l = x - y /\ x \in Nat /\ y \in Nat /\ p + l <= Len(d)
      BY <1>3, ChunkAhead DEF d, p
    <3>2. y < x
      BY <1>3 DEF Firm
    <3> HIDE DEF l, x, y, d, p
    <3> QED
      BY <1>8, <2>3, <3>1, <3>2
  <2>5. ~a.ok
    BY <1>5, <1>6, <2>4 DEF Fail
  <2>6. inbox' = Tail(inbox) /\ got' = got
    BY <1>4, <2>5
  <2>7. Waits(m, inbox', Len(got'), z.k)
    BY <1>10, <1>12, <2>6 DEF k
  <2> QED
    BY <1>1, <1>9, <2>6, <2>7 DEF Behind
\* The next message is.
<1>13. CASE k # j
  <2> DEFINE c == m[k + 1].content
  <2>1. /\ k + 1 \in 1..Len(m) /\ m[k + 1].cc = b.cc /\ m[k + 1] \in Mails
        /\ \E y \in Seq(Nat) : LeftIn(b) = Payload(c) \o y /\ Tells(m, k + 1, j, y, b.cc)
    BY <1>10, <1>13, TellsFirst
  <2>2. c \in Seq(Nat) /\ Len(c) <= MaxVle
    BY <2>1 DEF Mails, Bodied
  <2> HIDE DEF c
  <2>3. PICK y \in Seq(Nat) : LeftIn(b) = Payload(c) \o y /\ Tells(m, k + 1, j, y, b.cc)
    BY <2>1
  <2>4. Payload(c) \in Seq(Nat) /\ Len(Payload(c)) \in Nat /\ Len(Payload(c)) > 0
    BY <2>2, PayloadIs, LenProperties
  <2>5. /\ Shows(d, p, Payload(c)) /\ p + Len(Payload(c)) <= Len(d)
        /\ Suffix(d, p + Len(Payload(c))) = y
    <3> DEFINE x == Payload(c)
    <3>1. Suffix(d, p) = x \o y /\ x \in Seq(Nat)
      BY <1>15, <2>3, <2>4
    <3> HIDE DEF x
    <3>2. Shows(d, p, x) /\ p + Len(x) <= Len(d) /\ Suffix(d, p + Len(x)) = y
      <4>1. LeftShown(d, p, x, y)
        BY LeftShows
      <4> QED
        BY <1>8, <3>1, <4>1 DEF LeftShown
    <3> QED
      BY <3>2 DEF x
  <2>6. AtChunk(r)
    BY <1>8, <2>4, <2>5
  <2>7. s = Ok(<<>>, r) /\ s.ok
    BY <1>6, <2>6 DEF Ok
  <2>8. a = ReadBytes(r)
    BY <1>5, <2>7 DEF Ok
  <2>9. /\ a.ok = TRUE /\ a.data \in Vecs /\ Content(a.data) = c
        /\ a.r \in Readers /\ a.r.chunks = r.chunks /\ Firm(a.r)
        /\ Offset(a.r) = p + Len(Payload(c))
    BY <1>3, <2>2, <2>5, <2>8, PayloadReadsBack DEF d, p
  <2> DEFINE g == [bytes |-> a.data, cc |-> b.cc]
             e == [bytes |-> b.bytes, cc |-> b.cc, pos |-> Mark(a.r)]
  <2>10. e \in Boxes /\ CursorOf(e) = a.r /\ e.cc = b.cc
    BY <1>3, <2>9, MarkIs
  <2>11. got' = Append(got, g) /\ inbox' = [inbox EXCEPT ![1] = e]
    <3>1. inbox' = [inbox EXCEPT ![1].pos = Mark(a.r)] /\ got' = Append(got, g)
      BY <1>4, <2>9 DEF Kept
    <3>2. [b EXCEPT !.pos = Mark(a.r)] = e
      BY SMTT(30), <1>14
    <3>3. inbox' = [inbox EXCEPT ![1] = [b EXCEPT !.pos = Mark(a.r)]]
      BY <3>1 DEF b
    <3> QED
      BY <3>1, <3>2, <3>3
  <2> HIDE DEF e
  <2>12. LeftIn(e) = y
    <3>1. DataOf(a.r) = d
      BY <2>9 DEF DataOf, d
    <3> QED
      BY <2>5, <2>9, <2>10, <3>1 DEF LeftIn
  <2>13. g \in Messages /\ g.bytes = a.data /\ g.cc = b.cc
    BY <1>11, <2>9 DEF Messages
  <2> HIDE DEF g
  <2>14. Len(got') = k + 1
    BY <2>11, <2>13, AppendProperties DEF k
  <2>15. Waits(m, inbox', k + 1, z.k)
    <3>1. Tells(m, k + 1, j, LeftIn(e), e.cc)
      BY <2>3, <2>10, <2>12
    <3>2. k + 1 \in Nat
      BY <1>11
    <3> QED
      BY <1>1, <1>10, <2>10, <2>11, <3>1, <3>2, WaitsInFront
  <2>16. Returned(m, got')
    <3>1. k + 1 \in 1..Len(m) /\ m[k + 1].content = Content(g.bytes) /\ m[k + 1].cc = g.cc
      BY <2>1, <2>9, <2>13 DEF c
    <3> QED
      BY <1>9, <2>11, <2>13, <3>1, ReturnedMore DEF k
  <2> QED
    BY <1>1, <1>9, <2>14, <2>15, <2>16 DEF Behind
<1> QED
  BY <1>12, <1>13

\* What a fragment that is not the first takes of the message, and the room there is for it.
LEMMA NextFragmentGives ==
    ASSUME SenderTyped, enc.pc = "more", booked = <<>>, Remaining(enc.r) > 0
    PROVE  LET b == TheBatch(enc.qos.cc)
               room == FragmentRoom(b)
               rest == Remaining(enc.r)
               views == ReadChunks(enc.r, Least(rest, room)) IN
           /\ Gives(enc.r, Ok(Content(views.data), views.r), Least(rest, room))
           /\ room = (batchSize - HeaderLen(enc.sn, "more", enc.fragid)) % 65536
           /\ room \in Nat /\ rest \in Nat
<1> DEFINE b == TheBatch(enc.qos.cc)
           room == FragmentRoom(b)
           rest == Remaining(enc.r)
           m == Least(rest, room)
           views == ReadChunks(enc.r, m)
           n == HeaderLen(enc.sn, "more", enc.fragid)
<1>1. /\ enc.qos.cc \in Ccs /\ enc.r \in Readers /\ Firm(enc.r)
      /\ enc.sn \in SeqNums /\ enc.fragid \in SeqNums
  BY EncIs
<1>2. b \in Batches /\ b.buf.cap = batchSize /\ b.buf.data = <<>>
  BY <1>1, NewLen DEF TheBatch
<1>3. room = (batchSize - n) % 65536
  <2>1. Room(b.buf) = batchSize - 0
    BY <1>2 DEF Room
  <2>2. batchSize - 0 = batchSize
    BY DEF SenderTyped
  <2> HIDE DEF n, b
  <2> QED
    BY <2>1, <2>2 DEF FragmentRoom, n
<1>4. rest \in Nat /\ rest > 0 /\ room \in Nat
  <2>1. rest \in Nat
    BY <1>1, OffsetIn
  <2>2. enc.sn \in Nat /\ enc.fragid \in Nat
    BY <1>1, NextSn
  <2> QED
    BY <1>2, <2>1, <2>2, FragmentRoomIs
<1> HIDE DEF b, room, rest, n
<1>5. m \in Nat /\ m <= rest
  BY <1>4 DEF Least
<1> HIDE DEF m
<1>6. m <= Remaining(enc.r)
  BY <1>5 DEF rest
<1>7. Gives(enc.r, Ok(Content(views.data), views.r), m)
  BY <1>1, <1>5, <1>6, ReadChunksIs
<1> HIDE DEF views
<1> QED
  BY <1>3, <1>4, <1>7 DEF b, room, rest, m, views, n

----------------------------------------------------------------------------
(* The fragments of a message, and what the receiver makes of them *)

\* The room that a fragment has for data behind the longest header.
Net(n) == n - HeaderLen(Modulus - 1, "more", Modulus - 1)

LEMMA NetIs ==
    /\ HeaderLen(Modulus - 1, "more", Modulus - 1) \in Nat
    /\ \A n \in Nat : Net(n) \in Int
<1>1. Modulus - 1 \in SeqNums
  BY SeqNumAssumption DEF SeqNums, Modulus
<1>2. HeaderLen(Modulus - 1, "more", Modulus - 1) \in Nat
  BY <1>1, LongestIs DEF Bodies
<1> QED
  BY <1>2 DEF Net

\* Where p bytes of the payload of c are sent and the next fragment has the numbers sn and
\* fid: the receiver's buffer b holds them, or they are too many for it and b keeps an
\* older number.
Reached(n, b, c, p, sn, fid) ==
    IF p <= FragMax
    THEN b = [sn |-> sn, fragid |-> fid, data |-> Part(Payload(c), 0, p)]
    ELSE \E j \in 1..(Modulus - 1) : (j - 1) * Net(n) < p /\ sn = (b.sn + j) % Modulus
\* A payload that is too long for the receiver has not as many fragments as there are numbers.
Countable(n, x) == Len(x) <= FragMax \/ Len(x) <= Net(n) * (Modulus - 1)

\* The receiver with another buffer and another count.
WithBuffer(e, cc, a, k) == [defrag |-> [e.defrag EXCEPT ![cc] = a], k |-> k]
LEMMA WithBufferIs ==
    ASSUME NEW e \in Marks, NEW cc \in Ccs, NEW a \in Buffers, NEW k \in Nat
    PROVE  LET y == WithBuffer(e, cc, a, k) IN
           /\ y \in Marks /\ y.defrag = [e.defrag EXCEPT ![cc] = a] /\ y.k = k
           /\ y.defrag[cc] = a
BY DEF Marks, WithBuffer

\* One field after the other.
LEMMA BufferIs ==
    ASSUME NEW sn \in SeqNums, NEW fid \in SeqNums, NEW x \in Seq(Nat)
    PROVE  LET b == [sn |-> sn, fragid |-> fid, data |-> x] IN
           b \in Buffers /\ b.sn = sn /\ b.fragid = fid /\ b.data = x
BY DEF Buffers

\* What a batch is made of.
LEMMA SendableIs ==
    ASSUME NEW n, NEW d \in Sendable(n)
    PROVE  /\ d.q.cc \in Ccs /\ d.sn \in SeqNums /\ d.fid \in SeqNums /\ d.tail \in Seq(Nat)
           /\ Len(d.tail) \in Nat /\ d.body \in Bodies
BY DEF Sendable, Qualities, Ccs

LEMMA BufferAfterIs ==
    ASSUME NEW b \in Buffers, NEW n, NEW d \in Sendable(n)
    PROVE  BufferAfter(b, d) \in Buffers
<1>1. /\ d.q.cc \in Ccs /\ d.sn \in SeqNums /\ d.fid \in SeqNums /\ d.tail \in Seq(Nat)
  BY SendableIs
<1>2. b.sn \in SeqNums /\ b.fragid \in SeqNums /\ b.data \in Seq(Nat) /\ Next_Sn(b.sn) \in SeqNums
  BY NextSn DEF Buffers
<1>3. b.data \o d.tail \in Seq(Nat) /\ <<>> \in Seq(Nat)
  BY <1>1, <1>2, ConcatProperties
<1> DEFINE x == IF d.body = "more" THEN <<>> ELSE b.data
           y == IF d.body = "last" THEN <<>> ELSE b.data \o d.tail
<1>4. x \in Seq(Nat) /\ y \in Seq(Nat)
  BY <1>2, <1>3
<1>5. BufferAfter(b, d) = IF ~Awaited(b, d) THEN [sn |-> b.sn, fragid |-> b.fragid, data |-> x]
                          ELSE [sn |-> Next_Sn(b.sn), fragid |-> b.fragid, data |-> y]
  BY Zenon DEF BufferAfter
<1> HIDE DEF x, y
<1> QED
  BY <1>2, <1>4, <1>5, BufferIs

\* Numbers one and more places after a.
LEMMA OnePlaceMore ==
    ASSUME NEW a \in SeqNums, NEW j \in 1..(Modulus - 1)
    PROVE  /\ Next_Sn(a) = (a + 1) % Modulus /\ 1 \in 1..(Modulus - 1)
           /\ (a + j) % Modulus # a
           /\ j + 1 \in 1..(Modulus - 1) => Next_Sn((a + j) % Modulus) = (a + (j + 1)) % Modulus
<1>1. Modulus \in Nat /\ Modulus >= 2
  BY SeqNumAssumption DEF Modulus
<1>2. j \in SeqNums /\ 1 \in SeqNums /\ a \in Nat /\ a < Modulus /\ j \in Nat
  BY <1>1 DEF SeqNums
<1> DEFINE x == (a + j) % Modulus
<1>3. x = (IF a + j < Modulus THEN a + j ELSE a + j - Modulus) /\ x \in SeqNums
  BY <1>2, Places
<1>4. x \in Nat /\ x < Modulus /\ j > 0 /\ j < Modulus
  BY <1>1, <1>3 DEF SeqNums
<1>5. (x + 1) % Modulus = IF x + 1 < Modulus THEN x + 1 ELSE x + 1 - Modulus
  BY <1>2, <1>3, Places
<1>6. ASSUME j + 1 \in 1..(Modulus - 1) PROVE Next_Sn(x) = (a + (j + 1)) % Modulus
  <2>1. j + 1 \in SeqNums
    BY <1>1, <1>6 DEF SeqNums
  <2>2. (a + (j + 1)) % Modulus = IF a + (j + 1) < Modulus THEN a + (j + 1) ELSE a + (j + 1) - Modulus
    BY <2>1, Places
  <2> DEFINE y == (a + (j + 1)) % Modulus
             u == (x + 1) % Modulus
  <2>3. u = Next_Sn(x)
    BY DEF Next_Sn
  <2> HIDE DEF x, y, u
  <2>4. u = IF x + 1 < Modulus THEN x + 1 ELSE x + 1 - Modulus
    BY <1>5 DEF u
  <2>5. y = IF a + (j + 1) < Modulus THEN a + (j + 1) ELSE a + (j + 1) - Modulus
    BY <2>2 DEF y
  <2>6. u = y
    BY <1>1, <1>2, <1>3, <1>4, <2>4, <2>5
  <2> QED
    BY <2>3, <2>6 DEF y
<1> HIDE DEF x
<1>7. x # a
  BY <1>1, <1>2, <1>3, <1>4
<1> QED
  BY <1>1, <1>6, <1>7 DEF Next_Sn, x

\* The payload of a message and its parts.
LEMMA PartOfPayload ==
    ASSUME NEW c \in Bodied, NEW o \in Nat, NEW k \in Nat, o + k <= Len(Payload(c))
    PROVE  /\ Part(Payload(c), o, k) \in Seq(Nat) /\ Len(Part(Payload(c), o, k)) = k
           /\ Part(Payload(c), 0, o) \o Part(Payload(c), o, k) = Part(Payload(c), 0, o + k)
           /\ Part(Payload(c), 0, o) \in Seq(Nat) /\ Len(Part(Payload(c), 0, o)) = o
<1> DEFINE x == Payload(c)
<1>1. c \in Seq(Nat)
  BY DEF Bodied
<1>2. x \in Seq(Nat)
  BY <1>1, PayloadIs
<1>3. Len(x) \in Nat
  BY <1>2, LenProperties
<1> HIDE DEF x
<1>4. o + k <= Len(x)
  BY DEF x
<1>5. 0 + o <= Len(x) /\ o = 0 + o /\ o + k = o + k /\ 0 \in Nat /\ o + k \in Nat
  BY <1>3, <1>4
<1>6. Part(x, o, k) \in Seq(Nat) /\ Len(Part(x, o, k)) = k
  BY <1>2, <1>4, PartIs
<1>7. Part(x, 0, o) \in Seq(Nat) /\ Len(Part(x, 0, o)) = o
  BY <1>2, <1>5, PartIs
<1>8. Joins(x, 0, o, o, k, o + k)
  BY PartsJoin
<1>9. Part(x, 0, o) \o Part(x, o, k) = Part(x, 0, o + k)
  BY <1>2, <1>4, <1>5, <1>8 DEF Joins
<1> QED
  BY <1>6, <1>7, <1>9 DEF x

\* The first fragment.
LEMMA FirstBrought ==
    ASSUME NEW m, NEW n \in Nat, NEW e \in Marks, NEW d \in Sendable(n), d.body = "first",
           NEW c \in Bodied, NEW p \in Nat, p > 0, p <= Len(Payload(c)),
           d.tail = Part(Payload(c), 0, p)
    PROVE  \E y \in Marks : /\ Brings(m, e, d, y) /\ y.k = e.k
                            /\ Reached(n, y.defrag[d.q.cc], c, p, Next_Sn(d.sn), d.fid)
<1> DEFINE b == BufferFor(e, d)
           a == BufferAfter(b, d)
           y == WithBuffer(e, d.q.cc, a, e.k)
<1>1. /\ d.q.cc \in Ccs /\ d.sn \in SeqNums /\ d.fid \in SeqNums /\ d.tail \in Seq(Nat)
  BY SendableIs
<1>2. b = [sn |-> d.sn, fragid |-> d.fid, data |-> <<>>]
  BY DEF BufferFor
<1>3. b \in Buffers /\ b.sn = d.sn /\ b.fragid = d.fid /\ b.data = <<>>
  <2> DEFINE x == <<>>
  <2>1. x \in Seq(Nat) /\ b = [sn |-> d.sn, fragid |-> d.fid, data |-> x]
    BY <1>2
  <2> HIDE DEF x, b
  <2>2. b \in Buffers /\ b.sn = d.sn /\ b.fragid = d.fid /\ b.data = x
    BY <1>1, <2>1, BufferIs
  <2> QED
    BY <2>2 DEF x
<1> HIDE DEF b
<1>4. a \in Buffers
  BY <1>3, BufferAfterIs
<1>5. e.k \in Nat
  BY DEF Marks
<1>6. /\ y \in Marks /\ y.defrag = [e.defrag EXCEPT ![d.q.cc] = a] /\ y.k = e.k
      /\ y.defrag[d.q.cc] = a
  <2> HIDE DEF a
  <2> QED
    BY <1>1, <1>4, <1>5, WithBufferIs
<1> HIDE DEF y
<1>7. Brings(m, e, d, y)
  BY <1>6, Zenon DEF Brings, b, a
<1>8. Len(d.tail) = p
  <2>1. 0 + p <= Len(Payload(c)) /\ 0 \in Nat
    OBVIOUS
  <2> QED
    BY <2>1, PartOfPayload
<1>9. Awaited(b, d) <=> p <= FragMax
  <2>1. Len(b.data) = 0 /\ 0 + p = p
    BY <1>3
  <2> QED
    BY <1>3, <1>8, <2>1 DEF Awaited
<1>10. CASE p <= FragMax
  <2>1. a = [sn |-> Next_Sn(d.sn), fragid |-> d.fid, data |-> <<>> \o d.tail]
    <3>1. d.body # "last"
      OBVIOUS
    <3> QED
      BY <1>3, <1>9, <1>10, <3>1 DEF BufferAfter
  <2>2. <<>> \o d.tail = Part(Payload(c), 0, p)
    BY <1>1, ConcatEmptySeq
  <2> HIDE DEF a
  <2> QED
    BY <1>6, <1>7, <1>10, <2>1, <2>2 DEF Reached
<1>11. CASE ~(p <= FragMax)
  <2>1. a = [sn |-> d.sn, fragid |-> d.fid, data |-> IF d.body = "more" THEN <<>> ELSE b.data]
    BY <1>3, <1>9, <1>11 DEF BufferAfter
  <2> HIDE DEF a
  <2>2. a.sn = d.sn
    BY <2>1
  <2>3. 1 \in 1..(Modulus - 1) /\ Next_Sn(d.sn) = (d.sn + 1) % Modulus
    <3>1. Modulus \in Nat /\ Modulus >= 2
      BY SeqNumAssumption DEF Modulus
    <3>2. 1 \in 1..(Modulus - 1)
      BY <3>1
    <3> QED
      BY <1>1, <3>2, OnePlaceMore
  <2>4. (1 - 1) * Net(n) < p
    <3> DEFINE l == HeaderLen(Modulus - 1, "more", Modulus - 1)
    <3>1. 0 * Net(n) = 0
      <4>1. \A g \in Int : 0 * g = 0
        OBVIOUS
      <4>2. n \in Int /\ l \in Int
        BY NetIs DEF l
      <4> QED
        BY <4>1, <4>2 DEF Net
    <3> QED
      BY <3>1
  <2> QED
    BY <1>6, <1>7, <1>11, <2>2, <2>3, <2>4 DEF Reached
<1> QED
  BY <1>10, <1>11

\* A fragment that is neither the first nor the last.
LEMMA MoreBrought ==
    ASSUME NEW m, NEW n \in Nat, NEW e \in Marks, NEW d \in Sendable(n), d.body = "more",
           NEW c \in Bodied, NEW p \in Nat, NEW k \in Nat, p > 0, p + k < Len(Payload(c)),
           Net(n) <= k, Countable(n, Payload(c)),
           d.tail = Part(Payload(c), p, k),
           Reached(n, e.defrag[d.q.cc], c, p, d.sn, d.fid)
    PROVE  \E y \in Marks : /\ Brings(m, e, d, y) /\ y.k = e.k
                            /\ Reached(n, y.defrag[d.q.cc], c, p + k, Next_Sn(d.sn), d.fid)
<1> DEFINE b == e.defrag[d.q.cc]
           a == BufferAfter(b, d)
           y == WithBuffer(e, d.q.cc, a, e.k)
           x == Payload(c)
<1>1. /\ d.q.cc \in Ccs /\ d.sn \in SeqNums /\ d.fid \in SeqNums /\ d.tail \in Seq(Nat)
  BY SendableIs
<1>2. b = BufferFor(e, d)
  BY DEF BufferFor
<1>3. b \in Buffers /\ e.k \in Nat
  BY <1>1 DEF Marks
<1> HIDE DEF b
<1>4. a \in Buffers
  BY <1>3, BufferAfterIs
<1>5. /\ y \in Marks /\ y.defrag = [e.defrag EXCEPT ![d.q.cc] = a] /\ y.k = e.k
      /\ y.defrag[d.q.cc] = a
  <2> HIDE DEF a
  <2> QED
    BY SMTT(60), <1>1, <1>3, <1>4, WithBufferIs
<1> HIDE DEF y
<1>6. Brings(m, e, d, y)
  BY <1>2, <1>5, Zenon DEF Brings, a
<1>7. /\ Len(d.tail) = k /\ Part(x, 0, p) \o d.tail = Part(x, 0, p + k)
      /\ Len(Part(x, 0, p)) = p
  <2>1. p + k <= Len(x)
    <3>1. c \in Seq(Nat)
      BY DEF Bodied
    <3>2. Len(x) \in Nat
      BY <3>1, PayloadIs
    <3> HIDE DEF x
    <3> QED
      BY <3>2 DEF x
  <2>2. /\ Len(Part(x, p, k)) = k /\ Part(x, 0, p) \o Part(x, p, k) = Part(x, 0, p + k)
        /\ Len(Part(x, 0, p)) = p
    BY ZenonT(60), <2>1, PartOfPayload
  <2>3. d.tail = Part(x, p, k)
    OBVIOUS
  <2> HIDE DEF x
  <2> QED
    BY <2>2, <2>3, Zenon
<1>8. Reached(n, b, c, p, d.sn, d.fid)
  BY DEF b
<1>9. b.sn \in SeqNums /\ Modulus \in Nat /\ Modulus >= 2 /\ FragMax \in Nat
  BY <1>3, SeqNumAssumption, WireAssumption DEF Buffers, Modulus
<1> DEFINE g == Net(n)
<1>10. g \in Int
  BY NetIs
<1> HIDE DEF g
<1>11. CASE p + k <= FragMax
  <2>1. p <= FragMax
    BY <1>9, <1>11
  <2>2. b = [sn |-> d.sn, fragid |-> d.fid, data |-> Part(x, 0, p)]
    BY <1>8, <2>1 DEF Reached
  <2>3. b.sn = d.sn /\ b.fragid = d.fid /\ b.data = Part(x, 0, p)
    BY <2>2
  <2>4. Awaited(b, d)
    BY <1>7, <1>11, <2>3 DEF Awaited
  <2>5. a = [sn |-> Next_Sn(d.sn), fragid |-> d.fid, data |-> Part(x, 0, p + k)]
    <3>1. d.body # "last"
      OBVIOUS
    <3> HIDE DEF x
    <3> QED
      BY <1>7, <2>3, <2>4, <3>1, Zenon DEF BufferAfter
  <2> HIDE DEF a
  <2> QED
    BY <1>5, <1>6, <1>11, <2>5, Zenon DEF Reached, x
<1>12. CASE ~(p + k <= FragMax)
  <2>1. PICK j \in 1..(Modulus - 1) :
          /\ (j - 1) * g < p + k /\ Next_Sn(d.sn) = (b.sn + j) % Modulus
          /\ ~Awaited(b, d)
    <3>1. CASE p <= FragMax
      <4>1. b = [sn |-> d.sn, fragid |-> d.fid, data |-> Part(x, 0, p)]
        BY <1>8, <3>1 DEF Reached
      <4>2. b.sn = d.sn /\ b.data = Part(x, 0, p)
        BY <4>1
      <4>3. ~Awaited(b, d)
        BY <1>7, <1>12, <4>2 DEF Awaited
      <4>4. 1 \in 1..(Modulus - 1) /\ Next_Sn(d.sn) = (d.sn + 1) % Modulus
        <5>1. 1 \in 1..(Modulus - 1)
          BY <1>9
        <5> QED
          BY <1>1, <5>1, OnePlaceMore
      <4>5. (1 - 1) * g < p + k
        <5>1. 0 * g = 0
          BY <1>10
        <5> QED
          BY <5>1
      <4> QED
        BY <4>2, <4>3, <4>4, <4>5
    <3>2. CASE ~(p <= FragMax)
      <4>1. PICK j \in 1..(Modulus - 1) : (j - 1) * g < p /\ d.sn = (b.sn + j) % Modulus
        BY <1>8, <3>2 DEF Reached, g
      <4>2. (b.sn + j) % Modulus # b.sn
        BY <1>9, OnePlaceMore
      <4>3. ~Awaited(b, d)
        BY <4>1, <4>2 DEF Awaited
      <4>4. j \in Nat /\ j >= 1 /\ j <= Modulus - 1
        BY <1>9
      <4>5. j * g < p + k
        <5>1. j * g = (j - 1) * g + g
          BY <1>10, <4>4
        <5> DEFINE u == (j - 1) * g
                   v == j * g
        <5>2. u \in Int /\ v = u + g /\ u < p
          BY <1>10, <4>1, <4>4, <5>1
        <5>3. g <= k
          BY DEF g
        <5> HIDE DEF u, v
        <5>4. v < p + k
          BY <1>10, <5>2, <5>3
        <5> QED
          BY <5>4 DEF v
      <4>6. j < Modulus - 1
        <5> DEFINE l == Len(x)
                   q == Modulus - 1
        <5>1. l \in Nat
          <6>1. c \in Seq(Nat)
            BY DEF Bodied
          <6> QED
            BY <6>1, PayloadIs
        <5>2. l <= FragMax \/ l <= g * q
          BY DEF Countable, g
        <5>3. p + k < l
          OBVIOUS
        <5>4. q \in Nat /\ j <= q
          BY <1>9, <4>4
        <5> HIDE DEF l, q
        <5>5. l <= g * q
          BY <1>9, <1>12, <5>1, <5>2, <5>3
        <5>6. ASSUME j = q PROVE FALSE
          <6>1. g * q = j * g
            BY <1>10, <4>4, <5>6
          <6> DEFINE u == g * q
          <6>2. u < p + k /\ l <= u /\ u \in Int
            BY <1>10, <4>5, <5>4, <5>5, <6>1
          <6> HIDE DEF u
          <6> QED
            BY <5>1, <5>3, <6>2
        <5>7. j < q
          BY <4>4, <5>4, <5>6
        <5> QED
          BY <5>7 DEF q
      <4>7. j + 1 \in 1..(Modulus - 1) /\ (j + 1) - 1 = j
        BY <1>9, <4>4, <4>6
      <4>8. Next_Sn(d.sn) = (b.sn + (j + 1)) % Modulus
        BY SMTT(30), <1>9, <4>1, <4>7, OnePlaceMore
      <4>9. ((j + 1) - 1) * g < p + k
        BY <4>5, <4>7
      <4> QED
        BY <4>3, <4>7, <4>8, <4>9
    <3> QED
      BY <3>1, <3>2
  <2>2. a = [sn |-> b.sn, fragid |-> b.fragid, data |-> <<>>]
    BY <2>1, Zenon DEF BufferAfter
  <2> HIDE DEF a
  <2>3. a.sn = b.sn
    BY <2>2
  <2>4. \E i \in 1..(Modulus - 1) : (i - 1) * Net(n) < p + k /\ Next_Sn(d.sn) = (a.sn + i) % Modulus
    BY <2>1, <2>3 DEF g
  <2> QED
    BY <1>5, <1>6, <1>12, <2>4, Zenon DEF Reached
<1> QED
  BY <1>11, <1>12

\* The last fragment: the message arrives, or is too long for the receiver.
LEMMA LastBrought ==
    ASSUME NEW m \in Seq(Mails), NEW n \in Nat, NEW e \in Marks, e.k = Len(m),
           NEW d \in Sendable(n), d.body = "last",
           NEW c \in Bodied, NEW p \in Nat, NEW k \in Nat, p + k = Len(Payload(c)),
           d.tail = Part(Payload(c), p, k),
           Reached(n, e.defrag[d.q.cc], c, p, d.sn, d.fid)
    PROVE  LET a == [content |-> c, cc |-> d.q.cc]
               o == IF Oversize(c) THEN m ELSE Append(m, a) IN
           /\ a \in Mails
           /\ \E y \in Marks : Brings(o, e, d, y) /\ y.k = Len(o)
<1> DEFINE b == e.defrag[d.q.cc]
           f == BufferAfter(b, d)
           x == Payload(c)
           a == [content |-> c, cc |-> d.q.cc]
<1>1. /\ d.q.cc \in Ccs /\ d.sn \in SeqNums /\ d.fid \in SeqNums /\ d.tail \in Seq(Nat)
  BY SendableIs
<1>2. b = BufferFor(e, d)
  BY DEF BufferFor
<1>3. b \in Buffers /\ e.k \in Nat
  BY <1>1 DEF Marks
<1>4. a \in Mails /\ a.content = c /\ a.cc = d.q.cc
  BY <1>1 DEF Mails
<1> HIDE DEF b, a
<1>5. f \in Buffers
  BY <1>3, BufferAfterIs
<1> HIDE DEF f
<1>6. c \in Seq(Nat)
  BY DEF Bodied
<1>7. Len(x) \in Nat /\ x \in Seq(Nat) /\ (Oversize(c) <=> ~(Len(x) <= FragMax))
  <2>1. Len(x) = VleLen(Len(c)) + Len(c) /\ Len(x) \in Nat /\ x \in Seq(Nat)
    BY <1>6, PayloadIs
  <2>2. FragMax \in Nat
    BY WireAssumption
  <2> HIDE DEF x
  <2> QED
    BY <2>1, <2>2 DEF Oversize
<1>8. /\ Len(d.tail) = k /\ Part(x, 0, p) \o d.tail = Part(x, 0, Len(x))
      /\ Len(Part(x, 0, p)) = p /\ Part(x, 0, Len(x)) = x
  <2>1. p + k <= Len(x) /\ p + k = Len(x)
    BY <1>7
  <2>6. p + k <= Len(Payload(c))
    BY <2>1
  <2>2. /\ Len(Part(x, p, k)) = k /\ Part(x, 0, p) \o Part(x, p, k) = Part(x, 0, p + k)
        /\ Len(Part(x, 0, p)) = p
    <3>1. \A i \in Nat : p + i <= Len(Payload(c)) =>
            /\ Len(Part(Payload(c), p, i)) = i
            /\ Part(Payload(c), 0, p) \o Part(Payload(c), p, i) = Part(Payload(c), 0, p + i)
            /\ Len(Part(Payload(c), 0, p)) = p
      <4> TAKE i \in Nat
      <4> HAVE p + i <= Len(Payload(c))
      <4> QED
        BY SMTT(30), PartOfPayload
    <3> QED
      BY <2>6, <3>1
  <2>3. d.tail = Part(x, p, k)
    OBVIOUS
  <2> HIDE DEF x
  <2>4. Shows(x, 0, x)
    BY <1>7 DEF Shows
  <2>5. Part(x, 0, Len(x)) = x
    BY <1>7, <2>4, ShowsPart
  <2> QED
    BY <2>1, <2>2, <2>3, <2>5, Zenon
<1>9. Reached(n, b, c, p, d.sn, d.fid)
  BY DEF b
<1>10. b.sn \in SeqNums /\ Modulus \in Nat /\ Modulus >= 2 /\ FragMax \in Nat
  BY <1>3, SeqNumAssumption, WireAssumption DEF Buffers, Modulus
<1> HIDE DEF x
<1>11. CASE ~Oversize(c)
  <2>1. p <= FragMax
    <3>1. p + k = Len(x)
      BY DEF x
    <3> QED
      BY <1>7, <1>10, <1>11, <3>1
  <2>2. b = [sn |-> d.sn, fragid |-> d.fid, data |-> Part(x, 0, p)]
    BY <1>9, <2>1 DEF Reached, x
  <2>3. b.sn = d.sn /\ b.fragid = d.fid /\ b.data = Part(x, 0, p)
    BY <2>2
  <2>4. Awaited(b, d)
    <3>1. p + k = Len(x)
      BY DEF x
    <3> QED
      BY <1>7, <1>8, <1>11, <2>3, <3>1 DEF Awaited
  <2>5. b.data \o d.tail = x
    BY <1>8, <2>3, Zenon
  <2> DEFINE l == Len(m)
             o == Append(m, a)
             y == WithBuffer(e, d.q.cc, f, l + 1)
  <2>6. l \in Nat /\ l <= l
    BY LenProperties
  <2>7. Tells(m, l, l, <<>>, a.cc)
    BY <2>6, TellsNone
  <2>8. Tells(o, l, l + 1, <<>> \o Payload(a.content), a.cc)
    BY <1>4, <2>7, TellsMore
  <2>9. <<>> \o Payload(a.content) = x
    BY <1>4, <1>7, ConcatEmptySeq DEF x
  <2>10. /\ y \in Marks /\ y.defrag = [e.defrag EXCEPT ![d.q.cc] = f] /\ y.k = l + 1
    <3>1. l + 1 \in Nat
      BY <2>6
    <3> HIDE DEF l
    <3> QED
      BY <1>1, <1>5, <3>1, WithBufferIs
  <2>11. Len(o) = l + 1
    BY <1>4, AppendProperties
  <2>12. Tells(o, e.k, y.k, b.data \o d.tail, d.q.cc)
    BY <1>4, <2>5, <2>8, <2>9, <2>10
  <2> HIDE DEF y, o, l
  <2>13. Brings(o, e, d, y)
    BY <1>2, <2>4, <2>10, <2>12, Zenon DEF Brings, f
  <2> QED
    BY <1>4, <1>11, <2>10, <2>11, <2>13 DEF o, a
<1>12. CASE Oversize(c)
  <2>1. ~Awaited(b, d)
    <3>1. CASE p <= FragMax
      <4>1. b = [sn |-> d.sn, fragid |-> d.fid, data |-> Part(x, 0, p)]
        BY <1>9, <3>1 DEF Reached, x
      <4>2. b.data = Part(x, 0, p)
        BY <4>1
      <4>3. p + k = Len(x)
        BY DEF x
      <4> QED
        BY <1>7, <1>8, <1>12, <4>2, <4>3 DEF Awaited
    <3>2. CASE ~(p <= FragMax)
      <4>1. PICK j \in 1..(Modulus - 1) : d.sn = (b.sn + j) % Modulus
        BY <1>9, <3>2 DEF Reached
      <4>2. (b.sn + j) % Modulus # b.sn
        BY <1>10, OnePlaceMore
      <4> QED
        BY <4>1, <4>2 DEF Awaited
    <3> QED
      BY <3>1, <3>2
  <2> DEFINE y == WithBuffer(e, d.q.cc, f, e.k)
  <2>2. /\ y \in Marks /\ y.defrag = [e.defrag EXCEPT ![d.q.cc] = f] /\ y.k = e.k
    BY SMTT(60), <1>1, <1>3, <1>5, WithBufferIs
  <2> HIDE DEF y
  <2>3. Brings(m, e, d, y)
    BY <1>2, <2>1, <2>2, Zenon DEF Brings, f
  <2> QED
    BY <1>4, <1>12, <2>2, <2>3 DEF a
<1> QED
  BY <1>11, <1>12

----------------------------------------------------------------------------
(* The sender, and what it puts behind the batches on the wire *)

\* The frame b that is being filled brings the messages of m behind those of e.
Fills(m, n, b, e) ==
    \E d \in Sendable(n) :
        /\ b.buf.cap = n /\ b.buf.data = BytesOf(d) /\ b.fragment = NoBytes
        /\ d.body = "frame" /\ d.q.cc = b.cc
        /\ Tells(m, e.k, Len(m), d.tail, d.q.cc)
Owes(m, n, e, bk) == IF bk = <<>> THEN e.k = Len(m) ELSE Fills(m, n, bk[1], e)

\* A push whose first fragments are on the wire.
UnderWay(n, e, ec) ==
    ec.pc = "more" =>
        LET c == Content(ec.msg) IN
        /\ ec.r.chunks = ec.msg.items
        /\ Reached(n, e.defrag[ec.qos.cc], c, VleLen(Len(c)) + Offset(ec.r), ec.sn, ec.fragid)

\* Behind the wire w comes what is booked, bk, and what the push ec has left.
Sending(m, n, z, w, bk, ec) ==
    \E e \in Marks : Leads(m, n, w, z, e) /\ Owes(m, n, e, bk) /\ UnderWay(n, e, ec)

\* A batch is committed.
LEMMA CommitsLead ==
    ASSUME SenderTyped, batchSize <= LenMax, NEW b \in Batches, NEW d \in Sendable(batchSize),
           b.buf.data \o Content(b.fragment) = BytesOf(d),
           NEW m, NEW z, NEW e, Leads(m, batchSize, wire, z, e),
           NEW y \in Marks, Brings(m, e, d, y), Commit(b)
    PROVE  Leads(m, batchSize, wire', z, y) /\ booked' = <<>>
<1>1. batchSize \in Nat
  BY DEF SenderTyped
<1>2. OnWire(b) = Announced(d)
  BY <1>1, OnWireAnnounced
<1>3. wire' = wire \o Announced(d) /\ booked' = <<>>
  BY <1>2 DEF Commit
<1> QED
  BY <1>3, LeadsMore

\* The frame that is being filled is committed, and nothing is owed any more.
LEMMA CommitsFilled ==
    ASSUME SenderTyped, batchSize <= LenMax, NEW b \in Batches,
           NEW m, NEW z, NEW e \in Marks, Leads(m, batchSize, wire, z, e),
           Fills(m, batchSize, b, e), Len(m) \in Nat, Commit(b)
    PROVE  /\ booked' = <<>>
           /\ \E y \in Marks : /\ Leads(m, batchSize, wire', z, y)
                               /\ Owes(m, batchSize, y, <<>>) /\ y.defrag = e.defrag
<1>1. PICK d \in Sendable(batchSize) :
        /\ b.buf.data = BytesOf(d) /\ b.fragment = NoBytes /\ d.body = "frame"
        /\ Tells(m, e.k, Len(m), d.tail, d.q.cc)
  BY DEF Fills
<1>2. b.buf.data \o Content(b.fragment) = BytesOf(d)
  <2>1. Content(b.fragment) = <<>> /\ b.buf.data \in Seq(Nat)
    BY <1>1, NoBytesIs DEF Batches, Bufs
  <2>2. b.buf.data \o <<>> = b.buf.data
    BY <2>1, ConcatEmptySeq
  <2> QED
    BY <1>1, <2>1, <2>2
<1> DEFINE y == [defrag |-> e.defrag, k |-> Len(m)]
<1>3. y \in Marks /\ y.k = Len(m) /\ y.defrag = e.defrag
  BY DEF Marks
<1> HIDE DEF y
<1>4. Brings(m, e, d, y)
  BY <1>1, <1>3, Zenon DEF Brings
<1>5. Leads(m, batchSize, wire', z, y) /\ booked' = <<>>
  BY <1>1, <1>2, <1>3, <1>4, CommitsLead
<1>6. Owes(m, batchSize, y, <<>>)
  BY <1>3 DEF Owes
<1> QED
  BY <1>3, <1>5, <1>6

\* A batch is sent or left for more messages.
LEMMA DoneSends ==
    ASSUME SenderTyped, batchSize <= LenMax, NEW b \in Batches, NEW flush, Done(b, flush),
           NEW m, NEW z, NEW e \in Marks, Leads(m, batchSize, wire, z, e),
           Fills(m, batchSize, b, e), Len(m) \in Nat
    PROVE  Sending(m, batchSize, z, wire', booked', enc')
<1>1. enc' = Idle
  BY DEF Done
<1>2. \A y : UnderWay(batchSize, y, enc')
  BY <1>1 DEF UnderWay, Idle
<1>3. CASE enc.qos.express \/ flush
  <2>1. Commit(b)
    BY <1>3 DEF Done
  <2>2. booked' = <<>> /\ \E y \in Marks : Leads(m, batchSize, wire', z, y) /\ Owes(m, batchSize, y, <<>>)
    BY <2>1, CommitsFilled
  <2> QED
    BY <1>2, <2>2 DEF Sending
<1>4. CASE ~(enc.qos.express \/ flush)
  <2>1. booked' = <<b>> /\ wire' = wire
    BY <1>4 DEF Done
  <2>2. booked' # <<>> /\ booked'[1] = b
    BY <2>1
  <2>3. Owes(m, batchSize, e, booked') /\ Leads(m, batchSize, wire', z, e)
    BY <2>1, <2>2 DEF Owes
  <2> QED
    BY <1>2, <2>3 DEF Sending
<1> QED
  BY <1>3, <1>4

\* A batch that holds something has a length.
LEMMA FillsLen ==
    ASSUME NEW b \in Batches, NEW n, n \in Nat, n <= LenMax, NEW m, NEW e, Fills(m, n, b, e)
    PROVE  BatchLen(b) # 0
<1>1. PICK d \in Sendable(n) : b.buf.data = BytesOf(d) /\ b.fragment = NoBytes
  BY DEF Fills
<1>2. Len(BytesOf(d)) \in Nat /\ Len(BytesOf(d)) > 0 /\ Len(BytesOf(d)) <= n
  BY BytesOfIs
<1>3. Len(b.buf.data) <= LenMax /\ Len(b.buf.data) # 0
  <2> DEFINE l == Len(BytesOf(d))
  <2>1. l = Len(b.buf.data) /\ l \in Nat /\ l > 0 /\ l <= n
    BY <1>1, <1>2
  <2> HIDE DEF l
  <2>2. l <= LenMax /\ l # 0
    BY <2>1, WireAssumption
  <2> QED
    BY <2>1, <2>2
<1> QED
  BY <1>1, <1>3, LenWithoutFragment

\* Another message in the frame.
LEMMA FillsMore ==
    ASSUME NEW m \in Seq(Mails), NEW a \in Mails, NEW b \in Batches, b.cc = a.cc,
           NEW n, NEW e, Fills(m, n, b, e),
           NEW pieces \in Seq(Seq(Nat)), FlattenSeq(pieces) = Payload(a.content),
           NEW w, WritesIf(b.buf, pieces, w), w.ok
    PROVE  Fills(Append(m, a), n, [b EXCEPT !.buf = w.buf], e) /\ [b EXCEPT !.buf = w.buf] \in Batches
<1> DEFINE c == FlattenSeq(pieces)
           s == [b EXCEPT !.buf = w.buf]
<1>1. PICK d \in Sendable(n) :
        /\ b.buf.cap = n /\ b.buf.data = BytesOf(d) /\ b.fragment = NoBytes
        /\ d.body = "frame" /\ d.q.cc = b.cc /\ Tells(m, e.k, Len(m), d.tail, d.q.cc)
  BY DEF Fills
<1>12. c = Payload(a.content)
  OBVIOUS
<1>2. c \in Seq(Nat) /\ w.buf \in Bufs /\ w.buf.cap = n /\ w.buf.data = BytesOf(d) \o c
  BY <1>1 DEF WritesIf
<1> HIDE DEF c
<1>3. s \in Batches /\ s.buf = w.buf /\ s.fragment = NoBytes /\ s.cc = b.cc
  <2> DEFINE x == w.buf
  <2>1. x \in Bufs
    BY <1>2
  <2> HIDE DEF x
  <2>2. /\ [b EXCEPT !.buf = x] \in Batches
        /\ [b EXCEPT !.buf = x] = [buf |-> x, fragment |-> b.fragment, cc |-> b.cc]
    BY <2>1, SetBuf
  <2>3. s = [b EXCEPT !.buf = x]
    BY DEF x
  <2> HIDE DEF s
  <2>4. s \in Batches /\ s.buf = x /\ s.fragment = b.fragment /\ s.cc = b.cc
    BY <2>2, <2>3
  <2> QED
    BY <1>1, <2>4 DEF x
<1> HIDE DEF s
<1> DEFINE t == d.tail \o c
           f == [q |-> d.q, sn |-> d.sn, body |-> d.body, fid |-> d.fid, tail |-> t]
<1>4. /\ HeadOf(d) \in Seq(Nat) /\ d.tail \in Seq(Nat)
  BY BytesOfIs
<1>5. t \in Seq(Nat)
  BY <1>2, <1>4, ConcatProperties
<1>6. HeadOf(f) = HeadOf(d)
  BY DEF HeadOf
<1>7. BytesOf(f) = w.buf.data
  <2>1. Assoc(HeadOf(d), d.tail, c)
    BY <1>2, <1>4, Associative
  <2>2. (HeadOf(d) \o d.tail) \o c = HeadOf(d) \o t
    BY <2>1 DEF Assoc
  <2>3. BytesOf(f) = HeadOf(f) \o t
    BY DEF BytesOf
  <2>4. BytesOf(d) = HeadOf(d) \o d.tail
    BY DEF BytesOf
  <2> HIDE DEF f, t
  <2> QED
    BY <1>2, <1>6, <2>2, <2>3, <2>4, Zenon
<1>8. Len(w.buf.data) <= n
  BY <1>2 DEF Bufs
<1>9. f \in Sendable(n)
  <2>1. d.q \in Qualities /\ d.sn \in SeqNums /\ d.body \in Bodies /\ d.fid \in SeqNums
    BY DEF Sendable
  <2>2. f \in [q : Qualities, sn : SeqNums, body : Bodies, fid : SeqNums, tail : Seq(Nat)]
    BY <1>5, <2>1
  <2>3. f.body = "frame"
    BY <1>1
  <2>4. Len(BytesOf(f)) <= n
    BY <1>7, <1>8
  <2> HIDE DEF f
  <2> QED
    BY <2>2, <2>3, <2>4 DEF Sendable
<1>10. f.body = "frame" /\ f.q = d.q /\ f.tail = d.tail \o c
  BY <1>1
<1> HIDE DEF f
<1>11. Tells(Append(m, a), e.k, Len(m) + 1, d.tail \o Payload(a.content), a.cc)
  BY <1>1, TellsMore
<1>13. Len(Append(m, a)) = Len(m) + 1
  BY AppendProperties
<1>14. Tells(Append(m, a), e.k, Len(Append(m, a)), f.tail, f.q.cc)
  BY <1>1, <1>10, <1>11, <1>12, <1>13
<1>15. Fills(Append(m, a), n, s, e)
  BY <1>1, <1>2, <1>3, <1>7, <1>9, <1>10, <1>14 DEF Fills
<1> QED
  BY <1>3, <1>15 DEF s

\* A message is written as its payload.
LEMMA MessagePayload ==
    ASSUME NEW v \in Vecs
    PROVE  /\ FlattenSeq(BytesPieces(v)) = Payload(Content(v))
           /\ Content(v) \in Seq(Nat) /\ LenOf(v) = Len(Content(v))
<1> DEFINE c == VleBytes(LenOf(v))
           u == <<c>>
           s == v.items
           y == FlattenSeq(s)
<1>1. s \in Seq(Seq(Nat)) /\ y \in Seq(Nat) /\ LenOf(v) = Len(y) /\ LenOf(v) \in Nat /\ y = Content(v)
  BY ReaderIs, ChunkSeqs DEF Content, LenOf
<1>2. c \in Seq(Nat) /\ c = VleBytes(Len(y))
  BY <1>1, VleBytesAre
<1>3. BytesPieces(v) = u \o s
  BY DEF BytesPieces
<1> HIDE DEF c, s
<1>4. u \in Seq(Seq(Nat)) /\ FlattenSeq(u) = c
  <2>1. <<>> \in Seq(Seq(Nat))
    OBVIOUS
  <2>2. c \in Seq(Nat)
    BY <1>2
  <2>3. FlattenSeq(<<c>>) = c
    BY <2>1, <2>2, FlattenAppend
  <2>4. <<c>> \in Seq(Seq(Nat))
    BY <2>2
  <2> QED
    BY <2>3, <2>4
<1> HIDE DEF u
<1>5. FlattenSeq(u \o s) = FlattenSeq(u) \o FlattenSeq(s)
  BY <1>1, <1>4, FlattenConcat
<1> HIDE DEF y
<1>6. FlattenSeq(BytesPieces(v)) = c \o y
  <2>1. FlattenSeq(s) = y
    BY DEF y
  <2> QED
    BY <1>3, <1>4, <1>5, <2>1
<1>7. Payload(y) = c \o y
  BY <1>2, Zenon DEF Payload
<1> QED
  BY <1>1, <1>6, <1>7

\* The lengths of messages have a representation, and a message that is too long for the
\* receiver's buffer is not sent in as many fragments as there are sequence numbers.
LengthsFit == \A plan \in Plans : LenOf(Composed(plan, 0)) <= MaxVle
Numbered ==
    \A plan \in Plans, n \in BatchSizes :
        LET l == LenOf(Composed(plan, 0)) IN
        VleLen(l) + l <= FragMax \/ VleLen(l) + l <= Net(n) * (Modulus - 1)

\* What a push under way holds is a message, written as its payload.
LEMMA MessageFits ==
    ASSUME SenderTyped, Planned, enc.pc # "idle", LengthsFit, Numbered, batchSize \in BatchSizes
    PROVE  /\ Content(enc.msg) \in Bodied /\ Content(enc.msg) \in Seq(Nat)
           /\ Countable(batchSize, Payload(Content(enc.msg)))
           /\ FlattenSeq(BytesPieces(enc.msg)) = Payload(Content(enc.msg))
           /\ LenOf(enc.msg) = Len(Content(enc.msg))
<1> DEFINE c == Content(enc.msg)
<1>1. enc.msg \in Vecs
  BY EncIs
<1>2. c \in Seq(Nat) /\ LenOf(enc.msg) = Len(c) /\ FlattenSeq(BytesPieces(enc.msg)) = Payload(c)
  <2> DEFINE v == enc.msg
  <2>1. v \in Vecs
    BY <1>1
  <2> HIDE DEF v
  <2>2. Content(v) \in Seq(Nat) /\ LenOf(v) = Len(Content(v)) /\ FlattenSeq(BytesPieces(v)) = Payload(Content(v))
    BY <2>1, MessagePayload
  <2> QED
    BY <2>2 DEF v
<1>3. PICK plan \in Plans : LenOf(enc.msg) = LenOf(Composed(plan, 0))
  BY DEF Planned
<1> DEFINE l == LenOf(Composed(plan, 0))
<1>4. l = Len(c)
  BY <1>2, <1>3
<1>5. l <= MaxVle /\ (VleLen(l) + l <= FragMax \/ VleLen(l) + l <= Net(batchSize) * (Modulus - 1))
  BY DEF LengthsFit, Numbered
<1> HIDE DEF l, c
<1>6. Len(Payload(c)) = VleLen(l) + l
  BY <1>2, <1>4, PayloadIs
<1>7. c \in Bodied /\ Countable(batchSize, Payload(c))
  BY <1>2, <1>4, <1>5, <1>6 DEF Bodied, Countable
<1> QED
  BY <1>2, <1>7 DEF c

----------------------------------------------------------------------------
(* The steps of the sender *)

\* The sender goes on: it accepts a message or none, and what it does comes behind the wire.
Proceeds(z) ==
    /\ sent' \in Seq(Sents)
    /\ \/ Arrivals(sent') = Arrivals(sent)
       \/ \E a \in Mails : Arrivals(sent') = Append(Arrivals(sent), a)
    /\ Sending(Arrivals(sent'), batchSize', z, wire', booked', enc')

\* What Accepted does to the messages that are to arrive.
LEMMA AcceptedIs ==
    ASSUME sent \in Seq(Sents), Content(enc.msg) \in Bodied, enc.qos.cc \in Ccs,
           NEW f \in BOOLEAN, Accepted(f)
    PROVE  LET c == Content(enc.msg)
               a == [content |-> c, cc |-> enc.qos.cc] IN
           /\ sent' \in Seq(Sents) /\ a \in Mails /\ a.content = c /\ a.cc = enc.qos.cc
           /\ Arrivals(sent') = IF f /\ Oversize(c) THEN Arrivals(sent) ELSE Append(Arrivals(sent), a)
           /\ Arrivals(sent) \in Seq(Mails)
<1> DEFINE c == Content(enc.msg)
           a == [content |-> c, cc |-> enc.qos.cc]
           s == [content |-> c, cc |-> enc.qos.cc, fragmented |-> f]
<1>1. s \in Sents /\ s.content = c /\ s.cc = enc.qos.cc /\ s.fragmented = f
  BY DEF Sents
<1>2. sent' = Append(sent, s)
  BY DEF Accepted
<1>3. a = [content |-> s.content, cc |-> s.cc]
  BY <1>1
<1>4. a \in Mails /\ a.content = c /\ a.cc = enc.qos.cc
  BY DEF Mails
<1> HIDE DEF s, a
<1>5. /\ Append(sent, s) \in Seq(Sents)
      /\ Arrivals(Append(sent, s)) =
           IF s.fragmented /\ Oversize(s.content) THEN Arrivals(sent)
           ELSE Append(Arrivals(sent), [content |-> s.content, cc |-> s.cc])
  BY <1>1, ArrivesMore
<1>6. Arrivals(sent) \in Seq(Mails)
  BY ArrivalsAre
<1>7. Arrivals(sent') = IF f /\ Oversize(c) THEN Arrivals(sent) ELSE Append(Arrivals(sent), a)
  BY <1>1, <1>2, <1>3, <1>5
<1> QED
  BY <1>2, <1>4, <1>5, <1>6, <1>7 DEF a

\* What the sender knows of its message and of its booked batch.
Sender(z) ==
    /\ SenderTyped /\ Flow /\ ~spoiled /\ LengthsFit /\ Numbered /\ batchSize \in BatchSizes
    /\ sent \in Seq(Sents) /\ Sending(Arrivals(sent), batchSize, z, wire, booked, enc)

LEMMA SenderIs ==
    ASSUME NEW z, Sender(z)
    PROVE  /\ Arrivals(sent) \in Seq(Mails) /\ Len(Arrivals(sent)) \in Nat
           /\ batchSize \in Nat /\ batchSize <= LenMax /\ Planned
           /\ enc.pc \in {"fresh", "more"} => booked = <<>>
           /\ enc.pc = "more" => Remaining(enc.r) > 0
<1>1. Arrivals(sent) \in Seq(Mails)
  BY ArrivalsAre DEF Sender
<1>2. Len(Arrivals(sent)) \in Nat
  BY <1>1, LenProperties
<1> QED
  BY <1>1, <1>2 DEF Sender, Flow, Orderly, SenderTyped

\* A push begins.
LEMMA SendSends ==
    ASSUME NEW z, Sender(z), NEW plan, NEW qos, Send(plan, qos)
    PROVE  Proceeds(z)
<1>1. /\ enc' = [pc |-> "append", msg |-> Message(plan), qos |-> qos]
      /\ batchSize' = batchSize /\ booked' = booked /\ wire' = wire /\ sent' = sent
  BY DEF Send
<1>2. enc'.pc # "more"
  BY <1>1
<1>3. Arrivals(sent') = Arrivals(sent)
  BY <1>1
<1>4. Sending(Arrivals(sent), batchSize, z, wire, booked, enc')
  BY <1>2 DEF Sender, Sending, UnderWay
<1> QED
  BY <1>1, <1>3, <1>4 DEF Proceeds, Sender

\* The writer task takes what is booked.
LEMMA FlushSends ==
    ASSUME NEW z, Sender(z), Flush
    PROVE  Proceeds(z)
<1> DEFINE m == Arrivals(sent)
<1>1. /\ enc = Idle /\ booked # <<>> /\ Commit(booked[1])
      /\ batchSize' = batchSize /\ enc' = enc /\ sent' = sent
  BY DEF Flush
<1>2. booked[1] \in Batches
  BY <1>1 DEF Sender, SenderTyped, Booked
<1>3. PICK e \in Marks : Leads(m, batchSize, wire, z, e) /\ Owes(m, batchSize, e, booked)
  BY DEF Sender, Sending
<1>4. Fills(m, batchSize, booked[1], e)
  BY <1>1, <1>3 DEF Owes
<1> HIDE DEF m
<1>5. Len(m) \in Nat /\ SenderTyped /\ batchSize <= LenMax
  BY SenderIs DEF Sender, m
<1>6. booked' = <<>> /\ \E y \in Marks : Leads(m, batchSize, wire', z, y) /\ Owes(m, batchSize, y, <<>>)
  BY <1>1, <1>2, <1>3, <1>4, <1>5, CommitsFilled
<1>7. \A y : UnderWay(batchSize, y, enc')
  BY <1>1 DEF UnderWay, Idle
<1>8. Sending(m, batchSize', z, wire', booked', enc')
  BY <1>1, <1>6, <1>7 DEF Sending
<1> QED
  BY <1>1, <1>8 DEF Proceeds, Sender, m

\* A message is appended to the booked frame, or does not fit and the frame is sent.
LEMMA AppendSends ==
    ASSUME NEW z, Sender(z), NEW flush, Append1(flush)
    PROVE  Proceeds(z)
<1> DEFINE b == TheBatch(enc.qos.cc)
           pieces == BytesPieces(enc.msg)
           w == WriteAll(b.buf, pieces)
           same == b.cc = enc.qos.cc
           m == Arrivals(sent)
<1>0. SenderTyped /\ m \in Seq(Mails) /\ Len(m) \in Nat /\ batchSize \in Nat /\ batchSize <= LenMax
  BY SenderIs DEF Sender
<1>1. enc.msg \in Vecs /\ enc.qos.cc \in Ccs /\ enc \in Starting /\ enc.pc # "idle"
  BY <1>0, EncIs DEF Append1
<1>2. b \in Batches /\ b.buf \in Bufs
  BY <1>0, <1>1, TheBatchIs DEF Batches
<1>3. pieces \in Seq(Seq(Nat))
  BY <1>1, BytesPiecesAre
<1>4. w.ok \in BOOLEAN /\ Rewound(b, w.buf) = b /\ WritesIf(b.buf, pieces, w)
  BY <1>2, <1>3, WriteTyped, WritesIfFits
<1>5. /\ IF BatchLen(b) # 0
         THEN IF same /\ w.ok
              THEN Done([b EXCEPT !.buf = w.buf], flush) /\ Accepted(FALSE)
              ELSE /\ Commit(IF same THEN Rewound(b, w.buf) ELSE b)
                   /\ enc' = [enc EXCEPT !.pc = "fresh"]
                   /\ UNCHANGED sent
         ELSE /\ enc' = [enc EXCEPT !.pc = "fresh"]
              /\ UNCHANGED <<booked, wire, sent>>
      /\ batchSize' = batchSize
  BY DEF Append1
<1>7. booked = <<>> => BatchLen(b) = 0
  BY <1>0, <1>1, NewLen DEF TheBatch
<1>8. booked # <<>> => b = booked[1]
  BY DEF TheBatch
<1>9. [enc EXCEPT !.pc = "fresh"].pc # "more"
  BY <1>1 DEF Starting
<1>10. PICK e \in Marks : Leads(m, batchSize, wire, z, e) /\ Owes(m, batchSize, e, booked)
  BY DEF Sender, Sending
<1>11. /\ Content(enc.msg) \in Bodied
       /\ FlattenSeq(pieces) = Payload(Content(enc.msg))
  BY <1>0, <1>1, MessageFits, SenderIs DEF Sender
<1> HIDE DEF b, pieces, w, m
<1>12. CASE BatchLen(b) # 0
  <2>1. Fills(m, batchSize, b, e)
    BY <1>7, <1>8, <1>10, <1>12 DEF Owes
  <2>2. CASE same /\ w.ok
    <3> DEFINE s == [b EXCEPT !.buf = w.buf]
               a == [content |-> Content(enc.msg), cc |-> enc.qos.cc]
               o == Append(m, a)
    <3>1. Done(s, flush) /\ Accepted(FALSE)
      BY <1>5, <1>12, <2>2
    <3>2. /\ sent' \in Seq(Sents) /\ a \in Mails /\ a.content = Content(enc.msg) /\ a.cc = enc.qos.cc
          /\ Arrivals(sent') = o
      BY <1>1, <1>11, <3>1, AcceptedIs DEF Sender, m
    <3> HIDE DEF a
    <3>3. Fills(o, batchSize, s, e) /\ s \in Batches
      BY <1>0, <1>2, <1>3, <1>4, <1>11, <2>1, <2>2, <3>2, FillsMore
    <3>4. Leads(o, batchSize, wire, z, e)
      BY <1>0, <1>10, <3>2, LeadsOn
    <3>5. Len(o) \in Nat
      BY <1>0, <3>2, AppendProperties
    <3> HIDE DEF s, o
    <3>6. Sending(o, batchSize, z, wire', booked', enc')
      BY <1>0, <3>1, <3>3, <3>4, <3>5, DoneSends
    <3>7. Arrivals(sent') = Append(Arrivals(sent), a)
      BY <3>2 DEF o, m
    <3> QED
      BY <1>5, <3>2, <3>6, <3>7 DEF Proceeds
  <2>3. CASE ~(same /\ w.ok)
    <3>1. Commit(b) /\ enc' = [enc EXCEPT !.pc = "fresh"] /\ sent' = sent
      BY <1>4, <1>5, <1>12, <2>3
    <3>2. booked' = <<>> /\ \E y \in Marks : Leads(m, batchSize, wire', z, y) /\ Owes(m, batchSize, y, <<>>)
      BY <1>0, <1>2, <1>10, <2>1, <3>1, CommitsFilled
    <3>3. \A y : UnderWay(batchSize, y, enc')
      BY <1>9, <3>1 DEF UnderWay
    <3>4. Sending(m, batchSize, z, wire', booked', enc')
      BY <3>2, <3>3 DEF Sending
    <3> QED
      BY <1>5, <3>1, <3>4 DEF Proceeds, Sender, m
  <2> QED
    BY <2>2, <2>3
<1>13. CASE ~(BatchLen(b) # 0)
  <2>1. enc' = [enc EXCEPT !.pc = "fresh"] /\ booked' = booked /\ wire' = wire /\ sent' = sent
    BY <1>5, <1>13
  <2>2. \A y : UnderWay(batchSize, y, enc')
    BY <1>9, <2>1 DEF UnderWay
  <2>3. Sending(m, batchSize, z, wire', booked', enc')
    BY <1>10, <2>1, <2>2 DEF Sending
  <2> QED
    BY <1>5, <2>1, <2>3 DEF Proceeds, Sender, m
<1> QED
  BY <1>12, <1>13

\* A frame of its own.
LEMMA FrameSends ==
    ASSUME NEW z, Sender(z), NEW flush, WriteFrame(flush)
    PROVE  Proceeds(z)
<1> DEFINE b == TheBatch(enc.qos.cc)
           sn == Next_Sn(sns[enc.qos.cc])
           w == Frame(b, sn)
           s == [b EXCEPT !.buf = w.buf]
           tail == FlattenSeq(BytesPieces(enc.msg))
           d == Made(enc.qos, sn, "frame", 0, tail)
           c == Content(enc.msg)
           a == [content |-> c, cc |-> enc.qos.cc]
           m == Arrivals(sent)
           o == Append(m, a)
<1>0. SenderTyped /\ m \in Seq(Mails) /\ Len(m) \in Nat /\ batchSize \in Nat /\ batchSize <= LenMax
  BY SenderIs DEF Sender
<1>1. enc.msg \in Vecs /\ enc.qos \in Qos /\ enc.qos.cc \in Ccs /\ enc.pc = "fresh"
  BY <1>0, EncIs DEF WriteFrame
<1>2. sn \in SeqNums
  BY <1>0, <1>1, NextSn DEF SenderTyped
<1>3. w.ok /\ Done(s, flush) /\ Accepted(FALSE) /\ batchSize' = batchSize
  BY DEF WriteFrame
<1>4. booked = <<>>
  BY <1>1, SenderIs
<1>5. /\ b = NewBatch(enc.qos.cc) /\ b \in Batches /\ tail \in Seq(Nat)
      /\ d \in Sendable(batchSize) /\ w.buf \in Bufs /\ w.buf.cap = batchSize
      /\ w.buf.data = BytesOf(d)
  BY <1>0, <1>1, <1>2, <1>3, <1>4, FrameIs
<1>6. d.q = enc.qos /\ d.body = "frame" /\ d.tail = tail
  BY DEF Made
<1>7. c \in Bodied /\ c \in Seq(Nat) /\ tail = Payload(c)
  BY <1>0, <1>1, MessageFits, SenderIs DEF Sender
<1> HIDE DEF w, d, sn, tail, c, m
<1>8. b.fragment = NoBytes /\ b.cc = enc.qos.cc
  BY <1>0, <1>1, <1>5, NewLen
<1>9. s \in Batches /\ s.buf = w.buf /\ s.fragment = NoBytes /\ s.cc = enc.qos.cc
  <2> DEFINE x == w.buf
  <2>1. x \in Bufs
    BY <1>5
  <2> HIDE DEF x, b
  <2>2. /\ [b EXCEPT !.buf = x] \in Batches
        /\ [b EXCEPT !.buf = x] = [buf |-> x, fragment |-> b.fragment, cc |-> b.cc]
    BY <1>5, <2>1, SetBuf
  <2>3. s = [b EXCEPT !.buf = x]
    BY DEF x
  <2> HIDE DEF s
  <2> QED
    BY <1>8, <2>2, <2>3 DEF x
<1> HIDE DEF s, b
<1>10. /\ sent' \in Seq(Sents) /\ a \in Mails /\ a.content = c /\ a.cc = enc.qos.cc
       /\ Arrivals(sent') = o
  BY <1>1, <1>3, <1>7, AcceptedIs DEF Sender, m, c
<1> HIDE DEF a
<1>11. PICK e \in Marks : Leads(m, batchSize, wire, z, e) /\ Owes(m, batchSize, e, booked)
  BY DEF Sender, Sending, m
<1>12. e.k = Len(m)
  BY <1>4, <1>11 DEF Owes
<1>13. Tells(o, e.k, Len(o), d.tail, d.q.cc)
  <2> DEFINE l == Len(m)
  <2>1. l \in Nat /\ l <= l
    BY <1>0
  <2>2. Tells(m, l, l, <<>>, a.cc)
    BY <1>0, <2>1, TellsNone
  <2>3. Tells(o, l, l + 1, <<>> \o Payload(a.content), a.cc)
    BY <1>0, <1>10, <2>2, TellsMore
  <2>4. <<>> \o Payload(a.content) = d.tail
    BY <1>5, <1>6, <1>7, <1>10, ConcatEmptySeq
  <2>5. Len(o) = l + 1
    BY <1>0, <1>10, AppendProperties
  <2> QED
    BY <1>6, <1>10, <1>12, <2>3, <2>4, <2>5
<1>14. Fills(o, batchSize, s, e)
  BY <1>5, <1>6, <1>9, <1>13 DEF Fills
<1>15. Leads(o, batchSize, wire, z, e)
  BY <1>0, <1>10, <1>11, LeadsOn
<1>16. Len(o) \in Nat
  BY <1>0, <1>10, AppendProperties
<1> HIDE DEF o
<1>17. Sending(o, batchSize, z, wire', booked', enc')
  BY <1>0, <1>3, <1>9, <1>14, <1>15, <1>16, DoneSends
<1>18. Arrivals(sent') = Append(Arrivals(sent), a)
  BY <1>10 DEF o, m
<1> QED
  BY <1>3, <1>10, <1>17, <1>18 DEF Proceeds

\* Where a reader of the message is, a part of the payload begins behind its length.
LEMMA PayloadPart ==
    ASSUME NEW c \in Bodied, NEW o \in Nat, NEW k \in Nat, o + k <= Len(c)
    PROVE  /\ Part(c, o, k) = Part(Payload(c), VleLen(Len(c)) + o, k)
           /\ VleLen(Len(c)) + o + k <= Len(Payload(c))
           /\ VleBytes(Len(c)) = Part(Payload(c), 0, VleLen(Len(c)))
<1> DEFINE h == VleBytes(Len(c))
           l == VleLen(Len(c))
           x == Payload(c)
<1>1. c \in Seq(Nat)
  BY DEF Bodied
<1>2. /\ x \in Seq(Nat) /\ Len(x) = l + Len(c) /\ h \in Seq(Nat) /\ Len(h) = l
      /\ l \in Nat /\ Len(c) \in Nat
  BY <1>1, PayloadIs
<1>3. x = h \o c
  BY Zenon DEF Payload
<1> HIDE DEF h, l, x
<1>4. /\ \A i \in 1..l : x[i] = h[i]
      /\ \A i \in 1..Len(c) : x[l + i] = c[i]
  <2>1. /\ \A i \in 1..Len(h) : (h \o c)[i] = h[i]
        /\ \A i \in 1..Len(c) : (h \o c)[Len(h) + i] = c[i]
    <3> DEFINE u == h \o c
    <3>1. /\ \A i \in 1..(Len(h) + Len(c)) : u[i] = IF i <= Len(h) THEN h[i] ELSE c[i - Len(h)]
      BY <1>1, <1>2, ConcatProperties
    <3> HIDE DEF u
    <3>2. \A i \in 1..Len(h) : u[i] = h[i]
      BY SMTT(60), <1>2, <3>1
    <3>3. \A i \in 1..Len(c) : u[Len(h) + i] = c[i]
      <4> TAKE i \in 1..Len(c)
      <4> DEFINE j == Len(h) + i
      <4>1. j \in 1..(Len(h) + Len(c)) /\ ~(j <= Len(h)) /\ j - Len(h) = i
        BY <1>2
      <4> HIDE DEF j
      <4>2. u[j] = c[j - Len(h)]
        BY <3>1, <4>1
      <4> QED
        BY <4>1, <4>2 DEF j
    <3> QED
      BY <3>2, <3>3 DEF u
  <2> QED
    BY <1>2, <1>3, <2>1
<1>5. Shows(x, l, c)
  BY <1>2, <1>4 DEF Shows
<1>6. Shows(x, 0, h)
  <2>1. \A i \in 1..Len(h) : x[0 + i] = h[i]
    BY <1>2, <1>4
  <2>2. 0 + Len(h) <= Len(x)
    BY <1>2
  <2> QED
    BY <2>1, <2>2 DEF Shows
<1>7. h = Part(x, 0, l)
  BY <1>2, <1>6, ShowsPart
<1>8. Part(c, o, k) = Part(x, l + o, k) /\ (l + o) + k <= Len(x)
  <2> DEFINE g == l + o
  <2>1. g \in Nat /\ g = l + o
    BY <1>2
  <2> HIDE DEF g
  <2>2. Part(c, o, k) = Part(x, g, k) /\ g + k <= Len(x)
    BY <1>1, <1>2, <1>5, <2>1, Window
  <2> QED
    BY <2>2 DEF g
<1> QED
  BY <1>7, <1>8 DEF h, l, x

\* A reader of the message that took k bytes.
LEMMA TakenIs ==
    ASSUME NEW v \in Vecs, NEW r \in Readers, r.chunks = v.items, NEW data, NEW q, NEW k \in Nat,
           Gives(r, Ok(data, q), k)
    PROVE  /\ q \in Readers /\ q.chunks = v.items /\ Offset(q) = Offset(r) + k
           /\ Offset(r) \in Nat /\ Len(Content(v)) \in Nat
           /\ data = Part(Content(v), Offset(r), k)
           /\ Remaining(r) = Len(Content(v)) - Offset(r)
           /\ Remaining(q) = Len(Content(v)) - (Offset(r) + k)
<1>1. /\ q \in Readers /\ q.chunks = v.items /\ Offset(q) = Offset(r) + k
      /\ data = Ahead(r, k)
  BY DEF Gives, Ok
<1>2. DataOf(r) = Content(v) /\ DataOf(q) = Content(v)
  BY <1>1 DEF DataOf, Content
<1>3. /\ Remaining(r) = Len(DataOf(r)) - Offset(r) /\ Offset(r) \in Nat /\ Len(DataOf(r)) \in Nat
  BY OffsetIn
<1>4. Remaining(q) = Len(DataOf(q)) - Offset(q)
  BY <1>1, OffsetIn
<1> QED
  BY <1>1, <1>2, <1>3, <1>4 DEF Ahead

\* The first fragment is sent, unless the push fails.
LEMMA FirstSends ==
    ASSUME NEW z, Sender(z), WriteFirst, ~spoiled'
    PROVE  Proceeds(z)
<1> DEFINE b == TheBatch(enc.qos.cc)
           sn == Next_Sn(sns[enc.qos.cc])
           fid == Next_Sn(sns.fragid)
           g == Rewound(b, Frame(b, sn).buf)
           lv == VleBytes(LenOf(enc.msg))
           W(x) == WriteAll(x.buf, HeaderPieces(QosOfEnc, sn, "first", fid) \o <<lv>>)
           Views(x) == ReadChunks(Reader(enc.msg), Room(W(x).buf))
           F(x) == Filled(x, W(x).buf, Views(x).data)
           d == Made(enc.qos, sn, "first", fid, lv \o Content(Views(b).data))
           c == Content(enc.msg)
           m == Arrivals(sent)
<1>0. SenderTyped /\ m \in Seq(Mails) /\ Len(m) \in Nat /\ batchSize \in Nat /\ batchSize <= LenMax
  BY SenderIs DEF Sender
<1>1. /\ enc.msg \in Vecs /\ enc.qos \in Qos /\ enc.qos.cc \in Ccs /\ QosOfEnc \in Nat
      /\ enc.pc = "fresh" /\ enc.pc # "idle"
  BY <1>0, EncIs DEF WriteFirst
<1>2. b \in Batches
  BY <1>0, <1>1, TheBatchIs
<1>3. sn \in SeqNums /\ sn \in Nat /\ fid \in SeqNums
  BY <1>0, <1>1, NextSn DEF SenderTyped
<1>4. g = b
  <2>1. HeaderPieces(QosOfEnc, sn, "frame", 0) \in Seq(Seq(Nat))
    BY <1>1, <1>3, HeaderPiecesAre DEF Bodies
  <2>2. HeaderPieces(QosOfEnc, sn, "frame", 0) \o BytesPieces(enc.msg) \in Seq(Seq(Nat))
    BY <1>1, <2>1, BytesPiecesAre, JoinedPieces
  <2> QED
    BY <1>2, <2>2, WriteTyped DEF Frame
<1>5. /\ ~Frame(b, sn).ok
      /\ IF W(g).ok /\ Views(g).ok
         THEN Commit(F(g)) /\ UseSn(sn, fid) /\ Continue(Views(g).r, sn, fid)
         ELSE EncodingFailed([g EXCEPT !.buf = W(g).buf])
      /\ batchSize' = batchSize
  BY DEF WriteFirst
<1> HIDE DEF g
<1>6. IF W(b).ok /\ Views(b).ok
      THEN Commit(F(b)) /\ UseSn(sn, fid) /\ Continue(Views(b).r, sn, fid)
      ELSE EncodingFailed([b EXCEPT !.buf = W(b).buf])
  BY <1>4, <1>5
<1>7. booked = <<>>
  BY <1>1, SenderIs
<1>8. W(b).ok => /\ Views(b).ok /\ d \in Sendable(batchSize)
                 /\ F(b) \in Batches
                 /\ F(b).buf.data \o Content(F(b).fragment) = BytesOf(d)
                 /\ Room(W(b).buf) \in Nat /\ Room(W(b).buf) < LenOf(enc.msg)
                 /\ Gives(Reader(enc.msg), Ok(Content(Views(b).data), Views(b).r), Room(W(b).buf))
  BY <1>0, <1>1, <1>3, <1>5, <1>7, FirstFragmentIs
<1> DEFINE w == W(b)
           views == Views(b)
           f == F(b)
           k == Room(w.buf)
           cv == Content(views.data)
<1>9. d.q = enc.qos /\ d.sn = sn /\ d.body = "first" /\ d.fid = fid /\ d.tail = lv \o cv
  BY DEF Made
<1> HIDE DEF d
<1>10. IF w.ok /\ views.ok
       THEN Commit(f) /\ UseSn(sn, fid) /\ Continue(views.r, sn, fid)
       ELSE EncodingFailed([b EXCEPT !.buf = w.buf])
  BY <1>6
<1>11. w.ok => /\ views.ok /\ d \in Sendable(batchSize)
               /\ f \in Batches /\ f.buf.data \o Content(f.fragment) = BytesOf(d)
               /\ k \in Nat /\ k < LenOf(enc.msg)
               /\ Gives(Reader(enc.msg), Ok(cv, views.r), k)
  BY <1>8
<1> HIDE DEF w, views, f, b, sn, fid, k, cv, c, m
<1>12. w.ok /\ views.ok
  BY <1>10 DEF EncodingFailed
<1>13. Commit(f) /\ Continue(views.r, sn, fid)
  BY <1>10, <1>12
<1>14. c \in Bodied /\ c \in Seq(Nat) /\ LenOf(enc.msg) = Len(c)
  BY <1>0, <1>1, MessageFits, SenderIs DEF Sender, c
<1>15. /\ views.r.chunks = enc.msg.items /\ Offset(views.r) = k
       /\ cv = Part(c, 0, k) /\ Remaining(views.r) = Len(c) - k /\ Len(c) \in Nat
  <2> DEFINE v == enc.msg
             r == Reader(v)
             q == views.r
  <2>1. r \in Readers /\ r.chunks = v.items /\ Offset(r) = 0 /\ v \in Vecs
    BY <1>1, ReaderIs
  <2>2. Gives(r, Ok(cv, q), k) /\ k \in Nat
    BY <1>11, <1>12
  <2>3. c = Content(v)
    BY DEF c
  <2> HIDE DEF v, r, q
  <2>4. /\ q.chunks = v.items /\ Offset(q) = Offset(r) + k
        /\ cv = Part(Content(v), Offset(r), k) /\ Len(Content(v)) \in Nat
        /\ Remaining(q) = Len(Content(v)) - (Offset(r) + k)
    BY <2>1, <2>2, TakenIs
  <2>5. Offset(r) + k = k
    BY <2>1, <2>2
  <2> QED
    BY <2>1, <2>3, <2>4, <2>5 DEF q, v
<1>16. Remaining(views.r) > 0
  BY <1>11, <1>12, <1>14, <1>15
<1>17. /\ enc' = [pc |-> "more", msg |-> enc.msg, qos |-> enc.qos,
                  r |-> views.r, sn |-> Next_Sn(sn), fragid |-> fid]
       /\ sent' = sent
  BY <1>13, <1>16 DEF Continue
<1> DEFINE l == VleLen(Len(c))
           p == l + k
<1>18. /\ l \in Nat /\ l > 0 /\ p \in Nat /\ p > 0
       /\ p <= Len(Payload(c)) /\ d.tail = Part(Payload(c), 0, p)
  <2>1. l \in Nat /\ l > 0
    BY <1>14, PayloadIs
  <2>2. 0 + k <= Len(c) /\ k \in Nat /\ 0 \in Nat
    BY <1>11, <1>12, <1>14, <1>15
  <2> HIDE DEF l
  <2>3. p \in Nat /\ p > 0 /\ (l + 0) + k = p /\ l + 0 = l
    BY <2>1, <2>2
  <2>4. /\ Part(c, 0, k) = Part(Payload(c), l + 0, k) /\ (l + 0) + k <= Len(Payload(c))
        /\ VleBytes(Len(c)) = Part(Payload(c), 0, l)
    BY <1>14, <2>2, PayloadPart DEF l
  <2>5. Part(c, 0, k) = Part(Payload(c), l, k) /\ l + k <= Len(Payload(c))
    BY <2>3, <2>4
  <2>6. Part(Payload(c), 0, l) \o Part(Payload(c), l, k) = Part(Payload(c), 0, l + k)
    BY <1>14, <2>1, <2>2, <2>5, PartOfPayload
  <2>7. lv = VleBytes(Len(c))
    BY <1>14
  <2> HIDE DEF lv
  <2>8. d.tail = Part(Payload(c), 0, l + k)
    BY <1>9, <1>15, <2>4, <2>5, <2>6, <2>7, Zenon
  <2> QED
    BY <2>1, <2>3, <2>5, <2>8
<1> HIDE DEF p
<1>19. PICK e \in Marks : Leads(m, batchSize, wire, z, e) /\ Owes(m, batchSize, e, booked)
  BY DEF Sender, Sending, m
<1>20. e.k = Len(m)
  BY <1>7, <1>19 DEF Owes
<1>21. PICK y \in Marks : /\ Brings(m, e, d, y) /\ y.k = e.k
                          /\ Reached(batchSize, y.defrag[d.q.cc], c, p, Next_Sn(d.sn), d.fid)
  <2>1. d \in Sendable(batchSize)
    BY <1>11, <1>12
  <2> QED
    BY <1>0, <1>9, <1>14, <1>18, <2>1, FirstBrought
<1>22. Leads(m, batchSize, wire', z, y) /\ booked' = <<>>
  BY <1>0, <1>11, <1>12, <1>13, <1>19, <1>21, CommitsLead
<1>23. Owes(m, batchSize, y, booked')
  BY <1>20, <1>21, <1>22 DEF Owes
<1>24. UnderWay(batchSize, y, enc')
  <2>1. /\ enc'.msg = enc.msg /\ enc'.qos = enc.qos /\ enc'.r = views.r /\ enc'.sn = Next_Sn(sn)
        /\ enc'.fragid = fid
    BY <1>17
  <2>2. Content(enc'.msg) = c /\ VleLen(Len(c)) + Offset(enc'.r) = p
    BY <1>15, <2>1 DEF c, p
  <2>3. Reached(batchSize, y.defrag[enc'.qos.cc], c, p, enc'.sn, enc'.fragid)
    BY <1>9, <1>21, <2>1
  <2> QED
    BY <1>15, <2>1, <2>2, <2>3 DEF UnderWay
<1>25. Sending(m, batchSize, z, wire', booked', enc')
  BY <1>22, <1>23, <1>24 DEF Sending
<1> QED
  BY <1>5, <1>17, <1>25 DEF Proceeds, Sender, m

\* Behind the longest header is room for as much as Net says.
LEMMA RoomIsNet ==
    ASSUME NEW n \in Nat, n < 65536, HeaderLen(Modulus - 1, "more", Modulus - 1) < n,
           NEW sn \in SeqNums, NEW fid \in SeqNums,
           NEW room, room = (n - HeaderLen(sn, "more", fid)) % 65536
    PROVE  Net(n) <= room /\ room \in Nat /\ room > 0
<1> DEFINE h == HeaderLen(sn, "more", fid)
           l == HeaderLen(Modulus - 1, "more", Modulus - 1)
           x == n - h
<1>1. h \in Nat /\ l \in Nat /\ h <= l
  BY LongestIs DEF Bodies
<1> HIDE DEF h, l
<1>2. l < n
  BY DEF l
<1>3. x \in Nat /\ x < 65536 /\ n - l <= x /\ x > 0
  BY <1>1, <1>2
<1>4. room = x % 65536
  BY DEF h
<1> HIDE DEF x
<1>5. room = x
  BY <1>3, <1>4, RoomLeft
<1> QED
  BY <1>3, <1>5 DEF Net, l

\* So is a fragment that is not the first; with the last one the message is accepted.
LEMMA NextSends ==
    ASSUME NEW z, Sender(z), Ample, WriteNext, ~spoiled'
    PROVE  Proceeds(z)
<1> DEFINE b == TheBatch(enc.qos.cc)
           room == FragmentRoom(b)
           rest == Remaining(enc.r)
           kind == IF room >= rest THEN "last" ELSE "more"
           w == WriteAll(b.buf, HeaderPieces(QosOfEnc, enc.sn, kind, enc.fragid))
           k == Least(rest, room)
           views == ReadChunks(enc.r, k)
           cv == Content(views.data)
           d == Made(enc.qos, enc.sn, kind, enc.fragid, cv)
           f == Filled(b, w.buf, views.data)
           c == Content(enc.msg)
           m == Arrivals(sent)
<1>0. SenderTyped /\ m \in Seq(Mails) /\ Len(m) \in Nat /\ batchSize \in Nat /\ batchSize <= LenMax
  BY SenderIs DEF Sender
<1>1. /\ enc.msg \in Vecs /\ enc.qos \in Qos /\ enc.qos.cc \in Ccs /\ enc.r \in Readers
      /\ enc.sn \in SeqNums /\ enc.fragid \in SeqNums /\ enc.pc = "more" /\ enc.pc # "idle"
  BY <1>0, EncIs DEF WriteNext
<1>2. booked = <<>> /\ Remaining(enc.r) > 0
  BY <1>1, SenderIs
<1>3. /\ IF w.ok /\ views.ok
         THEN Commit(f) /\ UseSn(enc.sn, enc.fragid) /\ Continue(views.r, enc.sn, enc.fragid)
         ELSE EncodingFailed([b EXCEPT !.buf = w.buf])
      /\ batchSize' = batchSize
  BY DEF WriteNext
<1>4. w.ok => /\ views.ok /\ d \in Sendable(batchSize)
              /\ f \in Batches /\ f.buf.data \o Content(f.fragment) = BytesOf(d)
  BY <1>0, <1>1, <1>2, NextFragmentIs
<1>5. /\ Gives(enc.r, Ok(cv, views.r), k)
      /\ room = (batchSize - HeaderLen(enc.sn, "more", enc.fragid)) % 65536
      /\ room \in Nat /\ rest \in Nat
  BY <1>0, <1>1, <1>2, NextFragmentGives
<1>6. d.q = enc.qos /\ d.sn = enc.sn /\ d.body = kind /\ d.fid = enc.fragid /\ d.tail = cv
  BY DEF Made
<1>7. k = (IF rest <= room THEN rest ELSE room) /\ rest > 0
  BY <1>2 DEF Least
<1>8. kind = IF room >= rest THEN "last" ELSE "more"
  OBVIOUS
<1> HIDE DEF d, w, views, f, b, cv, k, c, m, kind
<1>9. Net(batchSize) <= room /\ room > 0
  <2>1. batchSize < 65536
    BY <1>0, WireAssumption DEF Ample
  <2>2. HeaderLen(Modulus - 1, "more", Modulus - 1) < batchSize
    BY DEF Ample, Sender
  <2> HIDE DEF room
  <2> QED
    BY <1>0, <1>1, <1>5, <2>1, <2>2, RoomIsNet
<1> DEFINE p0 == Offset(enc.r)
<1>10. rest = Remaining(enc.r)
  OBVIOUS
<1> HIDE DEF room, rest
<1>11. w.ok /\ views.ok
  BY <1>3 DEF EncodingFailed
<1>12. Commit(f) /\ Continue(views.r, enc.sn, enc.fragid)
  BY <1>3, <1>11
<1>13. c \in Bodied /\ c \in Seq(Nat) /\ Countable(batchSize, Payload(c))
  BY <1>0, <1>1, MessageFits, SenderIs DEF Sender, c
<1>14. PICK e \in Marks : /\ Leads(m, batchSize, wire, z, e) /\ Owes(m, batchSize, e, booked)
                          /\ UnderWay(batchSize, e, enc)
  BY DEF Sender, Sending, m
<1>15. e.k = Len(m)
  BY <1>2, <1>14 DEF Owes
<1> DEFINE l == VleLen(Len(c))
           p == l + p0
<1>16. /\ enc.r.chunks = enc.msg.items
       /\ Reached(batchSize, e.defrag[enc.qos.cc], c, p, enc.sn, enc.fragid)
  BY <1>1, <1>14 DEF UnderWay, c
<1>17. k \in Nat
  BY <1>5, <1>7
<1>18. /\ views.r.chunks = enc.msg.items /\ Offset(views.r) = p0 + k
       /\ cv = Part(c, p0, k) /\ Remaining(views.r) = Len(c) - (p0 + k) /\ Len(c) \in Nat
       /\ rest = Len(c) - p0 /\ p0 \in Nat
  <2> DEFINE v == enc.msg
             r == enc.r
             q == views.r
  <2>1. r \in Readers /\ r.chunks = v.items /\ v \in Vecs
    BY <1>1, <1>16
  <2>2. Gives(r, Ok(cv, q), k) /\ k \in Nat
    BY <1>5, <1>17
  <2>3. c = Content(v) /\ p0 = Offset(r) /\ rest = Remaining(r)
    BY <1>10 DEF c
  <2> HIDE DEF v, r, q, p0
  <2>4. /\ q.chunks = v.items /\ Offset(q) = Offset(r) + k
        /\ cv = Part(Content(v), Offset(r), k) /\ Len(Content(v)) \in Nat
        /\ Remaining(q) = Len(Content(v)) - (Offset(r) + k)
        /\ Remaining(r) = Len(Content(v)) - Offset(r) /\ Offset(r) \in Nat
    BY <2>1, <2>2, TakenIs
  <2> QED
    BY <2>3, <2>4 DEF q, v
<1> HIDE DEF p0
<1>19. /\ l \in Nat /\ l > 0 /\ p \in Nat /\ p > 0 /\ Len(Payload(c)) = l + Len(c)
  <2>1. l \in Nat /\ l > 0 /\ Len(Payload(c)) = l + Len(c)
    BY <1>13, PayloadIs
  <2> HIDE DEF l
  <2> QED
    BY <1>18, <2>1
<1> HIDE DEF l
<1>20. p0 + k <= Len(c) /\ (room >= rest => p0 + k = Len(c)) /\ (~(room >= rest) => p0 + k < Len(c) /\ k = room)
  BY <1>5, <1>7, <1>17, <1>18
<1>21. d.tail = Part(Payload(c), p, k)
  <2>1. Part(c, p0, k) = Part(Payload(c), VleLen(Len(c)) + p0, k)
    BY <1>13, <1>17, <1>18, <1>20, PayloadPart
  <2> QED
    BY <1>6, <1>18, <2>1 DEF l
<1>22. p + k = l + (p0 + k)
  BY <1>17, <1>18, <1>19
<1>23. Reached(batchSize, e.defrag[d.q.cc], c, p, d.sn, d.fid)
  BY <1>6, <1>16
<1> HIDE DEF p
<1>24. d \in Sendable(batchSize) /\ f \in Batches /\ f.buf.data \o Content(f.fragment) = BytesOf(d)
  BY <1>4, <1>11
<1>25. CASE room >= rest
  <2>1. kind = "last"
    BY <1>8, <1>25
  <2>2. ~(Remaining(views.r) > 0)
    BY <1>17, <1>18, <1>20, <1>25
  <2>3. enc' = Idle /\ Accepted(TRUE)
    BY <1>12, <2>2 DEF Continue
  <2> DEFINE a == [content |-> c, cc |-> enc.qos.cc]
             o == IF Oversize(c) THEN m ELSE Append(m, a)
  <2>4. /\ sent' \in Seq(Sents) /\ a \in Mails /\ Arrivals(sent') = o
    BY <1>1, <1>13, <2>3, AcceptedIs DEF Sender, m, c
  <2>5. p + k = Len(Payload(c))
    BY <1>19, <1>20, <1>22, <1>25
  <2>6. PICK y \in Marks : Brings(o, e, d, y) /\ y.k = Len(o)
    <3>1. d.body = "last"
      BY <1>6, <2>1
    <3> DEFINE a2 == [content |-> c, cc |-> d.q.cc]
               o2 == IF Oversize(c) THEN m ELSE Append(m, a2)
    <3>2. \E y \in Marks : Brings(o2, e, d, y) /\ y.k = Len(o2)
      BY SMTT(60), <1>0, <1>13, <1>15, <1>17, <1>19, <1>21, <1>23, <1>24, <2>5, <3>1, LastBrought
    <3>3. o2 = o
      BY <1>6
    <3> HIDE DEF o, o2
    <3> QED
      BY <3>2, <3>3
  <2> HIDE DEF a
  <2>7. Leads(o, batchSize, wire, z, e)
    <3>1. CASE Oversize(c)
      BY <1>14, <3>1
    <3>2. CASE ~Oversize(c)
      <4>1. Leads(Append(m, a), batchSize, wire, z, e)
        BY <1>0, <1>14, <2>4, LeadsOn
      <4> QED
        BY <3>2, <4>1
    <3> QED
      BY <3>1, <3>2
  <2>8. Arrivals(sent') = Arrivals(sent) \/ \E x \in Mails : Arrivals(sent') = Append(Arrivals(sent), x)
    BY <2>4 DEF m
  <2> HIDE DEF o
  <2>9. Leads(o, batchSize, wire', z, y) /\ booked' = <<>>
    BY <1>0, <1>12, <1>24, <2>6, <2>7, CommitsLead
  <2>10. Owes(o, batchSize, y, booked') /\ UnderWay(batchSize, y, enc')
    BY <2>3, <2>6, <2>9 DEF Owes, UnderWay, Idle
  <2>11. Sending(o, batchSize, z, wire', booked', enc')
    BY <2>9, <2>10 DEF Sending
  <2> QED
    BY <1>3, <2>4, <2>8, <2>11 DEF Proceeds
<1>26. CASE ~(room >= rest)
  <2>1. kind = "more" /\ k = room
    BY <1>8, <1>20, <1>26
  <2>2. Remaining(views.r) > 0
    BY <1>17, <1>18, <1>20, <1>26
  <2>3. /\ enc' = [pc |-> "more", msg |-> enc.msg, qos |-> enc.qos,
                   r |-> views.r, sn |-> Next_Sn(enc.sn), fragid |-> enc.fragid]
        /\ sent' = sent
    BY <1>12, <2>2 DEF Continue
  <2>4. p + k < Len(Payload(c))
    BY <1>17, <1>18, <1>19, <1>20, <1>22, <1>26
  <2>5. Net(batchSize) <= k
    BY <1>9, <2>1
  <2>6. PICK y \in Marks : /\ Brings(m, e, d, y) /\ y.k = e.k
                           /\ Reached(batchSize, y.defrag[d.q.cc], c, p + k, Next_Sn(d.sn), d.fid)
    <3>1. d.body = "more"
      BY <1>6, <2>1
    <3> QED
      BY <1>0, <1>13, <1>17, <1>19, <1>21, <1>23, <1>24, <2>4, <2>5, <3>1, MoreBrought
  <2>7. Leads(m, batchSize, wire', z, y) /\ booked' = <<>>
    BY <1>0, <1>12, <1>14, <1>24, <2>6, CommitsLead
  <2>8. Owes(m, batchSize, y, booked')
    BY <1>15, <2>6, <2>7 DEF Owes
  <2>9. UnderWay(batchSize, y, enc')
    <3>1. /\ enc'.msg = enc.msg /\ enc'.qos = enc.qos /\ enc'.r = views.r
          /\ enc'.sn = Next_Sn(enc.sn) /\ enc'.fragid = enc.fragid
      BY <2>3
    <3>2. Content(enc'.msg) = c /\ VleLen(Len(c)) + Offset(enc'.r) = p + k
      BY <1>18, <1>22, <3>1 DEF c, l
    <3>3. Reached(batchSize, y.defrag[enc'.qos.cc], c, p + k, enc'.sn, enc'.fragid)
      BY <1>6, <2>6, <3>1
    <3> QED
      BY <1>18, <3>1, <3>2, <3>3 DEF UnderWay
  <2>10. Sending(m, batchSize, z, wire', booked', enc')
    BY <2>7, <2>8, <2>9 DEF Sending
  <2> QED
    BY <1>3, <2>3, <2>10 DEF Proceeds, Sender, m
<1> QED
  BY <1>25, <1>26

----------------------------------------------------------------------------
(* Every message arrives as it was sent *)

\* What the receiver returned are the first messages that are to arrive; the ring holds those
\* that follow, the wire those behind them, and the booked batch and the push that is under
\* way the last.
Told ==
    /\ sent \in Seq(Sents)
    /\ \E z \in Marks : /\ Behind(Arrivals(sent), z, defrag, inbox, got)
                        /\ Sending(Arrivals(sent), batchSize, z, wire, booked, enc)

\* At the beginning there is nothing to tell.
LEMMA InitTold == Init => Told
<1> SUFFICES ASSUME Init PROVE Told
  OBVIOUS
<1>1. ReceiverTyped
  BY InitTyped DEF Typed
<1>2. sent = <<>> /\ got = <<>> /\ wire = <<>> /\ booked = <<>> /\ inbox = <<>> /\ enc = Idle
  BY DEF Init
<1> DEFINE z == [defrag |-> HeldIn(defrag), k |-> 0]
           m == Arrivals(sent)
<1>3. m = <<>> /\ sent \in Seq(Sents)
  BY <1>2, ArrivesNone
<1>4. m \in Seq(Mails) /\ Len(m) = 0
  BY <1>3
<1>5. z \in Marks /\ z.defrag = HeldIn(defrag) /\ z.k = 0
  BY <1>1, HeldIs DEF Marks, ReceiverTyped
<1> HIDE DEF z, m
<1>6. Waits(m, <<>>, 0, 0) /\ Leads(m, batchSize, <<>>, z, z)
  BY <1>5, WaitsNone, LeadsNone
<1>7. Len(got) = 0
  BY <1>2
<1>8. Returned(m, got)
  BY <1>7 DEF Returned
<1>9. Behind(m, z, defrag, inbox, got)
  BY <1>2, <1>5, <1>6, <1>7, <1>8 DEF Behind
<1>10. Owes(m, batchSize, z, booked) /\ UnderWay(batchSize, z, enc)
  BY <1>2, <1>4, <1>5 DEF Owes, UnderWay, Idle
<1>11. Sending(m, batchSize, z, wire, booked, enc)
  BY <1>2, <1>5, <1>6, <1>10 DEF Sending
<1> QED
  BY <1>3, <1>5, <1>9, <1>11 DEF Told, m

\* The receiver is where it was when another message is accepted.
LEMMA BehindOn ==
    ASSUME NEW m \in Seq(Mails), NEW z, NEW f, NEW bs \in Seq(Boxes), NEW g \in Seq(Messages),
           Behind(m, z, f, bs, g), NEW a \in Mails
    PROVE  Behind(Append(m, a), z, f, bs, g)
<1> DEFINE o == Append(m, a)
<1>1. Len(o) = Len(m) + 1 /\ \A i \in 1..Len(m) : o[i] = m[i]
  BY AppendProperties
<1>2. Waits(o, bs, Len(g), z.k)
  BY WaitsOn DEF Behind
<1>3. Len(m) \in Nat
  OBVIOUS
<1> HIDE DEF o
<1>4. Returned(o, g)
  BY SMTT(30), <1>1, <1>3 DEF Behind, Returned
<1> QED
  BY <1>2, <1>4 DEF Behind, o

\* A step of the sender.
LEMMA ProceedsTold ==
    ASSUME SenderTyped, ReceiverTyped, AppTyped, sent \in Seq(Sents),
           NEW z \in Marks, Behind(Arrivals(sent), z, defrag, inbox, got), Proceeds(z),
           UNCHANGED <<defrag, inbox, got>>
    PROVE  Told'
<1> DEFINE m == Arrivals(sent)
           o == Arrivals(sent')
<1>1. m \in Seq(Mails)
  BY ArrivalsAre
<1>2. o = m \/ \E a \in Mails : o = Append(m, a)
  BY DEF Proceeds
<1>3. Behind(m, z, defrag, inbox, got) /\ inbox \in Seq(Boxes) /\ got \in Seq(Messages)
  BY DEF ReceiverTyped, AppTyped
<1>4. sent' \in Seq(Sents) /\ Sending(o, batchSize', z, wire', booked', enc')
  BY DEF Proceeds
<1> HIDE DEF m, o
<1>5. Behind(o, z, defrag, inbox, got)
  BY <1>1, <1>2, <1>3, BehindOn
<1>6. Behind(o, z, defrag', inbox', got')
  BY <1>5
<1> QED
  BY <1>4, <1>6 DEF Told, o

\* A step of the sender adds at the end of what is under way, one of the receiver takes
\* from its beginning.
LEMMA StepTold ==
    ASSUME SnsFit, Ample, LengthsFit, Numbered, Typed, Flow, batchSize \in BatchSizes,
           ~spoiled, ~spoiled', Told, [Next]_vars
    PROVE  Told'
<1>1. SenderTyped /\ ReceiverTyped /\ AppTyped
  BY DEF Typed
<1> DEFINE m == Arrivals(sent)
<1>2. PICK z \in Marks : /\ Behind(m, z, defrag, inbox, got)
                         /\ Sending(m, batchSize, z, wire, booked, enc)
  BY DEF Told
<1>3. m \in Seq(Mails) /\ sent \in Seq(Sents)
  BY ArrivalsAre DEF Told
<1>4. Sender(z)
  BY <1>1, <1>2, <1>3 DEF Sender
<1>5. CASE (\E plan \in Plans, qos \in Qos : Send(plan, qos)) \/ SendStep
  <2>1. Proceeds(z)
    BY <1>4, <1>5, SendSends, FlushSends, AppendSends, FrameSends, FirstSends, NextSends DEF SendStep
  <2>2. UNCHANGED <<defrag, inbox, got>>
    BY <1>5 DEF SendStep, Send, Append1, WriteFrame, WriteFirst, WriteNext, Flush, receiverVars
  <2> QED
    BY <1>1, <1>2, <1>3, <2>1, <2>2, ProceedsTold
<1>6. CASE Receive
  <2>1. PICK e \in Marks : /\ Leads(m, batchSize, wire, z, e) /\ Owes(m, batchSize, e, booked)
                           /\ UnderWay(batchSize, e, enc)
    BY <1>2 DEF Sending
  <2>2. wire # <<>> /\ UNCHANGED <<batchSize, enc, booked, sent>>
    BY <1>6 DEF Receive, senderVars
  <2> HIDE DEF m
  <2>3. PICK d, v, y : Before(m, batchSize, wire, z, e, d, v, y)
    BY <2>1, <2>2, LeadsFirst
  <2>4. Behind(m, y, defrag', inbox', got') /\ wire' = v
    BY <1>1, <1>2, <1>3, <1>6, <2>3, ReceiveBehind
  <2>5. y \in Marks /\ Leads(m, batchSize, v, y, e)
    BY <2>3 DEF Before
  <2>6. Sending(m, batchSize', y, wire', booked', enc')
    BY <2>1, <2>2, <2>4, <2>5 DEF Sending
  <2>7. m = Arrivals(sent')
    BY <2>2 DEF m
  <2> QED
    BY <1>3, <2>2, <2>4, <2>5, <2>6, <2>7 DEF Told
<1>7. CASE Pull
  <2>1. UNCHANGED <<batchSize, enc, booked, sent, wire>>
    BY <1>7 DEF Pull, senderVars
  <2>2. m = Arrivals(sent')
    BY <2>1
  <2> HIDE DEF m
  <2>3. Behind(m, z, defrag', inbox', got')
    BY <1>1, <1>2, <1>3, <1>7, PullBehind DEF AppTyped
  <2>4. Sending(m, batchSize', z, wire', booked', enc')
    BY <1>2, <2>1
  <2> QED
    BY <1>3, <2>1, <2>2, <2>3, <2>4 DEF Told
<1>8. CASE OpenReader \/ ReadOn \/ UNCHANGED vars
  <2>1. UNCHANGED <<batchSize, enc, booked, sent, wire, defrag, inbox, got>>
    BY <1>8 DEF OpenReader, ReadOn, vars, senderVars, receiverVars
  <2>2. m = Arrivals(sent')
    BY <2>1
  <2> HIDE DEF m
  <2> QED
    BY <1>2, <1>3, <2>1, <2>2 DEF Told
<1> QED
  BY <1>5, <1>6, <1>7, <1>8 DEF Next

\* What recv returned are the first messages of m.
LEMMA ReturnedPrefix ==
    ASSUME NEW m \in Seq(Mails), NEW g \in Seq(Messages), Returned(m, g)
    PROVE  /\ IsPrefix(Contents(g), m)
           /\ Len(g) = Len(m) => Contents(g) = m
<1> DEFINE c == Contents(g)
<1>1. Len(g) \in Nat /\ Len(m) \in Nat /\ DOMAIN g = 1..Len(g)
  OBVIOUS
<1>2. Len(g) <= Len(m)
  <2>1. CASE Len(g) = 0
    BY <1>1, <2>1
  <2>2. CASE Len(g) # 0
    <3>1. Len(g) \in 1..Len(g)
      BY <1>1, <2>2
    <3>2. Len(g) \in 1..Len(m)
      BY <3>1 DEF Returned
    <3> QED
      BY <1>1, <3>2
  <2> QED
    BY <2>1, <2>2
<1>3. ASSUME NEW i \in 1..Len(g)
      PROVE  [content |-> Content(g[i].bytes), cc |-> g[i].cc] = m[i]
  <2>1. i \in 1..Len(m) /\ m[i].content = Content(g[i].bytes) /\ m[i].cc = g[i].cc
    BY DEF Returned
  <2>2. m[i] \in Mails
    BY <2>1
  <2> QED
    BY <2>1, <2>2 DEF Mails
<1>4. c = [i \in 1..Len(g) |-> m[i]]
  BY <1>1, <1>3 DEF Contents
<1>5. \A i \in 1..Len(g) : m[i] \in Mails
  BY <1>1, <1>2
<1> HIDE DEF c
<1>6. c \in Seq(Mails) /\ Len(c) = Len(g) /\ \A i \in 1..Len(g) : c[i] = m[i]
  BY <1>1, <1>4, <1>5
<1>7. Len(g) = Len(m) => c = m
  BY <1>1, <1>6, SeqEqual
<1>8. SubSeq(c, 1, Len(c)) = SubSeq(m, 1, Len(c))
  BY <1>1, <1>2, <1>6
<1>9. IsPrefix(c, m)
  BY <1>2, <1>6, <1>8 DEF IsPrefix
<1> QED
  BY <1>7, <1>9 DEF c

\* With nothing left on the way, everything that is to arrive has been returned.
LEMMA ToldDelivers ==
    ASSUME Typed, Told, ~spoiled
    PROVE  DeliveredAsSent
<1> DEFINE m == Arrivals(sent)
<1>1. PICK z \in Marks : /\ Behind(m, z, defrag, inbox, got)
                         /\ Sending(m, batchSize, z, wire, booked, enc)
  BY DEF Told
<1>2. m \in Seq(Mails) /\ got \in Seq(Messages)
  BY ArrivalsAre DEF Told, Typed, AppTyped
<1> HIDE DEF m
<1>3. /\ IsPrefix(Contents(got), m)
      /\ Len(got) = Len(m) => Contents(got) = m
  BY <1>1, <1>2, ReturnedPrefix DEF Behind
<1>4. ASSUME Quiet PROVE Len(got) = Len(m)
  <2>1. PICK e \in Marks : Leads(m, batchSize, wire, z, e) /\ Owes(m, batchSize, e, booked)
    BY <1>1 DEF Sending
  <2>2. inbox = <<>> /\ wire = <<>> /\ booked = <<>>
    BY <1>4 DEF Quiet
  <2>3. Len(got) = z.k
    BY <1>1, <2>2, WaitsEnd DEF Behind
  <2>4. z = e
    BY <2>1, <2>2, LeadsEnd
  <2>5. e.k = Len(m)
    BY <2>1, <2>2 DEF Owes
  <2> QED
    BY <2>3, <2>4, <2>5
<1> QED
  BY <1>3, <1>4 DEF DeliveredAsSent, Deliverable, m

\* The receiver returns the messages that were accepted, in the order in which they were
\* sent, each with its bytes and its congestion control, and when nothing is left to do
\* it returned them all: all but those too long for the receiver's buffer (push, receive and
\* try_pull).  So for batches in which no push fails, messages whose length is written in
\* up to nine bytes, and no message in more fragments than there are sequence numbers.
THEOREM ArrivesAsSent ==
    ASSUME SnsFit, Ample, LengthsFit, Numbered
    PROVE  Spec => []DeliveredAsSent
<1> DEFINE Sized == batchSize \in BatchSizes
<1>1. Init => Typed /\ Flow /\ Sized /\ Told
  BY InitTyped, InitFlow, InitTold DEF Init
<1>2. Typed /\ Flow /\ Sized => ~spoiled
  BY AmpleUnspoiled
<1>3. Typed /\ Flow /\ Sized /\ [Next]_vars => Typed' /\ Flow' /\ Sized'
  <2>1. [Next]_vars => batchSize' = batchSize
    BY DEF Next, SendStep, Send, Append1, WriteFrame, WriteFirst, WriteNext, Flush, Receive,
           Pull, OpenReader, ReadOn, vars
  <2> QED
    BY <2>1, StepTyped, StepFlow
<1>4. Typed /\ Flow /\ Sized /\ Told /\ ~spoiled /\ ~spoiled' /\ [Next]_vars => Told'
  BY StepTold
<1>5. Typed /\ Told /\ ~spoiled => DeliveredAsSent
  BY ToldDelivers
<1> QED
  BY <1>1, <1>2, <1>3, <1>4, <1>5, PTL DEF Spec
=============================================================================
