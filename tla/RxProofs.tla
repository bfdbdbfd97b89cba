------------------------------ MODULE RxProofs ------------------------------
(***************************************************************************)
(* Theorems about the reception pipeline, for any messages, any number of  *)
(* lanes, any capacity and any limit of reassembly.                        *)
(***************************************************************************)
EXTENDS RxProperties, SequenceTheorems, TLAPS

----------------------------------------------------------------------------
(* Types *)

\* What the types leave open: a lane sends one message at a time; the task holds a
\* batch exactly while it tries to push it; a pull finds the batch that was peeked.
CurOK(p) ==
    cur[p] # <<>> => \E m \in Msgs, i \in Nat :
                        /\ cur[p] = <<m, i>> /\ PrioOf[m] = p
                        /\ i < FragsOf[m] /\ FragsOf[m] > 1
Shape ==
    /\ \A p \in Lanes : CurOK(p)
    /\ hand = <<>> \/ \E b \in Batch : hand = <<b>>
    /\ tpc \in {"push", "full", "wait"} <=> hand # <<>>
    /\ rpc = "pull" => rlane <= plane /\ ring[plane] # <<>>

\* Constants.
LEMMA RxConstants ==
    /\ NPrio \in Nat /\ NPrio > 0 /\ 1 \in Lanes /\ Capacity \in Nat /\ Capacity > 0
    /\ FrameMax \in Nat /\ FragMax \in Nat
    /\ Msgs \subseteq Nat /\ PrioOf \in [Msgs -> Lanes] /\ CcOf \in [Msgs -> Ccs]
    /\ FragsOf \in [Msgs -> Nat] /\ \A m \in Msgs : FragsOf[m] > 0
    /\ \A p \in Lanes : p \in Nat /\ p <= NPrio /\ (p < NPrio => p + 1 \in Lanes)
BY RxAssumption DEF Lanes

\* A sequence of one element.
LEMMA Single ==
    ASSUME NEW S, NEW e \in S
    PROVE  /\ <<e>> \in Seq(S) /\ Len(<<e>>) = 1 /\ <<e>>[1] = e /\ <<e>> # <<>>
           /\ DOMAIN <<e>> = {1}
OBVIOUS

\* The messages of a frame.
LEMMA FrameType ==
    ASSUME TypeOK, NEW p \in Lanes, NEW ms \in Frames(p)
    PROVE  /\ ms \in Seq(Msgs) /\ Len(ms) > 0 /\ ms[1] \in Msgs
           /\ \A i \in DOMAIN ms : ms[i] \in Pending(p)
           /\ DOMAIN ms = 1..Len(ms)
<1>1. PICK n \in 1..FrameMax : ms \in [1..n -> Pending(p)]
  BY DEF Frames
<1>2. Pending(p) \subseteq Msgs
  BY DEF Pending, TypeOK
<1>3. n \in Nat /\ n > 0 /\ ms \in [1..n -> Msgs]
  BY <1>1, <1>2, RxConstants
<1>4. ms \in Seq(Msgs) /\ Len(ms) = n
  BY <1>3, SeqDef, LenProperties
<1> QED
  BY <1>1, <1>2, <1>3, <1>4

\* The batch that a frame becomes, and the one made of fragments.
LEMMA FrameBatch ==
    ASSUME TypeOK, NEW p \in Lanes, NEW ms \in Frames(p)
    PROVE  [prio |-> p, cc |-> CcOf[ms[1]], pos |-> 0,
            items |-> [i \in DOMAIN ms |-> <<<<ms[i], 1>>>>]] \in Batch
<1>1. \A i \in DOMAIN ms : <<<<ms[i], 1>>>> \in Items
  BY FrameType, Single DEF Items, Pieces, Pending, TypeOK
<1>2. [i \in DOMAIN ms |-> <<<<ms[i], 1>>>>] \in [1..Len(ms) -> Items] /\ Len(ms) \in Nat
  BY <1>1, FrameType, LenProperties
<1>3. [i \in DOMAIN ms |-> <<<<ms[i], 1>>>>] \in Seq(Items)
  BY <1>2, SeqDef
<1> QED
  BY <1>3, FrameType, RxConstants DEF Batch

\* The messages of the items of a batch.
LEMMA ItemMsgsType ==
    ASSUME NEW items \in Seq(Items)
    PROVE  /\ ItemMsgs(items) \subseteq Msgs
           /\ items # <<>> => ItemMsgs(items) # {}
<1>1. \A it \in Items : it[1][1] \in Msgs
  <2> SUFFICES ASSUME NEW it \in Items
               PROVE  it[1][1] \in Msgs
    OBVIOUS
  <2>1. it \in Seq(Pieces) /\ Len(it) > 0
    BY EmptySeq DEF Items
  <2>2. it[1] \in Pieces
    BY <2>1
  <2> QED
    BY <2>2 DEF Pieces
<1>2. \A k \in DOMAIN items : items[k] \in Items
  BY ElementOfSeq
<1>3. items # <<>> => 1 \in DOMAIN items
  BY EmptySeq
<1> QED
  BY <1>1, <1>2, <1>3 DEF ItemMsgs

\* What is left of a batch.
LEMMA UnreadType ==
    ASSUME NEW b \in Batch
    PROVE  /\ Unread(b) \in Seq(Items)
           /\ b.pos = 0 => Unread(b) # <<>>
           /\ ItemMsgs(Unread(b)) \subseteq Msgs
           /\ b.pos = 0 => ItemMsgs(Unread(b)) # {}
<1>1. b.items \in Seq(Items) /\ b.items # <<>> /\ b.pos \in Nat /\ b.pos <= Len(b.items)
  BY DEF Batch
<1>2. Len(b.items) \in Nat /\ Len(b.items) > 0
  BY <1>1, LenProperties, EmptySeq
<1>3. /\ Unread(b) \in Seq(Items)
      /\ Len(Unread(b)) = Len(b.items) - b.pos
  <2>1. b.pos + 1 \in 1..(Len(b.items) + 1) /\ Len(b.items) \in b.pos..Len(b.items)
    BY <1>1, <1>2
  <2> QED
    BY <1>1, <1>2, <2>1, SubSeqProperties DEF Unread
<1>4. b.pos = 0 => Unread(b) # <<>>
  BY <1>2, <1>3
<1> QED
  BY <1>3, <1>4, ItemMsgsType

\* What happens to a lane of the ring: a batch is pushed, the head is read from, the
\* head is removed.
LEMMA LaneSteps ==
    ASSUME NEW q \in Seq(Batch)
    PROVE  /\ \A b \in Batch : /\ q \o <<b>> \in Seq(Batch)
                               /\ Len(q \o <<b>>) = Len(q) + 1
                               /\ q \o <<b>> # <<>>
           /\ q # <<>> =>
                /\ q[1] \in Batch /\ Head(q) = q[1] /\ Len(q) > 0
                /\ Tail(q) \in Seq(Batch) /\ Len(Tail(q)) = Len(q) - 1
                /\ q[1].pos < Len(q[1].items) =>
                        /\ [q EXCEPT ![1] = Advance(@)] \in Seq(Batch)
                        /\ Len([q EXCEPT ![1] = Advance(@)]) = Len(q)
                        /\ q[1].items[q[1].pos + 1] \in Items
<1>1. ASSUME NEW b \in Batch
      PROVE  q \o <<b>> \in Seq(Batch) /\ Len(q \o <<b>>) = Len(q) + 1 /\ q \o <<b>> # <<>>
  <2>1. q \o <<b>> \in Seq(Batch) /\ Len(q \o <<b>>) = Len(q) + 1 /\ Len(q) \in Nat
    BY Single, ConcatProperties, LenProperties
  <2> QED
    BY <2>1
<1>2. ASSUME q # <<>>
      PROVE  /\ q[1] \in Batch /\ Head(q) = q[1] /\ Len(q) > 0
             /\ Tail(q) \in Seq(Batch) /\ Len(Tail(q)) = Len(q) - 1
  BY <1>2, HeadTailProperties, EmptySeq, LenProperties
<1>3. ASSUME q # <<>>, q[1].pos < Len(q[1].items)
      PROVE  /\ [q EXCEPT ![1] = Advance(@)] \in Seq(Batch)
             /\ Len([q EXCEPT ![1] = Advance(@)]) = Len(q)
             /\ q[1].items[q[1].pos + 1] \in Items
  <2>1. Advance(q[1]) \in Batch
    <3> DEFINE b == q[1]
    <3>1. /\ b \in [prio : Lanes, cc : Ccs, items : Seq(Items), pos : Nat]
          /\ b.items # <<>> /\ b.pos < Len(b.items) /\ b.pos \in Nat /\ Len(b.items) \in Nat
      BY <1>2, <1>3, LenProperties DEF Batch
    <3> HIDE DEF b
    <3>2. /\ [b EXCEPT !.pos = @ + 1] \in [prio : Lanes, cc : Ccs, items : Seq(Items), pos : Nat]
          /\ [b EXCEPT !.pos = @ + 1].items = b.items
          /\ [b EXCEPT !.pos = @ + 1].pos = b.pos + 1
      BY <3>1
    <3>3. [b EXCEPT !.pos = @ + 1] \in Batch
      BY <3>1, <3>2 DEF Batch
    <3> QED
      BY <3>3 DEF Advance, b
  <2>2. 1 \in 1..Len(q)
    BY <1>2, <1>3, LenProperties
  <2>3. q[1].items \in Seq(Items) /\ q[1].pos + 1 \in 1..Len(q[1].items)
    BY <1>2, <1>3, LenProperties DEF Batch
  <2> QED
    BY <2>1, <2>2, <2>3, ExceptSeq, ElementOfSeq
<1> QED
  BY <1>1, <1>2, <1>3

\* The fragment that a lane sends, and the type of what the buffers become.
LEMMA FragType ==
    ASSUME TypeOK, Shape, NEW p \in Lanes, cur[p] # <<>>
    PROVE  /\ Frag(p).m \in Msgs /\ Frag(p).i \in Nat /\ CcOf[Frag(p).m] \in Ccs
           /\ PrioOf[Frag(p).m] = p /\ Frag(p).m = cur[p][1]
           /\ <<Frag(p).m, Frag(p).i>> \in Pieces
           /\ cur[p] = <<Frag(p).m, Frag(p).i - 1>> /\ 1 <= Frag(p).i
           /\ Frag(p).i <= FragsOf[Frag(p).m]
<1>1. PICK m \in Msgs, i \in Nat : /\ cur[p] = <<m, i>> /\ PrioOf[m] = p
                                  /\ i < FragsOf[m] /\ FragsOf[m] > 1
  BY DEF Shape, CurOK
<1>2. Frag(p) = [m |-> m, i |-> i + 1]
  BY <1>1 DEF Frag
<1> QED
  BY <1>1, <1>2, RxConstants DEF Pieces

\* After a fragment the link is well-formed again.
LEMMA FragSentShape ==
    ASSUME TypeOK, Shape, NEW p \in Lanes, cur[p] # <<>>, FragSent(p)
    PROVE  /\ cur' \in [Lanes -> Seq(Nat)] /\ nextsn' \in [Lanes -> [Ccs -> Nat]]
           /\ \A q \in Lanes : CurOK(q)'
           /\ UNCHANGED <<todo, fragid>>
<1>1. PICK m \in Msgs, i \in Nat : /\ cur[p] = <<m, i>> /\ PrioOf[m] = p
                                  /\ i < FragsOf[m] /\ FragsOf[m] > 1
  BY DEF Shape, CurOK
<1>2. /\ cur' = [cur EXCEPT ![p] = IF KindOf(Frag(p)) = "last" THEN <<>> ELSE <<m, i + 1>>]
      /\ KindOf(Frag(p)) # "last" => i + 1 < FragsOf[m]
      /\ nextsn' = [nextsn EXCEPT ![p][CcOf[m]] = @ + 1]
      /\ UNCHANGED <<todo, fragid>>
  <2>1. Frag(p) = [m |-> m, i |-> i + 1]
    BY <1>1 DEF Frag
  <2>2. KindOf(Frag(p)) # "last" => i + 1 < FragsOf[m]
    BY <1>1, <2>1, RxConstants DEF KindOf
  <2>3. cur[p][1] = m /\ cur[p][2] = i
    BY <1>1
  <2> QED
    BY <2>2, <2>3 DEF FragSent, UseSn
<1>3. cur' \in [Lanes -> Seq(Nat)]
  <2>1. <<>> \in Seq(Nat) /\ <<m, i + 1>> \in Seq(Nat)
    BY RxConstants
  <2> QED
    BY <1>2, <2>1 DEF TypeOK
<1>4. nextsn' \in [Lanes -> [Ccs -> Nat]]
  <2>1. CcOf[m] \in Ccs /\ nextsn[p] \in [Ccs -> Nat]
    BY RxConstants DEF TypeOK
  <2>2. [nextsn[p] EXCEPT ![CcOf[m]] = @ + 1] \in [Ccs -> Nat]
    BY <2>1
  <2> QED
    BY <1>2, <2>2 DEF TypeOK
<1>5. ASSUME NEW q \in Lanes
      PROVE  CurOK(q)'
  <2>1. CASE q # p
    BY SMTT(30), <1>2, <2>1 DEF Shape, CurOK, TypeOK
  <2>2. CASE q = p /\ KindOf(Frag(p)) = "last"
    BY <1>2, <2>2 DEF CurOK, TypeOK
  <2>3. CASE q = p /\ KindOf(Frag(p)) # "last"
    <3>1. cur'[p] = <<m, i + 1>> /\ i + 1 \in Nat
      BY <1>2, <2>3 DEF TypeOK
    <3> QED
      BY <1>1, <1>2, <2>3, <3>1 DEF CurOK
  <2> QED
    BY <2>1, <2>2, <2>3
<1> QED
  BY <1>2, <1>3, <1>4, <1>5

\* Steps of the link and of the reader task keep the types.
LEMMA TaskTypes ==
    ASSUME TypeOK, Shape, LinkStep \/ ReadStep \/ TaskStep \/ TimerFires
    PROVE  TypeOK' /\ Shape'
<1> USE RxConstants DEF TPc, Signals
<1>1. ASSUME NEW p \in Lanes, NEW m \in Msgs, Begin(p, m)
      PROVE  TypeOK' /\ Shape'
  <2>1. <<m, 0>> \in Seq(Nat) /\ PrioOf[m] = p /\ FragsOf[m] > 1
    BY <1>1 DEF Begin, Pending
  <2>2. cur' = [cur EXCEPT ![p] = <<m, 0>>] /\ todo' \subseteq Msgs
    BY <1>1 DEF Begin, TypeOK
  <2>3. \A q \in Lanes : CurOK(q)'
    BY ZenonT(60), <2>1, <2>2 DEF Shape, CurOK, TypeOK
  <2>4. cur' \in [Lanes -> Seq(Nat)] /\ fragid' \in [Lanes -> Nat]
    <3>1. cur \in [Lanes -> Seq(Nat)] /\ fragid \in [Lanes -> Nat]
      BY DEF TypeOK
    <3>2. cur' \in [Lanes -> Seq(Nat)]
      BY <2>1, <2>2, <3>1
    <3> QED
      BY <1>1, <3>1, <3>2 DEF Begin
  <2>5. UNCHANGED <<nextsn, taskVars, token, sharedVars, recvVars, historyVars>>
    BY <1>1 DEF Begin
  <2> QED
    BY ZenonT(60), <2>2, <2>3, <2>4, <2>5
    DEF TypeOK, Shape, taskVars, sharedVars, recvVars, historyVars
<1>2. ASSUME NEW p \in Lanes, Lose(p)
      PROVE  TypeOK' /\ Shape'
  BY ZenonT(60), <1>2, FragSentShape
  DEF Lose, TypeOK, Shape, taskVars, sharedVars, recvVars, historyVars
<1>3. ASSUME NEW p \in Lanes, NEW ms \in Frames(p), ReadFrame(p, ms)
      PROVE  TypeOK' /\ Shape'
  <2> DEFINE b == [prio |-> p, cc |-> CcOf[ms[1]], pos |-> 0,
                   items |-> [i \in DOMAIN ms |-> <<<<ms[i], 1>>>>]]
  <2>1. hand' = <<b>> /\ b \in Batch
    BY <1>3, FrameBatch DEF ReadFrame
  <2> HIDE DEF b
  <2>2. hand' \in Seq(Batch) /\ hand' # <<>>
    BY <2>1
  <2>3. arrived' \subseteq Msgs /\ todo' \subseteq Msgs
    <3> DEFINE carried == {ms[i] : i \in DOMAIN ms}
    <3>1. carried \subseteq Msgs
      <4>1. \A i \in DOMAIN ms : ms[i] \in Pending(p)
        BY FrameType
      <4>2. Pending(p) \subseteq Msgs
        BY DEF Pending, TypeOK
      <4> QED
        BY <4>1, <4>2
    <3>2. arrived' = arrived \cup carried /\ todo' = todo \ carried
      BY <1>3 DEF ReadFrame
    <3> HIDE DEF carried
    <3> QED
      BY <3>1, <3>2 DEF TypeOK
  <2>4. nextsn' \in [Lanes -> [Ccs -> Nat]]
    <3>1. CcOf[ms[1]] \in Ccs /\ nextsn[p] \in [Ccs -> Nat]
      BY FrameType DEF TypeOK
    <3>2. [nextsn[p] EXCEPT ![CcOf[ms[1]]] = @ + 1] \in [Ccs -> Nat]
      BY <3>1
    <3> QED
      BY <1>3, <3>2 DEF ReadFrame, UseSn, TypeOK
  <2>5. /\ tpc' = "push" /\ late' = FALSE
        /\ UNCHANGED <<cur, fragid, dbuf, token, sharedVars, recvVars, expired, overtaken>>
    BY <1>3 DEF ReadFrame
  <2> QED
    BY <2>1, <2>2, <2>3, <2>4, <2>5 DEF TypeOK, Shape, CurOK, sharedVars, recvVars
<1>4. ASSUME NEW p \in Lanes, ReadFragment(p)
      PROVE  TypeOK' /\ Shape'
  <2> DEFINE f == Frag(p)
             c == CcOf[f.m]
             d == IF KindOf(f) = "first" THEN Start(dbuf[p][c], nextsn[p][c], fragid[p])
                  ELSE dbuf[p][c]
             e == Extended(d, <<f.m, f.i>>)
             Buf == [sn : Nat, id : Nat, parts : Seq(Pieces)]
  <2>1. cur[p] # <<>> /\ FragSent(p) /\ tpc = "read"
    BY <1>4 DEF ReadFragment
  <2>2. c \in Ccs /\ <<f.m, f.i>> \in Pieces /\ f.m \in Msgs
    BY <2>1, FragType
  <2>3. d \in Buf
    <3>1. dbuf[p][c] \in Buf
      BY SMTT(30), <2>2 DEF TypeOK
    <3>2. Start(dbuf[p][c], nextsn[p][c], fragid[p]) \in Buf
      BY SMTT(30), <2>2 DEF Start, TypeOK
    <3> QED
      BY <3>1, <3>2
  <2>4. e \in Buf /\ e.parts # <<>> /\ e.parts \in Seq(Pieces)
    <3> HIDE DEF d, f
    <3>1. Append(d.parts, <<f.m, f.i>>) \in Seq(Pieces) /\ Append(d.parts, <<f.m, f.i>>) # <<>>
      BY <2>2, <2>3, AppendProperties
    <3>2. d.sn + 1 \in Nat /\ d.id \in Nat
      BY <2>3
    <3> QED
      BY <3>1, <3>2 DEF Extended
  <2>5. /\ [d EXCEPT !.parts = <<>>] \in Buf /\ [e EXCEPT !.parts = <<>>] \in Buf
    <3>1. \A x \in Buf : [x EXCEPT !.parts = <<>>] \in Buf
      <4>1. <<>> \in Seq(Pieces)
        BY EmptySeq
      <4> QED
        BY <4>1
    <3> HIDE DEF d, e
    <3> QED
      BY <2>3, <2>4, <3>1
  <2>6. \E new \in Buf : dbuf' = [dbuf EXCEPT ![p][c] = new]
    <3>1. \/ dbuf' = [dbuf EXCEPT ![p][c] =
                        IF KindOf(f) = "more" THEN [d EXCEPT !.parts = <<>>] ELSE d]
          \/ dbuf' = [dbuf EXCEPT ![p][c] = e]
          \/ dbuf' = [dbuf EXCEPT ![p][c] = [e EXCEPT !.parts = <<>>]]
      BY <1>4 DEF ReadFragment
    <3> HIDE DEF d, e, c, f
    <3> QED
      BY <2>3, <2>4, <2>5, <3>1
  <2>7. dbuf' \in [Lanes -> [Ccs -> Buf]]
    <3> HIDE DEF c
    <3>1. PICK new \in Buf : dbuf' = [dbuf EXCEPT ![p][c] = new]
      BY <2>6
    <3>2. [dbuf[p] EXCEPT ![c] = new] \in [Ccs -> Buf]
      BY <2>2 DEF TypeOK
    <3> QED
      BY <3>1, <3>2 DEF TypeOK
  <2>8. \/ UNCHANGED <<tpc, hand, late, arrived>>
        \/ /\ \E b \in Batch : hand' = <<b>>
           /\ tpc' = "push" /\ late' = FALSE /\ arrived' = arrived \cup {f.m}
    <3>1. CASE UNCHANGED <<tpc, hand, late, arrived>>
      BY <3>1
    <3>2. CASE /\ hand' = <<[prio |-> p, cc |-> c, pos |-> 0, items |-> <<e.parts>>]>>
               /\ tpc' = "push" /\ late' = FALSE /\ arrived' = arrived \cup {f.m}
      <4> HIDE DEF e, c, f
      <4>1. e.parts \in Items
        BY <2>4 DEF Items
      <4>2. <<e.parts>> \in Seq(Items) /\ Len(<<e.parts>>) = 1 /\ <<e.parts>> # <<>>
        BY <4>1
      <4>3. [prio |-> p, cc |-> c, pos |-> 0, items |-> <<e.parts>>] \in Batch
        BY SMTT(60), <2>2, <4>2 DEF Batch
      <4> QED
        BY <3>2, <4>3
    <3> QED
      BY <1>4, <3>1, <3>2 DEF ReadFragment
  <2>9. /\ UNCHANGED <<token, sharedVars, recvVars, expired, overtaken>>
        /\ cur' \in [Lanes -> Seq(Nat)] /\ nextsn' \in [Lanes -> [Ccs -> Nat]]
        /\ \A q \in Lanes : CurOK(q)'
        /\ UNCHANGED <<todo, fragid>>
    BY <1>4, <2>1, FragSentShape DEF ReadFragment
  <2> HIDE DEF f, Buf
  <2>10. CASE UNCHANGED <<tpc, hand, late, arrived>>
    <3>1. TypeOK'
      <4>1. dbuf' \in [Lanes -> [Ccs -> [sn : Nat, id : Nat, parts : Seq(Pieces)]]]
        BY <2>7 DEF Buf
      <4> QED
        BY ZenonT(60), <2>9, <2>10, <4>1 DEF TypeOK, sharedVars, recvVars
    <3>2. Shape'
      BY <2>9, <2>10 DEF Shape, sharedVars, recvVars
    <3> QED
      BY <3>1, <3>2
  <2>11. ASSUME NEW b \in Batch, hand' = <<b>>, tpc' = "push", late' = FALSE,
                arrived' = arrived \cup {f.m}
         PROVE  TypeOK' /\ Shape'
    <3>1. hand' \in Seq(Batch) /\ hand' # <<>>
      BY <2>11
    <3> QED
      BY <2>1, <2>2, <2>7, <2>9, <2>11, <3>1 DEF TypeOK, Shape, Buf, sharedVars, recvVars
  <2> QED
    BY <2>8, <2>10, <2>11
<1>5. ASSUME CloseTask, UNCHANGED <<linkVars, dbuf, token, ring, congested, recvVars, historyVars>>
      PROVE  TypeOK' /\ Shape'
  <2>1. hand' = <<>> /\ hand' \in Seq(Batch)
    BY <1>5, EmptySeq DEF CloseTask
  <2>2. /\ canRecv' = "err" /\ canSend' = [p \in Lanes |-> "err"] /\ tpc' = "closed"
        /\ late' = FALSE
    BY <1>5 DEF CloseTask
  <2>3. \A p \in Lanes : CurOK(p)'
    BY <1>5 DEF Shape, CurOK, linkVars
  <2> QED
    BY <1>5, <2>1, <2>2, <2>3 DEF TypeOK, Shape, linkVars, recvVars, historyVars
<1>6. CASE ReadEnds
  BY <1>5, <1>6 DEF ReadEnds, CloseTask
<1>7. CASE Push
  <2>1. PICK b \in Batch : hand = <<b>>
    BY <1>7 DEF Push, Shape
  <2>2. b.prio \in Lanes /\ InLane = b.prio
    BY <2>1 DEF InLane, Batch
  <2>3. CASE HasSpace(b.prio) /\ ring' = [ring EXCEPT ![b.prio] = @ \o <<b>>]
                              /\ hand' = <<>> /\ late' = FALSE /\ tpc' = "notify"
    <3>1. ring' \in [Lanes -> Seq(Batch)] /\ \A p \in Lanes : Len(ring'[p]) <= Capacity
      <4>1. ring \in [Lanes -> Seq(Batch)] /\ \A p \in Lanes : Len(ring[p]) <= Capacity
        BY DEF TypeOK
      <4>2. /\ ring[b.prio] \o <<b>> \in Seq(Batch)
            /\ Len(ring[b.prio] \o <<b>>) = Len(ring[b.prio]) + 1 /\ Len(ring[b.prio]) \in Nat
        BY <2>2, <4>1, LaneSteps, LenProperties
      <4>3. Len(ring[b.prio] \o <<b>>) <= Capacity
        BY <2>3, <4>2 DEF HasSpace
      <4> QED
        BY <2>2, <2>3, <4>1, <4>2, <4>3
    <3>2. \A p \in Lanes : ring[p] # <<>> => ring'[p] # <<>>
      BY <2>2, <2>3, LaneSteps DEF TypeOK
    <3>3. hand' \in Seq(Batch)
      BY <2>3, EmptySeq
    <3>4. UNCHANGED <<linkVars, dbuf, token, congested, canRecv, canSend, recvVars, historyVars>>
      BY <1>7 DEF Push
    <3>5. rpc' = "pull" => rlane' <= plane' /\ ring'[plane'] # <<>>
      BY <3>2, <3>4 DEF TypeOK, Shape, recvVars
    <3>6. \A p \in Lanes : CurOK(p)'
      BY <3>4 DEF Shape, CurOK, linkVars
    <3> QED
      BY <2>3, <3>1, <3>3, <3>4, <3>5, <3>6 DEF TypeOK, Shape, linkVars, recvVars, historyVars
  <2>4. CASE tpc' = "full" /\ UNCHANGED <<ring, hand, late>>
    BY <1>7, <2>4 DEF Push, TypeOK, Shape, CurOK, linkVars, recvVars, historyVars
  <2> QED
    BY <1>7, <2>1, <2>2, <2>3, <2>4 DEF Push
<1>8. CASE Notify
  <2>1. CASE canRecv # "err"
    BY <1>8, <2>1 DEF Notify, Announce, CloseTask, TypeOK, Shape, CurOK, linkVars, recvVars,
                      historyVars
  <2>2. CASE canRecv = "err"
    BY <1>5, <1>8, <2>2 DEF Notify, CloseTask
  <2> QED
    BY <2>1, <2>2
<1>9. ASSUME hand # <<>>, NEW why, Forget(why), congested' \subseteq Lanes
      PROVE  TypeOK' /\ Shape'
  <2>1. PICK b \in Batch : hand = <<b>>
    BY <1>9 DEF Shape
  <2>2. expired' \subseteq Msgs
    <3>1. ItemMsgs(hand[1].items) \subseteq Msgs
      BY <2>1, ItemMsgsType DEF Batch
    <3> QED
      BY <1>9, <3>1 DEF Forget, TypeOK
  <2>3. hand' = <<>> /\ hand' \in Seq(Batch)
    BY <1>9, EmptySeq DEF Forget
  <2>4. /\ tpc' = "read" /\ late' = FALSE
        /\ UNCHANGED <<linkVars, dbuf, token, ring, canRecv, canSend, recvVars, arrived, overtaken>>
    BY <1>9 DEF Forget
  <2>5. \A p \in Lanes : CurOK(p)'
    BY <2>4 DEF Shape, CurOK, linkVars
  <2> QED
    BY <1>9, <2>2, <2>3, <2>4, <2>5 DEF TypeOK, Shape, linkVars, recvVars
<1>10. CASE Full
  <2>1. hand # <<>>
    BY <1>10 DEF Full, Shape
  <2>2. CASE \E why \in {"dropped", "expired"} : Forget(why) /\ UNCHANGED congested
    BY <1>9, <2>1, <2>2 DEF TypeOK
  <2>3. CASE tpc' = "wait" /\ UNCHANGED <<linkVars, hand, late, dbuf, token, sharedVars, recvVars,
                                          historyVars>>
    BY <2>1, <2>3 DEF TypeOK, Shape, CurOK, linkVars, sharedVars, recvVars, historyVars
  <2> QED
    BY <1>10, <2>2, <2>3 DEF Full
<1>11. CASE Waited
  <2>1. hand # <<>>
    BY <1>11 DEF Waited, Shape
  <2>2. CASE CloseTask
    BY <1>5, <1>11, <2>2 DEF CloseTask
  <2>3. CASE /\ canSend' = [canSend EXCEPT ![InLane] = "unset"] /\ tpc' = "push"
             /\ UNCHANGED <<linkVars, hand, late, dbuf, token, ring, congested, canRecv,
                            recvVars, historyVars>>
    BY <2>1, <2>3 DEF TypeOK, Shape, CurOK, linkVars, recvVars, historyVars
  <2> QED
    BY <1>11, <2>2, <2>3 DEF Waited
<1>12. CASE TimerFires
  <2>1. hand # <<>> /\ InLane \in Lanes
    BY <1>12 DEF TimerFires, Shape, InLane, Batch
  <2>2. congested' \subseteq Lanes
    BY <1>12, <2>1 DEF TimerFires, TypeOK
  <2>3. CASE Forget("dropped")
    BY <1>9, <2>1, <2>2, <2>3
  <2>4. CASE TimeOver /\ tpc' = "push"
             /\ UNCHANGED <<linkVars, hand, dbuf, token, ring, canRecv, canSend, recvVars,
                            historyVars>>
    BY <2>1, <2>2, <2>4 DEF TimeOver, TypeOK, Shape, CurOK, linkVars, recvVars, historyVars
  <2> QED
    BY <1>12, <2>3, <2>4 DEF TimerFires
<1> QED
  BY <1>1, <1>2, <1>3, <1>4, <1>6, <1>7, <1>8, <1>10, <1>11, <1>12
  DEF LinkStep, ReadStep, TaskStep

\* The receiver's calls: everything but its own side of the ring stays.
RecvStarts == \E how \in {"recv", "try"} : StartRecv(how)

\* Steps of the receiver, and the two ways to stop, keep the types.
LEMMA RecvTypes ==
    ASSUME TypeOK, Shape, RecvStep \/ RecvStarts \/ RecvEnds \/ StopReceiver \/ StopTask
    PROVE  TypeOK' /\ Shape'
<1> USE RxConstants DEF RPc, Signals, RecvOnly
<1>1. ASSUME UNCHANGED <<linkVars, taskVars>>
      PROVE  (\A p \in Lanes : CurOK(p)') /\ hand' = hand /\ tpc' = tpc
  BY <1>1 DEF Shape, CurOK, linkVars, taskVars
<1>2. CASE RecvStarts
  <2>1. PICK how \in {"recv", "try"} : StartRecv(how)
    BY <1>2 DEF RecvStarts
  <2> QED
    BY <1>1, <2>1 DEF StartRecv, TypeOK, Shape, linkVars, taskVars, sharedVars
<1>3. CASE ScanEmpty
  BY <1>1, <1>3 DEF ScanEmpty, TypeOK, Shape, linkVars, taskVars, sharedVars
<1>4. CASE ScanHead
  <2> DEFINE p == rlane
             q == ring[rlane]
  <2>1. rpc = "scan" /\ p \in Lanes /\ q # <<>> /\ q \in Seq(Batch) /\ q[1] \in Batch
    BY <1>4, LaneSteps DEF ScanHead, TypeOK
  <2>2. /\ congested' \subseteq Lanes
        /\ UNCHANGED <<linkVars, taskVars, token, arrived, expired,
                       mode, canRecv, canSend, sawClosed, overtaken>>
    BY <1>4 DEF ScanHead, TypeOK
  <2>3. CASE /\ q[1].pos < Len(q[1].items)
             /\ got' = [got EXCEPT ![p] = Append(@, q[1].items[q[1].pos + 1])]
             /\ ring' = [ring EXCEPT ![p][1] = Advance(@)]
             /\ rpc' = "idle" /\ rlane' = 1 /\ plane' = plane
    <3>1. /\ [q EXCEPT ![1] = Advance(@)] \in Seq(Batch)
          /\ Len([q EXCEPT ![1] = Advance(@)]) = Len(q)
          /\ q[1].items[q[1].pos + 1] \in Items
      BY <2>1, <2>3, LaneSteps
    <3>2. ring' = [ring EXCEPT ![p] = [q EXCEPT ![1] = Advance(@)]]
      BY <2>3
    <3>3. ring' \in [Lanes -> Seq(Batch)] /\ \A l \in Lanes : Len(ring'[l]) <= Capacity
      BY <2>1, <3>1, <3>2 DEF TypeOK
    <3>4. got' \in [Lanes -> Seq(Items)]
      BY <2>1, <2>3, <3>1 DEF TypeOK
    <3> QED
      BY <1>1, <2>1, <2>2, <2>3, <3>3, <3>4 DEF TypeOK, Shape, linkVars, taskVars
  <2>4. CASE plane' = p /\ rlane' = 1 /\ rpc' = "pull" /\ UNCHANGED <<got, ring>>
    <3>1. 1 <= p
      BY <2>1 DEF Lanes
    <3> QED
      BY <1>1, <2>1, <2>2, <2>4, <3>1 DEF TypeOK, Shape, linkVars, taskVars
  <2> QED
    BY <1>4, <2>3, <2>4 DEF ScanHead
<1>5. CASE PullEmpty
  <2>1. rlane \in Lanes /\ plane \in Lanes /\ rlane <= plane /\ rlane # plane
    BY <1>5 DEF PullEmpty, TypeOK, Shape
  <2>2. rlane + 1 \in Lanes /\ rlane + 1 <= plane
    BY <2>1 DEF Lanes
  <2> QED
    BY <1>1, <1>5, <2>2 DEF PullEmpty, TypeOK, Shape, linkVars, taskVars, sharedVars
<1>6. CASE PullHead
  <2> DEFINE q == ring[rlane]
  <2>1. rlane \in Lanes /\ q # <<>> /\ q \in Seq(Batch) /\ Head(q) \in Batch
    BY <1>6, LaneSteps DEF PullHead, TypeOK
  <2>2. ring' \in [Lanes -> Seq(Batch)] /\ \A l \in Lanes : Len(ring'[l]) <= Capacity
    <3>1. Tail(q) \in Seq(Batch) /\ Len(Tail(q)) = Len(q) - 1 /\ Len(q) \in Nat
      BY <2>1, LaneSteps, LenProperties
    <3>2. ring' = [ring EXCEPT ![rlane] = Tail(q)]
      BY <1>6 DEF PullHead
    <3> QED
      BY SMTT(30), <2>1, <3>1, <3>2 DEF TypeOK
  <2>3. overtaken' \subseteq Msgs
    <3>1. ItemMsgs(Unread(Head(q))) \subseteq Msgs
      BY <2>1, UnreadType
    <3> QED
      BY <1>6, <3>1 DEF PullHead, TypeOK
  <2>4. /\ rlane' = 1 /\ rpc' = "notify"
        /\ UNCHANGED <<linkVars, taskVars, token, arrived, expired,
                       congested, canRecv, canSend, mode, plane, got, sawClosed>>
    BY <1>6 DEF PullHead
  <2> QED
    BY <1>1, <2>2, <2>3, <2>4 DEF TypeOK, Shape, linkVars, taskVars
<1>7. CASE Pulled
  <2>1. canSend' \in [Lanes -> Signals]
    BY <1>7 DEF Pulled, NotifySpace, TypeOK
  <2> QED
    BY <1>1, <1>7, <2>1 DEF Pulled, TypeOK, Shape, linkVars, taskVars
<1>8. CASE RecvWaited
  BY <1>1, <1>8 DEF RecvWaited, TypeOK, Shape, linkVars, taskVars
<1>9. CASE RecvEnds
  BY <1>1, <1>9 DEF RecvEnds, TypeOK, Shape, linkVars, taskVars, sharedVars
<1>10. CASE StopReceiver
  BY <1>1, <1>10 DEF StopReceiver, TypeOK, Shape, linkVars, taskVars, historyVars
<1>11. CASE StopTask
  BY ZenonT(60), <1>1, <1>11 DEF StopTask, TypeOK, Shape, linkVars, taskVars,
     sharedVars, recvVars, historyVars
<1> QED
  BY <1>2, <1>3, <1>4, <1>5, <1>6, <1>7, <1>8, <1>9, <1>10, <1>11 DEF RecvStep

\* The types at the start and through every step.
LEMMA ShapeInit == Init => TypeOK /\ Shape
<1> SUFFICES ASSUME Init
             PROVE  TypeOK /\ Shape
  OBVIOUS
<1>1. <<>> \in Seq(Batch) /\ <<>> \in Seq(Nat) /\ <<>> \in Seq(Items) /\ <<>> \in Seq(Pieces)
      /\ Len(<<>>) = 0
  BY EmptySeq
<1>2. Shape
  BY RxConstants DEF Init, Shape, CurOK
<1>3. /\ dbuf \in [Lanes -> [Ccs -> [sn : Nat, id : Nat, parts : Seq(Pieces)]]]
      /\ ring \in [Lanes -> Seq(Batch)] /\ hand \in Seq(Batch)
      /\ got \in [Lanes -> Seq(Items)] /\ cur \in [Lanes -> Seq(Nat)]
      /\ \A p \in Lanes : Len(ring[p]) <= Capacity
  BY <1>1, RxConstants DEF Init
<1> QED
  BY <1>2, <1>3, RxConstants DEF Init, TypeOK, TPc, RPc, Signals

LEMMA ShapeStep == TypeOK /\ Shape /\ [Next]_vars => TypeOK' /\ Shape'
<1> SUFFICES ASSUME TypeOK, Shape, [Next]_vars
             PROVE  TypeOK' /\ Shape'
  OBVIOUS
<1>1. CASE UNCHANGED vars
  BY <1>1 DEF vars, linkVars, taskVars, sharedVars, recvVars, historyVars, TypeOK, Shape, CurOK
<1> QED
  BY <1>1, TaskTypes, RecvTypes DEF Next, RecvStarts

\* Batches, fragments and positions are what the code takes them for: a lane holds at
\* most its capacity, a position never passes the end of its batch (src/pipeline/rx.rs).
THEOREM RxTypes == Safety => []TypeOK
<1> QED
  BY ShapeInit, ShapeStep, PTL DEF Safety

----------------------------------------------------------------------------
(* Wakeups *)

\* Either the receiver will find its event set, or it is about to be.
Told == canRecv # "unset" \/ tpc = "notify"

\* recv has passed over empty lanes only, unless it has been told since.
ScanInv ==
    /\ rpc = "scan" => \A p \in Lanes : p < rlane => ring[p] = <<>> \/ Told
    /\ rpc = "wait" => \A p \in Lanes : ring[p] = <<>> \/ Told
    /\ rpc \notin {"scan", "pull"} => rlane = 1

\* A step either changes nothing that ScanInv speaks of, or is one of a few.
LEMMA ScanStep == TypeOK /\ Shape /\ ScanInv /\ [Next]_vars => ScanInv'
<1> SUFFICES ASSUME TypeOK, Shape, ScanInv, [Next]_vars
             PROVE  ScanInv'
  OBVIOUS
<1> USE RxConstants
<1>1. ASSUME UNCHANGED <<ring, rpc, rlane>>, Told => Told'
      PROVE  ScanInv'
  BY <1>1 DEF ScanInv
<1>2. CASE LinkStep \/ ReadStep
  <2>1. tpc # "notify" \/ tpc' = tpc
    BY <1>2 DEF LinkStep, ReadStep, Begin, Lose, ReadFrame, ReadFragment, taskVars
  <2>2. UNCHANGED <<ring, canRecv, rpc, rlane>>
    BY <1>2 DEF LinkStep, ReadStep, Begin, Lose, ReadFrame, ReadFragment, sharedVars, recvVars
  <2> QED
    BY <1>1, <2>1, <2>2 DEF Told
<1>3. CASE Push
  <2>1. \/ tpc' = "notify"
        \/ UNCHANGED <<ring, canRecv, rpc, rlane>> /\ tpc # "notify"
    BY <1>3 DEF Push, recvVars
  <2>2. UNCHANGED <<rpc, rlane>>
    BY <1>3 DEF Push, recvVars
  <2> QED
    BY <1>1, <2>1, <2>2 DEF ScanInv, Told
<1>4. CASE Notify \/ ReadEnds
  <2>1. canRecv' # "unset" /\ UNCHANGED <<ring, rpc, rlane>>
    BY <1>4 DEF Notify, ReadEnds, Announce, CloseTask, recvVars
  <2> QED
    BY <1>1, <2>1 DEF Told
<1>5. CASE Full \/ Waited \/ TimerFires
  <2>1. tpc # "notify" /\ UNCHANGED <<ring, rpc, rlane>> /\ (canRecv' = canRecv \/ canRecv' = "err")
    BY <1>5 DEF Full, Waited, TimerFires, Forget, CloseTask, sharedVars, recvVars
  <2> QED
    BY <1>1, <2>1 DEF Told
<1>6. CASE ScanEmpty \/ RecvStarts
  <2>1. UNCHANGED <<ring, canRecv, tpc>>
    BY <1>6 DEF ScanEmpty, RecvStarts, StartRecv, RecvOnly, sharedVars, taskVars
  <2>2. CASE RecvStarts
    BY <2>1, <2>2 DEF RecvStarts, StartRecv, ScanInv, Lanes
  <2>3. CASE ScanEmpty
    <3>1. rpc = "scan" /\ ring[rlane] = <<>> /\ rlane \in Lanes /\ (Told' <=> Told)
      BY <2>1, <2>3 DEF ScanEmpty, Told, TypeOK
    <3>2. \A p \in Lanes : p <= rlane => ring[p] = <<>> \/ Told
      BY <3>1 DEF ScanInv, Lanes
    <3>3. CASE rlane' = rlane + 1 /\ rpc' = rpc
      BY <2>1, <3>1, <3>2, <3>3 DEF ScanInv, Lanes
    <3>4. CASE rlane = NPrio /\ rlane' = 1 /\ rpc' \in {"wait", "idle"}
      BY <2>1, <3>1, <3>2, <3>4 DEF ScanInv, Lanes
    <3> QED
      BY <2>3, <3>3, <3>4 DEF ScanEmpty
  <2> QED
    BY <1>6, <2>2, <2>3
<1>7. CASE ScanHead
  BY <1>7 DEF ScanHead, ScanInv
<1>8. CASE PullEmpty \/ PullHead
  BY <1>8 DEF PullEmpty, PullHead, ScanInv
<1>9. CASE Pulled \/ RecvWaited
  <2>1. rlane = 1 /\ rlane' = 1 /\ rpc' \in {"scan", "idle"}
    BY <1>9 DEF Pulled, RecvWaited, ScanInv
  <2> QED
    BY <2>1 DEF ScanInv, Lanes
<1>10. CASE RecvEnds \/ StopReceiver
  BY <1>10 DEF RecvEnds, StopReceiver, ScanInv
<1>11. CASE StopTask
  BY <1>1, <1>11 DEF StopTask, taskVars, sharedVars, recvVars, Told
<1>12. CASE UNCHANGED vars
  BY <1>1, <1>12 DEF vars, taskVars, sharedVars, recvVars, Told
<1> QED
  BY <1>2, <1>3, <1>4, <1>5, <1>6, <1>7, <1>8, <1>9, <1>10, <1>11, <1>12
  DEF Next, TaskStep, RecvStep, RecvStarts

\* recv never waits for a batch that is there: between the scan that finds the lanes
\* empty and the wait, nothing arrives unannounced (try_pull, can_recv.wait).
THEOREM ArrivalsAnnounced == Safety => []ArrivalNotMissed
<1>1. Init => ScanInv
  BY DEF Init, ScanInv
<1>2. ScanInv => ArrivalNotMissed
  BY DEF ScanInv, Told, ArrivalNotMissed
<1> QED
  BY <1>1, <1>2, ShapeInit, ShapeStep, ScanStep, PTL DEF Safety

----------------------------------------------------------------------------
(* Space *)

\* A batch that arrives in a lane that a scan has passed over has not been read from:
\* a pull that takes it instead of the one that was peeked loses messages.
HeadFresh(p) == ring[p] # <<>> => ring[p][1].pos = 0
FreshInv ==
    /\ hand # <<>> => hand[1].pos = 0
    /\ rpc = "scan" => \A p \in Lanes : p < rlane => HeadFresh(p)
    /\ rpc = "pull" => \A p \in Lanes : p < plane => HeadFresh(p)

\* The reader task that has found its lane full will be told of space.
WillBeTold(l) ==
    \/ canSend[l] # "unset" \/ Len(ring[l]) >= Capacity
    \/ rpc = "notify" /\ plane = l
    \/ overtaken # {}
SpaceInv == tpc \in {"full", "wait"} => WillBeTold(InLane)

\* Fresh batches stay fresh while a scan or a pull is under way.
LEMMA FreshStep == TypeOK /\ Shape /\ ScanInv /\ FreshInv /\ [Next]_vars => FreshInv'
<1> SUFFICES ASSUME TypeOK, Shape, ScanInv, FreshInv, [Next]_vars
             PROVE  FreshInv'
  OBVIOUS
<1> USE RxConstants
<1>1. ASSUME UNCHANGED <<ring, recvVars>>, hand' # <<>> => hand'[1].pos = 0
      PROVE  FreshInv'
  BY <1>1 DEF FreshInv, HeadFresh, recvVars
<1>2. CASE LinkStep
  BY <1>1, <1>2 DEF LinkStep, Begin, Lose, taskVars, sharedVars, FreshInv
<1>3. CASE ReadStep
  <2>1. hand' # <<>> => hand'[1].pos = 0
    <3>1. ASSUME NEW p \in Lanes, NEW ms \in Frames(p), ReadFrame(p, ms)
          PROVE  hand'[1].pos = 0
      BY <3>1 DEF ReadFrame
    <3>2. ASSUME NEW p \in Lanes, ReadFragment(p)
          PROVE  hand' = hand \/ hand'[1].pos = 0
      <4>1. \/ hand' = hand
            \/ \E c, items : hand' = <<[prio |-> p, cc |-> c, pos |-> 0, items |-> items]>>
        BY <3>2, Zenon DEF ReadFragment
      <4> QED
        BY <4>1
    <3> QED
      BY <1>3, <3>1, <3>2 DEF ReadStep, FreshInv
  <2>2. UNCHANGED <<ring, recvVars>>
    BY <1>3 DEF ReadStep, ReadFrame, ReadFragment, sharedVars
  <2> QED
    BY <1>1, <2>1, <2>2
<1>4. CASE Push
  <2>1. PICK b \in Batch : hand = <<b>> /\ b.pos = 0
    BY <1>4 DEF Push, Shape, FreshInv
  <2>2. CASE UNCHANGED <<ring, hand>>
    BY <1>1, <1>4, <2>2 DEF Push, FreshInv
  <2>3. CASE hand' = <<>> /\ ring' = [ring EXCEPT ![InLane] = @ \o hand]
    <3>1. ASSUME NEW p \in Lanes, HeadFresh(p)
          PROVE  HeadFresh(p)'
      <4>1. CASE p # InLane
        BY <2>3, <3>1, <4>1 DEF HeadFresh, TypeOK
      <4>2. CASE p = InLane
        <5>1. ring'[p] = ring[p] \o <<b>> /\ ring[p] \in Seq(Batch)
          BY <2>1, <2>3, <4>2 DEF TypeOK
        <5>2. (ring[p] \o <<b>>)[1] = IF ring[p] = <<>> THEN b ELSE ring[p][1]
          <6>1. /\ <<b>> \in Seq(Batch) /\ Len(<<b>>) = 1 /\ <<b>>[1] = b
                /\ Len(ring[p]) \in Nat /\ (ring[p] # <<>> => Len(ring[p]) > 0)
                /\ (ring[p] = <<>> => Len(ring[p]) = 0)
            BY <5>1, EmptySeq, LenProperties
          <6>2. 1 \in 1..(Len(ring[p]) + Len(<<b>>))
            BY <6>1
          <6>3. (ring[p] \o <<b>>)[1]
                    = IF 1 <= Len(ring[p]) THEN ring[p][1] ELSE <<b>>[1 - Len(ring[p])]
            BY <5>1, <6>1, <6>2, ConcatProperties
          <6> QED
            BY <6>1, <6>3
        <5> QED
          BY <2>1, <3>1, <5>1, <5>2 DEF HeadFresh
      <4> QED
        BY <4>1, <4>2
    <3>2. UNCHANGED recvVars
      BY <1>4 DEF Push
    <3> QED
      BY <2>3, <3>1, <3>2 DEF FreshInv, recvVars
  <2> QED
    BY <1>4, <2>2, <2>3 DEF Push
<1>5. CASE Notify \/ ReadEnds \/ Full \/ Waited \/ TimerFires
  <2>1. hand' = hand \/ hand' = <<>>
    BY <1>5 DEF Notify, ReadEnds, Full, Waited, TimerFires, Forget, CloseTask
  <2>2. UNCHANGED <<ring, recvVars>>
    BY <1>5 DEF Notify, ReadEnds, Full, Waited, TimerFires, Forget, CloseTask, sharedVars
  <2> QED
    BY <1>1, <2>1, <2>2 DEF FreshInv
<1>6. ASSUME RecvOnly
      PROVE  hand' # <<>> => hand'[1].pos = 0
  BY <1>6 DEF RecvOnly, taskVars, FreshInv
<1>7. CASE RecvStarts
  BY <1>6, <1>7 DEF RecvStarts, StartRecv, FreshInv, Lanes
<1>8. CASE ScanEmpty
  <2>1. /\ rpc = "scan" /\ ring[rlane] = <<>> /\ UNCHANGED <<ring, plane>> /\ RecvOnly
        /\ rlane \in Lanes
    BY <1>8 DEF ScanEmpty, sharedVars, TypeOK
  <2>2. CASE rlane' = rlane + 1 /\ rpc' = rpc
    BY <1>6, <2>1, <2>2 DEF FreshInv, HeadFresh, Lanes
  <2>3. CASE rpc' \in {"wait", "idle"}
    BY <1>6, <2>1, <2>3 DEF FreshInv
  <2> QED
    BY <1>8, <2>2, <2>3 DEF ScanEmpty
<1>9. CASE ScanHead
  <2>1. rpc = "scan" /\ RecvOnly
    BY <1>9 DEF ScanHead
  <2>2. \/ rpc' = "idle"
        \/ plane' = rlane /\ rpc' = "pull" /\ ring' = ring
    BY <1>9 DEF ScanHead
  <2> QED
    BY <1>6, <2>1, <2>2 DEF FreshInv, HeadFresh
<1>10. CASE PullEmpty
  BY <1>6, <1>10 DEF PullEmpty, FreshInv, HeadFresh, sharedVars
<1>11. CASE PullHead
  BY <1>6, <1>11 DEF PullHead, FreshInv
<1>12. CASE Pulled \/ RecvWaited
  <2>1. rlane' = 1 /\ rpc' \in {"scan", "idle"} /\ RecvOnly
    BY <1>12 DEF Pulled, RecvWaited, ScanInv
  <2> QED
    BY <1>6, <2>1 DEF FreshInv, Lanes
<1>13. CASE RecvEnds
  BY <1>6, <1>13 DEF RecvEnds, FreshInv
<1>14. CASE StopReceiver
  BY <1>14 DEF StopReceiver, FreshInv, taskVars
<1>15. CASE StopTask \/ UNCHANGED vars
  <2>1. UNCHANGED <<ring, recvVars, hand>>
    BY <1>15 DEF StopTask, vars, taskVars, sharedVars, recvVars
  <2> QED
    BY <1>1, <2>1 DEF FreshInv
<1> QED
  BY <1>2, <1>3, <1>4, <1>5, <1>7, <1>8, <1>9, <1>10, <1>11, <1>12, <1>13, <1>14, <1>15
  DEF Next, TaskStep, RecvStep, RecvStarts

\* Every step keeps the promise to a reader task that has found its lane full.
LEMMA SpaceStep == TypeOK /\ Shape /\ FreshInv /\ SpaceInv /\ [Next]_vars => SpaceInv'
<1> SUFFICES ASSUME TypeOK, Shape, FreshInv, SpaceInv, [Next]_vars,
                    tpc' \in {"full", "wait"}
             PROVE  WillBeTold(InLane)'
  BY DEF SpaceInv
<1> USE RxConstants
<1>1. ASSUME UNCHANGED <<ring, canSend, rpc, plane, overtaken, hand>>, tpc \in {"full", "wait"}
      PROVE  WillBeTold(InLane)'
  BY <1>1 DEF SpaceInv, WillBeTold, InLane
<1>2. ~(ReadStep \/ Notify \/ ReadEnds \/ Waited \/ TimerFires)
  BY DEF ReadStep, ReadFrame, ReadFragment, Notify, ReadEnds, Waited, TimerFires, Forget, CloseTask,
         TypeOK, TPc
<1>3. CASE LinkStep
  BY <1>1, <1>3 DEF LinkStep, Begin, Lose, taskVars, sharedVars, recvVars, historyVars
<1>4. CASE Push
  <2>1. InLane \in Lanes
    BY <1>4 DEF Push, Shape, InLane, Batch
  <2>2. ~HasSpace(InLane) /\ ring' = ring /\ hand' = hand
    BY <1>4 DEF Push
  <2>3. Len(ring[InLane]) >= Capacity
    BY <2>1, <2>2, LenProperties DEF HasSpace, TypeOK
  <2> QED
    BY <2>2, <2>3 DEF WillBeTold, InLane
<1>5. CASE Full
  BY <1>1, <1>5 DEF Full, Forget, sharedVars, recvVars, historyVars
<1>6. ASSUME RecvOnly
      PROVE  hand' = hand /\ tpc \in {"full", "wait"} /\ InLane' = InLane /\ InLane \in Lanes
  <2>1. hand' = hand /\ tpc' = tpc
    BY <1>6 DEF RecvOnly, taskVars
  <2> QED
    BY <2>1 DEF Shape, InLane, Batch
<1>7. CASE RecvStarts \/ ScanEmpty \/ PullEmpty \/ RecvEnds \/ RecvWaited
  <2>1. RecvOnly /\ UNCHANGED <<ring, canSend, plane, overtaken>> /\ rpc # "notify"
    BY <1>7 DEF RecvStarts, StartRecv, ScanEmpty, PullEmpty, RecvEnds, RecvWaited, sharedVars
  <2> QED
    BY <1>6, <2>1 DEF SpaceInv, WillBeTold
<1>8. CASE ScanHead
  <2>1. rpc = "scan" /\ RecvOnly /\ UNCHANGED <<canSend, overtaken>>
    BY <1>8 DEF ScanHead
  <2>2. \A p \in Lanes : Len(ring'[p]) = Len(ring[p])
    <3>1. CASE ring' = ring
      BY <3>1
    <3>2. CASE /\ ring[rlane][1].pos < Len(ring[rlane][1].items)
               /\ ring' = [ring EXCEPT ![rlane][1] = Advance(@)]
      <4>1. rlane \in Lanes /\ ring[rlane] \in Seq(Batch) /\ ring[rlane] # <<>>
        BY <1>8 DEF ScanHead, TypeOK
      <4>2. Len([ring[rlane] EXCEPT ![1] = Advance(@)]) = Len(ring[rlane])
        BY <3>2, <4>1, LaneSteps
      <4> QED
        BY <3>2, <4>1, <4>2 DEF TypeOK
    <3> QED
      BY <1>8, <3>1, <3>2 DEF ScanHead
  <2> QED
    BY <1>6, <2>1, <2>2 DEF SpaceInv, WillBeTold
<1>9. CASE PullHead
  <2> DEFINE q == ring[rlane]
  <2>1. /\ rpc = "pull" /\ RecvOnly /\ UNCHANGED <<canSend, plane>> /\ rpc' = "notify"
        /\ rlane \in Lanes /\ plane \in Lanes /\ q # <<>> /\ q \in Seq(Batch)
        /\ ring' = [ring EXCEPT ![rlane] = Tail(@)]
        /\ overtaken \subseteq overtaken'
    BY <1>9 DEF PullHead, TypeOK
  <2>2. CASE rlane = plane
    <3>1. InLane = plane \/ ring'[InLane] = ring[InLane]
      BY <1>6, <2>1, <2>2 DEF TypeOK
    <3> QED
      BY <1>6, <2>1, <3>1 DEF SpaceInv, WillBeTold
  <2>3. CASE rlane # plane
    <3>1. rlane < plane
      BY <2>1, <2>3 DEF Shape, Lanes
    <3>2. q[1].pos = 0 /\ q[1] \in Batch /\ Head(q) = q[1]
      BY <2>1, <3>1, LaneSteps DEF FreshInv, HeadFresh
    <3>3. ItemMsgs(Unread(Head(q))) # {}
      BY <3>2, UnreadType
    <3>4. overtaken' # {}
      BY <1>9, <2>3, <3>3 DEF PullHead
    <3> QED
      BY <3>4 DEF WillBeTold
  <2> QED
    BY <2>2, <2>3
<1>10. CASE Pulled
  <2>1. /\ RecvOnly /\ UNCHANGED <<ring, plane, overtaken>>
        /\ canSend'[plane] # "unset" /\ \A l \in Lanes : l # plane => canSend'[l] = canSend[l]
    BY <1>10 DEF Pulled, NotifySpace, TypeOK
  <2> QED
    BY <1>6, <2>1 DEF SpaceInv, WillBeTold
<1>11. CASE StopReceiver
  <2>1. hand # <<>> /\ UNCHANGED <<hand, tpc>> /\ canSend' = [p \in Lanes |-> "err"]
    BY <1>11 DEF StopReceiver, taskVars, Shape
  <2>2. InLane' \in Lanes
    BY <2>1 DEF Shape, InLane, Batch
  <2> QED
    BY <2>1, <2>2 DEF WillBeTold
<1>12. CASE StopTask \/ UNCHANGED vars
  BY <1>1, <1>12 DEF StopTask, vars, taskVars, sharedVars, recvVars, historyVars
<1> QED
  BY <1>2, <1>3, <1>4, <1>5, <1>7, <1>8, <1>9, <1>10, <1>11, <1>12
  DEF Next, TaskStep, RecvStep, RecvStarts

\* The reader task never waits for space that is there, unless a pull has notified the
\* lane of another batch (the loop of PipelineRxIn::push, try_pull).
THEOREM SpaceAnnounced == Safety => []SpaceNotMissed
<1>1. Init => FreshInv /\ SpaceInv
  BY RxConstants DEF Init, FreshInv, SpaceInv, Lanes
<1>2. TypeOK /\ Shape /\ SpaceInv => SpaceNotMissed
  <2> SUFFICES ASSUME TypeOK, Shape, SpaceInv, tpc = "wait"
               PROVE  Len(ring[InLane]) >= Capacity => Len(ring[InLane]) = Capacity
    BY DEF SpaceInv, WillBeTold, SpaceNotMissed
  <2>1. InLane \in Lanes
    BY DEF Shape, InLane, Batch
  <2>2. Len(ring[InLane]) \in Nat /\ Len(ring[InLane]) <= Capacity
    BY <2>1, LenProperties DEF TypeOK
  <2> QED
    BY <2>2, RxConstants
<1>3. Init => ScanInv
  BY DEF Init, ScanInv
<1> QED
  BY <1>1, <1>2, <1>3, ShapeInit, ShapeStep, ScanStep, FreshStep, SpaceStep, PTL DEF Safety

----------------------------------------------------------------------------
(* The inductive invariant of reassembly *)

\* The buffer of the message that is being sent holds its first fragments, and the
\* sequence number it waits for is the one of the next; or it has missed one and waits
\* for a number that is past.  No other buffer has the message's id.
DefragInv(p, c) ==
    LET d == dbuf[p][c] IN
    /\ d.id <= fragid[p]
    /\ cur[p] # <<>> /\ cur[p][2] = 0 => d.id < fragid[p]
    /\ cur[p] # <<>> /\ CcOf[cur[p][1]] = c /\ cur[p][2] > 0 /\ d.id = fragid[p] =>
        \/ d.parts = <<>> /\ d.sn < nextsn[p][c]
        \/ /\ \A k \in 1..Len(d.parts) : d.parts[k] = <<cur[p][1], k>>
           /\ Len(d.parts) <= cur[p][2]
           /\ d.sn - Len(d.parts) = nextsn[p][c] - cur[p][2]
FragInv == \A p \in Lanes, c \in Ccs : DefragInv(p, c)

\* Whole messages of a lane, and batches that carry nothing else.
WholeItems(p) == {Whole(m) : m \in {n \in Msgs : PrioOf[n] = p}}
WholeBatches(p) == {b \in Batch : b.items \in Seq(WholeItems(p))}
HoldInv ==
    /\ hand # <<>> => hand[1] \in WholeBatches(hand[1].prio)
    /\ \A p \in Lanes : ring[p] \in Seq(WholeBatches(p)) /\ got[p] \in Seq(WholeItems(p))

\* A message as it is sent.
LEMMA WholeType ==
    ASSUME NEW m \in Msgs
    PROVE  /\ Whole(m) \in Seq(Pieces) /\ Len(Whole(m)) = FragsOf[m] /\ Whole(m) # <<>>
           /\ \A k \in 1..FragsOf[m] : Whole(m)[k] = <<m, k>>
           /\ Whole(m)[1][1] = m
           /\ FragsOf[m] = 1 => Whole(m) = <<<<m, 1>>>>
<1>1. FragsOf[m] \in Nat /\ FragsOf[m] > 0
  BY RxConstants
<1>2. Whole(m) \in [1..FragsOf[m] -> Pieces]
  BY <1>1 DEF Whole, Pieces
<1>3. Whole(m) \in Seq(Pieces) /\ Len(Whole(m)) = FragsOf[m]
  BY <1>1, <1>2, SeqDef, LenProperties
<1>4. \A k \in 1..FragsOf[m] : Whole(m)[k] = <<m, k>>
  BY DEF Whole
<1>5. Whole(m) # <<>> /\ Whole(m)[1] = <<m, 1>>
  BY <1>1, <1>3, <1>4
<1>6. FragsOf[m] = 1 => Whole(m) = <<<<m, 1>>>>
  <2>1. <<<<m, 1>>>> \in Seq(Pieces) /\ Len(<<<<m, 1>>>>) = 1 /\ <<<<m, 1>>>>[1] = <<m, 1>>
    BY DEF Pieces
  <2> QED
    BY <1>3, <1>4, <2>1, SeqEqual
<1> QED
  BY <1>3, <1>4, <1>5, <1>6

\* The beginning of a message and its next piece are a longer beginning, and the whole
\* when the piece is the last.
LEMMA LongerBeginning ==
    ASSUME NEW m \in Msgs, NEW parts \in Seq(Pieces),
           \A k \in 1..Len(parts) : parts[k] = <<m, k>>
    PROVE  LET q == Append(parts, <<m, Len(parts) + 1>>) IN
           /\ q \in Seq(Pieces) /\ Len(q) = Len(parts) + 1
           /\ \A k \in 1..Len(q) : q[k] = <<m, k>>
           /\ FragsOf[m] = Len(parts) + 1 => q = Whole(m)
<1> DEFINE q == Append(parts, <<m, Len(parts) + 1>>)
<1>1. Len(parts) \in Nat /\ <<m, Len(parts) + 1>> \in Pieces
  BY LenProperties DEF Pieces
<1>2. /\ q \in Seq(Pieces) /\ Len(q) = Len(parts) + 1
      /\ \A k \in 1..Len(parts) : q[k] = parts[k]
      /\ q[Len(parts) + 1] = <<m, Len(parts) + 1>>
  BY <1>1, AppendProperties
<1> HIDE DEF q
<1>3. \A k \in 1..Len(q) : q[k] = <<m, k>>
  BY <1>1, <1>2
<1>4. FragsOf[m] = Len(parts) + 1 => q = Whole(m)
  <2> SUFFICES ASSUME FragsOf[m] = Len(parts) + 1
               PROVE  q = Whole(m)
    OBVIOUS
  <2>1. Whole(m) \in Seq(Pieces) /\ Len(Whole(m)) = Len(q)
    BY <1>2, WholeType
  <2>2. Len(q) = FragsOf[m]
    BY <1>2
  <2>3. \A k \in 1..Len(q) : q[k] = Whole(m)[k]
    <3> SUFFICES ASSUME NEW k \in 1..Len(q)
                 PROVE  q[k] = Whole(m)[k]
      OBVIOUS
    <3>1. q[k] = <<m, k>>
      BY <1>3
    <3>2. k \in 1..FragsOf[m]
      BY <2>2
    <3>3. Whole(m)[k] = <<m, k>>
      BY <3>2, WholeType
    <3> QED
      BY <3>1, <3>3
  <2> QED
    BY <1>2, <2>1, <2>3, SeqEqual
<1> QED
  BY <1>2, <1>3, <1>4 DEF q

----------------------------------------------------------------------------
(* The link and the fragments *)

\* The batch made of the fragments of the message that a lane is sending.
Assembled(p) ==
    [prio |-> p, cc |-> CcOf[cur[p][1]], pos |-> 0, items |-> <<Whole(cur[p][1])>>]

\* The reader task takes a fragment: the invariant is kept, and a batch made of
\* fragments is a whole message.
LEMMA ReadFragmentWhole ==
    ASSUME TypeOK, Shape, FragInv, NEW p \in Lanes, ReadFragment(p)
    PROVE  /\ FragInv'
           /\ hand' = hand \/ \E b \in WholeBatches(p) : b.prio = p /\ hand' = <<b>>
           /\ \/ UNCHANGED <<hand, arrived>>
              \/ /\ hand' = <<Assembled(p)>> /\ arrived' = arrived \cup {cur[p][1]}
                 /\ cur' = [cur EXCEPT ![p] = <<>>]
<1> USE RxConstants
<1>1. PICK m \in Msgs, i \in Nat : /\ cur[p] = <<m, i>> /\ PrioOf[m] = p
                                  /\ i < FragsOf[m] /\ FragsOf[m] > 1
  BY DEF ReadFragment, Shape, CurOK
<1>2. PICK c \in Ccs : c = CcOf[m]
  OBVIOUS
<1>3. Frag(p) = [m |-> m, i |-> i + 1] /\ cur[p][1] = m /\ cur[p][2] = i /\ cur[p] # <<>>
  BY <1>1 DEF Frag
<1>4. PICK sn \in Nat, id \in Nat : sn = nextsn[p][c] /\ id = fragid[p]
  <2>1. nextsn[p] \in [Ccs -> Nat] /\ fragid[p] \in Nat
    BY DEF TypeOK
  <2> QED
    BY <2>1
<1>5. PICK k \in {"first", "more", "last"} :
        /\ k = KindOf(Frag(p))
        /\ k = "first" <=> i = 0
        /\ k = "last" <=> i + 1 = FragsOf[m]
  <2>1. Frag(p).i = i + 1 /\ Frag(p).m = m
    BY <1>3
  <2> QED
    BY <1>1, <2>1 DEF KindOf
<1>6. PICK old : old = dbuf[p][c]
  OBVIOUS
<1>7. old \in [sn : Nat, id : Nat, parts : Seq(Pieces)]
  <2>1. dbuf[p] \in [Ccs -> [sn : Nat, id : Nat, parts : Seq(Pieces)]]
    BY DEF TypeOK
  <2> QED
    BY <1>6, <2>1
\* The buffer that the fragment is checked against.
<1>8. PICK dsn \in Nat, did \in Nat, dparts \in Seq(Pieces) :
        [sn |-> dsn, id |-> did, parts |-> dparts]
            = IF k = "first" THEN [sn |-> sn, id |-> id, parts |-> <<>>] ELSE old
  <2>1. <<>> \in Seq(Pieces)
    BY EmptySeq
  <2>2. CASE k = "first"
    BY <2>1, <2>2
  <2>3. CASE k # "first"
    <3>1. old = [sn |-> old.sn, id |-> old.id, parts |-> old.parts]
      BY <1>7
    <3> QED
      BY <1>7, <2>3, <3>1
  <2> QED
    BY <2>2, <2>3
<1>9. PICK d : d = [sn |-> dsn, id |-> did, parts |-> dparts]
  OBVIOUS
<1>10. Len(dparts) \in Nat /\ Len(<<>>) = 0 /\ (Len(dparts) = 0 <=> dparts = <<>>)
  BY EmptySeq, LenProperties
<1>11. /\ did <= id
       /\ did = id =>
            \/ dparts = <<>> /\ dsn < sn /\ i > 0
            \/ /\ \A j \in 1..Len(dparts) : dparts[j] = <<m, j>>
               /\ Len(dparts) <= i /\ dsn - Len(dparts) = sn - i
  <2>1. CASE k = "first"
    <3>1. dsn = sn /\ did = id /\ dparts = <<>> /\ i = 0
      BY <1>5, <1>8, <2>1
    <3> QED
      BY <1>10, <3>1
  <2>2. CASE k # "first"
    <3>1. DefragInv(p, c)
      BY DEF FragInv
    <3>2. old.sn = dsn /\ old.id = did /\ old.parts = dparts /\ i > 0
      BY <1>5, <1>8, <2>2
    <3> QED
      BY <1>2, <1>3, <1>4, <1>6, <3>1, <3>2 DEF DefragInv
  <2> QED
    BY <2>1, <2>2
<1>12. PICK ok \in BOOLEAN : ok <=> sn = dsn /\ id = did /\ Len(dparts) < FragMax
  OBVIOUS
<1>13. PICK longer : longer = Append(dparts, <<m, i + 1>>)
  OBVIOUS
\* An accepted fragment is the next one.
<1>14. ok => /\ longer \in Seq(Pieces) /\ Len(longer) = i + 1
             /\ \A j \in 1..Len(longer) : longer[j] = <<m, j>>
             /\ k = "last" => longer = Whole(m)
  <2> SUFFICES ASSUME ok
               PROVE  /\ longer \in Seq(Pieces) /\ Len(longer) = i + 1
                      /\ \A j \in 1..Len(longer) : longer[j] = <<m, j>>
                      /\ k = "last" => longer = Whole(m)
    OBVIOUS
  <2>1. Len(dparts) = i /\ \A j \in 1..Len(dparts) : dparts[j] = <<m, j>>
    BY <1>10, <1>11, <1>12
  <2>2. /\ longer \in Seq(Pieces) /\ Len(longer) = Len(dparts) + 1
        /\ \A j \in 1..Len(longer) : longer[j] = <<m, j>>
        /\ FragsOf[m] = Len(dparts) + 1 => longer = Whole(m)
    BY <1>13, <2>1, LongerBeginning
  <2> QED
    BY <1>5, <2>1, <2>2
\* What becomes of the buffer, and of the task's hand.
<1>15. PICK new :
        /\ dbuf' = [dbuf EXCEPT ![p][c] = new]
        /\ \/ ok /\ k # "last" /\ new = [sn |-> dsn + 1, id |-> did, parts |-> longer]
           \/ ok /\ k = "last" /\ new = [sn |-> dsn + 1, id |-> did, parts |-> <<>>]
           \/ ~ok /\ k # "more" /\ new = [sn |-> dsn, id |-> did, parts |-> dparts]
           \/ ~ok /\ k = "more" /\ new = [sn |-> dsn, id |-> did, parts |-> <<>>]
        /\ \/ UNCHANGED <<hand, arrived>>
           \/ /\ ok /\ k = "last" /\ arrived' = arrived \cup {m}
              /\ hand' = <<[prio |-> p, cc |-> c, pos |-> 0, items |-> <<longer>>]>>
  <2>1. d = IF k = "first" THEN Start(old, sn, id) ELSE old
    BY <1>8, <1>9 DEF Start
  <2>2. Accepts(d, sn, id) <=> ok
    BY <1>9, <1>12 DEF Accepts
  <2>3. /\ Extended(d, <<m, i + 1>>) = [sn |-> dsn + 1, id |-> did, parts |-> longer]
        /\ [d EXCEPT !.parts = <<>>] = [sn |-> dsn, id |-> did, parts |-> <<>>]
        /\ [Extended(d, <<m, i + 1>>) EXCEPT !.parts = <<>>]
                = [sn |-> dsn + 1, id |-> did, parts |-> <<>>]
        /\ Extended(d, <<m, i + 1>>).parts = longer
    <3>1. d.sn = dsn /\ d.id = did /\ d.parts = dparts
      BY <1>9
    <3>2. Extended(d, <<m, i + 1>>) = [sn |-> dsn + 1, id |-> did, parts |-> longer]
      BY <1>13, <3>1 DEF Extended
    <3>3. \A x, y, z : [[sn |-> x, id |-> y, parts |-> z] EXCEPT !.parts = <<>>]
                            = [sn |-> x, id |-> y, parts |-> <<>>]
      OBVIOUS
    <3>4. [d EXCEPT !.parts = <<>>] = [sn |-> dsn, id |-> did, parts |-> <<>>]
      BY <1>9, <3>3
    <3>5. [Extended(d, <<m, i + 1>>) EXCEPT !.parts = <<>>]
            = [sn |-> dsn + 1, id |-> did, parts |-> <<>>]
      BY ZenonT(30), <3>2, <3>3
    <3> QED
      BY <3>2, <3>4, <3>5
  <2>4. \/ /\ ~ok /\ UNCHANGED <<hand, arrived>>
           /\ dbuf' = [dbuf EXCEPT ![p][c] = IF k = "more" THEN [d EXCEPT !.parts = <<>>] ELSE d]
        \/ /\ ok /\ k # "last" /\ UNCHANGED <<hand, arrived>>
           /\ dbuf' = [dbuf EXCEPT ![p][c] = Extended(d, <<m, i + 1>>)]
        \/ /\ ok /\ k = "last" /\ arrived' = arrived \cup {m}
           /\ dbuf' = [dbuf EXCEPT ![p][c] = [Extended(d, <<m, i + 1>>) EXCEPT !.parts = <<>>]]
           /\ hand' = <<[prio |-> p, cc |-> c, pos |-> 0,
                         items |-> <<Extended(d, <<m, i + 1>>).parts>>]>>
    <3>1. Frag(p).m = m /\ Frag(p).i = i + 1
      BY <1>3
    <3>2. c = CcOf[Frag(p).m] /\ old = dbuf[p][CcOf[Frag(p).m]]
          /\ sn = nextsn[p][CcOf[Frag(p).m]]
      BY <1>2, <1>4, <1>6, <3>1
    <3> QED
      BY <1>4, <1>5, <2>1, <2>2, <3>1, <3>2 DEF ReadFragment
  <2>5. CASE ~ok /\ UNCHANGED <<hand, arrived>>
    BY <1>9, <2>3, <2>4, <2>5
  <2>6. CASE ok
    BY <2>3, <2>4, <2>6
  <2> QED
    BY <2>4, <2>5, <2>6
<1>18. /\ cur' = [cur EXCEPT ![p] = IF k = "last" THEN <<>> ELSE <<m, i + 1>>]
       /\ nextsn' = [nextsn EXCEPT ![p][c] = @ + 1] /\ fragid' = fragid
  BY <1>2, <1>3, <1>5 DEF ReadFragment, FragSent, UseSn
<1>19. /\ new.id <= id
       /\ k # "last" /\ new.id = id =>
            \/ new.parts = <<>> /\ new.sn < sn + 1
            \/ /\ \A j \in 1..Len(new.parts) : new.parts[j] = <<m, j>>
               /\ Len(new.parts) <= i + 1 /\ new.sn - Len(new.parts) = sn - i
  <2>1. CASE ok /\ k # "last" /\ new = [sn |-> dsn + 1, id |-> did, parts |-> longer]
    <3>1. new.id = id /\ new.parts = longer /\ new.sn = sn + 1
      BY <1>12, <2>1
    <3>2. Len(longer) = i + 1 /\ \A j \in 1..Len(longer) : longer[j] = <<m, j>>
      BY <1>14, <2>1
    <3>3. (sn + 1) - (i + 1) = sn - i /\ i + 1 <= i + 1
      OBVIOUS
    <3> QED
      BY <3>1, <3>2, <3>3
  <2>2. CASE ok /\ k = "last" /\ new = [sn |-> dsn + 1, id |-> did, parts |-> <<>>]
    BY <1>11, <2>2
  <2>3. CASE ~ok /\ k # "more" /\ new = [sn |-> dsn, id |-> did, parts |-> dparts]
    <3>1. new.id = did /\ new.parts = dparts /\ new.sn = dsn
      BY <2>3
    <3> QED
      BY <1>5, <1>8, <1>10, <1>11, <2>3, <3>1
  <2>4. CASE ~ok /\ k = "more" /\ new = [sn |-> dsn, id |-> did, parts |-> <<>>]
    <3>1. new.id = did /\ new.parts = <<>> /\ new.sn = dsn
      BY <2>4
    <3>2. did = id => dsn <= sn
      BY <1>10, <1>11
    <3> QED
      BY <1>11, <3>1, <3>2
  <2> QED
    BY <1>15, <2>1, <2>2, <2>3, <2>4
<1>16. FragInv'
  <2> SUFFICES ASSUME NEW q \in Lanes, NEW z \in Ccs
               PROVE  DefragInv(q, z)'
    BY DEF FragInv
  <2>1. DefragInv(q, z)
    BY DEF FragInv
  <2>2. CASE q # p
    BY <1>18, <1>15, <2>1, <2>2 DEF DefragInv, TypeOK
  <2>3. CASE q = p /\ z = c
    <3>1. dbuf'[q][z] = new /\ nextsn'[q][z] = sn + 1 /\ fragid'[q] = id
      BY <1>4, <1>18, <1>15, <2>3 DEF TypeOK
    <3>2. cur'[q] = IF k = "last" THEN <<>> ELSE <<m, i + 1>>
      BY <1>18, <2>3 DEF TypeOK
    <3>3. (sn + 1) - (i + 1) = sn - i /\ i + 1 > 0 /\ i + 1 # 0
      OBVIOUS
    <3>4. CASE k = "last"
      BY <1>19, <3>1, <3>2, <3>4 DEF DefragInv
    <3>5. CASE k # "last"
      <4>1. cur'[q][1] = m /\ cur'[q][2] = i + 1
        BY <3>2, <3>5
      <4> QED
        BY <1>19, <3>1, <3>3, <3>5, <4>1 DEF DefragInv
    <3> QED
      BY <3>4, <3>5
  <2>4. CASE q = p /\ z # c
    <3>1. dbuf'[q][z] = dbuf[q][z] /\ nextsn'[q][z] = nextsn[q][z] /\ fragid'[q] = fragid[q]
      BY <1>18, <1>15, <2>4 DEF TypeOK
    <3>2. cur'[q] = IF k = "last" THEN <<>> ELSE <<m, i + 1>>
      BY <1>18, <2>4 DEF TypeOK
    <3>3. cur'[q] # <<>> => cur'[q][1] = m /\ cur'[q][2] # 0
      BY <3>2
    <3>4. dbuf[q][z].id <= fragid[q]
      BY <2>1 DEF DefragInv
    <3> QED
      BY <1>2, <2>4, <3>1, <3>3, <3>4 DEF DefragInv
  <2> QED
    BY <2>2, <2>3, <2>4
<1>17. hand' = hand \/ \E b \in WholeBatches(p) : b.prio = p /\ hand' = <<b>>
  <2>1. CASE /\ ok /\ k = "last"
             /\ hand' = <<[prio |-> p, cc |-> c, pos |-> 0, items |-> <<longer>>]>>
    <3>1. longer = Whole(m) /\ longer \in Items /\ longer \in WholeItems(p)
      BY <1>1, <1>14, <2>1, WholeType DEF Items, WholeItems
    <3>2. /\ <<longer>> \in Seq(Items) /\ <<longer>> \in Seq(WholeItems(p))
          /\ <<longer>> # <<>> /\ Len(<<longer>>) = 1
      BY <3>1
    <3>3. c \in Ccs /\ p \in Lanes
      BY <1>2
    <3>4. \A x \in Seq(Items) :
            Len(x) = 1 /\ x # <<>> => [prio |-> p, cc |-> c, pos |-> 0, items |-> x] \in Batch
      BY <3>3 DEF Batch
    <3>5. [prio |-> p, cc |-> c, pos |-> 0, items |-> <<longer>>] \in WholeBatches(p)
      BY <3>2, <3>3, <3>4 DEF WholeBatches
    <3> QED
      BY <2>1, <3>5
  <2> QED
    BY <1>15, <2>1
<1>20. \/ UNCHANGED <<hand, arrived>>
       \/ /\ hand' = <<Assembled(p)>> /\ arrived' = arrived \cup {cur[p][1]}
          /\ cur' = [cur EXCEPT ![p] = <<>>]
  <2>1. CASE /\ ok /\ k = "last" /\ arrived' = arrived \cup {m}
             /\ hand' = <<[prio |-> p, cc |-> c, pos |-> 0, items |-> <<longer>>]>>
    BY <1>2, <1>3, <1>14, <1>18, <2>1 DEF Assembled
  <2> QED
    BY <1>15, <2>1
<1> QED
  BY <1>16, <1>17, <1>20

\* The link and the reader task keep the place of every fragment.
LEMMA FragStep == TypeOK /\ Shape /\ FragInv /\ [Next]_vars => FragInv'
<1> SUFFICES ASSUME TypeOK, Shape, FragInv, [Next]_vars
             PROVE  FragInv'
  OBVIOUS
<1> USE RxConstants
<1>1. ASSUME NEW p \in Lanes, NEW m \in Msgs, Begin(p, m)
      PROVE  FragInv'
  <2> SUFFICES ASSUME NEW q \in Lanes, NEW c \in Ccs
               PROVE  DefragInv(q, c)'
    BY DEF FragInv
  <2>1. DefragInv(q, c)
    BY DEF FragInv
  <2>2. /\ cur' = [cur EXCEPT ![p] = <<m, 0>>] /\ fragid' = [fragid EXCEPT ![p] = @ + 1]
        /\ UNCHANGED <<nextsn, dbuf>>
    BY <1>1 DEF Begin, taskVars
  <2>3. dbuf[q] \in [Ccs -> [sn : Nat, id : Nat, parts : Seq(Pieces)]] /\ fragid[q] \in Nat
    BY DEF TypeOK
  <2>4. dbuf[q][c].id \in Nat
    BY <2>3
  <2>5. CASE q # p
    BY <2>1, <2>2, <2>5 DEF DefragInv, TypeOK
  <2>6. CASE q = p
    <3>1. cur'[q] = <<m, 0>> /\ fragid'[q] = fragid[q] + 1 /\ dbuf' = dbuf
      BY <2>2, <2>6 DEF TypeOK
    <3>2. dbuf[q][c].id <= fragid[q]
      BY <2>1 DEF DefragInv
    <3>3. cur'[q][2] = 0
      BY <3>1
    <3> QED
      BY SMTT(30), <2>3, <2>4, <3>1, <3>2, <3>3 DEF DefragInv
  <2> QED
    BY <2>5, <2>6
<1>2. ASSUME NEW p \in Lanes, Lose(p)
      PROVE  FragInv'
  <2> SUFFICES ASSUME NEW q \in Lanes, NEW c \in Ccs
               PROVE  DefragInv(q, c)'
    BY DEF FragInv
  <2>1. DefragInv(q, c)
    BY DEF FragInv
  <2>2. PICK m \in Msgs, i \in Nat : cur[p] = <<m, i>>
    BY <1>2 DEF Lose, Shape, CurOK
  <2>3. cur[p][1] = m /\ cur[p][2] = i /\ cur[p] # <<>>
    BY <2>2
  <2>4. /\ \/ cur' = [cur EXCEPT ![p] = <<>>]
           \/ cur' = [cur EXCEPT ![p] = <<m, i + 1>>]
        /\ nextsn' = [nextsn EXCEPT ![p][CcOf[m]] = @ + 1]
        /\ UNCHANGED <<fragid, dbuf>>
    BY <1>2, <2>3 DEF Lose, FragSent, UseSn, taskVars
  <2>5. CASE q # p
    BY <2>1, <2>4, <2>5 DEF DefragInv, TypeOK
  <2>6. CASE q = p /\ cur'[q] = <<>>
    BY <2>1, <2>4, <2>6 DEF DefragInv
  <2>7. CASE q = p /\ cur'[q] = <<m, i + 1>>
    <3>1. cur'[q][1] = m /\ cur'[q][2] = i + 1 /\ i + 1 # 0
      BY <2>7
    <3>2. CASE c # CcOf[m]
      BY <2>1, <2>4, <3>1, <3>2 DEF DefragInv
    <3>3. CASE c = CcOf[m]
      <4>1. nextsn[q] \in [Ccs -> Nat] /\ dbuf[q] \in [Ccs -> [sn : Nat, id : Nat, parts : Seq(Pieces)]]
        BY DEF TypeOK
      <4>2. PICK sn \in Nat, dsn \in Nat, parts \in Seq(Pieces) :
                sn = nextsn[q][c] /\ dsn = dbuf[q][c].sn /\ parts = dbuf[q][c].parts
        BY <4>1
      <4>3. nextsn'[q][c] = sn + 1
        BY <2>4, <2>7, <3>3, <4>1, <4>2 DEF TypeOK
      <4>4. Len(parts) \in Nat
        BY LenProperties
      <4>5. dbuf[q][c].id = fragid[q] =>
                \/ parts = <<>> /\ dsn < sn
                \/ /\ \A k \in 1..Len(parts) : parts[k] = <<m, k>>
                   /\ Len(parts) <= i /\ dsn - Len(parts) = sn - i
        <5>1. CASE i = 0
          BY <2>1, <2>3, <2>7, <4>1, <5>1 DEF DefragInv, TypeOK
        <5>2. CASE i > 0
          BY <2>1, <2>3, <2>7, <3>3, <4>2, <5>2 DEF DefragInv
        <5> QED
          BY <5>1, <5>2
      <4>6. dbuf[q][c].id = fragid[q] =>
                \/ parts = <<>> /\ dsn < sn + 1
                \/ /\ \A k \in 1..Len(parts) : parts[k] = <<m, k>>
                   /\ Len(parts) <= i + 1 /\ dsn - Len(parts) = (sn + 1) - (i + 1)
        BY <4>4, <4>5
      <4>7. dbuf' = dbuf /\ fragid' = fragid /\ dbuf[q][c].id <= fragid[q]
        BY <2>1, <2>4 DEF DefragInv
      <4> QED
        BY <3>1, <4>2, <4>3, <4>6, <4>7 DEF DefragInv
    <3> QED
      BY <3>2, <3>3
  <2>8. p \in DOMAIN cur
    BY DEF TypeOK
  <2> QED
    BY <2>4, <2>5, <2>6, <2>7, <2>8
<1>3. ASSUME NEW p \in Lanes, NEW ms \in Frames(p), ReadFrame(p, ms)
      PROVE  FragInv'
  <2> SUFFICES ASSUME NEW q \in Lanes, NEW c \in Ccs
               PROVE  DefragInv(q, c)'
    BY DEF FragInv
  <2>1. DefragInv(q, c)
    BY DEF FragInv
  <2>2. /\ cur[p] = <<>> /\ UNCHANGED <<cur, fragid, dbuf>>
        /\ nextsn' = [nextsn EXCEPT ![p][CcOf[ms[1]]] = @ + 1]
    BY <1>3 DEF ReadFrame, UseSn
  <2>3. q # p => nextsn'[q] = nextsn[q]
    BY <2>2 DEF TypeOK
  <2>4. CASE q = p
    BY <2>1, <2>2, <2>4 DEF DefragInv
  <2>5. CASE q # p
    BY <2>1, <2>2, <2>3, <2>5 DEF DefragInv
  <2> QED
    BY <2>4, <2>5
<1>4. ASSUME UNCHANGED <<cur, nextsn, fragid, dbuf>>
      PROVE  FragInv'
  BY <1>4 DEF FragInv, DefragInv
<1>5. CASE LinkStep \/ ReadStep
  BY <1>1, <1>2, <1>3, <1>5, ReadFragmentWhole DEF LinkStep, ReadStep
<1>6. CASE TaskStep \/ TimerFires
  BY <1>4, <1>6
  DEF TaskStep, ReadEnds, Push, Notify, Full, Waited, TimerFires, Forget, CloseTask, linkVars
<1>7. CASE RecvStep \/ RecvStarts \/ RecvEnds
  <2>1. RecvOnly
    BY <1>7 DEF RecvStep, ScanEmpty, ScanHead, PullEmpty, PullHead, Pulled, RecvWaited,
                RecvStarts, StartRecv, RecvEnds
  <2> QED
    BY <1>4, <2>1 DEF RecvOnly, linkVars, taskVars
<1>8. CASE StopReceiver \/ StopTask \/ UNCHANGED vars
  BY <1>4, <1>8 DEF StopReceiver, StopTask, vars, linkVars, taskVars
<1> QED
  BY <1>5, <1>6, <1>7, <1>8 DEF Next, RecvStarts

----------------------------------------------------------------------------
(* The ring and the receiver *)

\* Whole items are items, and batches of them batches.
LEMMA WholeSubset ==
    ASSUME NEW p \in Lanes
    PROVE  WholeItems(p) \subseteq Items /\ WholeBatches(p) \subseteq Batch
BY WholeType DEF WholeItems, WholeBatches, Items

\* A frame carries whole messages of its lane.
LEMMA FrameWhole ==
    ASSUME TypeOK, NEW p \in Lanes, NEW ms \in Frames(p)
    PROVE  [prio |-> p, cc |-> CcOf[ms[1]], pos |-> 0,
            items |-> [i \in DOMAIN ms |-> <<<<ms[i], 1>>>>]] \in WholeBatches(p)
<1>1. ASSUME NEW i \in DOMAIN ms
      PROVE  <<<<ms[i], 1>>>> \in WholeItems(p)
  <2>1. ms[i] \in Msgs /\ PrioOf[ms[i]] = p
    BY FrameType DEF Pending, TypeOK
  <2>2. FragsOf[ms[i]] = 1
    BY DEF Frames
  <2>3. Whole(ms[i]) = <<<<ms[i], 1>>>>
    BY <2>1, <2>2, WholeType
  <2> QED
    BY <2>1, <2>3 DEF WholeItems
<1>2. [i \in DOMAIN ms |-> <<<<ms[i], 1>>>>] \in [1..Len(ms) -> WholeItems(p)] /\ Len(ms) \in Nat
  BY <1>1, FrameType, LenProperties
<1>3. [i \in DOMAIN ms |-> <<<<ms[i], 1>>>>] \in Seq(WholeItems(p))
  BY <1>2, SeqDef
<1> QED
  BY <1>3, FrameBatch DEF WholeBatches

\* What happens to a lane of the ring keeps its batches whole.
LEMMA WholeLane ==
    ASSUME NEW p \in Lanes, NEW q \in Seq(WholeBatches(p))
    PROVE  /\ \A b \in WholeBatches(p) : q \o <<b>> \in Seq(WholeBatches(p))
           /\ q # <<>> =>
                /\ Tail(q) \in Seq(WholeBatches(p))
                /\ q[1].pos < Len(q[1].items) =>
                        /\ [q EXCEPT ![1] = Advance(@)] \in Seq(WholeBatches(p))
                        /\ q[1].items[q[1].pos + 1] \in WholeItems(p)
<1> DEFINE W == WholeBatches(p)
<1> HIDE DEF W
<1>0. q \in Seq(W) /\ W \subseteq Batch
  BY WholeSubset DEF W
<1>1. \A b \in W : q \o <<b>> \in Seq(W)
  BY <1>0, Single, ConcatProperties
<1>2. ASSUME q # <<>>
      PROVE  Tail(q) \in Seq(W) /\ q[1] \in W
  BY <1>0, <1>2, HeadTailProperties, EmptySeq, LenProperties
<1>3. ASSUME q # <<>>, q[1].pos < Len(q[1].items)
      PROVE  /\ [q EXCEPT ![1] = Advance(@)] \in Seq(W)
             /\ q[1].items[q[1].pos + 1] \in WholeItems(p)
  <2>1. q[1] \in W /\ Len(q) \in Nat /\ Len(q) > 0
    BY <1>0, <1>2, <1>3, LenProperties, EmptySeq
  <2>2. q \in Seq(Batch)
    BY <1>0
  <2>3. [q EXCEPT ![1] = Advance(@)] \in Seq(Batch) /\ Len([q EXCEPT ![1] = Advance(@)]) = Len(q)
    BY <1>3, <2>2, LaneSteps
  <2>4. [q EXCEPT ![1] = Advance(@)][1] = Advance(q[1])
    BY <2>1, <2>2
  <2>5. Advance(q[1]) \in Batch
    BY <2>1, <2>3, <2>4, ElementOfSeq
  <2>6. q[1] \in [prio : Lanes, cc : Ccs, items : Seq(Items), pos : Nat]
    BY <1>0, <2>1 DEF Batch
  <2>7. Advance(q[1]).items = q[1].items
    BY <2>6 DEF Advance
  <2>8. Advance(q[1]) \in W /\ q[1].items \in Seq(WholeItems(p))
    BY <2>1, <2>5, <2>7 DEF W, WholeBatches
  <2>9. q[1].pos + 1 \in 1..Len(q[1].items)
    BY <1>3, <2>6, LenProperties
  <2>10. 1 \in 1..Len(q)
    BY <2>1
  <2>11. [q EXCEPT ![1] = Advance(q[1])] \in Seq(W)
    BY <1>0, <2>8, <2>10, ExceptSeq
  <2> QED
    BY <2>8, <2>9, <2>11, ElementOfSeq
<1> QED
  BY <1>1, <1>2, <1>3 DEF W

\* Whatever the task holds, the ring keeps and the receiver has returned stays whole.
LEMMA HoldStep == TypeOK /\ Shape /\ FragInv /\ HoldInv /\ [Next]_vars => HoldInv'
<1> SUFFICES ASSUME TypeOK, Shape, FragInv, HoldInv, [Next]_vars
             PROVE  HoldInv'
  OBVIOUS
<1> USE RxConstants
<1>1. ASSUME UNCHANGED <<ring, got>>,
             \/ hand' = hand \/ hand' = <<>>
             \/ \E p \in Lanes : \E b \in WholeBatches(p) : b.prio = p /\ hand' = <<b>>
      PROVE  HoldInv'
  BY <1>1 DEF HoldInv
<1>2. CASE LinkStep
  BY <1>1, <1>2 DEF LinkStep, Begin, Lose, taskVars, sharedVars, recvVars
<1>3. CASE ReadStep
  <2>1. UNCHANGED <<ring, got>>
    BY <1>3 DEF ReadStep, ReadFrame, ReadFragment, sharedVars, recvVars
  <2>2. ASSUME NEW p \in Lanes, NEW ms \in Frames(p), ReadFrame(p, ms)
        PROVE  \E b \in WholeBatches(p) : b.prio = p /\ hand' = <<b>>
    BY <2>2, FrameWhole DEF ReadFrame
  <2> QED
    BY <1>1, <1>3, <2>1, <2>2, ReadFragmentWhole DEF ReadStep
<1>4. CASE Push
  <2>1. CASE UNCHANGED <<ring, hand>>
    BY <1>1, <1>4, <2>1 DEF Push, recvVars
  <2>2. CASE hand' = <<>> /\ ring' = [ring EXCEPT ![InLane] = @ \o hand]
    <3>1. PICK b \in Batch : hand = <<b>>
      BY <1>4 DEF Push, Shape
    <3>2. PICK p \in Lanes : p = InLane /\ p = b.prio
      BY <3>1 DEF InLane, Batch
    <3>3. b \in WholeBatches(p)
      BY <3>1, <3>2 DEF HoldInv
    <3>4. ring[p] \o hand \in Seq(WholeBatches(p))
      <4>1. ring[p] \in Seq(WholeBatches(p))
        BY DEF HoldInv
      <4> QED
        BY <3>1, <3>3, <4>1, WholeLane
    <3>5. ring' = [ring EXCEPT ![p] = ring[p] \o hand] /\ got' = got
      BY <1>4, <2>2, <3>2 DEF Push, recvVars
    <3> QED
      BY <2>2, <3>4, <3>5 DEF HoldInv, TypeOK
  <2> QED
    BY <1>4, <2>1, <2>2 DEF Push
<1>5. CASE Notify \/ ReadEnds \/ Full \/ Waited \/ TimerFires
  <2>1. (hand' = hand \/ hand' = <<>>) /\ UNCHANGED <<ring, got>>
    BY <1>5 DEF Notify, ReadEnds, Full, Waited, TimerFires, Forget, CloseTask, sharedVars, recvVars
  <2> QED
    BY <1>1, <2>1
<1>6. CASE RecvStarts \/ ScanEmpty \/ PullEmpty \/ Pulled \/ RecvWaited \/ RecvEnds
  <2>1. RecvOnly /\ UNCHANGED <<ring, got>>
    BY <1>6 DEF RecvStarts, StartRecv, ScanEmpty, PullEmpty, Pulled, RecvWaited, RecvEnds, sharedVars
  <2> QED
    BY <1>1, <2>1 DEF RecvOnly, taskVars
<1>7. PICK p \in Lanes : p = rlane
  BY DEF TypeOK
<1>8. ring[p] \in Seq(WholeBatches(p)) /\ got[p] \in Seq(WholeItems(p))
  BY DEF HoldInv
<1>9. CASE ScanHead
  <2>1. hand' = hand /\ ring[p] # <<>>
    BY <1>7, <1>9 DEF ScanHead, RecvOnly, taskVars
  <2>2. CASE UNCHANGED <<ring, got>>
    BY <1>1, <2>1, <2>2
  <2>3. CASE /\ ring[p][1].pos < Len(ring[p][1].items)
             /\ got' = [got EXCEPT ![p] = Append(@, ring[p][1].items[ring[p][1].pos + 1])]
             /\ ring' = [ring EXCEPT ![p][1] = Advance(@)]
    <3> DEFINE lane == [ring[p] EXCEPT ![1] = Advance(@)]
               item == ring[p][1].items[ring[p][1].pos + 1]
    <3>1. lane \in Seq(WholeBatches(p)) /\ item \in WholeItems(p)
      BY <1>8, <2>1, <2>3, WholeLane
    <3>2. got' = [got EXCEPT ![p] = Append(got[p], item)] /\ ring' = [ring EXCEPT ![p] = lane]
      BY <2>3
    <3> HIDE DEF lane, item
    <3>3. Append(got[p], item) \in Seq(WholeItems(p))
      BY <1>8, <3>1, AppendProperties
    <3>4. \A q \in Lanes :
            ring'[q] = (IF q = p THEN lane ELSE ring[q])
            /\ got'[q] = (IF q = p THEN Append(got[p], item) ELSE got[q])
      BY <3>2 DEF TypeOK
    <3> QED
      BY <2>1, <3>1, <3>3, <3>4 DEF HoldInv
  <2> QED
    BY <1>7, <1>9, <2>2, <2>3 DEF ScanHead
<1>10. CASE PullHead
  <2>1. /\ hand' = hand /\ got' = got /\ ring[p] # <<>>
        /\ ring' = [ring EXCEPT ![p] = Tail(ring[p])]
    BY <1>7, <1>10 DEF PullHead, RecvOnly, taskVars
  <2>2. Tail(ring[p]) \in Seq(WholeBatches(p))
    BY <1>8, <2>1, WholeLane
  <2> QED
    BY <2>1, <2>2 DEF HoldInv, TypeOK
<1>11. CASE StopReceiver \/ StopTask \/ UNCHANGED vars
  BY <1>1, <1>11 DEF StopReceiver, StopTask, vars, taskVars, sharedVars, recvVars
<1> QED
  BY <1>2, <1>3, <1>4, <1>5, <1>6, <1>9, <1>10, <1>11 DEF Next, TaskStep, RecvStep, RecvStarts

LEMMA HoldInit == Init => FragInv /\ HoldInv
<1> SUFFICES ASSUME Init
             PROVE  FragInv /\ HoldInv
  OBVIOUS
<1>1. \A p \in Lanes : cur[p] = <<>> /\ ring[p] = <<>> /\ got[p] = <<>> /\ fragid[p] = 0
  BY DEF Init
<1>2. hand = <<>> /\ \A p \in Lanes, c \in Ccs : dbuf[p][c].id = 0
  BY DEF Init
<1>3. FragInv
  BY <1>1, <1>2 DEF FragInv, DefragInv
<1>4. HoldInv
  <2>1. \A S : <<>> \in Seq(S)
    BY EmptySeq
  <2> QED
    BY <1>1, <1>2, <2>1 DEF HoldInv
<1> QED
  BY <1>3, <1>4

\* recv and try_recv return messages as they were sent, whatever fragments are lost:
\* DefragBuffer::extend accepts nothing but the next piece, sync and clear leave nothing
\* of another message.
THEOREM ReturnedWhole == Safety => []WholeMessages
<1>1. HoldInv => WholeMessages
  <2> SUFFICES ASSUME HoldInv, NEW p \in Lanes, NEW k \in DOMAIN got[p]
               PROVE  LET it == got[p][k] IN
                      it # <<>> /\ it = Whole(it[1][1]) /\ PrioOf[it[1][1]] = p
    BY DEF WholeMessages, Elements
  <2>1. got[p][k] \in WholeItems(p)
    BY ElementOfSeq DEF HoldInv
  <2>2. PICK m \in Msgs : got[p][k] = Whole(m) /\ PrioOf[m] = p
    BY <2>1 DEF WholeItems
  <2> QED
    BY <2>2, WholeType
<1> QED
  BY <1>1, ShapeInit, ShapeStep, FragStep, HoldInit, HoldStep, PTL DEF Safety

----------------------------------------------------------------------------
(* The order of messages *)

MsgOf(it) == it[1][1]
Ascends(items) == \A i, j \in DOMAIN items : i < j => MsgOf(items[i]) < MsgOf(items[j])
Below(A, B) == \A a \in A, b \in B : a < b

\* What the receiver has not read of a batch, and of all batches of a sequence.
LeftIn(b) == ItemMsgs(Unread(b))
Left(q) == UNION {LeftIn(q[i]) : i \in DOMAIN q}

\* Messages g have been returned, the batches q wait, the messages C are still to come.
Ordered(g, q, C) ==
    /\ Ascends(g) /\ Below(ItemMsgs(g), C)
    /\ \A i \in DOMAIN q : /\ Ascends(q[i].items)
                           /\ Below(ItemMsgs(g), LeftIn(q[i])) /\ Below(LeftIn(q[i]), C)
    /\ \A i, j \in DOMAIN q : i < j => Below(LeftIn(q[i]), LeftIn(q[j]))

\* What waits in a lane, the batch in the task's hand behind the ring, and what is to come.
Line(p) == ring[p] \o (IF hand # <<>> /\ InLane = p THEN hand ELSE <<>>)
Coming(p) == Pending(p) \cup (IF cur[p] = <<>> THEN {} ELSE {cur[p][1]})
OrderInv ==
    \A p \in Lanes :
        /\ Ordered(got[p], Line(p), Coming(p))
        /\ cur[p] # <<>> => Below({cur[p][1]}, Pending(p))

\* Messages by their places.
LEMMA MsgsByPlace ==
    /\ \A items : ItemMsgs(items) = {MsgOf(items[k]) : k \in DOMAIN items}
    /\ \A b \in Batch : LeftIn(b) = {MsgOf(b.items[k]) : k \in (b.pos + 1)..Len(b.items)}
<1>1. \A items : ItemMsgs(items) = {MsgOf(items[k]) : k \in DOMAIN items}
  BY DEF ItemMsgs, MsgOf
<1>2. ASSUME NEW b \in Batch
      PROVE  LeftIn(b) = {MsgOf(b.items[k]) : k \in (b.pos + 1)..Len(b.items)}
  <2> DEFINE s == b.items
             u == Unread(b)
             n == Len(s) - b.pos
  <2>1. /\ s \in Seq(Items) /\ b.pos \in Nat /\ b.pos <= Len(s) /\ Len(s) \in Nat
        /\ \A i \in 1..Len(s) : s[i] \in Items
    BY LenProperties, ElementOfSeq DEF Batch
  <2>2. /\ u \in Seq(Items) /\ Len(u) = n
        /\ \A i \in 1..n : u[i] = s[b.pos + i]
    <3>1. \A i \in (b.pos + 1)..Len(s) : s[i] \in Items
      BY <2>1
    <3>2. b.pos + 1 \in Int /\ Len(s) \in Int
      BY <2>1
    <3>3. /\ SubSeq(s, b.pos + 1, Len(s)) \in Seq(Items)
          /\ Len(SubSeq(s, b.pos + 1, Len(s)))
                = IF b.pos + 1 <= Len(s) THEN Len(s) - (b.pos + 1) + 1 ELSE 0
          /\ \A i \in 1..Len(s) - (b.pos + 1) + 1 :
                SubSeq(s, b.pos + 1, Len(s))[i] = s[(b.pos + 1) + i - 1]
      BY <3>1, <3>2, SubSeqProperties
    <3>4. Len(s) - (b.pos + 1) + 1 = n /\ \A i \in Int : (b.pos + 1) + i - 1 = b.pos + i
      BY <2>1
    <3>5. u = SubSeq(s, b.pos + 1, Len(s))
      BY DEF Unread
    <3>6. n \in Nat /\ (~(b.pos + 1 <= Len(s)) => n = 0)
      BY <2>1
    <3>7. u \in Seq(Items) /\ Len(u) = n
      BY <3>3, <3>4, <3>5, <3>6
    <3> HIDE DEF u, n, s
    <3>8. \A i \in 1..n : i \in Int /\ u[i] = s[(b.pos + 1) + i - 1]
      <4>1. 1..n = 1..Len(s) - (b.pos + 1) + 1
        BY <3>4
      <4>2. \A i \in 1..n : u[i] = s[(b.pos + 1) + i - 1]
        BY <3>3, <3>5, <4>1, Zenon
      <4> QED
        BY <4>2, <3>6
    <3> QED
      BY <3>4, <3>7, <3>8
  <2>3. DOMAIN u = 1..n
    BY <2>2, LenProperties
  <2> HIDE DEF s, u
  <2>4. LeftIn(b) = {MsgOf(u[k]) : k \in 1..n}
    BY <1>1, <2>3 DEF LeftIn, u
  <2>5. \A i \in 1..n : b.pos + i \in (b.pos + 1)..Len(s)
    BY <2>1
  <2>6. \A k \in (b.pos + 1)..Len(s) : k - b.pos \in 1..n /\ b.pos + (k - b.pos) = k
    BY <2>1
  <2>7. {MsgOf(u[k]) : k \in 1..n} = {MsgOf(s[k]) : k \in (b.pos + 1)..Len(s)}
    <3> HIDE DEF n
    <3>1. \A i \in 1..n : MsgOf(u[i]) = MsgOf(s[b.pos + i])
      BY <2>2
    <3> QED
      BY <2>5, <2>6, <3>1
  <2> QED
    BY <2>4, <2>7 DEF s
<1> QED
  BY <1>1, <1>2

\* A message is read from a batch, and the batch stays without it.
LEMMA ReadOne ==
    ASSUME NEW b \in Batch, b.pos < Len(b.items)
    PROVE  LET m == MsgOf(b.items[b.pos + 1]) IN
           /\ Advance(b) \in Batch /\ Advance(b).items = b.items /\ Advance(b).cc = b.cc
           /\ LeftIn(b) = {m} \cup LeftIn(Advance(b))
           /\ Ascends(b.items) => Below({m}, LeftIn(Advance(b)))
<1> DEFINE s == b.items
           m == MsgOf(s[b.pos + 1])
           a == Advance(b)
<1>1. /\ b \in [prio : Lanes, cc : Ccs, items : Seq(Items), pos : Nat]
      /\ s # <<>> /\ Len(s) \in Nat /\ DOMAIN s = 1..Len(s)
  BY LenProperties DEF Batch
<1>2. /\ a \in [prio : Lanes, cc : Ccs, items : Seq(Items), pos : Nat]
      /\ a.items = s /\ a.pos = b.pos + 1 /\ a.cc = b.cc
  BY <1>1 DEF Advance
<1>3. a \in Batch
  BY <1>1, <1>2 DEF Batch
<1>4. /\ LeftIn(b) = {MsgOf(s[k]) : k \in (b.pos + 1)..Len(s)}
      /\ LeftIn(a) = {MsgOf(s[k]) : k \in (b.pos + 2)..Len(s)}
  <2>1. LeftIn(a) = {MsgOf(a.items[k]) : k \in (a.pos + 1)..Len(a.items)}
    BY <1>3, MsgsByPlace
  <2>2. a.pos + 1 = b.pos + 2
    BY <1>1, <1>2
  <2> QED
    BY <1>2, <2>1, <2>2, MsgsByPlace
<1> HIDE DEF s, a
<1>5. /\ b.pos + 1 \in (b.pos + 1)..Len(s) /\ b.pos + 1 \in 1..Len(s)
      /\ \A k \in (b.pos + 1)..Len(s) : k = b.pos + 1 \/ k \in (b.pos + 2)..Len(s)
      /\ \A k \in (b.pos + 2)..Len(s) : /\ k \in (b.pos + 1)..Len(s)
                                        /\ k \in 1..Len(s) /\ b.pos + 1 < k
  BY <1>1 DEF s
<1>6. LeftIn(b) = {m} \cup LeftIn(a)
  BY <1>4, <1>5
<1>7. Ascends(s) => Below({m}, LeftIn(a))
  BY <1>1, <1>4, <1>5 DEF Ascends, Below
<1> QED
  BY <1>2, <1>3, <1>6, <1>7 DEF s, a

\* The places of a sequence after a batch has been added, removed or read from.
LEMMA Places ==
    ASSUME NEW q \in Seq(Batch)
    PROVE  /\ Len(q) \in Nat /\ DOMAIN q = 1..Len(q) /\ \A i \in DOMAIN q : q[i] \in Batch
           /\ \A b \in Batch :
                /\ q \o <<b>> \in Seq(Batch) /\ DOMAIN (q \o <<b>>) = 1..(Len(q) + 1)
                /\ \A i \in 1..Len(q) : (q \o <<b>>)[i] = q[i]
                /\ (q \o <<b>>)[Len(q) + 1] = b
           /\ q # <<>> =>
                /\ 1 \in DOMAIN q /\ DOMAIN Tail(q) = 1..(Len(q) - 1)
                /\ \A i \in 1..(Len(q) - 1) : i + 1 \in DOMAIN q /\ Tail(q)[i] = q[i + 1]
           /\ \A r : DOMAIN [q EXCEPT ![1] = r] = DOMAIN q
                     /\ \A i \in DOMAIN q : [q EXCEPT ![1] = r][i] = IF i = 1 THEN r ELSE q[i]
<1>1. Len(q) \in Nat /\ DOMAIN q = 1..Len(q) /\ \A i \in DOMAIN q : q[i] \in Batch
  BY LenProperties, ElementOfSeq
<1>2. ASSUME NEW b \in Batch
      PROVE  /\ q \o <<b>> \in Seq(Batch) /\ DOMAIN (q \o <<b>>) = 1..(Len(q) + 1)
             /\ \A i \in 1..Len(q) : (q \o <<b>>)[i] = q[i]
             /\ (q \o <<b>>)[Len(q) + 1] = b
  <2>1. <<b>> \in Seq(Batch) /\ Len(<<b>>) = 1 /\ <<b>>[1] = b
    OBVIOUS
  <2>2. /\ q \o <<b>> \in Seq(Batch) /\ Len(q \o <<b>>) = Len(q) + 1
        /\ \A i \in 1..(Len(q) + 1) :
            (q \o <<b>>)[i] = IF i <= Len(q) THEN q[i] ELSE <<b>>[i - Len(q)]
    BY <2>1, ConcatProperties
  <2>3. DOMAIN (q \o <<b>>) = 1..(Len(q) + 1)
    BY <2>2, LenProperties
  <2>4. /\ \A i \in 1..Len(q) : i \in 1..(Len(q) + 1) /\ i <= Len(q)
        /\ Len(q) + 1 \in 1..(Len(q) + 1) /\ ~(Len(q) + 1 <= Len(q)) /\ Len(q) + 1 - Len(q) = 1
    BY <1>1
  <2> QED
    BY <2>1, <2>2, <2>3, <2>4
<1>3. ASSUME q # <<>>
      PROVE  /\ 1 \in DOMAIN q /\ DOMAIN Tail(q) = 1..(Len(q) - 1)
             /\ \A i \in 1..(Len(q) - 1) : i + 1 \in DOMAIN q /\ Tail(q)[i] = q[i + 1]
  <2>1. Len(q) > 0
    BY <1>1, <1>3, EmptySeq
  <2>2. /\ Tail(q) \in Seq(Batch) /\ Len(Tail(q)) = Len(q) - 1
        /\ \A i \in 1..Len(Tail(q)) : Tail(q)[i] = q[i + 1]
    BY <1>3, HeadTailProperties
  <2>3. DOMAIN Tail(q) = 1..(Len(q) - 1)
    BY <2>2, LenProperties
  <2> QED
    BY <1>1, <2>1, <2>2, <2>3
<1>4. \A r : DOMAIN [q EXCEPT ![1] = r] = DOMAIN q
             /\ \A i \in DOMAIN q : [q EXCEPT ![1] = r][i] = IF i = 1 THEN r ELSE q[i]
  BY <1>1
<1> QED
  BY <1>1, <1>2, <1>3, <1>4

\* A batch of the messages that come next is added to the line; or the last or the first
\* one is removed.
LEMMA OrderedMoves ==
    ASSUME NEW g, NEW C, NEW q \in Seq(Batch)
    PROVE  /\ \A D : D \subseteq C /\ Ordered(g, q, C) => Ordered(g, q, D)
           /\ \A b \in Batch : \A D :
                /\ Ordered(g, q, C) /\ Ascends(b.items) /\ LeftIn(b) \subseteq C
                /\ D \subseteq C /\ Below(LeftIn(b), D)
                => Ordered(g, q \o <<b>>, D)
           /\ \A b \in Batch : Ordered(g, q \o <<b>>, C) => Ordered(g, q, C)
           /\ q # <<>> /\ Ordered(g, q, C) => Ordered(g, Tail(q), C)
<1>1. \A D : D \subseteq C /\ Ordered(g, q, C) => Ordered(g, q, D)
  BY DEF Ordered, Below
<1>2. ASSUME NEW b \in Batch, NEW D, Ordered(g, q, C), Ascends(b.items), LeftIn(b) \subseteq C,
             D \subseteq C, Below(LeftIn(b), D)
      PROVE  Ordered(g, q \o <<b>>, D)
  <2> DEFINE r == q \o <<b>>
  <2>1. /\ Len(q) \in Nat /\ DOMAIN q = 1..Len(q) /\ DOMAIN r = 1..(Len(q) + 1)
        /\ \A i \in 1..Len(q) : r[i] = q[i]
        /\ r[Len(q) + 1] = b
    BY Places
  <2> HIDE DEF r
  <2>2. Ordered(g, q, D)
    BY <1>1, <1>2
  <2>3. \A i \in DOMAIN r : (i \in DOMAIN q /\ r[i] = q[i]) \/ (i = Len(q) + 1 /\ r[i] = b)
    BY <2>1
  <2>4. ASSUME NEW i \in DOMAIN r
        PROVE  /\ Ascends(r[i].items)
               /\ Below(ItemMsgs(g), LeftIn(r[i])) /\ Below(LeftIn(r[i]), D)
    <3>1. Below(ItemMsgs(g), LeftIn(b))
      BY <1>2 DEF Ordered, Below
    <3> QED
      BY <1>2, <2>2, <2>3, <3>1 DEF Ordered
  <2>5. ASSUME NEW i \in DOMAIN r, NEW j \in DOMAIN r, i < j
        PROVE  Below(LeftIn(r[i]), LeftIn(r[j]))
    <3>1. i \in DOMAIN q /\ r[i] = q[i]
      BY <2>1, <2>3, <2>5
    <3>2. CASE j \in DOMAIN q /\ r[j] = q[j]
      BY <1>2, <2>5, <3>1, <3>2 DEF Ordered
    <3>3. CASE r[j] = b
      <4>1. Below(LeftIn(q[i]), C)
        BY <1>2, <3>1 DEF Ordered
      <4> QED
        BY <1>2, <3>1, <3>3, <4>1 DEF Below
    <3> QED
      BY <2>3, <3>2, <3>3
  <2> QED
    BY <2>2, <2>4, <2>5 DEF Ordered, r
<1>3. ASSUME NEW b \in Batch, Ordered(g, q \o <<b>>, C)
      PROVE  Ordered(g, q, C)
  <2>1. \A i \in DOMAIN q : i \in DOMAIN (q \o <<b>>) /\ (q \o <<b>>)[i] = q[i]
    <3>1. /\ Len(q) \in Nat /\ DOMAIN q = 1..Len(q) /\ DOMAIN (q \o <<b>>) = 1..(Len(q) + 1)
          /\ \A i \in 1..Len(q) : (q \o <<b>>)[i] = q[i]
      BY Places
    <3> QED
      BY <3>1
  <2> QED
    BY <1>3, <2>1, Zenon DEF Ordered
<1>4. ASSUME q # <<>>, Ordered(g, q, C)
      PROVE  Ordered(g, Tail(q), C)
  <2>1. /\ DOMAIN Tail(q) = 1..(Len(q) - 1)
        /\ \A i \in 1..(Len(q) - 1) : i + 1 \in DOMAIN q /\ Tail(q)[i] = q[i + 1]
    BY <1>4, Places
  <2>2. \A i, j \in 1..(Len(q) - 1) : i < j => i + 1 < j + 1
    OBVIOUS
  <2> QED
    BY <1>4, <2>1, <2>2, Zenon DEF Ordered
<1> QED
  BY <1>1, <1>2, <1>3, <1>4

\* The next message of the first batch is returned.
LEMMA OrderedRead ==
    ASSUME NEW g \in Seq(Items), NEW C, NEW q \in Seq(Batch), q # <<>>,
           q[1].pos < Len(q[1].items), Ordered(g, q, C)
    PROVE  Ordered(Append(g, q[1].items[q[1].pos + 1]), [q EXCEPT ![1] = Advance(q[1])], C)
<1> DEFINE b == q[1]
           a == Advance(b)
           item == b.items[b.pos + 1]
           m == MsgOf(item)
           h == Append(g, item)
           r == [q EXCEPT ![1] = a]
<1>1. b \in Batch /\ 1 \in DOMAIN q /\ DOMAIN q \subseteq Nat
  BY Places
<1>2. Ascends(b.items) /\ Below(ItemMsgs(g), LeftIn(b)) /\ Below(LeftIn(b), C)
  BY <1>1 DEF Ordered
<1>3. /\ a.items = b.items /\ LeftIn(b) = {m} \cup LeftIn(a) /\ Below({m}, LeftIn(a))
  BY <1>1, <1>2, ReadOne
<1>4. DOMAIN r = DOMAIN q /\ \A i \in DOMAIN q : r[i] = IF i = 1 THEN a ELSE q[i]
  BY Places
<1>5. /\ Len(g) \in Nat /\ DOMAIN g = 1..Len(g) /\ DOMAIN h = 1..(Len(g) + 1)
      /\ \A i \in 1..Len(g) : h[i] = g[i]
      /\ h[Len(g) + 1] = item
  <2>1. item \in Items
    <3>1. b.items \in Seq(Items) /\ b.pos \in Nat
      BY <1>1 DEF Batch
    <3>2. b.pos + 1 \in 1..Len(b.items)
      BY <3>1, LenProperties
    <3> QED
      BY <3>1, <3>2, ElementOfSeq
  <2> HIDE DEF item, b
  <2>2. h \in Seq(Items) /\ Len(h) = Len(g) + 1
    BY <2>1, AppendProperties
  <2>3. DOMAIN h = 1..(Len(g) + 1)
    BY <2>2, LenProperties
  <2> QED
    BY <2>1, <2>3, AppendProperties, LenProperties
<1> HIDE DEF b, a, item, h, r
<1>6. ItemMsgs(h) = ItemMsgs(g) \cup {m}
  <2>1. \A i \in DOMAIN h : (i \in DOMAIN g /\ h[i] = g[i]) \/ (i = Len(g) + 1 /\ h[i] = item)
    BY <1>5
  <2>2. DOMAIN g \subseteq DOMAIN h /\ Len(g) + 1 \in DOMAIN h
    BY <1>5
  <2> QED
    BY <1>5, <2>1, <2>2, MsgsByPlace
<1>7. Ascends(h)
  <2> SUFFICES ASSUME NEW i \in DOMAIN h, NEW j \in DOMAIN h, i < j
               PROVE  MsgOf(h[i]) < MsgOf(h[j])
    BY DEF Ascends
  <2>1. i \in DOMAIN g /\ h[i] = g[i]
    BY <1>5
  <2>2. CASE j \in DOMAIN g
    <3>1. h[j] = g[j] /\ Ascends(g)
      BY <1>5, <2>2 DEF Ordered
    <3> QED
      BY <2>1, <2>2, <3>1 DEF Ascends
  <2>3. CASE j = Len(g) + 1
    <3>1. MsgOf(g[i]) \in ItemMsgs(g) /\ m \in LeftIn(b)
      BY <1>3, <2>1, MsgsByPlace
    <3> QED
      BY <1>2, <1>5, <2>1, <2>3, <3>1 DEF Below
  <2> QED
    BY <1>5, <2>2, <2>3
<1>8. Below(ItemMsgs(h), C)
  BY <1>2, <1>3, <1>6 DEF Ordered, Below
<1>9. ASSUME NEW i \in DOMAIN r
      PROVE  /\ Ascends(r[i].items)
             /\ Below(ItemMsgs(h), LeftIn(r[i])) /\ Below(LeftIn(r[i]), C)
  <2>1. CASE i = 1
    BY <1>2, <1>3, <1>4, <1>6, <2>1 DEF Below
  <2>2. CASE i # 1
    <3>1. r[i] = q[i] /\ i \in DOMAIN q /\ 1 < i
      BY <1>1, <1>4, <2>2, Places
    <3>2. Below(LeftIn(b), LeftIn(q[i]))
      BY <1>1, <3>1 DEF Ordered, b
    <3>3. /\ Ascends(q[i].items) /\ Below(ItemMsgs(g), LeftIn(q[i]))
          /\ Below(LeftIn(q[i]), C)
      BY <3>1 DEF Ordered
    <3> QED
      BY <1>3, <1>6, <3>1, <3>2, <3>3 DEF Below
  <2> QED
    BY <2>1, <2>2
<1>10. ASSUME NEW i \in DOMAIN r, NEW j \in DOMAIN r, i < j
       PROVE  Below(LeftIn(r[i]), LeftIn(r[j]))
  <2>1. LeftIn(r[i]) \subseteq LeftIn(q[i])
    BY <1>3, <1>4 DEF b
  <2>2. j # 1 /\ r[j] = q[j]
    <3>1. i >= 1
      BY <1>4, Places
    <3> QED
      BY <1>1, <1>4, <1>10, <3>1
  <2>3. Below(LeftIn(q[i]), LeftIn(q[j]))
    BY <1>4, <1>10 DEF Ordered
  <2> QED
    BY <2>1, <2>2, <2>3 DEF Below
<1> QED
  BY <1>7, <1>8, <1>9, <1>10 DEF Ordered, h, r, a, item, b

\* The line of a lane, with the hand of the task as its last batch.
LEMMA LineType ==
    ASSUME TypeOK, Shape, NEW p \in Lanes
    PROVE  /\ ring[p] \in Seq(Batch) /\ got[p] \in Seq(Items) /\ Line(p) \in Seq(Batch)
           /\ hand = <<>> => Line(p) = ring[p]
           /\ hand # <<>> =>
                /\ hand = <<hand[1]>> /\ hand[1] \in Batch /\ InLane = hand[1].prio
                /\ InLane \in Lanes
                /\ Line(p) = IF p = InLane THEN ring[p] \o hand ELSE ring[p]
<1>1. ring[p] \in Seq(Batch) /\ got[p] \in Seq(Items) /\ ring[p] \o <<>> = ring[p]
  BY ConcatEmptySeq DEF TypeOK
<1>2. CASE hand = <<>>
  BY <1>1, <1>2 DEF Line
<1>3. CASE hand # <<>>
  <2>1. PICK b \in Batch : hand = <<b>>
    BY <1>3 DEF Shape
  <2>2. hand[1] = b /\ b.prio \in Lanes /\ InLane = b.prio
    BY <2>1 DEF Batch, InLane
  <2>3. ring[p] \o hand \in Seq(Batch)
    BY <1>1, <2>1, Places
  <2> QED
    BY <1>1, <1>3, <2>1, <2>2, <2>3 DEF Line
<1> QED
  BY <1>2, <1>3

\* What is still to come in a lane only shrinks, and the message that is being sent comes
\* before the others.
CurFirst(p) == cur[p] # <<>> => Below({cur[p][1]}, Pending(p))
LEMMA ComingShrinks ==
    ASSUME TypeOK, Shape, [Next]_vars, NEW p \in Lanes, CurFirst(p)
    PROVE  Coming(p)' \subseteq Coming(p) /\ CurFirst(p)'
<1> USE RxConstants
<1>1. ASSUME NEW l \in Lanes, NEW m \in Msgs, Begin(l, m)
      PROVE  Coming(p)' \subseteq Coming(p) /\ CurFirst(p)'
  <2>1. /\ cur[l] = <<>> /\ m \in Pending(l) /\ \A n \in Pending(l) : m <= n
        /\ cur' = [cur EXCEPT ![l] = <<m, 0>>] /\ todo' = todo \ {m}
    BY <1>1 DEF Begin
  <2>2. Pending(p)' = Pending(p) \ {m} /\ Pending(p) \subseteq Nat /\ m \in Nat
    BY <2>1 DEF Pending, TypeOK
  <2>3. CASE p = l
    <3>1. cur'[p] = <<m, 0>> /\ cur'[p][1] = m
      BY <2>1, <2>3 DEF TypeOK
    <3> QED
      BY <2>1, <2>2, <2>3, <3>1 DEF Coming, CurFirst, Below
  <2>4. CASE p # l
    <3>1. cur'[p] = cur[p]
      BY <2>1, <2>4 DEF TypeOK
    <3> QED
      BY <2>2, <3>1 DEF Coming, CurFirst, Below
  <2> QED
    BY <2>3, <2>4
<1>2. ASSUME NEW l \in Lanes, cur[l] # <<>>, FragSent(l)
      PROVE  Coming(p)' \subseteq Coming(p) /\ CurFirst(p)'
  <2>1. /\ cur' = [cur EXCEPT ![l] = IF KindOf(Frag(l)) = "last" THEN <<>>
                                     ELSE <<cur[l][1], cur[l][2] + 1>>]
        /\ todo' = todo
    BY <1>2 DEF FragSent
  <2>2. Pending(p)' = Pending(p)
    BY <2>1 DEF Pending
  <2>3. cur'[p] # <<>> => cur[p] # <<>> /\ cur'[p][1] = cur[p][1]
    BY <1>2, <2>1 DEF TypeOK
  <2> QED
    BY <2>2, <2>3 DEF Coming, CurFirst
<1>3. ASSUME NEW l \in Lanes, NEW ms \in Frames(l), ReadFrame(l, ms)
      PROVE  Coming(p)' \subseteq Coming(p) /\ CurFirst(p)'
  <2>1. cur' = cur /\ todo' \subseteq todo
    BY <1>3 DEF ReadFrame
  <2> QED
    BY <2>1 DEF Coming, CurFirst, Pending, Below
<1>4. CASE LinkStep \/ ReadStep
  BY <1>1, <1>2, <1>3, <1>4 DEF LinkStep, ReadStep, Lose, ReadFragment
<1>5. ASSUME UNCHANGED <<todo, cur>>
      PROVE  Coming(p)' \subseteq Coming(p) /\ CurFirst(p)'
  BY <1>5 DEF Coming, CurFirst, Pending
<1>6. CASE TaskStep \/ TimerFires
  BY <1>5, <1>6
  DEF TaskStep, ReadEnds, Push, Notify, Full, Waited, TimerFires, Forget, CloseTask, linkVars
<1>7. CASE RecvStep \/ RecvStarts \/ RecvEnds
  <2>1. RecvOnly
    BY <1>7 DEF RecvStep, ScanEmpty, ScanHead, PullEmpty, PullHead, Pulled, RecvWaited,
                RecvStarts, StartRecv, RecvEnds
  <2> QED
    BY <1>5, <2>1 DEF RecvOnly, linkVars
<1>8. CASE StopReceiver \/ StopTask \/ UNCHANGED vars
  BY <1>5, <1>8 DEF StopReceiver, StopTask, vars, linkVars
<1> QED
  BY <1>4, <1>6, <1>7, <1>8 DEF Next, RecvStarts

\* A frame carries the messages that come next in its lane, in order.
LEMMA FrameOrder ==
    ASSUME TypeOK, Shape, NEW p \in Lanes, NEW ms \in Frames(p), ReadFrame(p, ms)
    PROVE  /\ hand' # <<>> /\ hand'[1] \in Batch /\ hand' = <<hand'[1]>> /\ hand'[1].prio = p
           /\ Ascends(hand'[1].items)
           /\ LeftIn(hand'[1]) \subseteq Coming(p) /\ Below(LeftIn(hand'[1]), Coming(p)')
           /\ \A m \in ItemMsgs(hand'[1].items) : CcOf[m] = hand'[1].cc
           /\ arrived' = arrived \cup LeftIn(hand'[1])
<1> DEFINE s == [i \in DOMAIN ms |-> <<<<ms[i], 1>>>>]
           b == [prio |-> p, cc |-> CcOf[ms[1]], pos |-> 0, items |-> s]
           carried == {ms[i] : i \in DOMAIN ms}
<1>1. /\ hand' = <<b>> /\ b \in Batch /\ cur[p] = <<>> /\ cur' = cur
      /\ todo' = todo \ carried /\ arrived' = arrived \cup carried
  BY FrameBatch DEF ReadFrame
<1>2. /\ DOMAIN s = DOMAIN ms /\ DOMAIN ms = 1..Len(ms) /\ Len(s) = Len(ms)
      /\ \A i \in DOMAIN ms : MsgOf(s[i]) = ms[i] /\ ms[i] \in Pending(p)
  <2>1. DOMAIN ms = 1..Len(ms) /\ Len(ms) \in Nat /\ \A i \in DOMAIN ms : ms[i] \in Pending(p)
    BY FrameType, LenProperties
  <2>2. \A i \in DOMAIN ms : s[i] = <<<<ms[i], 1>>>>
    OBVIOUS
  <2>3. b.items \in Seq(Items) /\ b.items = s
    BY <1>1 DEF Batch
  <2>4. DOMAIN s = 1..Len(s) /\ Len(s) \in Nat
    BY <2>3, LenProperties
  <2> HIDE DEF s
  <2>5. Len(s) = Len(ms)
    BY <1>1, <2>1, <2>4 DEF s
  <2> QED
    BY <2>1, <2>2, <2>4, <2>5 DEF MsgOf
<1>3. /\ \A i, j \in DOMAIN ms : i < j => ms[i] < ms[j]
      /\ \A i \in DOMAIN ms : CcOf[ms[i]] = CcOf[ms[1]]
      /\ \A i \in DOMAIN ms, n \in Pending(p) : n < ms[i] => \E j \in DOMAIN ms : n = ms[j]
  BY DEF Frames
<1>4. b.items = s /\ b.pos = 0 /\ b.prio = p /\ b.cc = CcOf[ms[1]]
  OBVIOUS
<1> HIDE DEF s, b
<1>5. Ascends(s)
  BY <1>2, <1>3 DEF Ascends
<1>6. ItemMsgs(s) = carried /\ LeftIn(b) = carried
  <2>1. (0 + 1)..Len(s) = 1..Len(ms)
    BY <1>2
  <2>2. ItemMsgs(s) = {MsgOf(s[k]) : k \in DOMAIN s}
    BY MsgsByPlace
  <2>3. LeftIn(b) = {MsgOf(s[k]) : k \in (0 + 1)..Len(s)}
    BY <1>1, <1>4, MsgsByPlace
  <2>4. {MsgOf(s[k]) : k \in DOMAIN ms} = carried
    BY <1>2
  <2> QED
    BY <1>2, <2>1, <2>2, <2>3, <2>4
<1>7. carried \subseteq Coming(p) /\ Below(carried, Coming(p)')
  <2>1. Coming(p) = Pending(p) /\ Coming(p)' = Pending(p) \ carried
    BY <1>1 DEF Coming, Pending
  <2>2. Pending(p) \subseteq Nat
    BY RxConstants DEF Pending, TypeOK
  <2>3. ASSUME NEW i \in DOMAIN ms, NEW n \in Pending(p), n \notin carried
        PROVE  ms[i] < n
    BY <1>2, <1>3, <2>2, <2>3
  <2> QED
    BY <1>2, <2>1, <2>3 DEF Below
<1>8. \A m \in ItemMsgs(s) : CcOf[m] = b.cc
  BY <1>3, <1>4, <1>6
<1>9. hand'[1] = b /\ hand' # <<>>
  BY <1>1
<1> QED
  BY <1>1, <1>4, <1>5, <1>6, <1>7, <1>8, <1>9

\* The message put together from fragments is the one that comes next.
LEMMA AssembledOrder ==
    ASSUME TypeOK, Shape, NEW p \in Lanes, cur[p] # <<>>, CurFirst(p), FragSent(p),
           cur' = [cur EXCEPT ![p] = <<>>]
    PROVE  /\ Assembled(p) \in Batch /\ Assembled(p).prio = p
           /\ Ascends(Assembled(p).items) /\ LeftIn(Assembled(p)) = {cur[p][1]}
           /\ cur[p][1] \in Coming(p) /\ Below({cur[p][1]}, Coming(p)')
           /\ \A m \in ItemMsgs(Assembled(p).items) : CcOf[m] = Assembled(p).cc
<1>1. PICK m \in Msgs : m = cur[p][1] /\ CcOf[m] \in Ccs
  <2>1. PICK n \in Msgs, i \in Nat : cur[p] = <<n, i>>
    BY DEF Shape, CurOK
  <2>2. n = cur[p][1]
    BY <2>1
  <2> QED
    BY <2>2, RxConstants
<1>2. Assembled(p) = [prio |-> p, cc |-> CcOf[m], pos |-> 0, items |-> <<Whole(m)>>]
  BY <1>1 DEF Assembled
<1>3. Whole(m) \in Items /\ MsgOf(Whole(m)) = m
  BY WholeType DEF Items, MsgOf
<1> DEFINE w == Whole(m)
           s == <<w>>
           b == Assembled(p)
<1>4. /\ s \in Seq(Items) /\ Len(s) = 1 /\ s[1] = w /\ s # <<>> /\ DOMAIN s = {1}
  BY <1>3, Single
<1>5. b.items = s /\ b.pos = 0 /\ b.prio = p /\ b.cc = CcOf[m] /\ b \in Batch
  <2> HIDE DEF s
  <2>1. b = [prio |-> p, cc |-> CcOf[m], pos |-> 0, items |-> s]
    BY <1>2 DEF s
  <2> HIDE DEF b
  <2>2. 0 \in Nat /\ 0 <= Len(s)
    BY <1>4
  <2> QED
    BY <1>1, <1>4, <2>1, <2>2 DEF Batch
<1> HIDE DEF b, s, w
<1>6. ItemMsgs(s) = {m} /\ LeftIn(b) = {m} /\ Ascends(s)
  <2>1. ItemMsgs(s) = {MsgOf(s[k]) : k \in DOMAIN s}
    BY MsgsByPlace
  <2>2. LeftIn(b) = {MsgOf(s[k]) : k \in (0 + 1)..Len(s)}
    BY <1>5, MsgsByPlace
  <2>3. (0 + 1)..Len(s) = {1}
    BY <1>4
  <2>4. MsgOf(s[1]) = m
    BY <1>3, <1>4 DEF w
  <2>5. Ascends(s)
    BY <1>4 DEF Ascends
  <2> QED
    BY <1>4, <2>1, <2>2, <2>3, <2>4, <2>5
<1>7. m \in Coming(p) /\ Below({m}, Coming(p)')
  <2>1. Coming(p)' = Pending(p)'
    BY DEF Coming, TypeOK
  <2>2. Pending(p)' = Pending(p)
    BY DEF FragSent, Pending
  <2> QED
    BY <1>1, <2>1, <2>2 DEF Coming, CurFirst
<1> QED
  BY <1>1, <1>5, <1>6, <1>7 DEF b

\* The ways in which the line of a lane changes: a batch arrives behind it, the batch in
\* the task's hand is given up, a message is returned from its head, its head is removed.
Same(p) == got'[p] = got[p] /\ Line(p)' = Line(p)
Others(p) == \A q \in Lanes \ {p} : Same(q)
Arrives(p, b) ==
    /\ Others(p) /\ got'[p] = got[p] /\ Line(p)' = Line(p) \o <<b>> /\ b \in Batch
    /\ Ascends(b.items) /\ LeftIn(b) \subseteq Coming(p) /\ Below(LeftIn(b), Coming(p)')
    /\ \A m \in ItemMsgs(b.items) : CcOf[m] = b.cc
    /\ arrived' = arrived \cup LeftIn(b) /\ UNCHANGED <<expired, overtaken>>
GivenUp(p) ==
    /\ Others(p) /\ got'[p] = got[p] /\ UNCHANGED <<arrived, overtaken>>
    /\ \E b \in Batch :
        /\ Line(p) = Line(p)' \o <<b>> /\ Line(p)' \in Seq(Batch)
        /\ \/ expired' = expired \cup ItemMsgs(b.items)
           \/ expired' = expired /\ (b.cc = "drop" \/ tpc' = "closed")
Returned(p) ==
    LET b == Line(p)[1] IN
    /\ Others(p) /\ UNCHANGED historyVars
    /\ Line(p) # <<>> /\ b.pos < Len(b.items)
    /\ got'[p] = Append(got[p], b.items[b.pos + 1])
    /\ Line(p)' = [Line(p) EXCEPT ![1] = Advance(b)]
Removed(p) ==
    LET b == Line(p)[1] IN
    /\ Others(p) /\ got'[p] = got[p] /\ UNCHANGED <<arrived, expired>>
    /\ Line(p) # <<>> /\ Line(p)' = Tail(Line(p))
    /\ \/ overtaken' = overtaken \cup LeftIn(b)
       \/ overtaken' = overtaken /\ rpc = "pull" /\ p = plane /\ b = ring[p][1]

\* The reader task takes a batch from the link.
LEMMA ReadMoves ==
    ASSUME TypeOK, Shape, FragInv, ReadStep, [Next]_vars, \A p \in Lanes : CurFirst(p)
    PROVE  \/ (\A p \in Lanes : Same(p)) /\ UNCHANGED historyVars
           \/ \E p \in Lanes, b \in Batch : Arrives(p, b)
<1>1. UNCHANGED <<ring, got, expired, overtaken>> /\ tpc = "read"
  BY DEF ReadStep, ReadFrame, ReadFragment, sharedVars, recvVars
<1>2. hand = <<>>
  BY <1>1 DEF Shape
<1>3. ASSUME NEW p \in Lanes, NEW b \in Batch, hand' = <<b>>, b.prio = p
      PROVE  /\ Others(p) /\ got'[p] = got[p] /\ Line(p)' = Line(p) \o <<b>>
  <2>1. hand' # <<>> /\ InLane' = p
    BY <1>3 DEF InLane
  <2>2. \A q \in Lanes : Line(q)' = IF q = p THEN ring[q] \o <<b>> ELSE ring[q] \o <<>>
    BY <1>1, <1>3, <2>1 DEF Line
  <2>3. \A q \in Lanes : Line(q) = ring[q] /\ ring[q] \o <<>> = ring[q]
    BY <1>2, LineType, ConcatEmptySeq
  <2> QED
    BY <1>1, <2>2, <2>3 DEF Others, Same
<1>4. ASSUME NEW p \in Lanes, NEW ms \in Frames(p), ReadFrame(p, ms)
      PROVE  \E l \in Lanes, b \in Batch : Arrives(l, b)
  <2>1. PICK b : b = hand'[1]
    OBVIOUS
  <2>2. /\ b \in Batch /\ hand' = <<b>> /\ b.prio = p
        /\ Ascends(b.items)
        /\ LeftIn(b) \subseteq Coming(p) /\ Below(LeftIn(b), Coming(p)')
        /\ \A m \in ItemMsgs(b.items) : CcOf[m] = b.cc
        /\ arrived' = arrived \cup LeftIn(b)
    BY <1>4, <2>1, FrameOrder
  <2>3. Arrives(p, b)
    BY <1>1, <1>3, <2>2 DEF Arrives
  <2> QED
    BY <2>2, <2>3
<1>5. ASSUME NEW p \in Lanes, ReadFragment(p)
      PROVE  \/ (\A l \in Lanes : Same(l)) /\ UNCHANGED historyVars
             \/ \E l \in Lanes, b \in Batch : Arrives(l, b)
  <2>1. CASE UNCHANGED <<hand, arrived>>
    BY <1>1, <2>1 DEF Same, Line, InLane, historyVars
  <2>2. CASE /\ hand' = <<Assembled(p)>> /\ arrived' = arrived \cup {cur[p][1]}
             /\ cur' = [cur EXCEPT ![p] = <<>>]
    <3>1. cur[p] # <<>> /\ FragSent(p) /\ CurFirst(p)
      BY <1>5 DEF ReadFragment
    <3>2. PICK b : b = Assembled(p)
      OBVIOUS
    <3>3. /\ b \in Batch /\ b.prio = p /\ Ascends(b.items) /\ LeftIn(b) = {cur[p][1]}
          /\ cur[p][1] \in Coming(p) /\ Below({cur[p][1]}, Coming(p)')
          /\ \A m \in ItemMsgs(b.items) : CcOf[m] = b.cc
      BY <2>2, <3>1, <3>2, AssembledOrder
    <3>4. Others(p) /\ got'[p] = got[p] /\ Line(p)' = Line(p) \o <<b>>
      BY <1>3, <2>2, <3>2, <3>3
    <3>5. Arrives(p, b)
      BY <1>1, <2>2, <3>3, <3>4 DEF Arrives
    <3> QED
      BY <3>3, <3>5
  <2> QED
    BY <1>5, <2>1, <2>2, ReadFragmentWhole
<1> QED
  BY <1>4, <1>5 DEF ReadStep

\* The reader task pushes the batch, goes on waiting, or gives it up.
LEMMA TaskMoves ==
    ASSUME TypeOK, Shape, TaskStep \/ TimerFires, [Next]_vars
    PROVE  \/ (\A p \in Lanes : Same(p)) /\ UNCHANGED historyVars
           \/ \E p \in Lanes : GivenUp(p)
<1>a. TypeOK' /\ Shape'
  BY ShapeStep
<1>b. got' = got
  BY DEF TaskStep, ReadEnds, Push, Notify, Full, Waited, TimerFires, Forget, CloseTask, recvVars
<1>1. ASSUME UNCHANGED <<ring, hand, historyVars>>
      PROVE  (\A p \in Lanes : Same(p)) /\ UNCHANGED historyVars
  BY <1>1, <1>b DEF Same, Line, InLane
<1>2. CASE Push
  <2>1. UNCHANGED historyVars
    BY <1>2 DEF Push
  <2>2. CASE UNCHANGED <<ring, hand>>
    BY <1>1, <2>1, <2>2
  <2>3. CASE ring' = [ring EXCEPT ![InLane] = @ \o hand] /\ hand' = <<>> /\ hand # <<>>
    <3> SUFFICES ASSUME NEW p \in Lanes
                 PROVE  Same(p)
      BY <2>1
    <3>1. InLane \in Lanes /\ Line(p) = IF p = InLane THEN ring[p] \o hand ELSE ring[p]
      BY <2>3, LineType
    <3>2. ring'[p] = Line(p)
      BY <2>3, <3>1 DEF TypeOK
    <3>3. Line(p)' = ring'[p] \o <<>> /\ ring'[p] \in Seq(Batch)
      BY <1>a, <2>3 DEF Line, TypeOK
    <3> QED
      BY <1>b, <3>2, <3>3, ConcatEmptySeq DEF Same
  <2>4. hand # <<>>
    BY <1>2 DEF Push, Shape
  <2> QED
    BY <1>2, <2>2, <2>3, <2>4 DEF Push
<1>3. ASSUME hand # <<>>, hand' = <<>>, ring' = ring, UNCHANGED <<arrived, overtaken>>,
             \/ expired' = expired \cup ItemMsgs(hand[1].items)
             \/ expired' = expired /\ (hand[1].cc = "drop" \/ tpc' = "closed")
      PROVE  \E p \in Lanes : GivenUp(p)
  <2>1. PICK b \in Batch : hand = <<b>> /\ b = hand[1]
    BY <1>3, RxConstants, LineType
  <2>2. PICK l \in Lanes : l = InLane
    BY <1>3, RxConstants, LineType
  <2>3. \A p \in Lanes : Line(p) = IF p = l THEN ring[p] \o <<b>> ELSE ring[p]
    BY <1>3, <2>1, <2>2, LineType
  <2>4. \A p \in Lanes : Line(p)' = ring[p] /\ ring[p] \in Seq(Batch)
    <3>1. \A p \in Lanes : Line(p)' = ring[p] \o <<>> /\ ring[p] \in Seq(Batch)
      BY <1>3 DEF Line, TypeOK
    <3> QED
      BY <3>1, ConcatEmptySeq
  <2>5. Others(l) /\ Line(l) = Line(l)' \o <<b>> /\ Line(l)' \in Seq(Batch)
    BY <1>b, <2>3, <2>4 DEF Others, Same
  <2>6. GivenUp(l)
    BY <1>3, <1>b, <2>1, <2>5 DEF GivenUp
  <2> QED
    BY <2>6
<1>4. ASSUME CloseTask
      PROVE  \/ (\A p \in Lanes : Same(p)) /\ UNCHANGED historyVars
             \/ \E p \in Lanes : GivenUp(p)
  <2>1. hand' = <<>> /\ ring' = ring /\ UNCHANGED historyVars /\ tpc' = "closed"
    BY <1>4 DEF CloseTask
  <2> QED
    BY <1>1, <1>3, <2>1 DEF historyVars
<1>5. CASE Notify \/ ReadEnds \/ Waited
  <2>1. CloseTask \/ UNCHANGED <<ring, hand, historyVars>>
    BY <1>5 DEF Notify, ReadEnds, Waited
  <2> QED
    BY <1>1, <1>4, <2>1
<1>6. CASE Full \/ TimerFires
  <2>1. hand # <<>>
    BY <1>6 DEF Full, TimerFires, Shape
  <2>2. \/ UNCHANGED <<ring, hand, historyVars>>
        \/ Forget("expired")
        \/ Forget("dropped") /\ hand[1].cc = "drop"
    BY <1>6 DEF Full, TimerFires, DropAtOnce, sharedVars
  <2>3. ASSUME NEW why, Forget(why)
        PROVE  /\ hand' = <<>> /\ ring' = ring /\ UNCHANGED <<arrived, overtaken>>
               /\ why = "expired" => expired' = expired \cup ItemMsgs(hand[1].items)
               /\ why # "expired" => expired' = expired
    BY <2>3 DEF Forget
  <2>4. CASE Forget("expired")
    BY <1>3, <2>1, <2>3, <2>4
  <2>5. CASE Forget("dropped") /\ hand[1].cc = "drop"
    <3>1. expired' = expired
      BY <2>3, <2>5
    <3> QED
      BY <1>3, <2>1, <2>3, <2>5, <3>1
  <2> QED
    BY <1>1, <2>2, <2>4, <2>5
<1> QED
  BY <1>2, <1>5, <1>6 DEF TaskStep

\* The head of a line is that of the ring, if there is one.
LEMMA LineHead ==
    ASSUME TypeOK, Shape, NEW p \in Lanes, ring[p] # <<>>
    PROVE  /\ Line(p) # <<>> /\ Line(p)[1] = ring[p][1] /\ ring[p][1] \in Batch
           /\ LET h == IF hand # <<>> /\ InLane = p THEN hand ELSE <<>> IN
              /\ Tail(ring[p]) \o h = Tail(Line(p))
              /\ ring[p][1].pos < Len(ring[p][1].items) =>
                    [ring[p] EXCEPT ![1] = Advance(@)] \o h
                        = [Line(p) EXCEPT ![1] = Advance(ring[p][1])]
<1> DEFINE q == ring[p]
           h == IF hand # <<>> /\ InLane = p THEN hand ELSE <<>>
           t == q \o h
<1>1. q \in Seq(Batch) /\ h \in Seq(Batch) /\ Line(p) = t /\ q # <<>>
  BY EmptySeq DEF TypeOK, Line
<1> HIDE DEF q, h
<1>2. /\ Len(q) \in Nat /\ Len(q) > 0 /\ Len(h) \in Nat /\ q[1] \in Batch
  BY <1>1, LenProperties, EmptySeq, LaneSteps
<1>3. /\ t \in Seq(Batch) /\ Len(t) = Len(q) + Len(h)
      /\ \A i \in 1..Len(t) : t[i] = IF i <= Len(q) THEN q[i] ELSE h[i - Len(q)]
  BY <1>1, ConcatProperties
<1> HIDE DEF t
<1>4. t # <<>> /\ t[1] = q[1]
  BY <1>2, <1>3, EmptySeq
<1>5. Tail(q) \o h = Tail(t)
  <2>1. /\ Tail(q) \in Seq(Batch) /\ Len(Tail(q)) = Len(q) - 1
        /\ \A i \in 1..Len(Tail(q)) : Tail(q)[i] = q[i + 1]
    BY <1>1, HeadTailProperties
  <2>2. /\ Tail(t) \in Seq(Batch) /\ Len(Tail(t)) = Len(t) - 1
        /\ \A i \in 1..Len(Tail(t)) : Tail(t)[i] = t[i + 1]
    BY <1>3, <1>4, HeadTailProperties
  <2> DEFINE r == Tail(q) \o h
  <2>3. /\ r \in Seq(Batch) /\ Len(r) = Len(Tail(q)) + Len(h)
        /\ \A i \in 1..Len(r) : r[i] = IF i <= Len(Tail(q)) THEN Tail(q)[i]
                                       ELSE h[i - Len(Tail(q))]
    BY <1>1, <2>1, ConcatProperties
  <2> HIDE DEF r
  <2>4. Len(r) = Len(Tail(t))
    BY <1>2, <1>3, <2>1, <2>2, <2>3
  <2>5. ASSUME NEW i \in 1..Len(r)
        PROVE  r[i] = Tail(t)[i]
    <3>1. i + 1 \in 1..Len(t) /\ i \in 1..Len(Tail(t)) /\ i - (Len(q) - 1) = i + 1 - Len(q)
      BY <1>2, <1>3, <2>1, <2>2, <2>4
    <3>2. Tail(t)[i] = IF i + 1 <= Len(q) THEN q[i + 1] ELSE h[i + 1 - Len(q)]
      BY <1>3, <2>2, <3>1
    <3>3. CASE i + 1 <= Len(q)
      <4>1. i \in 1..Len(Tail(q)) /\ i <= Len(Tail(q))
        BY <1>2, <2>1, <3>3
      <4> QED
        BY <2>1, <2>3, <3>2, <3>3, <4>1
    <3>4. CASE ~(i + 1 <= Len(q))
      <4>1. ~(i <= Len(Tail(q)))
        BY <1>2, <2>1, <3>4
      <4> QED
        BY <2>1, <2>3, <3>1, <3>2, <3>4, <4>1
    <3> QED
      BY <3>3, <3>4
  <2> QED
    BY <2>2, <2>3, <2>4, <2>5, SeqEqual DEF r
<1>6. ASSUME q[1].pos < Len(q[1].items)
      PROVE  [q EXCEPT ![1] = Advance(q[1])] \o h = [t EXCEPT ![1] = Advance(q[1])]
  <2> DEFINE a == Advance(q[1])
             q2 == [q EXCEPT ![1] = a]
             t2 == [t EXCEPT ![1] = a]
  <2>1. a \in Batch
    BY <1>2, <1>6, ReadOne
  <2> HIDE DEF a
  <2>2. 1 \in 1..Len(q) /\ 1 \in 1..Len(t)
    BY <1>2, <1>3
  <2>3. /\ q2 \in Seq(Batch) /\ Len(q2) = Len(q)
        /\ \A j \in 1..Len(q) : q2[j] = IF j = 1 THEN a ELSE q[j]
    BY <1>1, <2>1, <2>2, ExceptSeq
  <2>4. /\ t2 \in Seq(Batch) /\ Len(t2) = Len(t)
        /\ \A j \in 1..Len(t) : t2[j] = IF j = 1 THEN a ELSE t[j]
    BY <1>3, <2>1, <2>2, ExceptSeq
  <2> HIDE DEF q2, t2
  <2>0. PICK r : r = q2 \o h
    OBVIOUS
  <2>5. /\ r \in Seq(Batch) /\ Len(r) = Len(q) + Len(h)
        /\ \A i \in 1..Len(r) : r[i] = IF i <= Len(q) THEN q2[i] ELSE h[i - Len(q)]
    <3>1. /\ r \in Seq(Batch) /\ Len(r) = Len(q2) + Len(h)
          /\ \A i \in 1..Len(q2) + Len(h) :
                r[i] = IF i <= Len(q2) THEN q2[i] ELSE h[i - Len(q2)]
      <4>1. q2 \in Seq(Batch) /\ h \in Seq(Batch)
        BY <1>1, <2>3
      <4>2. \A x, y \in Seq(Batch) :
                /\ x \o y \in Seq(Batch) /\ Len(x \o y) = Len(x) + Len(y)
                /\ \A i \in 1..Len(x) + Len(y) :
                      (x \o y)[i] = IF i <= Len(x) THEN x[i] ELSE y[i - Len(x)]
        BY ConcatProperties
      <4> QED
        BY <2>0, <4>1, <4>2, Zenon
    <3>2. Len(q2) = Len(q)
      BY <2>3
    <3> QED
      BY <3>1, <3>2
  <2>6. ASSUME NEW i \in 1..Len(r)
        PROVE  r[i] = t2[i]
    <3>1. i \in 1..Len(t) /\ (i = 1 => i <= Len(q)) /\ (i <= Len(q) => i \in 1..Len(q))
      BY <1>2, <1>3, <2>5
    <3> QED
      BY <1>3, <2>3, <2>4, <2>5, <3>1
  <2>7. Len(r) = Len(t2)
    BY <1>3, <2>4, <2>5
  <2> QED
    BY <2>0, <2>4, <2>5, <2>6, <2>7, SeqEqual DEF q2, t2, a
<1>7. ring[p][1].pos < Len(ring[p][1].items) =>
        [ring[p] EXCEPT ![1] = Advance(@)] \o h = [t EXCEPT ![1] = Advance(ring[p][1])]
  BY <1>6 DEF q
<1> QED
  BY <1>1, <1>2, <1>4, <1>5, <1>7 DEF q, h

\* The receiver reads from a lane or removes its head; nobody else does anything.
LEMMA RecvMoves ==
    ASSUME TypeOK, Shape,
           \/ RecvStep \/ RecvStarts \/ RecvEnds \/ StopReceiver \/ StopTask \/ UNCHANGED vars
    PROVE  \/ (\A p \in Lanes : Same(p)) /\ UNCHANGED historyVars
           \/ \E p \in Lanes : Returned(p) \/ Removed(p)
<1>1. UNCHANGED <<hand, arrived, expired>>
  BY DEF RecvStep, ScanEmpty, ScanHead, PullEmpty, PullHead, Pulled, RecvWaited, RecvStarts,
         StartRecv, RecvEnds, RecvOnly, StopReceiver, StopTask, vars, taskVars, historyVars
<1>2. ASSUME UNCHANGED <<ring, got, overtaken>>
      PROVE  (\A p \in Lanes : Same(p)) /\ UNCHANGED historyVars
  BY <1>1, <1>2 DEF Same, Line, InLane, historyVars
<1>3. CASE RecvStarts \/ ScanEmpty \/ PullEmpty \/ Pulled \/ RecvWaited \/ RecvEnds
           \/ StopReceiver \/ StopTask \/ UNCHANGED vars
  <2>1. UNCHANGED <<ring, got, overtaken>>
    BY <1>3 DEF RecvStarts, StartRecv, ScanEmpty, PullEmpty, Pulled, RecvWaited, RecvEnds,
                StopReceiver, StopTask, vars, sharedVars, recvVars, historyVars
  <2> QED
    BY <1>2, <2>1
<1>4. PICK p \in Lanes : p = rlane
  BY DEF TypeOK
<1>5. ASSUME NEW r, ring' = [ring EXCEPT ![p] = r]
      PROVE  /\ Line(p)' = r \o (IF hand # <<>> /\ InLane = p THEN hand ELSE <<>>)
             /\ \A q \in Lanes \ {p} : Line(q)' = Line(q)
  BY <1>1, <1>5 DEF Line, InLane, TypeOK
<1>6. CASE ScanHead
  <2>1. ring[p] # <<>> /\ overtaken' = overtaken
    BY <1>4, <1>6 DEF ScanHead
  <2>2. CASE UNCHANGED <<ring, got>>
    BY <1>2, <2>1, <2>2
  <2>3. CASE /\ ring[p][1].pos < Len(ring[p][1].items)
             /\ got' = [got EXCEPT ![p] = Append(@, ring[p][1].items[ring[p][1].pos + 1])]
             /\ ring' = [ring EXCEPT ![p][1] = Advance(@)]
    <3>1. PICK r : r = [ring[p] EXCEPT ![1] = Advance(@)]
      OBVIOUS
    <3>2. ring' = [ring EXCEPT ![p] = r]
      BY <2>3, <3>1
    <3>3. /\ Line(p) # <<>> /\ Line(p)[1] = ring[p][1]
          /\ Line(p)' = [Line(p) EXCEPT ![1] = Advance(ring[p][1])]
          /\ \A q \in Lanes \ {p} : Line(q)' = Line(q)
      BY <1>5, <2>1, <2>3, <3>1, <3>2, LineHead
    <3>4. /\ got'[p] = Append(got[p], ring[p][1].items[ring[p][1].pos + 1])
          /\ \A q \in Lanes \ {p} : got'[q] = got[q]
      BY <2>3 DEF TypeOK
    <3>5. Returned(p)
      BY <1>1, <2>1, <2>3, <3>3, <3>4 DEF Returned, Others, Same, historyVars
    <3> QED
      BY <3>5
  <2> QED
    BY <1>4, <1>6, <2>2, <2>3 DEF ScanHead
<1>7. CASE PullHead
  <2>1. /\ ring[p] # <<>> /\ got' = got /\ ring' = [ring EXCEPT ![p] = Tail(ring[p])]
        /\ \/ overtaken' = overtaken /\ rpc = "pull" /\ p = plane
           \/ overtaken' = overtaken \cup LeftIn(Head(ring[p]))
    BY <1>4, <1>7 DEF PullHead, LeftIn
  <2>2. ring[p] \in Seq(Batch) /\ Head(ring[p]) = ring[p][1]
    BY <2>1, LineType
  <2>3. /\ Line(p) # <<>> /\ Line(p)[1] = ring[p][1] /\ Line(p)' = Tail(Line(p))
        /\ \A q \in Lanes \ {p} : Line(q)' = Line(q)
    BY <1>5, <2>1, LineHead
  <2>4. Removed(p)
    BY <1>1, <2>1, <2>2, <2>3 DEF Removed, Others, Same
  <2> QED
    BY <2>4
<1> QED
  BY <1>3, <1>6, <1>7 DEF RecvStep

\* Every step of the pipeline moves at most one line, in one of these ways.
LEMMA LineMoves ==
    ASSUME TypeOK, Shape, FragInv, [Next]_vars, \A p \in Lanes : CurFirst(p)
    PROVE  \/ (\A p \in Lanes : Same(p)) /\ UNCHANGED historyVars
           \/ \E p \in Lanes, b \in Batch : Arrives(p, b)
           \/ \E p \in Lanes : GivenUp(p) \/ Returned(p) \/ Removed(p)
<1>1. CASE LinkStep
  <2>1. UNCHANGED <<ring, hand, got, historyVars>>
    BY <1>1 DEF LinkStep, Begin, Lose, taskVars, sharedVars, recvVars
  <2> QED
    BY <2>1 DEF Same, Line, InLane
<1>2. CASE ReadStep
  BY <1>2, ReadMoves
<1>3. CASE TaskStep \/ TimerFires
  BY <1>3, TaskMoves
<1>4. CASE RecvStep \/ RecvStarts \/ RecvEnds \/ StopReceiver \/ StopTask \/ UNCHANGED vars
  BY <1>4, RecvMoves
<1> QED
  BY <1>1, <1>2, <1>3, <1>4 DEF Next, RecvStarts

\* The order of a lane is kept by each.
LEMMA OrderStep == TypeOK /\ Shape /\ FragInv /\ OrderInv /\ [Next]_vars => OrderInv'
<1> SUFFICES ASSUME TypeOK, Shape, FragInv, OrderInv, [Next]_vars
             PROVE  OrderInv'
  OBVIOUS
<1>1. \A p \in Lanes : CurFirst(p) /\ Ordered(got[p], Line(p), Coming(p))
  BY DEF OrderInv, CurFirst
<1>2. \A p \in Lanes : Coming(p)' \subseteq Coming(p) /\ CurFirst(p)'
  BY <1>1, ComingShrinks
<1>3. \A p \in Lanes : Line(p) \in Seq(Batch) /\ got[p] \in Seq(Items)
  BY LineType
<1>4. ASSUME NEW p \in Lanes, Same(p)
      PROVE  Ordered(got'[p], Line(p)', Coming(p)')
  BY <1>1, <1>2, <1>3, <1>4, OrderedMoves DEF Same
<1>5. ASSUME NEW p \in Lanes, NEW b \in Batch, Arrives(p, b)
      PROVE  Ordered(got'[p], Line(p)', Coming(p)')
  <2>1. /\ got'[p] = got[p] /\ Line(p)' = Line(p) \o <<b>>
        /\ Ascends(b.items) /\ LeftIn(b) \subseteq Coming(p) /\ Below(LeftIn(b), Coming(p)')
    BY <1>5 DEF Arrives
  <2>2. \A C, D : /\ Ordered(got[p], Line(p), C) /\ Ascends(b.items) /\ LeftIn(b) \subseteq C
                  /\ D \subseteq C /\ Below(LeftIn(b), D)
                  => Ordered(got[p], Line(p) \o <<b>>, D)
    BY <1>3, OrderedMoves
  <2> QED
    BY <1>1, <1>2, <2>1, <2>2, Zenon
<1>6. ASSUME NEW p \in Lanes, GivenUp(p)
      PROVE  Ordered(got'[p], Line(p)', Coming(p)')
  <2>1. PICK b \in Batch : /\ Line(p) = Line(p)' \o <<b>> /\ Line(p)' \in Seq(Batch)
                           /\ got'[p] = got[p]
    BY <1>6 DEF GivenUp
  <2>2. Ordered(got[p], Line(p)', Coming(p))
    BY ZenonT(60), <1>1, <2>1, OrderedMoves
  <2> QED
    BY <1>2, <2>1, <2>2, OrderedMoves
<1>7. ASSUME NEW p \in Lanes, Returned(p)
      PROVE  Ordered(got'[p], Line(p)', Coming(p)')
  <2>1. PICK b : b = Line(p)[1]
    OBVIOUS
  <2>2. /\ Line(p) # <<>> /\ b.pos < Len(b.items)
        /\ got'[p] = Append(got[p], b.items[b.pos + 1])
        /\ Line(p)' = [Line(p) EXCEPT ![1] = Advance(b)]
    BY <1>7, <2>1 DEF Returned
  <2>3. Ordered(got'[p], Line(p)', Coming(p))
    <3>1. Line(p)[1].pos < Len(Line(p)[1].items)
      BY <2>1, <2>2
    <3>2. Ordered(Append(got[p], Line(p)[1].items[Line(p)[1].pos + 1]),
                  [Line(p) EXCEPT ![1] = Advance(Line(p)[1])], Coming(p))
      BY <1>1, <1>3, <2>2, <3>1, OrderedRead
    <3> QED
      BY <2>1, <2>2, <3>2
  <2> QED
    BY <1>2, <2>3 DEF Ordered, Below
<1>8. ASSUME NEW p \in Lanes, Removed(p)
      PROVE  Ordered(got'[p], Line(p)', Coming(p)')
  <2>1. Line(p) # <<>> /\ Line(p)' = Tail(Line(p)) /\ got'[p] = got[p]
    BY <1>8 DEF Removed
  <2>2. Ordered(got'[p], Line(p)', Coming(p))
    BY <1>1, <1>3, <2>1, OrderedMoves
  <2> QED
    BY <1>2, <2>2 DEF Ordered, Below
<1>9. \A p \in Lanes : Ordered(got'[p], Line(p)', Coming(p)')
  <2> SUFFICES ASSUME NEW q \in Lanes
               PROVE  Ordered(got'[q], Line(q)', Coming(q)')
    OBVIOUS
  <2>1. CASE Same(q)
    BY <1>4, <2>1
  <2>2. ASSUME NEW p \in Lanes, NEW b \in Batch, Arrives(p, b)
        PROVE  Ordered(got'[q], Line(q)', Coming(q)')
    BY <1>4, <1>5, <2>2 DEF Arrives, Others
  <2>3. ASSUME NEW p \in Lanes, GivenUp(p) \/ Returned(p) \/ Removed(p)
        PROVE  Ordered(got'[q], Line(q)', Coming(q)')
    BY <1>4, <1>6, <1>7, <1>8, <2>3 DEF GivenUp, Returned, Removed, Others
  <2> QED
    BY <1>1, <2>1, <2>2, <2>3, LineMoves
<1> QED
  BY <1>2, <1>9 DEF OrderInv, CurFirst

LEMMA OrderInit == Init => OrderInv
<1> SUFFICES ASSUME Init, NEW p \in Lanes
             PROVE  Ordered(got[p], Line(p), Coming(p)) /\ cur[p] = <<>>
  BY DEF OrderInv
<1>1. hand = <<>> /\ cur[p] = <<>> /\ ring[p] = <<>> /\ got[p] = <<>>
  BY DEF Init
<1>2. Line(p) = ring[p]
  BY <1>1, ShapeInit, LineType
<1>3. DOMAIN Line(p) = {} /\ DOMAIN got[p] = {}
  BY <1>1, <1>2
<1> QED
  BY <1>1, <1>3, MsgsByPlace DEF Ordered, Ascends, Below

\* recv and try_recv return the messages of one priority in the order in which they were
\* sent, none twice, whatever is lost or given up in between (try_pull, push).
THEOREM ReturnedInOrder == Safety => []InLaneOrder
<1>1. OrderInv => InLaneOrder
  BY DEF OrderInv, Ordered, Ascends, MsgOf, InLaneOrder
<1> QED
  BY <1>1, ShapeInit, ShapeStep, HoldInit, FragStep, OrderInit, OrderStep, PTL DEF Safety

----------------------------------------------------------------------------
(* Reliable messages *)

\* The messages of a batch have its congestion control.
OneKind(b) == \A m \in ItemMsgs(b.items) : CcOf[m] = b.cc
KindInv == \A p \in Lanes : \A i \in DOMAIN Line(p) : OneKind(Line(p)[i])

\* The batch that the receiver has peeked and is about to remove holds nothing reliable
\* that is unread.
PulledInv ==
    rpc = "pull" => LET b == ring[plane][1] IN b.cc = "drop" \/ b.pos = Len(b.items)

\* Where a reliable message is after it has arrived.
KeptInv ==
    \A m \in arrived :
        CcOf[m] = "block" =>
            \/ m \in Received(PrioOf[m]) \cup Left(Line(PrioOf[m]))
            \/ m \in expired \cup overtaken \/ tpc = "closed"

\* A line loses what is read, removed or given up, and no other message.
LEMMA LeftSteps ==
    ASSUME NEW q \in Seq(Batch)
    PROVE  /\ \A b \in Batch : Left(q \o <<b>>) = Left(q) \cup LeftIn(b)
           /\ q # <<>> => Left(q) = LeftIn(q[1]) \cup Left(Tail(q))
           /\ q # <<>> /\ q[1].pos < Len(q[1].items) =>
                Left(q) = {MsgOf(q[1].items[q[1].pos + 1])}
                            \cup Left([q EXCEPT ![1] = Advance(q[1])])
<1>1. /\ Len(q) \in Nat /\ DOMAIN q = 1..Len(q) /\ \A i \in DOMAIN q : q[i] \in Batch
  BY Places
<1>2. ASSUME NEW b \in Batch
      PROVE  Left(q \o <<b>>) = Left(q) \cup LeftIn(b)
  <2>1. PICK r : r = q \o <<b>>
    OBVIOUS
  <2>2. /\ DOMAIN r = 1..(Len(q) + 1) /\ \A i \in 1..Len(q) : r[i] = q[i]
        /\ r[Len(q) + 1] = b
    BY <2>1, Places
  <2>3. /\ \A i \in DOMAIN r : (i \in DOMAIN q /\ r[i] = q[i]) \/ r[i] = b
        /\ DOMAIN q \subseteq DOMAIN r /\ Len(q) + 1 \in DOMAIN r
    BY <1>1, <2>2
  <2> QED
    BY <1>1, <2>1, <2>2, <2>3 DEF Left
<1>3. ASSUME q # <<>>
      PROVE  Left(q) = LeftIn(q[1]) \cup Left(Tail(q))
  <2>1. PICK r : r = Tail(q)
    OBVIOUS
  <2>2. /\ 1 \in DOMAIN q /\ DOMAIN r = 1..(Len(q) - 1)
        /\ \A i \in 1..(Len(q) - 1) : i + 1 \in DOMAIN q /\ r[i] = q[i + 1]
    BY <1>3, <2>1, Places
  <2>3. \A i \in DOMAIN q : i = 1 \/ (i - 1 \in DOMAIN r /\ r[i - 1] = q[i])
    BY <1>1, <2>2
  <2>4. ASSUME NEW m \in Left(q)
        PROVE  m \in LeftIn(q[1]) \cup Left(r)
    <3>1. PICK i \in DOMAIN q : m \in LeftIn(q[i])
      BY DEF Left
    <3> QED
      BY <2>3, <3>1 DEF Left
  <2>5. ASSUME NEW m \in Left(r)
        PROVE  m \in Left(q)
    <3>1. PICK i \in DOMAIN r : m \in LeftIn(r[i])
      BY DEF Left
    <3>2. i + 1 \in DOMAIN q /\ r[i] = q[i + 1]
      BY <2>2
    <3> QED
      BY <3>1, <3>2 DEF Left
  <2>6. LeftIn(q[1]) \subseteq Left(q)
    BY <2>2 DEF Left
  <2> QED
    BY <2>1, <2>4, <2>5, <2>6
<1>4. ASSUME q # <<>>, q[1].pos < Len(q[1].items)
      PROVE  Left(q) = {MsgOf(q[1].items[q[1].pos + 1])}
                            \cup Left([q EXCEPT ![1] = Advance(q[1])])
  <2>1. PICK r : r = [q EXCEPT ![1] = Advance(q[1])]
    OBVIOUS
  <2>2. 1 \in DOMAIN q /\ q[1] \in Batch
    BY <1>1, <1>4, Places
  <2>3. LeftIn(q[1]) = {MsgOf(q[1].items[q[1].pos + 1])} \cup LeftIn(Advance(q[1]))
    BY <1>4, <2>2, ReadOne
  <2>4. DOMAIN r = DOMAIN q /\ r[1] = Advance(q[1]) /\ \A i \in DOMAIN q : i # 1 => r[i] = q[i]
    BY <2>1, <2>2, Places
  <2> QED
    BY <2>1, <2>2, <2>3, <2>4 DEF Left
<1> QED
  BY <1>2, <1>3, <1>4

LEMMA LeftAdded ==
    \A q \in Seq(Batch), b \in Batch : Left(q \o <<b>>) = Left(q) \cup LeftIn(b)
BY LeftSteps

\* A batch keeps what it is while it waits.
LEMMA KindStep == TypeOK /\ Shape /\ FragInv /\ OrderInv /\ KindInv /\ [Next]_vars => KindInv'
<1> SUFFICES ASSUME TypeOK, Shape, FragInv, OrderInv, KindInv, [Next]_vars
             PROVE  KindInv'
  OBVIOUS
<1> DEFINE Kind(q) == \A i \in DOMAIN q : OneKind(q[i])
<1>1. \A p \in Lanes : CurFirst(p) /\ Kind(Line(p)) /\ Line(p) \in Seq(Batch)
  BY LineType DEF OrderInv, CurFirst, KindInv
<1>2. ASSUME NEW q \in Seq(Batch)
      PROVE  /\ \A b \in Batch : Kind(q \o <<b>>) <=> Kind(q) /\ OneKind(b)
             /\ q # <<>> /\ Kind(q) => Kind(Tail(q))
             /\ q # <<>> /\ q[1].pos < Len(q[1].items) /\ Kind(q) =>
                    Kind([q EXCEPT ![1] = Advance(q[1])])
  <2>1. /\ Len(q) \in Nat /\ DOMAIN q = 1..Len(q) /\ \A i \in DOMAIN q : q[i] \in Batch
    BY Places
  <2>2. ASSUME NEW b \in Batch
        PROVE  Kind(q \o <<b>>) <=> Kind(q) /\ OneKind(b)
    <3>1. PICK r : r = q \o <<b>>
      OBVIOUS
    <3>2. /\ DOMAIN r = 1..(Len(q) + 1) /\ \A i \in 1..Len(q) : r[i] = q[i]
          /\ r[Len(q) + 1] = b
      BY <3>1, Places
    <3>3. /\ \A i \in DOMAIN r : (i \in DOMAIN q /\ r[i] = q[i]) \/ r[i] = b
          /\ DOMAIN q \subseteq DOMAIN r /\ Len(q) + 1 \in DOMAIN r
      BY <2>1, <3>2
    <3> QED
      BY <2>1, <3>1, <3>2, <3>3
  <2>3. ASSUME q # <<>>, Kind(q)
        PROVE  Kind(Tail(q))
    BY <2>3, Places
  <2>4. ASSUME q # <<>>, q[1].pos < Len(q[1].items), Kind(q)
        PROVE  Kind([q EXCEPT ![1] = Advance(q[1])])
    <3>1. PICK r : r = [q EXCEPT ![1] = Advance(q[1])]
      OBVIOUS
    <3>2. 1 \in DOMAIN q /\ q[1] \in Batch
      BY <2>1, <2>4, Places
    <3>3. Advance(q[1]).items = q[1].items /\ Advance(q[1]).cc = q[1].cc
      BY <2>4, <3>2, ReadOne
    <3>4. DOMAIN r = DOMAIN q /\ \A i \in DOMAIN q : r[i] = IF i = 1 THEN Advance(q[1]) ELSE q[i]
      BY <3>1, Places
    <3>5. OneKind(Advance(q[1]))
      BY <2>4, <3>2, <3>3 DEF OneKind
    <3> QED
      BY <2>4, <3>1, <3>4, <3>5
  <2> QED
    BY <2>2, <2>3, <2>4
<1> HIDE DEF Kind
<1>3. ASSUME NEW p \in Lanes, NEW b \in Batch, Arrives(p, b)
      PROVE  Kind(Line(p)')
  BY <1>1, <1>2, <1>3 DEF Arrives, OneKind
<1>4. ASSUME NEW p \in Lanes, GivenUp(p)
      PROVE  Kind(Line(p)')
  BY <1>1, <1>2, <1>4 DEF GivenUp
<1>5. ASSUME NEW p \in Lanes, Returned(p) \/ Removed(p)
      PROVE  Kind(Line(p)')
  BY <1>1, <1>2, <1>5 DEF Returned, Removed
<1>6. \A q \in Lanes : Same(q) => Kind(Line(q)')
  BY <1>1 DEF Same
<1>7. \A q \in Lanes : Kind(Line(q)')
  <2>1. ASSUME NEW p \in Lanes, Others(p), Kind(Line(p)')
        PROVE  \A q \in Lanes : Kind(Line(q)')
    BY <1>6, <2>1 DEF Others
  <2>2. ASSUME NEW p \in Lanes, NEW b \in Batch, Arrives(p, b)
        PROVE  \A q \in Lanes : Kind(Line(q)')
    BY <1>3, <2>1, <2>2 DEF Arrives
  <2>3. ASSUME NEW p \in Lanes, GivenUp(p) \/ Returned(p) \/ Removed(p)
        PROVE  \A q \in Lanes : Kind(Line(q)')
    BY <1>4, <1>5, <2>1, <2>3 DEF GivenUp, Returned, Removed
  <2> QED
    BY <1>1, <1>6, <2>2, <2>3, LineMoves
<1> QED
  BY <1>7 DEF KindInv, Kind

\* The head that was peeked stays at the head of its lane: only the receiver removes it.
LEMMA PulledStep == TypeOK /\ Shape /\ PulledInv /\ [Next]_vars => PulledInv'
<1> SUFFICES ASSUME TypeOK, Shape, PulledInv, [Next]_vars
             PROVE  PulledInv'
  OBVIOUS
<1>1. ASSUME rpc' = rpc, plane' = plane,
             rpc = "pull" => ring'[plane] = ring[plane] \/ ring'[plane][1] = ring[plane][1]
      PROVE  PulledInv'
  BY <1>1 DEF PulledInv
<1>2. ASSUME UNCHANGED <<ring, rpc, plane>>
      PROVE  PulledInv'
  BY <1>2 DEF PulledInv
<1>3. CASE Push
  <2>1. UNCHANGED <<rpc, plane>>
    BY <1>3 DEF Push, recvVars
  <2>2. CASE ring' = ring
    BY <1>2, <2>1, <2>2
  <2>3. CASE ring' = [ring EXCEPT ![InLane] = @ \o hand]
    <3>1. PICK b \in Batch : hand = <<b>>
      BY <1>3 DEF Push, Shape
    <3>2. ASSUME rpc = "pull"
          PROVE  ring'[plane] = ring[plane] \/ ring'[plane][1] = ring[plane][1]
      <4>1. plane \in Lanes /\ ring[plane] \in Seq(Batch) /\ ring[plane] # <<>>
        BY <3>2 DEF Shape, TypeOK
      <4>2. 1 \in 1..Len(ring[plane])
        BY <4>1, Places
      <4>3. (ring[plane] \o <<b>>)[1] = ring[plane][1]
        BY <4>1, <4>2, Places
      <4> QED
        BY <2>3, <3>1, <4>1, <4>3 DEF TypeOK
    <3> QED
      BY <1>1, <2>1, <3>2
  <2> QED
    BY <1>3, <2>2, <2>3 DEF Push
<1>4. CASE LinkStep \/ ReadStep \/ Notify \/ ReadEnds \/ Full \/ Waited \/ TimerFires
           \/ StopTask \/ UNCHANGED vars
  <2>1. UNCHANGED <<ring, rpc, plane>>
    BY <1>4 DEF LinkStep, Begin, Lose, ReadStep, ReadFrame, ReadFragment, Notify, ReadEnds, Full,
                Waited, TimerFires, Forget, CloseTask, StopTask, vars, sharedVars, recvVars
  <2> QED
    BY <1>2, <2>1
<1>5. CASE RecvStarts \/ ScanEmpty \/ PullHead \/ Pulled \/ RecvWaited \/ RecvEnds \/ StopReceiver
  BY <1>5 DEF RecvStarts, StartRecv, ScanEmpty, PullHead, Pulled, RecvWaited, RecvEnds,
              StopReceiver, PulledInv
<1>6. CASE PullEmpty
  BY <1>2, <1>6 DEF PullEmpty, sharedVars
<1>7. CASE ScanHead
  <2>1. PICK p \in Lanes : p = rlane /\ ring[p] \in Seq(Batch) /\ ring[p] # <<>>
    BY <1>7 DEF ScanHead, TypeOK
  <2>2. ring[p][1] \in Batch
    BY <2>1, Places
  <2>3. ring[p][1].pos \in Nat /\ ring[p][1].pos <= Len(ring[p][1].items)
        /\ Len(ring[p][1].items) \in Nat
    BY <2>2, LenProperties DEF Batch
  <2>4. rpc' = "pull" =>
            /\ ring' = ring /\ plane' = p
            /\ HeadDropped(ring[p][1], p) \/ ~(ring[p][1].pos < Len(ring[p][1].items))
    BY <1>7, <2>1 DEF ScanHead
  <2> QED
    BY <2>1, <2>3, <2>4 DEF PulledInv, HeadDropped
<1> QED
  BY <1>3, <1>4, <1>5, <1>6, <1>7 DEF Next, TaskStep, RecvStep, RecvStarts

\* What is left of a batch is part of it, and nothing of one that has been read.
LEMMA LeftIsPart ==
    ASSUME NEW b \in Batch
    PROVE  LeftIn(b) \subseteq ItemMsgs(b.items) /\ (b.pos = Len(b.items) => LeftIn(b) = {})
<1>1. b.pos \in Nat /\ DOMAIN b.items = 1..Len(b.items) /\ Len(b.items) \in Nat
  BY LenProperties DEF Batch
<1>2. /\ LeftIn(b) = {MsgOf(b.items[k]) : k \in (b.pos + 1)..Len(b.items)}
      /\ ItemMsgs(b.items) = {MsgOf(b.items[k]) : k \in DOMAIN b.items}
  BY MsgsByPlace
<1>3. /\ (b.pos + 1)..Len(b.items) \subseteq DOMAIN b.items
      /\ b.pos = Len(b.items) => (b.pos + 1)..Len(b.items) = {}
  BY <1>1
<1> QED
  BY <1>2, <1>3

\* A reliable message that has arrived stays in its line until it is returned, its time is
\* over, or a pull meant for another lane takes it.
LEMMA KeptStep ==
    TypeOK /\ Shape /\ FragInv /\ OrderInv /\ KindInv /\ PulledInv /\ KeptInv /\ [Next]_vars
        => KeptInv'
<1> SUFFICES ASSUME TypeOK, Shape, FragInv, OrderInv, KindInv, PulledInv, KeptInv, [Next]_vars,
                    NEW m \in arrived', CcOf[m] = "block"
             PROVE  \/ m \in Received(PrioOf[m])' \cup Left(Line(PrioOf[m])')
                    \/ m \in expired' \cup overtaken' \/ tpc' = "closed"
  BY DEF KeptInv
<1> USE RxConstants
<1>1. tpc = "closed" => tpc' = "closed"
  BY DEF Next, LinkStep, Begin, Lose, ReadStep, ReadFrame, ReadFragment, TaskStep, ReadEnds,
         CloseTask, Push, Notify, Full, Waited, TimerFires, RecvStep, ScanEmpty, ScanHead,
         PullEmpty, PullHead, Pulled, RecvWaited, StartRecv, RecvEnds, RecvOnly, StopReceiver,
         StopTask, vars, taskVars
<1>2. m \in Msgs
  BY ShapeStep DEF TypeOK
<1>3. PICK p \in Lanes : p = PrioOf[m]
  BY <1>2
<1>4. Line(p) \in Seq(Batch) /\ got[p] \in Seq(Items)
  BY LineType
<1>5. m \in arrived => \/ m \in Received(p) \cup Left(Line(p))
                       \/ m \in expired \cup overtaken \/ tpc = "closed"
  BY <1>3 DEF KeptInv
<1>6. ASSUME Same(p), m \in arrived, expired \subseteq expired', overtaken \subseteq overtaken'
      PROVE  \/ m \in Received(p)' \cup Left(Line(p)')
             \/ m \in expired' \cup overtaken' \/ tpc' = "closed"
  BY <1>1, <1>5, <1>6 DEF Same, Received
<1>7. ASSUME NEW b \in Batch, NEW i \in DOMAIN Line(p), b = Line(p)[i], m \in LeftIn(b)
      PROVE  b.cc = "block"
  BY <1>7, LeftIsPart DEF KindInv, OneKind
<1>8. ASSUME NEW l \in Lanes, NEW b \in Batch, Arrives(l, b)
      PROVE  \/ m \in Received(p)' \cup Left(Line(p)')
             \/ m \in expired' \cup overtaken' \/ tpc' = "closed"
  <2>1. /\ Line(l)' = Line(l) \o <<b>> /\ got'[l] = got[l] /\ LeftIn(b) \subseteq Coming(l)
        /\ arrived' = arrived \cup LeftIn(b) /\ UNCHANGED <<expired, overtaken>> /\ Others(l)
    BY <1>8 DEF Arrives
  <2>2. m \in LeftIn(b) => p = l
    <3>1. cur[l] # <<>> => PrioOf[cur[l][1]] = l
      BY DEF Shape, CurOK
    <3> QED
      BY <1>3, <2>1, <3>1 DEF Coming, Pending
  <2>3. CASE p = l
    <3>1. Left(Line(p)') = Left(Line(p)) \cup LeftIn(b)
      BY <1>4, <2>1, <2>3, LeftAdded
    <3> QED
      BY <1>1, <1>5, <2>1, <2>3, <3>1 DEF Received
  <2>4. CASE p # l
    BY <1>6, <2>1, <2>2, <2>4 DEF Others
  <2> QED
    BY <2>3, <2>4
<1>9. ASSUME NEW l \in Lanes, GivenUp(l)
      PROVE  \/ m \in Received(p)' \cup Left(Line(p)')
             \/ m \in expired' \cup overtaken' \/ tpc' = "closed"
  <2>1. PICK b \in Batch :
            /\ Line(l) = Line(l)' \o <<b>> /\ Line(l)' \in Seq(Batch)
            /\ \/ expired' = expired \cup ItemMsgs(b.items)
               \/ expired' = expired /\ (b.cc = "drop" \/ tpc' = "closed")
    BY <1>9 DEF GivenUp
  <2>2. got'[l] = got[l] /\ UNCHANGED <<arrived, overtaken>> /\ Others(l)
    BY <1>9 DEF GivenUp
  <2>3. CASE p = l
    <3>1. Left(Line(p)) = Left(Line(p)') \cup LeftIn(b)
      BY <2>1, <2>3, LeftAdded
    <3>2. m \in LeftIn(b) => b.cc = "block" /\ m \in ItemMsgs(b.items)
      <4>1. \E i \in DOMAIN Line(l) : Line(l)[i] = b
        <5>1. PICK q \in Seq(Batch) : q = Line(l)'
          BY <2>1
        <5>2. /\ Len(q) \in Nat /\ DOMAIN (q \o <<b>>) = 1..(Len(q) + 1)
              /\ (q \o <<b>>)[Len(q) + 1] = b
          BY Places
        <5>3. Len(q) + 1 \in DOMAIN (q \o <<b>>)
          BY <5>2
        <5> QED
          BY <2>1, <5>1, <5>2, <5>3
      <4> QED
        BY <1>7, <2>3, <4>1, LeftIsPart
    <3> QED
      BY <1>1, <1>5, <2>1, <2>2, <2>3, <3>1, <3>2 DEF Received
  <2>4. CASE p # l
    BY <1>6, <2>1, <2>2, <2>4 DEF Others
  <2> QED
    BY <2>3, <2>4
<1>10. ASSUME NEW l \in Lanes, Returned(l)
       PROVE  \/ m \in Received(p)' \cup Left(Line(p)')
              \/ m \in expired' \cup overtaken' \/ tpc' = "closed"
  <2>1. PICK b : b = Line(l)[1]
    OBVIOUS
  <2>2. PICK item : item = b.items[b.pos + 1]
    OBVIOUS
  <2>3. /\ Others(l) /\ UNCHANGED <<arrived, expired, overtaken>>
        /\ Line(l) # <<>> /\ b.pos < Len(b.items) /\ got'[l] = Append(got[l], item)
        /\ Line(l)' = [Line(l) EXCEPT ![1] = Advance(b)]
    BY <1>10, <2>1, <2>2 DEF Returned, historyVars
  <2>4. CASE p = l
    <3>1. Line(p)[1].pos < Len(Line(p)[1].items)
      BY <2>1, <2>3, <2>4
    <3>2. Left(Line(p)) = {MsgOf(Line(p)[1].items[Line(p)[1].pos + 1])}
                            \cup Left([Line(p) EXCEPT ![1] = Advance(Line(p)[1])])
      BY <1>4, <2>3, <2>4, <3>1, LeftSteps
    <3>3. Left(Line(p)) = {MsgOf(item)} \cup Left(Line(p)')
      BY <2>1, <2>2, <2>3, <2>4, <3>2
    <3>4. Received(p)' = Received(p) \cup {MsgOf(item)}
      <4>1. b \in Batch /\ b.items \in Seq(Items) /\ b.pos + 1 \in 1..Len(b.items)
        <5>1. b \in Batch
          BY <1>4, <2>1, <2>3, <2>4, Places
        <5> QED
          BY <2>3, <5>1, LenProperties DEF Batch
      <4>2. item \in Items
        BY <2>2, <4>1, ElementOfSeq
      <4>3. PICK g \in Seq(Items) : \E h : g = got[p] /\ h = Append(g, item)
        BY <1>4
      <4>8. PICK h : g = got[p] /\ h = Append(g, item)
        BY <4>3
      <4>4. /\ h \in Seq(Items) /\ Len(h) = Len(g) + 1
            /\ \A i \in 1..Len(g) : h[i] = g[i]
            /\ h[Len(g) + 1] = item
        BY <4>2, <4>8, AppendProperties
      <4>5. Len(g) \in Nat /\ DOMAIN g = 1..Len(g) /\ DOMAIN h = 1..(Len(g) + 1)
        BY <4>4, LenProperties
      <4>6. /\ \A i \in DOMAIN h : (i \in DOMAIN g /\ h[i] = g[i]) \/ i = Len(g) + 1
            /\ DOMAIN g \subseteq DOMAIN h /\ Len(g) + 1 \in DOMAIN h
        BY <4>4, <4>5
      <4>7. ItemMsgs(h) = ItemMsgs(g) \cup {MsgOf(item)}
        BY <4>4, <4>5, <4>6, MsgsByPlace
      <4> QED
        BY <2>3, <2>4, <4>8, <4>7 DEF Received
    <3> QED
      BY <1>1, <1>5, <2>3, <3>3, <3>4
  <2>5. CASE p # l
    BY <1>6, <2>3, <2>5 DEF Others
  <2> QED
    BY <2>4, <2>5
<1>11. ASSUME NEW l \in Lanes, Removed(l)
       PROVE  \/ m \in Received(p)' \cup Left(Line(p)')
              \/ m \in expired' \cup overtaken' \/ tpc' = "closed"
  <2>1. PICK b : b = Line(l)[1]
    OBVIOUS
  <2>2. /\ Others(l) /\ got'[l] = got[l] /\ UNCHANGED <<arrived, expired>>
        /\ Line(l) # <<>> /\ Line(l)' = Tail(Line(l))
        /\ \/ overtaken' = overtaken \cup LeftIn(b)
           \/ overtaken' = overtaken /\ rpc = "pull" /\ l = plane /\ b = ring[l][1]
    BY <1>11, <2>1 DEF Removed
  <2>3. CASE p = l
    <3>1. Left(Line(p)) = LeftIn(b) \cup Left(Line(p)')
      BY <1>4, <2>1, <2>2, <2>3, LeftSteps
    <3>2. b \in Batch /\ 1 \in DOMAIN Line(p)
      BY <1>4, <2>1, <2>2, <2>3, Places
    <3>3. m \in LeftIn(b) => m \in overtaken'
      <4>1. CASE overtaken' = overtaken /\ rpc = "pull" /\ l = plane /\ b = ring[l][1]
        <5>1. b.cc = "drop" \/ b.pos = Len(b.items)
          BY <4>1 DEF PulledInv
        <5>2. m \in LeftIn(b) => b.cc = "block"
          BY <1>7, <2>1, <2>3, <3>2
        <5> QED
          BY <3>2, <5>1, <5>2, LeftIsPart
      <4> QED
        BY <2>2, <4>1
    <3> QED
      BY <1>1, <1>5, <2>2, <2>3, <3>1, <3>3 DEF Received
  <2>4. CASE p # l
    BY <1>6, <2>2, <2>4 DEF Others
  <2> QED
    BY <2>3, <2>4
<1>12. CASE (\A l \in Lanes : Same(l)) /\ UNCHANGED historyVars
  <2>1. Same(p) /\ arrived' = arrived /\ expired' = expired /\ overtaken' = overtaken
    BY <1>12 DEF historyVars
  <2> QED
    BY <1>3, <1>6, <2>1
<1>13. \A l \in Lanes : CurFirst(l)
  BY DEF OrderInv, CurFirst
<1> QED
  BY <1>3, <1>8, <1>9, <1>10, <1>11, <1>12, <1>13, LineMoves

\* Whatever a lane still holds is waiting.
LEMMA LineWaits ==
    ASSUME TypeOK, Shape, NEW p \in Lanes
    PROVE  Left(Line(p)) \subseteq Waiting(p)
<1>1. \A b \in Elements(ring[p]) : LeftIn(b) \subseteq Waiting(p)
  BY DEF Waiting, LeftIn
<1>2. CASE Line(p) = ring[p]
  BY <1>1, <1>2 DEF Left, Elements
<1>3. CASE hand # <<>> /\ p = InLane
  <2>1. PICK b \in Batch : hand = <<b>> /\ b = hand[1]
    BY <1>3, LineType
  <2>2. Line(p) = ring[p] \o <<b>> /\ ring[p] \in Seq(Batch) /\ b.prio = p
    BY <1>3, <2>1, LineType
  <2>3. Left(Line(p)) = Left(ring[p]) \cup LeftIn(b)
    BY <2>2, LeftAdded
  <2>4. b \in Elements(hand)
    BY <2>1 DEF Elements
  <2>5. ItemMsgs(b.items) \subseteq Waiting(p)
    <3>1. b \in {h \in Elements(hand) : h.prio = p}
      BY <2>2, <2>4
    <3> QED
      BY <3>1 DEF Waiting
  <2>6. Left(ring[p]) \subseteq Waiting(p)
    BY <1>1 DEF Left, Elements
  <2> QED
    BY <2>3, <2>5, <2>6, LeftIsPart
<1> QED
  BY <1>2, <1>3, LineType

\* A reliable message that reached the reader task completely is returned or waits, unless
\* its time was over, a pull took it for another, or the task has ended: the congestion
\* of a lane costs no reliable message (try_pull, push).
THEOREM ReliableMessagesKept == Safety => []ReliableKept
<1>1. Init => KindInv /\ PulledInv /\ KeptInv
  <2> SUFFICES ASSUME Init
               PROVE  KindInv /\ PulledInv /\ KeptInv
    OBVIOUS
  <2>1. \A p \in Lanes : Line(p) = <<>>
    <3>1. \A p \in Lanes : Line(p) = ring[p]
      BY ShapeInit, LineType DEF Init
    <3> QED
      BY <3>1 DEF Init
  <2> QED
    BY <2>1 DEF Init, KindInv, PulledInv, KeptInv
<1>2. TypeOK /\ Shape /\ KeptInv => ReliableKept
  <2> SUFFICES ASSUME TypeOK, Shape, KeptInv, NEW m \in arrived \ (expired \cup overtaken),
                      CcOf[m] = "block"
               PROVE  m \in Received(PrioOf[m]) \cup Waiting(PrioOf[m]) \/ tpc = "closed"
    BY DEF ReliableKept
  <2>1. PrioOf[m] \in Lanes
    BY RxConstants DEF TypeOK
  <2> QED
    BY <2>1, LineWaits DEF KeptInv
<1> QED
  BY <1>1, <1>2, ShapeInit, ShapeStep, HoldInit, FragStep, OrderInit, OrderStep, KindStep, PulledStep,
     KeptStep, PTL DEF Safety
=============================================================================
