------------------------------ MODULE TxProofs ------------------------------
(***************************************************************************)
(* Theorems about the transmission pipeline, for any number of senders,    *)
(* messages, lanes and buffers.                                            *)
(***************************************************************************)
EXTENDS TxProperties, FiniteSetTheorems, SequenceTheorems, TLAPS

----------------------------------------------------------------------------
(* The inductive invariant *)

Holding == {"acquire", "wait", "write", "moved", "unlock"}

\* A sender holds its lane while it fills a batch.  There is a batch to write
\* into in the lane of a writing sender, and none in that of a waiting one.
SenderInv(s) ==
    /\ pc[s] \in Holding => lock[LaneOf(s)] = s
    /\ pc[s] = "write" => booked[LaneOf(s)] # <<>>
    /\ pc[s] = "wait" => booked[LaneOf(s)] = <<>>

\* The writer task and stop hold the lanes they have locked so far; the writer
\* task looks at a lane while it backs off.
WriterInv ==
    /\ \A p \in Lanes : wpc = "drain" /\ p < lane => lock[p] = "writer"
    /\ \A p \in Lanes : wpc \in {"drainflush", "drainpull"} => lock[p] = "writer"
    /\ wpc \in {"setbackoff", "yield", "setflush", "tryflush"} => lane \in Lanes
StopInv ==
    /\ spc = "no" => slane = 1
    /\ \A p \in Lanes : spc = "lock" /\ p < slane => lock[p] = "stop"
    /\ \A p \in Lanes : spc = "flush" => lock[p] = "stop"

LockInv == (\A s \in Senders : SenderInv(s)) /\ WriterInv /\ StopInv

----------------------------------------------------------------------------
(* Sequences of batches *)

\* Appending, taking the head and flushing keep the type of a lane.
LEMMA BatchSeqs ==
    ASSUME NEW q \in Seq(Batch)
    PROVE  /\ \A b \in Batch : Append(q, b) \in Seq(Batch) /\ Len(Append(q, b)) = Len(q) + 1
           /\ q # <<>> => /\ Head(q) \in Batch /\ Head(q) = q[1]
                          /\ Tail(q) \in Seq(Batch) /\ Len(Tail(q)) = Len(q) - 1
           /\ \A r \in Seq(Batch) : q \o r \in Seq(Batch) /\ Len(q \o r) = Len(q) + Len(r)
           /\ Len(q) \in Nat /\ (q = <<>> <=> Len(q) = 0)
           /\ \A i \in 1..Len(q) : q[i] \in Batch
<1>1. \A b \in Batch : Append(q, b) \in Seq(Batch) /\ Len(Append(q, b)) = Len(q) + 1
  BY AppendProperties
<1>2. q # <<>> => /\ Head(q) \in Batch /\ Head(q) = q[1]
                  /\ Tail(q) \in Seq(Batch) /\ Len(Tail(q)) = Len(q) - 1
  <2>1. q # <<>> => Head(q) \in Batch /\ Tail(q) \in Seq(Batch) /\ Len(Tail(q)) = Len(q) - 1
    BY HeadTailProperties
  <2> QED
    BY <2>1
<1>3. \A r \in Seq(Batch) : q \o r \in Seq(Batch) /\ Len(q \o r) = Len(q) + Len(r)
  BY ConcatProperties
<1>4. Len(q) \in Nat /\ (q = <<>> <=> Len(q) = 0)
  BY EmptySeq, LenProperties
<1>5. \A i \in 1..Len(q) : q[i] \in Batch
  BY ElementOfSeq
<1> QED
  BY <1>1, <1>2, <1>3, <1>4, <1>5

\* A fresh batch, and a batch that a message is written into, is a batch.
LEMMA FreshBatchType == \A m \in Msgs : FreshBatch(m) \in Batch
BY MessageAssumption DEF FreshBatch, Batch, Kinds

LEMMA WrittenBatchType ==
    ASSUME NEW b \in Batch, NEW m \in Msgs, NEW n \in Nat, NEW k \in Kinds
    PROVE  /\ [b EXCEPT !.msgs = Append(@, m)] \in Batch
           /\ [b EXCEPT !.sn = n, !.msgs = <<m>>] \in Batch
           /\ [b EXCEPT !.sn = n, !.kind = k, !.msgs = <<m>>] \in Batch
           /\ [b EXCEPT !.msgs = Append(@, m)].prio = b.prio
           /\ [b EXCEPT !.sn = n, !.msgs = <<m>>].prio = b.prio
           /\ [b EXCEPT !.sn = n, !.kind = k, !.msgs = <<m>>].prio = b.prio
<1>1. Append(b.msgs, m) \in Seq(Msgs) /\ <<m>> \in Seq(Msgs)
  BY DEF Batch
<1>2. ASSUME NEW ms \in Seq(Msgs)
      PROVE  /\ [b EXCEPT !.msgs = ms] \in Batch
             /\ [b EXCEPT !.sn = n, !.msgs = ms] \in Batch
             /\ [b EXCEPT !.sn = n, !.kind = k, !.msgs = ms] \in Batch
             /\ [b EXCEPT !.msgs = ms].prio = b.prio
             /\ [b EXCEPT !.sn = n, !.msgs = ms].prio = b.prio
             /\ [b EXCEPT !.sn = n, !.kind = k, !.msgs = ms].prio = b.prio
  BY DEF Batch
<1> QED
  BY <1>1, <1>2

LEMMA LaneOfType ==
    ASSUME TypeOK, NEW s \in Senders, pc[s] # "idle"
    PROVE  LaneOf(s) \in Lanes /\ msg[s] \in Msgs /\ CcOf[msg[s]] \in Ccs
BY MessageAssumption DEF LaneOf, TypeOK, SenderTypeOK

----------------------------------------------------------------------------
(* Types *)

LEMMA InitType == Init => TypeOK
<1> SUFFICES ASSUME Init PROVE TypeOK
  OBVIOUS
<1>1. <<>> \in Seq(Batch) /\ Len(<<>>) = 0 /\ <<>> \in Seq(Msgs)
  BY EmptySeq
<1>2. LaneTypeOK
  BY <1>1, CapacityAssumption DEF Init, LaneTypeOK, Ccs
<1>3. SharedTypeOK
  BY DEF Init, SharedTypeOK
<1>4. SenderTypeOK
  BY DEF Init, SenderTypeOK, SPc, Results
<1>5. 1 \in 1..(NPrio + 1)
  BY CapacityAssumption
<1>6. WriterTypeOK
  <2>1. hand = <<>> /\ wire = <<>> /\ nref = 0 /\ lane = 1 /\ owed = 0
    BY DEF Init
  <2>2. hand \in Seq(Batch) /\ nref \in 0..Len(hand) /\ wire \in Seq(Batch)
    BY <1>1, <2>1
  <2> QED
    BY <1>5, <2>1, <2>2 DEF Init, WriterTypeOK, WPc
<1>7. StopTypeOK
  BY <1>5 DEF Init, StopTypeOK
<1> QED
  BY <1>2, <1>3, <1>4, <1>6, <1>7 DEF TypeOK

\* What a step leaves alone keeps its type.
LEMMA UnchangedTypes ==
    ASSUME TypeOK
    PROVE  /\ UNCHANGED laneVars => LaneTypeOK'
           /\ UNCHANGED <<statusVars, canPull, flagged>> => SharedTypeOK'
           /\ UNCHANGED senderVars => SenderTypeOK'
           /\ UNCHANGED writerVars => WriterTypeOK'
           /\ UNCHANGED stopVars => StopTypeOK'
<1>1. UNCHANGED laneVars => LaneTypeOK'
  BY DEF TypeOK, LaneTypeOK, laneVars
<1>2. UNCHANGED <<statusVars, canPull, flagged>> => SharedTypeOK'
  BY DEF TypeOK, SharedTypeOK, statusVars
<1>3. UNCHANGED senderVars => SenderTypeOK'
  BY DEF TypeOK, SenderTypeOK, senderVars
<1>4. UNCHANGED writerVars => WriterTypeOK'
  BY DEF TypeOK, WriterTypeOK, writerVars
<1>5. UNCHANGED stopVars => StopTypeOK'
  BY DEF TypeOK, StopTypeOK, stopVars
<1> QED
  BY <1>1, <1>2, <1>3, <1>4, <1>5

\* The ways in which send returns or fails keep the sender's variables typed.
LEMMA ReturnTypes ==
    ASSUME TypeOK, NEW s \in Senders, pc[s] # "idle", NEW r \in Results
    PROVE  /\ Return(s, r) => SenderTypeOK'
           /\ Fail(s, r) /\ UNCHANGED <<msg, pieces>> =>
                SenderTypeOK' /\ flagged' \in SUBSET Msgs
           /\ Unlocked(s) \in [Lanes -> Senders \cup {"none", "writer", "stop"}]
<1>1. msg[s] \in Msgs
  BY DEF TypeOK, SenderTypeOK
<1>2. Return(s, r) => SenderTypeOK'
  BY <1>1 DEF Return, TypeOK, SenderTypeOK, SPc
<1>3. Fail(s, r) /\ UNCHANGED <<msg, pieces>> => SenderTypeOK'
  BY <1>1 DEF Fail, TypeOK, SenderTypeOK, SPc
<1>4. Fail(s, r) => flagged' \in SUBSET Msgs
  BY <1>1 DEF Fail, TypeOK, SharedTypeOK
<1>5. Unlocked(s) \in [Lanes -> Senders \cup {"none", "writer", "stop"}]
  BY DEF Unlocked, TypeOK, LaneTypeOK
<1> QED
  BY <1>2, <1>3, <1>4, <1>5

\* The allocation counter saturates at AllocMax.
LEMMA AllocationType ==
    ASSUME TypeOK, NEW p \in Lanes
    PROVE  /\ allocated \in [Lanes -> 0..AllocMax]
           /\ CountAllocation(p) => allocated' \in [Lanes -> 0..AllocMax]
<1>1. allocated \in [Lanes -> 0..AllocMax] /\ allocated[p] \in 0..AllocMax
  BY DEF TypeOK, LaneTypeOK
<1>2. (IF allocated[p] < AllocMax THEN allocated[p] + 1 ELSE allocated[p]) \in 0..AllocMax
  BY <1>1, CapacityAssumption
<1> QED
  BY <1>1, <1>2 DEF CountAllocation

\* Every step of a sender keeps the types of the variables.
LEMMA SenderTypes ==
    ASSUME TypeOK, LockInv, NEW s \in Senders,
           SenderStep(s) \/ Cancel(s) \/ \E m \in Msgs : Send(s, m)
    PROVE  TypeOK'
<1> USE DEF TypeOK, laneVars, statusVars, senderVars, writerVars, stopVars
<1> DEFINE p == LaneOf(s)
           Holders == Senders \cup {"none", "writer", "stop"}
<1>a. pc[s] # "idle" => p \in Lanes /\ msg[s] \in Msgs /\ CcOf[msg[s]] \in Ccs
  BY LaneOfType
<1>1. ASSUME NEW m \in Msgs, Send(s, m)
      PROVE  TypeOK'
  <2>1. SenderTypeOK'
    BY <1>1 DEF Send, SenderTypeOK, SPc, Results
  <2> QED
    BY <1>1, <2>1, UnchangedTypes DEF Send
<1>2. CASE Lock(s)
  <2>1. LaneTypeOK'
    BY <1>2, <1>a DEF Lock, LaneTypeOK
  <2>2. SenderTypeOK'
    BY <1>2 DEF Lock, SenderTypeOK, SPc
  <2> QED
    BY <1>2, <2>1, <2>2, UnchangedTypes DEF Lock
<1>3. CASE LockTimeout(s) \/ WaitFails(s)
  <2>1. \E r \in Results : pc[s] # "idle" /\ Fail(s, r) /\ UNCHANGED <<msg, pieces>>
    BY <1>3 DEF LockTimeout, WaitFails, Results
  <2>2. SenderTypeOK' /\ flagged' \in SUBSET Msgs /\ Unlocked(s) \in [Lanes -> Holders]
    BY <2>1, ReturnTypes
  <2>3. LaneTypeOK'
    BY <1>3, <2>1, <2>2 DEF LockTimeout, WaitFails, Fail, LaneTypeOK
  <2>4. SharedTypeOK'
    BY <1>3, <2>2 DEF LockTimeout, WaitFails, SharedTypeOK
  <2> QED
    BY <1>3, <2>2, <2>3, <2>4, UnchangedTypes DEF LockTimeout, WaitFails
<1>4. CASE AcquireBooked(s)
  <2>1. SenderTypeOK'
    BY <1>4 DEF AcquireBooked, SenderTypeOK, SPc
  <2> QED
    BY <1>4, <2>1, UnchangedTypes DEF AcquireBooked
<1>5. CASE AcquireFresh(s)
  <2>1. FreshBatch(msg[s]) \in Batch /\ p \in Lanes
    BY <1>5, <1>a, FreshBatchType DEF AcquireFresh
  <2>2. <<FreshBatch(msg[s])>> \in Seq(Batch) /\ Len(<<FreshBatch(msg[s])>>) = 1
    BY <2>1
  <2>3. booked' \in [Lanes -> Seq(Batch)] /\ \A q \in Lanes : Len(booked'[q]) <= 1
    BY <1>5, <2>1, <2>2 DEF AcquireFresh, LaneTypeOK
  <2>4. free' \in [Lanes -> Nat]
    <3>1. \/ free[p] > 0 /\ free' = [free EXCEPT ![p] = @ - 1]
          \/ free' = free
      BY <1>5 DEF AcquireFresh
    <3>2. free \in [Lanes -> Nat] /\ free[p] \in Nat
      BY <2>1 DEF LaneTypeOK
    <3> QED
      BY <2>1, <3>1, <3>2
  <2>5. allocated' \in [Lanes -> 0..AllocMax]
    <3>1. allocated' = allocated \/ CountAllocation(p)
      BY <1>5 DEF AcquireFresh
    <3> QED
      BY <2>1, <3>1, AllocationType
  <2>6. LaneTypeOK'
    BY <1>5, <2>1, <2>3, <2>4, <2>5 DEF AcquireFresh, LaneTypeOK
  <2>7. SenderTypeOK'
    BY <1>5 DEF AcquireFresh, SenderTypeOK, SPc
  <2> QED
    BY <1>5, <2>6, <2>7, UnchangedTypes DEF AcquireFresh
<1>6. CASE AcquireNone(s)
  <2>1. pc[s] # "idle" /\ p \in Lanes
    BY <1>6, <1>a DEF AcquireNone
  <2>2. allocated' \in [Lanes -> 0..AllocMax]
    BY <1>6, <2>1, AllocationType DEF AcquireNone
  <2>3. CASE pc' = [pc EXCEPT ![s] = "wait"] /\ UNCHANGED <<lock, flagged, res>>
    <3>1. LaneTypeOK'
      BY <1>6, <2>2, <2>3 DEF AcquireNone, LaneTypeOK
    <3>2. SenderTypeOK'
      BY <1>6, <2>3 DEF AcquireNone, SenderTypeOK, SPc
    <3> QED
      BY <1>6, <2>3, <3>1, <3>2, UnchangedTypes DEF AcquireNone
  <2>4. CASE Fail(s, "timeout")
    <3>1. SenderTypeOK' /\ flagged' \in SUBSET Msgs /\ Unlocked(s) \in [Lanes -> Holders]
      BY <1>6, <2>1, <2>4, ReturnTypes DEF AcquireNone, Results
    <3>2. LaneTypeOK'
      BY <1>6, <2>2, <2>4, <3>1 DEF AcquireNone, Fail, LaneTypeOK
    <3>3. SharedTypeOK'
      BY <1>6, <3>1 DEF AcquireNone, SharedTypeOK
    <3> QED
      BY <1>6, <3>1, <3>2, <3>3, UnchangedTypes DEF AcquireNone
  <2> QED
    BY <1>6, <2>3, <2>4 DEF AcquireNone
<1>7. CASE WaitRefilled(s)
  <2>1. LaneTypeOK'
    BY <1>7, <1>a DEF WaitRefilled, LaneTypeOK
  <2>2. SenderTypeOK'
    BY <1>7 DEF WaitRefilled, SenderTypeOK, SPc
  <2> QED
    BY <1>7, <2>1, <2>2, UnchangedTypes DEF WaitRefilled
<1>8. CASE SetCongested(s) \/ Cancel(s) \/ LateNotify(s)
  <2>1. \E r \in Results : pc[s] # "idle" /\ Return(s, r)
    BY <1>8, <1>a DEF SetCongested, Cancel, LateNotify, Results, SenderTypeOK
  <2>2. SenderTypeOK' /\ lock' \in [Lanes -> Holders] /\ p \in Lanes
    BY <2>1, <1>a, ReturnTypes DEF Return
  <2>3. LaneTypeOK'
    BY <1>8, <2>2 DEF SetCongested, Cancel, LateNotify, LaneTypeOK
  <2>4. SharedTypeOK'
    BY <1>8, <2>2 DEF SetCongested, Cancel, LateNotify, NotifyPull, SharedTypeOK
  <2> QED
    BY <1>8, <2>2, <2>3, <2>4, UnchangedTypes DEF SetCongested, Cancel, LateNotify
<1>9. CASE MovedNotify(s)
  <2>1. pc[s] # "idle"
    BY <1>9 DEF MovedNotify
  <2>2. SenderTypeOK' /\ lock' \in [Lanes -> Holders]
    <3>1. CASE Continue(s)
      BY <2>1, <3>1 DEF Continue, SenderTypeOK, LaneTypeOK, SPc
    <3>2. CASE \E r \in {"closed", "ok"} : Return(s, r)
      BY <3>2, <2>1, ReturnTypes DEF Return, Results
    <3> QED
      BY <1>9, <3>1, <3>2 DEF MovedNotify
  <2>3. LaneTypeOK'
    BY <1>9, <2>2 DEF MovedNotify, LaneTypeOK
  <2>4. SharedTypeOK'
    BY <1>9 DEF MovedNotify, NotifyPull, SharedTypeOK
  <2> QED
    BY <1>9, <2>2, <2>3, <2>4, UnchangedTypes DEF MovedNotify
<1>10. CASE Unlock(s)
  <2>1. Unlocked(s) \in [Lanes -> Holders]
    BY <1>10, ReturnTypes DEF Unlock, Results
  <2>2. LaneTypeOK'
    BY <1>10, <2>1 DEF Unlock, LaneTypeOK
  <2>3. SenderTypeOK'
    BY <1>10 DEF Unlock, SenderTypeOK, SPc
  <2> QED
    BY <1>10, <2>2, <2>3, UnchangedTypes DEF Unlock
<1>11. CASE WriteAppend(s) \/ WriteFull(s) \/ WriteFrame(s) \/ WriteFragment(s)
  <2> DEFINE b == Head(booked[p])
  <2>1. pc[s] = "write" /\ p \in Lanes /\ msg[s] \in Msgs /\ CcOf[msg[s]] \in Ccs
    BY <1>11, <1>a DEF WriteAppend, WriteFull, WriteFrame, WriteFragment
  <2>2. b \in Batch
    BY <2>1, BatchSeqs DEF LockInv, SenderInv, LaneTypeOK
  <2>3. NextSn(s) \in Nat
    BY <2>1 DEF NextSn, LaneTypeOK
  <2>4. FragKind(s) \in Kinds
    BY DEF FragKind, Kinds
  <2>5. ASSUME NEW c \in Batch, Commit(p, c)
        PROVE  /\ ring' \in [Lanes -> Seq(Batch)] /\ booked' \in [Lanes -> Seq(Batch)]
               /\ \A q \in Lanes : Len(booked'[q]) <= 1
    <3>1. Append(ring[p], c) \in Seq(Batch) /\ <<>> \in Seq(Batch) /\ Len(<<>>) = 0
      BY <2>1, BatchSeqs, EmptySeq DEF LaneTypeOK
    <3> QED
      BY <2>1, <2>5, <3>1 DEF Commit, LaneTypeOK
  <2>6. ASSUME NEW c \in Batch, KeepOrCommit(s, c)
        PROVE  /\ ring' \in [Lanes -> Seq(Batch)] /\ booked' \in [Lanes -> Seq(Batch)]
               /\ \A q \in Lanes : Len(booked'[q]) <= 1
               /\ bo' \in [Lanes -> Nat] /\ flush' \in SUBSET Lanes
               /\ pc' \in [Senders -> SPc] /\ pieces' \in [Senders -> Nat]
    <3>1. flush' \in SUBSET Lanes /\ pieces' \in [Senders -> Nat]
      BY <2>6 DEF KeepOrCommit, SharedTypeOK, SenderTypeOK
    <3>2. CASE ExpressOf[msg[s]] \/ p \in flush
      <4>1. Commit(p, c) /\ bo' = [bo EXCEPT ![p] = 0] /\ pc' = [pc EXCEPT ![s] = "moved"]
        BY <2>6, <3>2 DEF KeepOrCommit
      <4>2. bo' \in [Lanes -> Nat] /\ pc' \in [Senders -> SPc]
        BY <2>1, <4>1 DEF LaneTypeOK, SenderTypeOK, SPc
      <4> QED
        BY <2>5, <3>1, <4>1, <4>2
    <3>3. CASE ~(ExpressOf[msg[s]] \/ p \in flush)
      <4>1. /\ booked' = [booked EXCEPT ![p] = <<c>>] /\ ring' = ring
            /\ pc' = [pc EXCEPT ![s] = "unlock"]
            /\ \E growth \in {0, 1} : bo' = [bo EXCEPT ![p] = @ + growth]
        BY <2>6, <3>3 DEF KeepOrCommit, Growth
      <4>2. <<c>> \in Seq(Batch) /\ Len(<<c>>) = 1
        OBVIOUS
      <4>3. bo' \in [Lanes -> Nat] /\ pc' \in [Senders -> SPc]
        BY <2>1, <4>1 DEF LaneTypeOK, SenderTypeOK, SPc
      <4>4. /\ booked' \in [Lanes -> Seq(Batch)] /\ ring' \in [Lanes -> Seq(Batch)]
            /\ \A q \in Lanes : Len(booked'[q]) <= 1
        <5>1. \A q \in Lanes : Len(booked'[q]) <= 1
          BY <2>1, <4>1, <4>2 DEF LaneTypeOK
        <5> QED
          BY <2>1, <4>1, <4>2, <5>1 DEF LaneTypeOK
      <4> QED
        BY <3>1, <4>3, <4>4
    <3> QED
      BY <3>2, <3>3
  <2>7. UseSn(s) => seqnum' \in [Lanes -> [Ccs -> Nat]]
    BY <2>1, <2>3 DEF UseSn, LaneTypeOK
  <2>8. CASE WriteAppend(s) \/ WriteFrame(s)
    <3>1. \E c \in Batch : KeepOrCommit(s, c)
      BY <2>1, <2>2, <2>3, <2>8, WrittenBatchType DEF WriteAppend, WriteFrame, Kinds
    <3>2. LaneTypeOK'
      BY <2>6, <2>7, <2>8, <3>1 DEF WriteAppend, WriteFrame, LaneTypeOK
    <3>3. SharedTypeOK'
      BY <2>6, <2>8, <3>1 DEF WriteAppend, WriteFrame, SharedTypeOK
    <3>4. SenderTypeOK'
      <4>1. \A t \in Senders : t # s => pc'[t] = pc[t]
        BY <2>8 DEF WriteAppend, WriteFrame, KeepOrCommit, SenderTypeOK
      <4> QED
        BY <2>1, <2>6, <2>8, <3>1, <4>1 DEF WriteAppend, WriteFrame, SenderTypeOK
    <3> QED
      BY <2>8, <3>2, <3>3, <3>4, UnchangedTypes DEF WriteAppend, WriteFrame
  <2>9. CASE WriteFull(s) \/ WriteFragment(s)
    <3>1. \E c \in Batch : Commit(p, c)
      BY <2>1, <2>2, <2>3, <2>4, <2>9, WrittenBatchType DEF WriteFull, WriteFragment
    <3>2. bo' \in [Lanes -> Nat] /\ seqnum' \in [Lanes -> [Ccs -> Nat]]
      <4>1. bo' = [bo EXCEPT ![p] = 0] /\ (seqnum' = seqnum \/ UseSn(s))
        BY <2>9 DEF WriteFull, WriteFragment
      <4> QED
        BY <2>1, <2>7, <4>1 DEF LaneTypeOK
    <3>3. LaneTypeOK'
      BY <2>5, <2>9, <3>1, <3>2 DEF WriteFull, WriteFragment, LaneTypeOK
    <3>4. SenderTypeOK'
      <4>1. /\ pc' = [pc EXCEPT ![s] = "moved"] /\ msg' = msg /\ res' = res
            /\ pieces' = pieces \/ pieces' = [pieces EXCEPT ![s] = @ + 1]
        BY <2>9 DEF WriteFull, WriteFragment
      <4>2. pieces' \in [Senders -> Nat]
        BY <4>1 DEF SenderTypeOK
      <4> QED
        BY <2>1, <4>1, <4>2 DEF SenderTypeOK, SPc
    <3> QED
      BY <2>9, <3>3, <3>4, UnchangedTypes DEF WriteFull, WriteFragment
  <2> QED
    BY <1>11, <2>8, <2>9
<1> QED
  BY <1>1, <1>2, <1>3, <1>4, <1>5, <1>6, <1>7, <1>8, <1>9, <1>10, <1>11 DEF SenderStep

\* Flushing lanes, recycling a buffer and unlocking keep the lanes typed.
LEMMA LaneOps ==
    ASSUME TypeOK
    PROVE  /\ \A ps \in SUBSET Lanes : FlushLanes(ps) =>
                /\ ring' \in [Lanes -> Seq(Batch)] /\ booked' \in [Lanes -> Seq(Batch)]
                /\ \A q \in Lanes : Len(booked'[q]) <= 1
           /\ \A p \in Lanes : Refill(p) => free' \in [Lanes -> Nat] /\ owed' \in Lanes
           /\ \A h : Unlocked(h) \in [Lanes -> Senders \cup {"none", "writer", "stop"}]
<1> USE DEF TypeOK, LaneTypeOK
<1>1. ASSUME NEW ps \in SUBSET Lanes, FlushLanes(ps)
      PROVE  /\ ring' \in [Lanes -> Seq(Batch)] /\ booked' \in [Lanes -> Seq(Batch)]
             /\ \A q \in Lanes : Len(booked'[q]) <= 1
  <2>1. \A q \in Lanes : ring[q] \o booked[q] \in Seq(Batch) /\ ring[q] \in Seq(Batch)
                         /\ booked[q] \in Seq(Batch)
    BY BatchSeqs
  <2>2. <<>> \in Seq(Batch) /\ Len(<<>>) = 0
    BY EmptySeq
  <2> QED
    BY <1>1, <2>1, <2>2 DEF FlushLanes
<1>2. ASSUME NEW p \in Lanes, Refill(p)
      PROVE  free' \in [Lanes -> Nat] /\ owed' \in Lanes
  BY <1>2 DEF Refill
<1>3. \A h : Unlocked(h) \in [Lanes -> Senders \cup {"none", "writer", "stop"}]
  BY DEF Unlocked
<1> QED
  BY <1>1, <1>2, <1>3

\* Every step of the writer task keeps the types of the variables.
LEMMA WriterTypes ==
    ASSUME TypeOK, LockInv, WriterStep \/ KeepAlive \/ KeepAliveWritten \/ SeeToken
    PROVE  TypeOK'
<1> USE DEF TypeOK, laneVars, statusVars, senderVars, writerVars, stopVars
<1>a. /\ wpc \in WPc /\ lane \in 1..(NPrio + 1) /\ seen \in [Lanes -> Nat]
      /\ hand \in Seq(Batch) /\ nref \in 0..Len(hand) /\ wire \in Seq(Batch)
      /\ owed \in Lanes \cup {0}
  BY DEF WriterTypeOK
<1>b. 1 \in 1..(NPrio + 1) /\ (lane \in Lanes => lane + 1 \in 1..(NPrio + 1))
  BY CapacityAssumption DEF Lanes
<1>c. /\ <<>> \in Seq(Batch) /\ 0 \in 0..Len(<<>>) /\ Len(hand) \in Nat
      /\ 0 \in 0..Len(hand)
  BY <1>a, EmptySeq, LenProperties
<1>d. \A i \in 1..Len(hand) : hand[i] \in Batch /\ hand[i].prio \in Lanes
  <2>1. \A i \in 1..Len(hand) : hand[i] \in Batch
    BY <1>a, ElementOfSeq
  <2> QED
    BY <2>1 DEF Batch
<1>e. [q \in Lanes |-> 0] \in [Lanes -> Nat]
  OBVIOUS
<1>1. CASE \/ PullCheck \/ PullNone \/ TryPullCheck \/ TryPullNone
           \/ KeepAlive \/ KeepAliveWritten \/ SeeToken
  <2>1. WriterTypeOK'
    BY <1>1, <1>a, <1>b, <1>e
       DEF PullCheck, PullNone, TryPullCheck, TryPullNone, KeepAlive, KeepAliveWritten,
           SeeToken, NewPull, WriterTypeOK, WPc
  <2> QED
    BY <1>1, <2>1, UnchangedTypes
       DEF PullCheck, PullNone, TryPullCheck, TryPullNone, KeepAlive, KeepAliveWritten,
           SeeToken
<1>2. CASE Yield \/ Write \/ WriteFails \/ RefillDone
  <2>1. wpc = "yield" => seen' \in [Lanes -> Nat] \/ ~Yield
    BY <1>a DEF Yield, LockInv, WriterInv, LaneTypeOK
  <2>2. wire \o hand \in Seq(Batch)
    BY <1>a, ConcatProperties
  <2>3. \A k \in 0..Len(hand) : wire \o SubSeq(hand, 1, k) \in Seq(Batch)
    <3> TAKE k \in 0..Len(hand)
    <3>1. SubSeq(hand, 1, k) \in Seq(Batch)
      BY <1>a, <1>d, SubSeqProperties
    <3> QED
      BY <1>a, <3>1, ConcatProperties
  <2>4. WriterTypeOK'
    <3>1. CASE Yield
      BY <1>a, <2>1, <3>1 DEF Yield, WriterTypeOK, WPc
    <3>2. CASE Write \/ WriteFails \/ RefillDone
      BY <1>a, <1>b, <1>c, <2>2, <2>3, <3>2 DEF Write, WriteFails, RefillDone, WriterTypeOK, WPc
    <3> QED
      BY <1>2, <3>1, <3>2
  <2> QED
    BY <1>2, <2>4, UnchangedTypes DEF Yield, Write, WriteFails, RefillDone
<1>3. CASE PullBooked \/ SetBackoff \/ SetFlush \/ ResetBackoff \/ Unpark
  <2>1. WriterTypeOK'
    BY <1>3, <1>a, <1>e DEF PullBooked, SetBackoff, SetFlush, ResetBackoff, Unpark, NewPull,
                            WriterTypeOK, WPc
  <2>2. SharedTypeOK'
    BY <1>3 DEF PullBooked, SetBackoff, SetFlush, ResetBackoff, Unpark, LockInv, WriterInv,
                SharedTypeOK
  <2> QED
    BY <1>3, <2>1, <2>2, UnchangedTypes
       DEF PullBooked, SetBackoff, SetFlush, ResetBackoff, Unpark
<1>4. CASE PullSome \/ TryPullSome
  <2> DEFINE b == Head(ring[lane])
  <2>1. /\ lane \in Lanes /\ ring[lane] # <<>>
        /\ \E restart \in WPc : TakeHead(restart)
    BY <1>4 DEF PullSome, TryPullSome, TakeHead, WPc
  <2>2. b \in Batch /\ b.prio \in Lanes /\ Tail(ring[lane]) \in Seq(Batch)
    <3>1. b \in Batch /\ Tail(ring[lane]) \in Seq(Batch)
      BY <2>1, BatchSeqs DEF LaneTypeOK
    <3> QED
      BY <3>1 DEF Batch
  <2>3. free' \in [Lanes -> Nat] /\ owed' \in Lanes \cup {0}
    <3>1. Refill(b.prio) \/ UNCHANGED <<free, owed>>
      BY <2>1 DEF TakeHead
    <3> QED
      BY <1>a, <2>2, <3>1, LaneOps DEF LaneTypeOK
  <2>4. LaneTypeOK'
    <3>1. ring' = [ring EXCEPT ![lane] = Tail(ring[lane])]
          /\ UNCHANGED <<booked, allocated, lock, bo, seqnum, canRefill>>
      BY <2>1 DEF TakeHead
    <3> QED
      BY <2>2, <2>3, <3>1 DEF LaneTypeOK
  <2>5. SharedTypeOK'
    BY <2>1 DEF TakeHead, SharedTypeOK
  <2>6. WriterTypeOK'
    <3>1. Append(hand, b) \in Seq(Batch) /\ Len(Append(hand, b)) = Len(hand) + 1
      BY <1>a, <2>2, AppendProperties
    <3>2. nref \in 0..(Len(hand) + 1)
      BY <1>a, <1>c
    <3>3. \/ UNCHANGED <<seen, inBackoff, hand>>
          \/ seen' = [q \in Lanes |-> 0] /\ inBackoff' = FALSE /\ hand' = Append(hand, b)
      BY <2>1 DEF TakeHead, NewPull
    <3>4. wpc' \in WPc /\ UNCHANGED <<lane, nref, wire, linkUp>>
      BY <2>1 DEF TakeHead, WPc
    <3>5. hand' \in Seq(Batch) /\ nref' \in 0..Len(hand')
      BY <1>a, <3>1, <3>2, <3>3, <3>4
    <3> QED
      BY <1>a, <1>e, <2>3, <3>3, <3>4, <3>5 DEF WriterTypeOK
  <2> QED
    BY <2>1, <2>4, <2>5, <2>6, UnchangedTypes DEF TakeHead
<1>5. CASE TryFlush
  <2>1. /\ ring' \in [Lanes -> Seq(Batch)] /\ booked' \in [Lanes -> Seq(Batch)]
        /\ \A q \in Lanes : Len(booked'[q]) <= 1
    <3>1. {lane} \in SUBSET Lanes
      BY <1>5 DEF TryFlush, LockInv, WriterInv
    <3> QED
      BY <1>5, <3>1, LaneOps DEF TryFlush, LaneTypeOK
  <2>2. LaneTypeOK'
    BY <1>5, <2>1 DEF TryFlush, LaneTypeOK
  <2>3. WriterTypeOK'
    BY <1>5 DEF TryFlush, WriterTypeOK, WPc
  <2> QED
    BY <1>5, <2>2, <2>3, UnchangedTypes DEF TryFlush
<1>6. CASE RefillHand \/ DrainWrite
  <2>1. nref + 1 \in 1..Len(hand) /\ nref + 1 \in 0..Len(hand)
    BY <1>6, <1>a, <1>c DEF RefillHand, DrainWrite
  <2>2. hand[nref + 1] \in Batch /\ hand[nref + 1].prio \in Lanes
    BY <1>d, <2>1
  <2>3. LaneTypeOK'
    <3>1. /\ Refill(hand[nref + 1].prio)
          /\ UNCHANGED <<ring, booked, allocated, lock, bo, seqnum, canRefill>>
      BY <1>6 DEF RefillHand, DrainWrite
    <3> QED
      BY <2>2, <3>1, LaneOps DEF LaneTypeOK
  <2>4. WriterTypeOK'
    <3>1. Append(wire, hand[nref + 1]) \in Seq(Batch)
      BY <1>a, <2>2, AppendProperties
    <3>2. owed' \in Lanes
      BY <1>6, <2>2, LaneOps DEF RefillHand, DrainWrite
    <3> QED
      BY <1>6, <1>a, <2>1, <3>1, <3>2 DEF RefillHand, DrainWrite, WriterTypeOK
  <2> QED
    BY <1>6, <2>3, <2>4, UnchangedTypes DEF RefillHand, DrainWrite
<1>7. CASE DrainLock \/ DrainFlush \/ DrainUnlock
  <2>1. LaneTypeOK'
    <3>1. CASE DrainLock
      BY <3>1 DEF DrainLock, LaneTypeOK
    <3>2. CASE DrainFlush
      BY <3>2, LaneOps DEF DrainFlush, LaneTypeOK
    <3>3. CASE DrainUnlock
      BY <3>3, LaneOps DEF DrainUnlock, LaneTypeOK
    <3> QED
      BY <1>7, <3>1, <3>2, <3>3
  <2>2. WriterTypeOK'
    BY <1>7, <1>a, <1>b DEF DrainLock, DrainFlush, DrainUnlock, WriterTypeOK, WPc
  <2> QED
    BY <1>7, <2>1, <2>2, UnchangedTypes DEF DrainLock, DrainFlush, DrainUnlock
<1>8. CASE DrainPull
  <2>1. PICK p \in Lanes : /\ ring[p] # <<>>
                           /\ hand' = Append(hand, Head(ring[p]))
                           /\ ring' = [ring EXCEPT ![p] = Tail(@)]
    BY <1>8 DEF DrainPull
  <2>2. Head(ring[p]) \in Batch /\ Tail(ring[p]) \in Seq(Batch)
    BY <2>1, BatchSeqs DEF LaneTypeOK
  <2>3. LaneTypeOK'
    BY <1>8, <2>1, <2>2 DEF DrainPull, LaneTypeOK
  <2>4. hand' \in Seq(Batch) /\ Len(hand') = Len(hand) + 1
    BY <1>a, <2>1, <2>2, AppendProperties
  <2>5. nref' \in 0..Len(hand')
    BY <1>8, <1>a, <1>c, <2>4 DEF DrainPull
  <2>6. WriterTypeOK'
    BY <1>8, <2>4, <2>5 DEF DrainPull, WriterTypeOK
  <2> QED
    BY <1>8, <2>3, <2>6, UnchangedTypes DEF DrainPull
<1>9. CASE DrainWriteFails \/ DrainDone
  <2>1. Close
    BY <1>9 DEF DrainWriteFails, DrainDone
  <2>2. LaneTypeOK' /\ SharedTypeOK'
    BY <2>1, UnchangedTypes DEF Close, SharedTypeOK
  <2>3. wire' \in Seq(Batch) /\ linkUp' \in BOOLEAN
    <3>1. CASE DrainDone
      BY <3>1 DEF DrainDone, WriterTypeOK
    <3>2. CASE DrainWriteFails
      <4>1. hand[nref + 1] \in Batch
        BY <1>a, <1>c, <1>d, <3>2 DEF DrainWriteFails
      <4>2. Append(wire, hand[nref + 1]) \in Seq(Batch)
        BY <1>a, <4>1, AppendProperties
      <4> QED
        BY <1>a, <3>2, <4>2 DEF DrainWriteFails
    <3> QED
      BY <1>9, <3>1, <3>2
  <2>4. WriterTypeOK'
    BY <1>a, <1>c, <2>1, <2>3 DEF Close, WriterTypeOK, WPc
  <2> QED
    BY <2>1, <2>2, <2>4, UnchangedTypes DEF Close
<1>10. CASE FireRefill
  <2>1. LaneTypeOK' /\ WriterTypeOK'
    BY <1>10 DEF FireRefill, LaneTypeOK, WriterTypeOK
  <2> QED
    BY <1>10, <2>1, UnchangedTypes DEF FireRefill
<1>11. CASE CloseLane
  <2>1. LaneTypeOK'
    BY <1>11 DEF CloseLane, LaneTypeOK
  <2> QED
    BY <1>11, <2>1, UnchangedTypes DEF CloseLane
<1> QED
  BY <1>1, <1>2, <1>3, <1>4, <1>5, <1>6, <1>7, <1>8, <1>9, <1>10, <1>11
     DEF WriterStep, PullStep, WriteStep, DrainStep

\* So does every step of a stop.
LEMMA StopTypes ==
    ASSUME TypeOK, StopDisable \/ StopStep \/ TaskStop
    PROVE  TypeOK'
<1> USE DEF TypeOK, laneVars, statusVars, senderVars, writerVars, stopVars
<1>1. CASE StopDisable \/ StopCancel \/ TaskStop
  <2>1. StopTypeOK'
    BY <1>1 DEF StopDisable, StopCancel, TaskStop, Promise, StopTypeOK
  <2>2. SharedTypeOK'
    BY <1>1 DEF StopDisable, StopCancel, TaskStop, SharedTypeOK
  <2> QED
    BY <1>1, <2>1, <2>2, UnchangedTypes DEF StopDisable, StopCancel, TaskStop
<1>2. CASE StopLock
  <2>1. slane + 1 \in 1..(NPrio + 1)
    BY <1>2, CapacityAssumption DEF StopLock, Lanes
  <2>2. StopTypeOK'
    BY <1>2, <2>1 DEF StopLock, StopTypeOK
  <2>3. LaneTypeOK'
    BY <1>2 DEF StopLock, LaneTypeOK
  <2> QED
    BY <1>2, <2>2, <2>3, UnchangedTypes DEF StopLock
<1>3. CASE StopFlush
  <2>1. LaneTypeOK'
    BY <1>3, LaneOps DEF StopFlush, LaneTypeOK
  <2>2. StopTypeOK'
    BY <1>3 DEF StopFlush, StopTypeOK
  <2> QED
    BY <1>3, <2>1, <2>2, UnchangedTypes DEF StopFlush
<1> QED
  BY <1>1, <1>2, <1>3 DEF StopStep

----------------------------------------------------------------------------
(* Locks *)

\* An actor h takes free lanes and gives back its own; it moves a booked batch
\* only in a lane that is its own or free.
OnlyOwn(h) ==
    \A p \in Lanes :
        /\ \/ lock'[p] = lock[p]
           \/ lock[p] = h /\ lock'[p] = "none"
           \/ lock[p] = "none" /\ lock'[p] = h
        /\ booked'[p] = booked[p] \/ lock[p] \in {h, "none"}

SameSender(s) == pc'[s] = pc[s] /\ msg'[s] = msg[s]

\* What an actor may do leaves the invariants of the others alone.
LEMMA OthersKeep ==
    ASSUME TypeOK, LockInv, NEW h \in Senders \cup {"writer", "stop"}, OnlyOwn(h)
    PROVE  /\ \A s \in Senders : s # h /\ SameSender(s) => SenderInv(s)'
           /\ h # "writer" /\ UNCHANGED writerVars => WriterInv'
           /\ h # "stop" /\ UNCHANGED stopVars => StopInv'
<1>1. ASSUME NEW s \in Senders, s # h, SameSender(s) PROVE SenderInv(s)'
  <2>1. pc[s] \in Holding => LaneOf(s) \in Lanes
    BY LaneOfType DEF Holding
  <2>2. (LaneOf(s))' = LaneOf(s)
    BY <1>1 DEF SameSender, LaneOf
  <2>3. s \notin {"none", "writer", "stop"}
    BY ActorAssumption
  <2>4. pc[s] \in Holding => /\ lock'[LaneOf(s)] = lock[LaneOf(s)]
                             /\ booked'[LaneOf(s)] = booked[LaneOf(s)]
    BY <1>1, <2>1, <2>3 DEF OnlyOwn, LockInv, SenderInv
  <2> QED
    BY <1>1, <2>2, <2>4 DEF LockInv, SenderInv, SameSender, Holding
<1>2. ASSUME h # "writer", UNCHANGED writerVars PROVE WriterInv'
  BY <1>2 DEF OnlyOwn, LockInv, WriterInv, writerVars
<1>3. ASSUME h # "stop", UNCHANGED stopVars PROVE StopInv'
  BY <1>3 DEF OnlyOwn, LockInv, StopInv, stopVars
<1> QED
  BY <1>1, <1>2, <1>3

\* Giving back all the lanes of h.
LEMMA UnlockedOwn ==
    ASSUME TypeOK, NEW h \in Senders \cup {"writer", "stop"}, lock' = Unlocked(h),
           \A p \in Lanes : booked'[p] = booked[p] \/ lock[p] \in {h, "none"}
    PROVE  OnlyOwn(h)
BY DEF Unlocked, OnlyOwn

\* A step of a sender respects the locks of the others and keeps its own.
LEMMA SenderLocks ==
    ASSUME TypeOK, LockInv, NEW s \in Senders,
           SenderStep(s) \/ Cancel(s) \/ \E m \in Msgs : Send(s, m)
    PROVE  LockInv'
<1> USE DEF TypeOK, laneVars, statusVars, senderVars, writerVars, stopVars
<1> DEFINE p == LaneOf(s)
<1>a. /\ pc[s] # "idle" => p \in Lanes
      /\ pc[s] \in Holding => lock[p] = s
  BY LaneOfType DEF LockInv, SenderInv
<1>b. s \in Senders \cup {"writer", "stop"} /\ s # "writer" /\ s # "stop"
  BY ActorAssumption
<1>c. SUFFICES /\ OnlyOwn(s) /\ SenderInv(s)'
               /\ \A t \in Senders : t # s => SameSender(t)
               /\ UNCHANGED <<writerVars, stopVars>>
  <2> SUFFICES ASSUME OnlyOwn(s), SenderInv(s)', UNCHANGED writerVars, UNCHANGED stopVars,
                      \A t \in Senders : t # s => SameSender(t)
               PROVE  LockInv'
    OBVIOUS
  <2>1. WriterInv' /\ StopInv' /\ \A t \in Senders : t # s => SenderInv(t)'
    BY <1>b, OthersKeep
  <2> QED
    BY <2>1 DEF LockInv
<1>1. ASSUME NEW m \in Msgs, Send(s, m)
      PROVE  /\ OnlyOwn(s) /\ SenderInv(s)'
             /\ \A t \in Senders : t # s => SameSender(t)
             /\ UNCHANGED <<writerVars, stopVars>>
  BY <1>1 DEF Send, OnlyOwn, SenderInv, Holding, SameSender, SenderTypeOK
<1>2. ASSUME Lock(s)
      PROVE  /\ OnlyOwn(s) /\ SenderInv(s)'
             /\ \A t \in Senders : t # s => SameSender(t)
             /\ UNCHANGED <<writerVars, stopVars>>
  BY <1>2, <1>a DEF Lock, OnlyOwn, SenderInv, Holding, SameSender, SenderTypeOK, LaneTypeOK, LaneOf
<1>3. ASSUME NEW r, \/ Return(s, r) /\ UNCHANGED <<booked, writerVars, stopVars>>
                    \/ Fail(s, r) /\ UNCHANGED <<booked, msg, writerVars, stopVars>>
      PROVE  /\ OnlyOwn(s) /\ SenderInv(s)'
             /\ \A t \in Senders : t # s => SameSender(t)
             /\ UNCHANGED <<writerVars, stopVars>>
  <2>1. pc'[s] \in {"idle", "failed"} /\ lock' = Unlocked(s) /\ UNCHANGED booked
    BY <1>3 DEF Return, Fail, SenderTypeOK
  <2>2. OnlyOwn(s)
    BY <1>b, <2>1, UnlockedOwn
  <2>3. SenderInv(s)'
    BY <2>1 DEF SenderInv, Holding
  <2> QED
    BY <1>3, <2>2, <2>3 DEF Return, Fail, SameSender, SenderTypeOK
<1>4. ASSUME AcquireBooked(s) \/ WaitRefilled(s) \/ Unlock(s) \/ (MovedNotify(s) /\ Continue(s))
      PROVE  /\ OnlyOwn(s) /\ SenderInv(s)'
             /\ \A t \in Senders : t # s => SameSender(t)
             /\ UNCHANGED <<writerVars, stopVars>>
  <2>1. \/ /\ pc[s] \in Holding /\ pc'[s] \in {"acquire", "write"} /\ UNCHANGED lock
           /\ pc'[s] = "write" => booked[p] # <<>>
        \/ lock' = Unlocked(s) /\ pc'[s] = "notify"
    BY <1>4 DEF AcquireBooked, WaitRefilled, Unlock, MovedNotify, Continue, Holding, SenderTypeOK
  <2>2. UNCHANGED <<booked, msg, writerVars, stopVars>> /\ \A t \in Senders : t # s => SameSender(t)
    BY <1>4 DEF AcquireBooked, WaitRefilled, Unlock, MovedNotify, Continue, SameSender, SenderTypeOK
  <2>3. OnlyOwn(s)
    <3>1. UNCHANGED <<lock, booked>> \/ (lock' = Unlocked(s) /\ UNCHANGED booked)
      BY <2>1, <2>2
    <3> QED
      BY <1>b, <3>1, UnlockedOwn DEF OnlyOwn
  <2>4. SenderInv(s)'
    BY <1>a, <2>1, <2>2 DEF SenderInv, Holding, LaneOf
  <2> QED
    BY <2>2, <2>3, <2>4
<1>5. ASSUME AcquireFresh(s) \/ (AcquireNone(s) /\ pc' = [pc EXCEPT ![s] = "wait"] /\ UNCHANGED lock)
      PROVE  /\ OnlyOwn(s) /\ SenderInv(s)'
             /\ \A t \in Senders : t # s => SameSender(t)
             /\ UNCHANGED <<writerVars, stopVars>>
  <2>1. /\ pc[s] = "acquire" /\ UNCHANGED <<lock, msg, writerVars, stopVars>>
        /\ \A t \in Senders : t # s => SameSender(t)
        /\ \/ pc'[s] = "wait" /\ booked[p] = <<>> /\ UNCHANGED booked
           \/ pc'[s] = "write" /\ booked' = [booked EXCEPT ![p] = <<FreshBatch(msg[s])>>]
    BY <1>5 DEF AcquireFresh, AcquireNone, Exhausted, SameSender, SenderTypeOK
  <2>2. p \in Lanes /\ lock[p] = s /\ (LaneOf(s))' = p
    BY <1>a, <2>1 DEF Holding, LaneOf
  <2>3. OnlyOwn(s)
    BY <2>1, <2>2 DEF OnlyOwn, LaneTypeOK
  <2>4. pc'[s] = "write" => booked'[p] # <<>>
    <3>1. booked' = [booked EXCEPT ![p] = <<FreshBatch(msg[s])>>] => booked'[p] # <<>>
      BY <2>2 DEF LaneTypeOK
    <3> QED
      BY <2>1, <3>1
  <2>5. SenderInv(s)'
    BY <2>1, <2>2, <2>4 DEF SenderInv, Holding
  <2> QED
    BY <2>1, <2>3, <2>5
<1>6. ASSUME WriteAppend(s) \/ WriteFull(s) \/ WriteFrame(s) \/ WriteFragment(s)
      PROVE  /\ OnlyOwn(s) /\ SenderInv(s)'
             /\ \A t \in Senders : t # s => SameSender(t)
             /\ UNCHANGED <<writerVars, stopVars>>
  <2>1. /\ pc[s] = "write" /\ UNCHANGED <<lock, msg, writerVars, stopVars>>
        /\ \E n \in {"moved", "unlock"} : pc' = [pc EXCEPT ![s] = n]
        /\ \E q : booked' = [booked EXCEPT ![p] = q]
    BY <1>6 DEF WriteAppend, WriteFull, WriteFrame, WriteFragment, KeepOrCommit, Commit
  <2>2. p \in Lanes /\ lock[p] = s /\ (LaneOf(s))' = p
    BY <1>a, <2>1 DEF Holding, LaneOf
  <2>3. OnlyOwn(s)
    BY <2>1, <2>2 DEF OnlyOwn, LaneTypeOK
  <2>4. SenderInv(s)' /\ \A t \in Senders : t # s => SameSender(t)
    BY <2>1, <2>2 DEF SenderInv, Holding, SameSender, SenderTypeOK
  <2> QED
    BY <2>1, <2>3, <2>4
<1>7. CASE LockTimeout(s) \/ WaitFails(s) \/ SetCongested(s) \/ Cancel(s) \/ LateNotify(s)
  <2>1. \E r : \/ Return(s, r) /\ UNCHANGED <<booked, writerVars, stopVars>>
               \/ Fail(s, r) /\ UNCHANGED <<booked, msg, writerVars, stopVars>>
    BY <1>7 DEF LockTimeout, WaitFails, SetCongested, Cancel, LateNotify
  <2> QED
    BY <1>3, <2>1
<1>8. CASE MovedNotify(s)
  <2>1. \/ Continue(s)
        \/ \E r : Return(s, r) /\ UNCHANGED <<booked, writerVars, stopVars>>
    BY <1>8 DEF MovedNotify
  <2> QED
    BY <1>3, <1>4, <1>8, <2>1
<1>9. CASE AcquireNone(s)
  <2>1. \/ pc' = [pc EXCEPT ![s] = "wait"] /\ UNCHANGED lock
        \/ Fail(s, "timeout") /\ UNCHANGED <<booked, msg, writerVars, stopVars>>
    BY <1>9 DEF AcquireNone
  <2> QED
    BY <1>3, <1>5, <1>9, <2>1
<1> QED
  BY <1>1, <1>2, <1>4, <1>5, <1>6, <1>7, <1>8, <1>9 DEF SenderStep

\* So do the steps of the writer task.
LEMMA WriterLocks ==
    ASSUME TypeOK, LockInv, WriterStep \/ KeepAlive \/ KeepAliveWritten \/ SeeToken
    PROVE  LockInv'
<1> USE DEF TypeOK, laneVars, statusVars, senderVars, writerVars, stopVars
<1>a. UNCHANGED <<senderVars, stopVars>>
  BY DEF WriterStep, PullStep, WriteStep, DrainStep, FireRefill, PullCheck, PullSome,
         PullBooked, SetBackoff, PullNone, Yield, SetFlush, TryFlush, ResetBackoff, Unpark, TryPullCheck,
         TryPullSome, TryPullNone, TakeHead, Write, WriteFails, RefillHand, RefillDone,
         DrainLock, DrainFlush, DrainPull, DrainUnlock, DrainWrite, DrainWriteFails,
         DrainDone, Close, CloseLane, KeepAlive, KeepAliveWritten, SeeToken
<1>b. SUFFICES OnlyOwn("writer") /\ WriterInv'
  <2> SUFFICES ASSUME OnlyOwn("writer"), WriterInv' PROVE LockInv'
    OBVIOUS
  <2>1. "writer" \in Senders \cup {"writer", "stop"}
        /\ \A s \in Senders : s # "writer" /\ SameSender(s)
    BY <1>a, ActorAssumption DEF SameSender
  <2>2. StopInv' /\ \A s \in Senders : SenderInv(s)'
    BY <1>a, <2>1, OthersKeep
  <2> QED
    BY <2>2 DEF LockInv
<1>1. ASSUME UNCHANGED <<booked, lock>> PROVE OnlyOwn("writer")
  BY <1>1 DEF OnlyOwn
<1>2. CASE (PullStep /\ ~TryFlush) \/ WriteStep \/ KeepAlive \/ KeepAliveWritten \/ SeeToken
  <2>1. UNCHANGED <<booked, lock>>
    BY <1>2 DEF PullStep, WriteStep, PullCheck, PullSome, PullBooked, SetBackoff, PullNone,
                Yield, SetFlush, ResetBackoff, Unpark, TryPullCheck, TryPullSome, TryPullNone,
                TakeHead, Write, WriteFails, RefillHand, RefillDone, KeepAlive,
                KeepAliveWritten, SeeToken
  <2>2. \/ wpc' \notin {"drain", "drainflush", "drainpull", "setbackoff", "yield",
                         "setflush", "tryflush"}
        \/ wpc' = "drain" /\ lane' = 1
        \/ wpc' \in {"setbackoff", "yield", "setflush", "tryflush"} /\ lane' \in Lanes
    BY <1>2 DEF LockInv, WriterInv, PullStep, WriteStep, PullCheck, PullSome, PullBooked,
                SetBackoff, PullNone, Yield, SetFlush, ResetBackoff, Unpark, TryPullCheck, TryPullSome,
                TryPullNone, TakeHead, Write, WriteFails, RefillHand, RefillDone, KeepAlive,
                KeepAliveWritten, SeeToken
  <2>3. WriterInv'
    BY <2>2 DEF WriterInv, Lanes
  <2> QED
    BY <1>1, <2>1, <2>3
<1>3. CASE TryFlush
  <2>1. wpc' = "check" /\ UNCHANGED lock
        /\ \A p \in Lanes : booked'[p] = booked[p] \/ lock[p] = "none"
    BY <1>3 DEF TryFlush, FlushLanes
  <2> QED
    BY <2>1 DEF WriterInv, OnlyOwn
<1>4. CASE DrainLock
  <2>1. /\ wpc = "drain" /\ lane \in Lanes /\ lock[lane] = "none" /\ UNCHANGED booked
        /\ lock' = [lock EXCEPT ![lane] = "writer"] /\ lane' = lane + 1
        /\ wpc' = IF lane = NPrio THEN "drainflush" ELSE "drain"
    BY <1>4 DEF DrainLock
  <2>2. \A p \in Lanes : p <= lane => lock'[p] = "writer"
    BY <2>1 DEF LockInv, WriterInv, LaneTypeOK, Lanes
  <2>3. WriterInv'
    BY <2>1, <2>2 DEF WriterInv, Lanes
  <2>4. OnlyOwn("writer")
    BY <2>1 DEF OnlyOwn, LaneTypeOK
  <2> QED
    BY <2>3, <2>4
<1>5. CASE DrainFlush
  <2>1. wpc = "drainflush" /\ wpc' = "drainpull" /\ UNCHANGED lock
    BY <1>5 DEF DrainFlush
  <2> QED
    BY <2>1 DEF LockInv, WriterInv, OnlyOwn
<1>6. CASE DrainPull
  <2>1. UNCHANGED <<booked, lock, wpc, lane>>
    BY <1>6 DEF DrainPull
  <2> QED
    BY <1>1, <2>1 DEF LockInv, WriterInv
<1>7. CASE DrainUnlock
  <2>1. lock' = Unlocked("writer") /\ wpc' = "drainwrite" /\ UNCHANGED booked
    BY <1>7 DEF DrainUnlock
  <2>2. OnlyOwn("writer")
    BY <2>1, UnlockedOwn
  <2> QED
    BY <2>1, <2>2 DEF WriterInv
<1>8. CASE DrainWrite \/ DrainWriteFails \/ DrainDone
  <2>1. wpc' \in {"drainwrite", "closed"} /\ UNCHANGED <<booked, lock>>
    BY <1>8 DEF DrainWrite, DrainWriteFails, DrainDone, Close
  <2> QED
    BY <1>1, <2>1 DEF WriterInv
<1>9. CASE FireRefill \/ CloseLane
  <2>1. UNCHANGED <<booked, lock, wpc, lane>>
    BY <1>9 DEF FireRefill, CloseLane
  <2> QED
    BY <1>1, <2>1 DEF LockInv, WriterInv
<1> QED
  BY <1>2, <1>3, <1>4, <1>5, <1>6, <1>7, <1>8, <1>9 DEF WriterStep, DrainStep

\* And the steps of a stop.
LEMMA StopLocks ==
    ASSUME TypeOK, LockInv, StopDisable \/ StopStep \/ TaskStop
    PROVE  LockInv'
<1> USE DEF TypeOK, laneVars, statusVars, senderVars, writerVars, stopVars
<1>a. UNCHANGED <<senderVars, writerVars>>
  BY DEF StopDisable, StopStep, TaskStop, StopLock, StopFlush, StopCancel
<1>b. SUFFICES OnlyOwn("stop") /\ StopInv'
  <2> SUFFICES ASSUME OnlyOwn("stop"), StopInv' PROVE LockInv'
    OBVIOUS
  <2>1. "stop" \in Senders \cup {"writer", "stop"}
        /\ \A s \in Senders : s # "stop" /\ SameSender(s)
    BY <1>a, ActorAssumption DEF SameSender
  <2>2. WriterInv' /\ \A s \in Senders : SenderInv(s)'
    BY <1>a, <2>1, OthersKeep
  <2> QED
    BY <2>2 DEF LockInv
<1>1. CASE StopDisable \/ StopCancel \/ TaskStop
  <2>1. UNCHANGED <<booked, lock, slane>>
        /\ (UNCHANGED spc \/ (spc = "no" /\ spc' = "lock") \/ spc' = "done")
    BY <1>1 DEF StopDisable, StopCancel, TaskStop
  <2> QED
    BY <2>1 DEF LockInv, StopInv, OnlyOwn, Lanes
<1>2. CASE StopLock
  <2>1. /\ spc = "lock" /\ slane \in Lanes /\ lock[slane] = "none" /\ UNCHANGED booked
        /\ lock' = [lock EXCEPT ![slane] = "stop"] /\ slane' = slane + 1
        /\ spc' = IF slane = NPrio THEN "flush" ELSE "lock"
    BY <1>2 DEF StopLock
  <2>2. \A p \in Lanes : p <= slane => lock'[p] = "stop"
    BY <2>1 DEF LockInv, StopInv, LaneTypeOK, Lanes
  <2>3. StopInv'
    BY <2>1, <2>2 DEF StopInv, Lanes
  <2>4. OnlyOwn("stop")
    BY <2>1 DEF OnlyOwn, LaneTypeOK
  <2> QED
    BY <2>3, <2>4
<1>3. CASE StopFlush
  <2>1. lock' = Unlocked("stop") /\ spc' = "cancel"
        /\ \A p \in Lanes : booked'[p] = booked[p] \/ lock[p] = "stop"
    BY <1>3 DEF StopFlush, LockInv, StopInv
  <2>2. OnlyOwn("stop")
    BY <2>1, UnlockedOwn
  <2> QED
    BY <2>1, <2>2 DEF StopInv
<1> QED
  BY <1>1, <1>2, <1>3 DEF StopStep

----------------------------------------------------------------------------
(* The first theorems *)

LEMMA InitLocks == Init => LockInv
BY DEF Init, LockInv, SenderInv, WriterInv, StopInv, Holding

LEMMA TypeLockStep == TypeOK /\ LockInv /\ [Next]_vars => (TypeOK /\ LockInv)'
<1> SUFFICES ASSUME TypeOK, LockInv, [Next]_vars PROVE (TypeOK /\ LockInv)'
  OBVIOUS
<1>1. CASE \E s \in Senders : SenderStep(s) \/ Cancel(s) \/ \E m \in Msgs : Send(s, m)
  BY <1>1, SenderTypes, SenderLocks
<1>2. CASE WriterStep \/ KeepAlive \/ KeepAliveWritten \/ SeeToken
  BY <1>2, WriterTypes, WriterLocks
<1>3. CASE StopDisable \/ StopStep \/ TaskStop
  BY <1>3, StopTypes, StopLocks
<1>4. CASE UNCHANGED vars
  <2>1. TypeOK'
    BY <1>4, UnchangedTypes DEF vars, statusVars, TypeOK
  <2>2. LockInv'
    BY <1>4 DEF vars, laneVars, senderVars, writerVars, stopVars, LockInv, SenderInv,
                WriterInv, StopInv, LaneOf
  <2> QED
    BY <2>1, <2>2
<1> QED
  BY <1>1, <1>2, <1>3, <1>4 DEF Next

\* The variables of senders, writer task and stop keep their types, whatever the
\* number of senders, lanes, buffers and messages (tx.rs, write_task).
THEOREM TypesAreKept == Safety => []TypeOK
<1>1. Init => TypeOK /\ LockInv
  BY InitType, InitLocks
<1> QED
  BY <1>1, TypeLockStep, PTL DEF Safety

\* A sender that waits for a buffer holds its lane and has left no unfinished
\* batch in it, so that it never waits for itself (StageInPrio::push).
THEOREM NoWaitForOneself == Safety => []WaiterLeavesNoBatch
<1>1. Init => TypeOK /\ LockInv
  BY InitType, InitLocks
<1>2. LockInv => WaiterLeavesNoBatch
  BY DEF LockInv, SenderInv, Holding, WaiterLeavesNoBatch
<1> QED
  BY <1>1, <1>2, TypeLockStep, PTL DEF Safety

----------------------------------------------------------------------------
(* Refills *)

\* The only step after which a sender waits is the one that finds no buffer.
LEMMA WaitBegins ==
    ASSUME TypeOK, NEW s \in Senders, pc'[s] = "wait",
           SenderStep(s) \/ Cancel(s) \/ \E m \in Msgs : Send(s, m)
    PROVE  AcquireNone(s)
<1> USE DEF TypeOK, SenderTypeOK, laneVars, senderVars
<1>1. \A n \in SPc : pc' = [pc EXCEPT ![s] = n] => n = "wait"
  OBVIOUS
<1>2. \A m \in Msgs : ~Send(s, m)
  BY <1>1 DEF Send, SPc
<1>3. \A r : ~Return(s, r) /\ ~Fail(s, r)
  BY <1>1 DEF Return, Fail, SPc
<1>4. ~Cancel(s) /\ ~SetCongested(s) /\ ~LateNotify(s) /\ ~LockTimeout(s) /\ ~WaitFails(s)
  BY <1>3 DEF Cancel, SetCongested, LateNotify, LockTimeout, WaitFails
<1>5. ~Lock(s) /\ ~AcquireBooked(s) /\ ~AcquireFresh(s) /\ ~WaitRefilled(s) /\ ~Unlock(s)
  BY <1>1 DEF Lock, AcquireBooked, AcquireFresh, WaitRefilled, Unlock, SPc
<1>6. ~MovedNotify(s)
  BY <1>1, <1>3 DEF MovedNotify, Continue, SPc
<1>7. ~WriteAppend(s) /\ ~WriteFull(s) /\ ~WriteFrame(s) /\ ~WriteFragment(s)
  BY <1>1 DEF WriteAppend, WriteFull, WriteFrame, WriteFragment, KeepOrCommit, SPc
<1> QED
  BY <1>2, <1>4, <1>5, <1>6, <1>7 DEF SenderStep

\* What a step of a sender does to the events and to the recycled buffers: it
\* takes from its own lane, which it has locked.
LEMMA SenderRefills ==
    ASSUME TypeOK, LockInv, NEW s \in Senders,
           SenderStep(s) \/ Cancel(s) \/ \E m \in Msgs : Send(s, m)
    PROVE  /\ \A t \in Senders : t # s => SameSender(t)
           /\ \A p \in Lanes : lock[p] # s => free'[p] = free[p] /\ canRefill'[p] = canRefill[p]
           /\ UNCHANGED owed
<1> USE DEF TypeOK, SenderTypeOK, LaneTypeOK, laneVars, senderVars
<1>1. pc[s] \in Holding => LaneOf(s) \in Lanes /\ lock[LaneOf(s)] = s
  BY LaneOfType DEF LockInv, SenderInv, Holding
<1>2. CASE AcquireFresh(s) \/ WaitRefilled(s)
  <2>1. pc[s] \in Holding
    BY <1>2 DEF AcquireFresh, WaitRefilled, Holding
  <2> QED
    BY <1>1, <1>2, <2>1 DEF AcquireFresh, WaitRefilled, SameSender, writerVars
<1>3. CASE \/ Lock(s) \/ LockTimeout(s) \/ AcquireBooked(s) \/ AcquireNone(s)
           \/ WaitFails(s) \/ SetCongested(s) \/ MovedNotify(s) \/ Unlock(s)
           \/ LateNotify(s) \/ Cancel(s) \/ \E m \in Msgs : Send(s, m)
  <2>1. UNCHANGED <<free, canRefill, owed>>
    BY <1>3 DEF Lock, LockTimeout, AcquireBooked, AcquireNone, WaitFails, SetCongested,
                MovedNotify, Unlock, LateNotify, Cancel, Send, writerVars
  <2>2. \A t \in Senders : t # s => SameSender(t)
    BY <1>3 DEF Lock, LockTimeout, AcquireBooked, AcquireNone, WaitFails, SetCongested,
                MovedNotify, Continue, Unlock, LateNotify, Cancel, Send, Return, Fail,
                SameSender
  <2> QED
    BY <2>1, <2>2
<1>4. CASE WriteAppend(s) \/ WriteFull(s) \/ WriteFrame(s) \/ WriteFragment(s)
  BY <1>4 DEF WriteAppend, WriteFull, WriteFrame, WriteFragment, KeepOrCommit, SameSender,
              writerVars
<1> QED
  BY <1>2, <1>3, <1>4 DEF SenderStep

\* The writer task recycles a buffer when it owes no event, fires the event it
\* owes, closes the event of a lane, or leaves buffers and events alone.
LEMMA WriterRefills ==
    ASSUME TypeOK, WriterStep \/ KeepAlive \/ KeepAliveWritten \/ SeeToken
    PROVE  /\ UNCHANGED <<pc, msg>>
           /\ \/ UNCHANGED <<free, canRefill, owed>>
              \/ owed = 0 /\ (\E q \in Lanes : Refill(q)) /\ UNCHANGED canRefill
              \/ FireRefill
              \/ /\ \E q \in Lanes : canRefill' = [canRefill EXCEPT ![q] = "err"]
                 /\ UNCHANGED <<free, owed>>
<1> USE DEF laneVars, senderVars, writerVars
<1>1. CASE owed = 0 /\ (PullSome \/ TryPullSome)
  <2>1. /\ UNCHANGED <<pc, msg, canRefill>> /\ lane \in Lanes /\ ring[lane] # <<>>
        /\ Refill(Head(ring[lane]).prio) \/ UNCHANGED <<free, owed>>
    BY <1>1 DEF PullSome, TryPullSome, TakeHead
  <2>2. Head(ring[lane]).prio \in Lanes
    <3>1. Head(ring[lane]) \in Batch
      BY <2>1, BatchSeqs DEF TypeOK, LaneTypeOK
    <3> QED
      BY <3>1 DEF Batch
  <2> QED
    BY <1>1, <2>1, <2>2
<1>2. CASE owed = 0 /\ (RefillHand \/ DrainWrite)
  <2>1. /\ UNCHANGED <<pc, msg, canRefill>> /\ nref < Len(hand)
        /\ Refill(hand[nref + 1].prio)
    BY <1>2 DEF RefillHand, DrainWrite
  <2>2. hand[nref + 1].prio \in Lanes
    <3>1. hand \in Seq(Batch) /\ nref + 1 \in 1..Len(hand)
      BY <2>1, LenProperties DEF TypeOK, WriterTypeOK
    <3>2. hand[nref + 1] \in Batch
      BY <3>1, ElementOfSeq
    <3> QED
      BY <3>2 DEF Batch
  <2> QED
    BY <1>2, <2>1, <2>2
<1>3. CASE DrainWriteFails \/ DrainDone
  BY <1>3 DEF DrainWriteFails, DrainDone, Close
<1>4. CASE \/ PullCheck \/ PullBooked \/ SetBackoff \/ PullNone
           \/ Yield \/ SetFlush \/ TryFlush
           \/ ResetBackoff \/ Unpark \/ TryPullCheck \/ TryPullNone \/ Write \/ WriteFails
           \/ RefillDone \/ DrainLock \/ DrainFlush \/ DrainPull \/ DrainUnlock
           \/ KeepAlive \/ KeepAliveWritten \/ SeeToken
  BY <1>4 DEF PullCheck, PullBooked, SetBackoff, PullNone, Yield, SetFlush, TryFlush,
              ResetBackoff, Unpark, TryPullCheck, TryPullNone, Write, WriteFails, RefillDone, DrainLock,
              DrainFlush, DrainPull, DrainUnlock, KeepAlive, KeepAliveWritten, SeeToken
<1>5. CASE FireRefill \/ CloseLane
  BY <1>5 DEF FireRefill, CloseLane
<1> QED
  BY <1>1, <1>2, <1>3, <1>4, <1>5 DEF WriterStep, PullStep, WriteStep, DrainStep

LEMMA RefillStep ==
    TypeOK /\ LockInv /\ RefillNotMissed /\ [Next]_vars => RefillNotMissed'
<1> SUFFICES ASSUME TypeOK, LockInv, RefillNotMissed, [Next]_vars, NEW s \in Senders,
                    pc'[s] = "wait", canRefill'[(LaneOf(s))'] = "unset"
             PROVE  free'[(LaneOf(s))'] = 0 \/ owed' = (LaneOf(s))'
  BY DEF RefillNotMissed
<1> DEFINE p == LaneOf(s)
<1>a. SameSender(s) => /\ (LaneOf(s))' = p /\ pc[s] = "wait" /\ p \in Lanes /\ lock[p] = s
                       /\ canRefill[p] = "unset" => free[p] = 0 \/ owed = p
  BY LaneOfType DEF SameSender, LaneOf, LockInv, SenderInv, Holding, RefillNotMissed
<1>1. ASSUME NEW t \in Senders, SenderStep(t) \/ Cancel(t) \/ \E m \in Msgs : Send(t, m)
      PROVE  free'[(LaneOf(s))'] = 0 \/ owed' = (LaneOf(s))'
  <2>1. CASE t = s
    <3>1. AcquireNone(s)
      BY <1>1, <2>1, WaitBegins
    <3> QED
      BY <3>1 DEF AcquireNone, Exhausted, LaneOf
  <2>2. CASE t # s
    <3>1. SameSender(s) /\ lock[p] # t
      BY <1>1, <1>a, <2>2, SenderRefills
    <3>2. free'[p] = free[p] /\ canRefill'[p] = canRefill[p]
      BY <1>1, <1>a, <3>1, SenderRefills
    <3>3. UNCHANGED owed
      BY <1>1, SenderRefills
    <3> QED
      BY <1>a, <3>1, <3>2, <3>3
  <2> QED
    BY <2>1, <2>2
<1>2. CASE WriterStep \/ KeepAlive \/ KeepAliveWritten \/ SeeToken
  <2>1. SameSender(s)
    BY <1>2, WriterRefills DEF SameSender
  <2>2. CASE \/ UNCHANGED <<free, canRefill, owed>>
             \/ /\ \E q \in Lanes : canRefill' = [canRefill EXCEPT ![q] = "err"]
                /\ UNCHANGED <<free, owed>>
    BY <1>a, <2>1, <2>2 DEF TypeOK, LaneTypeOK
  <2>3. ASSUME owed = 0, NEW q \in Lanes, Refill(q), UNCHANGED canRefill
        PROVE  free'[p] = 0 \/ owed' = p
    <3>1. free[p] = 0
      BY <1>a, <2>1, <2>3, CapacityAssumption DEF Lanes
    <3> QED
      BY <1>a, <2>1, <2>3, <3>1 DEF Refill, TypeOK, LaneTypeOK
  <2>4. CASE FireRefill
    <3>1. canRefill[p] = "unset" /\ owed # p /\ free' = free
      BY <1>a, <2>1, <2>4 DEF FireRefill, TypeOK, LaneTypeOK
    <3> QED
      BY <1>a, <2>1, <3>1
  <2> QED
    BY <1>2, <1>a, <2>1, <2>2, <2>3, <2>4, WriterRefills
<1>3. CASE StopDisable \/ StopStep \/ TaskStop \/ UNCHANGED vars
  <2>1. UNCHANGED <<pc, msg, free, canRefill, owed>>
    BY <1>3 DEF StopDisable, StopStep, TaskStop, StopLock, StopFlush, StopCancel, vars,
                laneVars, senderVars, writerVars
  <2> QED
    BY <1>a, <2>1 DEF SameSender
<1> QED
  BY <1>1, <1>2, <1>3 DEF Next

\* While a sender waits and its event is not set, no recycled buffer is
\* available or the event is about to fire: between StageRefill::pull and can_refill.wait() no refill by the
\* writer task goes unnoticed, whatever the other senders of the lane do.
THEOREM NoRefillIsMissed == Safety => []RefillNotMissed
<1>1. Init => TypeOK /\ LockInv /\ RefillNotMissed
  <2>1. Init => RefillNotMissed
    BY DEF Init, RefillNotMissed
  <2> QED
    BY <2>1, InitType, InitLocks
<1> QED
  BY <1>1, TypeLockStep, RefillStep, PTL DEF Safety

----------------------------------------------------------------------------
(* Conservation of buffers *)

\* The batches of a lane carry its priority, by which refill recycles them.
AllPrio(q, p) == \A i \in 1..Len(q) : q[i].prio = p
PrioInv == \A p \in Lanes : AllPrio(ring[p], p) /\ AllPrio(booked[p], p)

IInv == TypeOK /\ LockInv /\ PrioInv /\ BufferConservation

\* Buffers of lane p in h from index n + 1 on; Held(p) is HeldIn(hand, nref, p).
HeldIn(h, n, p) == Cardinality({i \in (n + 1)..Len(h) : h[i].prio = p})

LEMMA HeldCounts ==
    ASSUME NEW h \in Seq(Batch), NEW n \in 0..Len(h), NEW p \in Lanes
    PROVE  /\ HeldIn(h, n, p) \in Nat
           /\ n = Len(h) => HeldIn(h, n, p) = 0
           /\ n < Len(h) => HeldIn(h, n, p) =
                HeldIn(h, n + 1, p) + (IF h[n + 1].prio = p THEN 1 ELSE 0)
           /\ \A b \in Batch : HeldIn(Append(h, b), n, p) =
                HeldIn(h, n, p) + (IF b.prio = p THEN 1 ELSE 0)
<1> DEFINE Idx(g, k) == {i \in (k + 1)..Len(g) : g[i].prio = p}
<1>a. Len(h) \in Nat /\ n \in Nat
  BY LenProperties
<1>b. ASSUME NEW g \in Seq(Batch), NEW k \in Nat
      PROVE  IsFiniteSet(Idx(g, k)) /\ Cardinality(Idx(g, k)) \in Nat
  <2>1. Len(g) \in Nat /\ IsFiniteSet((k + 1)..Len(g))
    BY LenProperties, FS_Interval
  <2>2. Idx(g, k) \subseteq (k + 1)..Len(g)
    OBVIOUS
  <2>3. IsFiniteSet(Idx(g, k))
    BY <2>1, <2>2, FS_Subset
  <2> QED
    BY <2>3, FS_CardinalityType
<1>1. HeldIn(h, n, p) \in Nat
  BY <1>a, <1>b DEF HeldIn
<1>2. n = Len(h) => HeldIn(h, n, p) = 0
  <2>1. n = Len(h) => Idx(h, n) = {}
    BY <1>a
  <2> QED
    BY <2>1, FS_EmptySet DEF HeldIn
<1>3. n < Len(h) => HeldIn(h, n, p) =
        HeldIn(h, n + 1, p) + (IF h[n + 1].prio = p THEN 1 ELSE 0)
  <2> SUFFICES ASSUME n < Len(h)
               PROVE  Cardinality(Idx(h, n)) =
                        Cardinality(Idx(h, n + 1)) + (IF h[n + 1].prio = p THEN 1 ELSE 0)
    BY DEF HeldIn
  <2>1. n + 1 \notin Idx(h, n + 1) /\ IsFiniteSet(Idx(h, n + 1))
        /\ Cardinality(Idx(h, n + 1)) \in Nat
    <3>1. n + 1 \notin Idx(h, n + 1) /\ n + 1 \in Nat
      BY <1>a
    <3> HIDE DEF Idx
    <3> QED
      BY <3>1, <1>b
  <2>2. CASE h[n + 1].prio = p
    <3>1. Idx(h, n) = Idx(h, n + 1) \cup {n + 1}
      BY <1>a, <2>2
    <3>2. Cardinality(Idx(h, n + 1) \cup {n + 1}) = Cardinality(Idx(h, n + 1)) + 1
      BY <2>1, FS_AddElement
    <3> HIDE DEF Idx
    <3> QED
      BY <2>2, <3>1, <3>2
  <2>3. CASE h[n + 1].prio # p
    <3>1. Idx(h, n) = Idx(h, n + 1)
      BY <1>a, <2>3
    <3> HIDE DEF Idx
    <3> QED
      BY <2>1, <2>3, <3>1
  <2> QED
    BY <2>2, <2>3
<1>4. ASSUME NEW b \in Batch
      PROVE  HeldIn(Append(h, b), n, p) = HeldIn(h, n, p) + (IF b.prio = p THEN 1 ELSE 0)
  <2> DEFINE g == Append(h, b)
             l == Len(h) + 1
  <2>1. g \in Seq(Batch) /\ Len(g) = l /\ g[l] = b /\ \A i \in 1..Len(h) : g[i] = h[i]
    BY AppendProperties
  <2>2. l \notin Idx(h, n) /\ IsFiniteSet(Idx(h, n)) /\ Cardinality(Idx(h, n)) \in Nat
    <3>1. l \notin Idx(h, n)
      BY <1>a
    <3> HIDE DEF Idx
    <3> QED
      BY <3>1, <1>a, <1>b
  <2>3. CASE b.prio = p
    <3>1. Idx(g, n) = Idx(h, n) \cup {l}
      <4> HIDE DEF g
      <4> QED
        BY <1>a, <2>1, <2>3
    <3>2. Cardinality(Idx(h, n) \cup {l}) = Cardinality(Idx(h, n)) + 1
      BY <2>2, FS_AddElement
    <3>3. HeldIn(g, n, p) = Cardinality(Idx(g, n)) /\ HeldIn(h, n, p) = Cardinality(Idx(h, n))
      BY DEF HeldIn
    <3> HIDE DEF Idx, g
    <3>4. HeldIn(g, n, p) = HeldIn(h, n, p) + (IF b.prio = p THEN 1 ELSE 0)
      BY <2>3, <3>1, <3>2, <3>3
    <3> QED
      BY <3>4 DEF g
  <2>4. CASE b.prio # p
    <3>1. Idx(g, n) = Idx(h, n)
      <4> HIDE DEF g
      <4> QED
        BY <1>a, <2>1, <2>4
    <3>2. HeldIn(g, n, p) = Cardinality(Idx(g, n)) /\ HeldIn(h, n, p) = Cardinality(Idx(h, n))
      BY DEF HeldIn
    <3> HIDE DEF Idx, g
    <3>3. HeldIn(g, n, p) = HeldIn(h, n, p) + (IF b.prio = p THEN 1 ELSE 0)
      BY <2>2, <2>4, <3>1, <3>2
    <3> QED
      BY <3>3 DEF g
  <2> QED
    BY <2>3, <2>4
<1> QED
  BY <1>1, <1>2, <1>3, <1>4

LEMMA NoneHeld == \A p \in Lanes : HeldIn(<<>>, 0, p) = 0
<1>1. <<>> \in Seq(Batch) /\ Len(<<>>) = 0
  BY EmptySeq
<1>2. 0 \in 0..Len(<<>>)
  BY <1>1
<1> QED
  BY <1>1, <1>2, HeldCounts

LEMMA PrioSeqs ==
    ASSUME NEW q \in Seq(Batch), NEW r \in Seq(Batch), NEW p \in Lanes,
           AllPrio(q, p), AllPrio(r, p)
    PROVE  /\ AllPrio(<<>>, p) /\ AllPrio(q \o r, p)
           /\ \A b \in Batch : b.prio = p => AllPrio(Append(q, b), p) /\ AllPrio(<<b>>, p)
           /\ q # <<>> => Head(q).prio = p /\ AllPrio(Tail(q), p)
<1>1. AllPrio(<<>>, p)
  BY EmptySeq DEF AllPrio
<1>2. AllPrio(q \o r, p)
  <2>1. Len(q) \in Nat /\ Len(r) \in Nat /\ Len(q \o r) = Len(q) + Len(r)
    BY LenProperties, ConcatProperties
  <2>2. \A i \in 1..Len(q \o r) :
            (q \o r)[i] = IF i <= Len(q) THEN q[i] ELSE r[i - Len(q)]
    BY ConcatProperties
  <2> QED
    BY <2>1, <2>2 DEF AllPrio
<1>3. ASSUME NEW b \in Batch, b.prio = p
      PROVE  AllPrio(Append(q, b), p) /\ AllPrio(<<b>>, p)
  <2>1. Len(q) \in Nat
    BY LenProperties
  <2>2. /\ Len(Append(q, b)) = Len(q) + 1 /\ Append(q, b)[Len(q) + 1] = b
        /\ \A i \in 1..Len(q) : Append(q, b)[i] = q[i]
    BY AppendProperties
  <2>3. AllPrio(Append(q, b), p)
    BY <1>3, <2>1, <2>2 DEF AllPrio
  <2> QED
    BY <1>3, <2>3 DEF AllPrio
<1>4. ASSUME q # <<>> PROVE Head(q).prio = p /\ AllPrio(Tail(q), p)
  <2>1. /\ Len(q) \in Nat \ {0} /\ Head(q) = q[1] /\ Len(Tail(q)) = Len(q) - 1
        /\ \A i \in 1..Len(Tail(q)) : Tail(q)[i] = q[i + 1]
    BY <1>4, EmptySeq, LenProperties, HeadTailProperties
  <2> QED
    BY <2>1 DEF AllPrio
<1> QED
  BY <1>1, <1>2, <1>3, <1>4

\* The ways in which a buffer changes place.
Stays == UNCHANGED <<ring, booked, free, hand, nref>>
Booked(p, c) ==
    /\ booked[p] = <<>> /\ booked' = [booked EXCEPT ![p] = <<c>>]
    /\ \/ free[p] > 0 /\ free' = [free EXCEPT ![p] = @ - 1] /\ UNCHANGED allocated
       \/ allocated[p] < Capacity /\ CountAllocation(p) /\ UNCHANGED free
    /\ UNCHANGED <<ring, hand, nref>>
Filled(p, c) ==
    /\ booked[p] # <<>>
    /\ \/ Commit(p, c)
       \/ booked' = [booked EXCEPT ![p] = <<c>>] /\ UNCHANGED ring
    /\ UNCHANGED <<free, hand, nref>>
Flushed == (\E ps \in SUBSET Lanes : FlushLanes(ps)) /\ UNCHANGED <<free, hand, nref>>
Taken(p) ==
    /\ ring[p] # <<>> /\ ring' = [ring EXCEPT ![p] = Tail(@)]
    /\ \/ hand' = Append(hand, Head(ring[p])) /\ UNCHANGED free
       \/ Refill(Head(ring[p]).prio) /\ UNCHANGED hand
    /\ UNCHANGED <<booked, nref>>
GivenBack ==
    /\ nref < Len(hand) /\ nref' = nref + 1 /\ Refill(hand[nref + 1].prio)
    /\ UNCHANGED <<ring, booked, hand>>
LetGo ==
    /\ hand' = <<>> /\ nref' = 0
    /\ nref = Len(hand) \/ linkUp' = FALSE
    /\ UNCHANGED <<ring, booked, free>>

\* The allocation counter moves with a new buffer, or when it says that there
\* is none left.
NoAllocation ==
    \/ UNCHANGED allocated
    \/ \E p \in Lanes : allocated[p] >= Capacity /\ CountAllocation(p)

LEMMA SenderMoves ==
    ASSUME TypeOK, LockInv, PrioInv, NEW s \in Senders,
           SenderStep(s) \/ Cancel(s) \/ \E m \in Msgs : Send(s, m)
    PROVE  /\ UNCHANGED linkUp
           /\ \/ Stays /\ NoAllocation
              \/ \E p \in Lanes : \E c \in Batch :
                    c.prio = p /\ (Booked(p, c) \/ (Filled(p, c) /\ UNCHANGED allocated))
<1> USE DEF laneVars, writerVars
<1> DEFINE p == LaneOf(s)
<1>a. pc[s] # "idle" => p \in Lanes /\ msg[s] \in Msgs /\ CcOf[msg[s]] \in Ccs
  BY LaneOfType
<1>1. CASE AcquireNone(s)
  BY <1>1, <1>a DEF AcquireNone, Exhausted, Stays, NoAllocation
<1>2. CASE AcquireFresh(s)
  <2>1. FreshBatch(msg[s]) \in Batch /\ FreshBatch(msg[s]).prio = p /\ p \in Lanes
    BY <1>2, <1>a, FreshBatchType DEF AcquireFresh, FreshBatch, LaneOf
  <2>2. UNCHANGED linkUp /\ Booked(p, FreshBatch(msg[s]))
    BY <1>2 DEF AcquireFresh, Booked
  <2> QED
    BY <2>1, <2>2
<1>3. CASE WriteAppend(s) \/ WriteFull(s) \/ WriteFrame(s) \/ WriteFragment(s)
  <2> DEFINE b == Head(booked[p])
  <2>1. pc[s] = "write" /\ UNCHANGED <<linkUp, allocated, free, hand, nref>>
    BY <1>3 DEF WriteAppend, WriteFull, WriteFrame, WriteFragment
  <2>2. p \in Lanes /\ msg[s] \in Msgs /\ booked[p] # <<>> /\ CcOf[msg[s]] \in Ccs
    BY <1>a, <2>1 DEF LockInv, SenderInv
  <2>3. b \in Batch /\ b.prio = p
    BY <2>2, BatchSeqs, PrioSeqs DEF PrioInv, TypeOK, LaneTypeOK
  <2>4. NextSn(s) \in Nat /\ FragKind(s) \in Kinds
    BY <2>2 DEF NextSn, FragKind, Kinds, TypeOK, LaneTypeOK
  <2>5. \E c \in Batch : c.prio = p /\ (KeepOrCommit(s, c) \/ Commit(p, c))
    <3>1. CASE WriteAppend(s)
      <4> DEFINE c == [b EXCEPT !.msgs = Append(@, msg[s])]
      <4>1. c \in Batch /\ c.prio = p
        BY <2>2, <2>3, <2>4, WrittenBatchType
      <4>2. KeepOrCommit(s, c)
        BY <3>1 DEF WriteAppend
      <4> QED
        BY <4>1, <4>2
    <3>2. CASE WriteFull(s)
      BY <2>3, <3>2 DEF WriteFull
    <3>3. CASE WriteFrame(s)
      <4> DEFINE c == [b EXCEPT !.sn = NextSn(s), !.msgs = <<msg[s]>>]
      <4>1. c \in Batch /\ c.prio = p
        BY <2>2, <2>3, <2>4, WrittenBatchType
      <4>2. KeepOrCommit(s, c)
        BY <3>3 DEF WriteFrame
      <4> QED
        BY <4>1, <4>2
    <3>4. CASE WriteFragment(s)
      <4> DEFINE c == [b EXCEPT !.sn = NextSn(s), !.kind = FragKind(s), !.msgs = <<msg[s]>>]
      <4>1. Commit(p, c)
        BY <3>4 DEF WriteFragment
      <4>2. c \in Batch /\ c.prio = p
        <5> HIDE DEF b
        <5>1. <<msg[s]>> \in Seq(Msgs)
          BY <2>2
        <5>2. c \in Batch
          BY <2>3, <2>4, <5>1 DEF Batch
        <5>3. c.prio = b.prio
          BY <2>3 DEF Batch
        <5> QED
          BY <2>3, <5>2, <5>3
      <4> QED
        BY <4>1, <4>2
    <3> QED
      BY <1>3, <3>1, <3>2, <3>3, <3>4
  <2>6. \A c : KeepOrCommit(s, c) \/ Commit(p, c) => Filled(p, c)
    BY <2>1, <2>2 DEF KeepOrCommit, Filled
  <2> QED
    BY <2>1, <2>2, <2>5, <2>6
<1>4. CASE \/ Lock(s) \/ LockTimeout(s) \/ AcquireBooked(s) \/ WaitRefilled(s)
           \/ WaitFails(s) \/ SetCongested(s) \/ MovedNotify(s) \/ Unlock(s)
           \/ LateNotify(s) \/ Cancel(s) \/ \E m \in Msgs : Send(s, m)
  BY <1>4 DEF Lock, LockTimeout, AcquireBooked, WaitRefilled, WaitFails, SetCongested,
              MovedNotify, Unlock, LateNotify, Cancel, Send, Stays, NoAllocation
<1> QED
  BY <1>1, <1>2, <1>3, <1>4 DEF SenderStep

LEMMA OtherMoves ==
    ASSUME TypeOK, LockInv,
           \/ WriterStep \/ KeepAlive \/ KeepAliveWritten \/ SeeToken
           \/ StopDisable \/ StopStep \/ TaskStop \/ UNCHANGED vars
    PROVE  /\ linkUp' => linkUp
           /\ UNCHANGED allocated
           /\ Stays \/ Flushed \/ (\E p \in Lanes : Taken(p)) \/ GivenBack \/ LetGo
<1> USE DEF laneVars, writerVars
<1>1. CASE PullSome \/ TryPullSome
  BY <1>1 DEF PullSome, TryPullSome, TakeHead, Taken, TypeOK, WriterTypeOK
<1>2. CASE DrainPull
  BY <1>2 DEF DrainPull, Taken
<1>3. CASE RefillHand \/ DrainWrite
  BY <1>3 DEF RefillHand, DrainWrite, GivenBack
<1>4. CASE WriteFails \/ RefillDone
  BY <1>4 DEF WriteFails, RefillDone, LetGo
<1>5. CASE DrainWriteFails \/ DrainDone
  BY <1>5 DEF DrainWriteFails, DrainDone, Close, LetGo
<1>6. CASE TryFlush \/ DrainFlush \/ StopFlush
  <2>1. CASE TryFlush
    <3>1. {lane} \in SUBSET Lanes
      BY <2>1 DEF TryFlush, LockInv, WriterInv
    <3> QED
      BY <2>1, <3>1 DEF TryFlush, Stays, Flushed
  <2>2. CASE DrainFlush \/ StopFlush
    <3>1. FlushLanes(Lanes) /\ Lanes \in SUBSET Lanes
          /\ UNCHANGED <<free, hand, nref, linkUp, allocated>>
      BY <2>2 DEF DrainFlush, StopFlush
    <3> QED
      BY <3>1 DEF Flushed
  <2> QED
    BY <1>6, <2>1, <2>2
<1>7. CASE \/ FireRefill \/ CloseLane \/ PullCheck \/ PullBooked \/ SetBackoff \/ PullNone
           \/ Yield \/ SetFlush \/ ResetBackoff
           \/ Unpark \/ TryPullCheck \/ TryPullNone \/ Write \/ DrainLock \/ DrainUnlock
           \/ KeepAlive \/ KeepAliveWritten \/ SeeToken
           \/ StopDisable \/ StopLock \/ StopCancel \/ TaskStop
           \/ UNCHANGED vars
  BY <1>7 DEF FireRefill, CloseLane, PullCheck, PullBooked, SetBackoff, PullNone, Yield, SetFlush,
              ResetBackoff, Unpark,
              TryPullCheck, TryPullNone, Write, DrainLock, DrainUnlock, KeepAlive,
              KeepAliveWritten, SeeToken, StopDisable, StopLock, StopCancel, TaskStop, vars, Stays
<1> QED
  BY <1>1, <1>2, <1>3, <1>4, <1>5, <1>6, <1>7
     DEF WriterStep, PullStep, WriteStep, DrainStep, StopStep

\* A change of place keeps the priorities of the lanes.
LEMMA PrioStep ==
    ASSUME TypeOK, PrioInv,
           \/ Stays \/ Flushed \/ (\E p \in Lanes : Taken(p)) \/ GivenBack \/ LetGo
           \/ \E p \in Lanes : \E c \in Batch : c.prio = p /\ (Booked(p, c) \/ Filled(p, c))
    PROVE  PrioInv'
<1>a. \A q \in Lanes : /\ ring[q] \in Seq(Batch) /\ AllPrio(ring[q], q)
                       /\ booked[q] \in Seq(Batch) /\ AllPrio(booked[q], q)
  BY DEF TypeOK, LaneTypeOK, PrioInv
<1>b. \A q \in Lanes : AllPrio(<<>>, q)
  BY <1>a, PrioSeqs
<1> USE DEF TypeOK, LaneTypeOK
<1>1. CASE Stays \/ GivenBack \/ LetGo
  <2>1. UNCHANGED <<ring, booked>>
    BY <1>1 DEF Stays, GivenBack, LetGo
  <2> QED
    BY <1>a, <2>1 DEF PrioInv
<1>2. CASE Flushed
  <2>1. \A q \in Lanes : AllPrio(ring[q] \o booked[q], q)
    BY <1>a, PrioSeqs
  <2> QED
    BY <1>a, <1>b, <1>2, <2>1 DEF Flushed, FlushLanes, PrioInv
<1>3. ASSUME NEW p \in Lanes, Taken(p) PROVE PrioInv'
  <2>1. AllPrio(Tail(ring[p]), p)
    BY <1>a, <1>3, PrioSeqs DEF Taken
  <2>2. ring' = [ring EXCEPT ![p] = Tail(ring[p])] /\ UNCHANGED booked
    BY <1>3 DEF Taken
  <2> QED
    BY <1>a, <2>1, <2>2 DEF PrioInv
<1>4. ASSUME NEW p \in Lanes, NEW c \in Batch, c.prio = p, Booked(p, c) \/ Filled(p, c)
      PROVE  PrioInv'
  <2>1. AllPrio(<<c>>, p) /\ AllPrio(Append(ring[p], c), p)
    BY <1>a, <1>4, PrioSeqs
  <2>2. /\ ring' = ring \/ ring' = [ring EXCEPT ![p] = Append(ring[p], c)]
        /\ booked' = [booked EXCEPT ![p] = <<c>>] \/ booked' = [booked EXCEPT ![p] = <<>>]
    BY <1>4 DEF Booked, Filled, Commit
  <2>3. \A q \in Lanes : AllPrio(ring'[q], q)
    BY <1>a, <2>1, <2>2
  <2>4. \A q \in Lanes : AllPrio(booked'[q], q)
    BY <1>a, <1>b, <2>1, <2>2
  <2> QED
    BY <2>3, <2>4 DEF PrioInv
<1> QED
  BY <1>1, <1>2, <1>3, <1>4

\* The length of a sequence, for the arithmetic on lengths below.
Size(q) == Len(q)

LEMMA Sizes ==
    /\ Size(<<>>) = 0 /\ \A c \in Batch : Size(<<c>>) = 1
    /\ \A q \in Seq(Batch) : Size(q) \in Nat /\ (q = <<>> <=> Size(q) = 0)
    /\ \A q \in Seq(Batch) : \A b \in Batch : Size(Append(q, b)) = Size(q) + 1
    /\ \A q \in Seq(Batch) : q # <<>> => Size(Tail(q)) = Size(q) - 1
    /\ \A q \in Seq(Batch) : \A r \in Seq(Batch) : Size(q \o r) = Size(q) + Size(r)
<1>1. Size(<<>>) = 0 /\ \A c \in Batch : Size(<<c>>) = 1
  BY EmptySeq DEF Size
<1>2. ASSUME NEW q \in Seq(Batch)
      PROVE  /\ Size(q) \in Nat /\ (q = <<>> <=> Size(q) = 0)
             /\ \A b \in Batch : Size(Append(q, b)) = Size(q) + 1
             /\ q # <<>> => Size(Tail(q)) = Size(q) - 1
             /\ \A r \in Seq(Batch) : Size(q \o r) = Size(q) + Size(r)
  BY BatchSeqs DEF Size
<1> QED
  BY <1>1, <1>2

LEMMA BufferTypes ==
    ASSUME TypeOK, NEW q \in Lanes
    PROVE  /\ ring[q] \in Seq(Batch) /\ booked[q] \in Seq(Batch)
           /\ free[q] \in Nat /\ Size(ring[q]) \in Nat /\ Held(q) \in Nat
           /\ Size(booked[q]) \in Nat /\ Size(booked[q]) <= 1
           /\ (booked[q] = <<>> <=> Size(booked[q]) = 0)
           /\ allocated[q] \in Nat /\ Capacity \in Nat
           /\ Buffers(q) = free[q] + Size(ring[q]) + Size(booked[q]) + Held(q)
           /\ Buffers(q)' = free'[q] + Size(ring'[q]) + Size(booked'[q]) + Held(q)'
           /\ Held(q) = HeldIn(hand, nref, q) /\ Held(q)' = HeldIn(hand', nref', q)
<1>1. ring[q] \in Seq(Batch) /\ booked[q] \in Seq(Batch) /\ Size(booked[q]) <= 1
      /\ free[q] \in Nat /\ allocated[q] \in 0..AllocMax
  BY DEF TypeOK, LaneTypeOK, Size
<1>2. Size(ring[q]) \in Nat /\ Size(booked[q]) \in Nat /\ (booked[q] = <<>> <=> Size(booked[q]) = 0)
  BY <1>1, Sizes
<1>3. HeldIn(hand, nref, q) \in Nat
  BY HeldCounts DEF TypeOK, WriterTypeOK
<1>4. Held(q) = HeldIn(hand, nref, q) /\ Held(q)' = HeldIn(hand', nref', q)
  BY DEF Held, HeldIn
<1>5. allocated[q] \in Nat /\ Capacity \in Nat
  BY <1>1, CapacityAssumption
<1>6. /\ Buffers(q) = free[q] + Size(ring[q]) + Size(booked[q]) + Held(q)
      /\ Buffers(q)' = free'[q] + Size(ring'[q]) + Size(booked'[q]) + Held(q)'
  BY DEF Buffers, Size
<1> QED
  BY <1>1, <1>2, <1>3, <1>4, <1>5, <1>6

\* Four counts of which two change by d and e and two others together by f.
LEMMA SumShifts ==
    ASSUME NEW a \in Int, NEW b \in Int, NEW c \in Int, NEW h \in Int,
           NEW d \in Int, NEW e \in Int, NEW f \in Int,
           NEW b1 \in Int, NEW c1 \in Int, b1 + c1 = b + c + f
    PROVE  (a + d) + b1 + c1 + (h + e) = (a + b + c + h) + (d + e + f)
OBVIOUS

\* Steps of the writer task and of a stop: the buffers of a lane change places,
\* and only a failed write frees some.
LEMMA OtherConserve ==
    ASSUME IInv, UNCHANGED allocated, linkUp' => linkUp,
           Stays \/ Flushed \/ (\E p \in Lanes : Taken(p)) \/ GivenBack \/ LetGo
    PROVE  BufferConservation'
<1> USE DEF IInv
<1>a. \A q \in Lanes : /\ free[q] \in Nat /\ Size(ring[q]) \in Nat /\ Size(booked[q]) \in Nat
                       /\ Held(q) \in Nat
  BY BufferTypes
<1>b. SUFFICES ASSUME NEW q \in Lanes
               PROVE  /\ Buffers(q)' \in Int /\ Buffers(q)' <= Buffers(q)
                      /\ linkUp' => Buffers(q)' = Buffers(q)
  <2>1. \A q \in Lanes : Owned(q)' = Owned(q) /\ Owned(q) \in Nat /\ Buffers(q) \in Nat
    BY <1>a, BufferTypes DEF Owned
  <2> QED
    BY <2>1 DEF BufferConservation
<1>q. /\ free[q] \in Nat /\ Size(ring[q]) \in Nat /\ Size(booked[q]) \in Nat
      /\ Held(q) \in Nat
      /\ Buffers(q) = free[q] + Size(ring[q]) + Size(booked[q]) + Held(q)
      /\ Buffers(q)' = free'[q] + Size(ring'[q]) + Size(booked'[q]) + Held(q)'
  BY BufferTypes
<1> DEFINE H(x) == IF x = q THEN 1 ELSE 0
<1>1. ASSUME NEW d \in Int, NEW e \in Int, NEW f \in Int,
             free'[q] = free[q] + d, Held(q)' = Held(q) + e,
             Size(ring'[q]) + Size(booked'[q]) = Size(ring[q]) + Size(booked[q]) + f,
             Size(ring'[q]) \in Nat, Size(booked'[q]) \in Nat,
             d + e + f <= 0, linkUp' => d + e + f = 0
      PROVE  /\ Buffers(q)' \in Int /\ Buffers(q)' <= Buffers(q)
             /\ linkUp' => Buffers(q)' = Buffers(q)
  <2>1. Buffers(q)' = (free[q] + d) + Size(ring'[q]) + Size(booked'[q]) + (Held(q) + e)
    BY <1>1, <1>q
  <2>2. (free[q] + d) + Size(ring'[q]) + Size(booked'[q]) + (Held(q) + e)
          = (free[q] + Size(ring[q]) + Size(booked[q]) + Held(q)) + (d + e + f)
    BY <1>1, <1>q, SumShifts
  <2>3. Buffers(q)' = Buffers(q) + (d + e + f)
    BY <1>q, <2>1, <2>2
  <2>4. Buffers(q) \in Int /\ d + e + f \in Int
    BY <1>1, <1>q
  <2> QED
    BY <1>1, <2>3, <2>4
<1>2. /\ ring[q] \in Seq(Batch) /\ booked[q] \in Seq(Batch)
      /\ hand \in Seq(Batch) /\ nref \in 0..Len(hand) /\ Len(hand) \in Nat
  <2>1. ring[q] \in Seq(Batch) /\ booked[q] \in Seq(Batch)
    BY BufferTypes
  <2>2. hand \in Seq(Batch) /\ nref \in 0..Len(hand)
    BY DEF TypeOK, WriterTypeOK
  <2> QED
    BY <2>1, <2>2, LenProperties
<1>3. \A x \in Lanes : Refill(x) => free'[q] = free[q] + H(x)
  <2> SUFFICES ASSUME NEW x \in Lanes, Refill(x) PROVE free'[q] = free[q] + H(x)
    OBVIOUS
  <2>1. free \in [Lanes -> Nat] /\ free' = [free EXCEPT ![x] = @ + 1]
    BY DEF Refill, TypeOK, LaneTypeOK
  <2> QED
    BY <2>1
<1>4. UNCHANGED <<hand, nref>> => Held(q)' = Held(q)
  BY BufferTypes
<1>5. CASE Stays
  BY <1>1, <1>4, <1>5, <1>q DEF Stays
<1>6. CASE Flushed
  <2>1. \/ ring'[q] = ring[q] \o booked[q] /\ booked'[q] = <<>>
        \/ ring'[q] = ring[q] /\ booked'[q] = booked[q]
    BY <1>6 DEF Flushed, FlushLanes
  <2>2. Size(ring[q] \o booked[q]) = Size(ring[q]) + Size(booked[q]) /\ Size(<<>>) = 0
    BY <1>2, Sizes
  <2>3. /\ Size(ring'[q]) + Size(booked'[q]) = Size(ring[q]) + Size(booked[q]) + 0
        /\ Size(ring'[q]) \in Nat /\ Size(booked'[q]) \in Nat
    <3>1. CASE ring'[q] = ring[q] \o booked[q] /\ booked'[q] = <<>>
      BY <1>q, <2>2, <3>1
    <3>2. CASE ring'[q] = ring[q] /\ booked'[q] = booked[q]
      BY <1>q, <3>2
    <3> QED
      BY <2>1, <3>1, <3>2
  <2> QED
    BY <1>1, <1>4, <1>6, <1>q, <2>3 DEF Flushed
<1>7. ASSUME NEW p \in Lanes, Taken(p)
      PROVE  /\ Buffers(q)' \in Int /\ Buffers(q)' <= Buffers(q)
             /\ linkUp' => Buffers(q)' = Buffers(q)
  <2> DEFINE b == Head(ring[p])
  <2>1. b \in Batch /\ b.prio = p /\ Size(Tail(ring[p])) = Size(ring[p]) - 1 /\ Size(ring[p]) > 0
    <3>1. ring[p] \in Seq(Batch) /\ AllPrio(ring[p], p) /\ ring[p] # <<>>
      BY <1>7 DEF Taken, TypeOK, LaneTypeOK, PrioInv
    <3> QED
      BY <3>1, Sizes, PrioSeqs
  <2>2. Size(ring'[q]) = Size(ring[q]) - H(p) /\ Size(ring'[q]) \in Nat /\ UNCHANGED booked
    <3>1. ring'[q] = (IF p = q THEN Tail(ring[p]) ELSE ring[q]) /\ UNCHANGED booked
      BY <1>7 DEF Taken, TypeOK, LaneTypeOK
    <3> QED
      BY <1>q, <2>1, <3>1
  <2>3. CASE hand' = Append(hand, b) /\ UNCHANGED free
    <3>1. Held(q)' = Held(q) + H(p)
      <4>1. HeldIn(Append(hand, b), nref, q) = HeldIn(hand, nref, q) + H(p)
        BY <1>2, <2>1, HeldCounts
      <4> QED
        BY <1>7, <2>3, <4>1, BufferTypes DEF Taken
    <3>2. /\ Size(ring'[q]) + Size(booked'[q]) = Size(ring[q]) + Size(booked[q]) + (0 - H(p))
          /\ Size(ring'[q]) \in Nat /\ Size(booked'[q]) \in Nat
      BY <1>q, <2>2
    <3>3. free'[q] = free[q] + 0 /\ H(p) \in Int /\ 0 - H(p) \in Int
      BY <1>q, <2>3
    <3>4. 0 + H(p) + (0 - H(p)) = 0
      OBVIOUS
    <3> HIDE DEF H
    <3> QED
      BY <1>1, <3>1, <3>2, <3>3, <3>4
  <2>4. CASE Refill(b.prio) /\ UNCHANGED hand
    <3>1. Held(q)' = Held(q) /\ free'[q] = free[q] + H(p)
      BY <1>3, <1>4, <1>7, <2>1, <2>4 DEF Taken
    <3> QED
      BY <1>1, <1>q, <2>2, <3>1
  <2> QED
    BY <1>7, <2>3, <2>4 DEF Taken
<1>8. CASE GivenBack
  <2> DEFINE x == hand[nref + 1].prio
  <2>1. nref < Len(hand) /\ x \in Lanes
    <3>1. nref + 1 \in 1..Len(hand)
      BY <1>2, <1>8 DEF GivenBack
    <3>2. hand[nref + 1] \in Batch
      BY <1>2, <3>1, ElementOfSeq
    <3> QED
      BY <1>2, <3>1, <3>2 DEF Batch
  <2>2. Held(q)' = Held(q) - H(x)
    <3>1. nref + 1 \in 0..Len(hand)
      BY <1>2, <2>1
    <3>2. HeldIn(hand, nref, q) = HeldIn(hand, nref + 1, q) + H(x)
          /\ HeldIn(hand, nref + 1, q) \in Nat
      BY <1>2, <2>1, <3>1, HeldCounts
    <3> QED
      BY <1>8, <3>2, BufferTypes DEF GivenBack
  <2>3. free'[q] = free[q] + H(x)
    BY <1>3, <1>8, <2>1 DEF GivenBack
  <2>4. UNCHANGED <<ring, booked>>
    BY <1>8 DEF GivenBack
  <2> QED
    BY <1>1, <1>q, <2>2, <2>3, <2>4
<1>9. CASE LetGo
  <2>1. Held(q)' = 0
    <3>1. HeldIn(<<>>, 0, q) = 0
      BY NoneHeld
    <3> QED
      BY <1>9, <3>1, BufferTypes DEF LetGo
  <2>2. Held(q) = 0 \/ linkUp' = FALSE
    BY <1>2, <1>9, HeldCounts, BufferTypes DEF LetGo
  <2>3. UNCHANGED <<ring, booked, free>>
    BY <1>9 DEF LetGo
  <2>4. Buffers(q)' \in Int /\ Buffers(q)' <= Buffers(q)
        /\ (Held(q) = 0 => Buffers(q)' = Buffers(q))
    BY <1>q, <2>1, <2>3, BufferTypes
  <2> QED
    BY <2>2, <2>4
<1> QED
  BY <1>5, <1>6, <1>7, <1>8, <1>9

\* Steps of a sender: it books a buffer, which it may have allocated, and
\* commits a booked one.
LEMMA SenderConserve ==
    ASSUME IInv, UNCHANGED linkUp,
           \/ Stays /\ NoAllocation
           \/ \E p \in Lanes : \E c \in Batch :
                 c.prio = p /\ (Booked(p, c) \/ (Filled(p, c) /\ UNCHANGED allocated))
    PROVE  BufferConservation'
<1> USE DEF IInv
<1>a. \A q \in Lanes : /\ free[q] \in Nat /\ Size(ring[q]) \in Nat /\ Size(booked[q]) \in Nat
                       /\ Held(q) \in Nat /\ allocated[q] \in Nat /\ Capacity \in Nat
                       /\ (booked[q] = <<>> <=> Size(booked[q]) = 0)
                       /\ Owned(q) \in Nat
  BY BufferTypes DEF Owned
<1>b. SUFFICES ASSUME NEW q \in Lanes
               PROVE  \E d \in {0, 1} : /\ Buffers(q)' = Buffers(q) + d
                                        /\ Owned(q)' = Owned(q) + d
  <2>1. \A q \in Lanes : Owned(q) \in Nat /\ Buffers(q) \in Nat
    BY <1>a, BufferTypes
  <2> QED
    BY <2>1 DEF BufferConservation
<1>c. /\ ring[q] \in Seq(Batch) /\ allocated[q] \in 0..AllocMax /\ AllocMax > Capacity
      /\ AllocMax \in Nat /\ Capacity \in Nat
  BY CapacityAssumption DEF TypeOK, LaneTypeOK
<1>q. /\ free[q] \in Nat /\ Size(ring[q]) \in Nat /\ Size(booked[q]) \in Nat
      /\ Held(q) \in Nat /\ Owned(q) \in Nat
      /\ Buffers(q) = free[q] + Size(ring[q]) + Size(booked[q]) + Held(q)
      /\ Buffers(q)' = free'[q] + Size(ring'[q]) + Size(booked'[q]) + Held(q)'
  BY <1>a, BufferTypes
<1>1. \A p \in Lanes : CountAllocation(p) =>
          Owned(q)' = Owned(q) + (IF p = q /\ allocated[p] < Capacity THEN 1 ELSE 0)
  <2> SUFFICES ASSUME NEW p \in Lanes, CountAllocation(p)
               PROVE  Owned(q)' = Owned(q) + (IF p = q /\ allocated[p] < Capacity THEN 1 ELSE 0)
    OBVIOUS
  <2>1. allocated'[q] = IF p = q /\ allocated[q] < AllocMax THEN allocated[q] + 1 ELSE allocated[q]
    BY DEF CountAllocation, TypeOK, LaneTypeOK
  <2> QED
    BY <1>c, <2>1 DEF Owned
<1>2. UNCHANGED allocated => Owned(q)' = Owned(q)
  BY DEF Owned
<1>3. UNCHANGED <<hand, nref>> => Held(q)' = Held(q)
  BY BufferTypes
<1>4. CASE Stays /\ NoAllocation
  <2>1. Buffers(q)' = Buffers(q)
    BY <1>3, <1>4, <1>q DEF Stays
  <2>2. Owned(q)' = Owned(q)
    <3>1. \A p \in Lanes : allocated[p] \in Nat
      BY <1>a
    <3> QED
      BY <1>1, <1>2, <1>4, <1>a, <1>c, <3>1 DEF NoAllocation
  <2> QED
    BY <1>q, <2>1, <2>2
<1>5. ASSUME NEW p \in Lanes, NEW c \in Batch, Booked(p, c)
      PROVE  \E d \in {0, 1} : /\ Buffers(q)' = Buffers(q) + d
                               /\ Owned(q)' = Owned(q) + d
  <2>1. /\ Size(booked'[q]) = (IF p = q THEN Size(booked[q]) + 1 ELSE Size(booked[q]))
        /\ UNCHANGED ring /\ Held(q)' = Held(q)
    <3>1. Size(<<c>>) = 1 /\ Size(<<>>) = 0
      BY Sizes
    <3>2. booked[p] = <<>> /\ booked'[q] = (IF p = q THEN <<c>> ELSE booked[q])
      BY <1>5 DEF Booked, TypeOK, LaneTypeOK
    <3>3. UNCHANGED ring /\ Held(q)' = Held(q)
      BY <1>3, <1>5 DEF Booked
    <3> QED
      BY <1>q, <3>1, <3>2, <3>3
  <2>2. CASE free[p] > 0 /\ free' = [free EXCEPT ![p] = @ - 1] /\ UNCHANGED allocated
    <3>1. free'[q] = IF p = q THEN free[q] - 1 ELSE free[q]
      BY <2>2 DEF TypeOK, LaneTypeOK
    <3>2. Buffers(q)' = Buffers(q) /\ Owned(q)' = Owned(q)
      BY <1>2, <1>q, <2>1, <2>2, <3>1
    <3> QED
      BY <1>q, <3>2
  <2>3. CASE allocated[p] < Capacity /\ CountAllocation(p) /\ UNCHANGED free
    <3> DEFINE d == IF p = q THEN 1 ELSE 0
    <3>1. Owned(q)' = Owned(q) + d
      BY <1>1, <2>3
    <3>2. Buffers(q)' = Buffers(q) + d
      BY <1>q, <2>1, <2>3
    <3> QED
      BY <3>1, <3>2
  <2> QED
    BY <1>5, <2>2, <2>3 DEF Booked
<1>6. ASSUME NEW p \in Lanes, NEW c \in Batch, Filled(p, c), UNCHANGED allocated
      PROVE  \E d \in {0, 1} : /\ Buffers(q)' = Buffers(q) + d
                               /\ Owned(q)' = Owned(q) + d
  <2>1. Held(q)' = Held(q) /\ UNCHANGED free /\ Owned(q)' = Owned(q) /\ Size(booked[p]) = 1
    <3>1. booked[p] # <<>> /\ UNCHANGED <<free, hand, nref>>
      BY <1>6 DEF Filled
    <3>2. Size(booked[p]) \in Nat /\ Size(booked[p]) <= 1 /\ Size(booked[p]) # 0
      BY <3>1, BufferTypes
    <3> QED
      BY <1>2, <1>3, <1>6, <3>1, <3>2
  <2>2. Size(ring'[q]) + Size(booked'[q]) = Size(ring[q]) + Size(booked[q])
        /\ Size(ring'[q]) \in Nat /\ Size(booked'[q]) \in Nat
    <3>1. CASE Commit(p, c)
      <4>1. Size(Append(ring[q], c)) = Size(ring[q]) + 1 /\ Size(<<>>) = 0
        BY <1>c, Sizes, EmptySeq
      <4>2. /\ ring'[q] = IF p = q THEN Append(ring[q], c) ELSE ring[q]
            /\ booked'[q] = IF p = q THEN <<>> ELSE booked[q]
        BY <3>1 DEF Commit, TypeOK, LaneTypeOK
      <4> QED
        BY <1>q, <2>1, <4>1, <4>2
    <3>2. CASE booked' = [booked EXCEPT ![p] = <<c>>] /\ UNCHANGED ring
      <4>1. Size(booked'[q]) = Size(booked[q])
        <5>1. booked'[q] = (IF p = q THEN <<c>> ELSE booked[q]) /\ Size(<<c>>) = 1
          BY <3>2, Sizes DEF TypeOK, LaneTypeOK
        <5> QED
          BY <2>1, <5>1
      <4> QED
        BY <1>q, <3>2, <4>1
    <3> QED
      BY <1>6, <3>1, <3>2 DEF Filled
  <2>3. Buffers(q)' = Buffers(q)
    BY <1>q, <2>1, <2>2
  <2> QED
    BY <1>q, <2>1, <2>3
<1> QED
  BY <1>4, <1>5, <1>6

LEMMA BufferStep == IInv /\ [Next]_vars => IInv'
<1> SUFFICES ASSUME IInv, [Next]_vars PROVE IInv'
  OBVIOUS
<1> USE DEF IInv
<1>1. (TypeOK /\ LockInv)'
  BY TypeLockStep
<1>2. ASSUME NEW s \in Senders, SenderStep(s) \/ Cancel(s) \/ \E m \in Msgs : Send(s, m)
      PROVE  (PrioInv /\ BufferConservation)'
  <2>1. /\ UNCHANGED linkUp
        /\ \/ Stays /\ NoAllocation
           \/ \E p \in Lanes : \E c \in Batch :
                 c.prio = p /\ (Booked(p, c) \/ (Filled(p, c) /\ UNCHANGED allocated))
    BY <1>2, SenderMoves
  <2>2. BufferConservation'
    BY <2>1, SenderConserve
  <2>3. PrioInv'
    BY <2>1, PrioStep
  <2> QED
    BY <2>2, <2>3
<1>3. CASE \/ WriterStep \/ KeepAlive \/ KeepAliveWritten \/ SeeToken
           \/ StopDisable \/ StopStep \/ TaskStop \/ UNCHANGED vars
  <2>1. /\ linkUp' => linkUp
        /\ UNCHANGED allocated
        /\ Stays \/ Flushed \/ (\E p \in Lanes : Taken(p)) \/ GivenBack \/ LetGo
    BY <1>3, OtherMoves
  <2>2. BufferConservation'
    BY <2>1, OtherConserve
  <2>3. PrioInv'
    BY <2>1, PrioStep
  <2> QED
    BY <1>1, <2>2, <2>3
<1> QED
  BY <1>1, <1>2, <1>3 DEF Next

LEMMA InitBuffers == Init => IInv
<1> SUFFICES ASSUME Init PROVE IInv
  OBVIOUS
<1>1. TypeOK /\ LockInv
  BY InitType, InitLocks
<1>2. PrioInv
  BY EmptySeq DEF Init, PrioInv, AllPrio
<1>3. BufferConservation
  <2> SUFFICES ASSUME NEW q \in Lanes PROVE Buffers(q) = 0 /\ Owned(q) = 0
    BY DEF BufferConservation
  <2>1. hand = <<>> /\ nref = 0 /\ HeldIn(<<>>, 0, q) = 0
    BY NoneHeld DEF Init
  <2>2. Held(q) = 0
    BY <1>1, <2>1, BufferTypes
  <2>3. Size(ring[q]) = 0 /\ Size(booked[q]) = 0 /\ free[q] = 0 /\ allocated[q] = 0
    BY Sizes DEF Init
  <2>4. Buffers(q) = free[q] + Size(ring[q]) + Size(booked[q]) + Held(q)
    BY <1>1, BufferTypes
  <2> QED
    BY <2>2, <2>3, <2>4, CapacityAssumption DEF Owned
<1> QED
  BY <1>1, <1>2, <1>3 DEF IInv

\* Buffers are neither duplicated nor leaked while the link is up, and never
\* duplicated: in no lane do the ring, the booked batch, the writer task and the
\* refill ring together hold more buffers than it allocated (tx.rs, write_task).
THEOREM BuffersAreConserved == Safety => []BufferConservation
<1>1. IInv => BufferConservation
  BY DEF IInv
<1> QED
  BY <1>1, InitBuffers, BufferStep, PTL DEF Safety

----------------------------------------------------------------------------
(* The order in which batches reach the wire.  The line of a lane is what  *)
(* was written, what the writer task holds, what is committed and what is  *)
(* booked, one after the other.  The writer task only moves batches along  *)
(* it or takes them out; a sender that holds the lane adds to its end.     *)

----------------------------------------------------------------------------
(* Sequences that agree on a set of elements *)

\* Positions of q that hold an element of F.
Of(q, F) == {i \in 1..Len(q) : q[i] \in F}

\* f finds the elements of F in r again in q, in the same order.
Maps(f, r, q, F) ==
    /\ f \in [Of(r, F) -> Of(q, F)]
    /\ \A i \in Of(r, F) : q[f[i]] = r[i]
    /\ \A i, j \in Of(r, F) : i < j => f[i] < f[j]
Onto(f, r, q, F) == \A k \in Of(q, F) : \E i \in Of(r, F) : f[i] = k

\* r has some, or all, of the elements of F in q, in their order.
Thinned(r, q, F) == \E f : Maps(f, r, q, F)
Same(r, q, F) == \E f : Maps(f, r, q, F) /\ Onto(f, r, q, F)

LEMMA SameIsThinned == \A r, q, F : Same(r, q, F) => Thinned(r, q, F)
BY DEF Same, Thinned

LEMMA SameSelf == \A q, F : Same(q, q, F)
<1> SUFFICES ASSUME NEW q, NEW F PROVE Same(q, q, F)
  OBVIOUS
<1> DEFINE f == [i \in Of(q, F) |-> i]
<1>1. Maps(f, q, q, F) /\ Onto(f, q, q, F)
  BY DEF Maps, Onto
<1> QED
  BY <1>1 DEF Same

LEMMA EmptyThinned == \A q, F : Thinned(<<>>, q, F)
<1> SUFFICES ASSUME NEW q, NEW F PROVE Thinned(<<>>, q, F)
  OBVIOUS
<1> DEFINE f == [i \in {} |-> 0]
<1>1. Of(<<>>, F) = {}
  BY EmptySeq DEF Of
<1>2. Maps(f, <<>>, q, F)
  BY <1>1 DEF Maps
<1> QED
  BY <1>2 DEF Thinned

\* Positions of a concatenation.
LEMMA OfConcat ==
    ASSUME NEW S, NEW F, NEW q \in Seq(S), NEW r \in Seq(S)
    PROVE  /\ q \o r \in Seq(S) /\ Len(q) \in Nat /\ Len(r) \in Nat
           /\ \A i \in Int : i \in Of(q \o r, F) <=>
                i \in Of(q, F) \/ (i > Len(q) /\ i - Len(q) \in Of(r, F))
           /\ \A i \in Of(q, F) : i \in Nat /\ i <= Len(q) /\ (q \o r)[i] = q[i]
           /\ \A i \in Of(r, F) : /\ i \in Nat /\ i >= 1 /\ Len(q) + i \in Of(q \o r, F)
                                  /\ (q \o r)[Len(q) + i] = r[i]
<1>1. q \o r \in Seq(S) /\ Len(q) \in Nat /\ Len(r) \in Nat /\ Len(q \o r) = Len(q) + Len(r)
  BY LenProperties, ConcatProperties
<1>2. \A i \in 1..Len(q \o r) : (q \o r)[i] = IF i <= Len(q) THEN q[i] ELSE r[i - Len(q)]
  BY ConcatProperties
<1>3. \A i \in Of(q, F) : i \in Nat /\ i <= Len(q) /\ (q \o r)[i] = q[i]
  BY <1>1, <1>2 DEF Of
<1>4. ASSUME NEW i \in Of(r, F)
      PROVE  /\ i \in Nat /\ i >= 1 /\ Len(q) + i \in Of(q \o r, F)
             /\ (q \o r)[Len(q) + i] = r[i]
  <2>1. i \in 1..Len(r) /\ r[i] \in F
    BY DEF Of
  <2>2. Len(q) + i \in 1..Len(q \o r) /\ (Len(q) + i) - Len(q) = i /\ ~(Len(q) + i <= Len(q))
    BY <1>1, <2>1
  <2>3. (q \o r)[Len(q) + i] = r[i]
    BY <1>2, <2>2
  <2> QED
    BY <2>1, <2>2, <2>3 DEF Of
<1>5. ASSUME NEW i \in Int
      PROVE  i \in Of(q \o r, F) <=>
                i \in Of(q, F) \/ (i > Len(q) /\ i - Len(q) \in Of(r, F))
  <2>1. CASE i <= Len(q)
    <3>1. i \in 1..Len(q \o r) <=> i \in 1..Len(q)
      BY <1>1, <2>1
    <3>2. i \in 1..Len(q) => (q \o r)[i] = q[i]
      BY <1>1, <1>2, <2>1
    <3> QED
      BY <1>1, <2>1, <3>1, <3>2 DEF Of
  <2>2. CASE i > Len(q)
    <3>1. i \in 1..Len(q \o r) <=> i - Len(q) \in 1..Len(r)
      BY <1>1, <2>2
    <3>2. i \in 1..Len(q \o r) => (q \o r)[i] = r[i - Len(q)]
      BY <1>1, <1>2, <2>2
    <3>3. i \notin 1..Len(q)
      BY <1>1, <2>2
    <3> QED
      BY <2>2, <3>1, <3>2, <3>3 DEF Of
  <2> QED
    BY <1>1, <2>1, <2>2
<1> QED
  BY <1>1, <1>3, <1>4, <1>5

\* What agrees part by part agrees as a whole.
LEMMA JoinMaps ==
    ASSUME NEW S, NEW F, NEW q1 \in Seq(S), NEW r1 \in Seq(S), NEW q2 \in Seq(S),
           NEW r2 \in Seq(S), NEW f1, NEW f2, Maps(f1, r1, q1, F), Maps(f2, r2, q2, F)
    PROVE  \E f : /\ Maps(f, r1 \o r2, q1 \o q2, F)
                  /\ Onto(f1, r1, q1, F) /\ Onto(f2, r2, q2, F) =>
                        Onto(f, r1 \o r2, q1 \o q2, F)
<1> DEFINE r == r1 \o r2
           q == q1 \o q2
           n == Len(r1)
           l == Len(q1)
           f == [i \in Of(r, F) |-> IF i <= n THEN f1[i] ELSE l + f2[i - n]]
<1> HIDE DEF r, q, n, l, f
<1>1. n \in Nat /\ l \in Nat /\ \A i \in Of(r, F) : i \in Int
  <2>1. \A i \in Of(r, F) : i \in Int
    BY DEF Of
  <2> QED
    BY <2>1, OfConcat DEF n, l
<1>2. \A i \in Of(r, F) : \/ i <= n /\ i \in Of(r1, F) /\ r[i] = r1[i]
                          \/ ~(i <= n) /\ i - n \in Of(r2, F) /\ r[i] = r2[i - n]
  <2> TAKE i \in Of(r, F)
  <2>1. i \in Int /\ (i \in Of(r1, F) \/ (i > n /\ i - n \in Of(r2, F)))
    BY <1>1, OfConcat DEF r, n
  <2>2. i \in Of(r1, F) => i <= n /\ r[i] = r1[i]
    BY OfConcat DEF r, n
  <2>3. i - n \in Of(r2, F) => r[n + (i - n)] = r2[i - n]
    BY OfConcat DEF r, n
  <2>4. n + (i - n) = i /\ (i > n => ~(i <= n))
    BY <1>1, <2>1
  <2> QED
    BY <2>1, <2>2, <2>3, <2>4
<1>3. \A i \in Of(r1, F) : f1[i] \in Of(q1, F) /\ q1[f1[i]] = r1[i]
  BY DEF Maps
<1>4. \A i \in Of(r2, F) : f2[i] \in Of(q2, F) /\ q2[f2[i]] = r2[i]
  BY DEF Maps
<1>5. ASSUME NEW k \in Of(q1, F)
      PROVE  k \in Nat /\ k <= l /\ k \in Of(q, F) /\ q[k] = q1[k]
  <2>1. k \in Nat /\ k <= l /\ q[k] = q1[k]
    BY OfConcat DEF q, l
  <2>2. k \in Int => k \in Of(q, F)
    BY OfConcat DEF q
  <2> QED
    BY <2>1, <2>2
<1>6. ASSUME NEW k \in Of(q2, F)
      PROVE  k \in Nat /\ k >= 1 /\ l + k \in Of(q, F) /\ q[l + k] = q2[k]
  <2>1. \A i \in Of(q2, F) : /\ i \in Nat /\ i >= 1 /\ Len(q1) + i \in Of(q1 \o q2, F)
                             /\ (q1 \o q2)[Len(q1) + i] = q2[i]
    BY SMTT(60), OfConcat, SMTT(30)
  <2>2. /\ k \in Nat /\ k >= 1 /\ Len(q1) + k \in Of(q1 \o q2, F)
        /\ (q1 \o q2)[Len(q1) + k] = q2[k]
    BY <2>1, Zenon
  <2> QED
    BY <2>2, Zenon DEF q, l
<1>f. \A i \in Of(r, F) : f[i] = IF i <= n THEN f1[i] ELSE l + f2[i - n]
  BY DEF f
<1>7. ASSUME NEW i \in Of(r, F)
      PROVE  /\ f[i] \in Of(q, F) /\ q[f[i]] = r[i]
             /\ i <= n => i \in Of(r1, F) /\ f[i] = f1[i] /\ f[i] <= l /\ f[i] \in Nat
             /\ ~(i <= n) => i - n \in Of(r2, F) /\ f[i] = l + f2[i - n] /\ f[i] > l /\ f[i] \in Nat
  <2>1. CASE i <= n
    <3>1. i \in Of(r1, F) /\ r[i] = r1[i] /\ f[i] = f1[i]
      BY <1>2, <1>f, <2>1
    <3> QED
      BY <1>3, <1>5, <2>1, <3>1
  <2>2. CASE ~(i <= n)
    <3>1. i - n \in Of(r2, F) /\ r[i] = r2[i - n] /\ f[i] = l + f2[i - n]
      BY <1>2, <1>f, <2>2
    <3>2. f2[i - n] \in Of(q2, F) /\ q2[f2[i - n]] = r2[i - n]
      BY <1>4, <3>1
    <3>3. f2[i - n] \in Nat /\ f2[i - n] >= 1 /\ l + f2[i - n] \in Of(q, F)
          /\ q[l + f2[i - n]] = q2[f2[i - n]]
      BY <1>6, <3>2
    <3> QED
      BY <1>1, <2>2, <3>1, <3>2, <3>3
  <2> QED
    BY <2>1, <2>2
<1>8. ASSUME NEW i \in Of(r, F), NEW j \in Of(r, F), i < j
      PROVE  f[i] < f[j]
  <2>a. i \in Int /\ j \in Int
    BY <1>1
  <2>1. CASE j <= n
    <3>1. i <= n
      BY <1>1, <1>8, <2>1, <2>a
    <3> QED
      BY <1>7, <1>8, <2>1, <3>1 DEF Maps
  <2>2. CASE i <= n /\ ~(j <= n)
    <3>1. f[i] <= l /\ f[j] > l /\ f[i] \in Nat /\ f[j] \in Nat
      BY <1>7, <2>2
    <3> QED
      BY <1>1, <3>1
  <2>3. CASE ~(i <= n)
    <3>1. ~(j <= n)
      BY <1>1, <1>8, <2>3, <2>a
    <3>2. i - n \in Of(r2, F) /\ j - n \in Of(r2, F) /\ i - n < j - n
      BY <1>1, <1>7, <1>8, <2>3, <2>a, <3>1
    <3>3. f2[i - n] < f2[j - n]
      BY <3>2 DEF Maps
    <3>4. f2[i - n] \in Nat /\ f2[j - n] \in Nat
      BY <1>4, <1>6, <3>2
    <3>5. f[i] = l + f2[i - n] /\ f[j] = l + f2[j - n]
      BY <1>7, <2>3, <3>1
    <3> QED
      BY <1>1, <3>3, <3>4, <3>5
  <2> QED
    BY <2>1, <2>2, <2>3
<1>9. Maps(f, r, q, F)
  <2>1. f \in [Of(r, F) -> Of(q, F)]
    BY <1>7 DEF f
  <2> QED
    BY <1>7, <1>8, <2>1 DEF Maps
<1>10. ASSUME Onto(f1, r1, q1, F), Onto(f2, r2, q2, F)
       PROVE  Onto(f, r, q, F)
  <2> SUFFICES ASSUME NEW k \in Of(q, F) PROVE \E i \in Of(r, F) : f[i] = k
    BY DEF Onto
  <2>a. k \in Int
    BY DEF Of
  <2>1. k \in Of(q1, F) \/ (k > l /\ k - l \in Of(q2, F))
    BY <2>a, OfConcat DEF q, l
  <2>2. CASE k \in Of(q1, F)
    <3>1. PICK i \in Of(r1, F) : f1[i] = k
      BY <1>10, <2>2 DEF Onto
    <3>2. i \in Of(r, F) /\ i <= n
      <4>1. i \in Nat /\ i <= n
        BY OfConcat DEF n
      <4> QED
        BY <4>1, OfConcat DEF r, n
    <3>3. f[i] = k
      BY <1>f, <3>1, <3>2
    <3> QED
      BY <3>2, <3>3
  <2>3. CASE k > l /\ k - l \in Of(q2, F)
    <3>1. PICK i \in Of(r2, F) : f2[i] = k - l
      BY <1>10, <2>3 DEF Onto
    <3>2. i \in Nat /\ i >= 1 /\ n + i \in Of(r, F)
      BY OfConcat DEF r, n
    <3>3. f[n + i] = l + f2[i]
      <4>1. ~(n + i <= n) /\ (n + i) - n = i
        BY <1>1, <3>2
      <4> QED
        BY <1>f, <3>2, <4>1
    <3>4. l + f2[i] = k
      BY <1>1, <2>a, <3>1
    <3> QED
      BY <3>2, <3>3, <3>4
  <2> QED
    BY <2>1, <2>2, <2>3
<1> QED
  BY <1>9, <1>10 DEF r, q

LEMMA Join ==
    ASSUME NEW S, NEW F, NEW q1 \in Seq(S), NEW r1 \in Seq(S), NEW q2 \in Seq(S),
           NEW r2 \in Seq(S)
    PROVE  /\ Thinned(r1, q1, F) /\ Thinned(r2, q2, F) => Thinned(r1 \o r2, q1 \o q2, F)
           /\ Same(r1, q1, F) /\ Same(r2, q2, F) => Same(r1 \o r2, q1 \o q2, F)
<1>1. ASSUME Thinned(r1, q1, F), Thinned(r2, q2, F) PROVE Thinned(r1 \o r2, q1 \o q2, F)
  BY <1>1, JoinMaps DEF Thinned
<1>2. ASSUME Same(r1, q1, F), Same(r2, q2, F) PROVE Same(r1 \o r2, q1 \o q2, F)
  BY <1>2, JoinMaps DEF Same
<1> QED
  BY <1>1, <1>2

\* A batch outside F at the end, or taken from the front, makes no difference;
\* a part of a sequence has some of its elements.
LEMMA Ends ==
    ASSUME NEW S, NEW F, NEW q \in Seq(S)
    PROVE  /\ \A b \in S : b \notin F => Same(Append(q, b), q, F) /\ Same(q, Append(q, b), F)
           /\ q # <<>> => /\ Thinned(Tail(q), q, F)
                          /\ Head(q) \notin F => Same(Tail(q), q, F)
           /\ \A k \in 0..Len(q) : Thinned(SubSeq(q, 1, k), q, F)
<1>a. Len(q) \in Nat
  BY LenProperties
<1>1. ASSUME NEW b \in S, b \notin F
      PROVE  Same(Append(q, b), q, F) /\ Same(q, Append(q, b), F)
  <2> DEFINE f == [i \in Of(q, F) |-> i]
  <2>1. Of(Append(q, b), F) = Of(q, F) /\ \A i \in Of(q, F) : Append(q, b)[i] = q[i]
    <3>1. /\ Len(Append(q, b)) = Len(q) + 1 /\ Append(q, b)[Len(q) + 1] = b
          /\ \A i \in 1..Len(q) : Append(q, b)[i] = q[i]
      BY AppendProperties
    <3>2. \A i : i \in 1..(Len(q) + 1) <=> i \in 1..Len(q) \/ i = Len(q) + 1
      BY <1>a
    <3> QED
      BY <1>1, <3>1, <3>2 DEF Of
  <2>2. f \in [Of(q, F) -> Of(q, F)] /\ \A i \in Of(q, F) : f[i] = i
    OBVIOUS
  <2> HIDE DEF f
  <2>3. Maps(f, Append(q, b), q, F) /\ Onto(f, Append(q, b), q, F)
    BY <2>1, <2>2 DEF Maps, Onto
  <2>4. Maps(f, q, Append(q, b), F) /\ Onto(f, q, Append(q, b), F)
    BY <2>1, <2>2 DEF Maps, Onto
  <2> QED
    BY <2>3, <2>4 DEF Same
<1>2. ASSUME q # <<>>
      PROVE  Thinned(Tail(q), q, F) /\ (Head(q) \notin F => Same(Tail(q), q, F))
  <2> DEFINE r == Tail(q)
             f == [i \in Of(r, F) |-> i + 1]
  <2>1. /\ Len(r) = Len(q) - 1 /\ Head(q) = q[1] /\ r \in Seq(S)
        /\ \A i \in 1..Len(r) : r[i] = q[i + 1]
    BY <1>2, HeadTailProperties
  <2>2. \A i \in Of(r, F) : i \in Nat /\ f[i] = i + 1 /\ i + 1 \in Of(q, F) /\ q[i + 1] = r[i]
    BY <1>a, <2>1 DEF Of
  <2>3. f \in [Of(r, F) -> Of(q, F)]
    BY <2>2
  <2> HIDE DEF f, r
  <2>4. Maps(f, r, q, F)
    BY <2>2, <2>3 DEF Maps
  <2>5. ASSUME Head(q) \notin F PROVE Onto(f, r, q, F)
    <3> SUFFICES ASSUME NEW k \in Of(q, F) PROVE \E i \in Of(r, F) : f[i] = k
      BY DEF Onto
    <3>1. k \in 1..Len(q) /\ q[k] \in F /\ k # 1
      BY <2>1, <2>5 DEF Of
    <3>2. k - 1 \in 1..Len(r) /\ (k - 1) + 1 = k
      BY <1>a, <2>1, <3>1
    <3>3. k - 1 \in Of(r, F)
      BY <2>1, <3>1, <3>2 DEF Of
    <3> QED
      BY <2>2, <3>2, <3>3
  <2> QED
    BY <2>4, <2>5 DEF Same, Thinned, r
<1>3. ASSUME NEW k \in 0..Len(q) PROVE Thinned(SubSeq(q, 1, k), q, F)
  <2> DEFINE r == SubSeq(q, 1, k)
             f == [i \in Of(r, F) |-> i]
  <2>1. Len(r) = k /\ \A i \in 1..k : r[i] = q[i]
    <3>1. \A i \in 1..k : i \in 1..Len(q)
      BY <1>a
    <3> QED
      BY <1>a, <3>1, SubSeqProperties
  <2>2. \A i \in Of(r, F) : i \in Of(q, F) /\ q[i] = r[i] /\ f[i] = i
    BY <1>a, <2>1 DEF Of
  <2>3. f \in [Of(r, F) -> Of(q, F)]
    BY <2>2
  <2> HIDE DEF f, r
  <2>4. Maps(f, r, q, F)
    BY <2>2, <2>3 DEF Maps
  <2> QED
    BY <2>4 DEF Thinned, r
<1> QED
  BY <1>1, <1>2, <1>3

----------------------------------------------------------------------------
(* The line of a lane *)

\* What has left the rings: written, or in the writer task's hand.  A batch in
\* hand is counted once, also while buffers of a written hand are recycled.
Out == wire \o Unwritten
Line(p) == Out \o (ring[p] \o booked[p])

\* The position in the hand is used while it is recycled or drained only.
HandInv == wpc \notin {"refill", "drainwrite"} => nref = 0

\* Unwritten is Rest(hand, nref, wpc).
Rest(h, n, w) == IF w = "refill" THEN <<>> ELSE SubSeq(h, n + 1, Len(h))

LEMMA Rests ==
    ASSUME NEW h \in Seq(Batch), NEW n \in 0..Len(h), NEW w
    PROVE  /\ Rest(h, n, w) \in Seq(Batch)
           /\ w = "refill" => Rest(h, n, w) = <<>>
           /\ w # "refill" /\ n = 0 => Rest(h, n, w) = h
           /\ n = Len(h) => Rest(h, n, w) = <<>>
           /\ w # "refill" /\ n < Len(h) =>
                /\ h[n + 1] \in Batch
                /\ Rest(h, n, w) = <<h[n + 1]>> \o Rest(h, n + 1, w)
<1>a. Len(h) \in Nat
  BY LenProperties
<1>1. <<>> \in Seq(Batch) /\ SubSeq(h, n + 1, Len(h)) \in Seq(Batch)
  <2>1. \A i \in (n + 1)..Len(h) : h[i] \in Batch
    BY <1>a, ElementOfSeq
  <2>2. SubSeq(h, n + 1, Len(h)) \in Seq(Batch)
    BY <1>a, <2>1, SubSeqProperties
  <2> QED
    BY <2>2, EmptySeq
<1>2. n = 0 => SubSeq(h, n + 1, Len(h)) = h
  <2>1. SubSeq(h, 1, Len(h)) = h
    BY SubSeqFull
  <2> QED
    BY <2>1
<1>3. n = Len(h) => SubSeq(h, n + 1, Len(h)) = <<>>
  BY <1>a, SubSeqEmpty
<1>4. ASSUME n < Len(h)
      PROVE  h[n + 1] \in Batch
             /\ SubSeq(h, n + 1, Len(h)) = <<h[n + 1]>> \o SubSeq(h, (n + 1) + 1, Len(h))
  <2>1. n + 1 \in 1..Len(h) /\ Len(h) \in (n + 1)..Len(h)
    BY <1>a, <1>4
  <2> QED
    BY <2>1, ElementOfSeq, SubSeqRecursiveFirst
<1> QED
  BY <1>1, <1>2, <1>3, <1>4 DEF Rest

LEMMA LineTypes ==
    ASSUME TypeOK
    PROVE  /\ Unwritten = Rest(hand, nref, wpc) /\ Unwritten' = Rest(hand', nref', wpc')
           /\ wire \in Seq(Batch) /\ Unwritten \in Seq(Batch) /\ Out \in Seq(Batch)
           /\ hand \in Seq(Batch) /\ nref \in 0..Len(hand) /\ Len(hand) \in Nat
           /\ \A p \in Lanes : /\ ring[p] \in Seq(Batch) /\ booked[p] \in Seq(Batch)
                               /\ ring[p] \o booked[p] \in Seq(Batch)
                               /\ Line(p) \in Seq(Batch)
<1>1. Unwritten = Rest(hand, nref, wpc) /\ Unwritten' = Rest(hand', nref', wpc')
  BY DEF Unwritten, Rest
<1>2. /\ wire \in Seq(Batch) /\ hand \in Seq(Batch) /\ nref \in 0..Len(hand)
      /\ \A p \in Lanes : ring[p] \in Seq(Batch) /\ booked[p] \in Seq(Batch)
  BY DEF TypeOK, WriterTypeOK, LaneTypeOK
<1>3. Unwritten \in Seq(Batch) /\ Len(hand) \in Nat
  BY <1>1, <1>2, Rests, LenProperties
<1>4. Out \in Seq(Batch) /\ \A p \in Lanes : ring[p] \o booked[p] \in Seq(Batch)
  BY <1>2, <1>3, ConcatProperties DEF Out
<1>5. \A p \in Lanes : Line(p) \in Seq(Batch)
  BY <1>4, ConcatProperties DEF Line
<1> QED
  BY <1>1, <1>2, <1>3, <1>4, <1>5

\* What a step of the writer task or of a stop does to the lines: nothing, it
\* takes the head of lane l into its hand or throws it away, or a write fails.
Kept ==
    /\ Out' = Out
    /\ \A p \in Lanes : ring'[p] \o booked'[p] = ring[p] \o booked[p]
Handed(l) ==
    /\ ring[l] # <<>> /\ ring' = [ring EXCEPT ![l] = Tail(@)] /\ UNCHANGED booked
    /\ Out' = Append(Out, Head(ring[l]))
Thrown(l) ==
    /\ ring[l] # <<>> /\ ring' = [ring EXCEPT ![l] = Tail(@)] /\ UNCHANGED booked
    /\ Out' = Out /\ Discarded(Head(ring[l]))
CutOff ==
    /\ linkUp' = FALSE /\ UNCHANGED <<ring, booked>>
    /\ \E q \in Seq(Batch) : Out' = wire \o q /\ \A F : Thinned(q, Unwritten, F)

LEMMA OtherLines ==
    ASSUME TypeOK, HandInv,
           \/ WriterStep \/ KeepAlive \/ KeepAliveWritten \/ SeeToken
           \/ StopDisable \/ StopStep \/ TaskStop \/ UNCHANGED vars
    PROVE  /\ HandInv'
           /\ Kept \/ (\E l \in Lanes : Handed(l) \/ Thrown(l)) \/ CutOff
<1> USE DEF laneVars, writerVars
<1>a. /\ Unwritten = Rest(hand, nref, wpc) /\ Unwritten' = Rest(hand', nref', wpc')
      /\ wire \in Seq(Batch) /\ Unwritten \in Seq(Batch)
      /\ hand \in Seq(Batch) /\ nref \in 0..Len(hand) /\ Len(hand) \in Nat
      /\ \A p \in Lanes : ring[p] \in Seq(Batch) /\ booked[p] \in Seq(Batch)
  BY LineTypes
<1>b. <<>> \in Seq(Batch) /\ Len(<<>>) = 0 /\ 0 \in 0..Len(<<>>)
  BY EmptySeq
<1>c. \A w : Rest(<<>>, 0, w) = <<>>
  BY <1>b, Rests
<1>1. CASE PullSome \/ TryPullSome
  <2>1. /\ lane \in Lanes /\ ring[lane] # <<>> /\ wpc \in {"scan", "tpscan"}
        /\ ring' = [ring EXCEPT ![lane] = Tail(@)] /\ UNCHANGED <<booked, wire, nref>>
        /\ \/ Discarded(Head(ring[lane])) /\ UNCHANGED hand
           \/ hand' = Append(hand, Head(ring[lane]))
        /\ wpc' \in {"check", "tpcheck", "write"}
    BY <1>1 DEF PullSome, TryPullSome, TakeHead
  <2>2. nref = 0 /\ Head(ring[lane]) \in Batch
    BY <1>a, <2>1, BatchSeqs DEF HandInv
  <2>3. /\ Append(hand, Head(ring[lane])) \in Seq(Batch) /\ 0 \in 0..Len(hand)
        /\ 0 \in 0..Len(Append(hand, Head(ring[lane])))
    BY <1>a, <2>2, AppendProperties
  <2>4. Unwritten = hand /\ Unwritten' = hand'
    BY ZenonT(60), <1>a, <2>1, <2>2, <2>3, Rests
  <2>5. CASE Discarded(Head(ring[lane])) /\ UNCHANGED hand
    BY <2>1, <2>2, <2>4, <2>5 DEF Thrown, Out, HandInv
  <2>6. CASE hand' = Append(hand, Head(ring[lane]))
    <3>1. wire \o Append(hand, Head(ring[lane])) = Append(wire \o hand, Head(ring[lane]))
      <4> DEFINE b == Head(ring[lane])
      <4>1. Append(hand, b) = hand \o <<b>> /\ <<b>> \in Seq(Batch)
        BY <1>a, <2>2, AppendIsConcat
      <4>2. wire \o hand \in Seq(Batch)
        BY <1>a, ConcatProperties
      <4>3. Append(wire \o hand, b) = (wire \o hand) \o <<b>>
        BY <2>2, <4>2, AppendIsConcat
      <4> HIDE DEF b
      <4> QED
        BY SMTT(30), <1>a, <4>1, <4>3, ConcatAssociative DEF b
    <3> QED
      BY <2>1, <2>2, <2>4, <2>6, <3>1 DEF Handed, Out, HandInv
  <2> QED
    BY <2>1, <2>5, <2>6
<1>2. CASE DrainPull
  <2>1. PICK l \in Lanes : /\ ring[l] # <<>>
                           /\ hand' = Append(hand, Head(ring[l]))
                           /\ ring' = [ring EXCEPT ![l] = Tail(@)]
    BY <1>2 DEF DrainPull
  <2>2. wpc = "drainpull" /\ UNCHANGED <<booked, wire, nref, wpc>> /\ nref = 0
    BY <1>2 DEF DrainPull, HandInv
  <2> DEFINE b == Head(ring[l])
  <2>3. b \in Batch
    BY <1>a, <2>1, BatchSeqs
  <2> HIDE DEF b
  <2>4. /\ Append(hand, b) \in Seq(Batch) /\ 0 \in 0..Len(hand)
        /\ 0 \in 0..Len(Append(hand, b)) /\ Append(hand, b) = hand \o <<b>>
        /\ <<b>> \in Seq(Batch)
    <3>1. Append(hand, b) \in Seq(Batch) /\ Len(Append(hand, b)) = Len(hand) + 1
      BY <1>a, <2>3, AppendProperties
    <3>2. Append(hand, b) = hand \o <<b>> /\ <<b>> \in Seq(Batch)
      BY <1>a, <2>3, AppendIsConcat
    <3> QED
      BY <1>a, <3>1, <3>2
  <2>5. Unwritten = hand /\ Unwritten' = hand'
    <3>1. hand' = Append(hand, b) /\ hand' \in Seq(Batch) /\ nref' \in 0..Len(hand')
      BY <2>1, <2>2, <2>4 DEF b
    <3>2. wpc' = "drainpull" /\ nref' = 0
      BY <2>2
    <3>3. Unwritten' = hand'
      BY <1>a, <3>1, <3>2, Rests
    <3>4. Rest(hand, nref, wpc) = hand
      BY <1>a, <2>2, Rests
    <3> QED
      BY <1>a, <3>3, <3>4
  <2>6. wire \o hand \in Seq(Batch) /\ wire \o (hand \o <<b>>) = (wire \o hand) \o <<b>>
    BY <1>a, <2>4, ConcatProperties, ConcatAssociative
  <2>7. Append(wire \o hand, b) = (wire \o hand) \o <<b>>
    BY <2>3, <2>6, AppendIsConcat
  <2>8. Handed(l)
    BY <2>1, <2>2, <2>4, <2>5, <2>6, <2>7 DEF Handed, Out, b
  <2> QED
    BY <2>2, <2>8 DEF HandInv
<1>3. CASE RefillHand \/ RefillDone
  <2>1. /\ wpc = "refill" /\ UNCHANGED <<wire, ring, booked>>
        /\ \/ wpc' = "refill"
           \/ hand' = <<>> /\ nref' = 0
    BY <1>3 DEF RefillHand, RefillDone
  <2>2. Unwritten = <<>> /\ Unwritten' = <<>>
    BY <1>a, <1>c, <2>1 DEF Rest
  <2> QED
    BY <2>1, <2>2 DEF Kept, Out, HandInv
<1>4. CASE Write
  <2>1. /\ wpc = "write" /\ wpc' = "refill" /\ wire' = wire \o hand
        /\ UNCHANGED <<ring, booked, hand, nref>>
    BY <1>4 DEF Write
  <2>2. Unwritten = hand /\ Unwritten' = <<>>
    <3>1. nref = 0
      BY <2>1 DEF HandInv
    <3> QED
      BY <1>a, <2>1, <3>1, Rests DEF Rest
  <2>3. (wire \o hand) \o <<>> = wire \o hand
    BY <1>a, ConcatProperties, ConcatEmptySeq
  <2> QED
    BY <2>1, <2>2, <2>3 DEF Kept, Out, HandInv
<1>5. CASE DrainWrite
  <2> DEFINE b == hand[nref + 1]
             r == Rest(hand, nref + 1, wpc)
  <2>1. /\ wpc = "drainwrite" /\ nref < Len(hand) /\ nref' = nref + 1
        /\ wire' = Append(wire, b) /\ UNCHANGED <<ring, booked, hand, wpc>>
    BY <1>5 DEF DrainWrite
  <2>2. nref + 1 \in 0..Len(hand)
    BY <1>a, <2>1
  <2>3. b \in Batch /\ Unwritten = <<b>> \o r /\ r \in Seq(Batch) /\ Unwritten' = r
    BY <1>a, <2>1, <2>2, Rests
  <2>4. wire' = wire \o <<b>> /\ <<b>> \in Seq(Batch)
    BY <1>a, <2>1, <2>3, AppendIsConcat
  <2> HIDE DEF b, r
  <2>5. (wire \o <<b>>) \o r = wire \o (<<b>> \o r)
    BY <1>a, <2>3, <2>4, ConcatAssociative
  <2> QED
    BY <2>1, <2>3, <2>4, <2>5 DEF Kept, Out, HandInv
<1>6. CASE WriteFails
  <2>1. PICK k \in 0..Len(hand) : wire' = wire \o SubSeq(hand, 1, k)
    BY <1>6 DEF WriteFails
  <2>2. /\ wpc = "write" /\ hand' = <<>> /\ nref' = 0 /\ linkUp' = FALSE
        /\ UNCHANGED <<ring, booked>>
    BY <1>6 DEF WriteFails
  <2>3. Unwritten = hand /\ Unwritten' = <<>>
    <3>1. nref = 0
      BY <2>2 DEF HandInv
    <3> QED
      BY <1>a, <1>c, <2>2, <3>1, Rests
  <2>4. SubSeq(hand, 1, k) \in Seq(Batch)
    <3>1. \A i \in 1..k : hand[i] \in Batch
      BY <1>a, ElementOfSeq
    <3> QED
      BY <3>1, SubSeqProperties
  <2>5. \A F : Thinned(SubSeq(hand, 1, k), hand, F)
    BY <1>a, Ends
  <2>6. Out' = wire \o SubSeq(hand, 1, k)
    <3>1. wire \o SubSeq(hand, 1, k) \in Seq(Batch)
      BY <1>a, <2>4, ConcatProperties
    <3> QED
      BY <2>1, <2>3, <3>1, ConcatEmptySeq DEF Out
  <2> QED
    BY <2>2, <2>3, <2>4, <2>5, <2>6 DEF CutOff, HandInv
<1>7. CASE DrainWriteFails
  <2> DEFINE b == hand[nref + 1]
             r == Rest(hand, nref + 1, wpc)
  <2>1. /\ wpc = "drainwrite" /\ nref < Len(hand) /\ hand' = <<>> /\ nref' = 0
        /\ wpc' = "closed" /\ linkUp' = FALSE /\ UNCHANGED <<ring, booked>>
        /\ wire' \in {wire, Append(wire, b)}
    BY <1>7 DEF DrainWriteFails, Close
  <2>2. nref + 1 \in 0..Len(hand)
    BY <1>a, <2>1
  <2>3. b \in Batch /\ Unwritten = <<b>> \o r /\ r \in Seq(Batch) /\ Unwritten' = <<>>
    BY <1>a, <1>c, <2>1, <2>2, Rests
  <2> HIDE DEF b, r
  <2>4. /\ <<b>> \in Seq(Batch) /\ Append(wire, b) = wire \o <<b>>
        /\ wire \o <<b>> \in Seq(Batch) /\ <<b>> \o <<>> = <<b>> /\ wire \o <<>> = wire
        /\ (wire \o <<b>>) \o <<>> = wire \o <<b>>
    <3>1. <<b>> \in Seq(Batch) /\ Append(wire, b) = wire \o <<b>>
      BY <1>a, <2>3, AppendIsConcat
    <3>2. wire \o <<b>> \in Seq(Batch)
      BY <1>a, <3>1, ConcatProperties
    <3> QED
      BY <1>a, <3>1, <3>2, ConcatEmptySeq
  <2>5. \A F : Thinned(<<b>>, Unwritten, F)
    <3> TAKE F
    <3>1. Thinned(<<b>>, <<b>>, F) /\ Thinned(<<>>, r, F)
      BY SameSelf, SameIsThinned, EmptyThinned
    <3>2. Thinned(<<b>> \o <<>>, <<b>> \o r, F)
      BY <1>b, <2>3, <2>4, <3>1, Join
    <3> QED
      BY <2>3, <2>4, <3>2
  <2>6. \/ Out' = wire \o <<>>
        \/ Out' = wire \o <<b>>
    BY <2>1, <2>3, <2>4 DEF Out
  <2>7. \E q \in Seq(Batch) : Out' = wire \o q /\ \A F : Thinned(q, Unwritten, F)
    BY <1>b, <2>4, <2>5, <2>6, EmptyThinned
  <2> QED
    BY <2>1, <2>7 DEF CutOff, HandInv
<1>8. CASE DrainDone
  <2>1. /\ wpc = "drainwrite" /\ nref = Len(hand) /\ hand' = <<>> /\ nref' = 0
        /\ wpc' = "closed" /\ UNCHANGED <<ring, booked, wire>>
    BY <1>8 DEF DrainDone, Close
  <2>2. Unwritten = <<>> /\ Unwritten' = <<>>
    BY ZenonT(60), <1>a, <1>c, <2>1, Rests
  <2> QED
    BY <2>1, <2>2 DEF Kept, Out, HandInv
<1>9. CASE TryFlush \/ DrainFlush \/ StopFlush
  <2>1. /\ UNCHANGED <<wire, hand, nref>>
        /\ wpc' \in {"check", "drainpull", wpc} /\ (wpc' = wpc \/ wpc \in {"tryflush", "drainflush"})
        /\ \/ \E ps \in SUBSET Lanes : FlushLanes(ps)
           \/ UNCHANGED <<ring, booked>>
    <3>1. CASE TryFlush
      <4>1. FlushLanes({lane}) => \E ps \in SUBSET Lanes : FlushLanes(ps)
        <5>1. FlushLanes({lane}) => FlushLanes({lane} \cap Lanes)
          BY DEF FlushLanes
        <5> QED
          BY <5>1
      <4> QED
        BY <3>1, <4>1 DEF TryFlush
    <3>2. CASE DrainFlush \/ StopFlush
      <4>1. FlushLanes(Lanes) /\ Lanes \in SUBSET Lanes
        BY <3>2 DEF DrainFlush, StopFlush
      <4>2. /\ UNCHANGED <<wire, hand, nref>>
            /\ wpc' \in {"drainpull", wpc} /\ (wpc' = wpc \/ wpc = "drainflush")
        BY <3>2 DEF DrainFlush, StopFlush
      <4> QED
        BY <4>1, <4>2
    <3> QED
      BY <1>9, <3>1, <3>2
  <2>2. Unwritten' = Unwritten
    BY <1>a, <2>1 DEF Rest
  <2>3. \A p \in Lanes : ring'[p] \o booked'[p] = ring[p] \o booked[p]
    <3>1. \A p \in Lanes : (ring[p] \o booked[p]) \o <<>> = ring[p] \o booked[p]
      BY <1>a, ConcatProperties, ConcatEmptySeq
    <3> QED
      BY <2>1, <3>1 DEF FlushLanes
  <2> QED
    BY <2>1, <2>2, <2>3 DEF Kept, Out, HandInv
<1>10. CASE \/ FireRefill \/ CloseLane \/ PullCheck \/ PullBooked \/ SetBackoff \/ PullNone
            \/ Yield \/ SetFlush \/ ResetBackoff
            \/ Unpark \/ TryPullCheck \/ TryPullNone \/ DrainLock \/ DrainUnlock
            \/ KeepAlive \/ KeepAliveWritten \/ SeeToken
            \/ StopDisable \/ StopLock \/ StopCancel \/ TaskStop
            \/ UNCHANGED vars
  <2>1. /\ UNCHANGED <<wire, hand, nref, ring, booked>>
        /\ wpc' = wpc \/ (wpc \notin {"refill", "drainwrite"} /\ wpc' # "refill")
    BY <1>10 DEF FireRefill, CloseLane, PullCheck, PullBooked, SetBackoff, PullNone, Yield,
                 SetFlush, ResetBackoff, Unpark, TryPullCheck, TryPullNone, DrainLock,
                 DrainUnlock, KeepAlive, KeepAliveWritten, SeeToken, StopDisable, StopLock,
                 StopCancel, TaskStop, vars
  <2>2. Unwritten' = Unwritten
    BY <1>a, <2>1 DEF Rest
  <2> QED
    BY <2>1, <2>2 DEF Kept, Out, HandInv
<1> QED
  BY <1>1, <1>2, <1>3, <1>4, <1>5, <1>6, <1>7, <1>8, <1>9, <1>10
     DEF WriterStep, PullStep, WriteStep, DrainStep, StopStep

LEMMA Associates ==
    \A q, r, t \in Seq(Batch) : (q \o r) \o t = q \o (r \o t)
BY ConcatAssociative

\* The first of one part becomes the last of the part before it.
LEMMA Moves ==
    ASSUME NEW q \in Seq(Batch), NEW r \in Seq(Batch), NEW t \in Seq(Batch), NEW b \in Batch
    PROVE  Append(q, b) \o (r \o t) = q \o ((<<b>> \o r) \o t)
<1>1. Append(q, b) = q \o <<b>> /\ <<b>> \in Seq(Batch) /\ r \o t \in Seq(Batch)
  BY AppendIsConcat, ConcatProperties
<1>2. (q \o <<b>>) \o (r \o t) = q \o (<<b>> \o (r \o t))
  BY <1>1, Associates
<1>3. (<<b>> \o r) \o t = <<b>> \o (r \o t)
  BY <1>1, Associates
<1> QED
  BY <1>1, <1>2, <1>3

\* Such a step keeps the order of what a lane carries; it drops none of it while
\* the link is up, except for the batches that the writer task discards.
LEMMA OtherThinned ==
    ASSUME TypeOK, PrioInv, NEW p \in Lanes, NEW F, \A b \in F : b.prio = p,
           Kept \/ (\E l \in Lanes : Handed(l) \/ Thrown(l)) \/ CutOff
    PROVE  /\ Thinned(Line(p)', Line(p), F)
           /\ linkUp' /\ (\A b \in F : ~Discarded(b)) => Same(Line(p)', Line(p), F)
<1> DEFINE t == ring[p] \o booked[p]
<1>a. /\ wire \in Seq(Batch) /\ Unwritten \in Seq(Batch) /\ Out \in Seq(Batch)
      /\ Line(p) = Out \o t /\ Line(p)' = Out' \o (ring'[p] \o booked'[p])
      /\ ring[p] \in Seq(Batch) /\ booked[p] \in Seq(Batch) /\ t \in Seq(Batch)
  BY LineTypes DEF Line
<1>b. \A q : Same(q, q, F) /\ Thinned(q, q, F)
  BY SameSelf, SameIsThinned
<1> HIDE DEF t
<1>1. CASE Kept
  <2>1. Line(p)' = Line(p)
    BY <1>a, <1>1 DEF Kept, t
  <2> QED
    BY <1>b, <2>1
<1>2. ASSUME NEW l \in Lanes, Handed(l) \/ Thrown(l), p # l
      PROVE  Same(Line(p)', Line(p), F)
  <2>1. Line(p)' = Out' \o t
    BY <1>a, <1>2 DEF Handed, Thrown, TypeOK, LaneTypeOK, t
  <2>2. CASE Thrown(l)
    BY <1>a, <1>b, <2>1, <2>2 DEF Thrown
  <2>3. CASE Handed(l)
    <3> DEFINE b == Head(ring[l])
    <3>1. b \in Batch /\ b.prio = l
      <4>1. ring[l] \in Seq(Batch) /\ ring[l] # <<>> /\ AllPrio(ring[l], l)
        BY <2>3 DEF Handed, TypeOK, LaneTypeOK, PrioInv
      <4> QED
        BY <4>1, BatchSeqs, PrioSeqs
    <3>2. Out' = Append(Out, b) /\ b \notin F
      BY <1>2, <2>3, <3>1 DEF Handed
    <3> HIDE DEF b
    <3>3. Same(Append(Out, b), Out, F) /\ Append(Out, b) \in Seq(Batch)
      BY <1>a, <3>1, <3>2, Ends, BatchSeqs
    <3> QED
      BY <1>a, <1>b, <2>1, <3>2, <3>3, Join
  <2> QED
    BY <1>2, <2>2, <2>3
<1>3. CASE Handed(p)
  <2> DEFINE b == Head(ring[p])
             r == Tail(ring[p])
  <2>1. /\ Out' = Append(Out, b) /\ Line(p)' = Append(Out, b) \o (r \o booked[p])
        /\ ring[p] # <<>>
    BY <1>a, <1>3 DEF Handed, TypeOK, LaneTypeOK
  <2>2. b \in Batch /\ <<b>> \in Seq(Batch) /\ r \in Seq(Batch) /\ ring[p] = <<b>> \o r
    <3>1. b \in Batch /\ r \in Seq(Batch)
      BY <1>a, <2>1, BatchSeqs
    <3>2. ring[p] = <<b>> \o r
      <4>1. Tail(ring[p]) = SubSeq(ring[p], 2, Len(ring[p])) /\ b = ring[p][1]
        BY <1>a, <2>1, TailIsSubSeq, BatchSeqs
      <4>2. Len(ring[p]) \in 1..Len(ring[p]) /\ 1 \in 1..Len(ring[p])
        BY <1>a, <2>1, BatchSeqs
      <4>3. SubSeq(ring[p], 1, Len(ring[p])) = <<ring[p][1]>> \o SubSeq(ring[p], 1 + 1, Len(ring[p]))
        BY <1>a, <4>2, SubSeqRecursiveFirst
      <4>4. SubSeq(ring[p], 1, Len(ring[p])) = ring[p]
        BY <1>a, SubSeqFull
      <4> QED
        BY <4>1, <4>3, <4>4
    <3> QED
      BY <3>1, <3>2
  <2> HIDE DEF b, r
  <2>3. booked[p] \in Seq(Batch)
    BY <1>a, BatchSeqs
  <2>4. Append(Out, b) \o (r \o booked[p]) = Out \o ((<<b>> \o r) \o booked[p])
    <3>1. Out \in Seq(Batch) /\ b \in Batch /\ r \in Seq(Batch)
      BY <1>a, <2>2
    <3>2. \A x, y, z \in Seq(Batch), e \in Batch :
              Append(x, e) \o (y \o z) = x \o ((<<e>> \o y) \o z)
      BY Moves
    <3> QED
      BY <3>1, <3>2, <2>3, Zenon
  <2>6. Line(p)' = Line(p)
    BY <1>a, <2>1, <2>2, <2>4 DEF t
  <2> QED
    BY <1>b, <2>6
<1>4. CASE Thrown(p)
  <2> DEFINE b == Head(ring[p])
             r == Tail(ring[p])
  <2>1. /\ Line(p)' = Out \o (r \o booked[p]) /\ ring[p] # <<>> /\ Discarded(b)
    BY <1>a, <1>4 DEF Thrown, TypeOK, LaneTypeOK
  <2>2. r \in Seq(Batch) /\ r \o booked[p] \in Seq(Batch)
    BY <1>a, <2>1, BatchSeqs
  <2>3. Thinned(r, ring[p], F) /\ ((\A c \in F : ~Discarded(c)) => Same(r, ring[p], F))
    <3>1. Thinned(r, ring[p], F) /\ (b \notin F => Same(r, ring[p], F))
      BY <1>a, <2>1, Ends
    <3> QED
      BY <2>1, <3>1
  <2> HIDE DEF b, r
  <2>4. Thinned(r \o booked[p], t, F)
        /\ ((\A c \in F : ~Discarded(c)) => Same(r \o booked[p], t, F))
    BY <1>a, <1>b, <2>2, <2>3, Join DEF t
  <2> QED
    BY ZenonT(60), <1>a, <1>b, <2>1, <2>2, <2>4, Join
<1>5. CASE CutOff
  <2>1. PICK q \in Seq(Batch) : Out' = wire \o q /\ Thinned(q, Unwritten, F)
    BY <1>5 DEF CutOff
  <2>2. Line(p)' = (wire \o q) \o t /\ ~linkUp' /\ wire \o q \in Seq(Batch)
    BY <1>5, <1>a, <2>1, BatchSeqs DEF CutOff, t
  <2>3. Thinned(wire \o q, Out, F)
    BY <1>a, <1>b, <2>1, Join DEF Out
  <2>4. Thinned((wire \o q) \o t, Out \o t, F)
    BY <1>a, <1>b, <2>2, <2>3, Join
  <2> QED
    BY <1>a, <2>2, <2>4
<1> QED
  BY <1>1, <1>2, <1>3, <1>4, <1>5, SameIsThinned

----------------------------------------------------------------------------
(* Empty batches *)

\* A batch in the line is empty only while a sender that has just booked it is
\* about to write into it; a booked batch is a frame until then.
AllFilled(q) == \A i \in 1..Len(q) : q[i].msgs # <<>>
FreshOf(p, b) == \E s \in Senders : pc[s] = "write" /\ LaneOf(s) = p /\ b = FreshBatch(msg[s])
FilledInv ==
    /\ AllFilled(Out)
    /\ \A p \in Lanes :
        /\ AllFilled(ring[p])
        /\ booked[p] # <<>> =>
            /\ Head(booked[p]).kind = "frame"
            /\ Head(booked[p]).msgs # <<>> \/ FreshOf(p, Head(booked[p]))

LineInv == IInv /\ HandInv /\ FilledInv

LEMMA FilledSeqs ==
    ASSUME NEW q \in Seq(Batch)
    PROVE  /\ AllFilled(<<>>)
           /\ \A b \in Batch : AllFilled(q) /\ b.msgs # <<>> => AllFilled(Append(q, b))
           /\ q # <<>> /\ AllFilled(q) => AllFilled(Tail(q)) /\ Head(q).msgs # <<>>
           /\ \A r \in Seq(Batch) : AllFilled(q \o r) <=> AllFilled(q) /\ AllFilled(r)
           /\ \A r : AllFilled(q) /\ Thinned(r, q, Batch) /\ r \in Seq(Batch) => AllFilled(r)
           /\ q # <<>> /\ Len(q) <= 1 => AllFilled(q) <=> Head(q).msgs # <<>>
<1>a. Len(q) \in Nat
  BY LenProperties
<1>1. AllFilled(<<>>)
  BY EmptySeq DEF AllFilled
<1>2. ASSUME NEW b \in Batch, AllFilled(q), b.msgs # <<>> PROVE AllFilled(Append(q, b))
  <2>1. /\ Len(Append(q, b)) = Len(q) + 1 /\ Append(q, b)[Len(q) + 1] = b
        /\ \A i \in 1..Len(q) : Append(q, b)[i] = q[i]
    BY AppendProperties
  <2>2. \A i \in 1..(Len(q) + 1) : i \in 1..Len(q) \/ i = Len(q) + 1
    BY <1>a
  <2> QED
    BY <1>2, <2>1, <2>2 DEF AllFilled
<1>3. ASSUME q # <<>>, AllFilled(q) PROVE AllFilled(Tail(q)) /\ Head(q).msgs # <<>>
  <2>1. /\ Len(q) \in Nat \ {0} /\ Head(q) = q[1] /\ Len(Tail(q)) = Len(q) - 1
        /\ \A i \in 1..Len(Tail(q)) : Tail(q)[i] = q[i + 1]
    BY <1>3, EmptySeq, LenProperties, HeadTailProperties
  <2>2. 1 \in 1..Len(q) /\ \A i \in 1..(Len(q) - 1) : i + 1 \in 1..Len(q)
    BY <2>1
  <2> QED
    BY <1>3, <2>1, <2>2 DEF AllFilled
<1>4. ASSUME NEW r \in Seq(Batch)
      PROVE  AllFilled(q \o r) <=> AllFilled(q) /\ AllFilled(r)
  <2>1. Len(r) \in Nat /\ Len(q \o r) = Len(q) + Len(r)
    BY LenProperties, ConcatProperties
  <2>2. \A i \in 1..Len(q \o r) :
            (q \o r)[i] = IF i <= Len(q) THEN q[i] ELSE r[i - Len(q)]
    BY ConcatProperties
  <2>3. \A i \in 1..Len(q) : i \in 1..Len(q \o r) /\ (q \o r)[i] = q[i]
    BY <1>a, <2>1, <2>2
  <2>4. \A i \in 1..Len(r) : Len(q) + i \in 1..Len(q \o r) /\ (q \o r)[Len(q) + i] = r[i]
    <3> TAKE i \in 1..Len(r)
    <3>1. Len(q) + i \in 1..Len(q \o r) /\ ~(Len(q) + i <= Len(q)) /\ (Len(q) + i) - Len(q) = i
      BY <1>a, <2>1
    <3> QED
      BY <2>2, <3>1
  <2>5. \A i \in 1..Len(q \o r) : i \in 1..Len(q) \/ i - Len(q) \in 1..Len(r)
    BY <1>a, <2>1
  <2>6. ASSUME AllFilled(q), AllFilled(r), NEW i \in 1..Len(q \o r)
        PROVE  (q \o r)[i].msgs # <<>>
    <3>1. CASE i \in 1..Len(q)
      BY <2>3, <2>6, <3>1 DEF AllFilled
    <3>2. CASE i - Len(q) \in 1..Len(r)
      <4>1. Len(q) + (i - Len(q)) = i
        BY <1>a
      <4>2. (q \o r)[i] = r[i - Len(q)]
        BY <2>4, <3>2, <4>1
      <4> QED
        BY <2>6, <3>2, <4>2 DEF AllFilled
    <3> QED
      BY <2>5, <3>1, <3>2
  <2>7. AllFilled(q \o r) => AllFilled(q)
    BY <2>3 DEF AllFilled
  <2>8. AllFilled(q \o r) => AllFilled(r)
    BY <2>4 DEF AllFilled
  <2> QED
    BY <2>6, <2>7, <2>8 DEF AllFilled
<1>5. ASSUME NEW r, AllFilled(q), Thinned(r, q, Batch), r \in Seq(Batch) PROVE AllFilled(r)
  <2>1. PICK f : Maps(f, r, q, Batch)
    BY <1>5 DEF Thinned
  <2>2. \A i \in 1..Len(r) : i \in Of(r, Batch)
    BY <1>5, ElementOfSeq DEF Of
  <2>3. \A i \in 1..Len(r) : f[i] \in 1..Len(q) /\ q[f[i]] = r[i]
    BY <2>1, <2>2 DEF Maps, Of
  <2> QED
    BY <1>5, <2>3 DEF AllFilled
<1>6. ASSUME q # <<>>, Len(q) <= 1 PROVE AllFilled(q) <=> Head(q).msgs # <<>>
  <2>1. Len(q) = 1
    <3>1. Len(q) # 0
      BY <1>6, BatchSeqs
    <3>2. \A n \in Nat : n <= 1 /\ n # 0 => n = 1
      OBVIOUS
    <3> QED
      BY <1>a, <1>6, <3>1, <3>2, ZenonT(30)
  <2>2. Head(q) = q[1]
    OBVIOUS
  <2> QED
    BY <2>1, <2>2 DEF AllFilled
<1> QED
  BY <1>1, <1>2, <1>3, <1>4, <1>5, <1>6

\* The writer task and a stop leave the senders alone, and move a booked batch
\* only when no sender holds its lane.
LEMMA OtherLocks ==
    ASSUME TypeOK, LockInv,
           \/ WriterStep \/ KeepAlive \/ KeepAliveWritten \/ SeeToken
           \/ StopDisable \/ StopStep \/ TaskStop \/ UNCHANGED vars
    PROVE  /\ UNCHANGED <<pc, msg, pieces, res, flagged, seqnum>>
           /\ \A p \in Lanes : booked'[p] # booked[p] => lock[p] \notin Senders
<1> USE DEF laneVars, senderVars
<1>1. UNCHANGED <<pc, msg, pieces, res, flagged, seqnum>>
  BY DEF WriterStep, PullStep, WriteStep, DrainStep, FireRefill, PullCheck, PullSome,
         PullBooked, SetBackoff, PullNone, Yield, SetFlush, TryFlush, ResetBackoff, Unpark,
         TryPullCheck, TryPullSome, TryPullNone, TakeHead, Write, WriteFails, RefillHand,
         RefillDone, DrainLock, DrainFlush, DrainPull, DrainUnlock, DrainWrite,
         DrainWriteFails, DrainDone, Close, CloseLane, KeepAlive, KeepAliveWritten, SeeToken,
         StopDisable, StopStep, TaskStop, StopLock, StopFlush, StopCancel, vars
<1>2. CASE TryFlush \/ DrainFlush \/ StopFlush
  <2>1. "none" \notin Senders /\ "writer" \notin Senders /\ "stop" \notin Senders
    BY ActorAssumption
  <2>2. CASE TryFlush
    <3>1. lock[lane] = "none" \/ UNCHANGED booked
      BY <2>2 DEF TryFlush
    <3>2. \A p \in Lanes : p # lane => booked'[p] = booked[p]
      BY <2>2 DEF TryFlush, FlushLanes
    <3> QED
      BY <1>1, <2>1, <3>1, <3>2
  <2>3. CASE DrainFlush
    BY <1>1, <2>1, <2>3 DEF DrainFlush, LockInv, WriterInv
  <2>4. CASE StopFlush
    BY <1>1, <2>1, <2>4 DEF StopFlush, LockInv, StopInv
  <2> QED
    BY <1>2, <2>2, <2>3, <2>4
<1>3. TryFlush \/ DrainFlush \/ StopFlush \/ UNCHANGED booked
  BY DEF WriterStep, PullStep, WriteStep, DrainStep, FireRefill, PullCheck, PullSome,
         PullBooked, SetBackoff, PullNone, Yield, SetFlush, ResetBackoff, Unpark,
         TryPullCheck, TryPullSome, TryPullNone, TakeHead, Write, WriteFails, RefillHand,
         RefillDone, DrainLock, DrainPull, DrainUnlock, DrainWrite,
         DrainWriteFails, DrainDone, Close, CloseLane, KeepAlive, KeepAliveWritten, SeeToken,
         StopDisable, StopStep, TaskStop, StopLock, StopCancel, vars
<1> QED
  BY <1>1, <1>2, <1>3

----------------------------------------------------------------------------
(* The end of a line *)

Writes(s) == WriteAppend(s) \/ WriteFull(s) \/ WriteFrame(s) \/ WriteFragment(s)

\* The booked batch of a writing sender, and what becomes of it: it stays as it
\* is or takes one more message, or it starts with the sender's message.
Last(s) == Head(booked[LaneOf(s)])
Extended(s, c) ==
    /\ Last(s).msgs # <<>> /\ c.cc = Last(s).cc /\ c.sn = Last(s).sn /\ c.kind = Last(s).kind
    /\ UNCHANGED seqnum
    /\ \/ c.msgs = Last(s).msgs /\ UNCHANGED pieces /\ pc'[s] = "moved"
       \/ /\ c.msgs = Append(Last(s).msgs, msg[s])
          /\ CcOf[msg[s]] = Last(s).cc /\ FragsOf[msg[s]] = 1
          /\ pieces' = [pieces EXCEPT ![s] = 1]
Started(s, c) ==
    /\ Last(s) = FreshBatch(msg[s]) /\ c.cc = CcOf[msg[s]] /\ c.msgs = <<msg[s]>>
    /\ UseSn(s) /\ c.sn = NextSn(s)
    /\ \/ FragsOf[msg[s]] = 1 /\ c.kind = "frame" /\ pieces' = [pieces EXCEPT ![s] = 1]
       \/ /\ FragsOf[msg[s]] > 1 /\ c.kind = FragKind(s)
          /\ pieces' = [pieces EXCEPT ![s] = @ + 1] /\ pc'[s] = "moved"
Wrote(s, c) ==
    /\ pc[s] = "write" /\ c.prio = LaneOf(s) /\ c.msgs # <<>>
    /\ \/ Commit(LaneOf(s), c)
       \/ /\ booked' = [booked EXCEPT ![LaneOf(s)] = <<c>>] /\ UNCHANGED ring
          /\ c.kind = "frame"
    /\ pc' = [pc EXCEPT ![s] = "moved"] \/ pc' = [pc EXCEPT ![s] = "unlock"]
    /\ Extended(s, c) \/ Started(s, c)

LEMMA Writing ==
    ASSUME LineInv, NEW s \in Senders, Writes(s)
    PROVE  /\ LaneOf(s) \in Lanes /\ msg[s] \in Msgs
           /\ Last(s) \in Batch /\ Last(s).prio = LaneOf(s) /\ booked[LaneOf(s)] = <<Last(s)>>
           /\ \E c \in Batch : Wrote(s, c)
           /\ UNCHANGED <<writerVars, congested, flagged, msg, res, stopVars>>
<1> USE DEF LineInv, IInv, TypeOK
<1> DEFINE p == LaneOf(s)
           b == Last(s)
<1>1. pc[s] = "write" /\ UNCHANGED <<writerVars, congested, flagged, msg, res, stopVars>>
  BY DEF Writes, WriteAppend, WriteFull, WriteFrame, WriteFragment, KeepOrCommit, statusVars
<1>2. p \in Lanes /\ msg[s] \in Msgs /\ booked[p] # <<>> /\ CcOf[msg[s]] \in Ccs
      /\ FragsOf[msg[s]] \in Nat \ {0} /\ pieces \in [Senders -> Nat]
  BY <1>1, LaneOfType, MessageAssumption DEF LockInv, SenderInv, SenderTypeOK
<1>3. b \in Batch /\ b.prio = p /\ booked[p] = <<b>> /\ b.kind = "frame"
  <2>1. booked[p] \in Seq(Batch) /\ Len(booked[p]) <= 1 /\ AllPrio(booked[p], p)
    BY <1>2 DEF LaneTypeOK, PrioInv
  <2>2. b \in Batch /\ b.prio = p /\ b = booked[p][1] /\ Len(booked[p]) # 0
    BY <1>2, <2>1, BatchSeqs, PrioSeqs DEF Last
  <2>3. Len(booked[p]) = 1
    <3>1. \A n \in Nat : n <= 1 /\ n # 0 => n = 1
      OBVIOUS
    <3>2. Len(booked[p]) \in Nat
      BY <2>1, BatchSeqs
    <3> QED
      BY <2>1, <2>2, <3>1, <3>2, ZenonT(30)
  <2>4. <<b>> \in Seq(Batch) /\ Len(<<b>>) = 1 /\ <<b>>[1] = b
    BY <2>2
  <2>5. booked[p] = <<b>>
    BY <2>1, <2>2, <2>3, <2>4, SeqEqual
  <2>6. b.kind = "frame"
    BY <1>2 DEF FilledInv, Last
  <2> QED
    BY <2>2, <2>5, <2>6
<1>4. b.msgs = <<>> => b = FreshBatch(msg[s])
  <2>1. b.msgs = <<>> => FreshOf(p, b)
    BY <1>2 DEF FilledInv, Last
  <2>2. lock[p] = s /\ \A t \in Senders : pc[t] = "write" /\ LaneOf(t) = p => lock[p] = t
    BY <1>1 DEF LockInv, SenderInv, Holding
  <2> QED
    BY <2>1, <2>2 DEF FreshOf
<1>5. NextSn(s) \in Nat /\ FragKind(s) \in Kinds
  BY <1>2 DEF NextSn, FragKind, Kinds, LaneTypeOK
<1> HIDE DEF b
<1>6. b.msgs \in Seq(Msgs) /\ <<msg[s]>> \in Seq(Msgs) /\ <<msg[s]>> # <<>>
  BY <1>2, <1>3 DEF Batch
<1>7. CASE WriteAppend(s)
  <2> DEFINE ms == Append(b.msgs, msg[s])
             c == [b EXCEPT !.msgs = ms]
  <2>1. KeepOrCommit(s, c) /\ UNCHANGED seqnum /\ b.msgs # <<>> /\ b.cc = CcOf[msg[s]]
        /\ FragsOf[msg[s]] = 1
    BY <1>7 DEF WriteAppend, Fits, b, Last
  <2>2. ms \in Seq(Msgs) /\ ms # <<>>
    BY <1>2, <1>6, AppendProperties
  <2> HIDE DEF ms
  <2>3. c \in Batch /\ c.prio = b.prio /\ c.cc = b.cc /\ c.sn = b.sn /\ c.kind = b.kind /\ c.msgs = ms
    BY <1>3, <2>2 DEF Batch
  <2> HIDE DEF c
  <2>4. Extended(s, c)
    BY <2>1, <2>3 DEF Extended, KeepOrCommit, b, ms
  <2>5. Wrote(s, c)
    BY <1>1, <1>3, <2>1, <2>2, <2>3, <2>4 DEF Wrote, KeepOrCommit
  <2> QED
    BY <1>1, <1>2, <1>3, <2>3, <2>5 DEF b
<1>8. CASE WriteFull(s)
  <2>1. /\ b.msgs # <<>> /\ Commit(p, b) /\ UNCHANGED <<seqnum, pieces>>
        /\ pc' = [pc EXCEPT ![s] = "moved"]
    BY <1>8 DEF WriteFull, b, Last
  <2>2. pc'[s] = "moved"
    BY <2>1 DEF SenderTypeOK
  <2>3. Extended(s, b)
    BY <2>1, <2>2 DEF Extended, b
  <2>4. Wrote(s, b)
    BY <1>1, <1>3, <2>1, <2>3 DEF Wrote
  <2> QED
    BY <1>1, <1>2, <1>3, <2>4 DEF b
<1>9. CASE WriteFrame(s)
  <2> DEFINE ms == <<msg[s]>>
             c == [b EXCEPT !.sn = NextSn(s), !.msgs = ms]
  <2>1. KeepOrCommit(s, c) /\ UseSn(s) /\ b.msgs = <<>> /\ FragsOf[msg[s]] = 1
    BY <1>9 DEF WriteFrame, b, Last
  <2> HIDE DEF ms
  <2>2. /\ c \in Batch /\ c.prio = b.prio /\ c.cc = b.cc /\ c.sn = NextSn(s) /\ c.kind = b.kind
        /\ c.msgs = ms
    BY <1>3, <1>5, <1>6 DEF Batch, ms
  <2> HIDE DEF c
  <2>3. Started(s, c)
    BY <1>3, <1>4, <2>1, <2>2 DEF Started, KeepOrCommit, b, ms, FreshBatch
  <2>4. Wrote(s, c)
    BY <1>1, <1>3, <1>6, <2>1, <2>2, <2>3 DEF Wrote, KeepOrCommit, ms
  <2> QED
    BY <1>1, <1>2, <1>3, <2>2, <2>4 DEF b
<1>10. CASE WriteFragment(s)
  <2> DEFINE ms == <<msg[s]>>
             n == FragKind(s)
             c == [b EXCEPT !.sn = NextSn(s), !.kind = n, !.msgs = ms]
  <2>1. /\ Commit(p, c) /\ UseSn(s) /\ b.msgs = <<>> /\ FragsOf[msg[s]] > 1
        /\ pieces' = [pieces EXCEPT ![s] = @ + 1] /\ pc' = [pc EXCEPT ![s] = "moved"]
    BY <1>10 DEF WriteFragment, b, Last
  <2> HIDE DEF ms, n
  <2>2. /\ c \in Batch /\ c.prio = b.prio /\ c.cc = b.cc /\ c.sn = NextSn(s) /\ c.kind = n
        /\ c.msgs = ms
    BY <1>3, <1>5, <1>6 DEF Batch, ms, n
  <2> HIDE DEF c
  <2>3. pc'[s] = "moved"
    BY <2>1 DEF SenderTypeOK
  <2>4. Started(s, c)
    BY <1>3, <1>4, <2>1, <2>2, <2>3 DEF Started, b, ms, n, FreshBatch
  <2>5. Wrote(s, c)
    BY <1>1, <1>3, <1>6, <2>1, <2>2, <2>4 DEF Wrote, ms
  <2> QED
    BY <1>1, <1>2, <1>3, <2>2, <2>5 DEF b
<1> QED
  BY <1>7, <1>8, <1>9, <1>10 DEF Writes

\* The other steps of a sender leave the lines alone, or book a fresh batch.
LEMMA QuietSteps ==
    ASSUME TypeOK, NEW s \in Senders,
           SenderStep(s) \/ Cancel(s) \/ (\E m \in Msgs : Send(s, m)), ~Writes(s)
    PROVE  /\ UNCHANGED <<ring, seqnum, writerVars>> /\ pc[s] # "write"
           /\ AcquireFresh(s) \/ UNCHANGED booked
<1>1. \/ Lock(s) \/ LockTimeout(s) \/ AcquireBooked(s) \/ AcquireFresh(s) \/ AcquireNone(s)
      \/ WaitRefilled(s) \/ WaitFails(s) \/ SetCongested(s) \/ MovedNotify(s) \/ Unlock(s)
      \/ LateNotify(s) \/ Cancel(s) \/ (\E m \in Msgs : Send(s, m))
  BY DEF SenderStep, Writes
<1> QED
  BY <1>1 DEF Lock, LockTimeout, AcquireBooked, AcquireFresh, AcquireNone, WaitRefilled,
              WaitFails, SetCongested, MovedNotify, Unlock, LateNotify, Cancel, Send, laneVars

LEMMA OutStays == ASSUME UNCHANGED writerVars PROVE Out' = Out /\ (HandInv => HandInv')
BY DEF Out, Unwritten, HandInv, writerVars

LEMMA FilledBySenders ==
    ASSUME LineInv, NEW s \in Senders,
           SenderStep(s) \/ Cancel(s) \/ (\E m \in Msgs : Send(s, m))
    PROVE  HandInv' /\ FilledInv'
<1> USE DEF LineInv, IInv, TypeOK, LaneTypeOK
<1> DEFINE p == LaneOf(s)
<1>a. \A t \in Senders : t # s => SameSender(t)
  BY SenderRefills
<1>b. UNCHANGED writerVars
  BY QuietSteps, Writing
<1>c. HandInv' /\ Out' = Out /\ AllFilled(Out)
  BY <1>b, OutStays DEF FilledInv
\* A batch that another sender has just booked, in a lane where nothing moves.
<1>d. ASSUME NEW q \in Lanes, booked[q] # <<>>, UNCHANGED booked, pc[s] # "write"
      PROVE  /\ Head(booked'[q]).kind = "frame"
             /\ Head(booked'[q]).msgs # <<>> \/ FreshOf(q, Head(booked[q]))'
  <2>1. CASE FreshOf(q, Head(booked[q]))
    <3>1. PICK t \in Senders : pc[t] = "write" /\ LaneOf(t) = q /\ Head(booked[q]) = FreshBatch(msg[t])
      BY <2>1 DEF FreshOf
    <3>2. SameSender(t) /\ t # s
      BY <1>a, <1>d, <3>1
    <3> QED
      BY <1>d, <3>1, <3>2 DEF FreshOf, SameSender, LaneOf, FilledInv
  <2> QED
    BY <1>d, <2>1 DEF FilledInv
<1>1. CASE Writes(s)
  <2>1. /\ p \in Lanes /\ booked[p] = <<Last(s)>> /\ pc[s] = "write"
    BY <1>1, Writing DEF Wrote
  <2>2. PICK c \in Batch : Wrote(s, c)
    BY <1>1, Writing
  <2>3. ASSUME NEW q \in Lanes, q # p
        PROVE  /\ ring'[q] = ring[q] /\ booked'[q] = booked[q]
               /\ FreshOf(q, Head(booked[q])) => FreshOf(q, Head(booked[q]))'
    <3>1. ring'[q] = ring[q] /\ booked'[q] = booked[q]
      BY <2>1, <2>2, <2>3 DEF Wrote, Commit
    <3>2. ASSUME NEW t \in Senders, pc[t] = "write", LaneOf(t) = q,
                 Head(booked[q]) = FreshBatch(msg[t])
          PROVE  FreshOf(q, Head(booked[q]))'
      <4>1. SameSender(t)
        BY <1>a, <2>3, <3>2
      <4> QED
        BY <3>1, <3>2, <4>1 DEF FreshOf, SameSender, LaneOf
    <3> QED
      BY <3>1, <3>2 DEF FreshOf
  <2>4. c.msgs # <<>> /\ AllFilled(Append(ring[p], c)) /\ AllFilled(ring[p])
    <3>1. ring[p] \in Seq(Batch) /\ AllFilled(ring[p]) /\ c.msgs # <<>>
      BY <2>1, <2>2 DEF Wrote, FilledInv
    <3> QED
      BY <3>1, FilledSeqs
  <2>5. /\ AllFilled(ring'[p])
        /\ booked'[p] # <<>> => Head(booked'[p]).kind = "frame" /\ Head(booked'[p]).msgs # <<>>
    <3>1. CASE Commit(p, c)
      BY <2>1, <2>4, <3>1 DEF Commit
    <3>2. CASE booked' = [booked EXCEPT ![p] = <<c>>] /\ UNCHANGED ring /\ c.kind = "frame"
      <4>1. booked'[p] = <<c>> /\ Head(<<c>>) = c
        BY <2>1, <3>2
      <4> QED
        BY <2>4, <3>2, <4>1
    <3> QED
      BY <2>2, <3>1, <3>2 DEF Wrote
  <2> QED
    BY <1>c, <2>3, <2>5 DEF FilledInv
<1>2. CASE AcquireFresh(s)
  <2>1. /\ pc[s] = "acquire" /\ booked' = [booked EXCEPT ![p] = <<FreshBatch(msg[s])>>]
        /\ pc'[s] = "write" /\ UNCHANGED <<msg, ring>> /\ p \in Lanes
    BY <1>2, LaneOfType DEF AcquireFresh, SenderTypeOK
  <2>2. \A q \in Lanes : q # p => booked'[q] = booked[q]
    BY <2>1
  <2>3. booked'[p] = <<FreshBatch(msg[s])>> /\ Head(booked'[p]) = FreshBatch(msg[s])
        /\ FreshBatch(msg[s]).kind = "frame"
    BY <2>1 DEF FreshBatch
  <2>4. \A q \in Lanes : q = p => FreshOf(q, Head(booked[q]))'
    BY <2>1, <2>3 DEF FreshOf, LaneOf
  <2>5. ASSUME NEW q \in Lanes, q # p, FreshOf(q, Head(booked[q]))
        PROVE  FreshOf(q, Head(booked[q]))'
    <3>1. PICK t \in Senders : pc[t] = "write" /\ LaneOf(t) = q /\ Head(booked[q]) = FreshBatch(msg[t])
      BY <2>5 DEF FreshOf
    <3>2. SameSender(t)
      BY <1>a, <2>1, <3>1
    <3> QED
      BY <2>2, <2>5, <3>1, <3>2 DEF FreshOf, SameSender, LaneOf
  <2> QED
    <3>1. ASSUME NEW q \in Lanes, q # p, booked'[q] # <<>>
          PROVE  /\ Head(booked'[q]).kind = "frame"
                 /\ Head(booked'[q]).msgs # <<>> \/ FreshOf(q, Head(booked[q]))'
      BY <2>2, <2>5, <3>1 DEF FilledInv
    <3>2. \A q \in Lanes : AllFilled(ring'[q])
      BY <2>1 DEF FilledInv
    <3>3. ASSUME NEW q \in Lanes, booked'[q] # <<>>
          PROVE  /\ Head(booked'[q]).kind = "frame"
                 /\ Head(booked'[q]).msgs # <<>> \/ FreshOf(q, Head(booked[q]))'
      <4>1. CASE q = p
        <5>1. FreshOf(q, Head(booked[q]))'
          BY <2>4, <4>1
        <5> QED
          BY <2>3, <4>1, <5>1
      <4> QED
        BY <3>1, <3>3, <4>1
    <3> QED
      BY <1>c, <3>2, <3>3 DEF FilledInv
<1>3. CASE UNCHANGED <<ring, booked>> /\ pc[s] # "write"
  BY <1>c, <1>d, <1>3 DEF FilledInv
<1> QED
  BY <1>1, <1>2, <1>3, QuietSteps

LEMMA FilledByOthers ==
    ASSUME LineInv,
           \/ WriterStep \/ KeepAlive \/ KeepAliveWritten \/ SeeToken
           \/ StopDisable \/ StopStep \/ TaskStop \/ UNCHANGED vars
    PROVE  HandInv' /\ FilledInv'
<1> USE DEF LineInv, IInv
<1>a. /\ HandInv' /\ UNCHANGED <<pc, msg>>
      /\ Kept \/ (\E l \in Lanes : Handed(l) \/ Thrown(l)) \/ CutOff
      /\ Stays \/ Flushed \/ (\E p \in Lanes : Taken(p)) \/ GivenBack \/ LetGo
      /\ \A p \in Lanes : booked'[p] # booked[p] => lock[p] \notin Senders
  BY OtherLines, OtherMoves, OtherLocks
<1>b. \A p \in Lanes : ring[p] \in Seq(Batch) /\ booked[p] \in Seq(Batch) /\ Len(booked[p]) <= 1
  BY DEF TypeOK, LaneTypeOK
<1>c. wire \in Seq(Batch) /\ Unwritten \in Seq(Batch) /\ Out \in Seq(Batch)
  BY LineTypes
<1>1. AllFilled(Out')
  <2>1. AllFilled(Out) /\ \A p \in Lanes : AllFilled(ring[p])
    BY DEF FilledInv
  <2>2. ASSUME NEW l \in Lanes, Handed(l) PROVE AllFilled(Out')
    BY <1>b, <1>c, <2>1, <2>2, BatchSeqs, FilledSeqs DEF Handed
  <2>3. CASE CutOff
    <3>1. PICK q \in Seq(Batch) : Out' = wire \o q /\ Thinned(q, Unwritten, Batch)
      BY <2>3 DEF CutOff
    <3>2. AllFilled(wire) /\ AllFilled(Unwritten)
      BY <1>c, <2>1, FilledSeqs DEF Out
    <3> QED
      BY <1>c, <3>1, <3>2, FilledSeqs
  <2> QED
    BY <1>a, <2>1, <2>2, <2>3 DEF Kept, Thrown
<1>2. ASSUME NEW p \in Lanes
      PROVE  /\ AllFilled(ring'[p])
             /\ booked'[p] # <<>> => booked'[p] = booked[p]
  <2>1. AllFilled(ring[p])
    BY DEF FilledInv
  <2>2. CASE Flushed
    <3>1. \/ ring'[p] = ring[p] /\ booked'[p] = booked[p]
          \/ ring'[p] = ring[p] \o booked[p] /\ booked'[p] = <<>>
      BY <2>2 DEF Flushed, FlushLanes
    <3>2. CASE ring'[p] = ring[p] \o booked[p] /\ booked'[p] = <<>> /\ booked[p] # <<>>
      <4>1. ~FreshOf(p, Head(booked[p]))
        BY <1>a, <3>2 DEF FreshOf, LockInv, SenderInv, Holding
      <4>2. AllFilled(booked[p])
        BY <1>b, <3>2, <4>1, FilledSeqs DEF FilledInv
      <4> QED
        BY <1>b, <2>1, <3>2, <4>2, FilledSeqs
    <3>3. CASE booked[p] = <<>>
      BY <1>b, <2>1, <3>1, <3>3, ConcatEmptySeq
    <3> QED
      BY <2>1, <3>1, <3>2, <3>3
  <2>3. ASSUME NEW l \in Lanes, Taken(l) PROVE AllFilled(ring'[p]) /\ UNCHANGED booked
    BY <1>b, <2>1, <2>3, FilledSeqs DEF Taken, TypeOK, LaneTypeOK
  <2>4. CASE Stays \/ GivenBack \/ LetGo
    BY <2>1, <2>4 DEF Stays, GivenBack, LetGo
  <2> QED
    BY <1>a, <2>2, <2>3, <2>4
<1>3. ASSUME NEW p \in Lanes, booked'[p] # <<>>
      PROVE  /\ Head(booked'[p]).kind = "frame"
             /\ Head(booked'[p]).msgs # <<>> \/ FreshOf(p, Head(booked[p]))'
  <2>1. booked'[p] = booked[p]
    BY <1>2, <1>3
  <2>2. FreshOf(p, Head(booked[p])) => FreshOf(p, Head(booked[p]))'
    BY <1>a, <2>1 DEF FreshOf, LaneOf
  <2> QED
    BY <1>3, <2>1, <2>2 DEF FilledInv
<1> QED
  BY <1>a, <1>1, <1>2, <1>3 DEF FilledInv

LEMMA LineStep == LineInv /\ [Next]_vars => LineInv'
<1> SUFFICES ASSUME LineInv, [Next]_vars PROVE LineInv'
  OBVIOUS
<1>1. IInv'
  BY BufferStep DEF LineInv
<1> QED
  BY <1>1, FilledBySenders, FilledByOthers DEF Next, LineInv

LEMMA InitLine == Init => LineInv
<1> SUFFICES ASSUME Init PROVE LineInv
  OBVIOUS
<1>1. IInv /\ TypeOK
  BY InitBuffers DEF IInv
<1>2. HandInv
  BY DEF Init, HandInv
<1>3. Out = <<>>
  <2>1. <<>> \in Seq(Batch) /\ Len(<<>>) = 0 /\ 0 \in 0..Len(<<>>)
    BY EmptySeq
  <2>2. Unwritten = Rest(<<>>, 0, wpc)
    BY <1>1, LineTypes DEF Init
  <2>3. Unwritten = <<>>
    BY <2>1, <2>2, Rests
  <2> QED
    BY <2>1, <2>3, ConcatEmptySeq DEF Init, Out
<1>4. FilledInv
  BY <1>3, EmptySeq DEF Init, FilledInv, AllFilled
<1> QED
  BY <1>1, <1>2, <1>4 DEF LineInv

\* The batches of a lane that carry something.
Load(p) == {b \in Batch : b.prio = p /\ b.msgs # <<>>}

\* A step other than a write keeps the order of what the lanes carry, and all of
\* it as long as the link is up and nothing of it is discarded.
Fewer ==
    \A p \in Lanes : \A F \in SUBSET Load(p) :
        /\ Thinned(Line(p)', Line(p), F)
        /\ linkUp' /\ (\A b \in F : ~Discarded(b)) => Same(Line(p)', Line(p), F)

LEMMA LinesThin ==
    ASSUME LineInv, [Next]_vars, \A s \in Senders : ~Writes(s)
    PROVE  Fewer /\ UNCHANGED seqnum
<1> USE DEF LineInv, IInv
<1>1. CASE \/ WriterStep \/ KeepAlive \/ KeepAliveWritten \/ SeeToken
           \/ StopDisable \/ StopStep \/ TaskStop \/ UNCHANGED vars
  <2>1. UNCHANGED seqnum /\ (Kept \/ (\E l \in Lanes : Handed(l) \/ Thrown(l)) \/ CutOff)
    BY <1>1, OtherLines, OtherLocks
  <2>2. ASSUME NEW p \in Lanes, NEW F \in SUBSET Load(p)
        PROVE  /\ Thinned(Line(p)', Line(p), F)
               /\ linkUp' /\ (\A b \in F : ~Discarded(b)) => Same(Line(p)', Line(p), F)
    <3>1. \A b \in F : b.prio = p
      BY DEF Load
    <3> QED
      BY <2>1, <3>1, OtherThinned
  <2> QED
    BY <2>1, <2>2 DEF Fewer
<1>2. ASSUME NEW s \in Senders, SenderStep(s) \/ Cancel(s) \/ (\E m \in Msgs : Send(s, m))
      PROVE  Fewer /\ UNCHANGED seqnum
  <2>1. UNCHANGED <<ring, seqnum>> /\ Out' = Out /\ (AcquireFresh(s) \/ UNCHANGED booked)
    BY <1>2, QuietSteps, OutStays
  <2>2. ASSUME NEW p \in Lanes, NEW F \in SUBSET Load(p) PROVE Same(Line(p)', Line(p), F)
    <3>1. /\ Out \in Seq(Batch) /\ ring[p] \in Seq(Batch) /\ Line(p) = Out \o (ring[p] \o booked[p])
          /\ Line(p)' = Out \o (ring[p] \o booked'[p])
      BY <2>1, LineTypes DEF Line
    <3>2. CASE booked'[p] = booked[p]
      BY <3>1, <3>2, SameSelf
    <3>3. CASE AcquireFresh(s) /\ booked'[p] # booked[p]
      <4> DEFINE b == FreshBatch(msg[s])
      <4>1. LaneOf(s) = p /\ booked[p] = <<>> /\ booked'[p] = <<b>> /\ msg[s] \in Msgs
        BY <3>3, LaneOfType DEF AcquireFresh, TypeOK, LaneTypeOK
      <4>2. b \in Batch /\ b \notin F /\ <<b>> \in Seq(Batch)
        <5>1. b \in Batch /\ b.msgs = <<>>
          BY <4>1, FreshBatchType DEF FreshBatch
        <5> QED
          BY <5>1 DEF Load
      <4> HIDE DEF b
      <4>3. <<b>> = Append(<<>>, b) /\ <<>> \in Seq(Batch)
        BY <4>2, EmptySeq
      <4>4. Same(<<b>>, <<>>, F)
        BY <4>2, <4>3, Ends
      <4>5. Same(ring[p] \o <<b>>, ring[p] \o <<>>, F)
        BY <3>1, <4>2, <4>3, <4>4, Join, SameSelf
      <4>6. ring[p] \o <<b>> \in Seq(Batch) /\ ring[p] \o <<>> \in Seq(Batch)
        BY <3>1, <4>2, <4>3, ConcatProperties
      <4>7. Same(Out \o (ring[p] \o <<b>>), Out \o (ring[p] \o <<>>), F)
        BY <3>1, <4>5, <4>6, Join, SameSelf
      <4> QED
        BY <3>1, <4>1, <4>7
    <3> QED
      BY <2>1, <3>2, <3>3
  <2> QED
    BY <2>1, <2>2, SameIsThinned DEF Fewer
<1> QED
  BY <1>1, <1>2 DEF Next

\* A write replaces the last batch of the sender's line, and no other.
Replaced(r, q, b, c) ==
    /\ Len(r) = Len(q) /\ Len(q) \in Nat \ {0} /\ q[Len(q)] = b /\ r[Len(q)] = c
    /\ \A i \in 1..Len(q) : i # Len(q) => r[i] = q[i]

LEMMA WriteReplaces ==
    ASSUME LineInv, NEW s \in Senders, Writes(s), NEW c \in Batch, Wrote(s, c)
    PROVE  /\ \A p \in Lanes : p # LaneOf(s) => Line(p)' = Line(p)
           /\ \A p \in Lanes : p = LaneOf(s) => Replaced(Line(p)', Line(p), Last(s), c)
<1> USE DEF LineInv, IInv
<1>1. /\ LaneOf(s) \in Lanes /\ Last(s) \in Batch /\ booked[LaneOf(s)] = <<Last(s)>>
      /\ UNCHANGED writerVars
  BY Writing
<1>2. Out' = Out /\ Out \in Seq(Batch)
  BY <1>1, OutStays, LineTypes
<1>3. ASSUME NEW p \in Lanes, p # LaneOf(s) PROVE Line(p)' = Line(p)
  <2>1. ring'[p] = ring[p] /\ booked'[p] = booked[p]
    BY <1>3 DEF Wrote, Commit, TypeOK, LaneTypeOK
  <2> QED
    BY <1>2, <2>1 DEF Line
<1>4. ASSUME NEW p \in Lanes, p = LaneOf(s) PROVE Replaced(Line(p)', Line(p), Last(s), c)
  <2> DEFINE b == Last(s)
             q == Out \o ring[p]
             n == Len(q)
  <2>1. ring[p] \in Seq(Batch) /\ q \in Seq(Batch) /\ <<b>> \in Seq(Batch) /\ <<c>> \in Seq(Batch)
        /\ n \in Nat
    BY <1>1, <1>2, BatchSeqs DEF TypeOK, LaneTypeOK
  <2> HIDE DEF n, b
  <2>2. Line(p) = Append(q, b)
    <3>1. Line(p) = Out \o (ring[p] \o <<b>>)
      BY <1>1, <1>4 DEF Line, b
    <3>2. Out \o (ring[p] \o <<b>>) = q \o <<b>>
      BY <1>2, <2>1, Associates, ZenonT(30)
    <3> QED
      BY <1>1, <2>1, <3>1, <3>2, AppendIsConcat DEF b
  <2>3. Line(p)' = Append(q, c)
    <3>1. ring'[p] \o booked'[p] = ring[p] \o <<c>>
      <4>1. CASE Commit(p, c)
        <5>1. ring'[p] = Append(ring[p], c) /\ booked'[p] = <<>>
          BY <4>1 DEF Commit, TypeOK, LaneTypeOK
        <5>2. Append(ring[p], c) = ring[p] \o <<c>> /\ ring[p] \o <<c>> \in Seq(Batch)
          BY <2>1, AppendIsConcat, BatchSeqs
        <5> QED
          BY <5>1, <5>2, ConcatEmptySeq
      <4>2. CASE booked' = [booked EXCEPT ![p] = <<c>>] /\ UNCHANGED ring
        BY <4>2 DEF TypeOK, LaneTypeOK
      <4> QED
        BY <1>4, <4>1, <4>2 DEF Wrote
    <3>2. Line(p)' = Out \o (ring[p] \o <<c>>)
      BY <1>2, <3>1 DEF Line
    <3>3. Out \o (ring[p] \o <<c>>) = q \o <<c>>
      BY <1>2, <2>1, Associates, ZenonT(30)
    <3> QED
      BY <2>1, <3>2, <3>3, AppendIsConcat
  <2>4. /\ Len(Append(q, b)) = n + 1 /\ Append(q, b)[n + 1] = b
        /\ \A i \in 1..n : Append(q, b)[i] = q[i]
    BY <1>1, <2>1, AppendProperties DEF n, b
  <2>5. /\ Len(Append(q, c)) = n + 1 /\ Append(q, c)[n + 1] = c
        /\ \A i \in 1..n : Append(q, c)[i] = q[i]
    BY <2>1, AppendProperties DEF n
  <2>6. \A i \in 1..(n + 1) : i # n + 1 => i \in 1..n
    BY <2>1
  <2>7. n + 1 \in Nat \ {0}
    BY <2>1
  <2> HIDE DEF q
  <2> QED
    BY <2>2, <2>3, <2>4, <2>5, <2>6, <2>7 DEF Replaced, b
<1> QED
  BY <1>3, <1>4

\* What is written is at the front of every line, and each batch of it loaded.
LEMMA WireInLine ==
    ASSUME LineInv, NEW i \in 1..Len(wire)
    PROVE  /\ wire[i].prio \in Lanes
           /\ \A p \in Lanes : /\ i \in 1..Len(Line(p)) /\ Line(p)[i] = wire[i]
                               /\ i \in Of(Line(p), Load(p)) <=> wire[i].prio = p
<1> USE DEF LineInv, IInv
<1>1. wire \in Seq(Batch) /\ Unwritten \in Seq(Batch) /\ Out \in Seq(Batch)
  BY LineTypes
<1>2. wire[i] \in Batch /\ wire[i].prio \in Lanes
  BY <1>1, BatchSeqs DEF Batch
<1>3. wire[i].msgs # <<>>
  <2>1. AllFilled(wire)
    BY <1>1, FilledSeqs DEF FilledInv, Out
  <2> QED
    BY <2>1 DEF AllFilled
<1>4. ASSUME NEW p \in Lanes PROVE i \in 1..Len(Line(p)) /\ Line(p)[i] = wire[i]
  <2> DEFINE t == ring[p] \o booked[p]
  <2>1. t \in Seq(Batch)
    BY LineTypes
  <2> HIDE DEF t
  <2>2. i \in 1..Len(Out) /\ Out[i] = wire[i]
    <3>1. Len(wire) \in Nat /\ Len(Unwritten) \in Nat /\ Len(Out) = Len(wire) + Len(Unwritten)
          /\ \A k \in 1..(Len(wire) + Len(Unwritten)) :
                Out[k] = IF k <= Len(wire) THEN wire[k] ELSE Unwritten[k - Len(wire)]
      BY <1>1, LenProperties, ConcatProperties DEF Out
    <3> QED
      BY <3>1
  <2>3. /\ Len(Out) \in Nat /\ Len(t) \in Nat /\ Len(Line(p)) = Len(Out) + Len(t)
        /\ \A k \in 1..(Len(Out) + Len(t)) :
                Line(p)[k] = IF k <= Len(Out) THEN Out[k] ELSE t[k - Len(Out)]
    BY <1>1, <2>1, LenProperties, ConcatProperties DEF Line, t
  <2> QED
    BY <2>2, <2>3
<1> QED
  BY <1>2, <1>3, <1>4 DEF Of, Load

\* The positions of the batches in F of a line whose last batch, at n, was replaced.
Grown(r, q, F, n, b, c) ==
    /\ n \in Nat
    /\ \A i \in Of(r, F) : \/ i \in Of(q, F) /\ i < n /\ r[i] = q[i]
                           \/ i = n /\ r[i] = c
    /\ \A i \in Of(q, F) : \/ i \in Of(r, F) /\ i < n /\ r[i] = q[i]
                           \/ i = n /\ q[i] = b
    /\ b \in F => n \in Of(q, F) /\ q[n] = b
    /\ c \in F => n \in Of(r, F) /\ r[n] = c

LEMMA ReplacedOf ==
    ASSUME NEW r, NEW q, NEW b, NEW c, NEW F, Replaced(r, q, b, c)
    PROVE  Grown(r, q, F, Len(q), b, c)
<1> DEFINE n == Len(q)
<1>1. /\ n \in Nat \ {0} /\ Len(r) = n /\ q[n] = b /\ r[n] = c
      /\ \A i \in 1..n : i # n => r[i] = q[i]
  BY DEF Replaced
<1>2. /\ \A i : i \in Of(q, F) <=> i \in 1..n /\ q[i] \in F
      /\ \A i : i \in Of(r, F) <=> i \in 1..n /\ r[i] \in F
  BY <1>1 DEF Of
<1> HIDE DEF n
<1>3. n \in 1..n /\ \A i \in 1..n : i = n \/ i < n
  BY <1>1
<1>4. ASSUME NEW i \in Of(r, F)
      PROVE  \/ i \in Of(q, F) /\ i < n /\ r[i] = q[i]
             \/ i = n /\ r[i] = c
  <2>1. i \in 1..n /\ r[i] \in F
    BY <1>2
  <2>2. CASE i = n
    BY <1>1, <2>2
  <2>3. CASE i # n
    <3>1. i < n /\ r[i] = q[i]
      BY <1>1, <1>3, <2>1, <2>3
    <3>2. i \in Of(q, F)
      BY <1>2, <2>1, <3>1, ZenonT(30)
    <3> QED
      BY <3>1, <3>2
  <2> QED
    BY <2>2, <2>3
<1>5. ASSUME NEW i \in Of(q, F)
      PROVE  \/ i \in Of(r, F) /\ i < n /\ r[i] = q[i]
             \/ i = n /\ q[i] = b
  <2>1. i \in 1..n /\ q[i] \in F
    BY <1>2
  <2>2. CASE i = n
    BY <1>1, <2>2
  <2>3. CASE i # n
    <3>1. i < n /\ r[i] = q[i]
      BY <1>1, <1>3, <2>1, <2>3
    <3>2. i \in Of(r, F)
      BY <1>2, <2>1, <3>1, ZenonT(30)
    <3> QED
      BY <3>1, <3>2
  <2> QED
    BY <2>2, <2>3
<1>6. (b \in F => n \in Of(q, F) /\ q[n] = b) /\ (c \in F => n \in Of(r, F) /\ r[n] = c)
  BY <1>1, <1>2, <1>3
<1>7. n \in Nat
  BY <1>1
<1>8. Grown(r, q, F, n, b, c)
  BY <1>4, <1>5, <1>6, <1>7, ZenonT(30) DEF Grown
<1> QED
  BY <1>8 DEF n

LEMMA LineGrows ==
    ASSUME LineInv, NEW s \in Senders, Writes(s), NEW c \in Batch, Wrote(s, c),
           NEW p \in Lanes, p = LaneOf(s)
    PROVE  \A F : Grown(Line(p)', Line(p), F, Len(Line(p)), Last(s), c)
<1> DEFINE q == Line(p)
           r == Line(p)'
<1>1. Replaced(r, q, Last(s), c)
  BY WriteReplaces
<1> HIDE DEF q, r
<1>2. \A F : Grown(r, q, F, Len(q), Last(s), c)
  BY <1>1, ReplacedOf
<1> QED
  BY <1>2 DEF q, r

----------------------------------------------------------------------------
(* Order of sequence numbers *)

\* Along a line the numbers of a congestion control grow, up to the last one used.
OrderIn(q, F) ==
    \A i, j \in Of(q, F) : i < j /\ q[i].cc = q[j].cc => q[i].sn < q[j].sn
UsedIn(q, F, n) == \A i \in Of(q, F) : q[i].sn \in 1..n[q[i].cc]
OrderInv ==
    \A p \in Lanes : OrderIn(Line(p), Load(p)) /\ UsedIn(Line(p), Load(p), seqnum[p])

LEMMA OrderStep == LineInv /\ OrderInv /\ [Next]_vars => OrderInv'
<1> SUFFICES ASSUME LineInv, OrderInv, [Next]_vars PROVE OrderInv'
  OBVIOUS
<1> USE DEF LineInv, IInv
<1>1. CASE \A s \in Senders : ~Writes(s)
  <2> SUFFICES ASSUME NEW p \in Lanes
               PROVE  /\ OrderIn(Line(p)', Load(p))
                      /\ UsedIn(Line(p)', Load(p), seqnum'[p])
    BY DEF OrderInv
  <2>1. Thinned(Line(p)', Line(p), Load(p)) /\ seqnum' = seqnum
    BY <1>1, LinesThin DEF Fewer
  <2>2. PICK f : Maps(f, Line(p)', Line(p), Load(p))
    BY <2>1 DEF Thinned
  <2>3. OrderIn(Line(p), Load(p)) /\ UsedIn(Line(p), Load(p), seqnum[p])
    BY DEF OrderInv
  <2>4. OrderIn(Line(p)', Load(p))
    BY <2>2, <2>3 DEF Maps, OrderIn
  <2>5. UsedIn(Line(p)', Load(p), seqnum'[p])
    BY <2>1, <2>2, <2>3 DEF Maps, UsedIn
  <2> QED
    BY <2>4, <2>5
<1>2. ASSUME NEW s \in Senders, Writes(s) PROVE OrderInv'
  <2>1. PICK c \in Batch : Wrote(s, c)
    BY <1>2, Writing
  <2>2. LaneOf(s) \in Lanes /\ msg[s] \in Msgs /\ Last(s) \in Batch /\ Last(s).prio = LaneOf(s)
        /\ CcOf[msg[s]] \in Ccs
    BY <1>2, Writing, MessageAssumption
  <2>3. c.prio = LaneOf(s) /\ c.msgs # <<>> /\ (Extended(s, c) \/ Started(s, c))
    BY <2>1 DEF Wrote
  <2>4. seqnum \in [Lanes -> [Ccs -> Nat]]
    BY DEF TypeOK, LaneTypeOK
  <2>5. ASSUME NEW p \in Lanes, p # LaneOf(s)
        PROVE  OrderIn(Line(p)', Load(p)) /\ UsedIn(Line(p)', Load(p), seqnum'[p])
    <3>1. Line(p)' = Line(p)
      BY <1>2, <2>1, <2>5, WriteReplaces
    <3>2. seqnum'[p] = seqnum[p]
      BY <2>3, <2>4, <2>5 DEF Extended, Started, UseSn
    <3> QED
      BY <3>1, <3>2 DEF OrderInv
  <2>6. ASSUME NEW p \in Lanes, p = LaneOf(s)
        PROVE  OrderIn(Line(p)', Load(p)) /\ UsedIn(Line(p)', Load(p), seqnum'[p])
    <3> DEFINE q == Line(p)
               r == Line(p)'
               n == Len(q)
    <3>1. Grown(r, q, Load(p), n, Last(s), c)
      BY <1>2, <2>1, <2>6, LineGrows
    <3>2. OrderIn(q, Load(p)) /\ UsedIn(q, Load(p), seqnum[p])
      BY DEF OrderInv
    <3>3. \A i \in Of(q, Load(p)) : q[i] \in Batch
      BY DEF Of, Load
    <3> HIDE DEF q, r
    <3>4. /\ \A i \in Of(r, Load(p)) : \/ i \in Of(q, Load(p)) /\ i < n /\ r[i] = q[i]
                                       \/ i = n /\ r[i] = c
          /\ Last(s) \in Load(p) => n \in Of(q, Load(p)) /\ q[n] = Last(s)
          /\ n \in Nat
      BY <3>1 DEF Grown
    <3> HIDE DEF n
    <3>5. CASE Extended(s, c)
      <4>1. n \in Of(q, Load(p)) /\ q[n] = Last(s) /\ c.sn = Last(s).sn /\ c.cc = Last(s).cc
            /\ seqnum' = seqnum
        BY <2>2, <2>6, <3>4, <3>5 DEF Extended, Load
      <4>2. \A i \in Of(r, Load(p)) : i \in Of(q, Load(p)) /\ r[i].sn = q[i].sn /\ r[i].cc = q[i].cc
        BY <3>4, <4>1
      <4> QED
        BY <3>2, <4>1, <4>2 DEF OrderIn, UsedIn, r
    <3>6. CASE Started(s, c)
      <4> DEFINE k == seqnum[p][c.cc]
      <4>1. c.sn = k + 1 /\ c.cc \in Ccs /\ k \in Nat /\ seqnum'[p][c.cc] = k + 1
            /\ \A d \in Ccs : d # c.cc => seqnum'[p][d] = seqnum[p][d]
        BY <2>2, <2>4, <2>6, <3>6 DEF Started, UseSn, NextSn
      <4>2. \A i \in Of(q, Load(p)) : q[i].cc \in Ccs /\ q[i].sn \in 1..seqnum[p][q[i].cc]
        BY <3>2, <3>3 DEF UsedIn, Batch
      <4>3. \A d \in Ccs : seqnum[p][d] \in Nat
        BY <2>4
      <4> HIDE DEF k
      <4>4. UsedIn(r, Load(p), seqnum'[p])
        <5> SUFFICES ASSUME NEW i \in Of(r, Load(p)) PROVE r[i].sn \in 1..seqnum'[p][r[i].cc]
          BY DEF UsedIn
        <5>1. CASE i = n /\ r[i] = c
          BY <4>1, <5>1
        <5>2. CASE i \in Of(q, Load(p)) /\ r[i] = q[i]
          <6>1. seqnum'[p][q[i].cc] = seqnum[p][q[i].cc] \/ (q[i].cc = c.cc /\ seqnum[p][q[i].cc] = k)
            BY <4>1, <4>2, <5>2 DEF k
          <6> QED
            BY <4>1, <4>2, <4>3, <5>2, <6>1
        <5> QED
          BY <3>4, <5>1, <5>2
      <4>5. OrderIn(r, Load(p))
        <5> SUFFICES ASSUME NEW i \in Of(r, Load(p)), NEW j \in Of(r, Load(p)), i < j,
                            r[i].cc = r[j].cc
                     PROVE  r[i].sn < r[j].sn
          BY DEF OrderIn
        <5>1. i \in Of(q, Load(p)) /\ r[i] = q[i]
          <6>1. i \in Int /\ j \in Int
            BY DEF Of
          <6> QED
            BY <3>4, <6>1
        <5>2. CASE j \in Of(q, Load(p)) /\ r[j] = q[j]
          BY <3>2, <5>1, <5>2 DEF OrderIn
        <5>3. CASE r[j] = c
          <6>1. q[i].sn \in 1..k
            BY <4>2, <5>1, <5>3 DEF k
          <6> QED
            BY <4>1, <5>1, <5>3, <6>1
        <5> QED
          BY <3>4, <5>2, <5>3
      <4> QED
        BY <4>4, <4>5 DEF r
    <3> QED
      BY <2>3, <3>5, <3>6
  <2> QED
    BY <2>5, <2>6 DEF OrderInv
<1> QED
  BY <1>1, <1>2

LEMMA NoLoadsAtFirst == Init => LineInv /\ \A p \in Lanes : Line(p) = <<>> /\ \A F : Of(Line(p), F) = {}
<1> SUFFICES ASSUME Init, NEW p \in Lanes
             PROVE  LineInv /\ Line(p) = <<>> /\ \A F : Of(Line(p), F) = {}
  BY InitLine
<1>1. LineInv
  BY InitLine
<1>2. hand = <<>> /\ nref = 0 /\ wire = <<>> /\ ring[p] = <<>> /\ booked[p] = <<>>
      /\ <<>> \in Seq(Batch) /\ Len(<<>>) = 0 /\ 0 \in 0..Len(<<>>)
  BY EmptySeq DEF Init
<1>3. Unwritten = <<>>
  BY ZenonT(60), <1>1, <1>2, LineTypes, Rests DEF LineInv, IInv
<1>4. Line(p) = <<>>
  BY <1>2, <1>3, ConcatEmptySeq DEF Line, Out
<1> QED
  BY <1>1, <1>2, <1>4 DEF Of

\* Whatever is lost or discarded, batches that share lane and congestion control
\* are written in the order in which their senders numbered them: the senders
\* hold the lane from the number to the commit, and the writer task takes each
\* lane from its head (StageInPrio::push, PipelineTxOut::pull, try_pull, drain).
THEOREM WrittenInSequence == Safety => []WireInSequence
<1>1. Init => LineInv /\ OrderInv
  BY NoLoadsAtFirst DEF OrderInv, OrderIn, UsedIn
<1>2. LineInv /\ OrderInv /\ [Next]_vars => (LineInv /\ OrderInv)'
  BY LineStep, OrderStep
<1>3. LineInv /\ OrderInv => WireInSequence
  <2> SUFFICES ASSUME LineInv, OrderInv, NEW i \in 1..Len(wire), NEW j \in 1..Len(wire),
                      i < j, SameChannel(wire[i], wire[j])
               PROVE  wire[i].sn < wire[j].sn
    BY DEF WireInSequence
  <2> DEFINE p == wire[i].prio
  <2>1. p \in Lanes /\ wire[j].prio = p /\ wire[i].cc = wire[j].cc
    BY WireInLine DEF SameChannel
  <2>2. /\ i \in Of(Line(p), Load(p)) /\ Line(p)[i] = wire[i]
        /\ j \in Of(Line(p), Load(p)) /\ Line(p)[j] = wire[j]
    BY <2>1, WireInLine
  <2> QED
    BY <2>1, <2>2 DEF OrderInv, OrderIn
<1> QED
  BY <1>1, <1>2, <1>3, PTL DEF Safety
=============================================================================
