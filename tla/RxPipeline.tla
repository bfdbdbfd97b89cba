----------------------------- MODULE RxPipeline -----------------------------
(***************************************************************************)
(* The reception pipeline of src/src/pipeline/rx.rs between the reader     *)
(* task and the handle of src/src/api/receiver.rs.                         *)
(*                                                                         *)
(* The reader task takes batches from the link, puts fragments together    *)
(* (one buffer per priority and congestion control) and pushes what is     *)
(* complete into a ring with one lane per priority, waiting for space when *)
(* the lane is full.  recv and try_recv read messages from the head batch  *)
(* of the first lane that has one; an exhausted batch is removed by a pull *)
(* of its own, which looks for the first non-empty lane again.             *)
(*                                                                         *)
(* One action is one atomic access to shared state (a lane's index, the    *)
(* status word, an event), together with the thread-local code around it.  *)
(* The ring is the sequence per lane of module LaneQueues; events are the  *)
(* one-token signals of module Signal.  A message is a sequence of pieces, *)
(* one for each batch that it fills on the wire.                           *)
(***************************************************************************)
EXTENDS Integers, Sequences

CONSTANTS
    Msgs,           \* messages, numbered in the order in which a lane sends them
    NPrio,          \* number of priority lanes, 1 is looked at first
    Capacity,       \* batches per lane of the ring
    PrioOf,         \* [Msgs -> lane]
    CcOf,           \* [Msgs -> {"block", "drop"}], the congestion control
    FragsOf,        \* [Msgs -> number of fragments, 1 = the message goes in a frame]
    FrameMax,       \* whole messages in one batch, at most
    FragMax,        \* max_frag_size, in fragments
    Env             \* environment events that may happen, a subset of Events

Lanes == 1..NPrio
Ccs == {"block", "drop"}

\* A fragment does not arrive, the link ends (or is silent for too long), a batch
\* does not decode, ReceiverTask::stop, Receiver::stop, recv is cancelled.
Events == {"loss", "eof", "garbage", "taskstop", "stop", "cancel"}

ASSUME RxAssumption ==
    /\ NPrio \in Nat \ {0} /\ Capacity \in Nat \ {0}
    /\ FrameMax \in Nat \ {0} /\ FragMax \in Nat
    /\ Msgs \subseteq Nat
    /\ PrioOf \in [Msgs -> Lanes] /\ CcOf \in [Msgs -> Ccs]
    /\ FragsOf \in [Msgs -> Nat \ {0}]
    /\ Env \subseteq Events

VARIABLES
    \* the link, as the sender of TxPipeline fills it
    todo,           \* messages not yet begun
    cur,            \* per lane: the message being sent in fragments, <<m, sent>>
    nextsn,         \* per lane and congestion control: next sequence number
    fragid,         \* per lane: next fragment id
    \* PipelineRxIn and the reader task
    tpc, hand, late,    \* control state, batch to push, its timeout has expired
    dbuf,               \* per lane and congestion control: DefragBuffer
    token,              \* the cancellation token
    \* shared
    ring,               \* per lane: batches, oldest first
    congested,          \* the bits of Status
    canRecv, canSend,   \* events to the receiver and, per lane, to the reader task
    \* PipelineRxOut and the receiver
    rpc, mode, rlane,   \* control state, operation, lane that a scan has reached
    plane,              \* lane of the exhausted batch
    got,                \* per lane: messages returned, in this order
    sawClosed,          \* a recv has returned Closed
    \* history
    arrived,            \* messages that reached the reader task completely
    expired,            \* messages that it discarded when the timeout expired
    overtaken           \* messages removed by a pull meant for another lane

linkVars == <<todo, cur, nextsn, fragid>>
taskVars == <<tpc, hand, late, dbuf>>
sharedVars == <<ring, congested, canRecv, canSend>>
recvVars == <<rpc, mode, rlane, plane, got, sawClosed>>
historyVars == <<arrived, expired, overtaken>>
vars == <<linkVars, taskVars, token, sharedVars, recvVars, historyVars>>

Pieces == Msgs \X Nat
Items == Seq(Pieces) \ {<<>>}
Batch ==
    {b \in [prio : Lanes, cc : Ccs, items : Seq(Items), pos : Nat] :
        b.items # <<>> /\ b.pos <= Len(b.items)}
TPc == {"read", "push", "notify", "full", "wait", "closed"}
RPc == {"idle", "scan", "pull", "notify", "wait", "gone"}
Signals == {"unset", "ok", "err"}

TypeOK ==
    /\ todo \subseteq Msgs /\ cur \in [Lanes -> Seq(Nat)]
    /\ nextsn \in [Lanes -> [Ccs -> Nat]] /\ fragid \in [Lanes -> Nat]
    /\ tpc \in TPc /\ hand \in Seq(Batch) /\ late \in BOOLEAN
    /\ tpc \in {"push", "full", "wait"} => hand # <<>>
    /\ dbuf \in [Lanes -> [Ccs -> [sn : Nat, id : Nat, parts : Seq(Pieces)]]]
    /\ token \in BOOLEAN
    /\ ring \in [Lanes -> Seq(Batch)] /\ congested \subseteq Lanes
    /\ \A p \in Lanes : Len(ring[p]) <= Capacity
    /\ canRecv \in Signals /\ canSend \in [Lanes -> Signals]
    /\ rpc \in RPc /\ mode \in {"recv", "try"}
    /\ rlane \in Lanes /\ plane \in Lanes
    /\ got \in [Lanes -> Seq(Items)] /\ sawClosed \in BOOLEAN
    /\ arrived \subseteq Msgs /\ expired \subseteq Msgs /\ overtaken \subseteq Msgs

Whole(m) == [i \in 1..FragsOf[m] |-> <<m, i>>]
ItemMsgs(items) == {it[1][1] : it \in {items[k] : k \in DOMAIN items}}
Unread(b) == SubSeq(b.items, b.pos + 1, Len(b.items))

Init ==
    /\ todo = Msgs /\ cur = [p \in Lanes |-> <<>>]
    /\ nextsn = [p \in Lanes |-> [c \in Ccs |-> 0]] /\ fragid = [p \in Lanes |-> 0]
    /\ tpc = "read" /\ hand = <<>> /\ late = FALSE
    /\ dbuf = [p \in Lanes |-> [c \in Ccs |-> [sn |-> 0, id |-> 0, parts |-> <<>>]]]
    /\ token = FALSE
    /\ ring = [p \in Lanes |-> <<>>] /\ congested = {}
    /\ canRecv = "unset" /\ canSend = [p \in Lanes |-> "unset"]
    /\ rpc = "idle" /\ mode = "recv" /\ rlane = 1 /\ plane = 1
    /\ got = [p \in Lanes |-> <<>>] /\ sawClosed = FALSE
    /\ arrived = {} /\ expired = {} /\ overtaken = {}

----------------------------------------------------------------------------
(* The link *)

Pending(p) == {m \in todo : PrioOf[m] = p}

\* A frame carries the next messages of one lane and congestion control.
Frames(p) ==
    {ms \in UNION {[1..n -> Pending(p)] : n \in 1..FrameMax} :
        /\ \A i, j \in DOMAIN ms : i < j => ms[i] < ms[j]
        /\ \A i \in DOMAIN ms : FragsOf[ms[i]] = 1 /\ CcOf[ms[i]] = CcOf[ms[1]]
        /\ \A i \in DOMAIN ms, n \in Pending(p) : n < ms[i] => \E j \in DOMAIN ms : n = ms[j]}

UseSn(p, c) == nextsn' = [nextsn EXCEPT ![p][c] = @ + 1]

\* The sender begins a message in fragments, or goes on with it.
Begin(p, m) ==
    /\ cur[p] = <<>> /\ m \in Pending(p) /\ FragsOf[m] > 1
    /\ \A n \in Pending(p) : m <= n
    /\ cur' = [cur EXCEPT ![p] = <<m, 0>>]
    /\ fragid' = [fragid EXCEPT ![p] = @ + 1]
    /\ todo' = todo \ {m}
    /\ UNCHANGED <<nextsn, taskVars, token, sharedVars, recvVars, historyVars>>

\* The fragment that lane p sends next, and the link after it.
Frag(p) == [m |-> cur[p][1], i |-> cur[p][2] + 1]
KindOf(f) == IF f.i = 1 THEN "first" ELSE IF f.i = FragsOf[f.m] THEN "last" ELSE "more"
FragSent(p) ==
    /\ cur' = [cur EXCEPT ![p] = IF KindOf(Frag(p)) = "last" THEN <<>> ELSE <<@[1], @[2] + 1>>]
    /\ UseSn(p, CcOf[cur[p][1]])
    /\ UNCHANGED <<todo, fragid>>

\* A fragment does not arrive: the link loses it, or the sender, whose message has
\* failed, discards it or never makes it.
Lose(p) ==
    /\ "loss" \in Env
    /\ cur[p] # <<>>
    /\ FragSent(p)
    /\ UNCHANGED <<taskVars, token, sharedVars, recvVars, historyVars>>

----------------------------------------------------------------------------
(* read_task and PipelineRxIn::push *)

\* A batch has been read, its header decoded: a frame goes to the ring as it is.
ReadFrame(p, ms) ==
    LET carried == {ms[i] : i \in DOMAIN ms} IN
    /\ tpc = "read"
    /\ cur[p] = <<>>
    /\ hand' = <<[prio |-> p, cc |-> CcOf[ms[1]], pos |-> 0,
                  items |-> [i \in DOMAIN ms |-> <<<<ms[i], 1>>>>]]>>
    /\ tpc' = "push" /\ late' = FALSE
    /\ todo' = todo \ carried
    /\ UseSn(p, CcOf[ms[1]])
    /\ arrived' = arrived \cup carried
    /\ UNCHANGED <<cur, fragid, dbuf, token, sharedVars, recvVars, expired, overtaken>>

\* DefragBuffer::extend.
Accepts(d, sn, id) == sn = d.sn /\ id = d.id /\ Len(d.parts) < FragMax
Extended(d, piece) == [sn |-> d.sn + 1, id |-> d.id, parts |-> Append(d.parts, piece)]

\* Mutant: sync without clear.
Start_NoClear(d, sn, id) == [d EXCEPT !.sn = sn, !.id = id]

\* DefragBuffer::clear and sync, for a first fragment.
Start(d, sn, id) == [sn |-> sn, id |-> id, parts |-> <<>>]

\* A fragment: extend checks it; a first one starts afresh, a refused one in the
\* middle clears the buffer, a refused last one leaves it.
ReadFragment(p) ==
    LET f == Frag(p)
        k == KindOf(f)
        c == CcOf[f.m]
        d == IF k = "first" THEN Start(dbuf[p][c], nextsn[p][c], fragid[p]) ELSE dbuf[p][c]
        ok == Accepts(d, nextsn[p][c], fragid[p])
        e == Extended(d, <<f.m, f.i>>) IN
    /\ tpc = "read"
    /\ cur[p] # <<>>
    /\ FragSent(p)
    /\ \/ /\ ~ok
          /\ dbuf' = [dbuf EXCEPT ![p][c] = IF k = "more" THEN [d EXCEPT !.parts = <<>>] ELSE d]
          /\ UNCHANGED <<tpc, hand, late, arrived>>
       \/ /\ ok /\ k # "last"
          /\ dbuf' = [dbuf EXCEPT ![p][c] = e]
          /\ UNCHANGED <<tpc, hand, late, arrived>>
       \/ /\ ok /\ k = "last"
          /\ dbuf' = [dbuf EXCEPT ![p][c] = [e EXCEPT !.parts = <<>>]]
          /\ hand' = <<[prio |-> p, cc |-> c, pos |-> 0, items |-> <<e.parts>>]>>
          /\ tpc' = "push" /\ late' = FALSE
          /\ arrived' = arrived \cup {f.m}
    /\ UNCHANGED <<token, sharedVars, recvVars, expired, overtaken>>

\* The task sees the token, the link ends or is silent for too long, or a batch does
\* not decode.  Dropping PipelineRxIn closes the events of both directions.
CloseTask ==
    /\ canRecv' = "err"
    /\ canSend' = [p \in Lanes |-> "err"]
    /\ tpc' = "closed" /\ hand' = <<>> /\ late' = FALSE
    /\ UNCHANGED <<linkVars, dbuf, token, ring, congested, recvVars, historyVars>>
LinkEnds == Env \cap {"eof", "garbage"} # {}

\* Mutant: reads are not raced against the token.
SeesEnd_NoToken == LinkEnds
SeesEnd == token \/ LinkEnds
ReadEnds == tpc = "read" /\ SeesEnd /\ CloseTask

InLane == hand[1].prio

\* Mutant: a full lane takes one more.
HasSpace_OffByOne(p) == Len(ring[p]) <= Capacity
HasSpace(p) == Len(ring[p]) < Capacity

\* writer.push.
Push ==
    /\ tpc = "push"
    /\ \/ /\ HasSpace(InLane)
          /\ ring' = [ring EXCEPT ![InLane] = @ \o hand]
          /\ hand' = <<>> /\ late' = FALSE
          /\ tpc' = "notify"
       \/ /\ ~HasSpace(InLane)
          /\ tpc' = "full"
          /\ UNCHANGED <<ring, hand, late>>
    /\ UNCHANGED <<linkVars, dbuf, token, congested, canRecv, canSend, recvVars, historyVars>>

\* Mutant: the receiver is not woken.
Announce_Silent == UNCHANGED canRecv
Announce == canRecv' = "ok"

\* can_recv.notify; it fails when the receiver is gone.
Notify ==
    /\ tpc = "notify"
    /\ \/ /\ canRecv # "err"
          /\ Announce
          /\ tpc' = "read"
          /\ UNCHANGED <<linkVars, hand, late, dbuf, token, ring, congested, canSend,
                         recvVars, historyVars>>
       \/ canRecv = "err" /\ CloseTask

\* Best-effort batches do not wait in a congested lane.
DropAtOnce == hand[1].cc = "drop" /\ InLane \in congested

\* The batch is given up: its time is over, or it is best-effort.
Forget(why) ==
    /\ hand' = <<>> /\ late' = FALSE
    /\ tpc' = "read"
    /\ expired' = IF why = "expired" THEN expired \cup ItemMsgs(hand[1].items) ELSE expired
    /\ UNCHANGED <<linkVars, dbuf, token, ring, canRecv, canSend, recvVars, arrived, overtaken>>

\* The lane is full: compute_timeout, then wait for space.  The time may be over at
\* any attempt, and is after the timer has fired.
Full ==
    /\ tpc = "full"
    /\ \/ DropAtOnce /\ Forget("dropped") /\ UNCHANGED congested
       \/ ~DropAtOnce /\ Forget("expired") /\ UNCHANGED congested
       \/ /\ ~DropAtOnce /\ ~late
          /\ tpc' = "wait"
          /\ UNCHANGED <<linkVars, hand, late, dbuf, token, sharedVars, recvVars, historyVars>>

\* can_send[priority].wait returns.
Waited ==
    /\ tpc = "wait"
    /\ \/ /\ canSend[InLane] = "ok"
          /\ canSend' = [canSend EXCEPT ![InLane] = "unset"]
          /\ tpc' = "push"
          /\ UNCHANGED <<linkVars, hand, late, dbuf, token, ring, congested, canRecv,
                         recvVars, historyVars>>
       \/ canSend[InLane] = "err" /\ CloseTask

\* Mutant: the time starts anew with every attempt.
TimeOver_Restarts == UNCHANGED late

\* The time of a batch runs from its first attempt.
TimeOver == late' = TRUE

\* The timer of the wait fires; the status word is set.
TimerFires ==
    /\ tpc = "wait" /\ canSend[InLane] = "unset"
    /\ congested' = congested \cup {InLane}
    /\ \/ hand[1].cc = "drop" /\ Forget("dropped")
       \/ /\ hand[1].cc = "block"
          /\ TimeOver
          /\ tpc' = "push"
          /\ UNCHANGED <<linkVars, hand, dbuf, token, ring, canRecv, canSend,
                         recvVars, historyVars>>

----------------------------------------------------------------------------
(* PipelineRxOut *)

RecvOnly == UNCHANGED <<linkVars, taskVars, token, arrived, expired>>

\* recv or try_recv is called.
StartRecv(how) ==
    /\ rpc = "idle"
    /\ mode' = how /\ rlane' = 1 /\ rpc' = "scan"
    /\ RecvOnly
    /\ UNCHANGED <<sharedVars, plane, got, sawClosed, overtaken>>

\* peek_mut passes over an empty lane; after the last one try_recv returns and recv
\* waits.
ScanEmpty ==
    /\ rpc = "scan" /\ ring[rlane] = <<>>
    /\ \/ rlane < NPrio /\ rlane' = rlane + 1 /\ UNCHANGED rpc
       \/ rlane = NPrio /\ rlane' = 1 /\ rpc' = IF mode = "recv" THEN "wait" ELSE "idle"
    /\ RecvOnly
    /\ UNCHANGED <<sharedVars, mode, plane, got, sawClosed, overtaken>>

\* Mutant: any batch at the head of a congested lane goes.
HeadDropped_Any(b, p) == p \in congested

\* The head batch of a congested lane goes unread if it is best-effort.
HeadDropped(b, p) == p \in congested /\ b.cc = "drop"

\* Mutant: the position in the batch is not kept.
Advance_Forgotten(b) == b

\* batch.pos = reader.mark().
Advance(b) == [b EXCEPT !.pos = @ + 1]

\* peek_mut finds a batch: the congested bit is cleared, and a message is read from
\* it, or it is to be removed.
ScanHead ==
    LET p == rlane
        b == ring[p][1]
        read == ~HeadDropped(b, p) /\ b.pos < Len(b.items) IN
    /\ rpc = "scan" /\ ring[p] # <<>>
    /\ congested' = congested \ {p}
    /\ \/ /\ read
          /\ got' = [got EXCEPT ![p] = Append(@, b.items[b.pos + 1])]
          /\ ring' = [ring EXCEPT ![p][1] = Advance(@)]
          /\ rpc' = "idle" /\ rlane' = 1
          /\ UNCHANGED plane
       \/ /\ ~read
          /\ plane' = p /\ rlane' = 1 /\ rpc' = "pull"
          /\ UNCHANGED <<got, ring>>
    /\ RecvOnly
    /\ UNCHANGED <<mode, canRecv, canSend, sawClosed, overtaken>>

\* ring_buf.pull looks at the lanes again, from the first.
PullEmpty ==
    /\ rpc = "pull" /\ ring[rlane] = <<>>
    /\ rlane' = rlane + 1
    /\ RecvOnly
    /\ UNCHANGED <<sharedVars, rpc, mode, plane, got, sawClosed, overtaken>>

PullHead ==
    /\ rpc = "pull" /\ ring[rlane] # <<>>
    /\ ring' = [ring EXCEPT ![rlane] = Tail(@)]
    /\ overtaken' = IF rlane = plane THEN overtaken
                    ELSE overtaken \cup ItemMsgs(Unread(Head(ring[rlane])))
    /\ rlane' = 1 /\ rpc' = "notify"
    /\ RecvOnly
    /\ UNCHANGED <<congested, canRecv, canSend, mode, plane, got, sawClosed>>

\* Mutant: the space is not announced.
NotifySpace_Silent == UNCHANGED canSend

\* can_send[priority].notify, with the priority of the batch that was peeked.
NotifySpace ==
    canSend' = IF canSend[plane] = "err" THEN canSend ELSE [canSend EXCEPT ![plane] = "ok"]
Pulled ==
    /\ rpc = "notify"
    /\ NotifySpace
    /\ rpc' = "scan"
    /\ RecvOnly
    /\ UNCHANGED <<ring, congested, canRecv, mode, rlane, plane, got, sawClosed, overtaken>>

\* can_recv.wait returns: there may be something new, or the task is gone.
RecvWaited ==
    /\ rpc = "wait"
    /\ \/ /\ canRecv = "ok"
          /\ canRecv' = "unset" /\ rpc' = "scan"
          /\ UNCHANGED sawClosed
       \/ /\ canRecv = "err"
          /\ sawClosed' = TRUE /\ rpc' = "idle"
          /\ UNCHANGED canRecv
    /\ RecvOnly
    /\ UNCHANGED <<ring, congested, canSend, mode, rlane, plane, got, overtaken>>

\* The timeout of recv expires, or the caller drops its future.
RecvEnds ==
    /\ "cancel" \in Env
    /\ rpc = "wait" /\ rpc' = "idle"
    /\ RecvOnly
    /\ UNCHANGED <<sharedVars, mode, rlane, plane, got, sawClosed, overtaken>>

\* Receiver::stop cancels the token and drops PipelineRxOut with its events.
StopReceiver ==
    /\ "stop" \in Env
    /\ rpc = "idle" /\ rpc' = "gone"
    /\ token' = TRUE
    /\ canRecv' = "err" /\ canSend' = [p \in Lanes |-> "err"]
    /\ UNCHANGED <<linkVars, taskVars, ring, congested, mode, rlane, plane, got, sawClosed,
                   historyVars>>

\* ReceiverTask::stop.
StopTask ==
    /\ "taskstop" \in Env /\ ~token
    /\ token' = TRUE
    /\ UNCHANGED <<linkVars, taskVars, sharedVars, recvVars, historyVars>>

----------------------------------------------------------------------------
LinkStep ==
    \E p \in Lanes :
        \/ \E m \in Msgs : Begin(p, m)
        \/ Lose(p)
ReadStep == \E p \in Lanes : ReadFragment(p) \/ \E ms \in Frames(p) : ReadFrame(p, ms)
TaskStep == ReadEnds \/ Push \/ Notify \/ Full \/ Waited
RecvStep == ScanEmpty \/ ScanHead \/ PullEmpty \/ PullHead \/ Pulled \/ RecvWaited
Next ==
    \/ LinkStep \/ ReadStep \/ TaskStep \/ TimerFires \/ RecvStep
    \/ \E how \in {"recv", "try"} : StartRecv(how)
    \/ RecvEnds \/ StopReceiver \/ StopTask

Safety == Init /\ [][Next]_vars

\* The runtime runs the reader task when it can go on and fires timers.  The link
\* owes nothing, and neither does the application: it may never receive.
Fairness ==
    /\ WF_vars(Push \/ Notify \/ Full \/ Waited) /\ WF_vars(TimerFires)
    /\ WF_vars(ReadEnds /\ token)
Spec == Safety /\ Fairness
=============================================================================
