----------------------------- MODULE TxPipeline -----------------------------
(***************************************************************************)
(* The transmission pipeline of src/src/pipeline/tx.rs together with the   *)
(* writer task of src/src/api/sender.rs that empties it.                   *)
(*                                                                         *)
(* Senders serialize messages into batches, one lane per priority: a lane  *)
(* holds committed batches (ring), at most one batch that is still being   *)
(* filled (booked) and the recycled empty buffers (free).  The writer task *)
(* pulls batches in priority order, backs off from a lane whose batch is   *)
(* still growing, writes, and recycles the buffers.                        *)
(*                                                                         *)
(* One action is one atomic access to shared state (status word, event     *)
(* flag, ring index, lane lock), together with the thread-local code       *)
(* around it.  Accesses share an action only where no other task can tell  *)
(* the difference: see KeepOrCommit, NotifyPull and TakeHead.  Events      *)
(* appear as the one-token signal of module Signal.                        *)
(***************************************************************************)
EXTENDS Integers, Sequences, FiniteSets

CONSTANTS
    Senders,        \* tasks that call Sender::send
    Msgs,           \* messages, each handed to send at most once
    NoMsg,          \* what an idle sender works on
    NPrio,          \* number of priority lanes, 1 is served first
    Capacity,       \* buffers per lane
    CoalesceMax,    \* COALESCE_MAX_BATCHES of the writer task
    FrameMax,       \* whole messages that fit into one batch
    AllocMax,       \* bound at which the allocation counter saturates
    PrioOf,         \* [Msgs -> lane]
    CcOf,           \* [Msgs -> {"block", "drop"}], the congestion control
    ExpressOf,      \* [Msgs -> BOOLEAN]
    FragsOf,        \* [Msgs -> number of batches the message fills; 1 = frame]
    Env             \* environment events that may happen, a subset of Events

Lanes == 1..NPrio
Ccs == {"block", "drop"}

\* A caller drops a send, Sender::stop, SenderTask::stop, the keep-alive period
\* elapses, a write fails or times out, the peer stops reading for good.
Events == {"cancel", "stop", "taskstop", "keepalive", "linkdown", "stall"}

ASSUME CapacityAssumption ==
    /\ NPrio \in Nat \ {0}
    /\ Capacity \in Nat \ {0}
    /\ CoalesceMax \in Nat \ {0}
    /\ FrameMax \in Nat \ {0}
    /\ AllocMax \in Nat /\ AllocMax > Capacity
ASSUME MessageAssumption ==
    /\ PrioOf \in [Msgs -> Lanes]
    /\ CcOf \in [Msgs -> Ccs]
    /\ ExpressOf \in [Msgs -> BOOLEAN]
    /\ FragsOf \in [Msgs -> Nat \ {0}]
ASSUME ActorAssumption ==
    /\ Senders \cap {"none", "writer", "stop"} = {}
    /\ NoMsg \notin Msgs
    /\ Env \subseteq Events

VARIABLES
    \* StageIn and StageRefill, per lane
    ring,           \* committed batches, oldest first
    booked,         \* the batch being filled, as a sequence of length 0 or 1
    free,           \* recycled buffers waiting in the refill ring
    allocated,      \* StageRefill::allocated
    lock,           \* holder of the lane's mutex, "none" when it is free
    bo,             \* AtomicBackoff, the growth level of the booked batch
    seqnum,         \* last sequence number used, per congestion control
    canRefill,      \* event from the writer task to the lane
    \* shared by all lanes
    congested, flush, disabled, backoff,    \* the bits of Status
    canPull,        \* event from the senders to the writer task
    flagged,        \* messages whose fragment drop flag is set
    \* the senders
    pc, msg, pieces,    \* control state, message, batches of it written so far
    res,                \* outcome of send, per message
    \* the writer task
    wpc, lane,          \* control state and the lane it looks at
    seen, inBackoff,    \* locals booked_len and backoff of pull
    hand, nref,         \* batches taken from the rings, how many were refilled
    owed,               \* lane whose refill event is about to fire, 0 for none
    wire,               \* batches written to the link
    linkUp,             \* no write has failed
    \* stopping
    token,          \* the cancellation token
    spc, slane,     \* control state of Sender::stop, lane it locks
    promised        \* messages accepted before the first request to stop

laneVars == <<ring, booked, free, allocated, lock, bo, seqnum, canRefill>>
statusVars == <<congested, flush, disabled, backoff>>
senderVars == <<pc, msg, pieces, res>>
writerVars == <<wpc, lane, seen, inBackoff, hand, nref, owed, wire, linkUp>>
stopVars == <<token, spc, slane, promised>>
vars == <<laneVars, statusVars, canPull, flagged, senderVars, writerVars, stopVars>>

Kinds == {"frame", "first", "more", "last"}
Batch == [prio : Lanes, cc : Ccs, sn : Nat, kind : Kinds, msgs : Seq(Msgs)]

\* StageRefill::pull resets nothing: a recycled buffer was cleared by refill.
FreshBatch(m) ==
    [prio |-> PrioOf[m], cc |-> CcOf[m], sn |-> 0, kind |-> "frame", msgs |-> <<>>]

SPc == {"idle", "lock", "acquire", "wait", "write", "moved", "unlock", "notify", "failed"}
WPc == {"select", "check", "scan", "setbackoff", "yield", "setflush", "tryflush",
        "reset", "park", "keepalive", "tpcheck", "tpscan", "write", "refill",
        "drain", "drainflush", "drainpull", "drainwrite", "closed"}
Draining == {"drain", "drainflush", "drainpull", "drainwrite", "closed"}
Results == {"none", "sending", "ok", "timeout", "dropped", "closed", "cancelled"}

LaneTypeOK ==
    /\ ring \in [Lanes -> Seq(Batch)]
    /\ booked \in [Lanes -> Seq(Batch)] /\ \A p \in Lanes : Len(booked[p]) <= 1
    /\ free \in [Lanes -> Nat]
    /\ allocated \in [Lanes -> 0..AllocMax]
    /\ lock \in [Lanes -> Senders \cup {"none", "writer", "stop"}]
    /\ bo \in [Lanes -> Nat]
    /\ seqnum \in [Lanes -> [Ccs -> Nat]]
    /\ canRefill \in [Lanes -> {"unset", "ok", "err"}]

SharedTypeOK ==
    /\ congested \in SUBSET Lanes /\ flush \in SUBSET Lanes
    /\ disabled \in BOOLEAN /\ backoff \in BOOLEAN
    /\ canPull \in {"unset", "ok", "err"}
    /\ flagged \in SUBSET Msgs

SenderTypeOK ==
    /\ pc \in [Senders -> SPc]
    /\ msg \in [Senders -> Msgs \cup {NoMsg}]
    /\ \A s \in Senders : pc[s] # "idle" => msg[s] \in Msgs
    /\ pieces \in [Senders -> Nat]
    /\ res \in [Msgs -> Results]

WriterTypeOK ==
    /\ wpc \in WPc /\ lane \in 1..(NPrio + 1)
    /\ seen \in [Lanes -> Nat] /\ inBackoff \in BOOLEAN
    /\ hand \in Seq(Batch) /\ nref \in 0..Len(hand) /\ owed \in Lanes \cup {0}
    /\ wire \in Seq(Batch) /\ linkUp \in BOOLEAN

StopTypeOK ==
    /\ token \in BOOLEAN
    /\ spc \in {"no", "lock", "flush", "cancel", "done"} /\ slane \in 1..(NPrio + 1)
    /\ promised \in SUBSET Msgs

TypeOK == LaneTypeOK /\ SharedTypeOK /\ SenderTypeOK /\ WriterTypeOK /\ StopTypeOK

Init ==
    /\ ring = [p \in Lanes |-> <<>>] /\ booked = [p \in Lanes |-> <<>>]
    /\ free = [p \in Lanes |-> 0] /\ allocated = [p \in Lanes |-> 0]
    /\ lock = [p \in Lanes |-> "none"] /\ bo = [p \in Lanes |-> 0]
    /\ seqnum = [p \in Lanes |-> [c \in Ccs |-> 0]]
    /\ canRefill = [p \in Lanes |-> "unset"]
    /\ congested = {} /\ flush = {} /\ disabled = FALSE /\ backoff = FALSE
    /\ canPull = "unset" /\ flagged = {}
    /\ pc = [s \in Senders |-> "idle"] /\ msg = [s \in Senders |-> NoMsg]
    /\ pieces = [s \in Senders |-> 0] /\ res = [m \in Msgs |-> "none"]
    /\ wpc = "select" /\ lane = 1
    /\ seen = [p \in Lanes |-> 0] /\ inBackoff = FALSE
    /\ hand = <<>> /\ nref = 0 /\ owed = 0 /\ wire = <<>> /\ linkUp = TRUE
    /\ token = FALSE /\ spc = "no" /\ slane = 1 /\ promised = {}

----------------------------------------------------------------------------
(* Lanes, status and events *)

LaneOf(s) == PrioOf[msg[s]]

\* The booked batch b of lane p becomes visible to the writer task.
Commit(p, b) ==
    /\ ring' = [ring EXCEPT ![p] = Append(@, b)]
    /\ booked' = [booked EXCEPT ![p] = <<>>]

\* Mutant: the first lane is left out.
FlushLanes_NotFirst(ps) ==
    LET fs == ps \ {1} IN
    /\ ring' = [p \in Lanes |-> IF p \in fs THEN ring[p] \o booked[p] ELSE ring[p]]
    /\ booked' = [p \in Lanes |-> IF p \in fs THEN <<>> ELSE booked[p]]

\* StageInPrio::flush for the lanes in ps.
FlushLanes(ps) ==
    /\ ring' = [p \in Lanes |-> IF p \in ps THEN ring[p] \o booked[p] ELSE ring[p]]
    /\ booked' = [p \in Lanes |-> IF p \in ps THEN <<>> ELSE booked[p]]

Unlocked(h) == [p \in Lanes |-> IF lock[p] = h THEN "none" ELSE lock[p]]

\* Mutants: the buffer is not pushed back; its event does not fire.
Refill_Leak(p) == UNCHANGED free /\ owed' = p
Refill_Silent(p) == free' = [free EXCEPT ![p] = @ + 1] /\ UNCHANGED owed

\* StageOut::refill: the buffer goes back to its lane, whose event then fires
\* (FireRefill).
Refill(p) ==
    /\ free' = [free EXCEPT ![p] = @ + 1]
    /\ owed' = p

\* The notify closure of StageIn::push: silent while the writer task backs off.
\* A back-off that begins between its load of the status and its notification
\* finds a token it did not need, as if it had begun after both.
NotifyFails == ~backoff /\ canPull = "err"
NotifyPull == canPull' = IF backoff \/ canPull = "err" THEN canPull ELSE "ok"

\* The allocation counter moves whenever the refill ring is empty.
CountAllocation(p) ==
    allocated' = [allocated EXCEPT ![p] = IF @ < AllocMax THEN @ + 1 ELSE @]

----------------------------------------------------------------------------
(* Senders: PipelineTxIn::push, StageIn::push, StageInPrio::push *)

\* send returns r for the message of s, which gives back the lane's lock.
Return(s, r) ==
    /\ res' = [res EXCEPT ![msg[s]] = r]
    /\ pc' = [pc EXCEPT ![s] = "idle"]
    /\ msg' = [msg EXCEPT ![s] = NoMsg]
    /\ pieces' = [pieces EXCEPT ![s] = 0]
    /\ lock' = Unlocked(s)

\* Timeout and Dropped: the fragments sent so far are flagged, the lock is
\* given back, and only then the lane is marked congested.
Fail(s, r) ==
    /\ flagged' = IF pieces[s] > 0 THEN flagged \cup {msg[s]} ELSE flagged
    /\ res' = [res EXCEPT ![msg[s]] = r]
    /\ pc' = [pc EXCEPT ![s] = "failed"]
    /\ lock' = Unlocked(s)

Send(s, m) ==
    /\ pc[s] = "idle" /\ res[m] = "none"
    /\ IF CcOf[m] = "drop" /\ PrioOf[m] \in congested
       THEN /\ res' = [res EXCEPT ![m] = "dropped"]
            /\ UNCHANGED <<pc, msg, pieces>>
       ELSE /\ res' = [res EXCEPT ![m] = "sending"]
            /\ pc' = [pc EXCEPT ![s] = "lock"]
            /\ msg' = [msg EXCEPT ![s] = m]
            /\ UNCHANGED pieces
    /\ UNCHANGED <<laneVars, statusVars, canPull, flagged, writerVars, stopVars>>

Lock(s) ==
    /\ pc[s] = "lock" /\ lock[LaneOf(s)] = "none"
    /\ lock' = [lock EXCEPT ![LaneOf(s)] = s]
    /\ pc' = [pc EXCEPT ![s] = "acquire"]
    /\ UNCHANGED <<ring, booked, free, allocated, bo, seqnum, canRefill, statusVars,
                   canPull, flagged, msg, pieces, res, writerVars, stopVars>>

LockTimeout(s) ==
    /\ pc[s] = "lock" /\ lock[LaneOf(s)] # "none"
    /\ Fail(s, "timeout")
    /\ UNCHANGED <<ring, booked, free, allocated, bo, seqnum, canRefill, statusVars,
                   canPull, msg, pieces, writerVars, stopVars>>

AcquireBooked(s) ==
    /\ pc[s] = "acquire" /\ booked[LaneOf(s)] # <<>>
    /\ pc' = [pc EXCEPT ![s] = "write"]
    /\ UNCHANGED <<laneVars, statusVars, canPull, flagged, msg, pieces, res,
                   writerVars, stopVars>>

\* A recycled or a new buffer is booked; its backoff level restarts from 0.
AcquireFresh(s) ==
    LET p == LaneOf(s) IN
    /\ pc[s] = "acquire" /\ booked[p] = <<>>
    /\ \/ free[p] > 0 /\ free' = [free EXCEPT ![p] = @ - 1] /\ UNCHANGED allocated
       \/ free[p] = 0 /\ allocated[p] < Capacity /\ CountAllocation(p) /\ UNCHANGED free
    /\ booked' = [booked EXCEPT ![p] = <<FreshBatch(msg[s])>>]
    /\ bo' = [bo EXCEPT ![p] = 0]
    /\ pc' = [pc EXCEPT ![s] = "write"]
    /\ UNCHANGED <<ring, lock, seqnum, canRefill, statusVars, canPull, flagged,
                   msg, pieces, res, writerVars, stopVars>>

\* Mutant: peek is forgotten, the lane's own unfinished batch is not used.
Exhausted_NoPeek(p) == free[p] = 0 /\ allocated[p] >= Capacity

Exhausted(p) == booked[p] = <<>> /\ free[p] = 0 /\ allocated[p] >= Capacity

\* No buffer: wait for one, or give up when the deadline has already passed.
AcquireNone(s) ==
    LET p == LaneOf(s) IN
    /\ pc[s] = "acquire" /\ Exhausted(p)
    /\ CountAllocation(p)
    /\ \/ pc' = [pc EXCEPT ![s] = "wait"] /\ UNCHANGED <<lock, flagged, res>>
       \/ Fail(s, "timeout")
    /\ UNCHANGED <<ring, booked, free, bo, seqnum, canRefill, statusVars, canPull,
                   msg, pieces, writerVars, stopVars>>

WaitRefilled(s) ==
    LET p == LaneOf(s) IN
    /\ pc[s] = "wait" /\ canRefill[p] = "ok"
    /\ canRefill' = [canRefill EXCEPT ![p] = "unset"]
    /\ pc' = [pc EXCEPT ![s] = "acquire"]
    /\ UNCHANGED <<ring, booked, free, allocated, lock, bo, seqnum, statusVars,
                   canPull, flagged, msg, pieces, res, writerVars, stopVars>>

\* Mutant: the wait has no timer.
WaitFails_NoTimer(s) ==
    /\ pc[s] = "wait" /\ canRefill[LaneOf(s)] = "err" /\ Fail(s, "dropped")
    /\ UNCHANGED <<ring, booked, free, allocated, bo, seqnum, canRefill, statusVars,
                   canPull, msg, pieces, writerVars, stopVars>>

\* The progress interval elapses, or the writer task is gone.
WaitFails(s) ==
    /\ pc[s] = "wait"
    /\ \/ canRefill[LaneOf(s)] = "unset" /\ Fail(s, "timeout")
       \/ canRefill[LaneOf(s)] = "err" /\ Fail(s, "dropped")
    /\ UNCHANGED <<ring, booked, free, allocated, bo, seqnum, canRefill, statusVars,
                   canPull, msg, pieces, writerVars, stopVars>>

\* PipelineTxIn::push after a Timeout or a Dropped.
SetCongested(s) ==
    /\ pc[s] = "failed"
    /\ congested' = congested \cup {LaneOf(s)}
    /\ Return(s, res[msg[s]])
    /\ UNCHANGED <<ring, booked, free, allocated, bo, seqnum, canRefill, flush,
                   disabled, backoff, canPull, flagged, writerVars, stopVars>>

\* The caller drops the future of send at one of its suspension points.
Cancel(s) ==
    /\ "cancel" \in Env /\ pc[s] \in {"lock", "wait"}
    /\ Return(s, "cancelled")
    /\ UNCHANGED <<ring, booked, free, allocated, bo, seqnum, canRefill, statusVars,
                   canPull, flagged, writerVars, stopVars>>

\* AtomicBackoff::update ORs the length into the level, which therefore grows
\* or, from the third message on, may stay as it is.
Growth(p) == IF bo[p] >= 2 THEN {0, 1} ELSE {1}

\* return_notify: a written batch b is committed when the message is express or
\* the writer task asked for a flush, and stays booked otherwise.  The lane is
\* locked: the writer task could use a FLUSH bit, a level or a commit seen
\* apart from the others only to try a flush, which fails.
KeepOrCommit(s, b) ==
    LET p == LaneOf(s)
        express == ExpressOf[msg[s]] IN
    /\ pieces' = [pieces EXCEPT ![s] = 1]
    /\ flush' = IF express THEN flush ELSE flush \ {p}
    /\ IF express \/ p \in flush
       THEN /\ Commit(p, b)
            /\ bo' = [bo EXCEPT ![p] = 0]
            /\ pc' = [pc EXCEPT ![s] = "moved"]
       ELSE /\ booked' = [booked EXCEPT ![p] = <<b>>]
            /\ \E growth \in Growth(p) : bo' = [bo EXCEPT ![p] = @ + growth]
            /\ pc' = [pc EXCEPT ![s] = "unlock"]
            /\ UNCHANGED ring

\* STEP 1: the message fits into the frame that is being filled.
Fits(s, b) ==
    /\ b.cc = CcOf[msg[s]]
    /\ FragsOf[msg[s]] = 1
    /\ Len(b.msgs) < FrameMax

WriteAppend(s) ==
    LET b == Head(booked[LaneOf(s)]) IN
    /\ pc[s] = "write" /\ b.msgs # <<>> /\ Fits(s, b)
    /\ KeepOrCommit(s, [b EXCEPT !.msgs = Append(@, msg[s])])
    /\ UNCHANGED <<free, allocated, lock, seqnum, canRefill, congested, disabled,
                   backoff, canPull, flagged, msg, res, writerVars, stopVars>>

\* STEP 1: it does not, so that frame is committed and a new batch acquired.
WriteFull(s) ==
    LET p == LaneOf(s)
        b == Head(booked[p]) IN
    /\ pc[s] = "write" /\ b.msgs # <<>> /\ ~Fits(s, b)
    /\ Commit(p, b)
    /\ bo' = [bo EXCEPT ![p] = 0]
    /\ pc' = [pc EXCEPT ![s] = "moved"]
    /\ UNCHANGED <<free, allocated, lock, seqnum, canRefill, statusVars, canPull,
                   flagged, msg, pieces, res, writerVars, stopVars>>

NextSn(s) == seqnum[LaneOf(s)][CcOf[msg[s]]] + 1

\* Mutant: the number is advanced twice.
UseSn_Twice(s) == seqnum' = [seqnum EXCEPT ![LaneOf(s)][CcOf[msg[s]]] = NextSn(s) + 1]

UseSn(s) == seqnum' = [seqnum EXCEPT ![LaneOf(s)][CcOf[msg[s]]] = NextSn(s)]

\* STEP 2: a new frame on a fresh batch.
WriteFrame(s) ==
    LET b == Head(booked[LaneOf(s)]) IN
    /\ pc[s] = "write" /\ b.msgs = <<>> /\ FragsOf[msg[s]] = 1
    /\ UseSn(s)
    /\ KeepOrCommit(s, [b EXCEPT !.sn = NextSn(s), !.msgs = <<msg[s]>>])
    /\ UNCHANGED <<free, allocated, lock, canRefill, congested, disabled, backoff,
                   canPull, flagged, msg, res, writerVars, stopVars>>

\* STEP 3: the next fragment of a message that does not fit into a batch.
FragKind(s) ==
    IF pieces[s] = 0 THEN "first"
    ELSE IF pieces[s] + 1 = FragsOf[msg[s]] THEN "last" ELSE "more"

WriteFragment(s) ==
    LET p == LaneOf(s)
        b == Head(booked[p]) IN
    /\ pc[s] = "write" /\ b.msgs = <<>> /\ FragsOf[msg[s]] > 1
    /\ UseSn(s)
    /\ Commit(p, [b EXCEPT !.sn = NextSn(s), !.kind = FragKind(s), !.msgs = <<msg[s]>>])
    /\ bo' = [bo EXCEPT ![p] = 0]
    /\ pieces' = [pieces EXCEPT ![s] = @ + 1]
    /\ pc' = [pc EXCEPT ![s] = "moved"]
    /\ UNCHANGED <<free, allocated, lock, canRefill, statusVars, canPull, flagged,
                   msg, res, writerVars, stopVars>>

\* Mutant: the loop over the fragments asks for one batch too many.
Done_TooLate(s) == pieces[s] > FragsOf[msg[s]]

Done(s) == pieces[s] = FragsOf[msg[s]]

\* Mutant: the lane is unlocked between two batches of a message.
Continue_Unlocked(s) ==
    /\ pc' = [pc EXCEPT ![s] = "lock"]
    /\ lock' = Unlocked(s)
    /\ UNCHANGED <<msg, pieces, res>>

Continue(s) ==
    /\ pc' = [pc EXCEPT ![s] = "acquire"]
    /\ UNCHANGED <<lock, msg, pieces, res>>

\* The notification of move_batch, under the lane's lock.
MovedNotify(s) ==
    /\ pc[s] = "moved"
    /\ NotifyPull
    /\ IF NotifyFails THEN Return(s, "closed")
       ELSE IF Done(s) THEN Return(s, "ok")
       ELSE Continue(s)
    /\ UNCHANGED <<ring, booked, free, allocated, bo, seqnum, canRefill, statusVars,
                   flagged, writerVars, stopVars>>

\* drop(queue), with the written batch left booked.
Unlock(s) ==
    /\ pc[s] = "unlock"
    /\ lock' = Unlocked(s)
    /\ pc' = [pc EXCEPT ![s] = "notify"]
    /\ UNCHANGED <<ring, booked, free, allocated, bo, seqnum, canRefill, statusVars,
                   canPull, flagged, msg, pieces, res, writerVars, stopVars>>

\* The notification after the lock was given back.
LateNotify(s) ==
    /\ pc[s] = "notify"
    /\ NotifyPull
    /\ Return(s, IF NotifyFails THEN "closed" ELSE "ok")
    /\ UNCHANGED <<ring, booked, free, allocated, bo, seqnum, canRefill, statusVars,
                   flagged, writerVars, stopVars>>

----------------------------------------------------------------------------
(* Writer task: PipelineTxOut::pull, try_pull, drain and write_task *)

NewPull ==
    /\ seen' = [p \in Lanes |-> 0]
    /\ inBackoff' = FALSE

\* The loop condition of pull; at "select" this is the first poll of a pull.
PullCheck ==
    /\ wpc \in {"select", "check"}
    /\ wpc' = IF disabled THEN "drain" ELSE "scan"
    /\ lane' = 1
    /\ UNCHANGED <<laneVars, statusVars, canPull, flagged, senderVars, seen, inBackoff,
                   hand, nref, owed, wire, linkUp, stopVars>>

\* Mutant: congestion discards the batches of either mode.
Discarded_AnyMode(b) ==
    b.prio \in congested \/ (b.kind # "frame" /\ Head(b.msgs) \in flagged)

\* A batch of a congested lane in drop mode, or of a failed fragmentation.
Discarded(b) ==
    \/ b.prio \in congested /\ b.cc = "drop"
    \/ b.kind # "frame" /\ Head(b.msgs) \in flagged

\* Pull::Some: the lane is no longer congested; its oldest batch is recycled
\* unread, after which the scan restarts at restart, or goes to the writer.
\* Nobody else takes from the ring, so it matters only when the bit is cleared.
TakeHead(restart) ==
    LET b == Head(ring[lane]) IN
    /\ ring[lane] # <<>>
    /\ ring' = [ring EXCEPT ![lane] = Tail(@)]
    /\ congested' = congested \ {lane}
    /\ IF Discarded(b)
       THEN /\ Refill(b.prio)
            /\ wpc' = restart
            /\ UNCHANGED <<seen, inBackoff, hand>>
       ELSE /\ hand' = Append(hand, b)
            /\ wpc' = IF Len(hand) + 1 < CoalesceMax THEN "tpcheck" ELSE "write"
            /\ NewPull
            /\ UNCHANGED <<free, owed>>
    /\ UNCHANGED <<booked, allocated, lock, bo, seqnum, canRefill, flush, disabled,
                   backoff, canPull, flagged, senderVars, lane, nref, wire, linkUp,
                   stopVars>>

FireRefill ==
    /\ owed # 0
    /\ canRefill' = [canRefill EXCEPT ![owed] = "ok"]
    /\ owed' = 0
    /\ UNCHANGED <<ring, booked, free, allocated, lock, bo, seqnum, statusVars, canPull,
                   flagged, senderVars, wpc, lane, seen, inBackoff, hand, nref, wire,
                   linkUp, stopVars>>

PullSome == wpc = "scan" /\ lane \in Lanes /\ TakeHead("check")

\* Pull::Booked: the first one of a pull silences the senders (SetBackoff).
PullBooked ==
    /\ wpc = "scan" /\ lane \in Lanes /\ ring[lane] = <<>> /\ booked[lane] # <<>>
    /\ inBackoff' = TRUE
    /\ wpc' = IF inBackoff THEN "yield" ELSE "setbackoff"
    /\ UNCHANGED <<laneVars, statusVars, canPull, flagged, senderVars, lane, seen, hand,
                   nref, owed, wire, linkUp, stopVars>>

SetBackoff ==
    /\ wpc = "setbackoff"
    /\ backoff' = TRUE
    /\ wpc' = "yield"
    /\ UNCHANGED <<laneVars, congested, flush, disabled, canPull, flagged, senderVars,
                   lane, seen, inBackoff, hand, nref, owed, wire, linkUp, stopVars>>

PullNone ==
    /\ wpc = "scan" /\ lane \in Lanes /\ ring[lane] = <<>> /\ booked[lane] = <<>>
    /\ lane' = lane + 1
    /\ wpc' = IF lane = NPrio THEN "reset" ELSE "scan"
    /\ UNCHANGED <<laneVars, statusVars, canPull, flagged, senderVars, seen, inBackoff,
                   hand, nref, owed, wire, linkUp, stopVars>>

\* Mutant: a batch that stopped growing is left alone.
Yield_Patient ==
    /\ wpc = "yield"
    /\ seen' = [seen EXCEPT ![lane] = bo[lane]]
    /\ \/ bo[lane] <= seen[lane] /\ wpc' = "check"
       \/ bo[lane] > seen[lane] /\ wpc' \in {"check", "setflush"}
    /\ UNCHANGED <<laneVars, statusVars, canPull, flagged, senderVars, lane, inBackoff,
                   hand, nref, owed, wire, linkUp, stopVars>>

\* After yielding: pull the batch if it stopped growing, or if it is too old.
Yield ==
    /\ wpc = "yield"
    /\ seen' = [seen EXCEPT ![lane] = bo[lane]]
    /\ \/ bo[lane] < seen[lane] /\ wpc' = "check"
       \/ bo[lane] = seen[lane] /\ wpc' = "tryflush"
       \/ bo[lane] > seen[lane] /\ wpc' \in {"check", "setflush"}
    /\ UNCHANGED <<laneVars, statusVars, canPull, flagged, senderVars, lane, inBackoff,
                   hand, nref, owed, wire, linkUp, stopVars>>

SetFlush ==
    /\ wpc = "setflush"
    /\ flush' = flush \cup {lane}
    /\ wpc' = "tryflush"
    /\ UNCHANGED <<laneVars, congested, disabled, backoff, canPull, flagged, senderVars,
                   lane, seen, inBackoff, hand, nref, owed, wire, linkUp, stopVars>>

\* try_lock and flush; a lane locked by a sender is left to its FLUSH bit.
TryFlush ==
    /\ wpc = "tryflush"
    /\ IF lock[lane] = "none" THEN FlushLanes({lane}) ELSE UNCHANGED <<ring, booked>>
    /\ wpc' = "check"
    /\ UNCHANGED <<free, allocated, lock, bo, seqnum, canRefill, statusVars, canPull,
                   flagged, senderVars, lane, seen, inBackoff, hand, nref, owed, wire,
                   linkUp, stopVars>>

\* Nothing in any lane: the senders are to notify again.
ResetBackoff ==
    /\ wpc = "reset"
    /\ NewPull
    /\ backoff' = FALSE
    /\ wpc' = "park"
    /\ UNCHANGED <<laneVars, congested, flush, disabled, canPull, flagged, senderVars,
                   lane, hand, nref, owed, wire, linkUp, stopVars>>

Unpark ==
    /\ wpc = "park" /\ canPull = "ok"
    /\ canPull' = "unset"
    /\ wpc' = "check"
    /\ UNCHANGED <<laneVars, statusVars, flagged, senderVars, lane, seen, inBackoff,
                   hand, nref, owed, wire, linkUp, stopVars>>

\* The keep-alive period elapses inside pull, whose future is dropped.
KeepAlive ==
    /\ "keepalive" \in Env
    /\ wpc = "yield" \/ (wpc = "park" /\ canPull = "unset")
    /\ NewPull
    /\ wpc' = "keepalive"
    /\ UNCHANGED <<laneVars, statusVars, canPull, flagged, senderVars, lane, hand, nref,
                   owed, wire, linkUp, stopVars>>

\* The keep-alive carries no batch; unlike the others its write has no timeout.
KeepAliveWritten ==
    /\ wpc = "keepalive"
    /\ \/ wpc' = "select" /\ UNCHANGED linkUp
       \/ "linkdown" \in Env /\ wpc' = "drain" /\ linkUp' = FALSE
    /\ lane' = 1
    /\ UNCHANGED <<laneVars, statusVars, canPull, flagged, senderVars, seen, inBackoff,
                   hand, nref, owed, wire, stopVars>>

\* select! sees the cancelled token at a suspension point of pull.
SeeToken ==
    /\ token /\ wpc \in {"select", "yield", "park"}
    /\ NewPull
    /\ wpc' = "drain" /\ lane' = 1
    /\ UNCHANGED <<laneVars, statusVars, canPull, flagged, senderVars, hand, nref, owed,
                   wire, linkUp, stopVars>>

\* try_pull, which stops at the first booked batch.
TryPullCheck ==
    /\ wpc = "tpcheck"
    /\ wpc' = IF disabled THEN "write" ELSE "tpscan"
    /\ lane' = 1
    /\ UNCHANGED <<laneVars, statusVars, canPull, flagged, senderVars, seen, inBackoff,
                   hand, nref, owed, wire, linkUp, stopVars>>

TryPullSome == wpc = "tpscan" /\ lane \in Lanes /\ TakeHead("tpcheck")

TryPullNone ==
    /\ wpc = "tpscan" /\ lane \in Lanes /\ ring[lane] = <<>>
    /\ IF booked[lane] = <<>> /\ lane < NPrio
       THEN lane' = lane + 1 /\ UNCHANGED wpc
       ELSE wpc' = "write" /\ UNCHANGED lane
    /\ UNCHANGED <<laneVars, statusVars, canPull, flagged, senderVars, seen, inBackoff,
                   hand, nref, owed, wire, linkUp, stopVars>>

\* One vectored write of all the batches in hand.
Write ==
    /\ wpc = "write"
    /\ wire' = wire \o hand
    /\ wpc' = "refill"
    /\ UNCHANGED <<laneVars, statusVars, canPull, flagged, senderVars, lane, seen,
                   inBackoff, hand, nref, owed, linkUp, stopVars>>

\* Mutant: the batches in hand are kept for the drain to write again.
WriteFails_Retry ==
    /\ "linkdown" \in Env /\ wpc = "write"
    /\ \E k \in 0..Len(hand) : wire' = wire \o SubSeq(hand, 1, k)
    /\ linkUp' = FALSE
    /\ wpc' = "drain" /\ lane' = 1
    /\ UNCHANGED <<laneVars, statusVars, canPull, flagged, senderVars, seen, inBackoff,
                   hand, nref, owed, stopVars>>

\* It fails or times out after some of them; the buffers are freed, not reused.
WriteFails ==
    /\ "linkdown" \in Env /\ wpc = "write"
    /\ \E k \in 0..Len(hand) : wire' = wire \o SubSeq(hand, 1, k)
    /\ linkUp' = FALSE
    /\ hand' = <<>> /\ nref' = 0
    /\ wpc' = "drain" /\ lane' = 1
    /\ UNCHANGED <<laneVars, statusVars, canPull, flagged, senderVars, seen, inBackoff,
                   owed, stopVars>>

RefillHand ==
    /\ wpc = "refill" /\ nref < Len(hand)
    /\ Refill(hand[nref + 1].prio)
    /\ nref' = nref + 1
    /\ UNCHANGED <<ring, booked, allocated, lock, bo, seqnum, canRefill, statusVars,
                   canPull, flagged, senderVars, wpc, lane, seen, inBackoff, hand, wire,
                   linkUp, stopVars>>

\* Mutant: the position in the next hand is not reset.
RefillDone_NoReset ==
    /\ wpc = "refill" /\ nref = Len(hand)
    /\ hand' = <<>> /\ wpc' = "select" /\ lane' = 1
    /\ UNCHANGED <<laneVars, statusVars, canPull, flagged, senderVars, seen, inBackoff,
                   nref, owed, wire, linkUp, stopVars>>

RefillDone ==
    /\ wpc = "refill" /\ nref = Len(hand)
    /\ hand' = <<>> /\ nref' = 0
    /\ wpc' = "select" /\ lane' = 1
    /\ UNCHANGED <<laneVars, statusVars, canPull, flagged, senderVars, seen, inBackoff,
                   owed, wire, linkUp, stopVars>>

\* drain locks every lane, in the order of Priority::ALL ...
DrainLock ==
    /\ wpc = "drain" /\ lane \in Lanes /\ lock[lane] = "none"
    /\ lock' = [lock EXCEPT ![lane] = "writer"]
    /\ lane' = lane + 1
    /\ wpc' = IF lane = NPrio THEN "drainflush" ELSE "drain"
    /\ UNCHANGED <<ring, booked, free, allocated, bo, seqnum, canRefill, statusVars,
                   canPull, flagged, senderVars, seen, inBackoff, hand, nref, owed, wire,
                   linkUp, stopVars>>

\* ... flushes them, ...
DrainFlush ==
    /\ wpc = "drainflush"
    /\ FlushLanes(Lanes)
    /\ wpc' = "drainpull"
    /\ UNCHANGED <<free, allocated, lock, bo, seqnum, canRefill, statusVars, canPull,
                   flagged, senderVars, lane, seen, inBackoff, hand, nref, owed, wire,
                   linkUp, stopVars>>

\* ... and pulls every batch, discarding none, before it lets go of the locks.
DrainPull ==
    /\ wpc = "drainpull"
    /\ \E p \in Lanes :
        /\ ring[p] # <<>> /\ \A q \in Lanes : q < p => ring[q] = <<>>
        /\ hand' = Append(hand, Head(ring[p]))
        /\ ring' = [ring EXCEPT ![p] = Tail(@)]
    /\ UNCHANGED <<booked, free, allocated, lock, bo, seqnum, canRefill, statusVars,
                   canPull, flagged, senderVars, wpc, lane, seen, inBackoff, nref, owed, wire,
                   linkUp, stopVars>>

DrainUnlock ==
    /\ wpc = "drainpull" /\ \A p \in Lanes : ring[p] = <<>>
    /\ lock' = Unlocked("writer")
    /\ wpc' = "drainwrite"
    /\ UNCHANGED <<ring, booked, free, allocated, bo, seqnum, canRefill, statusVars,
                   canPull, flagged, senderVars, lane, seen, inBackoff, hand, nref, owed, wire,
                   linkUp, stopVars>>

\* The drained batches are written and recycled one by one.
DrainWrite ==
    /\ wpc = "drainwrite" /\ nref < Len(hand)
    /\ wire' = Append(wire, hand[nref + 1])
    /\ Refill(hand[nref + 1].prio)
    /\ nref' = nref + 1
    /\ UNCHANGED <<ring, booked, allocated, lock, bo, seqnum, canRefill, statusVars,
                   canPull, flagged, senderVars, wpc, lane, seen, inBackoff, hand, linkUp,
                   stopVars>>

\* write_task returns and drops PipelineTxOut: the senders can no longer notify,
\* and then the refill events close lane by lane (CloseLane).
Close ==
    /\ wpc' = "closed"
    /\ hand' = <<>> /\ nref' = 0
    /\ canPull' = "err"
    /\ UNCHANGED <<laneVars, statusVars, flagged, senderVars, lane, seen, inBackoff, owed,
                   stopVars>>

CloseLane ==
    /\ wpc = "closed"
    /\ \E p \in Lanes :
        /\ canRefill[p] # "err" /\ \A q \in Lanes : q < p => canRefill[q] = "err"
        /\ canRefill' = [canRefill EXCEPT ![p] = "err"]
    /\ UNCHANGED <<ring, booked, free, allocated, lock, bo, seqnum, statusVars, canPull,
                   flagged, senderVars, writerVars, stopVars>>

DrainWriteFails ==
    /\ "linkdown" \in Env /\ wpc = "drainwrite" /\ nref < Len(hand)
    /\ wire' \in {wire, Append(wire, hand[nref + 1])}
    /\ linkUp' = FALSE
    /\ Close

DrainDone ==
    /\ wpc = "drainwrite" /\ nref = Len(hand)
    /\ Close
    /\ UNCHANGED <<wire, linkUp>>

----------------------------------------------------------------------------
(* Sender::stop with PipelineTxIn::disable, and SenderTask::stop *)

\* Messages accepted so far are promised when the first request arrives.
Promise ==
    promised' = IF disabled \/ token THEN promised ELSE {m \in Msgs : res[m] = "ok"}

StopDisable ==
    /\ "stop" \in Env /\ spc = "no"
    /\ Promise
    /\ disabled' = TRUE
    /\ spc' = "lock"
    /\ UNCHANGED <<laneVars, congested, flush, backoff, canPull, flagged, senderVars,
                   writerVars, token, slane>>

StopLock ==
    /\ spc = "lock" /\ slane \in Lanes /\ lock[slane] = "none"
    /\ lock' = [lock EXCEPT ![slane] = "stop"]
    /\ slane' = slane + 1
    /\ spc' = IF slane = NPrio THEN "flush" ELSE "lock"
    /\ UNCHANGED <<ring, booked, free, allocated, bo, seqnum, canRefill, statusVars,
                   canPull, flagged, senderVars, writerVars, token, promised>>

\* Every lane is flushed under all the locks, which are then given back.
StopFlush ==
    /\ spc = "flush"
    /\ FlushLanes(Lanes)
    /\ lock' = Unlocked("stop")
    /\ spc' = "cancel"
    /\ UNCHANGED <<free, allocated, bo, seqnum, canRefill, statusVars, canPull, flagged,
                   senderVars, writerVars, token, slane, promised>>

StopCancel ==
    /\ spc = "cancel"
    /\ token' = TRUE
    /\ spc' = "done"
    /\ UNCHANGED <<laneVars, statusVars, canPull, flagged, senderVars, writerVars,
                   slane, promised>>

TaskStop ==
    /\ "taskstop" \in Env /\ ~token
    /\ Promise
    /\ token' = TRUE
    /\ UNCHANGED <<laneVars, statusVars, canPull, flagged, senderVars, writerVars,
                   spc, slane>>

----------------------------------------------------------------------------

SenderStep(s) ==
    \/ Lock(s) \/ LockTimeout(s)
    \/ AcquireBooked(s) \/ AcquireFresh(s) \/ AcquireNone(s)
    \/ WaitRefilled(s) \/ WaitFails(s) \/ SetCongested(s)
    \/ WriteAppend(s) \/ WriteFull(s) \/ WriteFrame(s) \/ WriteFragment(s)
    \/ MovedNotify(s) \/ Unlock(s) \/ LateNotify(s)

PullStep ==
    \/ PullCheck \/ PullSome \/ PullBooked \/ SetBackoff \/ PullNone
    \/ Yield \/ SetFlush \/ TryFlush \/ ResetBackoff \/ Unpark
    \/ TryPullCheck \/ TryPullSome \/ TryPullNone

WriteStep == Write \/ WriteFails \/ RefillHand \/ RefillDone

DrainStep ==
    \/ DrainLock \/ DrainFlush \/ DrainPull \/ DrainUnlock
    \/ DrainWrite \/ DrainWriteFails \/ DrainDone \/ CloseLane

\* The event of a refill fires before the writer task does anything else.
WriterStep == FireRefill \/ (owed = 0 /\ (PullStep \/ WriteStep \/ DrainStep))

StopStep == StopLock \/ StopFlush \/ StopCancel

Next ==
    \/ \E s \in Senders : SenderStep(s) \/ Cancel(s) \/ \E m \in Msgs : Send(s, m)
    \/ WriterStep \/ KeepAlive \/ KeepAliveWritten \/ SeeToken
    \/ StopDisable \/ StopStep \/ TaskStop

Safety == Init /\ [][Next]_vars

\* A send that has begun is polled, and its timers expire.
SenderFairness == \A s \in Senders : WF_vars(SenderStep(s))

\* The runtime polls the writer task; its keep-alive timer and its cancelled
\* token are noticed; a mutex that is free is acquired by its next waiter.  A
\* write ends in time or is ended by its timeout, except that of a keep-alive.
WriterFairness ==
    /\ WF_vars(WriterStep)
    /\ WF_vars(KeepAlive)
    /\ "stall" \notin Env => WF_vars(KeepAliveWritten)
    /\ SF_vars(SeeToken)

StopFairness == WF_vars(StopStep)

\* The keep-alive period (3 s) is longer than the yields of one back-off, so it
\* does not for ever interrupt a pull that is about to flush a batch.
KeepAliveIsSlow == <>[][~(wpc = "yield" /\ KeepAlive)]_vars

Fairness == SenderFairness /\ WriterFairness /\ StopFairness /\ KeepAliveIsSlow

Spec == Safety /\ Fairness
=============================================================================
