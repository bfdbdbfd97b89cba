---------------------------- MODULE TxProperties ----------------------------
(* What the transmission pipeline guarantees, stated over TxPipeline. *)
EXTENDS TxPipeline

AllIdle == \A s \in Senders : pc[s] = "idle"
Block(m) == CcOf[m] = "block"

----------------------------------------------------------------------------
(* Buffers *)

\* Buffers of lane p that the writer task has not yet given back.
Held(p) == Cardinality({i \in (nref + 1)..Len(hand) : hand[i].prio = p})
Buffers(p) == free[p] + Len(ring[p]) + Len(booked[p]) + Held(p)
Owned(p) == IF allocated[p] < Capacity THEN allocated[p] ELSE Capacity

\* Buffers are neither duplicated nor leaked: a lane never has more of them than
\* it allocated, and until a write fails (which frees what was in hand) each is
\* in exactly one place.  Hence the rings of Capacity slots never overflow, and
\* neither StageOut::refill loses a buffer nor book returns SendError::Internal.
BufferConservation ==
    \A p \in Lanes :
        /\ Buffers(p) <= Owned(p)
        /\ linkUp => Buffers(p) = Owned(p)

\* A sender that waits for a buffer has left no unfinished batch in its lane,
\* whose buffer only the lane's own lock holder could release: with a single
\* buffer per lane it would otherwise wait for itself (StageInPrio::push).
WaiterLeavesNoBatch ==
    \A s \in Senders : pc[s] = "wait" =>
        lock[LaneOf(s)] = s /\ booked[LaneOf(s)] = <<>>

\* No refill is missed: while a sender waits and its event is not set, no
\* recycled buffer is available or the event is about to fire
\* (StageRefill::pull then can_refill.wait(), push then notify in refill).
RefillNotMissed ==
    \A s \in Senders : pc[s] = "wait" /\ canRefill[LaneOf(s)] = "unset" =>
        free[LaneOf(s)] = 0 \/ owed = LaneOf(s)

----------------------------------------------------------------------------
(* Messages *)

\* Batches of sequence q that carry m, whole or in part.
PiecesIn(q, m) == Cardinality({i \in 1..Len(q) : \E k \in 1..Len(q[i].msgs) : q[i].msgs[k] = m})

Unwritten == IF wpc = "refill" THEN <<>> ELSE SubSeq(hand, nref + 1, Len(hand))

\* Pieces of m in the lane and in the writer task, not yet on the wire.
Queued(m) ==
    LET p == PrioOf[m] IN
    PiecesIn(ring[p], m) + PiecesIn(booked[p], m) + PiecesIn(Unwritten, m)

Written(m) == PiecesIn(wire, m)
Delivered(m) == Written(m) = FragsOf[m]

\* No send has failed in a way that discards batches of congestion control c:
\* a failure flags its own fragments and, by congestion, best-effort batches.
Lossless(c) ==
    \A m \in Msgs : res[m] \in {"timeout", "dropped"} => c = "block" /\ ~Block(m)

\* Every piece of an accepted message is on its way or written, exactly once,
\* while the link is up: a reliable message always, a best-effort message as
\* long as no send has met congestion.
AcceptedNotLost ==
    \A m \in Msgs :
        res[m] = "ok" /\ linkUp /\ (Block(m) \/ Lossless("drop")) =>
            Queued(m) + Written(m) = FragsOf[m]

\* A send that timed out, was dropped or was cancelled may be repeated: its
\* message is not, and will not be, on the wire as a whole.
FailedNotDelivered ==
    \A m \in Msgs : res[m] \in {"timeout", "dropped", "cancelled"} =>
        Queued(m) + Written(m) < FragsOf[m]

\* What a stop finds accepted is written before the writer task returns
\* (disable, drain), reliable messages always.
StopLosesNothing ==
    wpc = "closed" /\ linkUp =>
        \A m \in promised : Block(m) \/ Lossless("drop") => Delivered(m)

----------------------------------------------------------------------------
(* The wire *)

SameChannel(b, c) == b.prio = c.prio /\ b.cc = c.cc

\* Sequence numbers of a lane and congestion control only grow on the wire, and
\* they have no gap unless a failed send discarded batches: the receiver takes
\* a gap for a loss.
WireInSequence ==
    \A i, j \in 1..Len(wire) :
        i < j /\ SameChannel(wire[i], wire[j]) => wire[i].sn < wire[j].sn
WireGapless ==
    \A j \in 1..Len(wire) :
        LET c == wire[j].cc IN
        linkUp /\ Lossless(c) =>
            wire[j].sn = Cardinality({i \in 1..j : SameChannel(wire[i], wire[j])})

\* The fragments of a message are consecutive in their lane and in order, First
\* leading: the receiver reassembles one message per lane at a time.
FragmentsTogether ==
    \A i, j \in 1..Len(wire) :
        /\ wire[i].kind # "frame" /\ i < j /\ wire[j].msgs = wire[i].msgs =>
            /\ \A k \in i..j : wire[k].prio = wire[i].prio => wire[k].msgs = wire[i].msgs
            /\ wire[j].kind # "first" /\ wire[i].kind # "last"

----------------------------------------------------------------------------
(* Progress *)

\* Every send returns: the lock and the buffers it waits for may be held by
\* other senders, by the writer task or by a stop, but its timers expire.
SendReturns == \A s \in Senders : pc[s] # "idle" ~> pc[s] = "idle"

\* An accepted reliable message is eventually written, unless the writer task
\* terminates: back-off, silenced notifications and parking only delay it.
BlockDelivered ==
    \A m \in Msgs : Block(m) => (res[m] = "ok" ~> Delivered(m) \/ wpc = "closed")

\* A stop terminates: disable, drain and the senders, which all lock lanes and
\* wait for one another's buffers, never wait for each other for ever.
StopTerminates ==
    /\ spc # "no" ~> spc = "done"
    /\ token ~> wpc = "closed"

----------------------------------------------------------------------------
(***************************************************************************)
(* What the documentation says and the code does not do; each is checked   *)
(* by a run of its own, which finds it violated.                           *)
(***************************************************************************)

\* src/src/lib.rs:278: batches that stop growing are flushed, so that no idle
\* batch waits.  A writer task parked without a wakeup on its way would have
\* nothing to write.
NoIdleBatch ==
    wpc = "park" /\ canPull = "unset" /\ AllIdle =>
        \A p \in Lanes : ring[p] = <<>> /\ booked[p] = <<>>

\* src/src/api/sender.rs:372: a write that takes longer than its timeout is
\* aborted, so that the writer task never hangs on an unresponsive connection.
NoWriteHangs ==
    wpc \in {"keepalive", "write", "drainwrite"} ~>
        wpc \notin {"keepalive", "write", "drainwrite"}
=============================================================================
