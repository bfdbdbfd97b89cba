---------------------------- MODULE RxProperties ----------------------------
(* What the reception pipeline guarantees, stated over RxPipeline. *)
EXTENDS RxPipeline

Elements(q) == {q[i] : i \in DOMAIN q}

\* Messages complete in lane p and not yet returned: what the task holds, then the
\* lane of the ring from its tail to its head.
Waiting(p) ==
    (UNION {ItemMsgs(Unread(b)) : b \in Elements(ring[p])})
        \cup (UNION {ItemMsgs(b.items) : b \in {h \in Elements(hand) : h.prio = p}})
Received(p) == ItemMsgs(got[p])

----------------------------------------------------------------------------
(* Messages *)

\* recv returns messages as they were sent: whatever fragments are lost, refused or
\* given up half-way, no message is put together from pieces of two, or without
\* one of its own (DefragBuffer::extend, clear and sync).
WholeMessages ==
    \A p \in Lanes : \A it \in Elements(got[p]) :
        it # <<>> /\ it = Whole(it[1][1]) /\ PrioOf[it[1][1]] = p

\* Messages of one priority come in the order in which they were sent, none twice:
\* the position kept in a batch survives between two calls, reassembly and the pull
\* of an exhausted batch skip nothing backwards (try_pull, push).
InLaneOrder ==
    \A p \in Lanes : \A i, j \in DOMAIN got[p] :
        i < j => got[p][i][1][1] < got[p][j][1][1]

\* A reliable message that reached the reader task completely is delivered or still
\* on its way, unless its time was over, a pull took it for another, or one side is
\* gone: congestion drops best-effort messages only (try_pull, push).
ReliableKept ==
    \A m \in arrived \ (expired \cup overtaken) :
        CcOf[m] = "block" =>
            m \in Received(PrioOf[m]) \cup Waiting(PrioOf[m]) \/ tpc = "closed"

----------------------------------------------------------------------------
(* Wakeups *)

\* No message waits unannounced: while recv waits and its event is not set, the
\* rings are empty or the reader task is about to notify (writer.push, then
\* can_recv.notify; try_pull, then can_recv.wait).
ArrivalNotMissed ==
    rpc = "wait" /\ canRecv = "unset" =>
        tpc = "notify" \/ \A p \in Lanes : ring[p] = <<>>

\* No space is missed: while the reader task waits for a lane and its event is not
\* set, the lane is full or the receiver is about to notify it -- provided that
\* no pull has taken a batch of another lane, which notifies the wrong one.
SpaceNotMissed ==
    tpc = "wait" /\ canSend[InLane] = "unset" /\ overtaken = {} =>
        Len(ring[InLane]) = Capacity \/ (rpc = "notify" /\ plane = InLane)

----------------------------------------------------------------------------
(* Progress *)

\* The reader task is never stuck with a batch: it is pushed, or given up when
\* its time is over, even if the application never reads (the loop of push).
PushReturns == (hand # <<>>) ~> (hand = <<>>)

\* A stop of either side ends the reader task, whatever it waits for (read_task).
StopEnds == token ~> (tpc = "closed")

\* The application calls recv again and again, and is polled, until it stops.
Receiving == WF_vars(RecvStep) /\ WF_vars(StartRecv("recv"))

\* A reliable message that has arrived is returned to an application that goes on
\* receiving, with the exceptions of ReliableKept.
BlockReceived ==
    Receiving =>
        \A m \in {n \in Msgs : CcOf[n] = "block"} :
            (m \in arrived) ~> (\/ m \in Received(PrioOf[m]) \cup expired \cup overtaken
                                \/ tpc = "closed" \/ rpc = "gone")

----------------------------------------------------------------------------
(* Stated by the documentation, and not what the code does *)

\* "Provides reliable, in-order delivery within each priority level", "Messages are
\* never dropped due to congestion": no message is removed from the ring unread.
NoneOvertaken == \A m \in overtaken : CcOf[m] # "block"

\* "No further receive operations will succeed after this error": after Closed, recv
\* and try_recv return no message.
ClosedIsTerminal == [][sawClosed => got' = got]_vars
=============================================================================
