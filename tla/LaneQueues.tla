----------------------------- MODULE LaneQueues -----------------------------
(***************************************************************************)
(* What a ring buffer (src/pipeline/ringbuf) promises: one bounded queue   *)
(* per priority, independent of the others.  The element being filled      *)
(* (booked) is not in the queue yet.  Each operation is one step here,     *)
(* which shows its answer until the next step.  TxPipeline and RxPipeline  *)
(* use their rings as sequences, that is, through this module.             *)
(***************************************************************************)
EXTENDS Naturals, Sequences

CONSTANTS Lanes, Capacity, Elems

VARIABLES
    queue,      \* elements visible to the reader, oldest first
    booked,     \* the booked element, a sequence of length 0 or 1
    answer,     \* <<lane, answer>> of the operation that this step completed
    dropped     \* elements destroyed with the ring

vars == <<queue, booked, answer, dropped>>
NoAnswer == <<0, "none">>

Init ==
    /\ queue = [p \in Lanes |-> <<>>] /\ booked = [p \in Lanes |-> <<>>]
    /\ answer = NoAnswer
    /\ dropped = [p \in Lanes |-> <<>>]

\* No operation completes.
Quiet ==
    /\ answer' = NoAnswer
    /\ UNCHANGED <<queue, booked, dropped>>

Push(p, v) ==
    /\ Len(queue[p]) < Capacity
    /\ queue' = [queue EXCEPT ![p] = Append(@, v)]
    /\ answer' = <<p, "ok">>
    /\ UNCHANGED <<booked, dropped>>

Refuse(p) ==
    /\ Len(queue[p]) = Capacity \/ booked[p] # <<>>
    /\ answer' = <<p, "full">>
    /\ UNCHANGED <<queue, booked, dropped>>

Book(p, v) ==
    /\ Len(queue[p]) < Capacity /\ booked[p] = <<>>
    /\ booked' = [booked EXCEPT ![p] = <<v>>]
    /\ answer' = <<p, "ok">>
    /\ UNCHANGED <<queue, dropped>>

Fill(p, v) ==
    /\ booked[p] # <<>>
    /\ booked' = [booked EXCEPT ![p] = <<v>>]
    /\ answer' = NoAnswer
    /\ UNCHANGED <<queue, dropped>>

Commit(p) ==
    /\ booked[p] # <<>>
    /\ queue' = [queue EXCEPT ![p] = @ \o booked[p]]
    /\ booked' = [booked EXCEPT ![p] = <<>>]
    /\ answer' = <<p, "ok">>
    /\ UNCHANGED dropped

Pull(p) ==
    /\ queue[p] # <<>>
    /\ answer' = <<p, Head(queue[p])>>
    /\ queue' = [queue EXCEPT ![p] = Tail(@)]
    /\ UNCHANGED <<booked, dropped>>

Miss(p) ==
    /\ queue[p] = <<>>
    /\ answer' = <<p, IF booked[p] = <<>> THEN "empty" ELSE "booked">>
    /\ UNCHANGED <<queue, booked, dropped>>

\* peek_mut and a change of what it shows.
Alter(p, v) ==
    /\ queue[p] # <<>>
    /\ queue' = [queue EXCEPT ![p][1] = v]
    /\ answer' = NoAnswer
    /\ UNCHANGED <<booked, dropped>>

\* The last handle goes: what is queued is destroyed, oldest first.
Drop ==
    /\ dropped' = queue
    /\ queue' = [p \in Lanes |-> <<>>]
    /\ booked' = [p \in Lanes |-> <<>>]
    /\ answer' = NoAnswer

Next ==
    \/ Quiet \/ Drop
    \/ \E p \in Lanes : Refuse(p) \/ Commit(p) \/ Pull(p) \/ Miss(p)
    \/ \E p \in Lanes, v \in Elems : Push(p, v) \/ Book(p, v) \/ Fill(p, v) \/ Alter(p, v)

Spec == Init /\ [][Next]_vars
=============================================================================
