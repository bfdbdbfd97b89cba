----------------------------- MODULE RingBuffer -----------------------------
(***************************************************************************)
(* The lock-free ring of src/pipeline/ringbuf/common.rs: one array of      *)
(* slots per priority, and two atomic words, idxR and idxW, that hold an   *)
(* index for every priority and, in idxW, the flag BOOKED of each.  A      *)
(* writer handle keeps its own word and an old copy of idxR, a reader      *)
(* handle its own word and an old copy of idxW; the copies are refreshed   *)
(* only when they say full or empty.                                       *)
(*                                                                         *)
(* kind selects who shares a word.  "mpsc": a writer handle per priority   *)
(* (each used under the lock of its lane), one reader; the in-out ring of  *)
(* the transmission pipeline.  "spmc": one writer, a reader per priority;  *)
(* its refill ring.  "spsc": one of each; the ring of the reception        *)
(* pipeline.  A word shared by several handles is updated by a             *)
(* compare-and-swap loop that replaces the bits of one lane (update::m),   *)
(* another is stored as a whole (update::s).                               *)
(*                                                                         *)
(* One action is one atomic access, together with the code of the handle   *)
(* up to the next access; the access to a slot is an action of its own, so *)
(* that two handles in one slot can be seen.  Memory is sequentially       *)
(* consistent.  Of the words of a handle only the lanes that it serves are *)
(* kept, which makes localW, cachedR, localR and cachedW functions of the  *)
(* lane.                                                                   *)
(***************************************************************************)
EXTENDS Integers, Sequences

CONSTANTS
    NPrio,      \* number of priorities, 1 is scanned first
    Capacity,   \* slots per priority
    Modulus,    \* an index wraps to 0 here: 256 in the code
    Elems,      \* what can be stored
    NoElem,     \* the content of a slot that is not initialised
    Kinds       \* the kinds of ring to look at

Lanes == 1..NPrio

ASSUME RingAssumption ==
    /\ NPrio \in Nat \ {0} /\ Capacity \in Nat \ {0} /\ Modulus \in Nat
    /\ Modulus % Capacity = 0 /\ Modulus >= 2 * Capacity
    /\ NoElem \notin Elems
    /\ Kinds \subseteq {"mpsc", "spmc", "spsc"}

VARIABLES
    kind,                   \* never changes
    slots, idxR, idxW,      \* RingBuffer
    wpc, wlane, wval,       \* a writer handle: control state, priority, element
    localW, cachedR,        \* per lane: its writer's index and flag, copy of idxR
    rpc, rlane, rop, rval,  \* a reader handle: the same, and the operation
    localR, cachedW,        \* per lane: its reader's index, copy of idxW
    answer, dropped         \* as in LaneQueues

ringVars == <<kind, slots, idxR, idxW>>
writerVars == <<wpc, wlane, wval, localW, cachedR>>
readerVars == <<rpc, rlane, rop, rval, localR, cachedW>>
vars == <<ringVars, writerVars, readerVars, answer, dropped>>

Index == 0..(Modulus - 1)
Idx == [i : Index, b : BOOLEAN]
Slot == 0..(Capacity - 1)
WPc == {"idle", "refresh", "put", "publish", "gone"}
RPc == {"idle", "reload", "take", "publish", "gone"}
ROp == {"pull", "pullprio", "peek"}
NoAnswer == <<0, "none">>
Answers == {NoAnswer} \cup (Lanes \X (Elems \cup {"ok", "full", "empty", "booked"}))

TypeOK ==
    /\ kind \in Kinds
    /\ slots \in [Lanes -> [Slot -> Elems \cup {NoElem}]]
    /\ idxR \in [Lanes -> Index] /\ idxW \in [Lanes -> Idx]
    /\ wpc \in [Lanes -> WPc] /\ wlane \in [Lanes -> Lanes]
    /\ wval \in [Lanes -> Elems \cup {NoElem}]
    /\ localW \in [Lanes -> Idx] /\ cachedR \in [Lanes -> Index]
    /\ rpc \in [Lanes -> RPc] /\ rlane \in [Lanes -> Lanes] /\ rop \in [Lanes -> ROp]
    /\ rval \in [Lanes -> Elems \cup {NoElem}]
    /\ localR \in [Lanes -> Index] /\ cachedW \in [Lanes -> Idx]
    /\ answer \in Answers \cup (Lanes \X {NoElem})

----------------------------------------------------------------------------
(* Idx, AtomicIdx and RingBuffer *)

\* Mutant: the index does not wrap.
Increment_NoWrap(i) == i + 1

\* Idx::increment, wrapping_add.
Increment(i) == IF i = Modulus - 1 THEN 0 ELSE i + 1

\* Elements between two indices, by wrapping_sub.
Dist(r, w) == IF w >= r THEN w - r ELSE w - r + Modulus

\* Mutant: a comparison of the indices that forgets that they wrap.
IsFull_NoWrap(r, w) == w - r = Capacity

IsFull(r, w) == Dist(r, w) = Capacity

SlotOf(i) == i % Capacity

\* The handle that serves a lane on each side.
WriterOf(p) == IF kind = "mpsc" THEN p ELSE 1
ReaderOf(p) == IF kind = "spmc" THEN p ELSE 1

\* Mutant: all readers are created with update::s.  Of the lanes that it
\* does not serve a handle knows nothing.
UpdateR_AlwaysS(h, word) == [q \in Lanes |-> IF ReaderOf(q) = h THEN word[q] ELSE 0]

\* The word after handle h published its own: update::s stores it, update::m
\* (AtomicIdx::update) replaces the bits of the lane in the value current at the
\* successful compare-and-swap.
UpdateW(h, word) == IF kind = "mpsc" THEN [idxW EXCEPT ![h] = word[h]] ELSE word
UpdateR(h, word) == IF kind = "spmc" THEN [idxR EXCEPT ![h] = word[h]] ELSE word

Init ==
    /\ kind \in Kinds
    /\ slots = [p \in Lanes |-> [k \in Slot |-> NoElem]]
    /\ idxR = [p \in Lanes |-> 0] /\ idxW = [p \in Lanes |-> [i |-> 0, b |-> FALSE]]
    /\ wpc = [h \in Lanes |-> "idle"] /\ wlane = [h \in Lanes |-> h]
    /\ wval = [h \in Lanes |-> NoElem]
    /\ localW = [p \in Lanes |-> [i |-> 0, b |-> FALSE]] /\ cachedR = [p \in Lanes |-> 0]
    /\ rpc = [h \in Lanes |-> "idle"] /\ rlane = [h \in Lanes |-> h]
    /\ rop = [h \in Lanes |-> "pull"] /\ rval = [h \in Lanes |-> NoElem]
    /\ localR = [p \in Lanes |-> 0] /\ cachedW = [p \in Lanes |-> [i |-> 0, b |-> FALSE]]
    /\ answer = NoAnswer
    /\ dropped = [p \in Lanes |-> <<>>]

----------------------------------------------------------------------------
(* RingBufferWriter *)

\* push (of the writer that has a word of its own) or book (of the writers that
\* share one) begins: the copy of idxR tells whether a look at idxR is needed.
StartWrite(h, p, v) ==
    /\ wpc[h] = "idle" /\ WriterOf(p) = h /\ ~localW[p].b
    /\ wlane' = [wlane EXCEPT ![h] = p]
    /\ wval' = [wval EXCEPT ![h] = v]
    /\ wpc' = [wpc EXCEPT ![h] = IF IsFull(cachedR[p], localW[p].i) THEN "refresh" ELSE "put"]
    /\ answer' = NoAnswer
    /\ UNCHANGED <<ringVars, localW, cachedR, readerVars, dropped>>

\* book while an element is booked.
RefuseBooked(h) ==
    /\ wpc[h] = "idle" /\ kind = "mpsc" /\ localW[h].b
    /\ answer' = <<h, "full">>
    /\ UNCHANGED <<ringVars, writerVars, readerVars, dropped>>

\* RingBufferWriter::is_full looks at idxR.
Refresh(h) ==
    LET p == wlane[h]
        full == IsFull(idxR[p], localW[p].i) IN
    /\ wpc[h] = "refresh"
    /\ cachedR' = [q \in Lanes |-> IF WriterOf(q) = h THEN idxR[q] ELSE cachedR[q]]
    /\ answer' = IF full THEN <<p, "full">> ELSE NoAnswer
    /\ wval' = IF full THEN [wval EXCEPT ![h] = NoElem] ELSE wval
    /\ wpc' = [wpc EXCEPT ![h] = IF full THEN "idle" ELSE "put"]
    /\ UNCHANGED <<ringVars, wlane, localW, readerVars, dropped>>

\* book: the element is written to its slot and BOOKED is set with fetch_or.
PutBooked(h) ==
    /\ wpc[h] = "put" /\ kind = "mpsc"
    /\ slots' = [slots EXCEPT ![h][SlotOf(localW[h].i)] = wval[h]]
    /\ wval' = [wval EXCEPT ![h] = NoElem]
    /\ localW' = [localW EXCEPT ![h].b = TRUE]
    /\ idxW' = [idxW EXCEPT ![h].b = TRUE]
    /\ answer' = <<h, "ok">>
    /\ wpc' = [wpc EXCEPT ![h] = "idle"]
    /\ UNCHANGED <<kind, idxR, wlane, cachedR, readerVars, dropped>>

\* push: the element is written to its slot and the local index moves.
Put(h) ==
    LET p == wlane[h] IN
    /\ wpc[h] = "put" /\ kind # "mpsc"
    /\ slots' = [slots EXCEPT ![p][SlotOf(localW[p].i)] = wval[h]]
    /\ wval' = [wval EXCEPT ![h] = NoElem]
    /\ localW' = [localW EXCEPT ![p].i = Increment(@)]
    /\ wpc' = [wpc EXCEPT ![h] = "publish"]
    /\ answer' = NoAnswer
    /\ UNCHANGED <<kind, idxR, idxW, wlane, cachedR, readerVars, dropped>>

\* push: the update.
PublishW(h) ==
    /\ wpc[h] = "publish"
    /\ idxW' = UpdateW(h, localW)
    /\ answer' = <<wlane[h], "ok">>
    /\ wpc' = [wpc EXCEPT ![h] = "idle"]
    /\ UNCHANGED <<kind, slots, idxR, wlane, wval, localW, cachedR, readerVars, dropped>>

\* peek, and a write through WriterPeek to the booked element.
Modify(h, v) ==
    /\ wpc[h] = "idle" /\ kind = "mpsc" /\ localW[h].b
    /\ slots' = [slots EXCEPT ![h][SlotOf(localW[h].i)] = v]
    /\ answer' = NoAnswer
    /\ UNCHANGED <<kind, idxR, idxW, writerVars, readerVars, dropped>>

\* WriterPeek::commit, with its update.
Commit(h) ==
    LET word == [localW EXCEPT ![h] = [i |-> Increment(@.i), b |-> FALSE]] IN
    /\ wpc[h] = "idle" /\ kind = "mpsc" /\ localW[h].b
    /\ localW' = word
    /\ idxW' = UpdateW(h, word)
    /\ answer' = <<h, "ok">>
    /\ UNCHANGED <<kind, slots, idxR, wpc, wlane, wval, cachedR, readerVars, dropped>>

----------------------------------------------------------------------------
(* RingBufferReader *)

\* Where is_empty leads for lane p, given the copy w of its index.
LookAt(p, w) == IF localR[p] = w.i THEN "reload" ELSE "take"

\* pull and peek_mut look at every priority in turn; pull_priority, and with it the
\* readers of a refill ring, asks for one.
StartRead(h, op, p) ==
    /\ rpc[h] = "idle" /\ ReaderOf(p) = h
    /\ op = "pullprio" => kind # "spsc"
    /\ op = "pull" => p = 1 /\ kind # "spmc"
    /\ op = "peek" => p = 1 /\ kind = "spsc"
    /\ rop' = [rop EXCEPT ![h] = op]
    /\ rlane' = [rlane EXCEPT ![h] = p]
    /\ rpc' = [rpc EXCEPT ![h] = LookAt(p, cachedW[p])]
    /\ answer' = NoAnswer
    /\ UNCHANGED <<ringVars, writerVars, rval, localR, cachedW, dropped>>

\* The handle returns; its locals are forgotten.
FinishRead(h) ==
    /\ rpc' = [rpc EXCEPT ![h] = "idle"]
    /\ rlane' = [rlane EXCEPT ![h] = h]
    /\ rop' = [rop EXCEPT ![h] = "pull"]

\* RingBufferReader::is_empty looks at idxW.  A lane found empty is passed over by
\* pull and peek_mut, and answered with Booked or None by pull_priority.
Reload(h) ==
    LET p == rlane[h]
        empty == localR[p] = idxW[p].i
        scan == empty /\ rop[h] # "pullprio" /\ p < NPrio IN
    /\ rpc[h] = "reload"
    /\ cachedW' = [q \in Lanes |-> IF ReaderOf(q) = h THEN idxW[q] ELSE cachedW[q]]
    /\ answer' = IF ~empty THEN NoAnswer ELSE <<p, IF idxW[p].b THEN "booked" ELSE "empty">>
    /\ \/ /\ empty /\ ~scan
          /\ FinishRead(h)
       \/ /\ scan
          /\ rlane' = [rlane EXCEPT ![h] = p + 1]
          /\ rpc' = [rpc EXCEPT ![h] = LookAt(p + 1, idxW[p + 1])]
          /\ UNCHANGED rop
       \/ /\ ~empty
          /\ rpc' = [rpc EXCEPT ![h] = "take"]
          /\ UNCHANGED <<rlane, rop>>
    /\ UNCHANGED <<ringVars, writerVars, rval, localR, dropped>>

\* The element is moved out of its slot and the local index moves.
Take(h) ==
    LET p == rlane[h]
        k == SlotOf(localR[p]) IN
    /\ rpc[h] = "take" /\ rop[h] # "peek"
    /\ rval' = [rval EXCEPT ![h] = slots[p][k]]
    /\ slots' = [slots EXCEPT ![p][k] = NoElem]
    /\ localR' = [localR EXCEPT ![p] = Increment(@)]
    /\ rpc' = [rpc EXCEPT ![h] = "publish"]
    /\ answer' = NoAnswer
    /\ UNCHANGED <<kind, idxR, idxW, writerVars, rlane, rop, cachedW, dropped>>

\* peek_mut: the element is changed in its slot.
PeekMut(h, v) ==
    LET p == rlane[h] IN
    /\ rpc[h] = "take" /\ rop[h] = "peek"
    /\ slots' = [slots EXCEPT ![p][SlotOf(localR[p])] = v]
    /\ FinishRead(h)
    /\ answer' = NoAnswer
    /\ UNCHANGED <<kind, idxR, idxW, writerVars, rval, localR, cachedW, dropped>>

\* The update of pull.
PublishR(h) ==
    /\ rpc[h] = "publish"
    /\ idxR' = UpdateR(h, localR)
    /\ answer' = <<rlane[h], rval[h]>>
    /\ rval' = [rval EXCEPT ![h] = NoElem]
    /\ FinishRead(h)
    /\ UNCHANGED <<kind, slots, idxW, writerVars, localR, cachedW, dropped>>

----------------------------------------------------------------------------
\* Mutant: the loop compares the indices with < and stops at the wrap.
Visited_Less(p) == IF idxR[p] < idxW[p].i THEN idxW[p].i - idxR[p] ELSE 0

\* The slots that Drop for RingBuffer visits, counted from idxR on.
Visited(p) == Dist(idxR[p], idxW[p].i)
Nth(p, k) == (idxR[p] + k - 1) % Capacity

\* Drop for RingBuffer: every handle is gone, so that none is inside an
\* operation; a booked element is not visited.
DropRing ==
    /\ \A h \in Lanes : wpc[h] = "idle" /\ rpc[h] = "idle"
    /\ dropped' = [p \in Lanes |-> [k \in 1..Visited(p) |-> slots[p][Nth(p, k)]]]
    /\ slots' = [p \in Lanes |-> [k \in Slot |->
            IF k \in {Nth(p, n) : n \in 1..Visited(p)} THEN NoElem ELSE slots[p][k]]]
    /\ answer' = NoAnswer
    /\ wpc' = [h \in Lanes |-> "gone"] /\ rpc' = [h \in Lanes |-> "gone"]
    /\ UNCHANGED <<kind, idxR, idxW, wlane, wval, localW, cachedR,
                   rlane, rop, rval, localR, cachedW>>

WriterStep(h) ==
    \/ \E p \in Lanes, v \in Elems : StartWrite(h, p, v)
    \/ RefuseBooked(h) \/ Refresh(h) \/ PutBooked(h) \/ Put(h) \/ PublishW(h) \/ Commit(h)
    \/ \E v \in Elems : Modify(h, v)

ReaderStep(h) ==
    \/ \E op \in ROp, p \in Lanes : StartRead(h, op, p)
    \/ Reload(h) \/ Take(h) \/ PublishR(h)
    \/ \E v \in Elems : PeekMut(h, v)

Next ==
    \/ \E h \in Lanes : WriterStep(h) \/ ReaderStep(h)
    \/ DropRing

Spec == Init /\ [][Next]_vars
=============================================================================
