----------------------------- MODULE RingProofs -----------------------------
(***************************************************************************)
(* Theorems about the ring buffer, for any number of priorities, any       *)
(* capacity, any modulus of the indices and each kind of sharing.          *)
(***************************************************************************)
EXTENDS RingProperties, TLAPS

----------------------------------------------------------------------------
(* Indices on a circle *)

\* The six indices of a priority, in the order in which they follow each other:
\* the writer's copy of idxR, idxR, the reader's own, its copy of idxW, idxW, and the
\* writer's own.  From the first to the last there is at most the capacity.
Follow(cr, ir, lr, cw, iw, lw) ==
    /\ Dist(cr, ir) <= Dist(cr, lr) /\ Dist(cr, lr) <= Dist(cr, cw)
    /\ Dist(cr, cw) <= Dist(cr, iw) /\ Dist(cr, iw) <= Dist(cr, lw)
    /\ Dist(cr, lw) <= Capacity

\* The size of the circle: more than the capacity.
LEMMA Circle ==
    /\ Capacity \in Nat /\ Modulus \in Nat /\ Capacity > 0 /\ Modulus >= 2 * Capacity
    /\ Index = 0..(Modulus - 1)
BY RingAssumption DEF Index

\* An index that grows by one stays an index.
LEMMA IncrementType == \A i \in Index : Increment(i) \in Index
BY Circle DEF Increment

\* The two sides of the ring move within the order: a copy is refreshed, an index is
\* published, the reader takes an element, the writer puts one where it has room.
LEMMA FollowSteps ==
    ASSUME NEW cr \in Index, NEW ir \in Index, NEW lr \in Index,
           NEW cw \in Index, NEW iw \in Index, NEW lw \in Index,
           Follow(cr, ir, lr, cw, iw, lw)
    PROVE  /\ Follow(ir, ir, lr, cw, iw, lw) /\ Dist(ir, lw) <= Dist(cr, lw)
           /\ Follow(cr, lr, lr, cw, iw, lw)
           /\ Follow(cr, ir, lr, iw, iw, lw)
           /\ Follow(cr, ir, lr, cw, lw, lw)
           /\ lr # cw => Follow(cr, ir, Increment(lr), cw, iw, lw)
           /\ Dist(cr, lw) # Capacity =>
                /\ Dist(cr, lw) < Capacity
                /\ Follow(cr, ir, lr, cw, iw, Increment(lw))
<1>1. Follow(ir, ir, lr, cw, iw, lw) /\ Dist(ir, lw) <= Dist(cr, lw)
  BY Circle DEF Follow, Dist
<1>2. Follow(cr, lr, lr, cw, iw, lw)
  BY Circle DEF Follow, Dist
<1>3. Follow(cr, ir, lr, iw, iw, lw)
  BY Circle DEF Follow, Dist
<1>4. Follow(cr, ir, lr, cw, lw, lw)
  BY Circle DEF Follow, Dist
<1>5. lr # cw => Follow(cr, ir, Increment(lr), cw, iw, lw)
  BY Circle DEF Follow, Dist, Increment
<1>6. Dist(cr, lw) # Capacity =>
        Dist(cr, lw) < Capacity /\ Follow(cr, ir, lr, cw, iw, Increment(lw))
  BY Circle DEF Follow, Dist, Increment
<1> QED
  BY <1>1, <1>2, <1>3, <1>4, <1>5, <1>6

\* Indices that follow each other are in step, in the sense of IndicesInStep.
LEMMA FollowInStep ==
    ASSUME NEW cr \in Index, NEW ir \in Index, NEW lr \in Index,
           NEW cw \in Index, NEW iw \in Index, NEW lw \in Index,
           Follow(cr, ir, lr, cw, iw, lw)
    PROVE  /\ Dist(cr, lw) <= Capacity
           /\ Dist(ir, lw) <= Dist(cr, lw)
           /\ Dist(lr, iw) <= Dist(ir, iw)
           /\ Dist(lr, cw) <= Dist(lr, iw)
           /\ Dist(ir, iw) <= Dist(ir, lw)
BY Circle DEF Follow, Dist

----------------------------------------------------------------------------
(* Types *)

\* The sets that TypeOK speaks of.
LEMMA Facts ==
    /\ NoElem \notin Elems /\ Kinds \subseteq {"mpsc", "spmc", "spsc"}
    /\ \A p \in Lanes : WriterOf(p) \in Lanes /\ ReaderOf(p) \in Lanes
    /\ \A p \in Lanes : p < NPrio => p + 1 \in Lanes
    /\ 1 \in Lanes /\ 0 \in Index
BY RingAssumption, Circle DEF Lanes, WriterOf, ReaderOf

\* Every index has a slot.
LEMMA SlotType == \A i \in Index : SlotOf(i) \in Slot
BY Circle DEF SlotOf, Slot

\* A word that a handle publishes is a word.
LEMMA UpdateTypes ==
    ASSUME TypeOK, NEW h \in Lanes
    PROVE  /\ \A word \in [Lanes -> Idx] : UpdateW(h, word) \in [Lanes -> Idx]
           /\ UpdateR(h, localR) \in [Lanes -> Index]
BY DEF TypeOK, UpdateW, UpdateR

\* Every step keeps the types (one case for each atomic access of the code).
LEMMA TypeStep == TypeOK /\ [Next]_vars => TypeOK'
<1> SUFFICES ASSUME TypeOK, [Next]_vars
             PROVE  TypeOK'
  OBVIOUS
<1> USE Facts
<1>1. ASSUME NEW h \in Lanes, NEW p \in Lanes, NEW v \in Elems, StartWrite(h, p, v)
      PROVE  TypeOK'
  BY <1>1 DEF StartWrite, TypeOK, ringVars, readerVars, WPc, Answers, NoAnswer
<1>2. ASSUME NEW h \in Lanes, RefuseBooked(h)
      PROVE  TypeOK'
  BY <1>2 DEF RefuseBooked, TypeOK, ringVars, writerVars, readerVars, Answers
<1>3. ASSUME NEW h \in Lanes, Refresh(h)
      PROVE  TypeOK'
  BY <1>3 DEF Refresh, TypeOK, ringVars, readerVars, WPc, Answers, NoAnswer
<1>4. ASSUME NEW h \in Lanes, PutBooked(h)
      PROVE  TypeOK'
  <2>1. localW' \in [Lanes -> Idx] /\ idxW' \in [Lanes -> Idx]
    BY ZenonT(60), <1>4 DEF PutBooked, TypeOK, Idx
  <2>2. /\ slots' \in [Lanes -> [Slot -> Elems \cup {NoElem}]]
        /\ wval' \in [Lanes -> Elems \cup {NoElem}]
    BY <1>4 DEF PutBooked, TypeOK
  <2>3. answer' \in Answers /\ wpc' \in [Lanes -> WPc]
    BY <1>4 DEF PutBooked, TypeOK, WPc, Answers
  <2> QED
    BY <1>4, <2>1, <2>2, <2>3 DEF PutBooked, TypeOK, readerVars
<1>5. ASSUME NEW h \in Lanes, Put(h)
      PROVE  TypeOK'
  <2>1. localW' \in [Lanes -> Idx]
    BY ZenonT(60), <1>5, IncrementType DEF Put, TypeOK, Idx
  <2>2. /\ slots' \in [Lanes -> [Slot -> Elems \cup {NoElem}]]
        /\ wval' \in [Lanes -> Elems \cup {NoElem}]
    BY <1>5 DEF Put, TypeOK
  <2>3. answer' \in Answers /\ wpc' \in [Lanes -> WPc]
    BY <1>5 DEF Put, TypeOK, WPc, Answers, NoAnswer
  <2> QED
    BY <1>5, <2>1, <2>2, <2>3 DEF Put, TypeOK, readerVars
<1>6. ASSUME NEW h \in Lanes, PublishW(h)
      PROVE  TypeOK'
  BY <1>6, UpdateTypes DEF PublishW, TypeOK, readerVars, WPc, Answers
<1>7. ASSUME NEW h \in Lanes, Commit(h)
      PROVE  TypeOK'
  <2>1. [localW EXCEPT ![h] = [i |-> Increment(@.i), b |-> FALSE]] \in [Lanes -> Idx]
    BY IncrementType DEF TypeOK, Idx
  <2> QED
    BY <1>7, <2>1, UpdateTypes DEF Commit, TypeOK, readerVars, Answers
<1>8. ASSUME NEW h \in Lanes, NEW v \in Elems, Modify(h, v)
      PROVE  TypeOK'
  BY <1>8 DEF Modify, TypeOK, writerVars, readerVars, Answers, NoAnswer
<1>9. ASSUME NEW h \in Lanes, NEW op \in ROp, NEW p \in Lanes, StartRead(h, op, p)
      PROVE  TypeOK'
  BY <1>9 DEF StartRead, LookAt, TypeOK, ringVars, writerVars, RPc, Answers, NoAnswer
<1>10. ASSUME NEW h \in Lanes, Reload(h)
       PROVE  TypeOK'
  <2>1. /\ answer' \in Answers
        /\ cachedW' \in [Lanes -> Idx]
    BY <1>10 DEF Reload, TypeOK, Answers, NoAnswer
  <2>2. /\ rpc' \in [Lanes -> RPc] /\ rlane' \in [Lanes -> Lanes] /\ rop' \in [Lanes -> ROp]
    <3>1. CASE FinishRead(h)
      BY <3>1 DEF FinishRead, TypeOK, RPc, ROp
    <3>2. ASSUME rlane[h] < NPrio,
                 rlane' = [rlane EXCEPT ![h] = rlane[h] + 1],
                 rpc' = [rpc EXCEPT ![h] = LookAt(rlane[h] + 1, idxW[rlane[h] + 1])],
                 rop' = rop
          PROVE  /\ rpc' \in [Lanes -> RPc] /\ rlane' \in [Lanes -> Lanes]
                 /\ rop' \in [Lanes -> ROp]
      BY <3>2 DEF LookAt, TypeOK, RPc
    <3>3. CASE rpc' = [rpc EXCEPT ![h] = "take"] /\ rlane' = rlane /\ rop' = rop
      BY <3>3 DEF TypeOK, RPc
    <3> QED
      BY <1>10, <3>1, <3>2, <3>3 DEF Reload
  <2> QED
    BY <1>10, <2>1, <2>2 DEF Reload, TypeOK, ringVars, writerVars
<1>11. ASSUME NEW h \in Lanes, Take(h)
       PROVE  TypeOK'
  <2>1. slots[rlane[h]][SlotOf(localR[rlane[h]])] \in Elems \cup {NoElem}
    BY SlotType DEF TypeOK
  <2> QED
    BY <1>11, <2>1, IncrementType DEF Take, TypeOK, writerVars, RPc, Answers, NoAnswer
<1>12. ASSUME NEW h \in Lanes, NEW v \in Elems, PeekMut(h, v)
       PROVE  TypeOK'
  BY <1>12 DEF PeekMut, FinishRead, TypeOK, writerVars, RPc, ROp, Answers, NoAnswer
<1>13. ASSUME NEW h \in Lanes, PublishR(h)
       PROVE  TypeOK'
  BY <1>13, UpdateTypes DEF PublishR, FinishRead, TypeOK, writerVars, RPc, ROp, Answers
<1>14. CASE DropRing
  BY <1>14 DEF DropRing, TypeOK, WPc, RPc, Answers, NoAnswer
<1>15. CASE UNCHANGED vars
  BY <1>15 DEF vars, ringVars, writerVars, readerVars, TypeOK
<1> QED
  BY <1>1, <1>2, <1>3, <1>4, <1>5, <1>6, <1>7, <1>8, <1>9, <1>10, <1>11, <1>12, <1>13,
     <1>14, <1>15 DEF Next, WriterStep, ReaderStep

\* The ring, the words and the handles keep their types: no index leaves its byte, and
\* no slot holds anything but an element or nothing (src/pipeline/ringbuf/common.rs).
THEOREM RingTypes == Spec => []TypeOK
<1>1. Init => TypeOK
  BY Facts DEF Init, TypeOK, Idx, WPc, RPc, ROp, Answers, NoAnswer
<1> QED
  BY <1>1, TypeStep, PTL DEF Spec

----------------------------------------------------------------------------
(* The inductive invariant of the indices *)

\* A handle in the middle of an operation is in a lane that it serves; a writer about to
\* put an element has found room, a reader about to take one has found it.
WriterInv(h) ==
    /\ wpc[h] \in {"refresh", "put", "publish"} => WriterOf(wlane[h]) = h
    /\ wpc[h] = "put" => Dist(cachedR[wlane[h]], localW[wlane[h]].i) # Capacity
ReaderInv(h) ==
    /\ rpc[h] \in {"reload", "take", "publish"} =>
            ReaderOf(rlane[h]) = h /\ (kind = "spmc" => rop[h] = "pullprio")
    /\ rpc[h] = "take" => localR[rlane[h]] # cachedW[rlane[h]].i

\* The indices of a priority follow each other, and a booked element has room.
LaneInv(p) ==
    /\ Follow(cachedR[p], idxR[p], localR[p], cachedW[p].i, idxW[p].i, localW[p].i)
    /\ kind = "mpsc" /\ localW[p].b => Dist(cachedR[p], localW[p].i) # Capacity

IndexInv ==
    /\ \A h \in Lanes : WriterInv(h) /\ ReaderInv(h)
    /\ \A p \in Lanes : LaneInv(p)

\* Steps of a writer keep it: what a writer does to its lanes is one of FollowSteps.
LEMMA WriterStepInv ==
    ASSUME TypeOK, IndexInv, NEW h \in Lanes, WriterStep(h)
    PROVE  IndexInv'
<1> USE Facts
<1>1. /\ \A p \in Lanes : /\ cachedR[p] \in Index /\ idxR[p] \in Index /\ localR[p] \in Index
                          /\ cachedW[p].i \in Index /\ idxW[p].i \in Index
                          /\ localW[p].i \in Index
      /\ wlane[h] \in Lanes
  BY DEF TypeOK, Idx
<1>2. ASSUME UNCHANGED readerVars, kind' = kind
      PROVE  \A g \in Lanes : ReaderInv(g)'
  BY <1>2 DEF IndexInv, ReaderInv, readerVars, ReaderOf
<1>3. ASSUME NEW p \in Lanes, NEW v \in Elems, StartWrite(h, p, v)
      PROVE  IndexInv'
  <2>1. \A g \in Lanes : WriterInv(g)'
    BY <1>3 DEF StartWrite, IndexInv, WriterInv, ringVars, IsFull, WriterOf, TypeOK
  <2>2. \A q \in Lanes : LaneInv(q)'
    BY <1>3 DEF StartWrite, IndexInv, LaneInv, ringVars, readerVars
  <2> QED
    BY <1>2, <1>3, <2>1, <2>2 DEF StartWrite, IndexInv, ringVars
<1>4. CASE RefuseBooked(h) \/ \E v \in Elems : Modify(h, v)
  BY <1>4 DEF RefuseBooked, Modify, IndexInv, WriterInv, ReaderInv, LaneInv,
              ringVars, writerVars, readerVars, WriterOf, ReaderOf
<1>5. CASE Refresh(h)
  <2>1. /\ wpc[h] = "refresh" /\ kind' = kind
        /\ cachedR' = [q \in Lanes |-> IF WriterOf(q) = h THEN idxR[q] ELSE cachedR[q]]
        /\ wpc' = [wpc EXCEPT ![h] =
                    IF IsFull(idxR[wlane[h]], localW[wlane[h]].i) THEN "idle" ELSE "put"]
        /\ UNCHANGED <<ringVars, wlane, localW, readerVars>>
    BY <1>5 DEF Refresh, ringVars
  <2>2. ASSUME NEW q \in Lanes
        PROVE  /\ LaneInv(q)'
               /\ Dist(cachedR[q], localW[q].i) # Capacity =>
                        Dist(cachedR'[q], localW[q].i) # Capacity
    <3>1. /\ Follow(cachedR[q], idxR[q], localR[q], cachedW[q].i, idxW[q].i, localW[q].i)
          /\ Follow(idxR[q], idxR[q], localR[q], cachedW[q].i, idxW[q].i, localW[q].i)
          /\ Dist(idxR[q], localW[q].i) <= Dist(cachedR[q], localW[q].i)
          /\ Dist(cachedR[q], localW[q].i) # Capacity => Dist(cachedR[q], localW[q].i) < Capacity
      BY <1>1, FollowSteps DEF IndexInv, LaneInv
    <3>2. Dist(idxR[q], localW[q].i) \in Int /\ Dist(cachedR[q], localW[q].i) \in Int
      BY <1>1, Circle DEF Dist
    <3>3. Dist(cachedR[q], localW[q].i) # Capacity => Dist(idxR[q], localW[q].i) # Capacity
      BY <3>1, <3>2, Circle
    <3>4. cachedR'[q] \in {idxR[q], cachedR[q]}
      BY <2>1
    <3> QED
      BY <2>1, <3>1, <3>3, <3>4 DEF IndexInv, LaneInv, ringVars, readerVars
  <2>3. ASSUME NEW g \in Lanes
        PROVE  WriterInv(g)'
    <3>1. CASE g = h
      BY <1>1, <2>1, <3>1 DEF IndexInv, WriterInv, ringVars, IsFull, WriterOf, TypeOK
    <3>2. CASE g # h
      BY <2>1, <2>2, <3>2 DEF IndexInv, WriterInv, ringVars, WriterOf, TypeOK
    <3> QED
      BY <3>1, <3>2
  <2> QED
    BY <1>2, <2>1, <2>2, <2>3 DEF IndexInv
<1>6. CASE PutBooked(h)
  <2>1. /\ wpc[h] = "put" /\ kind = "mpsc" /\ wlane[h] = h
        /\ localW' = [localW EXCEPT ![h].b = TRUE] /\ idxW' = [idxW EXCEPT ![h].b = TRUE]
        /\ wpc' = [wpc EXCEPT ![h] = "idle"]
        /\ UNCHANGED <<kind, idxR, wlane, cachedR, readerVars>>
    BY <1>6 DEF PutBooked, IndexInv, WriterInv, WriterOf
  <2>2. \A q \in Lanes : localW'[q].i = localW[q].i /\ idxW'[q].i = idxW[q].i
    BY <2>1 DEF TypeOK, Idx
  <2>3. \A q \in Lanes : q # h => localW'[q].b = localW[q].b
    BY <2>1 DEF TypeOK
  <2>4. \A g \in Lanes : WriterInv(g)'
    BY <2>1, <2>2 DEF IndexInv, WriterInv, WriterOf, TypeOK
  <2>5. \A q \in Lanes : LaneInv(q)'
    BY <2>1, <2>2, <2>3 DEF IndexInv, LaneInv, WriterInv, readerVars
  <2> QED
    BY <1>2, <2>1, <2>4, <2>5 DEF IndexInv
<1>7. CASE Put(h)
  <2> DEFINE p == wlane[h]
  <2>1. /\ wpc[h] = "put" /\ kind # "mpsc"
        /\ localW' = [localW EXCEPT ![p].i = Increment(@)]
        /\ wpc' = [wpc EXCEPT ![h] = "publish"]
        /\ UNCHANGED <<kind, idxR, idxW, wlane, cachedR, readerVars>>
    BY <1>7 DEF Put
  <2>2. WriterOf(p) = h /\ Dist(cachedR[p], localW[p].i) # Capacity
    BY <2>1 DEF IndexInv, WriterInv
  <2>3. localW'[p].i = Increment(localW[p].i) /\ \A q \in Lanes : q # p => localW'[q] = localW[q]
    <3>1. p \in Lanes /\ localW \in [Lanes -> Idx] /\ localW[p] \in Idx
      BY <1>1 DEF TypeOK
    <3>2. localW' = [localW EXCEPT ![p] = [localW[p] EXCEPT !.i = Increment(@)]]
      BY <2>1
    <3>3. [localW[p] EXCEPT !.i = Increment(@)].i = Increment(localW[p].i)
      BY <3>1 DEF Idx
    <3> HIDE DEF p
    <3> QED
      BY <3>1, <3>2, <3>3
  <2>4. Follow(cachedR[p], idxR[p], localR[p], cachedW[p].i, idxW[p].i, localW'[p].i)
    <3>1. /\ p \in Lanes
          /\ Follow(cachedR[p], idxR[p], localR[p], cachedW[p].i, idxW[p].i, localW[p].i)
      BY <1>1 DEF IndexInv, LaneInv
    <3> HIDE DEF p
    <3>2. Follow(cachedR[p], idxR[p], localR[p], cachedW[p].i, idxW[p].i, Increment(localW[p].i))
      BY <1>1, <2>2, <3>1, FollowSteps
    <3> QED
      BY <2>3, <3>2
  <2>5. \A q \in Lanes : LaneInv(q)'
    BY <2>1, <2>3, <2>4 DEF IndexInv, LaneInv, readerVars
  <2>6. \A g \in Lanes : WriterInv(g)'
    BY <2>1, <2>2, <2>3 DEF IndexInv, WriterInv, WriterOf, TypeOK
  <2> QED
    BY <1>2, <2>1, <2>5, <2>6 DEF IndexInv
<1>8. CASE PublishW(h)
  <2>1. /\ wpc' = [wpc EXCEPT ![h] = "idle"]
        /\ UNCHANGED <<kind, slots, idxR, wlane, localW, cachedR, readerVars>>
        /\ \A q \in Lanes : idxW'[q] \in {idxW[q], localW[q]}
    BY <1>8 DEF PublishW, UpdateW, TypeOK
  <2>2. ASSUME NEW q \in Lanes
        PROVE  LaneInv(q)'
    <3>1. Follow(cachedR[q], idxR[q], localR[q], cachedW[q].i, localW[q].i, localW[q].i)
      BY <1>1, FollowSteps DEF IndexInv, LaneInv
    <3> QED
      BY <2>1, <3>1 DEF IndexInv, LaneInv, readerVars
  <2>3. \A g \in Lanes : WriterInv(g)'
    BY <2>1 DEF IndexInv, WriterInv, WriterOf, TypeOK
  <2> QED
    BY <1>2, <2>1, <2>2, <2>3 DEF IndexInv
<1>9. CASE Commit(h)
  <2> DEFINE new == [i |-> Increment(localW[h].i), b |-> FALSE]
  <2>1. /\ kind = "mpsc" /\ localW[h].b /\ wpc[h] = "idle"
        /\ localW' = [localW EXCEPT ![h] = new]
        /\ idxW' = [idxW EXCEPT ![h] = new]
        /\ UNCHANGED <<kind, idxR, wpc, wlane, cachedR, readerVars>>
    BY <1>9 DEF Commit, UpdateW, TypeOK
  <2>2. Dist(cachedR[h], localW[h].i) # Capacity
    BY <2>1 DEF IndexInv, LaneInv
  <2>3. Follow(cachedR[h], idxR[h], localR[h], cachedW[h].i, Increment(localW[h].i),
               Increment(localW[h].i))
    <3>1. Follow(cachedR[h], idxR[h], localR[h], cachedW[h].i, idxW[h].i, Increment(localW[h].i))
      BY <1>1, <2>2, FollowSteps DEF IndexInv, LaneInv
    <3> QED
      BY <1>1, <3>1, IncrementType, FollowSteps
  <2>4. \A q \in Lanes : LaneInv(q)'
    BY <2>1, <2>3 DEF IndexInv, LaneInv, readerVars, TypeOK
  <2>5. \A g \in Lanes : WriterInv(g)'
    BY <2>1 DEF IndexInv, WriterInv, WriterOf, TypeOK
  <2> QED
    BY <1>2, <2>1, <2>4, <2>5 DEF IndexInv
<1> QED
  BY <1>3, <1>4, <1>5, <1>6, <1>7, <1>8, <1>9 DEF WriterStep

\* Steps of a reader keep it: what a reader does to its lanes is one of FollowSteps.
LEMMA ReaderStepInv ==
    ASSUME TypeOK, IndexInv, NEW h \in Lanes, ReaderStep(h)
    PROVE  IndexInv'
<1> USE Facts
<1>1. /\ \A p \in Lanes : /\ cachedR[p] \in Index /\ idxR[p] \in Index /\ localR[p] \in Index
                          /\ cachedW[p].i \in Index /\ idxW[p].i \in Index
                          /\ localW[p].i \in Index
      /\ rlane[h] \in Lanes
  BY DEF TypeOK, Idx
<1>2. ASSUME UNCHANGED writerVars, kind' = kind
      PROVE  \A g \in Lanes : WriterInv(g)'
  BY <1>2 DEF IndexInv, WriterInv, writerVars, WriterOf
<1>3. ASSUME NEW op \in ROp, NEW p \in Lanes, StartRead(h, op, p)
      PROVE  IndexInv'
  <2>1. \A g \in Lanes : ReaderInv(g)'
    BY <1>3 DEF StartRead, LookAt, IndexInv, ReaderInv, ringVars, ReaderOf, TypeOK, ROp
  <2>2. \A q \in Lanes : LaneInv(q)'
    BY <1>3 DEF StartRead, IndexInv, LaneInv, ringVars, writerVars
  <2> QED
    BY <1>2, <1>3, <2>1, <2>2 DEF StartRead, IndexInv, ringVars
<1>4. ASSUME NEW v \in Elems, PeekMut(h, v)
      PROVE  IndexInv'
  <2>1. \A g \in Lanes : ReaderInv(g)'
    BY <1>4 DEF PeekMut, FinishRead, IndexInv, ReaderInv, ReaderOf, TypeOK
  <2>2. \A q \in Lanes : LaneInv(q)'
    BY <1>4 DEF PeekMut, IndexInv, LaneInv, writerVars
  <2> QED
    BY <1>2, <1>4, <2>1, <2>2 DEF PeekMut, IndexInv
<1>5. CASE Reload(h)
  <2>1. /\ rpc[h] = "reload"
        /\ cachedW' = [q \in Lanes |-> IF ReaderOf(q) = h THEN idxW[q] ELSE cachedW[q]]
        /\ UNCHANGED <<ringVars, writerVars, localR>>
    BY <1>5 DEF Reload
  <2>2. ReaderOf(rlane[h]) = h /\ (kind = "spmc" => rop[h] = "pullprio")
    BY <2>1 DEF IndexInv, ReaderInv
  <2>3. ASSUME NEW q \in Lanes
        PROVE  LaneInv(q)'
    <3>1. Follow(cachedR[q], idxR[q], localR[q], idxW[q].i, idxW[q].i, localW[q].i)
      BY <1>1, FollowSteps DEF IndexInv, LaneInv
    <3>2. cachedW'[q] \in {idxW[q], cachedW[q]}
      BY <2>1
    <3> QED
      BY <2>1, <3>1, <3>2 DEF IndexInv, LaneInv, ringVars, writerVars
  <2>4. ReaderInv(h)'
    <3>1. CASE FinishRead(h)
      BY <3>1 DEF FinishRead, ReaderInv, TypeOK
    <3>2. ASSUME rlane[h] < NPrio, rop[h] # "pullprio", rop' = rop,
                 rlane' = [rlane EXCEPT ![h] = rlane[h] + 1],
                 rpc' = [rpc EXCEPT ![h] = LookAt(rlane[h] + 1, idxW[rlane[h] + 1])]
          PROVE  ReaderInv(h)'
      <4>1. kind # "spmc" /\ h = 1 /\ rlane[h] + 1 \in Lanes
        BY <1>1, <2>2, <3>2 DEF ReaderOf
      <4>2. /\ rlane'[h] = rlane[h] + 1
            /\ rpc'[h] = LookAt(rlane[h] + 1, idxW[rlane[h] + 1])
            /\ cachedW'[rlane[h] + 1] = idxW[rlane[h] + 1]
        BY <2>1, <3>2, <4>1 DEF TypeOK, ReaderOf
      <4> QED
        BY <2>1, <4>1, <4>2 DEF ReaderInv, LookAt, ReaderOf, ringVars
    <3>3. ASSUME localR[rlane[h]] # idxW[rlane[h]].i,
                 rpc' = [rpc EXCEPT ![h] = "take"], rlane' = rlane, rop' = rop
          PROVE  ReaderInv(h)'
      BY <1>1, <2>1, <2>2, <3>3 DEF ReaderInv, ReaderOf, ringVars
    <3> QED
      BY <1>5, <3>1, <3>2, <3>3 DEF Reload
  <2>5. ASSUME NEW g \in Lanes, g # h
        PROVE  ReaderInv(g)'
    <3>1. rpc'[g] = rpc[g] /\ rlane'[g] = rlane[g] /\ rop'[g] = rop[g]
      BY <1>5, <2>5 DEF Reload, FinishRead, TypeOK
    <3>2. rlane[g] \in Lanes /\ (ReaderOf(rlane[g]) = g => cachedW'[rlane[g]] = cachedW[rlane[g]])
      BY <2>1, <2>5 DEF TypeOK
    <3> QED
      BY <2>1, <3>1, <3>2 DEF IndexInv, ReaderInv, ReaderOf, ringVars
  <2> QED
    BY <1>2, <2>1, <2>3, <2>4, <2>5 DEF IndexInv, ringVars
<1>6. CASE Take(h)
  <2> DEFINE p == rlane[h]
  <2>1. /\ rpc[h] = "take"
        /\ localR' = [localR EXCEPT ![p] = Increment(@)]
        /\ rpc' = [rpc EXCEPT ![h] = "publish"]
        /\ UNCHANGED <<kind, idxR, idxW, writerVars, rlane, rop, cachedW>>
    BY <1>6 DEF Take
  <2>2. ReaderOf(p) = h /\ localR[p] # cachedW[p].i
    BY <2>1 DEF IndexInv, ReaderInv
  <2>3. localR'[p] = Increment(localR[p]) /\ \A q \in Lanes : q # p => localR'[q] = localR[q]
    BY <1>1, <2>1 DEF TypeOK
  <2>4. Follow(cachedR[p], idxR[p], localR'[p], cachedW[p].i, idxW[p].i, localW[p].i)
    <3>1. /\ p \in Lanes
          /\ Follow(cachedR[p], idxR[p], localR[p], cachedW[p].i, idxW[p].i, localW[p].i)
      BY <1>1 DEF IndexInv, LaneInv
    <3> HIDE DEF p
    <3>2. Follow(cachedR[p], idxR[p], Increment(localR[p]), cachedW[p].i, idxW[p].i, localW[p].i)
      BY <1>1, <2>2, <3>1, FollowSteps
    <3> QED
      BY <2>3, <3>2
  <2>5. \A q \in Lanes : LaneInv(q)'
    BY <2>1, <2>3, <2>4 DEF IndexInv, LaneInv, writerVars
  <2>6. \A g \in Lanes : ReaderInv(g)'
    BY <2>1, <2>2, <2>3 DEF IndexInv, ReaderInv, ReaderOf, TypeOK
  <2> QED
    BY <1>2, <2>1, <2>5, <2>6 DEF IndexInv
<1>7. CASE PublishR(h)
  <2>1. /\ UNCHANGED <<kind, idxW, writerVars, localR, cachedW>>
        /\ \A q \in Lanes : idxR'[q] \in {idxR[q], localR[q]}
    BY <1>7 DEF PublishR, UpdateR, TypeOK
  <2>2. ASSUME NEW q \in Lanes
        PROVE  LaneInv(q)'
    <3>1. Follow(cachedR[q], localR[q], localR[q], cachedW[q].i, idxW[q].i, localW[q].i)
      BY <1>1, FollowSteps DEF IndexInv, LaneInv
    <3> QED
      BY <2>1, <2>2, <3>1 DEF IndexInv, LaneInv, writerVars
  <2>3. \A g \in Lanes : ReaderInv(g)'
    BY <1>7, <2>1 DEF PublishR, FinishRead, IndexInv, ReaderInv, ReaderOf, TypeOK
  <2> QED
    BY <1>2, <2>1, <2>2, <2>3 DEF IndexInv
<1> QED
  BY <1>3, <1>4, <1>5, <1>6, <1>7 DEF ReaderStep

\* It holds at the start.
LEMMA IndexInit == Init => IndexInv
<1> SUFFICES ASSUME Init
             PROVE  IndexInv
  OBVIOUS
<1>1. \A p \in Lanes : LaneInv(p)
  BY Circle DEF Init, LaneInv, Follow, Dist
<1>2. \A h \in Lanes : WriterInv(h) /\ ReaderInv(h)
  BY DEF Init, WriterInv, ReaderInv
<1> QED
  BY <1>1, <1>2 DEF IndexInv

\* Every step keeps it.
LEMMA IndexStep == TypeOK /\ IndexInv /\ [Next]_vars => IndexInv'
<1> SUFFICES ASSUME TypeOK, IndexInv, [Next]_vars
             PROVE  IndexInv'
  OBVIOUS
<1>1. CASE DropRing \/ UNCHANGED vars
  BY <1>1 DEF DropRing, vars, ringVars, writerVars, readerVars, IndexInv, WriterInv,
              ReaderInv, LaneInv, WriterOf, ReaderOf
<1> QED
  BY <1>1, WriterStepInv, ReaderStepInv DEF Next

\* The indices of a priority stay in step, whoever moves them and whatever copy a
\* handle decides on (RingBufferWriter::is_full, RingBufferReader::is_empty, update::m
\* and update::s in src/pipeline/ringbuf/common.rs).
THEOREM IndicesFollow == Spec => []IndicesInStep
<1>1. TypeOK /\ IndexInv => IndicesInStep
  BY FollowInStep DEF TypeOK, Idx, IndexInv, LaneInv, IndicesInStep
<1> QED
  BY <1>1, IndexInit, IndexStep, RingTypes, PTL DEF Spec

----------------------------------------------------------------------------
(* Slots of a circle *)

\* A multiple of the capacity that is smaller than the capacity is zero.
LEMMA SmallMultiple ==
    ASSUME NEW C \in Nat, C > 0, NEW e \in Int, -C < C * e, C * e < C
    PROVE  e = 0
<1>1. CASE e >= 1
  BY <1>1
<1>2. CASE e <= -1
  BY <1>2
<1> QED
  BY <1>1, <1>2

\* Multiples add up to multiples.
LEMMA Distribute ==
    ASSUME NEW C \in Int, NEW a \in Int, NEW b \in Int, NEW m \in Int
    PROVE  /\ C * b - C * a = C * (b - a)
           /\ C * b - C * a + C * m = C * (b - a + m)
           /\ C * b - C * a - C * m = C * (b - a - m)
OBVIOUS

\* Division with a remainder.
LEMMA DivMod ==
    ASSUME NEW C \in Nat, C > 0, NEW i \in Int
    PROVE  (i \div C) \in Int /\ i = C * (i \div C) + (i % C)
<1>1. (i \div C) \in Int
  BY SMT
<1>2. i = C * (i \div C) + (i % C)
  BY SMT
<1> QED
  BY <1>1, <1>2

\* Two indices fewer than the capacity away from the reader's have different slots:
\* this is where the modulus has to be a multiple of the capacity.
LEMMA SlotsApart ==
    ASSUME NEW lr \in Index, NEW i \in Index, NEW j \in Index, i # j,
           Dist(lr, i) < Capacity, Dist(lr, j) < Capacity
    PROVE  SlotOf(i) # SlotOf(j)
<1> DEFINE a == i \div Capacity
           b == j \div Capacity
           m == Modulus \div Capacity
<1>1. SUFFICES ASSUME SlotOf(i) = SlotOf(j)
               PROVE  FALSE
  OBVIOUS
<1>2. /\ Capacity \in Nat /\ Capacity > 0 /\ Modulus \in Nat
      /\ i \in Int /\ j \in Int /\ i \in 0..(Modulus - 1) /\ j \in 0..(Modulus - 1)
  BY Circle
<1>3. a \in Int /\ i = Capacity * a + SlotOf(i)
  BY <1>2, DivMod DEF SlotOf
<1>4. b \in Int /\ j = Capacity * b + SlotOf(j)
  BY <1>2, DivMod DEF SlotOf
<1>5. m \in Int /\ Modulus = Capacity * m
  <2>1. m \in Int /\ Modulus = Capacity * m + (Modulus % Capacity)
    BY <1>2, DivMod
  <2>2. Modulus % Capacity = 0
    BY RingAssumption
  <2> QED
    BY <1>2, <2>1, <2>2
<1>6. /\ SlotOf(i) \in Int
      /\ Capacity * a \in Int /\ Capacity * b \in Int /\ Capacity * m \in Int
  BY <1>2, <1>3, <1>4, <1>5, SlotType DEF Slot
<1> HIDE DEF a, b, m
<1>7. PICK d \in {j - i, j - i + Modulus, j - i - Modulus} : -Capacity < d /\ d < Capacity
  BY Circle DEF Dist
<1>8. d # 0
  BY <1>2, <1>7
<1>9. j - i = Capacity * b - Capacity * a
  <2>1. \A x, y, r \in Int : i = x + r /\ j = y + r => j - i = y - x
    BY <1>2
  <2> QED
    BY <1>1, <1>3, <1>4, <1>6, <2>1
<1>10. \E e \in Int : d = Capacity * e
  <2>1. /\ Capacity * b - Capacity * a = Capacity * (b - a)
        /\ Capacity * b - Capacity * a + Capacity * m = Capacity * (b - a + m)
        /\ Capacity * b - Capacity * a - Capacity * m = Capacity * (b - a - m)
    BY <1>2, <1>3, <1>4, <1>5, Distribute
  <2>2. b - a \in Int /\ b - a + m \in Int /\ b - a - m \in Int
    BY <1>3, <1>4, <1>5
  <2>3. \/ d = Capacity * (b - a)
        \/ d = Capacity * (b - a + m)
        \/ d = Capacity * (b - a - m)
    BY <1>5, <1>7, <1>9, <2>1
  <2> QED
    BY <2>2, <2>3
<1>11. PICK e \in Int : d = Capacity * e
  BY <1>10
<1>12. e = 0
  BY <1>2, <1>7, <1>11, SmallMultiple
<1> QED
  BY <1>2, <1>8, <1>11, <1>12

\* The slots of the n indices from the reader's own on.
Used(lr, n, k) == \E i \in Index : SlotOf(i) = k /\ Dist(lr, i) < n

\* One more element is put behind them, the first of them is taken.
LEMMA UsedSteps ==
    ASSUME NEW lr \in Index, NEW n \in Nat, n <= Capacity
    PROVE  /\ \A i \in Index : n < Capacity /\ Dist(lr, i) = n =>
                /\ ~Used(lr, n, SlotOf(i))
                /\ \A k : Used(lr, n + 1, k) <=> Used(lr, n, k) \/ k = SlotOf(i)
           /\ n > 0 =>
                /\ Used(lr, n, SlotOf(lr))
                /\ \A k : Used(Increment(lr), n - 1, k) <=> Used(lr, n, k) /\ k # SlotOf(lr)
<1>1. ASSUME NEW i \in Index, n < Capacity, Dist(lr, i) = n
      PROVE  /\ ~Used(lr, n, SlotOf(i))
             /\ \A k : Used(lr, n + 1, k) <=> Used(lr, n, k) \/ k = SlotOf(i)
  <2>1. /\ \A j \in Index : Dist(lr, j) < n => j # i /\ Dist(lr, j) < Capacity
        /\ Dist(lr, i) < Capacity
    BY <1>1, Circle DEF Dist
  <2>2. ~Used(lr, n, SlotOf(i))
    BY <2>1, SlotsApart DEF Used
  <2>3. \A j \in Index : Dist(lr, j) < n + 1 <=> Dist(lr, j) < n \/ j = i
    BY <1>1, Circle DEF Dist
  <2> QED
    BY <2>2, <2>3 DEF Used
<1>2. ASSUME n > 0
      PROVE  /\ Used(lr, n, SlotOf(lr))
             /\ \A k : Used(Increment(lr), n - 1, k) <=> Used(lr, n, k) /\ k # SlotOf(lr)
  <2>1. Dist(lr, lr) < n /\ Dist(lr, lr) < Capacity
    BY <1>2, Circle DEF Dist
  <2>2. \A j \in Index : Dist(Increment(lr), j) < n - 1 <=> Dist(lr, j) < n /\ j # lr
    BY <1>2, Circle DEF Dist, Increment
  <2>3. \A j \in Index : Dist(lr, j) < n /\ j # lr => SlotOf(j) # SlotOf(lr)
    <3>1. \A j \in Index : Dist(lr, j) < n => Dist(lr, j) < Capacity
      BY Circle DEF Dist
    <3> QED
      BY <2>1, <3>1, SlotsApart
  <2> QED
    BY <2>1, <2>2, <2>3 DEF Used
<1> QED
  BY <1>1, <1>2

----------------------------------------------------------------------------
(* The inductive invariant of the slots *)

\* The elements of a priority between the two sides' own indices, the booked one
\* included.
Count(p) == Dist(localR[p], localW[p].i) + (IF localW[p].b THEN 1 ELSE 0)

\* A writer has an element to put and nothing booked in the lane; only the ring with a
\* writer per priority books; the handles are dropped together.
HandleInv ==
    /\ \A h \in Lanes : wpc[h] \in {"refresh", "put"} =>
                            wval[h] \in Elems /\ ~localW[wlane[h]].b
    /\ \A p \in Lanes : localW[p].b => kind = "mpsc"
    /\ \A h, g \in Lanes : wpc[h] = "gone" <=> rpc[g] = "gone"

\* The slots that hold something are those of these elements.
LaneSlots(p) == \A k \in Slot : slots[p][k] # NoElem <=> Used(localR[p], Count(p), k)

SlotInv == HandleInv /\ (Alive => \A p \in Lanes : LaneSlots(p))

\* The distance grows and shrinks by one.
LEMMA DistSteps ==
    ASSUME NEW lr \in Index, NEW lw \in Index
    PROVE  /\ Dist(lr, lw) < Capacity => Dist(lr, Increment(lw)) = Dist(lr, lw) + 1
           /\ lr # lw => Dist(Increment(lr), lw) = Dist(lr, lw) - 1
           /\ Dist(lr, lr) = 0
BY Circle DEF Dist, Increment

\* What Follow says without the copies of the handles.
LEMMA FollowRoom ==
    ASSUME NEW cr \in Index, NEW ir \in Index, NEW lr \in Index,
           NEW cw \in Index, NEW iw \in Index, NEW lw \in Index,
           Follow(cr, ir, lr, cw, iw, lw)
    PROVE  /\ Dist(lr, lw) \in Nat /\ Dist(lr, lw) <= Capacity
           /\ Dist(cr, lw) # Capacity => Dist(lr, lw) < Capacity
           /\ lr # cw => Dist(lr, lw) > 0
BY Circle DEF Follow, Dist

\* Where the indices of a lane are, and where the handles stand: what IndexInv says
\* without the copies of the handles.
LEMMA LaneRoom ==
    ASSUME TypeOK, IndexInv, HandleInv
    PROVE  /\ \A p \in Lanes :
                /\ localR[p] \in Index /\ localW[p].i \in Index
                /\ SlotOf(localR[p]) \in Slot /\ SlotOf(localW[p].i) \in Slot
                /\ Count(p) \in Nat /\ Count(p) <= Capacity
                /\ ~localW[p].b => Count(p) = Dist(localR[p], localW[p].i)
                /\ localW[p].b => Count(p) = Dist(localR[p], localW[p].i) + 1
           /\ \A h \in Lanes :
                /\ wlane[h] \in Lanes /\ rlane[h] \in Lanes
                /\ wpc[h] = "put" => /\ WriterOf(wlane[h]) = h
                                     /\ Count(wlane[h]) < Capacity
                /\ rpc[h] = "take" => /\ ReaderOf(rlane[h]) = h
                                      /\ Count(rlane[h]) > 0
                                      /\ localR[rlane[h]] # localW[rlane[h]].i
<1>1. \A p \in Lanes : /\ cachedR[p] \in Index /\ idxR[p] \in Index /\ localR[p] \in Index
                       /\ cachedW[p].i \in Index /\ idxW[p].i \in Index
                       /\ localW[p].i \in Index /\ localW[p].b \in BOOLEAN
                       /\ SlotOf(localR[p]) \in Slot /\ SlotOf(localW[p].i) \in Slot
  BY SlotType DEF TypeOK, Idx
<1>2. \A h \in Lanes : wlane[h] \in Lanes /\ rlane[h] \in Lanes
  BY DEF TypeOK
<1>3. ASSUME NEW p \in Lanes
      PROVE  /\ Dist(localR[p], localW[p].i) \in Nat /\ Dist(localR[p], localW[p].i) <= Capacity
             /\ Dist(cachedR[p], localW[p].i) # Capacity =>
                    Dist(localR[p], localW[p].i) < Capacity
             /\ localR[p] # cachedW[p].i => Dist(localR[p], localW[p].i) > 0
  <2>1. Follow(cachedR[p], idxR[p], localR[p], cachedW[p].i, idxW[p].i, localW[p].i)
    BY DEF IndexInv, LaneInv
  <2> QED
    BY SMTT(30), <1>1, <2>1, FollowRoom
<1>4. ASSUME NEW p \in Lanes
      PROVE  /\ Count(p) \in Nat /\ Count(p) <= Capacity
             /\ ~localW[p].b => Count(p) = Dist(localR[p], localW[p].i)
             /\ localW[p].b => Count(p) = Dist(localR[p], localW[p].i) + 1
  <2>1. localW[p].b => Dist(localR[p], localW[p].i) < Capacity
    BY <1>3 DEF IndexInv, LaneInv, HandleInv
  <2> QED
    BY <1>3, <2>1, Circle DEF Count
<1>5. ASSUME NEW h \in Lanes, wpc[h] = "put"
      PROVE  WriterOf(wlane[h]) = h /\ Count(wlane[h]) < Capacity
  <2>1. /\ WriterOf(wlane[h]) = h /\ ~localW[wlane[h]].b
        /\ Dist(cachedR[wlane[h]], localW[wlane[h]].i) # Capacity
    BY <1>5 DEF IndexInv, WriterInv, HandleInv
  <2> QED
    BY <1>2, <1>3, <1>4, <2>1
<1>6. ASSUME NEW h \in Lanes, rpc[h] = "take"
      PROVE  /\ ReaderOf(rlane[h]) = h /\ Count(rlane[h]) > 0
             /\ localR[rlane[h]] # localW[rlane[h]].i
  <2>1. ReaderOf(rlane[h]) = h /\ localR[rlane[h]] # cachedW[rlane[h]].i
    BY <1>6 DEF IndexInv, ReaderInv
  <2>2. Dist(localR[rlane[h]], localW[rlane[h]].i) > 0
    BY <1>2, <1>3, <2>1
  <2>3. localR[rlane[h]] # localW[rlane[h]].i
    BY <1>1, <1>2, <2>2, DistSteps
  <2> QED
    BY <1>2, <1>3, <2>1, <2>2, <2>3 DEF Count
<1> QED
  BY <1>1, <1>2, <1>4, <1>5, <1>6

\* What a step that puts an element into a slot does to the slots in use.
LEMMA PutUses ==
    ASSUME TypeOK, IndexInv, HandleInv, NEW p \in Lanes, LaneSlots(p), ~localW[p].b,
           Count(p) < Capacity, NEW v \in Elems, localR'[p] = localR[p],
           slots'[p] = [slots[p] EXCEPT ![SlotOf(localW[p].i)] = v], Count(p)' = Count(p) + 1
    PROVE  /\ slots[p][SlotOf(localW[p].i)] = NoElem
           /\ LaneSlots(p)'
<1> DEFINE n == Count(p)
           s == SlotOf(localW[p].i)
<1>1. /\ localR[p] \in Index /\ localW[p].i \in Index /\ s \in Slot
      /\ n \in Nat /\ n < Capacity /\ n <= Capacity /\ Dist(localR[p], localW[p].i) = n
  BY LaneRoom
<1> HIDE DEF n
<1>2. /\ ~Used(localR[p], n, s)
      /\ \A k : Used(localR[p], n + 1, k) <=> Used(localR[p], n, k) \/ k = s
  BY <1>1, UsedSteps
<1>3. \A k \in Slot : slots'[p][k] # NoElem <=> slots[p][k] # NoElem \/ k = s
  BY <1>1, Facts DEF TypeOK
<1>4. \A k \in Slot : slots[p][k] # NoElem <=> Used(localR[p], n, k)
  BY DEF LaneSlots, n
<1>5. \A k \in Slot : slots'[p][k] # NoElem <=> Used(localR[p], n + 1, k)
  BY <1>2, <1>3, <1>4
<1> QED
  BY <1>1, <1>2, <1>4, <1>5 DEF LaneSlots, n

\* A step that changes an element in its place does nothing to them.
LEMMA ChangeUses ==
    ASSUME TypeOK, NEW p \in Lanes, LaneSlots(p), NEW i \in Index,
           Dist(localR[p], i) < Count(p), NEW v \in Elems, localR'[p] = localR[p],
           slots'[p] = [slots[p] EXCEPT ![SlotOf(i)] = v], Count(p)' = Count(p)
    PROVE  LaneSlots(p)'
<1>1. SlotOf(i) \in Slot /\ Used(localR[p], Count(p), SlotOf(i))
  BY SlotType DEF Used
<1>2. slots[p][SlotOf(i)] # NoElem
  BY <1>1 DEF LaneSlots
<1>3. \A k \in Slot : slots'[p][k] # NoElem <=> slots[p][k] # NoElem
  BY <1>1, <1>2, Facts DEF TypeOK
<1> QED
  BY <1>3 DEF LaneSlots

\* A step that does not touch a lane does nothing to its slots.
LEMMA OtherLane ==
    ASSUME NEW q \in Lanes, LaneSlots(q), slots'[q] = slots[q],
           localW'[q] = localW[q], localR'[q] = localR[q]
    PROVE  LaneSlots(q)'
<1>1. Count(q)' = Count(q)
  BY DEF Count
<1> QED
  BY <1>1 DEF LaneSlots

\* Steps of a writer keep it.
LEMMA WriterSlots ==
    ASSUME TypeOK, IndexInv, SlotInv, NEW h \in Lanes, WriterStep(h)
    PROVE  SlotInv'
<1> USE Facts
<1>1. TypeOK /\ HandleInv
  BY DEF SlotInv
<1>2. ASSUME NEW p \in Lanes, NEW v \in Elems, StartWrite(h, p, v)
      PROVE  SlotInv'
  <2>1. HandleInv'
    BY <1>1, <1>2 DEF StartWrite, HandleInv, TypeOK, ringVars, readerVars
  <2>2. Alive' => Alive
    BY <1>2 DEF StartWrite, Alive, TypeOK
  <2> QED
    BY <1>2, <2>1, <2>2 DEF StartWrite, SlotInv, LaneSlots, Count, ringVars, readerVars
<1>3. CASE RefuseBooked(h)
  BY <1>3 DEF RefuseBooked, SlotInv, HandleInv, Alive, LaneSlots, Count, ringVars, writerVars, readerVars
<1>4. CASE Refresh(h)
  <2>1. HandleInv'
    <3>1. /\ wpc[h] = "refresh" /\ wpc'[h] \in {"idle", "put"}
          /\ \A g \in Lanes : g # h => wpc'[g] = wpc[g] /\ wval'[g] = wval[g]
          /\ UNCHANGED <<kind, wlane, localW, rpc>>
      BY <1>1, <1>4 DEF Refresh, TypeOK, ringVars, readerVars
    <3>2. wpc'[h] = "put" => wval'[h] \in Elems /\ ~localW[wlane[h]].b
      BY <1>1, <1>4 DEF Refresh, TypeOK, HandleInv
    <3> QED
      BY <1>1, <3>1, <3>2 DEF HandleInv
  <2>2. Alive' => Alive
    BY <1>4 DEF Refresh, Alive, TypeOK
  <2> QED
    BY <1>4, <2>1, <2>2 DEF Refresh, SlotInv, LaneSlots, Count, ringVars, readerVars
<1>5. CASE PutBooked(h)
  <2>1. /\ wpc[h] = "put" /\ kind = "mpsc" /\ wlane[h] = h
        /\ wval[h] \in Elems /\ ~localW[h].b /\ Count(h) < Capacity
    BY <1>1, <1>5, LaneRoom DEF PutBooked, HandleInv, WriterOf
  <2>2. /\ slots' = [slots EXCEPT ![h][SlotOf(localW[h].i)] = wval[h]]
        /\ localW' = [localW EXCEPT ![h].b = TRUE]
        /\ wpc' = [wpc EXCEPT ![h] = "idle"] /\ wval' = [wval EXCEPT ![h] = NoElem]
        /\ UNCHANGED <<kind, wlane, rpc, localR>>
    BY <1>5 DEF PutBooked, readerVars
  <2>3. /\ localW'[h].i = localW[h].i /\ localW'[h].b
        /\ \A q \in Lanes : q # h => localW'[q] = localW[q] /\ slots'[q] = slots[q]
        /\ slots'[h] = [slots[h] EXCEPT ![SlotOf(localW[h].i)] = wval[h]]
    BY <1>1, <2>2 DEF TypeOK, Idx
  <2>4. HandleInv'
    BY <1>1, <2>1, <2>2, <2>3 DEF HandleInv, TypeOK, IndexInv, WriterInv, WriterOf
  <2>5. Alive' => Alive
    BY <1>1, <2>1, <2>2 DEF Alive, TypeOK
  <2>6. Count(h)' = Count(h) + 1
    <3>1. Count(h) = Dist(localR[h], localW[h].i)
      BY <1>1, <2>1, LaneRoom
    <3>2. Count(h)' = Dist(localR[h], localW[h].i) + 1
      BY <2>2, <2>3 DEF Count
    <3> QED
      BY <3>1, <3>2
  <2>7. ASSUME Alive, NEW q \in Lanes
        PROVE  LaneSlots(q)'
    <3>1. CASE q # h
      BY <2>2, <2>3, <2>7, <3>1, OtherLane DEF SlotInv
    <3>2. LaneSlots(h) /\ localR'[h] = localR[h]
      BY <2>2, <2>7 DEF SlotInv
    <3>3. CASE q = h
      BY <1>1, <2>1, <2>3, <2>6, <3>2, <3>3, PutUses
    <3> QED
      BY <3>1, <3>3
  <2> QED
    BY <2>4, <2>5, <2>7 DEF SlotInv
<1>6. CASE Put(h)
  <2>0. PICK p \in Lanes : p = wlane[h]
    BY <1>1 DEF TypeOK
  <2>1. /\ wpc[h] = "put" /\ kind # "mpsc" /\ WriterOf(p) = h /\ p \in Lanes
        /\ wval[h] \in Elems /\ ~localW[p].b /\ Count(p) < Capacity
    BY <1>1, <1>6, <2>0, LaneRoom DEF Put, HandleInv
  <2>2. /\ slots' = [slots EXCEPT ![p][SlotOf(localW[p].i)] = wval[h]]
        /\ localW' = [localW EXCEPT ![p] = [localW[p] EXCEPT !.i = Increment(@)]]
        /\ wpc' = [wpc EXCEPT ![h] = "publish"] /\ wval' = [wval EXCEPT ![h] = NoElem]
        /\ UNCHANGED <<kind, wlane, rpc, localR>>
    BY <1>6, <2>0 DEF Put, readerVars
  <2>3. /\ localW'[p].i = Increment(localW[p].i) /\ localW'[p].b = localW[p].b
        /\ \A q \in Lanes : q # p => localW'[q] = localW[q] /\ slots'[q] = slots[q]
        /\ slots'[p] = [slots[p] EXCEPT ![SlotOf(localW[p].i)] = wval[h]]
    <3>1. localW[p] \in Idx
      BY <1>1, <2>1 DEF TypeOK
    <3>2. /\ [localW[p] EXCEPT !.i = Increment(@)].i = Increment(localW[p].i)
          /\ [localW[p] EXCEPT !.i = Increment(@)].b = localW[p].b
      BY <3>1 DEF Idx
    <3> QED
      BY <1>1, <2>1, <2>2, <3>2 DEF TypeOK
  <2>4. HandleInv'
    BY <1>1, <2>1, <2>2, <2>3 DEF HandleInv, TypeOK
  <2>5. Alive' => Alive
    BY <1>1, <2>1, <2>2 DEF Alive, TypeOK
  <2>6. Count(p)' = Count(p) + 1
    <3>1. Count(p) = Dist(localR[p], localW[p].i)
      BY <1>1, <2>1, LaneRoom
    <3>2. Dist(localR[p], Increment(localW[p].i)) = Dist(localR[p], localW[p].i) + 1
      BY <1>1, <2>1, <3>1, LaneRoom, DistSteps
    <3>3. Count(p)' = Dist(localR[p], Increment(localW[p].i)) + (IF localW[p].b THEN 1 ELSE 0)
      BY <2>2, <2>3 DEF Count
    <3>4. Count(p) \in Nat
      BY <1>1, <2>1, LaneRoom
    <3> QED
      BY <2>1, <3>1, <3>2, <3>3, <3>4
  <2>7. ASSUME Alive, NEW q \in Lanes
        PROVE  LaneSlots(q)'
    <3>1. CASE q # p
      BY <2>2, <2>3, <2>7, <3>1, OtherLane DEF SlotInv
    <3>2. LaneSlots(p) /\ localR'[p] = localR[p]
      BY <2>1, <2>2, <2>7 DEF SlotInv
    <3>3. CASE q = p
      BY <1>1, <2>1, <2>3, <2>6, <3>2, <3>3, PutUses
    <3> QED
      BY <3>1, <3>3
  <2> QED
    BY <2>4, <2>5, <2>7 DEF SlotInv
<1>7. CASE PublishW(h)
  <2>1. HandleInv'
    BY <1>1, <1>7 DEF PublishW, HandleInv, TypeOK, readerVars
  <2>2. Alive' => Alive
    BY <1>1, <1>7 DEF PublishW, Alive, TypeOK
  <2> QED
    BY <1>7, <2>1, <2>2 DEF PublishW, SlotInv, LaneSlots, Count, readerVars
<1>8. ASSUME NEW v \in Elems, Modify(h, v)
      PROVE  SlotInv'
  <2>1. /\ localW[h].b
        /\ slots' = [slots EXCEPT ![h][SlotOf(localW[h].i)] = v]
        /\ UNCHANGED <<kind, wpc, wlane, wval, localW, rpc, localR>>
    BY <1>8 DEF Modify, writerVars, readerVars
  <2>2. HandleInv' /\ (Alive' => Alive)
    BY <1>1, <2>1 DEF HandleInv, Alive
  <2>3. ASSUME Alive, NEW q \in Lanes
        PROVE  LaneSlots(q)'
    <3>1. CASE q # h
      BY <1>1, <2>1, <2>3, <3>1, OtherLane DEF SlotInv, TypeOK
    <3>2. CASE q = h
      <4>1. /\ LaneSlots(h) /\ localR'[h] = localR[h] /\ Count(h)' = Count(h)
            /\ slots'[h] = [slots[h] EXCEPT ![SlotOf(localW[h].i)] = v]
        BY <1>1, <2>1, <2>3 DEF SlotInv, TypeOK, Count
      <4>2. localW[h].i \in Index /\ Dist(localR[h], localW[h].i) < Count(h)
        <5>1. /\ localW[h].i \in Index /\ Count(h) \in Nat /\ Capacity \in Nat
              /\ Count(h) = Dist(localR[h], localW[h].i) + 1 /\ localR[h] \in Index
          BY <1>1, <2>1, LaneRoom, Circle
        <5> QED
          BY <5>1, Circle DEF Dist
      <4> QED
        BY <1>1, <3>2, <4>1, <4>2, ChangeUses
    <3> QED
      BY <3>1, <3>2
  <2> QED
    BY <2>2, <2>3 DEF SlotInv
<1>9. CASE Commit(h)
  <2>1. /\ kind = "mpsc" /\ localW[h].b /\ wpc[h] = "idle"
        /\ localW' = [localW EXCEPT ![h] = [i |-> Increment(localW[h].i), b |-> FALSE]]
        /\ UNCHANGED <<kind, slots, wpc, wlane, wval, rpc, localR>>
    BY <1>9 DEF Commit, readerVars
  <2>2. /\ localW'[h].i = Increment(localW[h].i) /\ ~localW'[h].b /\ localW'[h].b = FALSE
        /\ \A q \in Lanes : q # h => localW'[q] = localW[q]
    BY <1>1, <2>1 DEF TypeOK
  <2>3. HandleInv' /\ (Alive' => Alive)
    BY <1>1, <2>1, <2>2 DEF HandleInv, Alive, TypeOK
  <2>4. Count(h)' = Count(h)
    <3>1. Count(h) = Dist(localR[h], localW[h].i) + 1 /\ Count(h) <= Capacity /\ Count(h) \in Nat
      BY <1>1, <2>1, LaneRoom
    <3>2. localR[h] \in Index /\ localW[h].i \in Index
      BY <1>1, LaneRoom
    <3>3. Dist(localR[h], Increment(localW[h].i)) = Dist(localR[h], localW[h].i) + 1
      <4>1. Dist(localR[h], localW[h].i) < Capacity
        BY <3>1, <3>2, Circle DEF Dist
      <4> QED
        BY <3>2, <4>1, DistSteps
    <3>4. Count(h)' = Dist(localR[h], Increment(localW[h].i))
      <4>1. Count(h)' = Dist(localR[h], Increment(localW[h].i)) + 0
        BY <2>1, <2>2 DEF Count
      <4> QED
        BY <3>1, <3>3, <4>1
    <3> QED
      BY <3>1, <3>3, <3>4
  <2>5. ASSUME Alive, NEW q \in Lanes
        PROVE  LaneSlots(q)'
    <3>1. CASE q # h
      BY <2>1, <2>2, <2>5, <3>1, OtherLane DEF SlotInv
    <3>2. CASE q = h
      BY <2>1, <2>4, <2>5, <3>2 DEF SlotInv, LaneSlots
    <3> QED
      BY <3>1, <3>2
  <2> QED
    BY <2>3, <2>5 DEF SlotInv
<1> QED
  BY <1>2, <1>3, <1>4, <1>5, <1>6, <1>7, <1>8, <1>9 DEF WriterStep

\* Steps of a reader keep it.
LEMMA ReaderSlots ==
    ASSUME TypeOK, IndexInv, SlotInv, NEW h \in Lanes, ReaderStep(h)
    PROVE  SlotInv'
<1> USE Facts
<1>1. TypeOK /\ HandleInv
  BY DEF SlotInv
<1>2. ASSUME UNCHANGED <<kind, wpc, wlane, wval, localW>>,
             rpc[h] # "gone", rpc'[h] # "gone", \A g \in Lanes : g # h => rpc'[g] = rpc[g]
      PROVE  HandleInv' /\ (Alive' => Alive)
  BY <1>1, <1>2 DEF HandleInv, Alive
<1>3. ASSUME NEW op \in ROp, NEW p \in Lanes, StartRead(h, op, p)
      PROVE  SlotInv'
  BY <1>1, <1>2, <1>3
  DEF StartRead, LookAt, TypeOK, SlotInv, LaneSlots, Count, ringVars, writerVars
<1>4. CASE Reload(h)
  <2>1. rpc[h] # "gone" /\ rpc'[h] # "gone" /\ \A g \in Lanes : g # h => rpc'[g] = rpc[g]
    BY <1>1, <1>4 DEF Reload, FinishRead, LookAt, TypeOK
  <2> QED
    BY <1>2, <1>4, <2>1 DEF Reload, SlotInv, LaneSlots, Count, ringVars, writerVars
<1>5. CASE PublishR(h)
  BY <1>1, <1>2, <1>5 DEF PublishR, FinishRead, TypeOK, SlotInv, LaneSlots, Count, writerVars
<1>6. CASE Take(h)
  <2>0. PICK p \in Lanes : p = rlane[h]
    BY <1>1 DEF TypeOK
  <2>1. /\ p \in Lanes /\ Count(p) > 0 /\ localR[p] # localW[p].i
        /\ slots' = [slots EXCEPT ![p][SlotOf(localR[p])] = NoElem]
        /\ localR' = [localR EXCEPT ![p] = Increment(localR[p])]
        /\ UNCHANGED <<kind, wpc, wlane, wval, localW>>
    BY <1>1, <1>6, <2>0, LaneRoom DEF Take, writerVars
  <2>2. HandleInv' /\ (Alive' => Alive)
    BY <1>1, <1>2, <1>6 DEF Take, writerVars, TypeOK
  <2>3. ASSUME Alive, NEW q \in Lanes
        PROVE  LaneSlots(q)'
    <3>1. CASE q # p
      BY <1>1, <2>1, <2>3, <3>1, OtherLane DEF SlotInv, TypeOK
    <3>2. CASE q = p
      <4>1. /\ localR[p] \in Index /\ localW[p].i \in Index
            /\ Count(p) \in Nat /\ Count(p) <= Capacity
        BY <1>1, <2>1, LaneRoom
      <4>2. /\ localR'[p] = Increment(localR[p])
            /\ \A k \in Slot : slots'[p][k] # NoElem
                                <=> slots[p][k] # NoElem /\ k # SlotOf(localR[p])
        BY <1>1, <2>1, <4>1, SlotType DEF TypeOK
      <4>3. \A k : Used(Increment(localR[p]), Count(p) - 1, k)
                        <=> Used(localR[p], Count(p), k) /\ k # SlotOf(localR[p])
        BY <2>1, <4>1, UsedSteps
      <4>4. Count(p)' = Count(p) - 1
        <5>1. Dist(Increment(localR[p]), localW[p].i) = Dist(localR[p], localW[p].i) - 1
          BY <2>1, <4>1, DistSteps
        <5>2. Count(p)' = Dist(Increment(localR[p]), localW[p].i)
                                + (IF localW[p].b THEN 1 ELSE 0)
          BY <2>1, <4>2 DEF Count
        <5>3. Dist(localR[p], localW[p].i) \in Int
          BY <4>1, Circle DEF Dist
        <5> QED
          BY <5>1, <5>2, <5>3 DEF Count
      <4> QED
        BY <2>3, <3>2, <4>2, <4>3, <4>4 DEF SlotInv, LaneSlots
    <3> QED
      BY <3>1, <3>2
  <2> QED
    BY <2>2, <2>3 DEF SlotInv
<1>7. ASSUME NEW v \in Elems, PeekMut(h, v)
      PROVE  SlotInv'
  <2>0. PICK p \in Lanes : p = rlane[h]
    BY <1>1 DEF TypeOK
  <2>1. /\ p \in Lanes /\ Count(p) > 0
        /\ slots' = [slots EXCEPT ![p][SlotOf(localR[p])] = v]
        /\ UNCHANGED <<kind, wpc, wlane, wval, localW, localR>>
    BY <1>1, <1>7, <2>0, LaneRoom DEF PeekMut, writerVars
  <2>2. HandleInv' /\ (Alive' => Alive)
    BY <1>1, <1>2, <1>7 DEF PeekMut, FinishRead, writerVars, TypeOK
  <2>3. ASSUME Alive, NEW q \in Lanes
        PROVE  LaneSlots(q)'
    <3>1. CASE q # p
      BY <1>1, <2>1, <2>3, <3>1, OtherLane DEF SlotInv, TypeOK
    <3>2. CASE q = p
      <4>1. /\ LaneSlots(p) /\ localR'[p] = localR[p] /\ Count(p)' = Count(p)
            /\ slots'[p] = [slots[p] EXCEPT ![SlotOf(localR[p])] = v]
        BY <1>1, <2>1, <2>3 DEF SlotInv, TypeOK, Count
      <4>2. localR[p] \in Index /\ Dist(localR[p], localR[p]) < Count(p)
        BY <1>1, <2>1, LaneRoom, DistSteps
      <4> QED
        BY <1>1, <2>1, <3>2, <4>1, <4>2, ChangeUses
    <3> QED
      BY <3>1, <3>2
  <2> QED
    BY <2>2, <2>3 DEF SlotInv
<1> QED
  BY <1>3, <1>4, <1>5, <1>6, <1>7 DEF ReaderStep

\* It holds at the start.
LEMMA SlotInit == Init => SlotInv
<1> USE Facts
<1> SUFFICES ASSUME Init
             PROVE  SlotInv
  OBVIOUS
<1>1. HandleInv
  BY DEF Init, HandleInv
<1>2. ASSUME NEW p \in Lanes, NEW k \in Slot
      PROVE  ~Used(localR[p], Count(p), k) /\ slots[p][k] = NoElem
  <2>1. Count(p) = 0
    BY <1>2, Circle DEF Init, Count, Dist
  <2> QED
    BY <1>2, <2>1, Circle DEF Init, Used, Dist
<1> QED
  BY <1>1, <1>2 DEF SlotInv, LaneSlots

\* Every step keeps it.
LEMMA SlotStep == TypeOK /\ IndexInv /\ SlotInv /\ [Next]_vars => SlotInv'
<1> USE Facts
<1> SUFFICES ASSUME TypeOK, IndexInv, SlotInv, [Next]_vars
             PROVE  SlotInv'
  OBVIOUS
<1>1. CASE DropRing
  BY <1>1 DEF DropRing, SlotInv, HandleInv, Alive, TypeOK
<1>2. CASE UNCHANGED vars
  BY <1>2 DEF vars, ringVars, writerVars, readerVars, SlotInv, HandleInv, Alive, LaneSlots, Count
<1> QED
  BY <1>1, <1>2, WriterSlots, ReaderSlots DEF Next

\* The slot of an access is as it should be.
LEMMA SlotsFit == TypeOK /\ IndexInv /\ SlotInv => SlotsAreExclusive
<1> USE Facts
<1> SUFFICES ASSUME TypeOK, IndexInv, SlotInv, NEW h \in Lanes
             PROVE  /\ wpc[h] = "put" =>
                          slots[wlane[h]][SlotOf(localW[wlane[h]].i)] = NoElem
                    /\ rpc[h] = "take" =>
                          slots[rlane[h]][SlotOf(localR[rlane[h]])] # NoElem
  BY DEF SlotsAreExclusive
<1>1. HandleInv /\ (wpc[h] # "gone" \/ rpc[h] # "gone" => Alive)
  BY DEF SlotInv, HandleInv, Alive
<1>2. ASSUME wpc[h] = "put"
      PROVE  slots[wlane[h]][SlotOf(localW[wlane[h]].i)] = NoElem
  <2> DEFINE p == wlane[h]
  <2>1. /\ p \in Lanes /\ LaneSlots(p) /\ ~localW[p].b /\ Count(p) < Capacity
    BY <1>1, <1>2, LaneRoom DEF SlotInv, HandleInv
  <2> HIDE DEF p
  <2>2. /\ localR[p] \in Index /\ localW[p].i \in Index /\ SlotOf(localW[p].i) \in Slot
        /\ Count(p) \in Nat /\ Count(p) <= Capacity
        /\ Dist(localR[p], localW[p].i) = Count(p)
    BY <1>1, <2>1, LaneRoom
  <2>3. ~Used(localR[p], Count(p), SlotOf(localW[p].i))
    BY <2>1, <2>2, UsedSteps
  <2>4. slots[p][SlotOf(localW[p].i)] = NoElem
    BY <2>1, <2>2, <2>3 DEF LaneSlots
  <2> QED
    BY <2>4 DEF p
<1>3. ASSUME rpc[h] = "take"
      PROVE  slots[rlane[h]][SlotOf(localR[rlane[h]])] # NoElem
  <2> DEFINE p == rlane[h]
  <2>1. p \in Lanes /\ LaneSlots(p) /\ Count(p) > 0
    BY <1>1, <1>3, LaneRoom DEF SlotInv
  <2> HIDE DEF p
  <2>2. /\ localR[p] \in Index /\ SlotOf(localR[p]) \in Slot
        /\ Count(p) \in Nat /\ Count(p) <= Capacity
    BY <1>1, <2>1, LaneRoom
  <2>3. Used(localR[p], Count(p), SlotOf(localR[p]))
    BY <2>1, <2>2, UsedSteps
  <2>4. slots[p][SlotOf(localR[p])] # NoElem
    BY <2>1, <2>2, <2>3 DEF LaneSlots
  <2> QED
    BY <2>4 DEF p
<1> QED
  BY <1>2, <1>3

\* The invariants of this module so far.
RingInv == TypeOK /\ IndexInv /\ SlotInv

LEMMA RingInvHolds == Spec => []RingInv
<1>1. TypeOK /\ IndexInv /\ [Next]_vars => IndexInv'
  BY IndexStep
<1>2. Spec => []IndexInv
  BY <1>1, IndexInit, RingTypes, PTL DEF Spec
<1> QED
  BY <1>2, SlotInit, SlotStep, RingTypes, PTL DEF Spec, RingInv

\* No two handles are ever in one slot: a writer that stores an element finds the slot
\* free, a reader that moves one out finds it initialised (the unsafe get_elem_mut in
\* push, book, pull and peek_mut of src/pipeline/ringbuf/common.rs).
THEOREM SlotsExclusive == Spec => []SlotsAreExclusive
<1>1. RingInv => SlotsAreExclusive
  BY SlotsFit DEF RingInv
<1> QED
  BY <1>1, RingInvHolds, PTL

----------------------------------------------------------------------------
(* A lane as a queue: the elements from idxR to idxW *)

\* The k-th index from r on.
At(r, k) == IF r + k - 1 >= Modulus THEN r + k - 1 - Modulus ELSE r + k - 1

\* A turn of the circle does not change the slot.
LEMMA SameSlot ==
    ASSUME NEW x \in Nat, NEW y \in Nat, x = y + Modulus
    PROVE  x % Capacity = y % Capacity
<1> DEFINE a == x \div Capacity
           b == y \div Capacity
           m == Modulus \div Capacity
           d == (x % Capacity) - (y % Capacity)
<1>1. /\ Capacity \in Nat /\ Capacity > 0 /\ Modulus \in Nat
      /\ x \in Int /\ y \in Int
  BY Circle
<1>2. a \in Int /\ x = Capacity * a + (x % Capacity)
  BY <1>1, DivMod
<1>3. b \in Int /\ y = Capacity * b + (y % Capacity)
  BY <1>1, DivMod
<1>4. m \in Int /\ Modulus = Capacity * m
  <2>1. m \in Int /\ Modulus = Capacity * m + (Modulus % Capacity)
    BY <1>1, DivMod
  <2>2. Modulus % Capacity = 0
    BY RingAssumption
  <2> QED
    BY <1>1, <2>1, <2>2
<1>5. x % Capacity \in 0..(Capacity - 1) /\ y % Capacity \in 0..(Capacity - 1)
  BY <1>1
<1> HIDE DEF a, b, m
<1>6. /\ Capacity * a \in Int /\ Capacity * b \in Int /\ Capacity * m \in Int
      /\ b - a \in Int /\ b - a + m \in Int
  BY <1>1, <1>2, <1>3, <1>4
<1>7. d = Capacity * b - Capacity * a + Capacity * m
  <2>1. \A A, B, M, p, q \in Int :
            x = A + p /\ y = B + q /\ Modulus = M => p - q = B - A + M
    BY <1>1
  <2> QED
    BY <1>2, <1>3, <1>4, <1>5, <1>6, <2>1
<1>8. d = Capacity * (b - a + m)
  BY <1>1, <1>2, <1>3, <1>4, <1>7, Distribute
<1>9. -Capacity < d /\ d < Capacity
  BY <1>1, <1>5
<1>10. b - a + m = 0
  BY <1>1, <1>6, <1>8, <1>9, SmallMultiple
<1>11. d = 0
  BY <1>1, <1>8, <1>10
<1> QED
  BY <1>5, <1>11

\* The elements of a lane from r on are in the slots of the indices from r on; no two
\* of at most as many as the capacity are in one.
LEMMA AtSteps ==
    ASSUME NEW r \in Index
    PROVE  /\ \A k \in 1..Capacity : /\ At(r, k) \in Index /\ Dist(r, At(r, k)) = k - 1
                                     /\ (r + k - 1) % Capacity = SlotOf(At(r, k))
                                     /\ (r + k - 1) % Capacity \in Slot
           /\ \A k \in 1..Capacity : At(Increment(r), k) = At(r, k + 1)
           /\ \A k, j \in 1..Capacity : k # j => SlotOf(At(r, k)) # SlotOf(At(r, j))
           /\ At(r, 1) = r
           /\ \A w \in Index : At(r, Dist(r, w) + 1) = w /\ Dist(r, w) \in Nat
<1>1. ASSUME NEW k \in 1..Capacity
      PROVE  At(r, k) \in Index /\ Dist(r, At(r, k)) = k - 1
  BY Circle DEF At, Dist
<1>2. ASSUME NEW k \in 1..Capacity
      PROVE  (r + k - 1) % Capacity = SlotOf(At(r, k))
  <2>1. CASE r + k - 1 >= Modulus
    <3>1. /\ r + k - 1 \in Nat /\ r + k - 1 - Modulus \in Nat
          /\ r + k - 1 = r + k - 1 - Modulus + Modulus
      BY <2>1, Circle
    <3> QED
      BY <2>1, <3>1, SameSlot DEF At, SlotOf
  <2>2. CASE ~(r + k - 1 >= Modulus)
    BY <2>2 DEF At, SlotOf
  <2> QED
    BY <2>1, <2>2
<1>3. \A k \in 1..Capacity : At(Increment(r), k) = At(r, k + 1)
  BY Circle DEF At, Increment
<1>4. ASSUME NEW k \in 1..Capacity, NEW j \in 1..Capacity, k # j
      PROVE  SlotOf(At(r, k)) # SlotOf(At(r, j))
  <2>1. At(r, k) # At(r, j) /\ k - 1 < Capacity /\ j - 1 < Capacity
    BY <1>1, <1>4, Circle
  <2> QED
    BY <1>1, <2>1, SlotsApart
<1>5. At(r, 1) = r
  BY Circle DEF At
<1>6. \A w \in Index : At(r, Dist(r, w) + 1) = w /\ Dist(r, w) \in Nat
  BY Circle DEF At, Dist
<1>7. \A k \in 1..Capacity : (r + k - 1) % Capacity \in Slot
  BY <1>1, <1>2, SlotType
<1> QED
  BY <1>1, <1>2, <1>3, <1>4, <1>5, <1>6, <1>7

\* Sequences that grow at their end, lose their head, or change it.
LEMMA Growing ==
    ASSUME NEW S, NEW n \in Nat, NEW f \in [1..n -> S], NEW g \in [1..(n + 1) -> S],
           \A k \in 1..n : g[k] = f[k]
    PROVE  g = Append(f, g[n + 1]) /\ g = f \o <<g[n + 1]>> /\ Len(f) = n
<1>1. f \in Seq(S) /\ Len(f) = n /\ g \in Seq(S) /\ Len(g) = n + 1 /\ g[n + 1] \in S
  OBVIOUS
<1>2. g = Append(f, g[n + 1])
  BY <1>1
<1>3. Append(f, g[n + 1]) = f \o <<g[n + 1]>>
  BY <1>1
<1> QED
  BY <1>1, <1>2, <1>3

LEMMA Shrinking ==
    ASSUME NEW S, NEW n \in Nat, n > 0, NEW f \in [1..n -> S], NEW g \in [1..(n - 1) -> S],
           \A k \in 1..(n - 1) : g[k] = f[k + 1]
    PROVE  f # <<>> /\ Head(f) = f[1] /\ g = Tail(f)
<1>1. f \in Seq(S) /\ Len(f) = n /\ g \in Seq(S) /\ Len(g) = n - 1
  OBVIOUS
<1>2. f # <<>> /\ Head(f) = f[1]
  BY <1>1
<1>3. Tail(f) \in Seq(S) /\ Len(Tail(f)) = n - 1 /\ \A k \in 1..(n - 1) : Tail(f)[k] = f[k + 1]
  BY <1>1
<1>4. g = Tail(f)
  BY <1>1, <1>3
<1> QED
  BY <1>2, <1>4

\* How the indices of the two sides stand to the atomic words: the word of a side is behind
\* its own index by one while an update is to come, in the lane that it is about.
Filling(p) == wpc[WriterOf(p)] = "publish" /\ wlane[WriterOf(p)] = p
WriterView(p) ==
    /\ idxW[p].b = localW[p].b
    /\ IF Filling(p) THEN localW[p].i = Increment(idxW[p].i) /\ kind # "mpsc"
                    ELSE localW[p].i = idxW[p].i
ReaderView(p) ==
    IF Moved(p) THEN localR[p] = Increment(idxR[p]) /\ rval[ReaderOf(p)] \in Elems
                ELSE localR[p] = idxR[p]

ViewInv == \A p \in Lanes : WriterView(p) /\ ReaderView(p)

\* It holds at the start.
LEMMA ViewInit == Init => ViewInv
BY Facts DEF Init, ViewInv, WriterView, ReaderView, Filling, Moved


\* Steps of a writer keep it.
LEMMA WriterViews ==
    ASSUME RingInv, ViewInv, NEW h \in Lanes, WriterStep(h)
    PROVE  ViewInv'
<1> USE Facts
<1>1. TypeOK /\ IndexInv /\ HandleInv
  BY DEF RingInv, SlotInv
<1>2. /\ \A p \in Lanes : localW[p] \in Idx /\ idxW[p] \in Idx
      /\ wlane[h] \in Lanes
  BY <1>1 DEF TypeOK
<1>3. ASSUME NEW p \in Lanes, UNCHANGED <<kind, readerVars, idxR>>
      PROVE  Moved(p)' = Moved(p) /\ ReaderView(p)' = ReaderView(p)
  BY <1>3 DEF Moved, ReaderView, ReaderOf, readerVars
<1>4. ASSUME UNCHANGED <<kind, readerVars, idxR, idxW, localW>>,
             \A p \in Lanes : Filling(p)' = Filling(p)
      PROVE  ViewInv'
  BY <1>3, <1>4 DEF ViewInv, WriterView
<1>5. CASE (\E p \in Lanes, v \in Elems : StartWrite(h, p, v)) \/ Refresh(h)
  <2>1. /\ wpc[h] # "publish" /\ wpc'[h] # "publish"
        /\ \A g \in Lanes : g # h => wpc'[g] = wpc[g] /\ wlane'[g] = wlane[g]
        /\ UNCHANGED <<kind, readerVars, idxR, idxW, localW>>
    BY <1>1, <1>5 DEF StartWrite, Refresh, TypeOK, ringVars
  <2>2. \A p \in Lanes : Filling(p)' = Filling(p)
    BY <2>1 DEF Filling, WriterOf
  <2> QED
    BY <1>4, <2>1, <2>2
<1>6. CASE RefuseBooked(h) \/ \E v \in Elems : Modify(h, v)
  <2>1. UNCHANGED <<kind, readerVars, idxR, idxW, localW, wpc, wlane>>
    BY <1>6 DEF RefuseBooked, Modify, ringVars, writerVars
  <2>2. \A p \in Lanes : Filling(p)' = Filling(p)
    BY <2>1 DEF Filling, WriterOf
  <2> QED
    BY <1>4, <2>1, <2>2
<1>7. CASE PutBooked(h) \/ Commit(h)
  <2>1. /\ kind = "mpsc" /\ UNCHANGED <<kind, readerVars, idxR, wlane>>
        /\ wpc[h] # "publish" /\ wpc'[h] # "publish"
        /\ \A g \in Lanes : g # h => wpc'[g] = wpc[g] /\ idxW'[g] = idxW[g]
                                    /\ localW'[g] = localW[g]
        /\ WriterView(h)
    BY <1>1, <1>7 DEF PutBooked, Commit, TypeOK, UpdateW, ViewInv
  <2>2. ~Filling(h) /\ localW[h].i = idxW[h].i /\ localW[h].b = idxW[h].b
    BY <2>1 DEF Filling, WriterOf, WriterView
  <2>3. localW'[h].i = idxW'[h].i /\ localW'[h].b = idxW'[h].b
    <3>1. CASE PutBooked(h)
      BY <1>1, <1>2, <2>2, <3>1 DEF PutBooked, TypeOK, Idx
    <3>2. CASE Commit(h)
      BY <1>1, <2>1, <3>2 DEF Commit, TypeOK, UpdateW
    <3> QED
      BY <1>7, <3>1, <3>2
  <2>4. \A p \in Lanes : p # h => WriterView(p)'
    BY <2>1 DEF Filling, WriterOf, WriterView, ViewInv
  <2>5. WriterView(h)'
    BY <2>1, <2>3 DEF Filling, WriterOf, WriterView
  <2> QED
    BY <1>3, <2>1, <2>4, <2>5 DEF ViewInv
<1>8. CASE Put(h)
  <2>0. PICK p \in Lanes : p = wlane[h]
    BY <1>2
  <2>1. /\ wpc[h] = "put" /\ wpc'[h] = "publish" /\ WriterOf(p) = h
        /\ \A g \in Lanes : g # h => wpc'[g] = wpc[g]
        /\ UNCHANGED <<kind, readerVars, idxR, idxW, wlane>>
        /\ localW' = [localW EXCEPT ![p] = [localW[p] EXCEPT !.i = Increment(@)]]
    BY <1>1, <1>8, <2>0 DEF Put, TypeOK, IndexInv, WriterInv
  <2>2. localW'[p].i = Increment(localW[p].i) /\ localW'[p].b = localW[p].b
    BY <1>1, <1>2, <2>1 DEF TypeOK, Idx
  <2>3. \A q \in Lanes : q # p => localW'[q] = localW[q]
    BY <1>1, <2>1 DEF TypeOK
  <2>4. ~Filling(p) /\ Filling(p)' /\ \A q \in Lanes : q # p => Filling(q)' = Filling(q)
    BY <2>0, <2>1 DEF Filling, WriterOf
  <2>5. localW[p].i = idxW[p].i /\ localW[p].b = idxW[p].b
    BY <2>4 DEF ViewInv, WriterView
  <2>6. WriterView(p)'
    BY <1>8, <2>1, <2>2, <2>4, <2>5 DEF Put, WriterView
  <2>7. \A q \in Lanes : q # p => WriterView(q)'
    BY <2>1, <2>3, <2>4 DEF ViewInv, WriterView
  <2> QED
    BY <1>3, <2>1, <2>6, <2>7 DEF ViewInv
<1>9. CASE PublishW(h)
  <2>1. /\ wpc[h] = "publish" /\ wpc'[h] = "idle" /\ WriterOf(wlane[h]) = h
        /\ \A g \in Lanes : g # h => wpc'[g] = wpc[g]
        /\ idxW' = UpdateW(h, localW)
        /\ UNCHANGED <<kind, readerVars, idxR, localW, wlane>>
    BY <1>1, <1>9 DEF PublishW, TypeOK, IndexInv, WriterInv
  <2>2. ASSUME NEW q \in Lanes
        PROVE  WriterView(q)'
    <3>1. CASE WriterOf(q) = h
      <4>1. idxW'[q] = localW[q] /\ ~Filling(q)'
        BY <1>1, <2>1, <3>1 DEF UpdateW, WriterOf, TypeOK, Filling
      <4> QED
        BY <2>1, <4>1 DEF WriterView
    <3>2. CASE WriterOf(q) # h
      <4>1. kind = "mpsc" /\ q # h
        BY <2>1, <3>2 DEF WriterOf
      <4>2. idxW'[q] = idxW[q] /\ Filling(q)' = Filling(q)
        BY <1>1, <2>1, <3>2, <4>1 DEF UpdateW, WriterOf, TypeOK, Filling
      <4> QED
        BY <2>1, <4>2 DEF WriterView, ViewInv
    <3> QED
      BY <3>1, <3>2
  <2> QED
    BY <1>3, <2>1, <2>2 DEF ViewInv
<1> QED
  BY <1>5, <1>6, <1>7, <1>8, <1>9 DEF WriterStep

\* Steps of a reader keep it.
LEMMA ReaderViews ==
    ASSUME RingInv, ViewInv, NEW h \in Lanes, ReaderStep(h)
    PROVE  ViewInv'
<1> USE Facts
<1>1. TypeOK /\ IndexInv /\ HandleInv
  BY DEF RingInv, SlotInv
<1>2. rlane[h] \in Lanes
  BY <1>1 DEF TypeOK
<1>3. ASSUME NEW p \in Lanes, UNCHANGED <<kind, writerVars, idxW>>
      PROVE  WriterView(p)' = WriterView(p)
  BY <1>3 DEF Filling, WriterView, WriterOf, writerVars
<1>4. CASE \/ \E op \in ROp, p \in Lanes : StartRead(h, op, p)
           \/ Reload(h) \/ \E v \in Elems : PeekMut(h, v)
  <2>1. /\ rpc[h] # "publish" /\ rpc'[h] # "publish"
        /\ \A g \in Lanes : g # h => rpc'[g] = rpc[g] /\ rlane'[g] = rlane[g]
        /\ UNCHANGED <<kind, writerVars, idxW, idxR, localR, rval>>
    BY <1>1, <1>4 DEF StartRead, Reload, PeekMut, FinishRead, LookAt, TypeOK, ringVars
  <2>2. \A p \in Lanes : Moved(p)' = Moved(p)
    BY <2>1 DEF Moved, ReaderOf
  <2>3. \A p \in Lanes : ReaderView(p)' = ReaderView(p)
    BY <2>1, <2>2 DEF ReaderView, ReaderOf
  <2> QED
    BY <1>3, <2>1, <2>3 DEF ViewInv
<1>5. CASE Take(h)
  <2>0. PICK p \in Lanes : p = rlane[h]
    BY <1>2
  <2>1. /\ rpc[h] = "take" /\ rpc'[h] = "publish" /\ ReaderOf(p) = h
        /\ \A g \in Lanes : g # h => rpc'[g] = rpc[g] /\ rval'[g] = rval[g]
        /\ rval'[h] = slots[p][SlotOf(localR[p])]
        /\ localR'[p] = Increment(localR[p])
        /\ \A q \in Lanes : q # p => localR'[q] = localR[q]
        /\ UNCHANGED <<kind, writerVars, idxW, idxR, rlane>>
    BY <1>1, <1>5, <2>0 DEF Take, TypeOK, IndexInv, ReaderInv
  <2>2. rval'[h] \in Elems
    <3>1. rval'[h] # NoElem
      BY <1>5, <2>0, <2>1, SlotsFit DEF RingInv, SlotsAreExclusive
    <3>2. SlotOf(localR[p]) \in Slot
      BY <1>1, SlotType DEF TypeOK
    <3> QED
      BY <1>1, <2>1, <3>1, <3>2 DEF TypeOK
  <2>3. ~Moved(p) /\ Moved(p)' /\ \A q \in Lanes : q # p => Moved(q)' = Moved(q)
    BY <2>0, <2>1 DEF Moved, ReaderOf
  <2>4. \A q \in Lanes : q # p /\ Moved(q) => ReaderOf(q) # h
    BY <2>0, <2>1 DEF Moved
  <2>5. \A q \in Lanes : ReaderOf(q)' = ReaderOf(q)
    BY <2>1 DEF ReaderOf
  <2>6. \A q \in Lanes : ReaderView(q)'
    BY <2>1, <2>2, <2>3, <2>4, <2>5 DEF ViewInv, ReaderView
  <2> QED
    BY <1>3, <2>1, <2>6 DEF ViewInv
<1>6. CASE PublishR(h)
  <2>1. /\ rpc[h] = "publish" /\ rpc'[h] = "idle" /\ ReaderOf(rlane[h]) = h
        /\ \A g \in Lanes : g # h => /\ rpc'[g] = rpc[g] /\ rlane'[g] = rlane[g]
                                     /\ rval'[g] = rval[g]
        /\ idxR' = UpdateR(h, localR)
        /\ UNCHANGED <<kind, writerVars, idxW, localR>>
    BY <1>1, <1>6 DEF PublishR, FinishRead, TypeOK, IndexInv, ReaderInv
  <2>2. ASSUME NEW q \in Lanes
        PROVE  ReaderView(q)'
    <3>1. CASE ReaderOf(q) = h
      <4>1. idxR'[q] = localR[q] /\ ~Moved(q)'
        BY <1>1, <2>1, <3>1 DEF UpdateR, ReaderOf, TypeOK, Moved
      <4> QED
        BY <2>1, <4>1 DEF ReaderView
    <3>2. CASE ReaderOf(q) # h
      <4>1. kind = "spmc" /\ q # h
        BY <2>1, <3>2 DEF ReaderOf
      <4>2. idxR'[q] = idxR[q] /\ Moved(q)' = Moved(q) /\ ReaderOf(q)' = q /\ ReaderOf(q) = q
        BY <1>1, <2>1, <3>2, <4>1 DEF UpdateR, ReaderOf, TypeOK, Moved
      <4> QED
        BY <2>1, <4>1, <4>2 DEF ReaderView, ViewInv
    <3> QED
      BY <3>1, <3>2
  <2> QED
    BY <1>3, <2>1, <2>2 DEF ViewInv
<1> QED
  BY <1>4, <1>5, <1>6 DEF ReaderStep

\* Every step keeps it.
LEMMA ViewStep == RingInv /\ ViewInv /\ [Next]_vars => ViewInv'
<1> SUFFICES ASSUME RingInv, ViewInv, [Next]_vars
             PROVE  ViewInv'
  OBVIOUS
<1>1. CASE DropRing \/ UNCHANGED vars
  <2>1. /\ UNCHANGED <<kind, idxR, idxW, localR, localW, wlane, rlane, rval>>
        /\ \A h \in Lanes : /\ wpc'[h] = "publish" <=> wpc[h] = "publish"
                            /\ rpc'[h] = "publish" <=> rpc[h] = "publish"
    BY <1>1 DEF DropRing, vars, ringVars, writerVars, readerVars
  <2> QED
    BY <2>1, Facts DEF ViewInv, WriterView, ReaderView, Filling, Moved, WriterOf, ReaderOf
<1> QED
  BY <1>1, WriterViews, ReaderViews DEF Next

\* The indices that Follow orders, when a side is one step ahead of its word.
LEMMA FollowQueue ==
    ASSUME NEW cr \in Index, NEW ir \in Index, NEW lr \in Index,
           NEW cw \in Index, NEW iw \in Index, NEW lw \in Index,
           Follow(cr, ir, lr, cw, iw, lw)
    PROVE  /\ Dist(ir, iw) \in Nat /\ Dist(ir, iw) <= Capacity
           /\ lw = Increment(iw) => Dist(ir, iw) < Capacity
           /\ lw = iw /\ Dist(cr, lw) # Capacity => Dist(ir, iw) < Capacity
           /\ lr = Increment(ir) => Dist(ir, iw) > 0
           /\ lr # cw => Dist(lr, iw) > 0
           /\ lr = Increment(ir) => Dist(lr, iw) = Dist(ir, iw) - 1
           /\ lw = Increment(iw) => Dist(ir, lw) = Dist(ir, iw) + 1
<1>1. /\ Dist(ir, iw) \in Nat /\ Dist(ir, iw) <= Capacity
      /\ lw = iw /\ Dist(cr, lw) # Capacity => Dist(ir, iw) < Capacity
  BY Circle DEF Follow, Dist
<1>2. lw = Increment(iw) => Dist(ir, iw) < Capacity
  BY Circle DEF Follow, Dist, Increment
<1>3. lr = Increment(ir) => Dist(ir, iw) > 0
  BY Circle DEF Follow, Dist, Increment
<1>4. lr # cw => Dist(lr, iw) > 0
  BY Circle DEF Follow, Dist
<1>5. lr = Increment(ir) => Dist(lr, iw) = Dist(ir, iw) - 1
  <2>1. lr = Increment(ir) => ir # iw
    BY <1>3, Circle DEF Dist
  <2> QED
    BY <2>1, Circle DEF Dist, Increment
<1>6. lw = Increment(iw) => Dist(ir, lw) = Dist(ir, iw) + 1
  BY <1>1, <1>2, Circle DEF Dist, Increment
<1> QED
  BY <1>1, <1>2, <1>3, <1>4, <1>5, <1>6

\* The length of a lane's queue, and where its room is.
Size(p) == Dist(idxR[p], idxW[p].i)

LEMMA QueueRoom ==
    ASSUME RingInv, ViewInv, NEW p \in Lanes
    PROVE  /\ idxR[p] \in Index /\ idxW[p].i \in Index /\ idxW[p].b \in BOOLEAN
           /\ Size(p) \in Nat /\ Size(p) <= Capacity
           /\ Filling(p) => Size(p) < Capacity /\ Dist(idxR[p], localW[p].i) = Size(p) + 1
           /\ ~Filling(p) => localW[p].i = idxW[p].i
           /\ idxW[p].b => localW[p].b /\ ~Filling(p) /\ Size(p) < Capacity
           /\ Moved(p) => /\ Size(p) > 0 /\ localR[p] = Increment(idxR[p])
                          /\ Dist(localR[p], idxW[p].i) = Size(p) - 1
                          /\ rval[ReaderOf(p)] \in Elems
           /\ ~Moved(p) => localR[p] = idxR[p]
           /\ \A h \in Lanes : /\ wpc[h] = "put" /\ wlane[h] = p =>
                                    ~Filling(p) /\ Size(p) < Capacity
                               /\ rpc[h] = "take" /\ rlane[h] = p => ~Moved(p) /\ Size(p) > 0
<1>1. /\ cachedR[p] \in Index /\ idxR[p] \in Index /\ localR[p] \in Index
      /\ cachedW[p].i \in Index /\ idxW[p].i \in Index /\ localW[p].i \in Index
      /\ idxW[p].b \in BOOLEAN /\ localW[p].b \in BOOLEAN
  BY DEF RingInv, TypeOK, Idx
<1>2. /\ Follow(cachedR[p], idxR[p], localR[p], cachedW[p].i, idxW[p].i, localW[p].i)
      /\ kind = "mpsc" /\ localW[p].b => Dist(cachedR[p], localW[p].i) # Capacity
  BY DEF RingInv, IndexInv, LaneInv
<1>3. WriterView(p) /\ ReaderView(p)
  BY DEF ViewInv
<1>4. idxW[p].b => localW[p].b /\ kind = "mpsc"
  BY <1>3 DEF RingInv, SlotInv, HandleInv, WriterView
<1>5. Filling(p) => kind # "mpsc" /\ localW[p].i = Increment(idxW[p].i)
  BY <1>3 DEF WriterView
<1>6. ~Filling(p) => localW[p].i = idxW[p].i
  BY <1>3 DEF WriterView
<1>7. Moved(p) => localR[p] = Increment(idxR[p]) /\ rval[ReaderOf(p)] \in Elems
  BY <1>3 DEF ReaderView
<1>8. ~Moved(p) => localR[p] = idxR[p]
  BY <1>3 DEF ReaderView
<1>9. /\ Size(p) \in Nat /\ Size(p) <= Capacity
      /\ Filling(p) => Size(p) < Capacity /\ Dist(idxR[p], localW[p].i) = Size(p) + 1
      /\ ~Filling(p) /\ Dist(cachedR[p], localW[p].i) # Capacity => Size(p) < Capacity
      /\ Moved(p) => Size(p) > 0 /\ Dist(localR[p], idxW[p].i) = Size(p) - 1
      /\ localR[p] # cachedW[p].i => Dist(localR[p], idxW[p].i) > 0
  <2>1. \A cr, ir, lr, cw, iw, lw : {cr, ir, lr, cw, iw, lw} \subseteq Index =>
          (Follow(cr, ir, lr, cw, iw, lw) =>
            /\ Dist(ir, iw) \in Nat /\ Dist(ir, iw) <= Capacity
            /\ lw = Increment(iw) => Dist(ir, iw) < Capacity
            /\ lw = iw /\ Dist(cr, lw) # Capacity => Dist(ir, iw) < Capacity
            /\ lr = Increment(ir) => Dist(ir, iw) > 0 /\ Dist(lr, iw) = Dist(ir, iw) - 1
            /\ lr # cw => Dist(lr, iw) > 0
            /\ lw = Increment(iw) => Dist(ir, lw) = Dist(ir, iw) + 1)
    BY FollowQueue
  <2>2. /\ Dist(idxR[p], idxW[p].i) \in Nat /\ Dist(idxR[p], idxW[p].i) <= Capacity
        /\ localW[p].i = Increment(idxW[p].i) => Dist(idxR[p], idxW[p].i) < Capacity
        /\ localW[p].i = idxW[p].i /\ Dist(cachedR[p], localW[p].i) # Capacity =>
                Dist(idxR[p], idxW[p].i) < Capacity
        /\ localR[p] = Increment(idxR[p]) =>
                /\ Dist(idxR[p], idxW[p].i) > 0
                /\ Dist(localR[p], idxW[p].i) = Dist(idxR[p], idxW[p].i) - 1
        /\ localR[p] # cachedW[p].i => Dist(localR[p], idxW[p].i) > 0
        /\ localW[p].i = Increment(idxW[p].i) =>
                Dist(idxR[p], localW[p].i) = Dist(idxR[p], idxW[p].i) + 1
    BY SMTT(30), <1>1, <1>2, <2>1
  <2> QED
    BY <1>5, <1>6, <1>7, <2>2 DEF Size
<1>10. ASSUME NEW h \in Lanes, wpc[h] = "put", wlane[h] = p
       PROVE  ~Filling(p) /\ Size(p) < Capacity
  <2>1. WriterOf(p) = h /\ Dist(cachedR[p], localW[p].i) # Capacity
    BY <1>10 DEF RingInv, IndexInv, WriterInv
  <2>2. ~Filling(p)
    BY <1>10, <2>1 DEF Filling
  <2> QED
    BY <1>9, <2>1, <2>2
<1>11. ASSUME NEW h \in Lanes, rpc[h] = "take", rlane[h] = p
       PROVE  ~Moved(p) /\ Size(p) > 0
  <2>1. ReaderOf(p) = h /\ localR[p] # cachedW[p].i
    BY <1>11 DEF RingInv, IndexInv, ReaderInv
  <2>2. ~Moved(p)
    BY <1>11, <2>1 DEF Moved
  <2> QED
    BY <1>8, <1>9, <2>1, <2>2 DEF Size
<1>12. idxW[p].b => ~Filling(p) /\ Size(p) < Capacity
  BY <1>2, <1>4, <1>5, <1>9
<1> QED
  BY <1>1, <1>4, <1>6, <1>7, <1>8, <1>9, <1>10, <1>11, <1>12

\* What stands where in a lane's queue.
LEMMA QueueCells ==
    ASSUME RingInv, ViewInv, NEW p \in Lanes
    PROVE  /\ Queue(p) \in [1..Size(p) -> Elems \cup {NoElem}] /\ Len(Queue(p)) = Size(p)
           /\ \A k \in 1..Size(p) : Queue(p)[k] = IF k = 1 /\ Moved(p)
                                        THEN rval[ReaderOf(p)]
                                        ELSE slots[p][SlotOf(At(idxR[p], k))]
           /\ Booking(p) = IF idxW[p].b THEN <<slots[p][SlotOf(idxW[p].i)]>> ELSE <<>>
           /\ Booking(p) # <<>> <=> idxW[p].b
<1>1. /\ slots[p] \in [Slot -> Elems \cup {NoElem}] /\ ReaderOf(p) \in Lanes
      /\ rval[ReaderOf(p)] \in Elems \cup {NoElem}
  BY Facts DEF RingInv, TypeOK
<1>2. Size(p) \in Nat /\ Size(p) <= Capacity /\ idxR[p] \in Index
  BY QueueRoom
<1>3. \A k \in 1..Size(p) : Nth(p, k) = SlotOf(At(idxR[p], k)) /\ Nth(p, k) \in Slot
  <2>1. \A k \in 1..Size(p) : k \in 1..Capacity
    BY <1>2, Circle
  <2> QED
    BY <1>2, <2>1, AtSteps DEF Nth
<1>4. Queue(p) = [k \in 1..Size(p) |->
            IF k = 1 /\ Moved(p) THEN rval[ReaderOf(p)] ELSE slots[p][Nth(p, k)]]
  BY DEF Queue, Size, Moved
<1>5. Queue(p) \in [1..Size(p) -> Elems \cup {NoElem}]
  BY <1>1, <1>3, <1>4
<1>6. Len(Queue(p)) = Size(p)
  BY <1>2, <1>5
<1> QED
  BY <1>3, <1>4, <1>5, <1>6 DEF Booking

\* A step that leaves a queue and its booked element as they are.
Keep(p) == Queue(p)' = Queue(p) /\ Booking(p)' = Booking(p)

LEMMA KeepCells ==
    ASSUME NEW p \in Lanes, kind' = kind, idxR'[p] = idxR[p],
           idxW'[p] = idxW[p], slots'[p] = slots[p],
           Moved(p)' = Moved(p), Moved(p) => rval'[ReaderOf(p)] = rval[ReaderOf(p)]
    PROVE  Keep(p)
<1>1. /\ ReaderOf(p)' = ReaderOf(p) /\ (Moved(p) => rval'[ReaderOf(p)] = rval[ReaderOf(p)])
      /\ \A k : Nth(p, k)' = Nth(p, k)
  BY DEF ReaderOf, Nth
<1>2. Queue(p)' = [k \in 1..Dist(idxR[p], idxW[p].i) |->
            IF k = 1 /\ Moved(p) THEN rval[ReaderOf(p)] ELSE slots[p][Nth(p, k)]]
  BY <1>1 DEF Queue, Moved
<1> QED
  BY <1>2 DEF Keep, Queue, Booking, Moved

\* A write to a slot beyond the queue, or of the one that a reader has moved out.
LEMMA KeepQueue ==
    ASSUME RingInv, ViewInv, NEW p \in Lanes, NEW n \in 1..Capacity, NEW v,
           n > Size(p), kind' = kind, idxR'[p] = idxR[p], idxW'[p].i = idxW[p].i,
           slots'[p] = [slots[p] EXCEPT ![SlotOf(At(idxR[p], n))] = v],
           Moved(p)' = Moved(p), Moved(p) => rval'[ReaderOf(p)] = rval[ReaderOf(p)]
    PROVE  Queue(p)' = Queue(p)
<1>1. Size(p) \in Nat /\ Size(p) <= Capacity /\ idxR[p] \in Index
  BY QueueRoom
<1>2. \A k \in 1..Size(p) : k \in 1..Capacity /\ k # n
  BY <1>1, Circle
<1>3. \A k \in 1..Size(p) : /\ Nth(p, k) = SlotOf(At(idxR[p], k)) /\ Nth(p, k) \in Slot
                            /\ SlotOf(At(idxR[p], k)) # SlotOf(At(idxR[p], n))
  BY <1>1, <1>2, AtSteps DEF Nth
<1>4. \A k \in 1..Size(p) : slots'[p][Nth(p, k)] = slots[p][Nth(p, k)]
  BY <1>3 DEF RingInv, TypeOK
<1>5. /\ ReaderOf(p)' = ReaderOf(p) /\ (Moved(p) => rval'[ReaderOf(p)] = rval[ReaderOf(p)])
      /\ \A k : Nth(p, k)' = Nth(p, k)
  BY DEF ReaderOf, Nth
<1>6. Queue(p)' = [k \in 1..Size(p) |->
            IF k = 1 /\ Moved(p) THEN rval[ReaderOf(p)] ELSE slots'[p][Nth(p, k)]]
  BY <1>5 DEF Queue, Moved, Size
<1>7. Queue(p) = [k \in 1..Size(p) |->
            IF k = 1 /\ Moved(p) THEN rval[ReaderOf(p)] ELSE slots[p][Nth(p, k)]]
  BY DEF Queue, Moved, Size
<1> QED
  BY <1>4, <1>6, <1>7

\* The ring as the queues that LaneQueues speaks of.
AbsQueue == [p \in Lanes |-> IF Alive THEN Queue(p) ELSE <<>>]
AbsBooked == [p \in Lanes |-> IF Alive THEN Booking(p) ELSE <<>>]

\* A step that is about one lane.
LEMMA OneLane ==
    ASSUME Alive, Alive', NEW p \in Lanes, \A q \in Lanes : q # p => Keep(q)
    PROVE  /\ AbsQueue' = [AbsQueue EXCEPT ![p] = Queue(p)']
           /\ AbsBooked' = [AbsBooked EXCEPT ![p] = Booking(p)']
           /\ AbsQueue[p] = Queue(p) /\ AbsBooked[p] = Booking(p)
           /\ Queue(p)' = Queue(p) => AbsQueue' = AbsQueue
           /\ Booking(p)' = Booking(p) => AbsBooked' = AbsBooked
BY DEF AbsQueue, AbsBooked, Keep

\* The handles are there before and after a step of one of them.
LEMMA StaysAlive ==
    ASSUME RingInv, NEW h \in Lanes, WriterStep(h) \/ ReaderStep(h)
    PROVE  Alive /\ Alive'
<1>1. TypeOK /\ HandleInv
  BY DEF RingInv, SlotInv
<1>2. wpc[h] # "gone" \/ rpc[h] # "gone"
  BY DEF WriterStep, ReaderStep, StartWrite, RefuseBooked, Refresh, PutBooked, Put, PublishW,
         Commit, Modify, StartRead, Reload, Take, PublishR, PeekMut
<1>3. Alive
  BY <1>1, <1>2 DEF Alive, HandleInv
<1>4. \A g \in Lanes : wpc'[g] # "gone"
  <2>1. CASE WriterStep(h)
    BY <1>1, <1>3, <2>1 DEF Alive, TypeOK, WriterStep, StartWrite, RefuseBooked, Refresh, PutBooked,
       Put, PublishW, Commit, Modify, writerVars
  <2>2. CASE ReaderStep(h)
    BY <1>3, <2>2 DEF Alive, ReaderStep, StartRead, Reload, Take, PublishR, PeekMut, writerVars
  <2> QED
    BY <2>1, <2>2
<1> QED
  BY <1>3, <1>4 DEF Alive

\* A step on the way of an operation, or a refusal.
LEMMA SilentStep ==
    ASSUME Alive, Alive', \A q \in Lanes : Keep(q), UNCHANGED dropped
    PROVE  /\ answer' = NoAnswer => Queues!Next
           /\ \A p \in Lanes :
                /\ answer' = <<p, "full">> /\ (Len(Queue(p)) = Capacity \/ Booking(p) # <<>>)
                        => Queues!Next
                /\ answer' = <<p, IF Booking(p) = <<>> THEN "empty" ELSE "booked">>
                   /\ Queue(p) = <<>> => Queues!Next
<1>1. AbsQueue' = AbsQueue /\ AbsBooked' = AbsBooked
  BY DEF AbsQueue, AbsBooked, Keep
<1>2. \A p \in Lanes : AbsQueue[p] = Queue(p) /\ AbsBooked[p] = Booking(p)
  BY DEF AbsQueue, AbsBooked
<1>3. answer' = NoAnswer => Queues!Quiet
  BY <1>1 DEF Queues!Quiet, Queues!NoAnswer, NoAnswer, AbsQueue, AbsBooked
<1>4. ASSUME NEW p \in Lanes, answer' = <<p, "full">>,
             Len(Queue(p)) = Capacity \/ Booking(p) # <<>>
      PROVE  Queues!Refuse(p)
  <2>1. Len(AbsQueue[p]) = Capacity \/ AbsBooked[p] # <<>>
    BY <1>2, <1>4
  <2> QED
    BY <1>1, <1>4, <2>1 DEF Queues!Refuse, AbsQueue, AbsBooked
<1>5. ASSUME NEW p \in Lanes, Queue(p) = <<>>,
             answer' = <<p, IF Booking(p) = <<>> THEN "empty" ELSE "booked">>
      PROVE  Queues!Miss(p)
  <2>1. /\ AbsQueue[p] = <<>>
        /\ answer' = <<p, IF AbsBooked[p] = <<>> THEN "empty" ELSE "booked">>
    BY <1>2, <1>5
  <2> QED
    BY <1>1, <1>5, <2>1 DEF Queues!Miss, AbsQueue, AbsBooked
<1> QED
  BY <1>3, <1>4, <1>5 DEF Queues!Next

\* An element goes into a queue, into the booked place, or from there into the queue.
LEMMA EntryStep ==
    ASSUME Alive, Alive', NEW p \in Lanes, \A q \in Lanes : q # p => Keep(q),
           UNCHANGED dropped, NEW v \in Elems
    PROVE  /\ answer' = <<p, "ok">> /\ Len(Queue(p)) < Capacity
              /\ Queue(p)' = Append(Queue(p), v) /\ Booking(p)' = Booking(p) => Queues!Next
           /\ answer' = <<p, "ok">> /\ Len(Queue(p)) < Capacity /\ Booking(p) = <<>>
              /\ Queue(p)' = Queue(p) /\ Booking(p)' = <<v>> => Queues!Next
           /\ answer' = NoAnswer /\ Booking(p) # <<>>
              /\ Queue(p)' = Queue(p) /\ Booking(p)' = <<v>> => Queues!Next
           /\ answer' = <<p, "ok">> /\ Booking(p) # <<>>
              /\ Queue(p)' = Queue(p) \o Booking(p) /\ Booking(p)' = <<>> => Queues!Next
<1>1. /\ AbsQueue' = [AbsQueue EXCEPT ![p] = Queue(p)']
      /\ AbsBooked' = [AbsBooked EXCEPT ![p] = Booking(p)']
      /\ AbsQueue[p] = Queue(p) /\ AbsBooked[p] = Booking(p)
      /\ Queue(p)' = Queue(p) => AbsQueue' = AbsQueue
      /\ Booking(p)' = Booking(p) => AbsBooked' = AbsBooked
  BY OneLane
<1>2. ASSUME answer' = <<p, "ok">>, Len(Queue(p)) < Capacity,
             Queue(p)' = Append(Queue(p), v), Booking(p)' = Booking(p)
      PROVE  Queues!Push(p, v)
  <2>1. /\ Len(AbsQueue[p]) < Capacity /\ AbsBooked' = AbsBooked
        /\ AbsQueue' = [AbsQueue EXCEPT ![p] = Append(AbsQueue[p], v)]
    BY <1>1, <1>2
  <2> QED
    BY <1>2, <2>1 DEF Queues!Push, AbsQueue, AbsBooked
<1>3. ASSUME answer' = <<p, "ok">>, Len(Queue(p)) < Capacity, Booking(p) = <<>>,
             Queue(p)' = Queue(p), Booking(p)' = <<v>>
      PROVE  Queues!Book(p, v)
  <2>1. /\ Len(AbsQueue[p]) < Capacity /\ AbsBooked[p] = <<>> /\ AbsQueue' = AbsQueue
        /\ AbsBooked' = [AbsBooked EXCEPT ![p] = <<v>>]
    BY <1>1, <1>3
  <2> QED
    BY <1>3, <2>1 DEF Queues!Book, AbsQueue, AbsBooked
<1>4. ASSUME answer' = NoAnswer, Booking(p) # <<>>, Queue(p)' = Queue(p), Booking(p)' = <<v>>
      PROVE  Queues!Fill(p, v)
  <2>1. /\ AbsBooked[p] # <<>> /\ AbsQueue' = AbsQueue
        /\ AbsBooked' = [AbsBooked EXCEPT ![p] = <<v>>]
    BY <1>1, <1>4
  <2> QED
    BY <1>4, <2>1 DEF Queues!Fill, Queues!NoAnswer, NoAnswer, AbsQueue, AbsBooked
<1>5. ASSUME answer' = <<p, "ok">>, Booking(p) # <<>>,
             Queue(p)' = Queue(p) \o Booking(p), Booking(p)' = <<>>
      PROVE  Queues!Commit(p)
  <2>1. /\ AbsBooked[p] # <<>>
        /\ AbsQueue' = [AbsQueue EXCEPT ![p] = AbsQueue[p] \o AbsBooked[p]]
        /\ AbsBooked' = [AbsBooked EXCEPT ![p] = <<>>]
    BY <1>1, <1>5
  <2> QED
    BY <1>5, <2>1 DEF Queues!Commit, AbsQueue, AbsBooked
<1> QED
  BY <1>2, <1>3, <1>4, <1>5 DEF Queues!Next

\* An element leaves a queue, or its first one is changed.
LEMMA ExitStep ==
    ASSUME Alive, Alive', NEW p \in Lanes, \A q \in Lanes : q # p => Keep(q),
           UNCHANGED dropped, Queue(p) # <<>>, Booking(p)' = Booking(p)
    PROVE  /\ answer' = <<p, Head(Queue(p))>> /\ Queue(p)' = Tail(Queue(p)) => Queues!Next
           /\ \A v \in Elems : answer' = NoAnswer /\ Queue(p)' = [Queue(p) EXCEPT ![1] = v]
                                    => Queues!Next
<1>1. /\ AbsQueue' = [AbsQueue EXCEPT ![p] = Queue(p)']
      /\ AbsQueue[p] = Queue(p) /\ AbsBooked' = AbsBooked
  BY OneLane
<1>2. ASSUME answer' = <<p, Head(Queue(p))>>, Queue(p)' = Tail(Queue(p))
      PROVE  Queues!Pull(p)
  <2>1. /\ AbsQueue[p] # <<>> /\ answer' = <<p, Head(AbsQueue[p])>>
        /\ AbsQueue' = [AbsQueue EXCEPT ![p] = Tail(AbsQueue[p])]
    BY <1>1, <1>2
  <2> QED
    BY <1>1, <2>1 DEF Queues!Pull, AbsQueue, AbsBooked
<1>3. ASSUME NEW v \in Elems, answer' = NoAnswer, Queue(p)' = [Queue(p) EXCEPT ![1] = v]
      PROVE  Queues!Alter(p, v)
  <2>1. /\ AbsQueue[p] # <<>>
        /\ AbsQueue' = [AbsQueue EXCEPT ![p] = [AbsQueue[p] EXCEPT ![1] = v]]
    BY <1>1, <1>3
  <2> QED
    BY <1>1, <1>3, <2>1 DEF Queues!Alter, Queues!NoAnswer, NoAnswer, AbsQueue, AbsBooked
<1> QED
  BY <1>2, <1>3 DEF Queues!Next

\* The element that is to be published is in its slot.
LEMMA NextElem ==
    ASSUME RingInv, ViewInv, Alive, NEW p \in Lanes, Filling(p) \/ idxW[p].b
    PROVE  slots[p][SlotOf(idxW[p].i)] \in Elems
<1>1. /\ idxW[p].i \in Index /\ Size(p) \in Nat /\ Size(p) < Capacity /\ localR[p] \in Index
      /\ localW[p].i \in Index /\ SlotOf(idxW[p].i) \in Slot
  BY QueueRoom, SlotType DEF RingInv, TypeOK, Idx
<1>2. Dist(localR[p], idxW[p].i) \in Nat /\ Dist(localR[p], idxW[p].i) < Capacity
  <2>1. CASE Moved(p)
    <3>1. Size(p) > 0 /\ Dist(localR[p], idxW[p].i) = Size(p) - 1
      BY <2>1, QueueRoom
    <3> QED
      BY <1>1, <3>1, Circle
  <2>2. CASE ~Moved(p)
    BY <1>1, <2>2, QueueRoom DEF Size
  <2> QED
    BY <2>1, <2>2
<1>3. Count(p) = Dist(localR[p], idxW[p].i) + 1
  <2>1. CASE idxW[p].b
    <3>1. localW[p].b /\ localW[p].i = idxW[p].i
      BY <2>1, QueueRoom
    <3> QED
      BY <3>1 DEF Count
  <2>2. CASE Filling(p) /\ ~idxW[p].b
    <3>1. localW[p].i = Increment(idxW[p].i) /\ ~localW[p].b
      BY <2>2 DEF ViewInv, WriterView
    <3>2. Dist(localR[p], Increment(idxW[p].i)) = Dist(localR[p], idxW[p].i) + 1
      BY <1>1, <1>2, DistSteps
    <3>3. Count(p) = Dist(localR[p], localW[p].i) + 0
      BY <3>1 DEF Count
    <3> QED
      BY <1>2, <3>1, <3>2, <3>3
  <2> QED
    BY <2>1, <2>2
<1>4. Used(localR[p], Count(p), SlotOf(idxW[p].i))
  BY <1>1, <1>2, <1>3 DEF Used
<1>5. slots[p][SlotOf(idxW[p].i)] # NoElem
  BY <1>1, <1>4 DEF RingInv, SlotInv, LaneSlots
<1> QED
  BY <1>1, <1>5 DEF RingInv, TypeOK

\* It is at the end of the queue when idxW moves on.
LEMMA QueueGrows ==
    ASSUME RingInv, ViewInv, NEW p \in Lanes, Size(p) < Capacity,
           kind' = kind, idxR'[p] = idxR[p],
           slots'[p] = slots[p], idxW'[p].i = Increment(idxW[p].i),
           Moved(p)' = Moved(p), Moved(p) => rval'[ReaderOf(p)] = rval[ReaderOf(p)]
    PROVE  LET v == slots[p][SlotOf(idxW[p].i)] IN
           Queue(p)' = Append(Queue(p), v) /\ Queue(p)' = Queue(p) \o <<v>>
<1> DEFINE n == Size(p)
           S == Elems \cup {NoElem}
<1>1. n \in Nat /\ n < Capacity /\ idxR[p] \in Index /\ idxW[p].i \in Index /\ n + 1 \in 1..Capacity
  BY QueueRoom, Circle
<1>2. Dist(idxR[p], Increment(idxW[p].i)) = n + 1
  BY <1>1, DistSteps DEF Size
<1>3. /\ ReaderOf(p)' = ReaderOf(p) /\ (Moved(p) => rval'[ReaderOf(p)] = rval[ReaderOf(p)])
      /\ \A k : Nth(p, k)' = Nth(p, k)
  BY DEF ReaderOf, Nth
<1>4. Queue(p)' = [k \in 1..(n + 1) |->
            IF k = 1 /\ Moved(p) THEN rval[ReaderOf(p)] ELSE slots[p][Nth(p, k)]]
  BY <1>2, <1>3 DEF Queue, Moved
<1>5. Queue(p) = [k \in 1..n |->
            IF k = 1 /\ Moved(p) THEN rval[ReaderOf(p)] ELSE slots[p][Nth(p, k)]]
  BY DEF Queue, Moved, Size
<1>6. \A k \in 1..(n + 1) : Nth(p, k) \in Slot
  <2>1. \A k \in 1..(n + 1) : k \in 1..Capacity
    BY <1>1, Circle
  <2> QED
    BY <1>1, <2>1, AtSteps DEF Nth
<1>7. Nth(p, n + 1) = SlotOf(idxW[p].i)
  <2>1. At(idxR[p], n + 1) = idxW[p].i
    BY <1>1, AtSteps DEF Size
  <2> QED
    BY <1>1, <2>1, AtSteps DEF Nth
<1>8. Moved(p) => n # 0
  BY <1>1, QueueRoom
<1>9. /\ \A k \in Slot : slots[p][k] \in S
      /\ Moved(p) => rval[ReaderOf(p)] \in S
  BY QueueRoom DEF RingInv, TypeOK
<1> HIDE DEF n, S
<1>10. /\ Queue(p) \in [1..n -> S] /\ Queue(p)' \in [1..(n + 1) -> S]
       /\ \A k \in 1..n : Queue(p)'[k] = Queue(p)[k]
       /\ Queue(p)'[n + 1] = slots[p][SlotOf(idxW[p].i)]
  <2>1. \A k \in 1..n : k \in 1..(n + 1)
    BY <1>1
  <2>2. n + 1 \in 1..(n + 1) /\ (n + 1 = 1 => n = 0)
    BY <1>1
  <2> QED
    BY <1>4, <1>5, <1>6, <1>7, <1>8, <1>9, <2>1, <2>2
<1>11. \A f \in [1..n -> S], g \in [1..(n + 1) -> S] : (\A k \in 1..n : g[k] = f[k]) =>
            g = Append(f, g[n + 1]) /\ g = f \o <<g[n + 1]>>
  BY <1>1, Growing
<1> QED
  BY <1>10, <1>11

\* A step of a writer is a step of the queues.
LEMMA WriterRefines ==
    ASSUME RingInv, ViewInv, NEW h \in Lanes, WriterStep(h)
    PROVE  Queues!Next
<1> USE Facts
<1>1. /\ TypeOK /\ IndexInv /\ HandleInv /\ Alive /\ Alive'
      /\ wlane[h] \in Lanes
  BY StaysAlive DEF RingInv, SlotInv, TypeOK
<1>2. ASSUME UNCHANGED <<kind, readerVars, idxR>>, NEW q \in Lanes
      PROVE  /\ Moved(q)' = Moved(q) /\ rval' = rval
             /\ idxW'[q] = idxW[q] /\ slots'[q] = slots[q] => Keep(q)
             /\ Booking(q)' = IF idxW'[q].b THEN <<slots'[q][SlotOf(idxW'[q].i)]>> ELSE <<>>
  <2>1. Moved(q)' = Moved(q) /\ rval' = rval /\ idxR'[q] = idxR[q]
    BY <1>2 DEF Moved, ReaderOf, readerVars
  <2>2. idxW'[q] = idxW[q] /\ slots'[q] = slots[q] => Keep(q)
    BY <1>2, <2>1, KeepCells
  <2> QED
    BY <2>1, <2>2 DEF Booking
<1>3. CASE \/ \E p \in Lanes, v \in Elems : StartWrite(h, p, v)
           \/ RefuseBooked(h) \/ Refresh(h)
  <2>1. UNCHANGED <<kind, readerVars, idxR, idxW, slots, dropped>>
    BY <1>3 DEF StartWrite, RefuseBooked, Refresh, ringVars
  <2>2. \A q \in Lanes : Keep(q)
    BY <1>2, <2>1
  <2>3. CASE RefuseBooked(h)
    <3>1. WriterOf(h) = h /\ answer' = <<h, "full">> /\ localW[h].b
      BY <2>3 DEF RefuseBooked, WriterOf
    <3>2. idxW[h].b
      BY <3>1 DEF ViewInv, WriterView
    <3>3. Booking(h) # <<>>
      BY <3>2, QueueCells
    <3> QED
      BY <1>1, <2>1, <2>2, <3>1, <3>3, SilentStep
  <2>4. CASE Refresh(h)
    <3>1. PICK p \in Lanes : p = wlane[h]
      BY <1>1
    <3>2. /\ wpc[h] = "refresh" /\ WriterOf(p) = h
          /\ answer' = IF IsFull(idxR[p], localW[p].i) THEN <<p, "full">> ELSE NoAnswer
      BY <1>1, <2>4, <3>1 DEF Refresh, IndexInv, WriterInv
    <3>3. localW[p].i = idxW[p].i
      BY <3>1, <3>2, QueueRoom DEF Filling
    <3>4. IsFull(idxR[p], localW[p].i) => Len(Queue(p)) = Capacity
      BY <3>3, QueueCells DEF IsFull, Size
    <3> QED
      BY <1>1, <2>1, <2>2, <3>2, <3>4, SilentStep
  <2>5. CASE \E p \in Lanes, v \in Elems : StartWrite(h, p, v)
    <3>1. answer' = NoAnswer
      BY <2>5 DEF StartWrite
    <3> QED
      BY <1>1, <2>1, <2>2, <3>1, SilentStep
  <2> QED
    BY <1>3, <2>3, <2>4, <2>5
<1>4. CASE PutBooked(h)
  <2>1. /\ wpc[h] = "put" /\ wlane[h] = h /\ wval[h] \in Elems /\ ~localW[h].b
        /\ slots' = [slots EXCEPT ![h] = [slots[h] EXCEPT ![SlotOf(localW[h].i)] = wval[h]]]
        /\ idxW' = [idxW EXCEPT ![h] = [idxW[h] EXCEPT !.b = TRUE]]
        /\ answer' = <<h, "ok">>
        /\ UNCHANGED <<kind, readerVars, idxR, dropped>>
    BY <1>1, <1>4 DEF PutBooked, IndexInv, WriterInv, WriterOf, HandleInv
  <2>2. /\ slots'[h] = [slots[h] EXCEPT ![SlotOf(localW[h].i)] = wval[h]]
        /\ idxW'[h].b /\ idxW'[h].i = idxW[h].i
        /\ \A q \in Lanes : q # h => slots'[q] = slots[q] /\ idxW'[q] = idxW[q]
    BY <1>1, <2>1 DEF TypeOK, Idx
  <2>3. /\ Size(h) \in Nat /\ Size(h) < Capacity /\ localW[h].i = idxW[h].i
        /\ Len(Queue(h)) = Size(h)
        /\ idxW[h].i \in Index /\ idxR[h] \in Index
    BY <2>1, QueueRoom, QueueCells
  <2>4. Size(h) + 1 \in 1..Capacity /\ Size(h) + 1 > Size(h)
    BY <2>3, Circle
  <2>5. At(idxR[h], Size(h) + 1) = localW[h].i /\ SlotOf(localW[h].i) \in Slot
    BY ZenonT(60), <2>3, AtSteps, SlotType DEF Size
  <2>6. Queue(h)' = Queue(h)
    BY <1>2, <2>1, <2>2, <2>4, <2>5, KeepQueue
  <2>7. Booking(h) = <<>>
    BY <2>1, QueueRoom, QueueCells
  <2>8. slots'[h][SlotOf(idxW'[h].i)] = wval[h]
    BY <1>1, <2>2, <2>3, <2>5 DEF TypeOK
  <2>9. Booking(h)' = <<wval[h]>>
    BY <1>2, <2>1, <2>2, <2>8
  <2>10. \A q \in Lanes : q # h => Keep(q)
    BY <1>2, <2>1, <2>2
  <2>11. Len(Queue(h)) < Capacity
    BY <2>3
  <2> QED
    BY <1>1, <2>1, <2>6, <2>7, <2>9, <2>10, <2>11, EntryStep
<1>5. CASE Put(h)
  <2>1. PICK p \in Lanes : p = wlane[h]
    BY <1>1
  <2>2. /\ wpc[h] = "put" /\ ~localW[p].b
        /\ slots' = [slots EXCEPT ![p] = [slots[p] EXCEPT ![SlotOf(localW[p].i)] = wval[h]]]
        /\ answer' = NoAnswer
        /\ UNCHANGED <<kind, readerVars, idxR, idxW, dropped>>
    BY <1>1, <1>5, <2>1 DEF Put, HandleInv
  <2>3. /\ slots'[p] = [slots[p] EXCEPT ![SlotOf(localW[p].i)] = wval[h]]
        /\ \A q \in Lanes : q # p => slots'[q] = slots[q] /\ idxW'[q] = idxW[q]
    BY <1>1, <2>2 DEF TypeOK
  <2>4. /\ Size(p) \in Nat /\ Size(p) < Capacity /\ localW[p].i = idxW[p].i
        /\ idxW[p].i \in Index /\ idxR[p] \in Index /\ ~idxW[p].b
    BY <2>1, <2>2, QueueRoom
  <2>5. Size(p) + 1 \in 1..Capacity /\ Size(p) + 1 > Size(p)
    BY <2>4, Circle
  <2>6. At(idxR[p], Size(p) + 1) = localW[p].i
    BY <2>4, AtSteps DEF Size
  <2>7. Queue(p)' = Queue(p)
    BY <1>2, <2>2, <2>3, <2>5, <2>6, KeepQueue
  <2>8. Booking(p)' = Booking(p)
    BY <2>2, <2>4 DEF Booking
  <2>9. \A q \in Lanes : Keep(q)
    BY <1>2, <2>2, <2>3, <2>7, <2>8 DEF Keep
  <2> QED
    BY <1>1, <2>2, <2>9, SilentStep
<1>6. CASE PublishW(h)
  <2>1. PICK p \in Lanes : p = wlane[h]
    BY <1>1
  <2>2. /\ wpc[h] = "publish" /\ WriterOf(p) = h /\ answer' = <<p, "ok">> /\ Filling(p)
        /\ UNCHANGED <<kind, readerVars, idxR, slots, dropped>>
    BY <1>1, <1>6, <2>1 DEF PublishW, IndexInv, WriterInv, Filling
  <2>3. /\ kind # "mpsc" /\ idxW' = localW
        /\ idxW'[p].i = Increment(idxW[p].i) /\ ~idxW'[p].b /\ ~idxW[p].b
    BY <1>1, <1>6, <2>2 DEF PublishW, UpdateW, ViewInv, WriterView, HandleInv
  <2>4. \A q \in Lanes : q # p => idxW'[q] = idxW[q]
    <3>1. \A q \in Lanes : q # p => ~Filling(q)
      BY <2>1, <2>2, <2>3 DEF Filling, WriterOf
    <3>2. \A q \in Lanes : q # p => localW[q].i = idxW[q].i /\ localW[q].b = idxW[q].b
      BY <3>1 DEF ViewInv, WriterView
    <3>3. \A q \in Lanes : localW[q] \in Idx /\ idxW[q] \in Idx
      BY <1>1 DEF TypeOK
    <3> QED
      BY <2>3, <3>2, <3>3 DEF Idx
  <2>5. \A q \in Lanes : q # p => Keep(q)
    BY <1>2, <2>2, <2>4
  <2>6. PICK v \in Elems : v = slots[p][SlotOf(idxW[p].i)]
    BY <1>1, <2>2, NextElem
  <2>7. /\ Len(Queue(p)) < Capacity
        /\ Size(p) < Capacity
    BY <2>2, QueueRoom, QueueCells
  <2>8. Queue(p)' = Append(Queue(p), v)
    BY <1>2, <2>2, <2>3, <2>6, <2>7, QueueGrows
  <2>9. Booking(p)' = Booking(p)
    BY <2>3 DEF Booking
  <2> QED
    BY <1>1, <2>2, <2>5, <2>7, <2>8, <2>9, EntryStep
<1>7. ASSUME NEW v \in Elems, Modify(h, v)
      PROVE  Queues!Next
  <2>1. /\ localW[h].b /\ answer' = NoAnswer
        /\ slots' = [slots EXCEPT ![h] = [slots[h] EXCEPT ![SlotOf(localW[h].i)] = v]]
        /\ UNCHANGED <<kind, readerVars, idxR, idxW, dropped>>
    BY <1>7 DEF Modify
  <2>2. /\ slots'[h] = [slots[h] EXCEPT ![SlotOf(localW[h].i)] = v]
        /\ \A q \in Lanes : q # h => slots'[q] = slots[q] /\ idxW'[q] = idxW[q]
    BY <1>1, <2>1 DEF TypeOK
  <2>3. idxW[h].b
    BY <2>1 DEF ViewInv, WriterView
  <2>4. /\ Size(h) \in Nat /\ Size(h) < Capacity /\ localW[h].i = idxW[h].i
        /\ idxW[h].i \in Index /\ idxR[h] \in Index
    BY <2>3, QueueRoom
  <2>5. Size(h) + 1 \in 1..Capacity /\ Size(h) + 1 > Size(h)
    BY <2>4, Circle
  <2>6. At(idxR[h], Size(h) + 1) = localW[h].i /\ SlotOf(localW[h].i) \in Slot
    BY <2>4, AtSteps, SlotType DEF Size
  <2>7. Queue(h)' = Queue(h)
    BY ZenonT(60), <1>2, <2>1, <2>2, <2>5, <2>6, KeepQueue
  <2>8. Booking(h) # <<>>
    BY <2>3, QueueCells
  <2>9. slots'[h][SlotOf(idxW'[h].i)] = v
    BY <1>1, <2>1, <2>2, <2>4, <2>6 DEF TypeOK
  <2>10. Booking(h)' = <<v>>
    BY <1>2, <2>1, <2>3, <2>9
  <2>11. \A q \in Lanes : q # h => Keep(q)
    BY <1>2, <2>1, <2>2
  <2> QED
    BY <1>1, <2>1, <2>7, <2>8, <2>10, <2>11, EntryStep
<1>8. CASE Commit(h)
  <2>1. /\ kind = "mpsc" /\ localW[h].b /\ answer' = <<h, "ok">>
        /\ idxW' = [idxW EXCEPT ![h] = [i |-> Increment(localW[h].i), b |-> FALSE]]
        /\ UNCHANGED <<kind, readerVars, idxR, slots, dropped>>
    BY <1>1, <1>8 DEF Commit, UpdateW, TypeOK
  <2>2. idxW[h].b /\ Size(h) < Capacity /\ localW[h].i = idxW[h].i
    BY <2>1, QueueRoom DEF ViewInv, WriterView
  <2>3. /\ idxW'[h].i = Increment(idxW[h].i) /\ ~idxW'[h].b
        /\ \A q \in Lanes : q # h => idxW'[q] = idxW[q]
    BY <1>1, <2>1, <2>2 DEF TypeOK
  <2>4. \A q \in Lanes : q # h => Keep(q)
    BY <1>2, <2>1, <2>3
  <2>5. PICK v \in Elems : v = slots[h][SlotOf(idxW[h].i)]
    BY <1>1, <2>2, NextElem
  <2>6. Queue(h)' = Queue(h) \o <<v>>
    BY <1>2, <2>1, <2>2, <2>3, <2>5, QueueGrows
  <2>7. Booking(h) = <<v>> /\ Booking(h) # <<>>
    BY <2>2, <2>5, QueueCells
  <2>8. Booking(h)' = <<>>
    BY <2>3 DEF Booking
  <2> QED
    BY <1>1, <2>1, <2>4, <2>6, <2>7, <2>8, EntryStep
<1> QED
  BY <1>3, <1>4, <1>5, <1>6, <1>7, <1>8 DEF WriterStep

\* A queue with another first element.
Altered(f, x) == [f EXCEPT ![1] = x]

\* The first element of a queue is moved out or changed.
LEMMA FrontChanges ==
    ASSUME RingInv, ViewInv, NEW p \in Lanes, ~Moved(p), Size(p) > 0, NEW x,
           kind' = kind, idxR'[p] = idxR[p], idxW'[p] = idxW[p],
           slots'[p] = [slots[p] EXCEPT ![SlotOf(idxR[p])] = x]
    PROVE  /\ Booking(p)' = Booking(p) /\ Queue(p) # <<>>
           /\ Moved(p)' /\ rval'[ReaderOf(p)] = slots[p][SlotOf(idxR[p])]
                    => Queue(p)' = Queue(p)
           /\ ~Moved(p)' => Queue(p)' = Altered(Queue(p), x)
<1> DEFINE r == idxR[p]
           n == Size(p)
<1>1. /\ n \in Nat /\ n > 0 /\ n <= Capacity /\ r \in Index /\ idxW[p].i \in Index
      /\ idxW[p].b => n < Capacity
      /\ slots[p] \in [Slot -> Elems \cup {NoElem}]
  BY QueueRoom DEF RingInv, TypeOK
<1>2. /\ 1 \in 1..n /\ 1 \in 1..Capacity /\ \A k \in 1..n : k \in 1..Capacity
      /\ idxW[p].b => n + 1 \in 1..Capacity /\ n + 1 # 1
  BY <1>1, Circle
<1>3. /\ At(r, 1) = r /\ SlotOf(r) \in Slot
      /\ \A k \in 1..n : /\ Nth(p, k) = SlotOf(At(r, k)) /\ Nth(p, k) \in Slot
                         /\ k # 1 => SlotOf(At(r, k)) # SlotOf(r)
  <2>1. At(r, 1) = r /\ SlotOf(r) \in Slot
    BY <1>1, AtSteps, SlotType
  <2>2. \A k \in 1..n : Nth(p, k) = SlotOf(At(r, k)) /\ Nth(p, k) \in Slot
    BY <1>1, <1>2, AtSteps DEF Nth
  <2>3. \A k \in 1..n : k # 1 => SlotOf(At(r, k)) # SlotOf(At(r, 1))
    BY <1>1, <1>2, AtSteps
  <2> QED
    BY <2>1, <2>2, <2>3
<1>4. idxW[p].b => SlotOf(idxW[p].i) # SlotOf(r) /\ SlotOf(idxW[p].i) \in Slot
  <2>1. At(r, n + 1) = idxW[p].i
    BY <1>1, AtSteps DEF Size
  <2>2. idxW[p].b => SlotOf(At(r, n + 1)) # SlotOf(At(r, 1))
    BY <1>1, <1>2, AtSteps
  <2> QED
    BY <1>1, <1>3, <2>1, <2>2, SlotType
<1>5. Booking(p)' = Booking(p)
  <2>1. idxW[p].b => slots'[p][SlotOf(idxW[p].i)] = slots[p][SlotOf(idxW[p].i)]
    BY <1>1, <1>4
  <2> QED
    BY <2>1 DEF Booking
<1>6. /\ slots'[p][Nth(p, 1)] = x /\ slots[p][Nth(p, 1)] = slots[p][SlotOf(r)]
      /\ \A k \in 1..n : k # 1 => slots'[p][Nth(p, k)] = slots[p][Nth(p, k)]
  BY <1>1, <1>2, <1>3
<1>7. ReaderOf(p)' = ReaderOf(p) /\ \A k : Nth(p, k)' = Nth(p, k)
  BY DEF ReaderOf, Nth
<1>8. Queue(p)' = [k \in 1..n |->
            IF k = 1 /\ Moved(p)' THEN rval'[ReaderOf(p)] ELSE slots'[p][Nth(p, k)]]
  BY <1>7 DEF Queue, Moved, Size
<1>9. Queue(p) = [k \in 1..n |-> slots[p][Nth(p, k)]]
  BY DEF Queue, Moved, Size
<1>10. Queue(p) # <<>>
  BY <1>1, QueueCells
<1> HIDE DEF n, r
<1>11. ASSUME Moved(p)', rval'[ReaderOf(p)] = slots[p][SlotOf(r)]
       PROVE  Queue(p)' = Queue(p)
  <2>1. \A k \in 1..n : (IF k = 1 /\ Moved(p)' THEN rval'[ReaderOf(p)]
                                              ELSE slots'[p][Nth(p, k)]) = slots[p][Nth(p, k)]
    BY <1>6, <1>11
  <2> QED
    BY <1>8, <1>9, <2>1
<1>12. ASSUME ~Moved(p)'
       PROVE  Queue(p)' = Altered(Queue(p), x)
  <2>1. \A k \in 1..n : (IF k = 1 /\ Moved(p)' THEN rval'[ReaderOf(p)]
                                              ELSE slots'[p][Nth(p, k)])
                            = IF k = 1 THEN x ELSE slots[p][Nth(p, k)]
    BY <1>6, <1>12
  <2>2. Queue(p)' = [k \in 1..n |-> IF k = 1 THEN x ELSE slots[p][Nth(p, k)]]
    BY <1>8, <2>1
  <2> QED
    BY <1>9, <2>2 DEF Altered
<1> QED
  BY <1>5, <1>10, <1>11, <1>12 DEF r

\* It leaves when idxR moves on.
LEMMA FrontLeaves ==
    ASSUME RingInv, ViewInv, NEW p \in Lanes, Moved(p), ~Moved(p)',
           kind' = kind, idxR'[p] = Increment(idxR[p]), idxW'[p] = idxW[p], slots'[p] = slots[p]
    PROVE  /\ Booking(p)' = Booking(p) /\ Queue(p) # <<>>
           /\ Head(Queue(p)) = rval[ReaderOf(p)] /\ Queue(p)' = Tail(Queue(p))
<1> DEFINE r == idxR[p]
           n == Size(p)
           S == Elems \cup {NoElem}
<1>1. /\ n \in Nat /\ n > 0 /\ n <= Capacity /\ r \in Index
      /\ Dist(Increment(r), idxW[p].i) = n - 1
      /\ slots[p] \in [Slot -> S] /\ rval[ReaderOf(p)] \in S
  BY QueueRoom DEF RingInv, TypeOK
<1>2. \A k \in 1..(n - 1) : /\ k \in 1..Capacity /\ k + 1 \in 1..Capacity
                            /\ k \in 1..n /\ k + 1 \in 1..n /\ k + 1 # 1
  BY <1>1, Circle
<1>3. \A k \in 1..(n - 1) : Nth(p, k)' = Nth(p, k + 1)
  <2>1. ASSUME NEW k \in 1..(n - 1)
        PROVE  Nth(p, k)' = Nth(p, k + 1)
    <3>1. Nth(p, k)' = (Increment(r) + k - 1) % Capacity
      BY DEF Nth
    <3>2. (Increment(r) + k - 1) % Capacity = SlotOf(At(Increment(r), k))
      BY <1>1, <1>2, AtSteps, IncrementType
    <3>3. At(Increment(r), k) = At(r, k + 1)
      BY <1>1, <1>2, AtSteps
    <3>4. (r + (k + 1) - 1) % Capacity = SlotOf(At(r, k + 1))
      BY <1>1, <1>2, AtSteps
    <3> QED
      BY <3>1, <3>2, <3>3, <3>4 DEF Nth
  <2> QED
    BY <2>1
<1>4. \A k \in 1..n : Nth(p, k) \in Slot
  <2>1. \A k \in 1..n : k \in 1..Capacity
    BY <1>1, Circle
  <2> QED
    BY <1>1, <2>1, AtSteps DEF Nth
<1>5. Queue(p)' = [k \in 1..(n - 1) |-> slots[p][Nth(p, k)']]
  BY <1>1 DEF Queue, Moved
<1>6. Queue(p) = [k \in 1..n |-> IF k = 1 THEN rval[ReaderOf(p)] ELSE slots[p][Nth(p, k)]]
  BY DEF Queue, Moved, Size
<1>7. Booking(p)' = Booking(p)
  BY DEF Booking
<1> HIDE DEF n, r, S
<1>8. /\ Queue(p) \in [1..n -> S] /\ Queue(p)' \in [1..(n - 1) -> S]
      /\ Queue(p)[1] = rval[ReaderOf(p)]
      /\ \A k \in 1..(n - 1) : Queue(p)'[k] = Queue(p)[k + 1]
  <2>1. Queue(p) \in [1..n -> S]
    BY <1>1, <1>4, <1>6
  <2>2. Queue(p)' = [k \in 1..(n - 1) |-> slots[p][Nth(p, k + 1)]]
    BY <1>3, <1>5
  <2>3. Queue(p)' \in [1..(n - 1) -> S]
    BY <1>1, <1>2, <1>4, <2>2
  <2>4. 1 \in 1..n
    BY <1>1
  <2> QED
    BY <1>2, <1>6, <2>1, <2>2, <2>3, <2>4
<1>9. \A f \in [1..n -> S], g \in [1..(n - 1) -> S] : (\A k \in 1..(n - 1) : g[k] = f[k + 1]) =>
            f # <<>> /\ Head(f) = f[1] /\ g = Tail(f)
  BY <1>1, Shrinking
<1> QED
  BY <1>7, <1>8, <1>9

\* A step of a reader is a step of the queues.
LEMMA ReaderRefines ==
    ASSUME RingInv, ViewInv, NEW h \in Lanes, ReaderStep(h)
    PROVE  Queues!Next
<1> USE Facts
<1>1. /\ TypeOK /\ IndexInv /\ HandleInv /\ Alive /\ Alive'
      /\ rlane[h] \in Lanes
  BY StaysAlive DEF RingInv, SlotInv, TypeOK
<1>2. CASE (\E op \in ROp, p \in Lanes : StartRead(h, op, p)) \/ Reload(h)
  <2>1. /\ rpc[h] # "publish" /\ rpc'[h] # "publish"
        /\ \A g \in Lanes : g # h => rpc'[g] = rpc[g] /\ rlane'[g] = rlane[g]
        /\ UNCHANGED <<kind, idxR, idxW, slots, rval, dropped>>
    BY <1>1, <1>2 DEF StartRead, Reload, FinishRead, LookAt, TypeOK, ringVars
  <2>2. \A q \in Lanes : Moved(q)' = Moved(q)
    BY <2>1 DEF Moved, ReaderOf
  <2>3. \A q \in Lanes : Keep(q)
    BY <2>1, <2>2, KeepCells
  <2>4. CASE \E op \in ROp, p \in Lanes : StartRead(h, op, p)
    <3>1. answer' = NoAnswer
      BY <2>4 DEF StartRead
    <3> QED
      BY <1>1, <2>1, <2>3, <3>1, SilentStep
  <2>5. CASE Reload(h)
    <3>1. PICK p \in Lanes : p = rlane[h]
      BY <1>1
    <3>2. /\ rpc[h] = "reload" /\ ReaderOf(p) = h
          /\ answer' = IF localR[p] # idxW[p].i THEN NoAnswer
                       ELSE <<p, IF idxW[p].b THEN "booked" ELSE "empty">>
      BY <1>1, <2>5, <3>1 DEF Reload, IndexInv, ReaderInv
    <3>3. localR[p] = idxR[p]
      BY <3>1, <3>2, QueueRoom DEF Moved
    <3>4. /\ Queue(p) \in [1..Size(p) -> Elems \cup {NoElem}] /\ Len(Queue(p)) = Size(p)
          /\ Booking(p) # <<>> <=> idxW[p].b
      BY QueueCells
    <3>5. ASSUME localR[p] = idxW[p].i
          PROVE  Queue(p) = <<>>
      <4>1. Size(p) = 0
        BY <1>1, <3>3, <3>5, QueueRoom, DistSteps DEF Size
      <4> QED
        BY <3>4, <4>1
    <3>6. CASE localR[p] = idxW[p].i
      <4>1. answer' = <<p, IF Booking(p) = <<>> THEN "empty" ELSE "booked">>
        BY <3>2, <3>4, <3>6
      <4> QED
        BY <1>1, <2>1, <2>3, <3>5, <3>6, <4>1, SilentStep
    <3>7. CASE localR[p] # idxW[p].i
      <4>1. answer' = NoAnswer
        BY <3>2, <3>7
      <4> QED
        BY <1>1, <2>1, <2>3, <4>1, SilentStep
    <3> QED
      BY <3>6, <3>7
  <2> QED
    BY <1>2, <2>4, <2>5
<1>3. ASSUME NEW p \in Lanes, p = rlane[h], rpc[h] = "take", NEW x, kind' = kind,
             idxR' = idxR, idxW' = idxW,
             slots' = [slots EXCEPT ![p] = [slots[p] EXCEPT ![SlotOf(localR[p])] = x]],
             \A g \in Lanes : g # h => /\ rpc'[g] = rpc[g] /\ rlane'[g] = rlane[g]
                                       /\ rval'[g] = rval[g],
             rpc'[h] = "idle" \/ rlane'[h] = p
      PROVE  /\ \A q \in Lanes : q # p => Keep(q)
             /\ ~Moved(p) /\ Size(p) > 0 /\ ReaderOf(p) = h /\ localR[p] = idxR[p]
             /\ slots'[p] = [slots[p] EXCEPT ![SlotOf(idxR[p])] = x]
             /\ idxR'[p] = idxR[p] /\ idxW'[p] = idxW[p]
  <2>1. ~Moved(p) /\ Size(p) > 0 /\ localR[p] = idxR[p]
    BY <1>3, QueueRoom
  <2>2. ReaderOf(p) = h
    BY <1>1, <1>3 DEF IndexInv, ReaderInv
  <2>3. \A q \in Lanes : q # p => /\ Moved(q)' = Moved(q) /\ (Moved(q) => ReaderOf(q) # h)
                                  /\ slots'[q] = slots[q]
    BY <1>1, <1>3 DEF Moved, ReaderOf, TypeOK
  <2>4. \A q \in Lanes : q # p => Keep(q)
    BY <1>3, <2>3, KeepCells
  <2>5. slots'[p] = [slots[p] EXCEPT ![SlotOf(localR[p])] = x]
    BY <1>1, <1>3 DEF TypeOK
  <2> QED
    BY <1>3, <2>1, <2>2, <2>4, <2>5
<1>4. CASE Take(h)
  <2>1. PICK p \in Lanes : p = rlane[h]
    BY <1>1
  <2>2. /\ rpc[h] = "take" /\ kind' = kind /\ idxR' = idxR /\ idxW' = idxW
        /\ slots' = [slots EXCEPT ![p] = [slots[p] EXCEPT ![SlotOf(localR[p])] = NoElem]]
        /\ \A g \in Lanes : g # h => /\ rpc'[g] = rpc[g] /\ rlane'[g] = rlane[g]
                                     /\ rval'[g] = rval[g]
        /\ rpc'[h] = "publish" /\ rlane'[h] = p
        /\ rval'[h] = slots[p][SlotOf(localR[p])]
        /\ answer' = NoAnswer /\ UNCHANGED dropped
    BY <1>1, <1>4, <2>1 DEF Take, TypeOK
  <2>3. /\ \A q \in Lanes : q # p => Keep(q)
        /\ ~Moved(p) /\ Size(p) > 0 /\ ReaderOf(p) = h /\ localR[p] = idxR[p]
        /\ slots'[p] = [slots[p] EXCEPT ![SlotOf(idxR[p])] = NoElem]
        /\ idxR'[p] = idxR[p] /\ idxW'[p] = idxW[p]
    BY <1>3, <2>1, <2>2
  <2>4. Moved(p)' /\ rval'[ReaderOf(p)] = slots[p][SlotOf(idxR[p])]
    BY <2>2, <2>3 DEF Moved, ReaderOf
  <2>5. Queue(p)' = Queue(p) /\ Booking(p)' = Booking(p)
    <3>1. /\ Booking(p)' = Booking(p) /\ Queue(p) # <<>>
          /\ Moved(p)' /\ rval'[ReaderOf(p)] = slots[p][SlotOf(idxR[p])]
                   => Queue(p)' = Queue(p)
          /\ ~Moved(p)' => Queue(p)' = Altered(Queue(p), NoElem)
      BY <2>2, <2>3, FrontChanges
    <3> QED
      BY <2>4, <3>1
  <2>6. \A q \in Lanes : Keep(q)
    BY <2>3, <2>5 DEF Keep
  <2> QED
    BY <1>1, <2>2, <2>6, SilentStep
<1>5. ASSUME NEW v \in Elems, PeekMut(h, v)
      PROVE  Queues!Next
  <2>1. PICK p \in Lanes : p = rlane[h]
    BY <1>1
  <2>2. /\ rpc[h] = "take" /\ kind' = kind /\ idxR' = idxR /\ idxW' = idxW
        /\ slots' = [slots EXCEPT ![p] = [slots[p] EXCEPT ![SlotOf(localR[p])] = v]]
        /\ \A g \in Lanes : g # h => /\ rpc'[g] = rpc[g] /\ rlane'[g] = rlane[g]
                                     /\ rval'[g] = rval[g]
        /\ rpc'[h] = "idle" /\ answer' = NoAnswer /\ UNCHANGED dropped
    BY <1>1, <1>5, <2>1 DEF PeekMut, FinishRead, TypeOK
  <2>3. /\ \A q \in Lanes : q # p => Keep(q)
        /\ ~Moved(p) /\ Size(p) > 0 /\ ReaderOf(p) = h /\ localR[p] = idxR[p]
        /\ slots'[p] = [slots[p] EXCEPT ![SlotOf(idxR[p])] = v]
        /\ idxR'[p] = idxR[p] /\ idxW'[p] = idxW[p]
    BY <1>3, <2>1, <2>2
  <2>4. ~Moved(p)'
    BY <2>2, <2>3 DEF Moved, ReaderOf
  <2>5. /\ Queue(p)' = [Queue(p) EXCEPT ![1] = v]
        /\ Booking(p)' = Booking(p) /\ Queue(p) # <<>>
    <3>1. /\ ~Moved(p)' => Queue(p)' = Altered(Queue(p), v)
          /\ Booking(p)' = Booking(p) /\ Queue(p) # <<>>
      BY SMTT(30), <2>2, <2>3, FrontChanges
    <3> QED
      BY <2>4, <3>1 DEF Altered
  <2> QED
    BY <1>1, <2>2, <2>3, <2>5, ExitStep
<1>6. CASE PublishR(h)
  <2>1. PICK p \in Lanes : p = rlane[h]
    BY <1>1
  <2>2. /\ rpc[h] = "publish" /\ ReaderOf(p) = h /\ Moved(p)
        /\ kind' = kind /\ idxW' = idxW /\ slots' = slots /\ UNCHANGED dropped
        /\ idxR' = UpdateR(h, localR) /\ rpc'[h] = "idle"
        /\ \A g \in Lanes : g # h => /\ rpc'[g] = rpc[g] /\ rlane'[g] = rlane[g]
                                     /\ rval'[g] = rval[g]
        /\ answer' = <<p, rval[h]>>
    BY <1>1, <1>6, <2>1 DEF PublishR, FinishRead, TypeOK, IndexInv, ReaderInv, Moved
  <2>3. ~Moved(p)'
    BY <2>2 DEF Moved, ReaderOf
  <2>4. \A q \in Lanes : q # p => Moved(q)' = Moved(q) /\ (Moved(q) => ReaderOf(q) # h)
    BY <2>1, <2>2 DEF Moved, ReaderOf
  <2>5. idxR'[p] = Increment(idxR[p])
    <3>1. idxR'[p] = localR[p]
      BY <1>1, <2>2 DEF UpdateR, ReaderOf, TypeOK
    <3> QED
      BY <2>2, <3>1, QueueRoom
  <2>6. ASSUME NEW q \in Lanes, q # p
        PROVE  idxR'[q] = idxR[q]
    <3>1. CASE kind = "spmc"
      BY <1>1, <2>2, <2>6, <3>1 DEF UpdateR, ReaderOf, TypeOK
    <3>2. CASE kind # "spmc"
      <4>1. idxR' = localR /\ ReaderOf(q) = h
        BY <2>2, <3>2 DEF UpdateR, ReaderOf
      <4>2. ~Moved(q)
        BY <2>4, <2>6, <4>1
      <4> QED
        BY <4>1, <4>2, QueueRoom
    <3> QED
      BY <3>1, <3>2
  <2>7. \A q \in Lanes : q # p => Keep(q)
    BY <2>2, <2>4, <2>6, KeepCells
  <2>8. /\ Booking(p)' = Booking(p) /\ Queue(p) # <<>>
        /\ Head(Queue(p)) = rval[ReaderOf(p)] /\ Queue(p)' = Tail(Queue(p))
    BY <2>2, <2>3, <2>5, FrontLeaves
  <2> QED
    BY <1>1, <2>2, <2>7, <2>8, ExitStep
<1> QED
  BY <1>2, <1>4, <1>5, <1>6 DEF ReaderStep

\* The end of the ring is the end of the queues.
LEMMA DropRefines ==
    ASSUME RingInv, ViewInv, DropRing
    PROVE  Queues!Next
<1>1. Alive /\ ~Alive'
  BY Facts DEF DropRing, Alive, RingInv, TypeOK
<1>2. ASSUME NEW p \in Lanes
      PROVE  dropped'[p] = Queue(p)
  <2>1. ~Moved(p)
    BY Facts DEF DropRing, Moved
  <2> QED
    BY <2>1 DEF DropRing, Visited, Queue
<1>3. dropped' = AbsQueue
  <2>1. dropped' = [p \in Lanes |-> dropped'[p]]
    BY DEF DropRing
  <2> QED
    BY <1>1, <1>2, <2>1 DEF AbsQueue
<1>4. AbsQueue' = [p \in Lanes |-> <<>>] /\ AbsBooked' = [p \in Lanes |-> <<>>]
  BY <1>1 DEF AbsQueue, AbsBooked
<1>5. answer' = NoAnswer
  BY DEF DropRing
<1> QED
  BY <1>3, <1>4, <1>5 DEF Queues!Next, Queues!Drop, Queues!NoAnswer, NoAnswer, AbsQueue, AbsBooked

\* The ring starts as empty queues.
LEMMA RefinesInit == Init => Queues!Init
<1> SUFFICES ASSUME Init
             PROVE  Queues!Init
  OBVIOUS
<1>1. Alive
  BY DEF Init, Alive
<1>2. ASSUME NEW p \in Lanes
      PROVE  Queue(p) = <<>> /\ Booking(p) = <<>>
  <2>1. Dist(idxR[p], idxW[p].i) = 0 /\ ~idxW[p].b
    BY Circle DEF Init, Dist
  <2>2. 1..0 = {}
    OBVIOUS
  <2> QED
    BY <2>1, <2>2 DEF Queue, Booking
<1> QED
  BY <1>1, <1>2 DEF Init, Queues!Init, Queues!NoAnswer, NoAnswer

\* A step of the ring is a step of the queues, or leaves them alone.
LEMMA QueueStep == RingInv /\ ViewInv /\ [Next]_vars => [Queues!Next]_(Queues!vars)
<1> SUFFICES ASSUME RingInv, ViewInv, [Next]_vars
             PROVE  Queues!Next \/ UNCHANGED Queues!vars
  OBVIOUS
<1>1. CASE UNCHANGED vars
  <2>1. \A p \in Lanes : Keep(p)
    BY <1>1, KeepCells DEF vars, ringVars, readerVars, Moved, ReaderOf
  <2>2. Alive' = Alive
    BY <1>1 DEF vars, writerVars, Alive
  <2>3. AbsQueue' = AbsQueue /\ AbsBooked' = AbsBooked
    BY <2>1, <2>2 DEF AbsQueue, AbsBooked, Keep
  <2> QED
    BY <1>1, <2>3 DEF vars, Queues!vars, AbsQueue, AbsBooked
<1> QED
  BY <1>1, WriterRefines, ReaderRefines, DropRefines DEF Next

\* The ring implements a bounded queue per priority, for any number of priorities, any
\* capacity and modulus and each kind of sharing: an operation takes effect at one
\* access, and what it answers is true of the queue at that access (push, book, commit,
\* pull, pull_priority, peek_mut and the drop in src/pipeline/ringbuf/common.rs).
THEOREM RingImplementsQueues == Spec => ImplementsQueues
<1>1. RingInv /\ ViewInv /\ [Next]_vars => ViewInv'
  BY ViewStep
<1>2. Spec => []ViewInv
  BY <1>1, ViewInit, RingInvHolds, PTL DEF Spec
<1> QED
  BY <1>2, RefinesInit, QueueStep, RingInvHolds, PTL DEF Spec, ImplementsQueues, Queues!Spec
=============================================================================
