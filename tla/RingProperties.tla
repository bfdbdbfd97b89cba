--------------------------- MODULE RingProperties ---------------------------
(***************************************************************************)
(* What the ring buffer has to guarantee.                                  *)
(***************************************************************************)
EXTENDS RingBuffer

(* The unsafe accesses to slots (get_elem_mut) never meet: a writer about  *)
(* to store an element finds its slot free, a reader about to move one out *)
(* finds it initialised, although each decides on a copy of the other      *)
(* side's index that may be old.                                           *)
SlotsAreExclusive ==
    \A h \in Lanes :
        /\ wpc[h] = "put" => slots[wlane[h]][SlotOf(localW[wlane[h]].i)] = NoElem
        /\ rpc[h] = "take" => slots[rlane[h]][SlotOf(localR[rlane[h]])] # NoElem

(* The indices of a priority never drift further apart than the capacity,  *)
(* in the atomic words and in every view a handle has of them, across the  *)
(* wrap of the index and whatever other priorities write to the same word; *)
(* a view of the other side is never ahead of it.                          *)
IndicesInStep ==
    \A p \in Lanes :
        /\ Dist(cachedR[p], localW[p].i) <= Capacity
        /\ Dist(idxR[p], localW[p].i) <= Dist(cachedR[p], localW[p].i)
        /\ Dist(localR[p], idxW[p].i) <= Dist(idxR[p], idxW[p].i)
        /\ Dist(localR[p], cachedW[p].i) <= Dist(localR[p], idxW[p].i)
        /\ Dist(idxR[p], idxW[p].i) <= Dist(idxR[p], localW[p].i)

----------------------------------------------------------------------------
(* Elements between idxR and idxW.  The element that a reader has moved    *)
(* out still counts until the index says so.                               *)
Moved(p) ==
    LET h == ReaderOf(p) IN rlane[h] = p /\ rpc[h] = "publish"
Queue(p) ==
    [k \in 1..Dist(idxR[p], idxW[p].i) |->
        IF k = 1 /\ Moved(p) THEN rval[ReaderOf(p)] ELSE slots[p][Nth(p, k)]]
Booking(p) == IF idxW[p].b THEN <<slots[p][SlotOf(idxW[p].i)]>> ELSE <<>>
Alive == \A h \in Lanes : wpc[h] # "gone"

Queues == INSTANCE LaneQueues WITH
    queue <- [p \in Lanes |-> IF Alive THEN Queue(p) ELSE <<>>],
    booked <- [p \in Lanes |-> IF Alive THEN Booking(p) ELSE <<>>]

(* The ring implements one bounded queue per priority: an operation takes  *)
(* effect at its compare-and-swap, store or load, a push is refused only   *)
(* when the lane is full at that moment, a pull misses only when it is     *)
(* empty, Booked is answered only while an element is booked, and what is  *)
(* left is destroyed once.                                                 *)
ImplementsQueues == Queues!Spec
=============================================================================
