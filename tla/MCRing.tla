------------------------------- MODULE MCRing -------------------------------
(***************************************************************************)
(* Model-checking instance of the ring buffer.  The ring does not look at  *)
(* its elements, so that one marked element among equal ones is enough to  *)
(* see an element lost, repeated or out of order.                          *)
(***************************************************************************)
EXTENDS RingProperties, FiniteSets

CONSTANT Marked

Marks ==
    Cardinality({<<p, k>> \in Lanes \X Slot : slots[p][k] = Marked})
    + Cardinality({h \in Lanes : wval[h] = Marked})
    + Cardinality({h \in Lanes : rval[h] = Marked})

OneMarked == Marks <= 1
=============================================================================
