------------------------------- MODULE MCWire -------------------------------
(* Model-checking instances of Wire: the wire of one lane, scaled down. *)
EXTENDS WireProperties

\* Nothing; a length of one byte, in one chunk; one of two bytes, in two chunks; a
\* message of three chunks for several fragments; one longer than FragMax.
SmallPlans == {<<>>, <<<<"write", 3>>>>, <<<<"write", 1>>, <<"chunk", 3>>>>,
               <<<<"write", 3>>, <<"chunk", 4>>, <<"write", 2>>>>,
               <<<<"write", 5>>, <<"chunk", 6>>>>}
TwoQos == {[prio |-> 1, cc |-> "block", express |-> FALSE],
           [prio |-> 1, cc |-> "drop", express |-> TRUE]}

\* Either several messages, or one that is read.
SomeQuotas == {[sends |-> 3, reads |-> 0], [sends |-> 1, reads |-> 3]}
=============================================================================
