-------------------------------- MODULE MCRx --------------------------------
(***************************************************************************)
(* Model-checking instances of the reception pipeline.  Messages are 1..n, *)
(* the tuples give the attributes of message 1, 2, ... in each mix.        *)
(***************************************************************************)
EXTENDS RxProperties

\* Two frames in the first lane; in the second a message of more fragments than
\* may be put together, one that fits, and a best-effort one that fits.
MixMsgs == 1..5
MixPrio == <<1, 1, 2, 2, 2>>
MixCc == <<"block", "block", "block", "block", "drop">>
MixFrags == <<1, 1, 4, 2, 3>>

\* A frame of each lane.
PairMsgs == 1..2
PairPrio == <<1, 2>>
PairCc == <<"block", "block">>
PairFrags == <<1, 1>>
=============================================================================
