-------------------------------- MODULE MCTx --------------------------------
(***************************************************************************)
(* Model-checking instances of the transmission pipeline.  Messages are    *)
(* 1..n; the tuples give the attributes of message 1, 2, ... in each mix.  *)
(***************************************************************************)
EXTENDS TxProperties, TLC

SenderSymmetry == Permutations(Senders)

\* Frames and fragments of one lane, reliable and best-effort.
LaneMsgs == 1..3
LanePrio == <<1, 1, 1>>
LaneCc == <<"block", "drop", "block">>
LaneExpress == <<FALSE, FALSE, FALSE>>
LaneFrags == <<1, 1, 2>>

\* A frame and a fragmented message in two lanes, for the runs that stop.
PairMsgs == 1..2
PairPrio == <<1, 2>>
PairCc == <<"block", "block">>
PairExpress == <<FALSE, FALSE>>
PairFrags == <<1, 2>>

\* A best-effort message in fragments, a frame and an express message that may join it.
TrioMsgs == 1..3
TrioPrio == <<1, 1, 1>>
TrioCc == <<"drop", "block", "block">>
TrioExpress == <<FALSE, FALSE, TRUE>>
TrioFrags == <<2, 1, 1>>

\* A frame and a fragmented message in one lane, for progress.
DuoMsgs == 1..2
DuoPrio == <<1, 1>>
DuoCc == <<"block", "block">>
DuoExpress == <<FALSE, FALSE>>
DuoFrags == <<1, 2>>
=============================================================================
