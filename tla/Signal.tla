------------------------------- MODULE Signal -------------------------------
(***************************************************************************)
(* What an event (src/sync/event.rs) promises its users: a signal that     *)
(* holds at most one token.  A notification stores the token, a completed  *)
(* wait takes it, an abandoned wait leaves it, and once one side has been  *)
(* dropped the signal answers "err" for ever.  The transmission pipeline   *)
(* (module TxPipeline) uses its events through exactly this interface.     *)
(***************************************************************************)

VARIABLES
    sig,        \* "unset", "ok" (a token is stored) or "err" (closed)
    waiting,    \* the waiter: "no", "yes" (inside wait) or "gone"
    result      \* what the last wait returned, "none" while there is none

vars == <<sig, waiting, result>>

TypeOK ==
    /\ sig \in {"unset", "ok", "err"}
    /\ waiting \in {"no", "yes", "gone"}
    /\ result \in {"none", "ok", "err", "abandoned"}

Init == sig = "unset" /\ waiting = "no" /\ result = "none"

\* A notification: the token is stored, a second one is absorbed.
Post ==
    /\ sig # "err"
    /\ sig' = "ok"
    /\ UNCHANGED <<waiting, result>>

\* The last notifier is dropped; a token that was not taken is lost.
Close ==
    /\ sig' = "err"
    /\ UNCHANGED <<waiting, result>>

StartWait ==
    /\ waiting = "no"
    /\ waiting' = "yes"
    /\ result' = "none"
    /\ UNCHANGED sig

\* A wait completes: it takes the token, or learns that the signal is closed.
Take ==
    /\ waiting = "yes"
    /\ sig # "unset"
    /\ waiting' = "no"
    /\ result' = sig
    /\ sig' = IF sig = "ok" THEN "unset" ELSE sig

\* The future of the wait is dropped, by a timeout or by the caller.
Abandon ==
    /\ waiting = "yes"
    /\ waiting' = "no"
    /\ result' = "abandoned"
    /\ UNCHANGED sig

\* The waiter itself is dropped, which closes the signal for the notifiers.
Leave ==
    /\ waiting = "no"
    /\ waiting' = "gone"
    /\ sig' = "err"
    /\ UNCHANGED result

Next == Post \/ Close \/ StartWait \/ Take \/ Abandon \/ Leave

Safety == Init /\ [][Next]_vars

\* A wait that has something to return returns.
Spec == Safety /\ WF_vars(Take)
=============================================================================
