------------------------------- MODULE Event --------------------------------
(***************************************************************************)
(* src/sync/event.rs: one Waiter and one Notifier (shared by several       *)
(* threads) around an atomic flag and an event_listener::Event.            *)
(*                                                                         *)
(* Each atomic operation on the flag and each call into event_listener is  *)
(* one action, so every interleaving between the flag and the list of      *)
(* listeners is explored.  Operations are sequentially consistent.         *)
(***************************************************************************)
CONSTANT Notifiers      \* threads that hold the Notifier handle

VARIABLES
    flag,       \* the bits of EventInner::flag that are set
    listener,   \* the waiter's EventListener: "none", "listening", "notified"
    npc,        \* control state of each notifying thread
    wpc,        \* control state of the waiter
    result      \* what the last wait returned, "none" while there is none

vars == <<flag, listener, npc, wpc, result>>

OK == "ok"
ERR == "err"

NPc == {"idle", "notify", "err", "gone"}
WPc == {"idle", "check", "listen", "recheck", "await", "gone"}

TypeOK ==
    /\ flag \in SUBSET {OK, ERR}
    /\ listener \in {"none", "listening", "notified"}
    /\ npc \in [Notifiers -> NPc]
    /\ wpc \in WPc
    /\ result \in {"none", "ok", "err", "abandoned"}

Init ==
    /\ flag = {}
    /\ listener = "none"
    /\ npc = [n \in Notifiers |-> "idle"]
    /\ wpc = "idle"
    /\ result = "none"

----------------------------------------------------------------------------
(* event_listener::Event *)

\* notify wakes a registered listener and does nothing when there is none.
WakeListener ==
    listener' = IF listener = "listening" THEN "notified" ELSE listener

----------------------------------------------------------------------------
(* Notifier *)

\* Mutant: a bit that no waiter looks for.
SetFlag_WrongBit(n) ==
    /\ npc[n] = "idle"
    /\ flag' = flag \cup {"set"}
    /\ npc' = [npc EXCEPT ![n] = IF ERR \in flag THEN "idle" ELSE "notify"]
    /\ UNCHANGED <<listener, wpc, result>>

\* EventInner::set, fetch_or(OK): with ERR set notify returns at once.
SetFlag(n) ==
    /\ npc[n] = "idle"
    /\ flag' = flag \cup {OK}
    /\ npc' = [npc EXCEPT ![n] = IF ERR \in flag THEN "idle" ELSE "notify"]
    /\ UNCHANGED <<listener, wpc, result>>

\* event.notify(1.additional()) after the flag was set.
NotifyEvent(n) ==
    /\ npc[n] = "notify"
    /\ WakeListener
    /\ npc' = [npc EXCEPT ![n] = "idle"]
    /\ UNCHANGED <<flag, wpc, result>>

\* A thread releases its handle; the last one runs Drop for Notifier, whose
\* store(ERR) overwrites the OK bit.
DropHandle(n) ==
    /\ npc[n] = "idle"
    /\ IF \A m \in Notifiers \ {n} : npc[m] = "gone"
       THEN /\ flag' = {ERR}
            /\ npc' = [npc EXCEPT ![n] = "err"]
       ELSE /\ npc' = [npc EXCEPT ![n] = "gone"]
            /\ UNCHANGED flag
    /\ UNCHANGED <<listener, wpc, result>>

\* event.notify(1) at the end of EventInner::err.
NotifyErr(n) ==
    /\ npc[n] = "err"
    /\ WakeListener
    /\ npc' = [npc EXCEPT ![n] = "gone"]
    /\ UNCHANGED <<flag, wpc, result>>

----------------------------------------------------------------------------
(* Waiter *)

StartWait ==
    /\ wpc = "idle"
    /\ wpc' = "check"
    /\ result' = "none"
    /\ UNCHANGED <<flag, listener, npc>>

\* EventCheck: a closed event answers "err", whatever token it still holds.
Answer == IF ERR \in flag THEN "err" ELSE "ok"

EndWait(r) == wpc' = "idle" /\ listener' = "none" /\ result' = r

\* Mutant: the flag is loaded and not cleared.
CheckFlag_Load(next) ==
    /\ \/ flag # {} /\ EndWait(Answer)
       \/ flag = {} /\ wpc' = next /\ UNCHANGED <<listener, result>>
    /\ UNCHANGED <<flag, npc>>

\* EventInner::check, fetch_and(!OK): a set flag ends the wait, which drops
\* the listener; otherwise the wait goes on at next.
CheckFlag(next) ==
    /\ flag' = flag \ {OK}
    /\ \/ flag # {} /\ EndWait(Answer)
       \/ flag = {} /\ wpc' = next /\ UNCHANGED <<listener, result>>
    /\ UNCHANGED npc

Check == wpc = "check" /\ CheckFlag("listen")

Listen ==
    /\ wpc = "listen"
    /\ listener' = "listening"
    /\ wpc' = "recheck"
    /\ UNCHANGED <<flag, npc, result>>

\* Mutant: the flag is not checked again once the listener is registered.
Recheck_Skipped ==
    /\ wpc = "recheck" /\ wpc' = "await" /\ UNCHANGED <<flag, listener, npc, result>>

Recheck == wpc = "recheck" /\ CheckFlag("await")

\* listener.await completes; the loop checks the flag again.
Wake ==
    /\ wpc = "await"
    /\ listener = "notified"
    /\ listener' = "none"
    /\ wpc' = "check"
    /\ UNCHANGED <<flag, npc, result>>

\* The future is dropped at its only suspension point.
Cancel ==
    /\ wpc = "await"
    /\ EndWait("abandoned")
    /\ UNCHANGED <<flag, npc>>

\* Drop for Waiter: no listener is left that err() could wake.
DropWaiter ==
    /\ wpc = "idle"
    /\ flag' = {ERR}
    /\ wpc' = "gone"
    /\ UNCHANGED <<listener, npc, result>>

----------------------------------------------------------------------------

NotifierStep(n) == NotifyEvent(n) \/ NotifyErr(n)
WaiterStep == Check \/ Listen \/ Recheck \/ Wake

Next ==
    \/ \E n \in Notifiers : SetFlag(n) \/ DropHandle(n) \/ NotifierStep(n)
    \/ StartWait \/ WaiterStep \/ Cancel \/ DropWaiter

Safety == Init /\ [][Next]_vars

\* Threads finish a notify they have begun and the executor polls a waiter
\* that is runnable; nobody has to notify, to drop a handle or to give up.
Fairness ==
    /\ \A n \in Notifiers : WF_vars(NotifierStep(n))
    /\ WF_vars(WaiterStep)

Spec == Safety /\ Fairness

----------------------------------------------------------------------------
(* Properties *)

\* A waiter suspended while the flag is set has been notified, or some thread
\* is still about to notify it: no wakeup is lost between the two checks of
\* Waiter::wait and the two steps of Notifier::notify and EventInner::err.
NoLostWakeup ==
    wpc = "await" /\ flag # {} =>
        \/ listener = "notified"
        \/ \E n \in Notifiers : npc[n] \in {"notify", "err"}

\* The abstract signal this code implements: the flag word is the signal.
SigOf == IF ERR \in flag THEN "err" ELSE IF OK \in flag THEN "ok" ELSE "unset"
WaitingOf == CASE wpc = "idle" -> "no" [] wpc = "gone" -> "gone" [] OTHER -> "yes"

Sig == INSTANCE Signal WITH sig <- SigOf, waiting <- WaitingOf

\* Every behaviour of wait/notify/drop is one of the one-token signal: a token
\* is returned by one wait only, Ok and Err are told apart as the signal does,
\* and a wait that has something to return returns it.
ImplementsSignal == Sig!Spec
=============================================================================
