---------------------------- MODULE EventProofs -----------------------------
(* Theorems about Event, for any set of notifying threads. *)
EXTENDS Event, TLAPS

\* The inductive invariant: NoLostWakeup, and the fact it rests on, that a
\* waiter past listen() owns a listener until its wait ends.
Registered == wpc \in {"recheck", "await"} => listener # "none"

Inv == TypeOK /\ Registered /\ NoLostWakeup

\* The flag word holds OK and ERR and nothing else, the listener is none, registered
\* or notified, whatever the notifiers and the waiter do (EventInner::set, check, err).
THEOREM TypeInvariant == Safety => []TypeOK
<1>1. Init => TypeOK
  BY DEF Init, TypeOK, OK, ERR, NPc, WPc
<1>2. TypeOK /\ [Next]_vars => TypeOK'
  <2> SUFFICES ASSUME TypeOK, [Next]_vars
               PROVE  TypeOK'
    OBVIOUS
  <2> USE DEF TypeOK, OK, ERR, NPc, WPc
  <2>1. ASSUME NEW n \in Notifiers, SetFlag(n)
        PROVE  TypeOK'
    BY <2>1 DEF SetFlag
  <2>2. ASSUME NEW n \in Notifiers, NotifyEvent(n) \/ NotifyErr(n)
        PROVE  TypeOK'
    BY <2>2 DEF NotifyEvent, NotifyErr, WakeListener
  <2>3. ASSUME NEW n \in Notifiers, DropHandle(n)
        PROVE  TypeOK'
    BY <2>3 DEF DropHandle
  <2>4. CASE Check \/ Recheck
    BY <2>4 DEF Check, Recheck, CheckFlag, EndWait, Answer
  <2>5. CASE StartWait \/ Listen \/ Wake \/ Cancel \/ DropWaiter
    BY <2>5 DEF StartWait, Listen, Wake, Cancel, EndWait, DropWaiter
  <2>6. CASE UNCHANGED vars
    BY <2>6 DEF vars
  <2> QED
    BY <2>1, <2>2, <2>3, <2>4, <2>5, <2>6 DEF Next, NotifierStep, WaiterStep
<1> QED
  BY <1>1, <1>2, PTL DEF Safety

LEMMA InvInit == Init => Inv
BY DEF Init, Inv, TypeOK, Registered, NoLostWakeup, OK, ERR, NPc, WPc

\* One step of the event keeps the invariant.
LEMMA InvStep == Inv /\ TypeOK' /\ [Next]_vars => Registered' /\ NoLostWakeup'
<1> SUFFICES ASSUME Inv, TypeOK', [Next]_vars
             PROVE  Registered' /\ NoLostWakeup'
  OBVIOUS
<1> USE DEF Inv, TypeOK, Registered, NoLostWakeup, OK, ERR, NPc, WPc
<1>1. ASSUME NEW n \in Notifiers, SetFlag(n)
      PROVE  Registered' /\ NoLostWakeup'
  <2>1. CASE ERR \in flag
    <3>1. flag # {} /\ npc' = npc
      BY <1>1, <2>1 DEF SetFlag
    <3> QED
      BY <1>1, <3>1 DEF SetFlag
  <2>2. CASE ERR \notin flag
    <3>1. npc'[n] = "notify"
      BY <1>1, <2>2 DEF SetFlag
    <3> QED
      BY <1>1, <3>1 DEF SetFlag
  <2> QED
    BY <2>1, <2>2
\* Both ways of waking the listener leave a suspended waiter notified.
<1>2. ASSUME NEW n \in Notifiers, NotifyEvent(n) \/ NotifyErr(n)
      PROVE  Registered' /\ NoLostWakeup'
  BY <1>2 DEF NotifyEvent, NotifyErr, WakeListener
<1>3. ASSUME NEW n \in Notifiers, DropHandle(n)
      PROVE  Registered' /\ NoLostWakeup'
  <2>1. CASE \A m \in Notifiers \ {n} : npc[m] = "gone"
    <3>1. npc'[n] = "err"
      BY <1>3, <2>1 DEF DropHandle
    <3> QED
      BY <1>3, <3>1, <2>1 DEF DropHandle
  <2>2. CASE ~ \A m \in Notifiers \ {n} : npc[m] = "gone"
    <3>1. flag' = flag /\ wpc' = wpc /\ listener' = listener
      BY <1>3, <2>2 DEF DropHandle
    <3>2. \A m \in Notifiers : npc[m] \in {"notify", "err"} => npc'[m] = npc[m]
      BY <1>3, <2>2 DEF DropHandle
    <3> QED
      BY <3>1, <3>2
  <2> QED
    BY <2>1, <2>2
<1>4. CASE Check \/ Recheck
  BY <1>4 DEF Check, Recheck, CheckFlag, EndWait, Answer
<1>5. CASE StartWait \/ Listen \/ Wake \/ Cancel \/ DropWaiter
  BY <1>5 DEF StartWait, Listen, Wake, Cancel, EndWait, DropWaiter
<1>6. CASE UNCHANGED vars
  BY <1>6 DEF vars
<1> QED
  BY <1>1, <1>2, <1>3, <1>4, <1>5, <1>6 DEF Next, NotifierStep, WaiterStep

\* A waiter suspended while the flag is set has been notified or is about to
\* be, however many threads notify and drop their handles (Waiter::wait,
\* Notifier::notify, EventInner::err).
THEOREM NoWakeupIsLost == Safety => []NoLostWakeup
<1>1. Inv /\ TypeOK' /\ [Next]_vars => Inv'
  BY InvStep DEF Inv
<1> QED
  BY <1>1, InvInit, TypeInvariant, PTL DEF Safety, Inv

----------------------------------------------------------------------------

\* A step of the event is a step of the one-token signal, or leaves it alone.
LEMMA SignalStep == TypeOK /\ [Next]_vars => [Sig!Next]_(Sig!vars)
<1> SUFFICES ASSUME TypeOK, [Next]_vars
             PROVE  Sig!Next \/ UNCHANGED Sig!vars
  OBVIOUS
<1> USE DEF TypeOK, Sig!vars, SigOf, WaitingOf, OK, ERR, NPc, WPc
<1>1. ASSUME NEW n \in Notifiers, SetFlag(n)
      PROVE  Sig!Post \/ UNCHANGED Sig!vars
  BY <1>1 DEF SetFlag, Sig!Post
<1>2. ASSUME NEW n \in Notifiers, NotifierStep(n)
      PROVE  UNCHANGED Sig!vars
  BY <1>2 DEF NotifierStep, NotifyEvent, NotifyErr
<1>3. ASSUME NEW n \in Notifiers, DropHandle(n)
      PROVE  Sig!Close \/ UNCHANGED Sig!vars
  BY <1>3 DEF DropHandle, Sig!Close
<1>4. CASE Check \/ Recheck
  <2>1. CASE flag # {}
    <3>1. wpc \in {"check", "recheck"} /\ wpc' = "idle" /\ flag' = flag \ {OK}
      BY <1>4, <2>1 DEF Check, Recheck, CheckFlag, EndWait, Answer
    <3>2. WaitingOf = "yes" /\ WaitingOf' = "no"
      BY <3>1
    <3>3. SigOf # "unset"
      BY <2>1
    <3>4. SigOf' = IF SigOf = "ok" THEN "unset" ELSE SigOf
      BY <3>1, <3>3
    <3>5. result' = SigOf
      BY <1>4, <2>1 DEF Check, Recheck, CheckFlag, EndWait, Answer
    <3> QED
      BY <3>2, <3>3, <3>4, <3>5 DEF Sig!Take, Sig!Next
  <2>2. CASE flag = {}
    <3>1. /\ wpc \in {"check", "recheck"} /\ wpc' \in {"listen", "await"}
          /\ flag' = flag /\ result' = result
      BY <1>4, <2>2 DEF Check, Recheck, CheckFlag, EndWait, Answer
    <3> QED
      BY <3>1
  <2> QED
    BY <2>1, <2>2
<1>5. CASE StartWait
  BY <1>5 DEF StartWait, Sig!StartWait, Sig!Next
<1>6. CASE Listen \/ Wake
  BY <1>6 DEF Listen, Wake
<1>7. CASE Cancel
  BY <1>7 DEF Cancel, EndWait, Sig!Abandon, Sig!Next
<1>8. CASE DropWaiter
  BY <1>8 DEF DropWaiter, Sig!Leave, Sig!Next
<1>9. CASE UNCHANGED vars
  BY <1>9 DEF vars
<1> QED
  BY <1>1, <1>2, <1>3, <1>4, <1>5, <1>6, <1>7, <1>8, <1>9
     DEF Next, WaiterStep, Sig!Next

\* Every run of the event, with its separate flag and listener, is a run of
\* the one-token signal the pipelines are written against.
THEOREM EventRefinesSignal == Safety => Sig!Safety
<1>1. Init => Sig!Init
  BY DEF Init, Sig!Init, SigOf, WaitingOf
<1> QED
  BY <1>1, SignalStep, TypeInvariant, PTL DEF Safety, Sig!Safety
=============================================================================
