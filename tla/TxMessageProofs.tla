--------------------------- MODULE TxMessageProofs ---------------------------
(***************************************************************************)
(* Theorems about what becomes of a message.  How many batches of its line *)
(* carry a message, in which order, and which of them were discarded,      *)
(* follows from the outcome of its send and from the number of batches     *)
(* that its sender wrote.                                                  *)
(***************************************************************************)
EXTENDS TxProofs

----------------------------------------------------------------------------
(* Senders and their messages *)

Failed(m) == res[m] \in {"timeout", "dropped"}
Sending(s) == pc[s] \notin {"idle", "failed"}

\* A sender counts the batches that it wrote of its message, and does not return
\* before they are as many as the message needs, unless it fails.
SendInv(s) ==
    /\ Sending(s) => res[msg[s]] = "sending"
    /\ pc[s] = "failed" => Failed(msg[s])
    /\ pc[s] \in {"idle", "lock"} => pieces[s] = 0
    /\ pc[s] \in {"lock", "acquire", "wait", "write", "failed"} => pieces[s] < FragsOf[msg[s]]
    /\ pc[s] = "moved" => pieces[s] <= FragsOf[msg[s]]
    /\ pc[s] \in {"unlock", "notify"} => pieces[s] = FragsOf[msg[s]]

\* A message has one sender; congestion and flags come from failed messages.
MsgInv ==
    /\ \A s \in Senders : SendInv(s)
    /\ \A s, t \in Senders : pc[s] # "idle" /\ pc[t] # "idle" /\ msg[s] = msg[t] => s = t
    /\ \A m \in flagged : Failed(m)
    /\ congested # {} => \E m \in Msgs : Failed(m)

\* How the outcome of a message may change in a step.
Turned(m) ==
    \/ res'[m] = res[m]
    \/ res[m] = "none" /\ res'[m] \in {"sending", "dropped"}
    \/ /\ res[m] = "sending"
       /\ \E s \in Senders :
            /\ Sending(s) /\ msg[s] = m
            /\ \/ res'[m] \in {"timeout", "dropped", "cancelled"} /\ pieces[s] < FragsOf[m]
               \/ res'[m] = "ok" /\ pieces[s] = FragsOf[m]
               \/ res'[m] = "closed"

\* A sender goes on with its message, or begins with one.
Follows(s) ==
    pc'[s] # "idle" =>
        \/ /\ pc[s] # "idle" /\ msg'[s] = msg[s] /\ (pc'[s] # "failed" => pc[s] # "failed")
           /\ ~Writes(s) => pieces'[s] = pieces[s]
        \/ /\ pc[s] = "idle" /\ msg'[s] \in Msgs /\ res[msg'[s]] = "none" /\ pieces'[s] = 0
           /\ ~Writes(s) /\ pc'[s] = "lock"

\* A sender s changes itself, flags its message and gives its lane congestion.
Alone(s) ==
    /\ \A t \in Senders : t # s => SameSender(t) /\ pieces'[t] = pieces[t]
    /\ \A m \in Msgs : res[m] # "none" /\ (pc[s] = "idle" \/ m # msg[s]) => res'[m] = res[m]

LEMMA SendTypes ==
    ASSUME TypeOK, NEW s \in Senders
    PROVE  /\ pc[s] \in SPc /\ pieces[s] \in Nat
           /\ pc[s] # "idle" => /\ msg[s] \in Msgs /\ FragsOf[msg[s]] \in Nat \ {0}
                                /\ CcOf[msg[s]] \in Ccs
           /\ \A x : /\ [pc EXCEPT ![s] = x][s] = x /\ [pieces EXCEPT ![s] = x][s] = x
                     /\ [msg EXCEPT ![s] = x][s] = x
           /\ \A x : \A t \in Senders : t # s =>
                /\ [pc EXCEPT ![s] = x][t] = pc[t] /\ [pieces EXCEPT ![s] = x][t] = pieces[t]
                /\ [msg EXCEPT ![s] = x][t] = msg[t]
           /\ \A x : \A m \in Msgs :
                /\ [res EXCEPT ![m] = x][m] = x
                /\ \A n \in Msgs : n # m => [res EXCEPT ![m] = x][n] = res[n]
<1>1. /\ pc \in [Senders -> SPc] /\ pieces \in [Senders -> Nat]
      /\ msg \in [Senders -> Msgs \cup {NoMsg}] /\ res \in [Msgs -> Results]
      /\ pc[s] # "idle" => msg[s] \in Msgs
  BY DEF TypeOK, SenderTypeOK
<1>2. \A m \in Msgs : FragsOf[m] \in Nat \ {0} /\ CcOf[m] \in Ccs
  BY MessageAssumption
<1> QED
  BY <1>1, <1>2

\* The steps of a sender, by what they do to its message.
Begins(s, m) ==
    /\ pc[s] = "idle" /\ res[m] = "none" /\ UNCHANGED <<flagged, congested, pieces>>
    /\ \/ res' = [res EXCEPT ![m] = "dropped"] /\ UNCHANGED <<pc, msg>>
       \/ /\ res' = [res EXCEPT ![m] = "sending"]
          /\ pc' = [pc EXCEPT ![s] = "lock"] /\ msg' = [msg EXCEPT ![s] = m]
GoesOn(s, n) ==
    /\ pc' = [pc EXCEPT ![s] = n] /\ n \notin {"idle", "lock", "failed"} /\ pc[s] # "failed"
    /\ UNCHANGED <<flagged, congested, res, msg>>
    /\ \/ /\ pc[s] \in {"lock", "acquire", "wait"} /\ n \in {"acquire", "wait", "write"}
          /\ UNCHANGED pieces
       \/ /\ pc[s] = "moved" /\ pieces[s] # FragsOf[msg[s]] /\ n = "acquire"
          /\ UNCHANGED pieces
       \/ pc[s] = "unlock" /\ n = "notify" /\ UNCHANGED pieces
       \/ /\ Writes(s) /\ pc[s] = "write" /\ n \in {"moved", "unlock"}
          /\ \/ UNCHANGED pieces /\ n = "moved"
             \/ pieces' = [pieces EXCEPT ![s] = 1] /\ FragsOf[msg[s]] = 1
             \/ pieces' = [pieces EXCEPT ![s] = @ + 1] /\ n = "moved"
Fails(s, r) ==
    /\ r \in {"timeout", "dropped"} /\ pc[s] \in {"lock", "acquire", "wait"} /\ Fail(s, r)
    /\ UNCHANGED <<congested, msg, pieces>>
Returns(s, r) ==
    /\ Return(s, r) /\ UNCHANGED flagged
    /\ \/ r = res[msg[s]] /\ pc[s] = "failed" /\ congested' = congested \cup {LaneOf(s)}
       \/ r = "cancelled" /\ pc[s] \in {"lock", "wait"} /\ UNCHANGED congested
       \/ r = "closed" /\ pc[s] \in {"moved", "notify"} /\ UNCHANGED congested
       \/ /\ r = "ok" /\ UNCHANGED congested
          /\ pc[s] = "notify" \/ (pc[s] = "moved" /\ pieces[s] = FragsOf[msg[s]])

LEMMA SenderKinds ==
    ASSUME LineInv, NEW s \in Senders,
           SenderStep(s) \/ Cancel(s) \/ (\E m \in Msgs : Send(s, m))
    PROVE  \/ \E m \in Msgs : Begins(s, m) /\ ~Writes(s)
           \/ \E n \in SPc : GoesOn(s, n)
           \/ \E r \in Results : (Fails(s, r) \/ Returns(s, r)) /\ ~Writes(s)
<1> USE DEF LineInv, IInv, statusVars
<1>a. pc[s] # "write" => ~Writes(s)
  BY DEF Writes, WriteAppend, WriteFull, WriteFrame, WriteFragment
<1>1. ASSUME NEW m \in Msgs, Send(s, m) PROVE Begins(s, m) /\ ~Writes(s)
  BY <1>1, <1>a DEF Send, Begins
<1>2. CASE Lock(s) \/ AcquireBooked(s) \/ AcquireFresh(s) \/ WaitRefilled(s) \/ Unlock(s)
  BY <1>2 DEF Lock, AcquireBooked, AcquireFresh, WaitRefilled, Unlock, GoesOn, SPc
<1>3. CASE LockTimeout(s)
  BY <1>3, <1>a DEF LockTimeout, Fails, Results
<1>4. CASE AcquireNone(s)
  BY <1>4, <1>a DEF AcquireNone, Fails, GoesOn, SPc, Results
<1>5. CASE WaitFails(s)
  BY <1>5, <1>a DEF WaitFails, Fails, Results
<1>6. CASE SetCongested(s)
  <2>1. res[msg[s]] \in Results
    BY <1>6, SendTypes DEF SetCongested, TypeOK, SenderTypeOK
  <2> QED
    BY <1>6, <1>a, <2>1 DEF SetCongested, Returns
<1>7. CASE Cancel(s)
  BY <1>7, <1>a DEF Cancel, Returns, Results
<1>8. CASE MovedNotify(s)
  BY <1>8, <1>a DEF MovedNotify, Continue, Done, Returns, GoesOn, SPc, Results
<1>9. CASE LateNotify(s)
  BY <1>9, <1>a DEF LateNotify, Returns, Results
<1>10. CASE Writes(s)
  <2>1. UNCHANGED <<congested, flagged, msg, res>>
    BY <1>10, Writing
  <2>2. PICK c \in Batch : Wrote(s, c)
    BY <1>10, Writing
  <2>3. /\ pc[s] = "write" /\ (Extended(s, c) \/ Started(s, c))
        /\ pc' = [pc EXCEPT ![s] = "moved"] \/ pc' = [pc EXCEPT ![s] = "unlock"]
    BY <2>2 DEF Wrote
  <2>4. pc'[s] = "moved" => pc' = [pc EXCEPT ![s] = "moved"]
    BY <2>3, SendTypes
  <2>5. \/ UNCHANGED pieces /\ pc'[s] = "moved"
        \/ pieces' = [pieces EXCEPT ![s] = 1] /\ FragsOf[msg[s]] = 1
        \/ pieces' = [pieces EXCEPT ![s] = @ + 1] /\ pc'[s] = "moved"
    BY <2>3 DEF Extended, Started
  <2>6. "moved" \in SPc /\ "unlock" \in SPc
    BY DEF SPc
  <2>7. pc'[s] = "moved" => GoesOn(s, "moved")
    BY <1>10, <2>1, <2>3, <2>4, <2>5 DEF GoesOn
  <2>8. pc'[s] # "moved" => GoesOn(s, "unlock")
    BY <1>10, <2>1, <2>3, <2>5, SendTypes DEF GoesOn
  <2> QED
    BY <2>6, <2>7, <2>8
<1> QED
  BY <1>1, <1>2, <1>3, <1>4, <1>5, <1>6, <1>7, <1>8, <1>9, <1>10 DEF SenderStep, Writes

LEMMA MsgBySenders ==
    ASSUME LineInv, MsgInv, NEW s \in Senders,
           SenderStep(s) \/ Cancel(s) \/ (\E m \in Msgs : Send(s, m))
    PROVE  /\ MsgInv' /\ Alone(s)
           /\ \A m \in Msgs : Turned(m)
           /\ \A t \in Senders : Follows(t)
<1> USE DEF LineInv, IInv
<1>a. pc[s] # "idle" => msg[s] \in Msgs
  BY SendTypes
<1>b. SendInv(s)
  BY DEF MsgInv
<1>d. /\ pc \in [Senders -> SPc] /\ msg \in [Senders -> Msgs \cup {NoMsg}]
      /\ pieces \in [Senders -> Nat] /\ res \in [Msgs -> Results]
  BY DEF TypeOK, SenderTypeOK
<1>c. SUFFICES /\ Alone(s) /\ SendInv(s)' /\ Follows(s)
               /\ \A m \in Msgs : Turned(m)
               /\ pc'[s] # "idle" => \/ pc[s] # "idle" /\ msg'[s] = msg[s]
                                     \/ msg'[s] \in Msgs /\ res[msg'[s]] = "none"
               /\ \A m \in flagged' : m \in flagged \/ (m \in Msgs /\ (Failed(m))')
               /\ congested' = congested \/ (\E m \in Msgs : (Failed(m))')
  <2> SUFFICES ASSUME Alone(s), SendInv(s)', Follows(s), \A m \in Msgs : Turned(m),
                      pc'[s] # "idle" => \/ pc[s] # "idle" /\ msg'[s] = msg[s]
                                         \/ msg'[s] \in Msgs /\ res[msg'[s]] = "none",
                      \A m \in flagged' : m \in flagged \/ (m \in Msgs /\ (Failed(m))'),
                      congested' = congested \/ (\E m \in Msgs : (Failed(m))')
               PROVE  MsgInv' /\ \A t \in Senders : Follows(t)
    OBVIOUS
  <2>0. \A m \in Msgs : Failed(m) => (Failed(m))'
    BY DEF Turned, Failed
  <2>1. ASSUME NEW t \in Senders, t # s PROVE SendInv(t)' /\ Follows(t)
    <3>1. pc'[t] = pc[t] /\ msg'[t] = msg[t] /\ pieces'[t] = pieces[t]
      BY <2>1 DEF Alone, SameSender
    <3>2. pc[t] # "idle" => msg[t] \in Msgs
      BY SendTypes
    <3>3. SendInv(t)
      BY DEF MsgInv
    <3>4. pc[t] # "idle" /\ pc[s] # "idle" => msg[t] # msg[s]
      BY <2>1 DEF MsgInv
    <3>5. Sending(t) => res'[msg[t]] = "sending"
      <4> SUFFICES ASSUME Sending(t) PROVE res'[msg[t]] = "sending"
        OBVIOUS
      <4>1. msg[t] \in Msgs /\ res[msg[t]] = "sending"
        BY <3>2, <3>3 DEF Sending, SendInv
      <4>2. pc[s] = "idle" \/ msg[t] # msg[s]
        BY <3>4 DEF Sending
      <4> QED
        BY <4>1, <4>2 DEF Alone
    <3>6. pc[t] = "failed" => (Failed(msg[t]))'
      BY <2>0, <3>1, <3>2, <3>3 DEF SendInv
    <3>7. SendInv(t)'
      BY <3>1, <3>3, <3>5, <3>6 DEF SendInv, Sending
    <3> QED
      BY <3>1, <3>7 DEF Follows
  <2>2. \A t \in Senders : SendInv(t)' /\ Follows(t)
    BY <2>1
  <2>3. ASSUME NEW t \in Senders, t # s
        PROVE  /\ pc'[t] = pc[t] /\ msg'[t] = msg[t]
               /\ pc[t] # "idle" => res[msg[t]] # "none" /\ msg[t] \in Msgs
    BY <2>3, SendTypes DEF Alone, SameSender, MsgInv, SendInv, Sending, Failed
  <2>4. \A t \in Senders : t # s /\ pc[t] # "idle" /\ pc'[s] # "idle" => msg'[s] # msg[t]
    BY <2>3 DEF MsgInv
  <2>5. \A t, u \in Senders : pc'[t] # "idle" /\ pc'[u] # "idle" /\ msg'[t] = msg'[u] => t = u
    <3> SUFFICES ASSUME NEW t \in Senders, NEW u \in Senders, pc'[t] # "idle",
                        pc'[u] # "idle", msg'[t] = msg'[u]
                 PROVE  t = u
      OBVIOUS
    <3>1. CASE t = s \/ u = s
      BY <2>3, <2>4, <3>1
    <3>2. CASE t # s /\ u # s
      BY <2>3, <3>2 DEF MsgInv
    <3> QED
      BY <3>1, <3>2
  <2>6. \A m \in flagged' : (Failed(m))'
    BY <2>0 DEF MsgInv, TypeOK, SharedTypeOK
  <2>7. congested' # {} => \E m \in Msgs : (Failed(m))'
    BY <2>0 DEF MsgInv
  <2> QED
    BY <2>2, <2>5, <2>6, <2>7 DEF MsgInv
\* The step of s itself.
<1>1. ASSUME NEW m \in Msgs, Begins(s, m), ~Writes(s)
      PROVE  /\ Alone(s) /\ SendInv(s)' /\ Follows(s)
             /\ \A k \in Msgs : Turned(k)
             /\ pc'[s] # "idle" => msg'[s] \in Msgs /\ res[msg'[s]] = "none"
             /\ flagged' = flagged /\ congested' = congested
  <2>1. pc[s] = "idle" /\ res[m] = "none" /\ pieces[s] = 0 /\ UNCHANGED <<flagged, congested, pieces>>
        /\ FragsOf[m] \in Nat \ {0}
    BY <1>1, <1>b, MessageAssumption DEF Begins, SendInv
  <2>2. CASE res' = [res EXCEPT ![m] = "dropped"] /\ UNCHANGED <<pc, msg>>
    <3>1. res'[m] = "dropped" /\ \A k \in Msgs : k # m => res'[k] = res[k]
      BY <1>d, <2>2
    <3> QED
      BY <2>1, <2>2, <3>1 DEF Alone, SameSender, SendInv, Sending, Follows, Turned
  <2>3. CASE /\ res' = [res EXCEPT ![m] = "sending"]
             /\ pc' = [pc EXCEPT ![s] = "lock"] /\ msg' = [msg EXCEPT ![s] = m]
    <3>1. /\ res'[m] = "sending" /\ \A k \in Msgs : k # m => res'[k] = res[k]
          /\ pc'[s] = "lock" /\ msg'[s] = m
          /\ \A t \in Senders : t # s => pc'[t] = pc[t] /\ msg'[t] = msg[t]
      BY <1>d, <2>3
    <3> QED
      BY <1>1, <2>1, <3>1 DEF Alone, SameSender, SendInv, Sending, Follows, Turned
  <2> QED
    BY <1>1, <2>1, <2>2, <2>3 DEF Begins
<1>2. ASSUME NEW n \in SPc, GoesOn(s, n)
      PROVE  /\ Alone(s) /\ SendInv(s)' /\ Follows(s)
             /\ \A k \in Msgs : Turned(k)
             /\ pc[s] # "idle" /\ msg' = msg
             /\ flagged' = flagged /\ congested' = congested
  <2>1. /\ pc'[s] = n /\ n \notin {"idle", "lock", "failed"}
        /\ pc[s] \notin {"idle", "failed"} /\ UNCHANGED <<flagged, congested, res, msg>>
        /\ \A t \in Senders : t # s => pc'[t] = pc[t]
    BY <1>2, <1>d DEF GoesOn
  <2>2. \A t \in Senders : t # s => pieces'[t] = pieces[t]
    BY <1>2, <1>d DEF GoesOn
  <2>3. ~Writes(s) => pieces'[s] = pieces[s]
    BY <1>2 DEF GoesOn
  <2>4. pieces[s] \in Nat /\ FragsOf[msg[s]] \in Nat \ {0}
    BY <2>1, SendTypes
  <2>5. SendInv(s)'
    <3>1. CASE /\ pieces'[s] = pieces[s]
               /\ \/ pc[s] \in {"lock", "acquire", "wait"} /\ n \in {"acquire", "wait", "write"}
                  \/ pc[s] = "moved" /\ pieces[s] # FragsOf[msg[s]] /\ n = "acquire"
                  \/ pc[s] = "unlock" /\ n = "notify"
                  \/ pc[s] = "write" /\ n = "moved"
      <4>1. /\ n \in {"acquire", "wait", "write"} => pieces[s] < FragsOf[msg[s]]
            /\ n = "moved" => pieces[s] <= FragsOf[msg[s]]
            /\ n \in {"unlock", "notify"} => pieces[s] = FragsOf[msg[s]]
        BY <1>b, <2>4, <3>1 DEF SendInv
      <4> QED
        BY <1>b, <2>1, <3>1, <4>1 DEF SendInv, Sending
    <3>2. CASE pieces' = [pieces EXCEPT ![s] = 1] /\ FragsOf[msg[s]] = 1 /\ n \in {"moved", "unlock"}
      BY <1>b, <2>1, <3>2, SendTypes DEF SendInv, Sending
    <3>3. CASE pieces' = [pieces EXCEPT ![s] = @ + 1] /\ n = "moved" /\ pc[s] = "write"
      BY <1>b, <2>1, <2>4, <3>3, SendTypes DEF SendInv, Sending
    <3> QED
      BY <1>2, <3>1, <3>2, <3>3 DEF GoesOn
  <2> QED
    BY <2>1, <2>2, <2>3, <2>5 DEF Alone, SameSender, Follows, Turned
<1>3. ASSUME NEW r \in Results, Fails(s, r), ~Writes(s)
      PROVE  /\ Alone(s) /\ SendInv(s)' /\ Follows(s)
             /\ \A k \in Msgs : Turned(k)
             /\ pc[s] # "idle" /\ msg' = msg
             /\ \A m \in flagged' : m \in flagged \/ (m \in Msgs /\ (Failed(m))')
             /\ congested' = congested
  <2>1. /\ pc'[s] = "failed" /\ pc[s] \in {"lock", "acquire", "wait"} /\ msg[s] \in Msgs
        /\ UNCHANGED <<congested, msg, pieces>>
        /\ \A t \in Senders : t # s => pc'[t] = pc[t]
        /\ res'[msg[s]] = r /\ \A k \in Msgs : k # msg[s] => res'[k] = res[k]
        /\ flagged' \subseteq flagged \cup {msg[s]} /\ r \in {"timeout", "dropped"}
    BY <1>3, <1>a, <1>d DEF Fails, Fail
  <2>2. Sending(s) /\ res[msg[s]] = "sending" /\ pieces[s] < FragsOf[msg[s]]
    BY <1>b, <2>1 DEF SendInv, Sending
  <2> QED
    BY <1>3, <2>1, <2>2 DEF Alone, SameSender, SendInv, Sending, Follows, Turned, Failed
<1>4. ASSUME NEW r \in Results, Returns(s, r), ~Writes(s)
      PROVE  /\ Alone(s) /\ SendInv(s)' /\ Follows(s)
             /\ \A k \in Msgs : Turned(k)
             /\ pc'[s] = "idle" /\ flagged' = flagged
             /\ congested' = congested \/ (\E m \in Msgs : (Failed(m))')
  <2>1. /\ pc'[s] = "idle" /\ pieces'[s] = 0 /\ msg[s] \in Msgs /\ pc[s] # "idle"
        /\ \A t \in Senders : t # s =>
                pc'[t] = pc[t] /\ msg'[t] = msg[t] /\ pieces'[t] = pieces[t]
        /\ res'[msg[s]] = r /\ \A k \in Msgs : k # msg[s] => res'[k] = res[k]
        /\ flagged' = flagged
    BY <1>4, <1>a, <1>d DEF Returns, Return
  <2>2. SendInv(s)'
    BY <2>1 DEF SendInv, Sending
  <2>3. CASE r = res[msg[s]] /\ pc[s] = "failed"
    <3>1. Failed(msg[s]) /\ (Failed(msg[s]) => \E m \in Msgs : (Failed(m))')
      BY <1>b, <2>1, <2>3 DEF SendInv, Failed
    <3> QED
      BY <2>1, <2>2, <2>3, <3>1 DEF Alone, SameSender, Follows, Turned
  <2>4. CASE pc[s] # "failed" /\ UNCHANGED congested
    <3>1. Sending(s) /\ res[msg[s]] = "sending"
      BY <1>b, <2>1, <2>4 DEF SendInv, Sending
    <3>2. \/ r = "cancelled" /\ pieces[s] < FragsOf[msg[s]]
          \/ r = "ok" /\ pieces[s] = FragsOf[msg[s]]
          \/ r = "closed"
      BY <1>4, <1>b, <2>4 DEF Returns, SendInv
    <3>3. \A k \in Msgs : Turned(k)
      BY <2>1, <3>1, <3>2 DEF Turned
    <3> QED
      BY <2>1, <2>2, <2>4, <3>3 DEF Alone, SameSender, Follows
  <2> QED
    BY <1>4, <2>3, <2>4 DEF Returns
<1> QED
  BY <1>1, <1>2, <1>3, <1>4, SenderKinds

LEMMA MsgStep ==
    ASSUME LineInv, MsgInv, [Next]_vars
    PROVE  /\ MsgInv' /\ (linkUp' => linkUp)
           /\ \A m \in Msgs : Turned(m)
           /\ \A t \in Senders : Follows(t)
<1> USE DEF LineInv, IInv
<1>1. ASSUME NEW s \in Senders, SenderStep(s) \/ Cancel(s) \/ (\E m \in Msgs : Send(s, m))
      PROVE  /\ MsgInv' /\ (linkUp' => linkUp)
             /\ \A m \in Msgs : Turned(m)
             /\ \A t \in Senders : Follows(t)
  <2>1. UNCHANGED linkUp
    BY <1>1, SenderMoves
  <2> QED
    BY <1>1, <2>1, MsgBySenders
<1>2. CASE \/ WriterStep \/ KeepAlive \/ KeepAliveWritten \/ SeeToken
           \/ StopDisable \/ StopStep \/ TaskStop \/ UNCHANGED vars
  <2>1. UNCHANGED <<pc, msg, pieces, res, flagged>> /\ (linkUp' => linkUp)
    BY <1>2, OtherLocks, OtherMoves
  <2>2. congested' \subseteq congested
    <3>1. PullSome \/ TryPullSome \/ UNCHANGED congested
      BY <1>2 DEF WriterStep, PullStep, WriteStep, DrainStep, FireRefill, PullCheck,
         PullBooked, SetBackoff, PullNone, Yield, SetFlush, TryFlush, ResetBackoff, Unpark,
         TryPullCheck, TryPullNone, Write, WriteFails, RefillHand, RefillDone, DrainLock,
         DrainFlush, DrainPull, DrainUnlock, DrainWrite, DrainWriteFails, DrainDone, Close,
         CloseLane, KeepAlive, KeepAliveWritten, SeeToken, StopDisable, StopStep, TaskStop,
         StopLock, StopFlush, StopCancel, vars, statusVars
    <3> QED
      BY <3>1 DEF PullSome, TryPullSome, TakeHead
  <2>3. \A m : Failed(m) => (Failed(m))'
    BY <2>1 DEF Failed
  <2>4. \A s \in Senders : SendInv(s)'
    BY <2>1 DEF MsgInv, SendInv, Sending, Failed
  <2>5. MsgInv'
    BY <2>1, <2>2, <2>3, <2>4 DEF MsgInv
  <2> QED
    BY <2>1, <2>5 DEF Turned, Follows
<1> QED
  BY <1>1, <1>2 DEF Next

----------------------------------------------------------------------------
(* What is in a batch *)

Has(b, m) == \E k \in 1..Len(b.msgs) : b.msgs[k] = m

\* The messages of a batch belong to its lane and have its congestion control; a
\* batch that is not a frame holds one message, which is larger than a batch.
Sound(b) ==
    /\ \A m \in Msgs : Has(b, m) =>
         PrioOf[m] = b.prio /\ CcOf[m] = b.cc /\ (FragsOf[m] = 1 <=> b.kind = "frame")
    /\ b.kind # "frame" => b.msgs = <<Head(b.msgs)>> /\ Head(b.msgs) \in Msgs
SoundInv == \A p \in Lanes : \A i \in Of(Line(p), Load(p)) : Sound(Line(p)[i])

\* What a write leaves in the last batch of the sender's line.
LEMMA HasWritten ==
    ASSUME LineInv, MsgInv, NEW s \in Senders, Writes(s), NEW c \in Batch, Wrote(s, c)
    PROVE  /\ c \in Load(LaneOf(s)) /\ LaneOf(s) \in Lanes
           /\ Last(s) \in Load(LaneOf(s)) <=> Extended(s, c)
           /\ \/ /\ c.msgs = Last(s).msgs /\ Extended(s, c) /\ UNCHANGED pieces
                 /\ \A m : Has(c, m) <=> Has(Last(s), m)
              \/ /\ pieces'[s] = pieces[s] + 1
                 /\ \A t \in Senders : t # s => pieces'[t] = pieces[t]
                 /\ \A m : Has(c, m) <=> (Extended(s, c) /\ Has(Last(s), m)) \/ m = msg[s]
                 /\ Extended(s, c) => pieces[s] = 0 /\ c.msgs = Append(Last(s).msgs, msg[s])
                 /\ Started(s, c) => c.msgs = <<msg[s]>>
<1> USE DEF LineInv, IInv
<1>1. /\ LaneOf(s) \in Lanes /\ msg[s] \in Msgs /\ Last(s) \in Batch
      /\ Last(s).prio = LaneOf(s)
  BY Writing
<1>2. c.prio = LaneOf(s) /\ c.msgs # <<>> /\ pc[s] = "write" /\ (Extended(s, c) \/ Started(s, c))
  BY DEF Wrote
<1>3. pieces \in [Senders -> Nat]
  BY DEF TypeOK, SenderTypeOK
<1>4. Last(s).msgs \in Seq(Msgs) /\ (Extended(s, c) => Last(s).msgs # <<>>)
      /\ (Started(s, c) => Last(s).msgs = <<>>)
  BY <1>1 DEF Batch, Extended, Started, FreshBatch
<1>5. c \in Load(LaneOf(s)) /\ (Last(s) \in Load(LaneOf(s)) <=> Extended(s, c))
  BY <1>1, <1>2, <1>4 DEF Load
<1>6. pieces[s] < FragsOf[msg[s]] /\ FragsOf[msg[s]] \in Nat \ {0}
  BY <1>1, <1>2, MessageAssumption DEF MsgInv, SendInv
<1>7. ASSUME NEW m, NEW ms \in Seq(Msgs)
      PROVE  /\ (\E k \in 1..Len(Append(ms, msg[s])) : Append(ms, msg[s])[k] = m) <=>
                    (\E k \in 1..Len(ms) : ms[k] = m) \/ m = msg[s]
             /\ (\E k \in 1..Len(<<msg[s]>>) : <<msg[s]>>[k] = m) <=> m = msg[s]
  <2>1. /\ Len(ms) \in Nat /\ Len(Append(ms, msg[s])) = Len(ms) + 1
        /\ Append(ms, msg[s])[Len(ms) + 1] = msg[s]
        /\ \A k \in 1..Len(ms) : Append(ms, msg[s])[k] = ms[k]
    BY <1>1, LenProperties, AppendProperties
  <2>2. \A k : k \in 1..(Len(ms) + 1) <=> k \in 1..Len(ms) \/ k = Len(ms) + 1
    BY <2>1
  <2>3. (\E k \in 1..Len(<<msg[s]>>) : <<msg[s]>>[k] = m) <=> m = msg[s]
    <3>1. Len(<<msg[s]>>) = 1 /\ <<msg[s]>>[1] = msg[s] /\ 1 \in 1..1 /\ \A k \in 1..1 : k = 1
      OBVIOUS
    <3> QED
      BY <3>1
  <2> QED
    BY <2>1, <2>2, <2>3
<1>8. CASE Extended(s, c)
  <2>1. CASE c.msgs = Last(s).msgs /\ UNCHANGED pieces
    BY <1>1, <1>5, <1>8, <2>1 DEF Has
  <2>2. CASE /\ c.msgs = Append(Last(s).msgs, msg[s]) /\ FragsOf[msg[s]] = 1
             /\ pieces' = [pieces EXCEPT ![s] = 1]
    <3>1. pieces[s] = 0
      BY <1>3, <1>6, <2>2
    <3>2. pieces'[s] = pieces[s] + 1 /\ \A t \in Senders : t # s => pieces'[t] = pieces[t]
      BY <1>3, <2>2, <3>1
    <3>3. \A m : Has(c, m) <=> Has(Last(s), m) \/ m = msg[s]
      BY <1>4, <1>7, <2>2 DEF Has
    <3>4. ~Started(s, c)
      BY <1>4, <1>8
    <3> QED
      BY <1>1, <1>5, <1>8, <2>2, <3>1, <3>2, <3>3, <3>4
  <2> QED
    BY <1>8, <2>1, <2>2 DEF Extended
<1>9. CASE Started(s, c) /\ ~Extended(s, c)
  <2>1. c.msgs = <<msg[s]>>
    BY <1>9 DEF Started
  <2>2. pieces'[s] = pieces[s] + 1 /\ \A t \in Senders : t # s => pieces'[t] = pieces[t]
    <3>1. CASE FragsOf[msg[s]] = 1 /\ pieces' = [pieces EXCEPT ![s] = 1]
      <4>1. pieces[s] = 0
        BY <1>3, <1>6, <3>1
      <4> QED
        BY <1>3, <3>1, <4>1
    <3>2. CASE pieces' = [pieces EXCEPT ![s] = @ + 1]
      BY <1>3, <3>2
    <3> QED
      BY <1>9, <3>1, <3>2 DEF Started
  <2>3. \A m : Has(c, m) <=> m = msg[s]
    BY <1>4, <1>7, <2>1 DEF Has
  <2> QED
    BY <1>1, <1>5, <1>9, <2>1, <2>2, <2>3
<1> QED
  BY <1>2, <1>8, <1>9

LEMMA SoundStep ==
    ASSUME LineInv, MsgInv, SoundInv, [Next]_vars PROVE SoundInv'
<1> USE DEF LineInv, IInv
<1>1. CASE \A s \in Senders : ~Writes(s)
  <2> SUFFICES ASSUME NEW p \in Lanes, NEW i \in Of(Line(p)', Load(p)) PROVE Sound(Line(p)'[i])
    BY DEF SoundInv
  <2>1. PICK f : Maps(f, Line(p)', Line(p), Load(p))
    BY <1>1, LinesThin DEF Fewer, Thinned
  <2> QED
    BY <2>1 DEF Maps, SoundInv
<1>2. ASSUME NEW s \in Senders, Writes(s) PROVE SoundInv'
  <2>1. PICK c \in Batch : Wrote(s, c)
    BY <1>2, Writing
  <2>2. /\ LaneOf(s) \in Lanes /\ msg[s] \in Msgs /\ Last(s) \in Batch
        /\ Last(s).prio = LaneOf(s) /\ c.prio = LaneOf(s) /\ (Extended(s, c) \/ Started(s, c))
        /\ LaneOf(s) = PrioOf[msg[s]]
    BY <1>2, <2>1, Writing DEF Wrote, LaneOf
  <2>3. Last(s).kind = "frame"
    BY <1>2, <2>2, Writing DEF FilledInv, Last
  <2>4. Extended(s, c) => Sound(Last(s))
    <3> SUFFICES ASSUME Extended(s, c), NEW p \in Lanes, p = LaneOf(s) PROVE Sound(Last(s))
      BY <2>2
    <3>1. Grown(Line(p)', Line(p), Load(p), Len(Line(p)), Last(s), c) /\ Last(s) \in Load(p)
      BY <1>2, <2>1, LineGrows, HasWritten
    <3>2. Len(Line(p)) \in Of(Line(p), Load(p)) /\ Line(p)[Len(Line(p))] = Last(s)
      BY <3>1 DEF Grown
    <3> QED
      BY <3>2 DEF SoundInv
  <2>5. Sound(c)
    <3>1. ASSUME NEW m \in Msgs, Has(c, m)
          PROVE  PrioOf[m] = c.prio /\ CcOf[m] = c.cc /\ (FragsOf[m] = 1 <=> c.kind = "frame")
      <4>1. CASE Extended(s, c) /\ Has(Last(s), m)
        BY <2>2, <2>4, <4>1 DEF Sound, Extended
      <4>2. CASE m = msg[s] /\ Extended(s, c) /\ ~Has(Last(s), m)
        <5>1. CcOf[msg[s]] = Last(s).cc /\ FragsOf[msg[s]] = 1
          BY <3>1, <4>2 DEF Extended, Has
        <5> QED
          BY <2>2, <2>3, <4>2, <5>1 DEF Extended
      <4>3. CASE m = msg[s] /\ Started(s, c)
        <5>1. FragKind(s) # "frame"
          BY DEF FragKind
        <5> QED
          BY <2>2, <4>3, <5>1 DEF Started
      <4> QED
        BY <1>2, <2>1, <2>2, <3>1, <4>1, <4>2, <4>3, HasWritten
    <3>2. c.kind # "frame" => c.msgs = <<Head(c.msgs)>> /\ Head(c.msgs) \in Msgs
      <4>1. c.kind # "frame" => c.msgs = <<msg[s]>> /\ Head(<<msg[s]>>) = msg[s]
        BY <2>2, <2>3 DEF Extended, Started
      <4> QED
        BY <2>2, <4>1
    <3> QED
      BY <3>1, <3>2 DEF Sound
  <2>6. ASSUME NEW p \in Lanes, NEW i \in Of(Line(p)', Load(p)) PROVE Sound(Line(p)'[i])
    <3>1. CASE p # LaneOf(s)
      BY <1>2, <2>1, <3>1, WriteReplaces DEF SoundInv
    <3>2. CASE p = LaneOf(s)
      <4>1. Grown(Line(p)', Line(p), Load(p), Len(Line(p)), Last(s), c)
        BY <1>2, <2>1, <3>2, LineGrows
      <4>2. (i \in Of(Line(p), Load(p)) /\ Line(p)'[i] = Line(p)[i]) \/ Line(p)'[i] = c
        BY <4>1 DEF Grown
      <4> QED
        BY <2>5, <4>2 DEF SoundInv
    <3> QED
      BY <3>1, <3>2
  <2> QED
    BY <2>6 DEF SoundInv
<1> QED
  BY <1>1, <1>2

----------------------------------------------------------------------------
(* Fragments *)

\* A message that was not begun, or of which nothing is written, is in no batch.
Absent(m) == \A p \in Lanes : \A i \in Of(Line(p), Load(p)) : ~Has(Line(p)[i], m)
NewInv ==
    /\ \A m \in Msgs : res[m] = "none" => Absent(m)
    /\ \A s \in Senders : pc[s] # "idle" /\ pieces[s] = 0 => Absent(msg[s])

LEMMA NewStep ==
    ASSUME LineInv, MsgInv, NewInv, [Next]_vars PROVE NewInv'
<1> USE DEF LineInv, IInv
<1>a. /\ \A m \in Msgs : Turned(m)
      /\ \A t \in Senders : Follows(t)
      /\ \A t \in Senders : pc[t] # "idle" => msg[t] \in Msgs
  BY MsgStep, SendTypes
<1>1. CASE \A s \in Senders : ~Writes(s)
  <2>1. ASSUME NEW m, Absent(m) PROVE Absent(m)'
    <3> SUFFICES ASSUME NEW p \in Lanes, NEW i \in Of(Line(p)', Load(p))
                 PROVE  ~Has(Line(p)'[i], m)
      BY DEF Absent
    <3>1. PICK f : Maps(f, Line(p)', Line(p), Load(p))
      BY <1>1, LinesThin DEF Fewer, Thinned
    <3> QED
      BY <2>1, <3>1 DEF Maps, Absent
  <2>2. ASSUME NEW m \in Msgs, res'[m] = "none" PROVE Absent(m)'
    BY <1>a, <2>1, <2>2 DEF Turned, NewInv
  <2>3. ASSUME NEW t \in Senders, pc'[t] # "idle", pieces'[t] = 0
        PROVE  \A m : m = msg'[t] => Absent(m)'
    <3>1. CASE pc[t] # "idle" /\ msg'[t] = msg[t] /\ pieces'[t] = pieces[t]
      BY <2>1, <2>3, <3>1 DEF NewInv
    <3>2. CASE msg'[t] \in Msgs /\ res[msg'[t]] = "none"
      BY <2>1, <3>2 DEF NewInv
    <3> QED
      BY <1>1, <1>a, <2>3, <3>1, <3>2 DEF Follows
  <2>4. \A t \in Senders : pc'[t] # "idle" /\ pieces'[t] = 0 => Absent(msg[t])'
    BY <2>3 DEF Absent
  <2> QED
    BY <2>2, <2>4 DEF NewInv
<1>2. ASSUME NEW s \in Senders, Writes(s) PROVE NewInv'
  <2>1. PICK c \in Batch : Wrote(s, c)
    BY <1>2, Writing
  <2>2. pc[s] = "write" /\ UNCHANGED <<msg, res>> /\ msg[s] \in Msgs /\ res[msg[s]] = "sending"
    BY <1>2, <2>1, Writing DEF Wrote, MsgInv, SendInv, Sending
  <2>3. ASSUME NEW m, Absent(m), Has(c, m) => Extended(s, c) /\ Has(Last(s), m)
        PROVE  Absent(m)'
    <3> SUFFICES ASSUME NEW p \in Lanes, NEW i \in Of(Line(p)', Load(p))
                 PROVE  ~Has(Line(p)'[i], m)
      BY DEF Absent
    <3>1. CASE p # LaneOf(s)
      BY <1>2, <2>1, <2>3, <3>1, WriteReplaces DEF Absent
    <3>2. CASE p = LaneOf(s)
      <4>1. Grown(Line(p)', Line(p), Load(p), Len(Line(p)), Last(s), c)
        BY <1>2, <2>1, <3>2, LineGrows
      <4>2. (i \in Of(Line(p), Load(p)) /\ Line(p)'[i] = Line(p)[i]) \/ Line(p)'[i] = c
        BY <4>1 DEF Grown
      <4>3. Extended(s, c) => ~Has(Last(s), m)
        <5>1. Extended(s, c) => Last(s) \in Load(p)
          BY <1>2, <2>1, <3>2, HasWritten
        <5>2. Last(s) \in Load(p) => Len(Line(p)) \in Of(Line(p), Load(p))
              /\ Line(p)[Len(Line(p))] = Last(s)
          BY <4>1 DEF Grown
        <5> QED
          BY <2>3, <5>1, <5>2 DEF Absent
      <4> QED
        BY <2>3, <4>2, <4>3 DEF Absent
    <3> QED
      BY <3>1, <3>2
  <2>4. \A m : Absent(m) /\ m # msg[s] => Absent(m)'
    BY <1>2, <2>1, <2>3, HasWritten
  <2>5. ASSUME NEW t \in Senders, pc'[t] # "idle", pieces'[t] = 0 PROVE Absent(msg[t])'
    <3>1. pc[t] # "idle" /\ \A u \in Senders : u # s => pc'[u] = pc[u]
      <4>1. \A u \in Senders : u # s => pc'[u] = pc[u]
        BY <2>1 DEF Wrote, TypeOK, SenderTypeOK
      <4> QED
        BY <2>2, <2>5, <4>1
    <3>2. CASE pieces'[s] = pieces[s] + 1 /\ \A u \in Senders : u # s => pieces'[u] = pieces[u]
      <4>1. pieces[s] \in Nat
        BY SendTypes
      <4>2. t # s /\ msg[t] # msg[s] /\ pieces[t] = 0
        BY <2>2, <2>5, <3>1, <3>2, <4>1 DEF MsgInv
      <4>3. Absent(msg[t])
        BY <3>1, <4>2 DEF NewInv
      <4> QED
        BY <2>2, <2>4, <4>2, <4>3 DEF Absent
    <3>3. CASE /\ Extended(s, c) /\ UNCHANGED pieces
               /\ \A m : Has(c, m) <=> Has(Last(s), m)
      <4>1. Absent(msg[t])
        BY <2>5, <3>1, <3>3 DEF NewInv
      <4>2. \A m : Absent(m) => Absent(m)'
        BY <2>3, <3>3
      <4> QED
        BY <2>2, <4>1, <4>2 DEF Absent
    <3> QED
      BY <1>2, <2>1, <3>2, <3>3, HasWritten
  <2>6. ASSUME NEW m \in Msgs, res'[m] = "none" PROVE Absent(m)'
    BY <2>2, <2>4, <2>6 DEF NewInv
  <2> QED
    BY <2>5, <2>6 DEF NewInv
<1> QED
  BY <1>1, <1>2

\* A message and the batch that holds nothing else.
LEMMA HasOnly == \A b, m : b.msgs = <<m>> => Has(b, m)
<1> SUFFICES ASSUME NEW b, NEW m, b.msgs = <<m>> PROVE Has(b, m)
  OBVIOUS
<1>1. Len(<<m>>) = 1 /\ <<m>>[1] = m /\ 1 \in 1..1
  OBVIOUS
<1> QED
  BY <1>1 DEF Has

\* Between two batches of a fragmented message there is nothing else in the
\* line, and while its sender goes on, nothing comes after the last of them.
TogetherIn(q, F) ==
    \A i, j \in Of(q, F) : i < j /\ q[i].kind # "frame" /\ q[j].msgs = q[i].msgs =>
        /\ q[j].kind # "first" /\ q[i].kind # "last"
        /\ \A k \in Of(q, F) : i < k /\ k < j => q[k].msgs = q[i].msgs
OpenIn(q, F, m) ==
    \A i \in Of(q, F) : q[i].msgs = <<m>> =>
        /\ q[i].kind # "last"
        /\ \A k \in Of(q, F) : i < k => q[k].msgs = <<m>>
Opens(s) ==
    /\ pc[s] \in {"acquire", "wait", "write", "moved"}
    /\ FragsOf[msg[s]] > 1 /\ pieces[s] < FragsOf[msg[s]]
TogetherInv == \A p \in Lanes : TogetherIn(Line(p), Load(p))
OpenInv ==
    \A s \in Senders : Opens(s) =>
        \A p \in Lanes : p = LaneOf(s) => OpenIn(Line(p), Load(p), msg[s])

LEMMA ThinnedTogether ==
    ASSUME NEW q, NEW r, NEW F, Thinned(r, q, F)
    PROVE  /\ TogetherIn(q, F) => TogetherIn(r, F)
           /\ \A m : OpenIn(q, F, m) => OpenIn(r, F, m)
<1>1. PICK f : Maps(f, r, q, F)
  BY DEF Thinned
<1>2. \A i \in Of(r, F) : f[i] \in Of(q, F) /\ q[f[i]] = r[i]
  BY <1>1 DEF Maps
<1>3. \A i, j \in Of(r, F) : i < j => f[i] < f[j]
  BY <1>1 DEF Maps
<1>4. TogetherIn(q, F) => TogetherIn(r, F)
  BY <1>2, <1>3 DEF TogetherIn
<1>5. \A m : OpenIn(q, F, m) => OpenIn(r, F, m)
  BY <1>2, <1>3 DEF OpenIn
<1> QED
  BY <1>4, <1>5

\* The same for a batch that was only moved on, and for a new one.
LEMMA GrownTogether ==
    ASSUME NEW q, NEW r, NEW F, NEW n, NEW b, NEW c, Grown(r, q, F, n, b, c)
    PROVE  /\ b \in F /\ c.msgs = b.msgs /\ c.kind = b.kind =>
                /\ TogetherIn(q, F) => TogetherIn(r, F)
                /\ \A m : OpenIn(q, F, m) => OpenIn(r, F, m)
           /\ \A m : /\ c.msgs = <<m>> /\ c.kind # "last" /\ OpenIn(q, F, m)
                     => OpenIn(r, F, m)
<1>1. /\ n \in Nat
      /\ \A i \in Of(r, F) : i \in Int /\ (i < n \/ i = n)
      /\ \A i \in Of(r, F) : i < n => i \in Of(q, F) /\ r[i] = q[i]
      /\ \A i \in Of(r, F) : i = n => r[i] = c
  BY DEF Grown, Of
<1>2. ASSUME b \in F, c.msgs = b.msgs, c.kind = b.kind
      PROVE  /\ TogetherIn(q, F) => TogetherIn(r, F)
             /\ \A m : OpenIn(q, F, m) => OpenIn(r, F, m)
  <2>1. \A i \in Of(r, F) : i \in Of(q, F) /\ r[i].msgs = q[i].msgs /\ r[i].kind = q[i].kind
    BY <1>1, <1>2 DEF Grown
  <2> QED
    BY <2>1 DEF TogetherIn, OpenIn
<1>3. ASSUME NEW m, c.msgs = <<m>>, c.kind # "last", OpenIn(q, F, m) PROVE OpenIn(r, F, m)
  BY <1>1, <1>3 DEF OpenIn
<1> QED
  BY <1>2, <1>3

\* A new batch of a fragmented message follows the others of its message, or is
\* the first.
LEMMA GrownApart ==
    ASSUME NEW q, NEW r, NEW F, NEW n, NEW b, NEW c, Grown(r, q, F, n, b, c),
           TogetherIn(q, F), NEW m, c.msgs = <<m>>,
           c.kind = "first" => \A i \in Of(q, F) : q[i].msgs # <<m>>,
           OpenIn(q, F, m)
    PROVE  TogetherIn(r, F)
<1>1. /\ n \in Nat
      /\ \A i \in Of(r, F) : i \in Int /\ (i < n \/ i = n)
      /\ \A i \in Of(r, F) : i < n => i \in Of(q, F) /\ r[i] = q[i]
      /\ \A i \in Of(r, F) : i = n => r[i] = c
  BY DEF Grown, Of
<1> SUFFICES ASSUME NEW i \in Of(r, F), NEW j \in Of(r, F), i < j, r[i].kind # "frame",
                    r[j].msgs = r[i].msgs
             PROVE  /\ r[j].kind # "first" /\ r[i].kind # "last"
                    /\ \A k \in Of(r, F) : i < k /\ k < j => r[k].msgs = r[i].msgs
  BY DEF TogetherIn
<1>2. i < n /\ i \in Of(q, F) /\ r[i] = q[i]
  BY <1>1
<1>3. \A k \in Of(r, F) : k < j => k \in Of(q, F) /\ r[k] = q[k]
  BY <1>1
<1>4. CASE j < n
  <2>1. j \in Of(q, F) /\ r[j] = q[j]
    BY <1>1, <1>4
  <2> QED
    BY <1>2, <1>3, <2>1 DEF TogetherIn
<1>5. CASE j = n
  <2>1. r[j] = c /\ q[i].msgs = <<m>>
    BY <1>1, <1>2, <1>5
  <2> QED
    BY <1>2, <1>3, <2>1 DEF OpenIn
<1> QED
  BY <1>1, <1>4, <1>5

\* A batch that is a frame: no other that is not one holds the same messages.
LEMMA GrownFrame ==
    ASSUME NEW q, NEW r, NEW F, NEW n, NEW b, NEW c, Grown(r, q, F, n, b, c),
           TogetherIn(q, F),
           \A i \in Of(r, F) : r[i].msgs = c.msgs => r[i].kind = "frame"
    PROVE  TogetherIn(r, F)
<1>1. /\ n \in Nat
      /\ \A i \in Of(r, F) : i \in Int /\ (i < n \/ i = n)
      /\ \A i \in Of(r, F) : i < n => i \in Of(q, F) /\ r[i] = q[i]
      /\ \A i \in Of(r, F) : i = n => r[i] = c
  BY DEF Grown, Of
<1> SUFFICES ASSUME NEW i \in Of(r, F), NEW j \in Of(r, F), i < j, r[i].kind # "frame",
                    r[j].msgs = r[i].msgs
             PROVE  /\ r[j].kind # "first" /\ r[i].kind # "last"
                    /\ \A k \in Of(r, F) : i < k /\ k < j => r[k].msgs = r[i].msgs
  BY DEF TogetherIn
<1>2. i < n /\ i \in Of(q, F) /\ r[i] = q[i]
  BY <1>1
<1>3. \A k \in Of(r, F) : k < j => k \in Of(q, F) /\ r[k] = q[k]
  BY <1>1
<1>4. j < n /\ j \in Of(q, F) /\ r[j] = q[j]
  BY <1>1
<1> QED
  BY <1>2, <1>3, <1>4 DEF TogetherIn

\* Batches that hold the same messages, one of them being a frame, both are.
LEMMA SoundFrames ==
    ASSUME NEW a, NEW b, Sound(a), Sound(b), a.msgs = b.msgs, b.kind = "frame"
    PROVE  a.kind = "frame"
<1> SUFFICES ASSUME a.kind # "frame" PROVE FALSE
  OBVIOUS
<1>1. PICK x \in Msgs : a.msgs = <<x>>
  BY DEF Sound
<1>2. Has(a, x) /\ Has(b, x)
  BY <1>1, HasOnly
<1> QED
  BY <1>2 DEF Sound

\* A message of which nothing is in a line is open there.
LEMMA AbsentOpen ==
    \A m, p : p \in Lanes /\ Absent(m) => /\ OpenIn(Line(p), Load(p), m)
                                          /\ \A i \in Of(Line(p), Load(p)) : Line(p)[i].msgs # <<m>>
<1> SUFFICES ASSUME NEW m, NEW p \in Lanes, Absent(m)
             PROVE  \A i \in Of(Line(p), Load(p)) : Line(p)[i].msgs # <<m>>
  BY DEF OpenIn
<1> QED
  BY HasOnly DEF Absent

LEMMA TogetherStep ==
    ASSUME LineInv, MsgInv, SoundInv, NewInv, TogetherInv, OpenInv, [Next]_vars
    PROVE  TogetherInv' /\ OpenInv'
<1> USE DEF LineInv, IInv
<1>a. /\ SoundInv' /\ NewInv' /\ LineInv'
      /\ \A t \in Senders : Follows(t)
  BY MsgStep, SoundStep, NewStep, LineStep
<1>b. \A m \in Msgs : FragsOf[m] \in Nat \ {0}
  BY MessageAssumption
<1>c. \A s \in Senders : pieces[s] \in Nat /\ (pc[s] # "idle" => msg[s] \in Msgs)
  BY SendTypes
<1>1. CASE \A s \in Senders : ~Writes(s)
  <2>1. ASSUME NEW p \in Lanes
        PROVE  /\ TogetherIn(Line(p)', Load(p))
               /\ \A m : OpenIn(Line(p), Load(p), m) => OpenIn(Line(p)', Load(p), m)
    <3> DEFINE q == Line(p)
               r == Line(p)'
    <3>1. Thinned(r, q, Load(p)) /\ TogetherIn(q, Load(p))
      BY <1>1, LinesThin DEF Fewer, TogetherInv
    <3> HIDE DEF q, r
    <3>2. /\ TogetherIn(r, Load(p))
          /\ \A m : OpenIn(q, Load(p), m) => OpenIn(r, Load(p), m)
      BY <3>1, ThinnedTogether
    <3> QED
      BY <3>2 DEF q, r
  <2>2. ASSUME NEW t \in Senders, Opens(t)', NEW p \in Lanes, p = LaneOf(t)'
        PROVE  OpenIn(Line(p)', Load(p), msg'[t])
    <3>1. /\ pc'[t] \in {"acquire", "wait", "write", "moved"}
          /\ FragsOf[msg'[t]] > 1 /\ pieces'[t] < FragsOf[msg'[t]]
      BY <2>2 DEF Opens
    <3>2. pc[t] \notin {"idle", "failed"} /\ msg'[t] = msg[t] /\ pieces'[t] = pieces[t]
      BY <1>1, <1>a, <3>1 DEF Follows
    <3>3. pc[t] \in SPc /\ SendInv(t)
      BY SendTypes DEF MsgInv
    <3>4. CASE pc[t] \in {"acquire", "wait", "write", "moved"}
      <4>1. OpenIn(Line(p), Load(p), msg[t])
        BY <2>2, <3>1, <3>2, <3>4 DEF OpenInv, Opens, LaneOf
      <4> QED
        BY <2>1, <3>2, <4>1
    <3>5. CASE pc[t] = "lock"
      <4>1. pieces[t] = 0 /\ Absent(msg[t])
        BY <3>3, <3>5 DEF SendInv, NewInv
      <4> QED
        BY <2>1, <3>2, <4>1, AbsentOpen
    <3>6. CASE pc[t] \in {"unlock", "notify"}
      BY <1>b, <1>c, <3>1, <3>2, <3>3, <3>6 DEF SendInv
    <3> QED
      BY <3>2, <3>3, <3>4, <3>5, <3>6 DEF SPc
  <2>3. OpenInv'
    BY <2>2 DEF OpenInv
  <2> QED
    BY <2>1, <2>3 DEF TogetherInv
<1>2. ASSUME NEW s \in Senders, Writes(s) PROVE TogetherInv' /\ OpenInv'
  <2>1. PICK c \in Batch : Wrote(s, c)
    BY <1>2, Writing
  <2>2. /\ LaneOf(s) \in Lanes /\ msg[s] \in Msgs /\ UNCHANGED msg
        /\ pc[s] = "write" /\ (Extended(s, c) \/ Started(s, c)) /\ SendInv(s)
        /\ c \in Load(LaneOf(s)) /\ (Last(s) \in Load(LaneOf(s)) <=> Extended(s, c))
    BY <1>2, <2>1, Writing, HasWritten DEF Wrote, MsgInv
  <2>3. /\ pieces[s] < FragsOf[msg[s]] /\ FragsOf[msg[s]] \in Nat \ {0} /\ pieces[s] \in Nat
        /\ FragsOf[msg[s]] > 1 => Opens(s)
    BY <1>b, <1>c, <2>2 DEF SendInv, Opens
  \* Old and new batches of the sender's lane.
  <2>4. ASSUME NEW p \in Lanes, p = LaneOf(s)
        PROVE  /\ TogetherIn(Line(p)', Load(p))
               /\ Opens(s)' => OpenIn(Line(p)', Load(p), msg[s])
    <3> DEFINE q == Line(p)
               r == Line(p)'
               F == Load(p)
               n == Len(Line(p))
               m == msg[s]
    <3>1. /\ Grown(r, q, F, n, Last(s), c) /\ TogetherIn(q, F)
          /\ \A i \in Of(r, F) : Sound(r[i])
      BY <1>2, <1>a, <2>1, <2>4, LineGrows DEF TogetherInv, SoundInv
    <3>2. FragsOf[m] > 1 => OpenIn(q, F, m)
      BY <2>3, <2>4 DEF OpenInv
    <3>3. pieces[s] = 0 => \A i \in Of(q, F) : q[i].msgs # <<m>>
      BY <2>2, AbsentOpen DEF NewInv
    <3>4. c \in F /\ (Last(s) \in F <=> Extended(s, c))
      BY <2>2, <2>4
    <3> HIDE DEF q, r, F, n
    <3>5. Sound(c)
      BY <3>1, <3>4 DEF Grown
    <3>6. CASE c.msgs = Last(s).msgs /\ Extended(s, c) /\ UNCHANGED pieces
      <4>1. Last(s) \in F /\ c.kind = Last(s).kind
        BY <3>4, <3>6 DEF Extended
      <4>2. TogetherIn(r, F) /\ \A x : OpenIn(q, F, x) => OpenIn(r, F, x)
        BY <3>1, <3>6, <4>1, GrownTogether
      <4>3. Opens(s)' => FragsOf[m] > 1
        BY <2>2 DEF Opens
      <4> QED
        BY <3>2, <4>2, <4>3 DEF r, F
    <3>7. CASE pieces'[s] = pieces[s] + 1 /\ c.kind = "frame"
      <4>1. \A i \in Of(r, F) : r[i].msgs = c.msgs => r[i].kind = "frame"
        BY <3>1, <3>5, <3>7, SoundFrames
      <4>2. TogetherIn(r, F)
        BY <3>1, <4>1, GrownFrame
      <4>3. FragsOf[m] = 1
        <5>1. Has(c, m)
          BY <1>2, <2>1, <2>3, <3>7, HasWritten
        <5> QED
          BY <2>2, <3>5, <3>7, <5>1 DEF Sound
      <4>4. ~(Opens(s)')
        BY <2>2, <4>3 DEF Opens
      <4> QED
        BY <4>2, <4>4 DEF r, F
    <3>8. CASE pieces'[s] = pieces[s] + 1 /\ c.kind # "frame"
      <4>1. c.msgs = <<m>> /\ c.kind = FragKind(s) /\ FragsOf[m] > 1
        <5>1. Has(c, m)
          BY <1>2, <2>1, <2>3, <3>8, HasWritten
        <5>2. FragsOf[m] # 1
          BY <2>2, <3>5, <3>8, <5>1 DEF Sound
        <5>3. ~Extended(s, c)
          <6>1. Extended(s, c) => UNCHANGED pieces \/ FragsOf[m] = 1
            BY DEF Extended
          <6> QED
            BY <2>3, <3>8, <5>2, <6>1
        <5> QED
          BY <2>2, <5>2, <5>3 DEF Started
      <4>2. c.kind = "first" => \A i \in Of(q, F) : q[i].msgs # <<m>>
        BY <3>3, <4>1 DEF FragKind
      <4>3. OpenIn(q, F, m)
        BY <3>2, <4>1
      <4>4. TogetherIn(r, F)
        BY <3>1, <4>1, <4>2, <4>3, GrownApart
      <4>5. Opens(s)' => c.kind # "last"
        <5>1. Opens(s)' => pieces[s] + 1 < FragsOf[m]
          BY <2>2, <3>8 DEF Opens
        <5> QED
          BY <2>3, <4>1, <5>1 DEF FragKind
      <4>6. Opens(s)' => OpenIn(r, F, m)
        BY <3>1, <4>1, <4>3, <4>5, GrownTogether
      <4> QED
        BY <4>4, <4>6 DEF r, F
    <3> QED
      BY <1>2, <2>1, <3>6, <3>7, <3>8, HasWritten
  <2>5. ASSUME NEW p \in Lanes, p # LaneOf(s) PROVE Line(p)' = Line(p)
    BY <1>2, <2>1, <2>5, WriteReplaces
  <2>6. TogetherInv'
    <3>1. ASSUME NEW p \in Lanes PROVE TogetherIn(Line(p)', Load(p))
      <4>1. CASE p = LaneOf(s)
        BY <2>4, <4>1
      <4>2. CASE p # LaneOf(s)
        BY <2>5, <4>2 DEF TogetherInv
      <4> QED
        BY <4>1, <4>2
    <3> QED
      BY <3>1 DEF TogetherInv
  <2>7. ASSUME NEW t \in Senders, t # s, Opens(t)', NEW p \in Lanes, p = LaneOf(t)
        PROVE  OpenIn(Line(p)', Load(p), msg[t])
    <3>1. pc'[t] = pc[t] /\ pieces'[t] = pieces[t]
      <4>1. pc'[t] = pc[t]
        BY <2>1, <2>7 DEF Wrote, TypeOK, SenderTypeOK
      <4> QED
        BY <1>2, <2>1, <2>7, <4>1, HasWritten
    <3>2. Opens(t)
      BY <2>2, <2>7, <3>1 DEF Opens
    <3>3. p # LaneOf(s)
      BY <2>2, <2>7, <3>2 DEF Opens, LockInv, SenderInv, Holding
    <3> QED
      BY <2>5, <2>7, <3>2, <3>3 DEF OpenInv
  <2>8. OpenInv'
    <3>1. ASSUME NEW t \in Senders, Opens(t)', NEW p \in Lanes, p = LaneOf(t)'
          PROVE  OpenIn(Line(p)', Load(p), msg'[t])
      <4>1. p = LaneOf(t) /\ msg'[t] = msg[t]
        BY <2>2, <3>1 DEF LaneOf
      <4>2. CASE t = s
        BY <2>4, <3>1, <4>1, <4>2
      <4>3. CASE t # s
        BY <2>7, <3>1, <4>1, <4>3
      <4> QED
        BY <4>2, <4>3
    <3> QED
      BY <3>1 DEF OpenInv
  <2> QED
    BY <2>6, <2>8
<1> QED
  BY <1>1, <1>2

FragInv == LineInv /\ MsgInv /\ SoundInv /\ NewInv /\ TogetherInv /\ OpenInv

LEMMA FragInit == Init => FragInv
<1> SUFFICES ASSUME Init PROVE FragInv
  OBVIOUS
<1>1. LineInv /\ \A p \in Lanes : \A F : Of(Line(p), F) = {}
  BY NoLoadsAtFirst
<1>2. MsgInv
  <2>1. \A s \in Senders : pc[s] = "idle" /\ pieces[s] = 0
    BY DEF Init
  <2> QED
    BY <2>1 DEF Init, MsgInv, SendInv, Sending
<1>3. SoundInv /\ NewInv /\ TogetherInv
  BY <1>1 DEF SoundInv, NewInv, TogetherInv, Absent, TogetherIn
<1>4. OpenInv
  BY <1>1 DEF OpenInv, OpenIn
<1> QED
  BY <1>1, <1>2, <1>3, <1>4 DEF FragInv

LEMMA FragStep == FragInv /\ [Next]_vars => FragInv'
BY LineStep, MsgStep, SoundStep, NewStep, TogetherStep DEF FragInv

\* The fragments of a message reach the wire in order and with nothing of their
\* lane in between, whatever other senders, the writer task's flushes and a stop
\* do: the lane's lock is held from the first to the last of them, and what is
\* booked is committed before the first (StageIn::push, StageInPrio::push).
THEOREM FragmentsInOrder == Safety => []FragmentsTogether
<1>1. FragInv => FragmentsTogether
  <2> SUFFICES ASSUME FragInv, NEW i \in 1..Len(wire), NEW j \in 1..Len(wire),
                      wire[i].kind # "frame", i < j, wire[j].msgs = wire[i].msgs
               PROVE  /\ \A k \in i..j : wire[k].prio = wire[i].prio => wire[k].msgs = wire[i].msgs
                      /\ wire[j].kind # "first" /\ wire[i].kind # "last"
    BY DEF FragmentsTogether
  <2> DEFINE p == wire[i].prio
  <2>1. LineInv /\ SoundInv /\ TogetherInv
    BY DEF FragInv
  <2>2. p \in Lanes /\ wire[j].prio \in Lanes
    BY <2>1, WireInLine
  <2>3. \A k \in 1..Len(wire) : /\ Line(p)[k] = wire[k]
                                /\ k \in Of(Line(p), Load(p)) <=> wire[k].prio = p
    BY <2>1, <2>2, WireInLine
  <2>4. Sound(wire[i]) /\ Sound(wire[j])
    <3>1. \A k \in 1..Len(wire) : wire[k].prio \in Lanes => Sound(wire[k])
      BY <2>1, WireInLine DEF SoundInv
    <3> QED
      BY <2>2, <3>1
  <2>5. wire[j].prio = p
    <3>1. PICK x \in Msgs : wire[i].msgs = <<x>>
      BY <2>4 DEF Sound
    <3>2. Has(wire[i], x) /\ Has(wire[j], x)
      BY <3>1, HasOnly
    <3> QED
      BY <2>4, <3>2 DEF Sound
  <2>6. TogetherIn(Line(p), Load(p)) /\ i \in Of(Line(p), Load(p)) /\ j \in Of(Line(p), Load(p))
    BY <2>1, <2>2, <2>3, <2>5 DEF TogetherInv
  <2>7. wire[j].kind # "first" /\ wire[i].kind # "last"
    BY <2>3, <2>6 DEF TogetherIn
  <2>8. ASSUME NEW k \in i..j, wire[k].prio = p PROVE wire[k].msgs = wire[i].msgs
    <3>1. k \in 1..Len(wire) /\ (k = i \/ k = j \/ (i < k /\ k < j))
      BY <2>1, LineTypes, LenProperties DEF LineInv, IInv
    <3> QED
      BY <2>3, <2>6, <2>8, <3>1 DEF TogetherIn
  <2> QED
    BY <2>7, <2>8
<1> QED
  BY <1>1, FragInit, FragStep, PTL DEF Safety

----------------------------------------------------------------------------
(* Counting *)

CountOf(q, F) == Cardinality(Of(q, F))

LEMMA Counts ==
    ASSUME NEW q, Len(q) \in Nat, NEW F
    PROVE  IsFiniteSet(Of(q, F)) /\ CountOf(q, F) \in Nat
<1>1. IsFiniteSet(1..Len(q)) /\ Of(q, F) \in SUBSET (1..Len(q))
  BY FS_Interval DEF Of
<1> QED
  BY <1>1, FS_Subset, FS_CardinalityType DEF CountOf

LEMMA NoneOf == \A q, F : Of(q, F) = {} => CountOf(q, F) = 0
BY FS_EmptySet DEF CountOf

\* Fewer elements of a sequence are not more, and all of them as many.
LEMMA ThinnedCount ==
    ASSUME NEW q, NEW r, Len(q) \in Nat, NEW F
    PROVE  /\ Thinned(r, q, F) => CountOf(r, F) \in Nat /\ CountOf(r, F) <= CountOf(q, F)
           /\ Same(r, q, F) => CountOf(r, F) = CountOf(q, F)
<1>1. IsFiniteSet(Of(q, F))
  BY Counts
<1>2. ASSUME NEW f, Maps(f, r, q, F) PROVE f \in Injection(Of(r, F), Of(q, F))
  <2>1. f \in [Of(r, F) -> Of(q, F)]
    BY <1>2 DEF Maps
  <2>2. ASSUME NEW i \in Of(r, F), NEW j \in Of(r, F), f[i] = f[j] PROVE i = j
    <3>1. i \in Int /\ j \in Int /\ f[i] \in Int /\ f[j] \in Int
      BY <2>1 DEF Of
    <3>2. (i < j => f[i] < f[j]) /\ (j < i => f[j] < f[i])
      BY <1>2 DEF Maps
    <3> QED
      BY <2>2, <3>1, <3>2
  <2> QED
    BY <2>1, <2>2 DEF Injection, IsInjective
<1>3. Thinned(r, q, F) => CountOf(r, F) \in Nat /\ CountOf(r, F) <= CountOf(q, F)
  BY <1>1, <1>2, FS_Injection, FS_CardinalityType DEF Thinned, CountOf
<1>4. ASSUME Same(r, q, F) PROVE CountOf(r, F) = CountOf(q, F)
  <2>1. PICK f : Maps(f, r, q, F) /\ Onto(f, r, q, F)
    BY <1>4 DEF Same
  <2>2. f \in Injection(Of(r, F), Of(q, F))
    BY <1>2, <2>1
  <2>3. f \in Surjection(Of(r, F), Of(q, F))
    BY <2>1 DEF Maps, Onto, Surjection
  <2> QED
    BY <1>1, <2>2, <2>3, FS_Injection DEF CountOf
<1> QED
  BY <1>3, <1>4

\* A write leaves the count of F, or adds the new batch to it.
LEMMA GrownCount ==
    ASSUME NEW q, NEW r, NEW F, NEW n, NEW b, NEW c, Grown(r, q, F, n, b, c), Len(q) \in Nat
    PROVE  /\ (c \in F <=> b \in F) => CountOf(r, F) = CountOf(q, F)
           /\ c \in F /\ b \notin F => CountOf(r, F) = CountOf(q, F) + 1
<1>1. /\ n \in Nat
      /\ \A i \in Of(r, F) : i \in Int /\ r[i] \in F
      /\ \A i \in Of(q, F) : i \in Int /\ q[i] \in F
      /\ \A i \in Of(r, F) : i # n => i \in Of(q, F)
      /\ \A i \in Of(q, F) : i # n => i \in Of(r, F)
      /\ n \in Of(r, F) => r[n] = c
      /\ n \in Of(q, F) => q[n] = b
  BY DEF Grown, Of
<1>2. (n \in Of(r, F) <=> c \in F) /\ (n \in Of(q, F) <=> b \in F)
  BY <1>1 DEF Grown
<1>3. CASE c \in F <=> b \in F
  <2>1. Of(r, F) = Of(q, F)
    BY <1>1, <1>2, <1>3
  <2> QED
    BY <1>3, <2>1 DEF CountOf
<1>4. CASE c \in F /\ b \notin F
  <2>1. Of(r, F) = Of(q, F) \cup {n} /\ n \notin Of(q, F)
    BY <1>1, <1>2, <1>4
  <2>2. IsFiniteSet(Of(q, F))
    BY Counts
  <2> QED
    BY <1>4, <2>1, <2>2, FS_AddElement DEF CountOf
<1> QED
  BY <1>3, <1>4

\* Counts of parts of a sequence add up.
LEMMA ConcatCount ==
    ASSUME NEW S, NEW F, NEW q \in Seq(S), NEW r \in Seq(S)
    PROVE  CountOf(q \o r, F) = CountOf(q, F) + CountOf(r, F)
<1> DEFINE n == Len(q)
           A == Of(q, F)
           B == Of(r, F)
           C == {i \in Of(q \o r, F) : i > n}
           g == [i \in B |-> n + i]
<1>1. /\ n \in Nat /\ Len(r) \in Nat
      /\ \A i \in Int : i \in Of(q \o r, F) <=> i \in A \/ (i > n /\ i - n \in B)
      /\ \A i \in A : i \in Nat /\ i <= n
      /\ \A i \in B : i \in Nat /\ i >= 1 /\ n + i \in Of(q \o r, F)
  BY OfConcat
<1>2. \A i \in Of(q \o r, F) : i \in Int
  BY DEF Of
<1>3. IsFiniteSet(A) /\ IsFiniteSet(B) /\ CountOf(q, F) \in Nat /\ CountOf(r, F) \in Nat
  BY <1>1, Counts
<1> HIDE DEF n, A, B
<1>4. Of(q \o r, F) = A \cup C
  BY <1>1, <1>2
<1>5. A \cap C = {}
  BY <1>1
<1>6. g \in Bijection(B, C)
  <2>1. g \in [B -> C]
    BY <1>1
  <2>2. \A i, j \in B : g[i] = g[j] => i = j
    BY <1>1
  <2>3. \A k \in C : \E i \in B : g[i] = k
    <3> SUFFICES ASSUME NEW k \in C PROVE \E i \in B : g[i] = k
      OBVIOUS
    <3>1. k \in Int /\ k > n /\ k \in Of(q \o r, F)
      BY <1>2
    <3>2. k - n \in B
      BY <1>1, <3>1
    <3>3. g[k - n] = k
      BY <1>1, <3>1, <3>2
    <3> QED
      BY <3>2, <3>3
  <2> QED
    BY <2>1, <2>2, <2>3 DEF Bijection, Injection, Surjection, IsInjective
<1>7. IsFiniteSet(C) /\ Cardinality(C) = Cardinality(B)
  BY <1>3, <1>6, FS_Bijection DEF ExistsBijection
<1> HIDE DEF C
<1>8. Cardinality(A \cup C) = Cardinality(A) + Cardinality(C) - Cardinality({})
  BY <1>3, <1>5, <1>7, FS_Union
<1>9. Cardinality({}) = 0
  BY FS_EmptySet
<1> QED
  BY <1>3, <1>4, <1>7, <1>8, <1>9 DEF CountOf, A, B

----------------------------------------------------------------------------
(* Pieces of a message *)

\* The batches that carry m, and how many of them are in its line.
Carry(m) == {b \in Load(PrioOf[m]) : Has(b, m) /\ Sound(b)}
InLine(m) == CountOf(Line(PrioOf[m]), Carry(m))

\* Nothing was lost or discarded that may carry m, unless m itself failed.
Intact(m) == linkUp /\ (Block(m) \/ Lossless("drop"))

LEMMA IntactStays ==
    ASSUME LineInv, MsgInv, [Next]_vars
    PROVE  /\ \A c : Lossless(c)' => Lossless(c)
           /\ \A m : Intact(m)' => Intact(m)
<1>1. (linkUp' => linkUp) /\ \A m \in Msgs : Failed(m) => (Failed(m))'
  BY MsgStep DEF Turned, Failed
<1>2. ASSUME NEW c, Lossless(c)' PROVE Lossless(c)
  <2>1. \A m \in Msgs : (Failed(m))' => c = "block" /\ ~Block(m)
    BY <1>2 DEF Lossless, Failed, Block
  <2> QED
    BY <1>1, <2>1 DEF Lossless, Failed
<1>3. ASSUME NEW m, Intact(m)' PROVE Intact(m)
  BY <1>1, <1>2, <1>3 DEF Intact, Block
<1> QED
  BY <1>2, <1>3

LEMMA Spared ==
    ASSUME MsgInv, NEW b, Sound(b), Lossless(b.cc),
           \A m \in Msgs : Has(b, m) => CcOf[m] \in Ccs
    PROVE  ~Discarded(b)
<1>1. CASE b.cc = "drop"
  <2>1. \A m \in Msgs : ~Failed(m)
    BY <1>1 DEF Lossless, Failed
  <2>2. congested = {} /\ \A m \in Msgs : m \notin flagged
    BY <2>1 DEF MsgInv
  <2>3. b.kind # "frame" => Head(b.msgs) \notin flagged
    BY <2>2 DEF Sound
  <2> QED
    BY <2>2, <2>3 DEF Discarded
<1>2. CASE b.cc # "drop"
  <2>1. ASSUME b.kind # "frame" PROVE Head(b.msgs) \notin flagged
    <3> DEFINE x == Head(b.msgs)
    <3>1. x \in Msgs /\ b.msgs = <<x>>
      BY <2>1 DEF Sound
    <3> HIDE DEF x
    <3>2. Has(b, x)
      BY <3>1, HasOnly
    <3>3. CcOf[x] = b.cc
      BY <3>1, <3>2 DEF Sound
    <3>4. CcOf[x] = "block"
      BY <1>2, <3>1, <3>2, <3>3 DEF Ccs
    <3>5. ~Failed(x)
      BY <3>1, <3>4 DEF Lossless, Failed, Block
    <3>6. x \notin flagged
      BY <3>5 DEF MsgInv
    <3> QED
      BY <3>6 DEF x
  <2> QED
    BY <1>2, <2>1 DEF Discarded
<1> QED
  BY <1>1, <1>2

\* The batches of an intact message that has not failed are not discarded.
LEMMA CarryKept ==
    ASSUME MsgInv, NEW m \in Msgs, Intact(m), ~Failed(m), NEW b \in Carry(m)
    PROVE  ~Discarded(b)
<1>1. Has(b, m) /\ Sound(b) /\ CcOf[m] = b.cc /\ CcOf[m] \in Ccs
  BY MessageAssumption DEF Carry, Sound
<1>2. CASE Block(m)
  <2>1. b.cc # "drop"
    BY <1>1, <1>2 DEF Block
  <2>2. b.kind # "frame" => Head(b.msgs) \notin flagged
    <3>1. ASSUME NEW x, b.msgs = <<x>> PROVE x = m
      BY <1>1, <3>1 DEF Has
    <3>2. b.kind # "frame" => Head(b.msgs) = m
      BY <1>1, <3>1 DEF Sound
    <3> QED
      BY <3>2 DEF MsgInv
  <2> QED
    BY <2>1, <2>2 DEF Discarded
<1>3. CASE ~Block(m) /\ Lossless("drop")
  <2>1. b.cc = "drop"
    BY <1>1, <1>3 DEF Block, Ccs
  <2>2. \A x \in Msgs : CcOf[x] \in Ccs
    BY MessageAssumption
  <2> QED
    BY <1>1, <1>3, <2>1, <2>2, Spared
<1> QED
  BY <1>2, <1>3 DEF Intact

LEMMA CountTypes ==
    ASSUME LineInv, NEW m \in Msgs
    PROVE  /\ PrioOf[m] \in Lanes /\ InLine(m) \in Nat /\ Len(Line(PrioOf[m])) \in Nat
           /\ Carry(m) \in SUBSET Load(PrioOf[m])
           /\ FragsOf[m] \in Nat \ {0}
           /\ Absent(m) => InLine(m) = 0
<1>1. PrioOf[m] \in Lanes /\ FragsOf[m] \in Nat \ {0}
  BY MessageAssumption
<1>2. Len(Line(PrioOf[m])) \in Nat
  BY <1>1, LineTypes, LenProperties DEF LineInv, IInv
<1>3. InLine(m) \in Nat
  BY <1>2, Counts DEF InLine
<1>4. Absent(m) => InLine(m) = 0
  <2>1. Absent(m) => Of(Line(PrioOf[m]), Carry(m)) = {}
    BY <1>1 DEF Absent, Of, Carry
  <2> QED
    BY <2>1, NoneOf DEF InLine
<1> QED
  BY <1>1, <1>2, <1>3, <1>4 DEF Carry

\* Steps other than writes lose pieces at most, and none of an intact message.
LEMMA CountMoves ==
    ASSUME LineInv, MsgInv, [Next]_vars, \A s \in Senders : ~Writes(s), NEW m \in Msgs
    PROVE  /\ InLine(m)' \in Nat /\ InLine(m)' <= InLine(m)
           /\ Intact(m)' /\ ~Failed(m) => InLine(m)' = InLine(m)
<1> DEFINE q == Line(PrioOf[m])
           r == Line(PrioOf[m])'
           F == Carry(m)
<1>1. PrioOf[m] \in Lanes /\ Len(q) \in Nat /\ F \in SUBSET Load(PrioOf[m])
  BY CountTypes
<1>2. /\ Thinned(r, q, F)
      /\ linkUp' /\ (\A b \in F : ~Discarded(b)) => Same(r, q, F)
  BY <1>1, LinesThin DEF Fewer
<1>3. Intact(m)' /\ ~Failed(m) => linkUp' /\ \A b \in F : ~Discarded(b)
  <2>1. Intact(m)' => Intact(m) /\ linkUp'
    BY IntactStays DEF Intact
  <2> QED
    BY <2>1, CarryKept
<1>4. InLine(m) = CountOf(q, F) /\ InLine(m)' = CountOf(r, F)
  BY DEF InLine
<1> HIDE DEF q, r, F
<1> QED
  BY <1>1, <1>2, <1>3, <1>4, ThinnedCount

\* A write adds a piece of its sender's message if it counts it.
LEMMA CountWrites ==
    ASSUME LineInv, MsgInv, SoundInv, NewInv, [Next]_vars, NEW s \in Senders, Writes(s),
           NEW m \in Msgs
    PROVE  /\ m # msg[s] => InLine(m)' = InLine(m)
           /\ m = msg[s] => \/ UNCHANGED pieces /\ InLine(m)' = InLine(m)
                            \/ pieces'[s] = pieces[s] + 1 /\ InLine(m)' = InLine(m) + 1
           /\ \A t \in Senders : t # s => pc'[t] = pc[t] /\ pieces'[t] = pieces[t]
<1> DEFINE p == PrioOf[m]
           F == Carry(m)
<1>1. PICK c \in Batch : Wrote(s, c)
  BY Writing
<1>2. /\ p \in Lanes /\ Len(Line(p)) \in Nat
      /\ InLine(m) = CountOf(Line(p), F) /\ InLine(m)' = CountOf(Line(p)', F)
  BY CountTypes DEF InLine
<1>3. \A t \in Senders : t # s => pc'[t] = pc[t] /\ pieces'[t] = pieces[t]
  <2>1. \A t \in Senders : t # s => pc'[t] = pc[t]
    BY <1>1 DEF Wrote, LineInv, IInv, TypeOK, SenderTypeOK
  <2> QED
    BY <1>1, <2>1, HasWritten
<1>4. m = msg[s] => p = LaneOf(s)
  BY DEF LaneOf
<1>5. CASE p # LaneOf(s)
  <2>1. Line(p)' = Line(p)
    BY <1>1, <1>2, <1>5, WriteReplaces
  <2> QED
    BY <1>2, <1>3, <1>4, <1>5, <2>1
<1>6. CASE p = LaneOf(s)
  <2>1. Grown(Line(p)', Line(p), F, Len(Line(p)), Last(s), c)
        /\ Grown(Line(p)', Line(p), Load(p), Len(Line(p)), Last(s), c)
    BY <1>1, <1>2, <1>6, LineGrows
  <2>2. /\ (c \in F <=> Last(s) \in F) => InLine(m)' = InLine(m)
        /\ c \in F /\ Last(s) \notin F => InLine(m)' = InLine(m) + 1
    BY <1>2, <2>1, GrownCount
  <2>3. c \in Load(p) /\ (Last(s) \in Load(p) <=> Extended(s, c))
    BY <1>1, <1>6, HasWritten
  <2>4. Last(s) \in Load(p) =>
          /\ Len(Line(p)) \in Of(Line(p), Load(p)) /\ Line(p)[Len(Line(p))] = Last(s)
          /\ Sound(Last(s))
    BY <1>2, <2>1 DEF Grown, SoundInv
  <2>5. Sound(c)
    <3>1. SoundInv'
      BY SoundStep
    <3> QED
      BY <1>2, <2>1, <2>3, <3>1 DEF Grown, SoundInv
  <2>6. /\ c \in F <=> Has(c, m)
        /\ Last(s) \in F <=> Extended(s, c) /\ Has(Last(s), m)
    BY <2>3, <2>4, <2>5 DEF Carry
  <2>7. CASE c.msgs = Last(s).msgs /\ Extended(s, c) /\ UNCHANGED pieces
    <3>1. Has(c, m) <=> Has(Last(s), m)
      BY <2>7 DEF Has
    <3> QED
      BY <1>3, <2>2, <2>6, <2>7, <3>1
  <2>8. CASE /\ pieces'[s] = pieces[s] + 1
             /\ \A x : Has(c, x) <=> (Extended(s, c) /\ Has(Last(s), x)) \/ x = msg[s]
             /\ Extended(s, c) => pieces[s] = 0
    <3>1. m # msg[s] => (c \in F <=> Last(s) \in F)
      BY <2>6, <2>8
    <3>2. m = msg[s] => c \in F /\ Last(s) \notin F
      <4>1. m = msg[s] /\ Extended(s, c) => Absent(m)
        BY <1>1, <2>8 DEF NewInv, Wrote
      <4>2. m = msg[s] /\ Extended(s, c) => ~Has(Last(s), m)
        BY <1>2, <2>3, <2>4, <4>1 DEF Absent
      <4> QED
        BY <2>6, <2>8, <4>2
    <3> QED
      BY <1>3, <2>2, <2>8, <3>1, <3>2
  <2> QED
    BY <1>1, <2>7, <2>8, HasWritten
<1> QED
  BY <1>5, <1>6

\* A line has at most the pieces that the sender of a message counts, and all of
\* them if the message is intact; so many are missing of a failed message that
\* it is not there as a whole.
CountInv ==
    /\ \A s \in Senders : pc[s] # "idle" =>
        \A m \in Msgs : m = msg[s] =>
            /\ InLine(m) <= pieces[s]
            /\ Sending(s) /\ Intact(m) => InLine(m) = pieces[s]
    /\ \A m \in Msgs :
        /\ res[m] \in {"timeout", "dropped", "cancelled"} => InLine(m) < FragsOf[m]
        /\ res[m] = "ok" /\ Intact(m) => InLine(m) = FragsOf[m]

LEMMA CountStep ==
    ASSUME LineInv, MsgInv, SoundInv, NewInv, CountInv, [Next]_vars PROVE CountInv'
<1> USE DEF LineInv, IInv
<1>a. /\ \A m : Intact(m)' => Intact(m)
      /\ \A m \in Msgs : Turned(m)
      /\ \A t \in Senders : Follows(t)
      /\ LineInv' /\ MsgInv'
  BY IntactStays, MsgStep, LineStep
<1>b. \A m \in Msgs : /\ InLine(m) \in Nat /\ FragsOf[m] \in Nat \ {0}
                      /\ Absent(m) => InLine(m) = 0
  BY CountTypes
<1>d. \A s \in Senders : pieces[s] \in Nat /\ (pc[s] # "idle" => msg[s] \in Msgs)
  BY SendTypes
<1>1. CASE \A s \in Senders : ~Writes(s)
  <2>1. \A m \in Msgs : /\ InLine(m)' \in Nat /\ InLine(m)' <= InLine(m)
                        /\ Intact(m)' /\ ~Failed(m) => InLine(m)' = InLine(m)
    BY <1>1, CountMoves
  <2>2. ASSUME NEW s \in Senders, pc'[s] # "idle", NEW m \in Msgs, m = msg'[s]
        PROVE  /\ InLine(m)' <= pieces'[s]
               /\ Sending(s)' /\ Intact(m)' => InLine(m)' = pieces'[s]
    <3>1. CASE /\ pc[s] # "idle" /\ msg'[s] = msg[s] /\ pieces'[s] = pieces[s]
               /\ pc'[s] # "failed" => pc[s] # "failed"
      <4>1. /\ InLine(m) <= pieces[s]
            /\ Sending(s) /\ Intact(m) => InLine(m) = pieces[s]
        BY <2>2, <3>1 DEF CountInv
      <4>2. Sending(s) => ~Failed(m)
        BY <2>2, <3>1 DEF MsgInv, SendInv, Failed
      <4>3. Sending(s)' => Sending(s)
        BY <3>1 DEF Sending
      <4> QED
        BY <1>a, <1>b, <1>d, <2>1, <3>1, <4>1, <4>2, <4>3
    <3>2. CASE res[m] = "none" /\ pieces'[s] = 0
      <4>1. InLine(m) = 0
        BY <1>b, <3>2 DEF NewInv
      <4> QED
        BY <2>1, <3>2, <4>1
    <3> QED
      BY <1>1, <1>a, <2>2, <3>1, <3>2 DEF Follows
  <2>3. ASSUME NEW m \in Msgs, NEW s \in Senders, Sending(s), msg[s] = m
        PROVE  InLine(m) <= pieces[s] /\ (Intact(m) => InLine(m) = pieces[s])
    BY <2>3 DEF CountInv, Sending
  <2>4. ASSUME NEW m \in Msgs, res'[m] \in {"timeout", "dropped", "cancelled"}
        PROVE  InLine(m)' < FragsOf[m]
    <3>1. InLine(m) < FragsOf[m]
      <4>1. CASE res'[m] = res[m]
        BY <2>4, <4>1 DEF CountInv
      <4>2. CASE res[m] = "none"
        BY <1>b, <4>2 DEF NewInv
      <4>3. CASE res[m] = "sending" /\ \E s \in Senders : Sending(s) /\ msg[s] = m /\ pieces[s] < FragsOf[m]
        BY <1>b, <1>d, <2>3, <4>3
      <4> QED
        BY <1>a, <2>4, <4>1, <4>2, <4>3 DEF Turned
    <3> QED
      BY <1>b, <2>1, <3>1
  <2>5. ASSUME NEW m \in Msgs, res'[m] = "ok", Intact(m)' PROVE InLine(m)' = FragsOf[m]
    <3>1. CASE res[m] = "ok"
      BY <1>a, <2>1, <2>5, <3>1 DEF CountInv, Failed
    <3>2. CASE res[m] = "sending" /\ \E s \in Senders : Sending(s) /\ msg[s] = m /\ pieces[s] = FragsOf[m]
      BY <1>a, <2>1, <2>3, <2>5, <3>2 DEF Failed
    <3> QED
      BY <1>a, <2>5, <3>1, <3>2 DEF Turned
  <2> QED
    BY <2>2, <2>4, <2>5 DEF CountInv
<1>2. ASSUME NEW s \in Senders, Writes(s) PROVE CountInv'
  <2>1. /\ \A m \in Msgs :
            /\ m # msg[s] => InLine(m)' = InLine(m)
            /\ m = msg[s] => \/ UNCHANGED pieces /\ InLine(m)' = InLine(m)
                             \/ pieces'[s] = pieces[s] + 1 /\ InLine(m)' = InLine(m) + 1
        /\ \A t \in Senders : t # s => pc'[t] = pc[t] /\ pieces'[t] = pieces[t]
    <3>1. ASSUME NEW m \in Msgs
          PROVE  /\ m # msg[s] => InLine(m)' = InLine(m)
                 /\ m = msg[s] => \/ UNCHANGED pieces /\ InLine(m)' = InLine(m)
                                  \/ pieces'[s] = pieces[s] + 1 /\ InLine(m)' = InLine(m) + 1
                 /\ \A t \in Senders : t # s => pc'[t] = pc[t] /\ pieces'[t] = pieces[t]
      BY <1>2, CountWrites
    <3>2. msg[s] \in Msgs
      BY <1>2, Writing
    <3> QED
      BY <3>1, <3>2
  <2>2. pc[s] = "write" /\ msg' = msg /\ res' = res /\ msg[s] \in Msgs /\ res[msg[s]] = "sending"
    <3>1. PICK c \in Batch : Wrote(s, c)
      BY <1>2, Writing
    <3> QED
      BY <1>2, <3>1, Writing DEF Wrote, MsgInv, SendInv, Sending
  <2>3. ASSUME NEW m \in Msgs, m # msg[s]
        PROVE  /\ res'[m] \in {"timeout", "dropped", "cancelled"} => InLine(m)' < FragsOf[m]
               /\ res'[m] = "ok" /\ Intact(m)' => InLine(m)' = FragsOf[m]
    BY <1>a, <2>1, <2>2, <2>3 DEF CountInv
  <2>4. ASSUME NEW m \in Msgs, m = msg[s]
        PROVE  res'[m] \notin {"timeout", "dropped", "cancelled", "ok"}
    BY <2>2, <2>4
  <2>5. ASSUME NEW t \in Senders, pc'[t] # "idle", NEW m \in Msgs, m = msg'[t]
        PROVE  /\ InLine(m)' <= pieces'[t]
               /\ Sending(t)' /\ Intact(m)' => InLine(m)' = pieces'[t]
    <3>1. CASE t = s
      <4>1. /\ InLine(m) <= pieces[s] /\ m = msg[s]
            /\ Intact(m) => InLine(m) = pieces[s]
        BY <2>2, <2>5, <3>1 DEF CountInv, Sending
      <4>2. \/ pieces'[s] = pieces[s] /\ InLine(m)' = InLine(m)
            \/ pieces'[s] = pieces[s] + 1 /\ InLine(m)' = InLine(m) + 1
        BY <2>1, <4>1
      <4> QED
        BY <1>a, <1>b, <1>d, <3>1, <4>1, <4>2
    <3>2. CASE t # s
      <4>1. pc'[t] = pc[t] /\ pieces'[t] = pieces[t] /\ m = msg[t] /\ pc[t] # "idle"
        BY <2>1, <2>2, <2>5, <3>2
      <4>2. m # msg[s] /\ InLine(m)' = InLine(m)
        BY <2>1, <2>2, <3>2, <4>1 DEF MsgInv
      <4>3. Sending(t)' => Sending(t)
        BY <4>1 DEF Sending
      <4> QED
        BY <1>a, <4>1, <4>2, <4>3 DEF CountInv
    <3> QED
      BY <3>1, <3>2
  <2> QED
    BY <2>3, <2>4, <2>5 DEF CountInv
<1> QED
  BY <1>1, <1>2

----------------------------------------------------------------------------
(* What a line holds *)

\* Every batch of a line that carries something is in the line of its own lane.
LEMMA AllSound ==
    ASSUME LineInv, SoundInv, NEW p \in Lanes, NEW i \in 1..Len(Line(p)),
           Line(p)[i].msgs # <<>>
    PROVE  Sound(Line(p)[i]) /\ Line(p)[i] \in Batch
<1> USE DEF LineInv, IInv
<1>1. Out \in Seq(Batch) /\ Line(p) \in Seq(Batch) /\ Len(Out) \in Nat
  BY LineTypes, LenProperties
<1>2. Line(p)[i] \in Batch /\ Line(p)[i].prio \in Lanes
  <2>1. \A b \in Batch : b.prio \in Lanes
    BY DEF Batch
  <2>2. Line(p)[i] \in Batch
    BY <1>1, ElementOfSeq
  <2> QED
    BY <2>1, <2>2
<1>3. ASSUME NEW l \in Lanes
      PROVE  /\ \A k \in 1..Len(Out) : k \in 1..Len(Line(l)) /\ Line(l)[k] = Out[k]
             /\ \A k \in 1..Len(Line(l)) : k > Len(Out) => Line(l)[k].prio = l
  <2> DEFINE t == ring[l] \o booked[l]
  <2>1. t \in Seq(Batch) /\ Line(l) = Out \o t
    BY LineTypes DEF Line
  <2>2. AllPrio(t, l)
    BY PrioSeqs, LineTypes DEF PrioInv
  <2> HIDE DEF t
  <2>3. Len(t) \in Nat /\ Len(Line(l)) = Len(Out) + Len(t)
        /\ \A k \in 1..(Len(Out) + Len(t)) :
              Line(l)[k] = IF k <= Len(Out) THEN Out[k] ELSE t[k - Len(Out)]
    BY <1>1, <2>1, LenProperties, ConcatProperties
  <2>4. \A k \in 1..Len(Out) : k \in 1..Len(Line(l)) /\ Line(l)[k] = Out[k]
    BY <1>1, <2>3
  <2>5. ASSUME NEW k \in 1..Len(Line(l)), k > Len(Out) PROVE Line(l)[k].prio = l
    <3>1. k - Len(Out) \in 1..Len(t) /\ Line(l)[k] = t[k - Len(Out)]
      BY <1>1, <2>3, <2>5
    <3> QED
      BY <2>2, <3>1 DEF AllPrio
  <2> QED
    BY <2>4, <2>5
<1>4. CASE i \in 1..Len(Out)
  <2>1. ASSUME NEW l \in Lanes, l = Line(p)[i].prio PROVE Sound(Line(p)[i])
    <3>1. i \in 1..Len(Line(l)) /\ Line(l)[i] = Out[i] /\ Line(p)[i] = Out[i]
      BY <1>3, <1>4
    <3>2. i \in Of(Line(l), Load(l))
      BY <1>2, <2>1, <3>1 DEF Of, Load
    <3> QED
      BY <3>1, <3>2 DEF SoundInv
  <2> QED
    BY <1>2, <2>1
<1>5. CASE i > Len(Out)
  <2>1. Line(p)[i].prio = p
    BY <1>3, <1>5
  <2>2. i \in Of(Line(p), Load(p))
    BY <1>2, <2>1 DEF Of, Load
  <2> QED
    BY <1>2, <2>2 DEF SoundInv
<1>6. i \in 1..Len(Out) \/ i > Len(Out)
  BY <1>1
<1> QED
  BY <1>4, <1>5, <1>6

\* Batches, wherever they are, that carry m.
Holds(m) == {b \in Batch : Has(b, m)}

LEMMA PiecesCount == \A m : \A q \in Seq(Batch) : PiecesIn(q, m) = CountOf(q, Holds(m))
<1> SUFFICES ASSUME NEW m, NEW q \in Seq(Batch) PROVE PiecesIn(q, m) = CountOf(q, Holds(m))
  OBVIOUS
<1>1. \A i \in 1..Len(q) : q[i] \in Batch
  BY ElementOfSeq
<1>2. {i \in 1..Len(q) : \E k \in 1..Len(q[i].msgs) : q[i].msgs[k] = m} = Of(q, Holds(m))
  BY <1>1 DEF Of, Holds, Has
<1> QED
  BY <1>2 DEF PiecesIn, CountOf

LEMMA LineCount ==
    ASSUME LineInv, SoundInv, NEW m \in Msgs
    PROVE  Queued(m) + Written(m) = InLine(m)
<1> USE DEF LineInv, IInv
<1> DEFINE p == PrioOf[m]
           H == Holds(m)
<1>1. /\ p \in Lanes /\ wire \in Seq(Batch) /\ Unwritten \in Seq(Batch) /\ Out \in Seq(Batch)
      /\ ring[p] \in Seq(Batch) /\ booked[p] \in Seq(Batch) /\ ring[p] \o booked[p] \in Seq(Batch)
      /\ Line(p) \in Seq(Batch)
  BY LineTypes, MessageAssumption
<1>2. Of(Line(p), Carry(m)) = Of(Line(p), H)
  <2>1. ASSUME NEW i \in 1..Len(Line(p)), Line(p)[i] \in H PROVE Line(p)[i] \in Carry(m)
    <3>1. Line(p)[i].msgs # <<>>
      BY <2>1, EmptySeq DEF Holds, Has
    <3>2. Sound(Line(p)[i]) /\ Line(p)[i] \in Batch /\ Has(Line(p)[i], m)
      BY <1>1, <2>1, <3>1, AllSound DEF Holds
    <3>3. Line(p)[i].prio = p
      BY <3>2 DEF Sound
    <3> QED
      BY <3>1, <3>2, <3>3 DEF Carry, Load
  <2>2. Carry(m) \subseteq H
    BY DEF Carry, Holds, Load
  <2> QED
    BY <2>1, <2>2 DEF Of
<1> HIDE DEF H
<1>3. InLine(m) = CountOf(Line(p), H)
  BY <1>2 DEF InLine, CountOf
<1>4. CountOf(Out, H) = CountOf(wire, H) + CountOf(Unwritten, H)
  BY <1>1, ConcatCount DEF Out
<1>5. CountOf(ring[p] \o booked[p], H) = CountOf(ring[p], H) + CountOf(booked[p], H)
  BY <1>1, ConcatCount
<1>6. CountOf(Line(p), H) = CountOf(Out, H) + CountOf(ring[p] \o booked[p], H)
  BY <1>1, ConcatCount DEF Line
<1>7. /\ CountOf(wire, H) \in Nat /\ CountOf(Unwritten, H) \in Nat /\ CountOf(ring[p], H) \in Nat
      /\ CountOf(booked[p], H) \in Nat
  BY <1>1, Counts, LenProperties
<1>8. /\ PiecesIn(wire, m) = CountOf(wire, H) /\ PiecesIn(Unwritten, m) = CountOf(Unwritten, H)
      /\ PiecesIn(ring[p], m) = CountOf(ring[p], H) /\ PiecesIn(booked[p], m) = CountOf(booked[p], H)
  BY <1>1, PiecesCount DEF H
<1> QED
  BY <1>3, <1>4, <1>5, <1>6, <1>7, <1>8 DEF Queued, Written

MessageInv == FragInv /\ CountInv

LEMMA MessageInit == Init => MessageInv
<1> SUFFICES ASSUME Init PROVE CountInv
  BY FragInit DEF MessageInv
<1>1. \A s \in Senders : pc[s] = "idle"
  BY DEF Init
<1>2. \A m \in Msgs : res[m] = "none"
  BY DEF Init
<1> QED
  BY <1>1, <1>2 DEF CountInv

LEMMA MessageStep == MessageInv /\ [Next]_vars => MessageInv'
BY FragStep, CountStep DEF MessageInv, FragInv

\* A sender that is told of a timeout, of a drop or of its own cancellation may
\* send again: the pieces that it left behind, in the lane, in the writer task's
\* hand and on the wire, are never all of its message (StageInPrio::push, the
\* guard of StageIn::push, FragmentDropFlag).
THEOREM FailedSendsIncomplete == Safety => []FailedNotDelivered
<1>1. MessageInv => FailedNotDelivered
  BY LineCount DEF MessageInv, FragInv, CountInv, FailedNotDelivered
<1> QED
  BY <1>1, MessageInit, MessageStep, PTL DEF Safety

\* What send reported as sent is in the lane, in the writer task's hand or on
\* the wire, each piece once, as long as no write failed: for a reliable message
\* whatever happens to others, for a best-effort message if no send has failed
\* (PipelineTxIn::push, PipelineTxOut::pull, try_pull, drain, refill).
THEOREM AcceptedMessagesKept == Safety => []AcceptedNotLost
<1>1. MessageInv => AcceptedNotLost
  BY LineCount DEF MessageInv, FragInv, CountInv, AcceptedNotLost, Intact
<1> QED
  BY <1>1, MessageInit, MessageStep, PTL DEF Safety

----------------------------------------------------------------------------
(* Sequence numbers without a gap *)

\* The batches of a lane and congestion control, and that each number up to n
\* belongs to one of them.
Chan(p, c) == {b \in Load(p) : b.cc = c /\ Sound(b)}
AllUsed(q, F, n) == \A k \in 1..n : \E i \in Of(q, F) : q[i].sn = k
GapInv ==
    \A p \in Lanes : \A c \in Ccs :
        linkUp /\ Lossless(c) => AllUsed(Line(p), Chan(p, c), seqnum[p][c])

LEMMA GapStep ==
    ASSUME LineInv, MsgInv, SoundInv, GapInv, [Next]_vars PROVE GapInv'
<1> USE DEF LineInv, IInv
<1>a. /\ \A c : Lossless(c)' => Lossless(c)
      /\ linkUp' => linkUp
      /\ SoundInv'
  BY IntactStays, MsgStep, SoundStep
<1>b. \A m \in Msgs : CcOf[m] \in Ccs
  BY MessageAssumption
<1>1. CASE \A s \in Senders : ~Writes(s)
  <2> SUFFICES ASSUME NEW p \in Lanes, NEW c \in Ccs, linkUp', Lossless(c)'
               PROVE  AllUsed(Line(p)', Chan(p, c), seqnum'[p][c])
    BY DEF GapInv
  <2> DEFINE q == Line(p)
             r == Line(p)'
             F == Chan(p, c)
  <2>1. \A b \in F : ~Discarded(b)
    BY <1>a, <1>b, Spared DEF Chan
  <2>2. F \in SUBSET Load(p)
    BY DEF Chan
  <2>3. Same(r, q, F) /\ UNCHANGED seqnum
    BY <1>1, <2>1, <2>2, LinesThin DEF Fewer
  <2>4. AllUsed(q, F, seqnum[p][c])
    BY <1>a DEF GapInv
  <2> HIDE DEF q, r, F
  <2>5. PICK f : Maps(f, r, q, F) /\ Onto(f, r, q, F)
    BY <2>3 DEF Same
  <2>6. AllUsed(r, F, seqnum[p][c])
    BY <2>4, <2>5 DEF AllUsed, Maps, Onto
  <2> QED
    BY <2>3, <2>6 DEF r, F
<1>2. ASSUME NEW s \in Senders, Writes(s) PROVE GapInv'
  <2>1. PICK c \in Batch : Wrote(s, c)
    BY <1>2, Writing
  <2>2. /\ LaneOf(s) \in Lanes /\ UNCHANGED <<linkUp, res>> /\ msg[s] \in Msgs
        /\ Extended(s, c) \/ Started(s, c)
    BY <1>2, <2>1, Writing DEF Wrote, writerVars
  <2>3. seqnum \in [Lanes -> [Ccs -> Nat]]
    BY DEF TypeOK, LaneTypeOK
  <2> SUFFICES ASSUME NEW p \in Lanes, NEW d \in Ccs, linkUp', Lossless(d)'
               PROVE  AllUsed(Line(p)', Chan(p, d), seqnum'[p][d])
    BY DEF GapInv
  <2>4. AllUsed(Line(p), Chan(p, d), seqnum[p][d])
    BY <1>a DEF GapInv
  <2>5. CASE p # LaneOf(s)
    <3>1. Line(p)' = Line(p)
      BY <1>2, <2>1, <2>5, WriteReplaces
    <3>2. seqnum'[p] = seqnum[p]
      BY <2>2, <2>3, <2>5 DEF Extended, Started, UseSn
    <3> QED
      BY <2>4, <3>1, <3>2
  <2>6. CASE p = LaneOf(s)
    <3> DEFINE q == Line(p)
               r == Line(p)'
               F == Chan(p, d)
               n == Len(Line(p))
    <3>1. /\ Grown(r, q, F, n, Last(s), c) /\ Grown(r, q, Load(p), n, Last(s), c)
          /\ \A i \in Of(q, Load(p)) : Sound(q[i])
          /\ \A i \in Of(r, Load(p)) : Sound(r[i])
      BY <1>2, <1>a, <2>1, <2>6, LineGrows DEF SoundInv
    <3>2. c \in Load(p) /\ (Last(s) \in Load(p) <=> Extended(s, c))
      BY <1>2, <2>1, <2>6, HasWritten
    <3> HIDE DEF q, r, n
    <3>3. Sound(c) /\ (Last(s) \in Load(p) => Sound(Last(s)))
      BY <3>1, <3>2 DEF Grown
    <3>4. /\ c \in F <=> c.cc = d
          /\ Last(s) \in F <=> Extended(s, c) /\ Last(s).cc = d
      BY <3>2, <3>3 DEF Chan
    <3> HIDE DEF F
    <3>5. CASE Extended(s, c)
      <4>1. seqnum' = seqnum /\ c.sn = Last(s).sn /\ (c \in F <=> Last(s) \in F)
        BY <3>4, <3>5 DEF Extended
      <4>2. \A i \in Of(q, F) : i \in Of(r, F) /\ r[i].sn = q[i].sn
        <5>1. \A i \in Of(q, F) : q[i] \in F
          BY DEF Of
        <5> QED
          BY <3>1, <4>1, <5>1 DEF Grown
      <4>3. AllUsed(r, F, seqnum[p][d])
        BY <2>4, <4>2 DEF AllUsed, q, F
      <4> QED
        BY <4>1, <4>3 DEF r, F
    <3>6. CASE Started(s, c) /\ ~Extended(s, c)
      <4>1. \A i \in Of(q, F) : i \in Of(r, F) /\ r[i].sn = q[i].sn
        <5>1. \A i \in Of(q, F) : q[i] \in F
          BY DEF Of
        <5> QED
          BY <3>1, <3>4, <3>6, <5>1 DEF Grown
      <4>2. \A k \in 1..seqnum[p][d] : \E i \in Of(r, F) : r[i].sn = k
        BY <2>4, <4>1 DEF AllUsed, q, F
      <4>3. CASE c.cc # d
        <5>1. seqnum'[p][d] = seqnum[p][d]
          BY <2>2, <2>3, <2>6, <3>6, <4>3 DEF Started, UseSn
        <5> QED
          BY <4>2, <5>1 DEF AllUsed, r, F
      <4>4. CASE c.cc = d
        <5>1. /\ seqnum[p][d] \in Nat /\ seqnum'[p][d] = seqnum[p][d] + 1
              /\ c.sn = seqnum[p][d] + 1
          BY <2>2, <2>3, <2>6, <3>6, <4>4 DEF Started, UseSn, NextSn
        <5>2. n \in Of(r, F) /\ r[n] = c
          BY <3>1, <3>4, <4>4 DEF Grown
        <5>3. \A k \in 1..(seqnum[p][d] + 1) : k \in 1..seqnum[p][d] \/ k = seqnum[p][d] + 1
          BY <5>1
        <5>4. AllUsed(r, F, seqnum[p][d] + 1)
          BY <4>2, <5>1, <5>2, <5>3 DEF AllUsed
        <5> QED
          BY <5>1, <5>4 DEF r, F
      <4> QED
        BY <4>3, <4>4
    <3> QED
      BY <2>2, <3>5, <3>6
  <2> QED
    BY <2>5, <2>6
<1> QED
  BY <1>1, <1>2

NumberInv == MessageInv /\ OrderInv /\ GapInv

LEMMA NumberInit == Init => NumberInv
<1> SUFFICES ASSUME Init PROVE OrderInv /\ GapInv
  BY MessageInit DEF NumberInv
<1>1. OrderInv
  BY NoLoadsAtFirst DEF OrderInv, OrderIn, UsedIn
<1>2. \A p \in Lanes : \A c \in Ccs : seqnum[p][c] = 0
  BY DEF Init
<1>3. GapInv
  BY <1>2 DEF GapInv, AllUsed
<1> QED
  BY <1>1, <1>3

LEMMA NumberStep == NumberInv /\ [Next]_vars => NumberInv'
BY MessageStep, OrderStep, GapStep DEF NumberInv, MessageInv, FragInv

\* As long as no write failed and no failed send had batches of a congestion
\* control discarded, each of its batches carries the number of those of its
\* lane that were written up to it, so that the receiver finds no gap: a number
\* is taken for each batch that is committed, and for no other
\* (StageInPrio::push, SeqNumGenerator::get).
THEOREM WrittenWithoutGap == Safety => []WireGapless
<1>1. NumberInv => WireGapless
  <2> SUFFICES ASSUME NumberInv, NEW j \in 1..Len(wire), linkUp, Lossless(wire[j].cc)
               PROVE  wire[j].sn = Cardinality({i \in 1..j : SameChannel(wire[i], wire[j])})
    BY DEF WireGapless
  <2> DEFINE p == wire[j].prio
             c == wire[j].cc
             n == wire[j].sn
             S == {i \in 1..j : SameChannel(wire[i], wire[j])}
             f == [i \in S |-> wire[i].sn]
  <2>1. LineInv /\ SoundInv /\ OrderInv /\ GapInv /\ TypeOK
    BY DEF NumberInv, MessageInv, FragInv, LineInv, IInv
  <2>2. wire \in Seq(Batch) /\ wire[j] \in Batch /\ Len(wire) \in Nat
    BY <2>1, LineTypes, ElementOfSeq, LenProperties
  <2>3. p \in Lanes /\ c \in Ccs /\ n \in Nat
    BY <2>2 DEF Batch
  <2>4. \A i \in 1..Len(wire) : /\ Line(p)[i] = wire[i]
                                /\ i \in Of(Line(p), Load(p)) <=> wire[i].prio = p
    BY <2>1, <2>3, WireInLine
  <2>5. /\ OrderIn(Line(p), Load(p)) /\ UsedIn(Line(p), Load(p), seqnum[p])
        /\ AllUsed(Line(p), Chan(p, c), seqnum[p][c])
    BY <2>1, <2>3 DEF OrderInv, GapInv
  <2>6. \A i \in S : i \in 1..Len(wire) /\ i \in Of(Line(p), Load(p)) /\ wire[i].cc = c
    BY <2>2, <2>4 DEF SameChannel
  <2>7. j \in S /\ n \in 1..seqnum[p][c] /\ seqnum[p][c] \in Nat
    <3>1. j \in S
      BY <2>2 DEF SameChannel
    <3>2. seqnum[p][c] \in Nat
      BY <2>1, <2>3 DEF TypeOK, LaneTypeOK
    <3> QED
      BY <2>4, <2>5, <2>6, <3>1, <3>2 DEF UsedIn
  <2>8. \A i \in S : wire[i].sn \in 1..seqnum[p][c]
    BY <2>4, <2>5, <2>6 DEF UsedIn
  <2>9. \A i, k \in S : i < k => wire[i].sn < wire[k].sn
    BY <2>4, <2>5, <2>6 DEF OrderIn
  <2>10. \A i \in S : i \in Int /\ i <= j
    OBVIOUS
  <2>11. ASSUME NEW k \in 1..n PROVE \E i \in S : wire[i].sn = k
    <3>1. PICK i \in Of(Line(p), Chan(p, c)) : Line(p)[i].sn = k
      <4>1. k \in 1..seqnum[p][c]
        BY <2>3, <2>7
      <4> QED
        BY <2>5, <4>1 DEF AllUsed
    <3>2. i \in Of(Line(p), Load(p)) /\ Line(p)[i].cc = c /\ Line(p)[i].prio = p /\ i \in Int /\ i >= 1
      BY DEF Of, Chan, Load
    <3>3. CASE i <= j
      <4>1. i \in 1..j /\ i \in 1..Len(wire)
        BY <2>2, <3>2, <3>3
      <4>2. i \in S /\ wire[i].sn = k
        BY <2>4, <3>1, <3>2, <4>1 DEF SameChannel
      <4> QED
        BY <4>2
    <3>4. CASE j < i
      <4>1. Line(p)[j].sn < Line(p)[i].sn
        BY <2>4, <2>5, <2>6, <2>7, <3>2, <3>4 DEF OrderIn
      <4> QED
        BY <2>3, <2>4, <3>1, <4>1
    <3> QED
      BY <3>2, <3>3, <3>4
  <2> HIDE DEF S, n, c, p
  <2>12. f \in Bijection(S, 1..n)
    <3>1. \A i \in S : wire[i].sn \in 1..n
      <4>1. \A i \in S : i = j \/ i < j
        BY <2>7, <2>10
      <4>2. \A i \in S : wire[i].sn = n \/ wire[i].sn < n
        BY <2>7, <2>9, <4>1 DEF n
      <4> QED
        BY <2>3, <2>7, <2>8, <4>2
    <3>2. \A i, k \in S : f[i] = f[k] => i = k
      <4> SUFFICES ASSUME NEW i \in S, NEW k \in S, wire[i].sn = wire[k].sn PROVE i = k
        OBVIOUS
      <4>1. i \in Int /\ k \in Int /\ wire[i].sn \in Int /\ wire[k].sn \in Int
        BY <2>8, <2>10
      <4> QED
        BY <2>9, <4>1
    <3>3. f \in [S -> 1..n]
      BY <3>1
    <3> QED
      BY <2>11, <3>2, <3>3 DEF Bijection, Injection, Surjection, IsInjective
  <2>13. IsFiniteSet(S)
    <3>1. IsFiniteSet(1..j) /\ S \in SUBSET (1..j)
      BY FS_Interval DEF S
    <3> QED
      BY <3>1, FS_Subset
  <2>14. Cardinality(1..n) = Cardinality(S)
    BY <2>12, <2>13, FS_Bijection DEF ExistsBijection
  <2>15. Cardinality(1..n) = n
    BY <2>3, FS_Interval
  <2> QED
    BY <2>14, <2>15 DEF S, n
<1> QED
  BY <1>1, NumberInit, NumberStep, PTL DEF Safety

----------------------------------------------------------------------------
(* Draining *)

NoneIn(q, m) == \A i \in 1..Len(q) : ~Has(q[i], m)

\* While the writer task drains, what was promised is no longer booked, then no
\* longer committed, and when it has returned it holds nothing.
DrainInv ==
    /\ wpc \in Draining /\ linkUp => disabled \/ token
    /\ wpc = "closed" => hand = <<>>
    /\ \A m \in promised : res[m] = "ok"
    /\ linkUp => \A m \in promised : \A p \in Lanes :
        /\ wpc \in {"drainpull", "drainwrite", "closed"} => NoneIn(booked[p], m)
        /\ wpc \in {"drainwrite", "closed"} => NoneIn(ring[p], m)

LEMMA NoneSeqs ==
    ASSUME NEW q \in Seq(Batch), NEW m
    PROVE  /\ NoneIn(<<>>, m)
           /\ \A b \in Batch : ~Has(b, m) =>
                NoneIn(<<b>>, m) /\ (NoneIn(q, m) => NoneIn(Append(q, b), m))
           /\ \A r \in Seq(Batch) : NoneIn(q, m) /\ NoneIn(r, m) => NoneIn(q \o r, m)
           /\ NoneIn(q, m) => PiecesIn(q, m) = 0
<1>a. Len(q) \in Nat
  BY LenProperties
<1>1. NoneIn(<<>>, m)
  BY EmptySeq DEF NoneIn
<1>2. ASSUME NEW b \in Batch, ~Has(b, m)
      PROVE  NoneIn(<<b>>, m) /\ (NoneIn(q, m) => NoneIn(Append(q, b), m))
  <2>1. /\ Len(Append(q, b)) = Len(q) + 1 /\ Append(q, b)[Len(q) + 1] = b
        /\ \A i \in 1..Len(q) : Append(q, b)[i] = q[i]
    BY AppendProperties
  <2>2. \A i \in 1..(Len(q) + 1) : i \in 1..Len(q) \/ i = Len(q) + 1
    BY <1>a
  <2>3. Len(<<b>>) = 1 /\ <<b>>[1] = b /\ \A i \in 1..1 : i = 1
    OBVIOUS
  <2> QED
    BY <1>2, <2>1, <2>2, <2>3 DEF NoneIn
<1>3. ASSUME NEW r \in Seq(Batch), NoneIn(q, m), NoneIn(r, m) PROVE NoneIn(q \o r, m)
  <2>1. /\ Len(r) \in Nat /\ Len(q \o r) = Len(q) + Len(r)
        /\ \A i \in 1..(Len(q) + Len(r)) :
              (q \o r)[i] = IF i <= Len(q) THEN q[i] ELSE r[i - Len(q)]
    BY LenProperties, ConcatProperties
  <2> SUFFICES ASSUME NEW i \in 1..(Len(q) + Len(r)) PROVE ~Has((q \o r)[i], m)
    BY <2>1 DEF NoneIn
  <2>2. CASE i <= Len(q)
    BY <1>a, <1>3, <2>1, <2>2 DEF NoneIn
  <2>3. CASE i > Len(q)
    <3>1. i - Len(q) \in 1..Len(r) /\ (q \o r)[i] = r[i - Len(q)]
      BY <1>a, <2>1, <2>3
    <3> QED
      BY <1>3, <3>1 DEF NoneIn
  <2> QED
    BY <1>a, <2>2, <2>3
<1>4. ASSUME NoneIn(q, m) PROVE PiecesIn(q, m) = 0
  <2>1. Of(q, Holds(m)) = {}
    BY <1>4 DEF Of, Holds, NoneIn
  <2> QED
    BY <2>1, PiecesCount, NoneOf
<1> QED
  BY <1>1, <1>2, <1>3, <1>4

\* What a step of a sender leaves alone; it adds no piece of a promised message.
LEMMA DrainBySenders ==
    ASSUME LineInv, MsgInv, DrainInv, NEW s \in Senders,
           SenderStep(s) \/ Cancel(s) \/ (\E m \in Msgs : Send(s, m))
    PROVE  /\ UNCHANGED <<writerVars, disabled, stopVars>>
           /\ \A m : res[m] = "ok" => \A p \in Lanes :
                /\ NoneIn(booked[p], m) => NoneIn(booked'[p], m)
                /\ NoneIn(booked[p], m) /\ NoneIn(ring[p], m) => NoneIn(ring'[p], m)
<1> USE DEF LineInv, IInv
<1>a. UNCHANGED <<writerVars, disabled, stopVars>>
  BY DEF SenderStep, Lock, LockTimeout, AcquireBooked, AcquireFresh, AcquireNone, WaitRefilled,
         WaitFails, SetCongested, MovedNotify, Unlock, LateNotify, Cancel, Send, statusVars,
         WriteAppend, WriteFull, WriteFrame, WriteFragment, KeepOrCommit
<1>b. \A p \in Lanes : ring[p] \in Seq(Batch) /\ booked[p] \in Seq(Batch)
  BY LineTypes
<1> SUFFICES ASSUME NEW m, res[m] = "ok", NEW p \in Lanes, NoneIn(booked[p], m)
             PROVE  NoneIn(booked'[p], m) /\ (NoneIn(ring[p], m) => NoneIn(ring'[p], m))
  BY <1>a
<1>1. CASE ~Writes(s)
  <2>1. ring' = ring /\ (AcquireFresh(s) \/ booked' = booked)
    BY <1>1, QuietSteps
  <2>2. CASE AcquireFresh(s)
    <3> DEFINE b == FreshBatch(msg[s])
    <3>1. msg[s] \in Msgs
      BY <2>2, SendTypes DEF AcquireFresh
    <3>2. b \in Batch /\ ~Has(b, m)
      <4>1. b \in Batch /\ b.msgs = <<>>
        BY <3>1, FreshBatchType DEF FreshBatch
      <4> QED
        BY <4>1, EmptySeq DEF Has
    <3>3. booked'[p] = booked[p] \/ booked'[p] = <<b>>
      BY <2>2 DEF AcquireFresh, TypeOK, LaneTypeOK
    <3> HIDE DEF b
    <3> QED
      BY ZenonT(60), <1>b, <2>1, <3>2, <3>3, NoneSeqs
  <2> QED
    BY <2>1, <2>2
<1>2. CASE Writes(s)
  <2>1. PICK c \in Batch : Wrote(s, c)
    BY <1>2, Writing
  <2>2. m # msg[s]
    BY <2>1 DEF Wrote, MsgInv, SendInv, Sending
  <2>3. CASE p # LaneOf(s)
    BY <2>1, <2>3 DEF Wrote, Commit, TypeOK, LaneTypeOK
  <2>4. CASE p = LaneOf(s)
    <3>1. booked[p] = <<Last(s)>> /\ Last(s) \in Batch
      BY <1>2, <2>4, Writing
    <3>2. ~Has(Last(s), m)
      <4>1. Len(<<Last(s)>>) = 1 /\ <<Last(s)>>[1] = Last(s) /\ 1 \in 1..1
        OBVIOUS
      <4> QED
        BY <3>1, <4>1 DEF NoneIn
    <3>3. ~Has(c, m)
      BY <1>2, <2>1, <2>2, <3>2, HasWritten
    <3>4. \/ booked'[p] = <<>> /\ ring'[p] = Append(ring[p], c)
          \/ booked'[p] = <<c>> /\ ring'[p] = ring[p]
      BY <2>1, <2>4 DEF Wrote, Commit, TypeOK, LaneTypeOK
    <3>5. /\ NoneIn(<<>>, m) /\ NoneIn(<<c>>, m)
          /\ NoneIn(ring[p], m) => NoneIn(Append(ring[p], c), m)
      BY <1>b, <3>3, NoneSeqs
    <3> QED
      BY <3>4, <3>5
  <2> QED
    BY <2>3, <2>4
<1> QED
  BY <1>1, <1>2

\* A request to stop promises what is accepted before the writer task drains.
LEMMA DrainByStops ==
    ASSUME DrainInv, StopDisable \/ TaskStop
    PROVE  /\ UNCHANGED <<wpc, linkUp, hand, ring, booked, res>>
           /\ disabled \/ token => promised' = promised /\ (disabled \/ token)'
           /\ ~(disabled \/ token) => ~(wpc \in Draining /\ linkUp)
           /\ \A m \in promised' : res[m] = "ok"
BY DEF StopDisable, TaskStop, Promise, DrainInv, laneVars, senderVars, writerVars

\* The steps of the writer task and of a stop that goes on.
LEMMA DrainByOthers ==
    ASSUME LineInv, DrainInv,
           WriterStep \/ KeepAlive \/ KeepAliveWritten \/ SeeToken \/ StopStep \/ UNCHANGED vars
    PROVE  DrainInv'
<1> USE DEF LineInv, IInv
<1>a. UNCHANGED <<res, promised, disabled>> /\ (token => token')
      /\ (linkUp' => linkUp)
  <2>1. UNCHANGED <<res, promised, disabled>> /\ (token => token')
    BY DEF WriterStep, PullStep, WriteStep, DrainStep, FireRefill, PullCheck, PullSome,
           PullBooked, SetBackoff, PullNone, Yield, SetFlush, TryFlush, ResetBackoff, Unpark,
           TryPullCheck, TryPullSome, TryPullNone, TakeHead, Write, WriteFails, RefillHand,
           RefillDone, DrainLock, DrainFlush, DrainPull, DrainUnlock, DrainWrite,
           DrainWriteFails, DrainDone, Close, CloseLane, KeepAlive, KeepAliveWritten, SeeToken,
           StopStep, StopLock, StopFlush, StopCancel, vars, statusVars, senderVars, stopVars
  <2> QED
    BY <2>1, OtherMoves
<1>b. \A p \in Lanes : ring[p] \in Seq(Batch) /\ booked[p] \in Seq(Batch)
  BY LineTypes
<1>1. wpc' = "closed" => hand' = <<>>
  BY DEF DrainInv, WriterStep, PullStep, WriteStep, DrainStep, FireRefill, PullCheck, PullSome,
         PullBooked, SetBackoff, PullNone, Yield, SetFlush, TryFlush, ResetBackoff, Unpark,
         TryPullCheck, TryPullSome, TryPullNone, TakeHead, Write, WriteFails, RefillHand,
         RefillDone, DrainLock, DrainFlush, DrainPull, DrainUnlock, DrainWrite,
         DrainWriteFails, DrainDone, Close, CloseLane, KeepAlive, KeepAliveWritten, SeeToken,
         StopStep, StopLock, StopFlush, StopCancel, vars, writerVars
<1>2. wpc' \in Draining /\ linkUp' => (wpc \in Draining \/ disabled \/ token)
  BY DEF Draining, WriterStep, PullStep, WriteStep, DrainStep, FireRefill, PullCheck, PullSome,
         PullBooked, SetBackoff, PullNone, Yield, SetFlush, TryFlush, ResetBackoff, Unpark,
         TryPullCheck, TryPullSome, TryPullNone, TakeHead, Write, WriteFails, RefillHand,
         RefillDone, DrainLock, DrainFlush, DrainPull, DrainUnlock, DrainWrite,
         DrainWriteFails, DrainDone, Close, CloseLane, KeepAlive, KeepAliveWritten, SeeToken,
         StopStep, StopLock, StopFlush, StopCancel, vars, writerVars
<1>3. ASSUME linkUp', NEW m \in promised, NEW p \in Lanes
      PROVE  /\ wpc' \in {"drainpull", "drainwrite", "closed"} => NoneIn(booked'[p], m)
             /\ wpc' \in {"drainwrite", "closed"} => NoneIn(ring'[p], m)
  <2>1. /\ wpc \in {"drainpull", "drainwrite", "closed"} => NoneIn(booked[p], m)
        /\ wpc \in {"drainwrite", "closed"} => NoneIn(ring[p], m)
    BY <1>a, <1>3 DEF DrainInv
  <2>2. NoneIn(<<>>, m)
    BY <1>b, NoneSeqs
  <2>3. CASE DrainFlush
    BY <2>2, <2>3 DEF DrainFlush, FlushLanes
  <2>4. CASE DrainUnlock
    BY <2>1, <2>2, <2>4 DEF DrainUnlock
  <2>5. CASE DrainPull
    BY <2>1, <2>5 DEF DrainPull
  <2>6. CASE DrainDone \/ DrainWriteFails
    BY <2>1, <2>6 DEF DrainDone, DrainWriteFails, Close, laneVars
  <2>7. CASE StopFlush
    <3>1. \/ ring'[p] = ring[p] /\ booked'[p] = booked[p]
          \/ ring'[p] = ring[p] \o booked[p] /\ booked'[p] = <<>>
      BY <2>7 DEF StopFlush, FlushLanes
    <3>2. wpc' = wpc
      BY <2>7 DEF StopFlush, writerVars
    <3>3. NoneIn(ring[p], m) /\ NoneIn(booked[p], m) => NoneIn(ring[p] \o booked[p], m)
      BY <1>b, NoneSeqs
    <3> QED
      BY <2>1, <2>2, <3>1, <3>2, <3>3
  <2>8. CASE /\ UNCHANGED <<ring, booked>>
             /\ wpc' = wpc \/ wpc' \notin {"drainpull", "drainwrite", "closed"}
    BY <2>1, <2>8
  <2>9. CASE wpc' \notin {"drainpull", "drainwrite", "closed"}
    BY <2>9
  <2>10. \/ DrainFlush \/ DrainUnlock \/ DrainPull \/ DrainDone \/ DrainWriteFails \/ StopFlush
         \/ /\ UNCHANGED <<ring, booked>>
            /\ wpc' = wpc \/ wpc' \notin {"drainpull", "drainwrite", "closed"}
         \/ wpc' \notin {"drainpull", "drainwrite", "closed"}
    BY DEF WriterStep, PullStep, WriteStep, DrainStep, FireRefill, PullCheck, PullSome,
           PullBooked, SetBackoff, PullNone, Yield, SetFlush, TryFlush, ResetBackoff, Unpark,
           TryPullCheck, TryPullSome, TryPullNone, TakeHead, Write, WriteFails, RefillHand,
           RefillDone, DrainLock, DrainWrite, CloseLane, KeepAlive, KeepAliveWritten, SeeToken,
           StopStep, StopLock, StopCancel, vars, laneVars, writerVars
  <2> QED
    BY <2>3, <2>4, <2>5, <2>6, <2>7, <2>8, <2>9, <2>10
<1> QED
  BY <1>a, <1>1, <1>2, <1>3 DEF DrainInv

LEMMA DrainSteps == ASSUME LineInv, MsgInv, DrainInv, [Next]_vars PROVE DrainInv'
<1>1. ASSUME NEW s \in Senders, SenderStep(s) \/ Cancel(s) \/ (\E m \in Msgs : Send(s, m))
      PROVE  DrainInv'
  <2>1. UNCHANGED <<wpc, hand, linkUp, disabled, token, promised>>
    BY <1>1, DrainBySenders DEF writerVars, stopVars
  <2>2. \A m \in promised : m \in Msgs /\ res[m] = "ok" /\ res'[m] = "ok"
    <3>1. promised \in SUBSET Msgs
      BY DEF LineInv, IInv, TypeOK, StopTypeOK
    <3>2. \A m \in Msgs : Turned(m)
      BY MsgStep
    <3> QED
      BY <3>1, <3>2 DEF DrainInv, Turned
  <2>3. \A m \in promised : \A p \in Lanes :
          /\ NoneIn(booked[p], m) => NoneIn(booked'[p], m)
          /\ NoneIn(booked[p], m) /\ NoneIn(ring[p], m) => NoneIn(ring'[p], m)
    BY <1>1, <2>2, DrainBySenders
  <2>4. linkUp' => \A m \in promised' : \A p \in Lanes :
          /\ wpc' \in {"drainpull", "drainwrite", "closed"} => NoneIn(booked'[p], m)
          /\ wpc' \in {"drainwrite", "closed"} => NoneIn(ring'[p], m)
    BY <2>1, <2>3 DEF DrainInv
  <2> QED
    BY <2>1, <2>2, <2>4 DEF DrainInv
<1>2. CASE StopDisable \/ TaskStop
  <2>1. /\ UNCHANGED <<wpc, linkUp, hand, ring, booked, res>>
        /\ disabled \/ token => promised' = promised /\ (disabled \/ token)'
        /\ ~(disabled \/ token) => ~(wpc \in Draining /\ linkUp)
        /\ \A m \in promised' : res[m] = "ok"
    BY <1>2, DrainByStops
  <2>2. CASE disabled \/ token
    BY <2>1, <2>2 DEF DrainInv
  <2>3. CASE ~(wpc \in Draining /\ linkUp)
    BY <2>1, <2>3 DEF DrainInv, Draining
  <2> QED
    BY <2>1, <2>2, <2>3
<1>3. CASE WriterStep \/ KeepAlive \/ KeepAliveWritten \/ SeeToken \/ StopStep \/ UNCHANGED vars
  BY <1>3, DrainByOthers
<1> QED
  BY <1>1, <1>2, <1>3 DEF Next

\* A message that was accepted before anyone asked to stop is on the wire as a
\* whole when the writer task has returned, unless a write failed: disable and
\* drain lock every lane and flush it before the last batches are pulled, while
\* senders that are not through go on adding to their lanes (PipelineTxIn::disable,
\* PipelineTxOut::drain, write_task).
THEOREM StopDeliversAccepted == Safety => []StopLosesNothing
<1>1. Init => MessageInv /\ DrainInv
  BY MessageInit DEF Init, DrainInv, Draining
<1>2. MessageInv /\ DrainInv /\ [Next]_vars => (MessageInv /\ DrainInv)'
  BY MessageStep, DrainSteps DEF MessageInv, FragInv
<1>3. MessageInv /\ DrainInv => StopLosesNothing
  <2> SUFFICES ASSUME MessageInv, DrainInv, wpc = "closed", linkUp, NEW m \in promised,
                      Block(m) \/ Lossless("drop")
               PROVE  Delivered(m)
    BY DEF StopLosesNothing
  <2>1. LineInv /\ SoundInv /\ CountInv
    BY DEF MessageInv, FragInv
  <2>2. m \in Msgs /\ res[m] = "ok" /\ PrioOf[m] \in Lanes
    BY <2>1, MessageAssumption DEF LineInv, IInv, TypeOK, StopTypeOK, DrainInv
  <2>3. Queued(m) + Written(m) = FragsOf[m]
    BY <2>1, <2>2, LineCount DEF CountInv, Intact
  <2>4. ring[PrioOf[m]] \in Seq(Batch) /\ booked[PrioOf[m]] \in Seq(Batch) /\ wire \in Seq(Batch)
    BY <2>1, <2>2, LineTypes DEF LineInv, IInv
  <2>5. NoneIn(ring[PrioOf[m]], m) /\ NoneIn(booked[PrioOf[m]], m)
    BY <2>2 DEF DrainInv
  <2>6. Unwritten = <<>>
    <3>1. hand \in Seq(Batch) /\ nref \in 0..Len(hand) /\ Unwritten = Rest(hand, nref, wpc)
      BY <2>1, LineTypes DEF LineInv, IInv
    <3>2. nref = Len(hand) => Unwritten = <<>>
      BY <3>1, Rests
    <3>3. Len(hand) = 0
      BY EmptySeq DEF DrainInv
    <3> QED
      BY <3>1, <3>2, <3>3
  <2>7. <<>> \in Seq(Batch) /\ NoneIn(<<>>, m)
    BY <2>4, EmptySeq, NoneSeqs
  <2>8. PiecesIn(ring[PrioOf[m]], m) = 0 /\ PiecesIn(booked[PrioOf[m]], m) = 0
    BY <2>4, <2>5, NoneSeqs
  <2>9. PiecesIn(Unwritten, m) = 0
    BY <2>6, <2>7, NoneSeqs
  <2>10. Queued(m) = 0
    BY <2>8, <2>9 DEF Queued
  <2>11. Written(m) \in Nat
    BY <2>4, PiecesCount, Counts, LenProperties DEF Written
  <2> QED
    BY <2>3, <2>10, <2>11 DEF Delivered
<1> QED
  BY <1>1, <1>2, <1>3, PTL DEF Safety
==============================================================================
