--------------------------- MODULE SessionProofs ---------------------------
(* Proofs about Session, for any number of tasks, calls and attempts. *)
EXTENDS Session, TLAPS

USE DEF Sending, Holding, Reconnecting, Left, Results, SendErrors

(* The state space of Session is the one TypeOK gives. *)
LEMMA TypeStep == TypeOK /\ [Next]_vars => TypeOK'
<1> SUFFICES ASSUME TypeOK, [Next]_vars PROVE TypeOK'
  OBVIOUS
<1> USE DEF TypeOK, slotVars, lockVars, callVars, Goto, Return, Retry
<1>1. ASSUME NEW t \in Tasks, StartSend(t) PROVE TypeOK'
  BY <1>1 DEF StartSend
<1>2. ASSUME NEW t \in Tasks, RejectTooLarge(t) PROVE TypeOK'
  BY <1>2 DEF RejectTooLarge
<1>3. ASSUME NEW t \in Tasks, OpenUni(t) PROVE TypeOK'
  BY <1>3 DEF OpenUni
<1>4. ASSUME NEW t \in Tasks, WriteAll(t) PROVE TypeOK'
  BY <1>4 DEF WriteAll
<1>5. ASSUME NEW t \in Tasks, PeerReceives(t) \/ PeerStops(t) PROVE TypeOK'
  BY <1>5 DEF PeerReceives, PeerStops
<1>6. ASSUME NEW t \in Tasks, SendAcked(t) PROVE TypeOK'
  BY <1>6 DEF SendAcked
<1>7. ASSUME NEW t \in Tasks, NEW e \in SendErrors, Failed(t, e) PROVE TypeOK'
  <2> USE <1>7 DEF Failed
  <2>1. pc' \in [Tasks -> {"idle", "close", "closing"} \union Left \union Sending
                          \union Reconnecting]
    OBVIOUS
  <2>2. result' \in [Tasks -> Results]
    OBVIOUS
  <2>3. /\ stream' \in [Tasks -> {"none", "open", "received", "stopped"}]
        /\ conn' \in [Tasks -> Nat] /\ fresh' \in [Tasks -> Nat]
        /\ attempts' \in [Tasks -> Nat]
        /\ UNCHANGED <<connection, established, reconnect_lock, calls, waited>>
    OBVIOUS
  <2>4. live' \subseteq 1..established
    BY DEF CloseOnTimeout
  <2>5. ahead' \in [Tasks -> SUBSET Tasks]
    BY DEF JoinQueue, Waiting
  <2> QED
    BY <2>1, <2>2, <2>3, <2>4, <2>5
<1>8. ASSUME NEW t \in Tasks, AttemptEnds(t) PROVE TypeOK'
  BY <1>6, <1>7, <1>8 DEF AttemptEnds, SendLost, SendStopped, SendTimeout
<1>9. ASSUME NEW t \in Tasks, LockGranted(t) PROVE TypeOK'
  <2>1. CASE ReuseConnection(t)
    BY <2>1 DEF ReuseConnection, LeaveQueue
  <2>2. CASE BeginReconnect(t)
    BY <2>2 DEF BeginReconnect, LeaveQueue
  <2> QED
    BY <1>9, <2>1, <2>2 DEF LockGranted
<1>10. ASSUME NEW t \in Tasks, DialSucceeds(t) PROVE TypeOK'
  BY <1>10 DEF DialSucceeds, NewConnection, CountDial, Count
<1>11. ASSUME NEW t \in Tasks, DialFails(t) PROVE TypeOK'
  <2> USE DEF CountDial, Count
  <2>1. PICK e \in DialErrors : DialTerminal(t, e) \/ DialExhausted(t, e) \/ DialBackoff(t, e)
    BY <1>11 DEF DialFails
  <2>2. CASE DialTerminal(t, e)
    BY <2>2 DEF DialTerminal
  <2>3. CASE DialExhausted(t, e)
    BY <2>3 DEF DialExhausted
  <2>4. CASE DialBackoff(t, e)
    BY <2>4 DEF DialBackoff
  <2> QED
    BY <2>1, <2>2, <2>3, <2>4
<1>12. ASSUME NEW t \in Tasks, Install(t) PROVE TypeOK'
  BY <1>12 DEF Install
<1>13. ASSUME NEW t \in Tasks, Wake(t) PROVE TypeOK'
  BY <1>13 DEF Wake
<1>14. ASSUME NEW t \in Tasks, CancelSend(t) PROVE TypeOK'
  BY <1>14 DEF CancelSend, DropFresh, LeaveQueue
<1>15. ASSUME NEW t \in Tasks,
              \/ CancelClose(t) \/ DropHandle(t) \/ BeginClose(t) \/ Close(t)
              \/ EndpointIdle(t)
       PROVE TypeOK'
  <2>1. CASE CancelClose(t) \/ DropHandle(t) \/ EndpointIdle(t)
    BY <2>1 DEF CancelClose, DropHandle, EndpointIdle, Leave
  <2>2. CASE BeginClose(t)
    BY <2>2 DEF BeginClose
  <2>3. CASE Close(t)
    BY <2>3 DEF Close
  <2> QED
    BY <1>15, <2>1, <2>2, <2>3
<1>16. ASSUME NEW c \in live, LoseConnection(c) PROVE TypeOK'
  BY <1>16 DEF LoseConnection
<1>17. CASE UNCHANGED vars
  BY <1>17 DEF vars
<1> QED
  BY <1>1, <1>2, <1>3, <1>4, <1>5, <1>8, <1>9, <1>10, <1>11, <1>12, <1>13, <1>14, <1>15,
     <1>16, <1>17 DEF Next, Send, Peer, DialResolves, Dropped, Quiescent

(* Every variable of Session keeps its type: Spec => []TypeOK. *)
THEOREM Typing == Spec => []TypeOK
<1>1. Init => TypeOK
  BY DEF Init, TypeOK
<1> QED
  BY <1>1, TypeStep, PTL DEF Spec

-----------------------------------------------------------------------------
(* The inductive invariant.  SingleConnection alone is not inductive: that a dial
   finds no open connection depends on the lock (one dialler at a time), on the
   slot still holding what the dialler gave up (HolderIsCurrent) and on that being
   dead (StaleIsDead), which in turn needs new connections to have new numbers. *)

(* Steps that leave connections, lock and phases alone. *)
LEMMA InvCalm ==
    ASSUME SlotInv, NEW t \in Tasks,
           \/ StartSend(t) \/ RejectTooLarge(t) \/ OpenUni(t) \/ WriteAll(t)
           \/ PeerReceives(t) \/ PeerStops(t) \/ SendAcked(t)
    PROVE  SlotInv'
<1> USE DEF SlotInv, slotVars, lockVars, Goto
<1>1. TypeOK'
  BY TypeStep DEF Next, Send, Peer, AttemptEnds
<1>2. CASE StartSend(t)
  BY <1>1, <1>2, TasksAssumption DEF StartSend, TypeOK, LockDiscipline, StaleIsDead,
     HolderIsCurrent, Numbering, NumberingOf, LiveIsReachable
<1>3. CASE RejectTooLarge(t)
  BY <1>1, <1>3 DEF RejectTooLarge, LockDiscipline, StaleIsDead, HolderIsCurrent,
     Numbering, NumberingOf, LiveIsReachable
<1>4. CASE OpenUni(t)
  BY <1>1, <1>4, TasksAssumption DEF OpenUni, TypeOK, LockDiscipline, StaleIsDead,
     HolderIsCurrent, Numbering, NumberingOf, LiveIsReachable
<1>5. CASE WriteAll(t)
  BY <1>1, <1>5, TasksAssumption DEF WriteAll, TypeOK, LockDiscipline, StaleIsDead,
     HolderIsCurrent, Numbering, NumberingOf, LiveIsReachable
<1>6. CASE PeerReceives(t) \/ PeerStops(t)
  BY <1>1, <1>6 DEF PeerReceives, PeerStops, LockDiscipline, StaleIsDead,
     HolderIsCurrent, Numbering, NumberingOf, LiveIsReachable
<1>7. CASE SendAcked(t)
  BY <1>1, <1>7, TasksAssumption DEF SendAcked, Return, TypeOK, LockDiscipline, StaleIsDead,
     HolderIsCurrent, Numbering, NumberingOf, LiveIsReachable
<1> QED
  BY <1>2, <1>3, <1>4, <1>5, <1>6, <1>7

(* An attempt that fails: either the call goes and reconnects, and then its
   connection is dead, by loss or by the close on timeout, or it returns. *)
LEMMA InvFailed ==
    ASSUME SlotInv, NEW t \in Tasks, NEW e \in SendErrors, pc[t] \in Sending,
           e = "ConnectionLost" => On(t) \notin live,
           Failed(t, e), TypeOK'
    PROVE  SlotInv'
<1> USE DEF SlotInv, slotVars, lockVars, Goto
<1>1. CASE MayReplay(t, e)
  <2> USE <1>1 DEF Failed, MayReplay
  <2>1. conn[t] \notin live'
    BY DEF CloseOnTimeout, On, Reconnectable
  <2>2. live' \subseteq live
    BY DEF CloseOnTimeout
  <2>3. LockDiscipline' /\ HolderIsCurrent'
    BY TasksAssumption DEF TypeOK, LockDiscipline, HolderIsCurrent
  <2>4. StaleIsDead'
    BY <2>1, <2>2 DEF TypeOK, StaleIsDead
  <2>5. Numbering'
    BY DEF TypeOK, Numbering, NumberingOf
  <2>6. \A u \in Tasks : pc[u] = "install" => pc'[u] = "install"
    BY DEF TypeOK
  <2>7. LiveIsReachable'
    BY <2>2, <2>6 DEF LiveIsReachable
  <2> QED
    BY <2>3, <2>4, <2>5, <2>7
<1>2. CASE ~ MayReplay(t, e)
  <2> USE <1>2, TasksAssumption DEF Failed, Return, TypeOK
  <2>1. LockDiscipline' /\ StaleIsDead' /\ HolderIsCurrent'
    BY DEF LockDiscipline, StaleIsDead, HolderIsCurrent
  <2>2. Numbering'
    BY DEF Numbering, NumberingOf
  <2>3. LiveIsReachable'
    BY DEF LiveIsReachable
  <2> QED
    BY <2>1, <2>2, <2>3
<1> QED
  BY <1>1, <1>2

(* The lock is granted: to reuse what another task has put in the slot, or to dial. *)
LEMMA InvLockGranted ==
    ASSUME SlotInv, NEW t \in Tasks, LockGranted(t), TypeOK'
    PROVE  SlotInv'
<1> USE TasksAssumption DEF SlotInv, slotVars, lockVars, Goto, Turn, StillCurrent
<1>1. CASE ReuseConnection(t)
  <2> USE <1>1 DEF ReuseConnection, Retry, TypeOK
  <2>1. LockDiscipline' /\ StaleIsDead' /\ HolderIsCurrent'
    BY DEF LockDiscipline, StaleIsDead, HolderIsCurrent
  <2>2. /\ conn[t] \in Nat /\ conn[t] > 0 /\ conn[t] <= connection
        /\ connection \in Nat /\ connection > 0 /\ connection <= established
    BY DEF Numbering, NumberingOf
  <2>3. conn[t] < connection
    <3>1. connection # conn[t]
      OBVIOUS
    <3> QED
      BY ONLY <2>2, <3>1
  <2>4. NumberingOf(t)'
    <3>1. /\ pc'[t] = "open_uni" /\ conn'[t] = conn[t] /\ fresh'[t] = connection
          /\ connection' = connection /\ established' = established
      OBVIOUS
    <3> QED
      BY ONLY <2>2, <2>3, <3>1 DEF NumberingOf, Sending, Reconnecting, Holding
  <2>5. ASSUME NEW u \in Tasks, u # t PROVE NumberingOf(u)'
    BY <2>5 DEF Numbering, NumberingOf
  <2>6. Numbering'
    BY <2>2, <2>4, <2>5 DEF Numbering
  <2>7. LiveIsReachable'
    BY DEF LiveIsReachable
  <2> QED
    BY <2>1, <2>6, <2>7
<1>2. CASE BeginReconnect(t)
  <2> USE <1>2 DEF BeginReconnect, TypeOK
  <2>1. LockDiscipline' /\ StaleIsDead' /\ HolderIsCurrent'
    BY DEF LockDiscipline, StaleIsDead, HolderIsCurrent
  <2>2. Numbering' /\ LiveIsReachable'
    BY DEF Numbering, NumberingOf, LiveIsReachable
  <2> QED
    BY <2>1, <2>2
<1> QED
  BY <1>1, <1>2 DEF LockGranted

(* A dial succeeds, fails for good, uses up the attempts, or backs off. *)
LEMMA InvDialResolves ==
    ASSUME SlotInv, NEW t \in Tasks, DialResolves(t), TypeOK'
    PROVE  SlotInv'
<1> USE TasksAssumption DEF SlotInv, TypeOK, slotVars, lockVars, Goto
<1>1. CASE DialSucceeds(t)
  <2> USE <1>1 DEF DialSucceeds, NewConnection
  <2>1. LockDiscipline' /\ HolderIsCurrent'
    BY DEF LockDiscipline, HolderIsCurrent
  <2>2. StaleIsDead'
    BY DEF StaleIsDead, Numbering, NumberingOf
  <2>3. Numbering'
    BY DEF Numbering, NumberingOf
  <2>4. LiveIsReachable'
    BY DEF LiveIsReachable
  <2> QED
    BY <2>1, <2>2, <2>3, <2>4
<1>2. ASSUME NEW e \in DialErrors, DialTerminal(t, e) \/ DialExhausted(t, e) PROVE SlotInv'
  <2> USE <1>2 DEF DialTerminal, DialExhausted, Return
  <2>1. LockDiscipline' /\ StaleIsDead' /\ HolderIsCurrent'
    BY DEF LockDiscipline, StaleIsDead, HolderIsCurrent
  <2>2. Numbering'
    BY DEF Numbering, NumberingOf
  <2>3. LiveIsReachable'
    BY DEF LiveIsReachable
  <2> QED
    BY <2>1, <2>2, <2>3
<1>3. ASSUME NEW e \in DialErrors, DialBackoff(t, e) PROVE SlotInv'
  <2> USE <1>3 DEF DialBackoff
  <2>1. LockDiscipline' /\ StaleIsDead' /\ HolderIsCurrent'
    BY DEF LockDiscipline, StaleIsDead, HolderIsCurrent
  <2>2. Numbering' /\ LiveIsReachable'
    BY DEF Numbering, NumberingOf, LiveIsReachable
  <2> QED
    BY <2>1, <2>2
<1> QED
  BY <1>1, <1>2, <1>3 DEF DialResolves, DialFails

(* The dialler puts the new connection in the slot, or wakes up to dial again. *)
LEMMA InvHolder ==
    ASSUME SlotInv, NEW t \in Tasks, Install(t) \/ Wake(t), TypeOK'
    PROVE  SlotInv'
<1> USE TasksAssumption DEF SlotInv, TypeOK, slotVars, lockVars, Goto
<1>1. CASE Install(t)
  <2> USE <1>1 DEF Install, Retry
  <2>1. LockDiscipline' /\ StaleIsDead'
    BY DEF LockDiscipline, StaleIsDead
  <2>2. HolderIsCurrent'
    BY DEF LockDiscipline, HolderIsCurrent
  <2>3. Numbering'
    BY DEF LockDiscipline, Numbering, NumberingOf
  <2>4. LiveIsReachable'
    BY DEF LiveIsReachable, LockDiscipline, StaleIsDead, HolderIsCurrent
  <2> QED
    BY <2>1, <2>2, <2>3, <2>4
<1>2. CASE Wake(t)
  BY <1>2 DEF Wake, LockDiscipline, StaleIsDead, HolderIsCurrent, Numbering, NumberingOf,
     LiveIsReachable
<1> QED
  BY <1>1, <1>2

(* A call is dropped, a handle is closed, a connection is lost. *)
LEMMA InvEnds ==
    ASSUME SlotInv, TypeOK',
           \/ \E t \in Tasks : Dropped(t) \/ BeginClose(t) \/ Close(t) \/ EndpointIdle(t)
           \/ \E c \in live : LoseConnection(c)
    PROVE  SlotInv'
<1> USE TasksAssumption DEF SlotInv, TypeOK, slotVars, lockVars, Goto
<1>1. ASSUME NEW t \in Tasks, CancelSend(t) PROVE SlotInv'
  <2> USE <1>1 DEF CancelSend, Return, DropFresh
  <2>1. LockDiscipline' /\ StaleIsDead' /\ HolderIsCurrent'
    BY DEF LockDiscipline, StaleIsDead, HolderIsCurrent
  <2>2. Numbering'
    BY DEF Numbering, NumberingOf
  <2>3. LiveIsReachable'
    BY DEF LiveIsReachable
  <2> QED
    BY <2>1, <2>2, <2>3
<1>2. ASSUME NEW t \in Tasks, CancelClose(t) \/ DropHandle(t) \/ EndpointIdle(t)
      PROVE  SlotInv'
  <2> USE <1>2 DEF CancelClose, DropHandle, EndpointIdle, Leave
  <2>1. LockDiscipline' /\ StaleIsDead' /\ HolderIsCurrent'
    BY DEF LockDiscipline, StaleIsDead, HolderIsCurrent
  <2>2. Numbering'
    BY DEF Numbering, NumberingOf
  <2>3. LiveIsReachable'
    BY DEF LiveIsReachable
  <2> QED
    BY <2>1, <2>2, <2>3
<1>3. ASSUME NEW t \in Tasks, BeginClose(t) \/ Close(t) PROVE SlotInv'
  <2> USE <1>3 DEF BeginClose, Close
  <2>1. LockDiscipline' /\ StaleIsDead' /\ HolderIsCurrent'
    BY DEF LockDiscipline, StaleIsDead, HolderIsCurrent
  <2>2. Numbering'
    BY DEF Numbering, NumberingOf
  <2>3. LiveIsReachable'
    BY DEF LiveIsReachable
  <2> QED
    BY <2>1, <2>2, <2>3
<1>4. ASSUME NEW c \in live, LoseConnection(c) PROVE SlotInv'
  BY <1>4 DEF LoseConnection, callVars, LockDiscipline, StaleIsDead, HolderIsCurrent,
     Numbering, NumberingOf, LiveIsReachable
<1> QED
  BY <1>1, <1>2, <1>3, <1>4 DEF Dropped

LEMMA InvInit == Init => SlotInv
BY TasksAssumption DEF Init, SlotInv, TypeOK, LockDiscipline, StaleIsDead, HolderIsCurrent,
   Numbering, NumberingOf, LiveIsReachable

LEMMA InvStep == SlotInv /\ [Next]_vars => SlotInv'
<1> SUFFICES ASSUME SlotInv, [Next]_vars PROVE SlotInv'
  OBVIOUS
<1>1. TypeOK'
  BY TypeStep DEF SlotInv
<1>2. ASSUME NEW t \in Tasks, Send(t) \/ Peer(t) PROVE SlotInv'
  BY <1>2, InvCalm DEF Send, Peer
<1>3. ASSUME NEW t \in Tasks, AttemptEnds(t) PROVE SlotInv'
  BY <1>1, <1>3, InvCalm, InvFailed DEF AttemptEnds, SendLost, SendStopped, SendTimeout
<1>4. CASE UNCHANGED vars
  BY <1>4 DEF vars, slotVars, lockVars, callVars, SlotInv, TypeOK, LockDiscipline, StaleIsDead,
     HolderIsCurrent, Numbering, NumberingOf, LiveIsReachable
<1> QED
  BY <1>1, <1>2, <1>3, <1>4, InvLockGranted, InvDialResolves, InvHolder, InvEnds
  DEF Next, Quiescent

(* Only a task that is not closing can establish a connection, and a task that begins
   to close reads the slot, where every open connection is by then. *)
LEMMA ClosersStep == SlotInv /\ ClosersKnow /\ [Next]_vars => ClosersKnow'
<1> DEFINE Closing(t) == pc[t] \in {"close", "closing", "gone"}
<1> SUFFICES ASSUME SlotInv, ClosersKnow, [Next]_vars,
                    \A t \in Tasks : Closing(t)'
             PROVE  \A c \in live' : \E t \in Tasks : pc'[t] = "close" /\ conn'[t] = c
  BY DEF ClosersKnow
<1> DEFINE Known == \A c \in live' : \E t \in Tasks : pc'[t] = "close" /\ conn'[t] = c
<1> USE DEF SlotInv, TypeOK, slotVars, lockVars, callVars, Goto
<1>1. ASSUME NEW t \in Tasks, BeginClose(t) PROVE Known
  <2>1. \A u \in Tasks : pc[u] # "install"
    BY <1>1 DEF BeginClose
  <2>2. live \subseteq {connection}
    BY <2>1 DEF LiveIsReachable
  <2> QED
    BY <1>1, <2>2 DEF BeginClose
<1>2. ASSUME NEW t \in Tasks, Close(t) PROVE Known
  BY <1>2 DEF Close, ClosersKnow
<1>3. ASSUME NEW t \in Tasks, CancelClose(t) \/ EndpointIdle(t) PROVE Known
  <2>1. pc[t] = "closing" /\ Leave(t, "gone")
    BY <1>3 DEF CancelClose, EndpointIdle
  <2> QED
    BY <2>1 DEF Leave, ClosersKnow
<1>4. ASSUME NEW c \in live, LoseConnection(c) PROVE Known
  BY <1>4 DEF LoseConnection, ClosersKnow
<1>5. ASSUME NEW t \in Tasks, Send(t) \/ Peer(t) PROVE FALSE
  BY <1>5 DEF Send, Peer, StartSend, RejectTooLarge, OpenUni, WriteAll, PeerReceives, PeerStops
<1>6. ASSUME NEW t \in Tasks, AttemptEnds(t) PROVE FALSE
  BY <1>6 DEF AttemptEnds, SendAcked, SendLost, SendStopped, SendTimeout, Failed, Return
<1>7. ASSUME NEW t \in Tasks, LockGranted(t) \/ Install(t) \/ Wake(t) PROVE FALSE
  BY <1>7 DEF LockGranted, ReuseConnection, BeginReconnect, Install, Wake, Retry
<1>8. ASSUME NEW t \in Tasks, DialResolves(t) PROVE FALSE
  BY <1>8 DEF DialResolves, DialSucceeds, DialFails, DialTerminal, DialExhausted, DialBackoff,
     Return
<1>9. ASSUME NEW t \in Tasks, CancelSend(t) \/ DropHandle(t) PROVE FALSE
  BY <1>9 DEF CancelSend, Return, DropHandle, Leave
<1>10. CASE UNCHANGED vars
  BY <1>10 DEF vars, ClosersKnow
<1> QED
  BY <1>1, <1>2, <1>3, <1>4, <1>5, <1>6, <1>7, <1>8, <1>9, <1>10 DEF Next, Dropped, Quiescent

(* The handle that leaves last has nobody installing beside it, so the slot holds all
   that is open; and without a handle nothing is established any more. *)
LEMMA OutlivesStep == SlotInv /\ NothingOutlives /\ [Next]_vars => NothingOutlives'
<1> SUFFICES ASSUME SlotInv, NothingOutlives, [Next]_vars,
                    \A t \in Tasks : pc'[t] \in Left
             PROVE  live' = {}
  BY DEF NothingOutlives
<1> USE DEF SlotInv, TypeOK, slotVars, lockVars, callVars, Goto
<1>1. ASSUME NEW t \in Tasks, CancelClose(t) \/ DropHandle(t) \/ EndpointIdle(t)
      PROVE  live' = {}
  <2>1. pc[t] \in {"idle", "closing"} /\ \E l \in Left : Leave(t, l)
    BY <1>1 DEF CancelClose, DropHandle, EndpointIdle
  <2>2. LastHandle(t)
    BY <2>1 DEF Leave, LastHandle
  <2>3. live \subseteq {connection}
    BY <2>1, <2>2 DEF LastHandle, LiveIsReachable
  <2> QED
    BY <2>1, <2>2, <2>3 DEF Leave
<1>2. ASSUME NEW c \in live, LoseConnection(c) PROVE live' = {}
  BY <1>2 DEF LoseConnection, NothingOutlives
<1>3. ASSUME NEW t \in Tasks, Send(t) \/ Peer(t) PROVE FALSE
  BY <1>3 DEF Send, Peer, StartSend, RejectTooLarge, OpenUni, WriteAll, PeerReceives, PeerStops
<1>4. ASSUME NEW t \in Tasks, AttemptEnds(t) PROVE FALSE
  BY <1>4 DEF AttemptEnds, SendAcked, SendLost, SendStopped, SendTimeout, Failed, Return
<1>5. ASSUME NEW t \in Tasks, LockGranted(t) \/ Install(t) \/ Wake(t) PROVE FALSE
  BY <1>5 DEF LockGranted, ReuseConnection, BeginReconnect, Install, Wake, Retry
<1>6. ASSUME NEW t \in Tasks, DialResolves(t) PROVE FALSE
  BY <1>6 DEF DialResolves, DialSucceeds, DialFails, DialTerminal, DialExhausted, DialBackoff,
     Return
<1>7. ASSUME NEW t \in Tasks, CancelSend(t) \/ BeginClose(t) \/ Close(t) PROVE FALSE
  BY <1>7 DEF CancelSend, Return, BeginClose, Close
<1>8. CASE UNCHANGED vars
  BY <1>8 DEF vars, NothingOutlives
<1> QED
  BY <1>1, <1>2, <1>3, <1>4, <1>5, <1>6, <1>7, <1>8 DEF Next, Dropped, Quiescent

(* What the lock, the pointer comparison, the close on timeout and the closing of the
   slot's connection keep true between them in every reachable state. *)
THEOREM Invariance == Spec => []IInv
<1>1. Init => ClosersKnow /\ NothingOutlives
  BY TasksAssumption DEF Init, ClosersKnow, NothingOutlives
<1>2. Init => IInv
  BY <1>1, InvInit DEF IInv
<1>3. IInv /\ [Next]_vars => IInv'
  BY InvStep, ClosersStep, OutlivesStep DEF IInv
<1> QED
  BY <1>2, <1>3, PTL DEF Spec

LEMMA InvSingle == IInv => SingleConnection
<1> SUFFICES ASSUME IInv PROVE SingleConnection
  OBVIOUS
<1> USE DEF IInv, SlotInv, LockDiscipline, LiveIsReachable
<1>1. ASSUME NEW t \in Tasks, pc[t] \in Holding PROVE connection \notin live
  BY <1>1 DEF HolderIsCurrent, StaleIsDead
<1>2. ASSUME NEW t \in Tasks, pc[t] = "dial", NEW c \in live PROVE FALSE
  BY <1>1, <1>2
<1>3. ASSUME NEW c \in live, NEW d \in live PROVE c = d
  BY <1>1, <1>3
<1> QED
  BY <1>2, <1>3 DEF SingleConnection

(* The client never has two open connections, nor one beside a dial in progress. *)
THEOREM OneConnection == Spec => []SingleConnection
BY Invariance, InvSingle, PTL

(* When every clone has called close, no connection is open, established by whom ever
   and whenever: not even by a clone that reconnected after the first close.  Nor when
   every clone is gone, closed or dropped. *)
THEOREM NothingLeftOpen == Spec => []LastCloseLeavesNothing
<1>1. IInv => LastCloseLeavesNothing
  BY DEF IInv, ClosersKnow, NothingOutlives, LastCloseLeavesNothing
<1> QED
  BY <1>1, Invariance, PTL

-----------------------------------------------------------------------------
(* Session implements Submission: every step of the code is a step of the promise,
   or none at all. *)

(* A step of t changes t's place in the abstract state only. *)
LEMMA Frame ==
    ASSUME NEW t \in Tasks,
           \A u \in Tasks \ {t} : UNCHANGED <<pc[u], conn[u], fresh[u]>>
    PROVE  /\ StageMap' = [StageMap EXCEPT ![t] = Stage(t)']
           /\ CarrierMap' = [CarrierMap EXCEPT ![t] = Carrier(t)']
<1>1. \A u \in Tasks \ {t} : Stage(u)' = Stage(u) /\ Carrier(u)' = Carrier(u)
  BY DEF Stage, Carrier, On
<1> QED
  BY <1>1 DEF StageMap, CarrierMap

(* A step that leaves everybody's place alone stutters. *)
LEMMA Stutter ==
    ASSUME \A t \in Tasks : Stage(t)' = Stage(t) /\ Carrier(t)' = Carrier(t),
           connection' = connection,
           connection' \in live' <=> connection \in live
    PROVE  UNCHANGED Submitted!vars
BY DEF Submitted!vars, StageMap, CarrierMap

LEMMA RefInit == Init => Submitted!Init
BY DEF Init, Submitted!Init, StageMap, CarrierMap, Stage, Carrier, On

(* The call ends. *)
LEMMA RefReturn ==
    ASSUME SlotInv, NEW t \in Tasks, NEW r, pc[t] \in Sending \union Reconnecting, Return(t, r),
           connection' = connection,
           connection' \in live' <=> connection \in live
    PROVE  Submitted!Finish(t)
<1> USE DEF SlotInv, TypeOK, Return, Goto
<1>1. \A u \in Tasks \ {t} : UNCHANGED <<pc[u], conn[u], fresh[u]>>
  OBVIOUS
<1>2. Stage(t)' = "rest" /\ Carrier(t)' = 0
  BY DEF Stage, Carrier, On
<1>3. StageMap[t] # "rest"
  BY DEF StageMap, Stage
<1> QED
  BY <1>1, <1>2, <1>3, Frame DEF Submitted!Finish, Submitted!Enter

LEMMA RefStart ==
    ASSUME SlotInv, NEW t \in Tasks, StartSend(t)
    PROVE  Submitted!Submit(t)
<1> USE DEF SlotInv, TypeOK, StartSend, Goto, slotVars
<1>1. \A u \in Tasks \ {t} : UNCHANGED <<pc[u], conn[u], fresh[u]>>
  OBVIOUS
<1>2. fresh[t] = 0
  BY DEF Numbering, NumberingOf
<1>3. Stage(t)' = "first" /\ Carrier(t)' = connection
  BY <1>2 DEF Stage, Carrier, On
<1>4. StageMap[t] = "rest"
  BY DEF StageMap, Stage
<1> QED
  BY <1>1, <1>3, <1>4, Frame DEF Submitted!Submit, Submitted!Enter

(* The first attempt is given up: if it ran on the current connection, that is dead. *)
LEMMA RefFail ==
    ASSUME SlotInv, NEW t \in Tasks, NEW e \in SendErrors, pc[t] \in Sending,
           e = "ConnectionLost" => On(t) \notin live,
           MayReplay(t, e), Failed(t, e)
    PROVE  Submitted!Fail(t)
<1> USE DEF SlotInv, TypeOK, Failed, MayReplay, Goto
<1>1. \A u \in Tasks \ {t} : UNCHANGED <<pc[u], conn[u], fresh[u]>>
  OBVIOUS
<1>2. Stage(t)' = "failed" /\ Carrier(t)' = conn[t]
  BY DEF Stage, Carrier, On
<1>3. StageMap[t] = "first" /\ CarrierMap[t] = conn[t]
  BY DEF StageMap, CarrierMap, Stage, Carrier, On
<1>4. connection' = connection
  OBVIOUS
<1>5. connection \in live' <=> connection \in live /\ conn[t] # connection
  BY DEF CloseOnTimeout, On, Reconnectable
<1> QED
  BY <1>1, <1>2, <1>3, <1>4, <1>5, Frame DEF Submitted!Fail, Submitted!Enter

(* Another task's connection is in the slot: the replay goes there. *)
LEMMA RefReuse ==
    ASSUME SlotInv, NEW t \in Tasks, ReuseConnection(t)
    PROVE  Submitted!Replay(t)
<1> USE DEF SlotInv, TypeOK, ReuseConnection, Turn, StillCurrent, Retry, Goto, slotVars
<1>1. \A u \in Tasks \ {t} : UNCHANGED <<pc[u], conn[u], fresh[u]>>
  OBVIOUS
<1>2. conn[t] \in Nat /\ conn[t] <= connection /\ connection \in Nat /\ fresh[t] = 0
  BY DEF Numbering, NumberingOf
<1>3. connection # 0 /\ conn[t] < connection
  <2>1. connection # conn[t] /\ connection \in 1..established
    BY DEF Numbering
  <2> QED
    BY ONLY <1>2, <2>1
<1>4. Stage(t)' = "replay" /\ Carrier(t)' = connection
  BY <1>3 DEF Stage, Carrier, On
<1>5. StageMap[t] = "failed" /\ CarrierMap[t] = conn[t]
  BY <1>2 DEF StageMap, CarrierMap, Stage, Carrier, On
<1>6. UNCHANGED <<connection, live>>
  OBVIOUS
<1> QED
  BY <1>1, <1>3, <1>4, <1>5, <1>6, Frame DEF Submitted!Replay, Submitted!Enter

(* The new connection replaces one that is down, and carries the replay. *)
LEMMA RefInstall ==
    ASSUME SlotInv, NEW t \in Tasks, Install(t)
    PROVE  Submitted!Redial(t)
<1> USE DEF SlotInv, TypeOK, Install, Retry, Goto
<1>1. \A u \in Tasks \ {t} : UNCHANGED <<pc[u], conn[u], fresh[u]>>
  OBVIOUS
<1>2. fresh[t] \in Nat /\ fresh[t] > connection /\ connection \in Nat /\ fresh[t] # 0
  BY DEF Numbering, NumberingOf
<1>3. conn[t] = connection /\ connection \notin live
  BY DEF HolderIsCurrent, StaleIsDead
<1>4. connection' = fresh[t]
  OBVIOUS
<1>5. Stage(t)' = "replay" /\ Carrier(t)' = fresh[t]
  BY <1>2 DEF Stage, Carrier, On
<1>6. StageMap[t] = "failed" /\ CarrierMap[t] = connection
  BY <1>3 DEF StageMap, CarrierMap, Stage, Carrier
<1> QED
  BY <1>1, <1>2, <1>3, <1>4, <1>5, <1>6, Frame DEF Submitted!Redial, Submitted!Enter

(* Waiting for a stream, the peer, the lock, a dial or the backoff: nothing shows. *)
LEMMA RefSilent ==
    ASSUME SlotInv, NEW t \in Tasks,
           \/ RejectTooLarge(t) \/ OpenUni(t) \/ WriteAll(t) \/ Peer(t)
           \/ BeginReconnect(t) \/ DialSucceeds(t) \/ Wake(t)
           \/ (\E e \in DialErrors : DialBackoff(t, e))
           \/ BeginClose(t)
    PROVE  UNCHANGED Submitted!vars
<1> USE DEF SlotInv, TypeOK, slotVars, lockVars, Goto
<1> DEFINE Silent == /\ \A u \in Tasks : Stage(u)' = Stage(u) /\ Carrier(u)' = Carrier(u)
                     /\ connection' = connection
                     /\ connection' \in live' <=> connection \in live
<1>1. CASE RejectTooLarge(t) \/ OpenUni(t) \/ WriteAll(t) \/ Peer(t)
  <2>1. Silent
    BY <1>1 DEF RejectTooLarge, OpenUni, WriteAll, Peer, PeerReceives, PeerStops,
       Stage, Carrier, On
  <2> QED
    BY <2>1, Stutter
<1>2. CASE BeginReconnect(t) \/ Wake(t) \/ \E e \in DialErrors : DialBackoff(t, e)
  <2>1. Silent
    BY <1>2 DEF BeginReconnect, Turn, Wake, DialBackoff, Stage, Carrier, On
  <2> QED
    BY <2>1, Stutter
<1>3. CASE DialSucceeds(t)
  <2>1. fresh[t] = 0 /\ connection \in 1..established
    BY <1>3 DEF DialSucceeds, Numbering, NumberingOf
  <2>2. Silent
    BY <1>3, <2>1 DEF DialSucceeds, NewConnection, Stage, Carrier, On
  <2> QED
    BY <2>2, Stutter
<1>4. CASE BeginClose(t)
  <2>1. Silent
    BY <1>4 DEF BeginClose, Stage, Carrier, On
  <2> QED
    BY <2>1, Stutter
<1> QED
  BY <1>1, <1>2, <1>3, <1>4

(* A connection that closes or is lost goes down if it is the current one.  The last
   handle that leaves closes it. *)
LEMMA RefDown ==
    ASSUME SlotInv,
           \/ \E t \in Tasks : Close(t) \/ CancelClose(t) \/ DropHandle(t) \/ EndpointIdle(t)
           \/ \E c \in live : LoseConnection(c)
    PROVE  Submitted!GoDown \/ UNCHANGED Submitted!vars
<1> USE DEF SlotInv, TypeOK, slotVars, lockVars, callVars, Goto
<1> DEFINE Fades == /\ \A u \in Tasks : Stage(u)' = Stage(u) /\ Carrier(u)' = Carrier(u)
                    /\ connection' = connection /\ live' \subseteq live
<1>1. Fades
  <2>1. ASSUME NEW t \in Tasks, Close(t) PROVE Fades
    BY <2>1 DEF Close, Stage, Carrier, On
  <2>2. ASSUME NEW c \in live, LoseConnection(c) PROVE Fades
    BY <2>2 DEF LoseConnection, Stage, Carrier, On
  <2>3. ASSUME NEW t \in Tasks, CancelClose(t) \/ DropHandle(t) \/ EndpointIdle(t)
        PROVE  Fades
    BY <2>3 DEF CancelClose, DropHandle, EndpointIdle, Leave, Stage, Carrier, On
  <2> QED
    BY <2>1, <2>2, <2>3
<1>2. CASE connection' \in live' <=> connection \in live
  BY <1>1, <1>2, Stutter
<1>3. CASE connection' \notin live'
  BY <1>1, <1>3 DEF Submitted!GoDown, StageMap, CarrierMap
<1> QED
  BY <1>1, <1>2, <1>3

LEMMA RefStep == SlotInv /\ [Next]_vars => [Submitted!Next]_Submitted!vars
<1> SUFFICES ASSUME SlotInv, [Next]_vars PROVE Submitted!Next \/ UNCHANGED Submitted!vars
  OBVIOUS
<1>1. ASSUME NEW t \in Tasks, Send(t) \/ Peer(t)
      PROVE  Submitted!Next \/ UNCHANGED Submitted!vars
  BY <1>1, RefStart, RefSilent DEF Send, Submitted!Next
<1>2. ASSUME NEW t \in Tasks, NEW e \in SendErrors, pc[t] \in Sending,
             e = "ConnectionLost" => On(t) \notin live, Failed(t, e)
      PROVE  Submitted!Next
  <2>1. CASE MayReplay(t, e)
    BY <1>2, <2>1, RefFail DEF Submitted!Next
  <2>2. CASE ~ MayReplay(t, e)
    BY <1>2, <2>2, RefReturn DEF Failed, slotVars, Submitted!Next
  <2> QED
    BY <2>1, <2>2
<1>3. ASSUME NEW t \in Tasks, AttemptEnds(t) PROVE Submitted!Next
  <2>1. CASE SendAcked(t)
    BY <2>1, RefReturn DEF SendAcked, slotVars, Submitted!Next
  <2> QED
    BY <1>2, <1>3, <2>1 DEF AttemptEnds, SendLost, SendStopped, SendTimeout
<1>4. ASSUME NEW t \in Tasks, LockGranted(t) \/ Install(t) \/ Wake(t)
      PROVE  Submitted!Next \/ UNCHANGED Submitted!vars
  BY <1>4, RefReuse, RefInstall, RefSilent DEF LockGranted, Submitted!Next
<1>5. ASSUME NEW t \in Tasks, DialResolves(t)
      PROVE  Submitted!Next \/ UNCHANGED Submitted!vars
  <2>1. ASSUME NEW e \in DialErrors, DialTerminal(t, e) \/ DialExhausted(t, e)
        PROVE  Submitted!Next
    BY <2>1, RefReturn DEF DialTerminal, DialExhausted, slotVars, Submitted!Next
  <2> QED
    BY <1>5, <2>1, RefSilent DEF DialResolves, DialFails
<1>6. ASSUME NEW t \in Tasks, CancelSend(t) PROVE Submitted!Next
  <2>1. pc[t] = "install" => fresh[t] # connection
    BY DEF SlotInv, TypeOK, Numbering, NumberingOf
  <2>2. connection' = connection /\ (connection' \in live' <=> connection \in live)
    BY <1>6, <2>1 DEF CancelSend, DropFresh
  <2> QED
    BY <1>6, <2>2, RefReturn DEF CancelSend, Submitted!Next
<1>7. ASSUME NEW t \in Tasks, \/ CancelClose(t) \/ DropHandle(t) \/ BeginClose(t)
                            \/ Close(t) \/ EndpointIdle(t)
      PROVE  Submitted!Next \/ UNCHANGED Submitted!vars
  BY <1>7, RefSilent, RefDown DEF Submitted!Next
<1>8. ASSUME NEW c \in live, LoseConnection(c)
      PROVE  Submitted!Next \/ UNCHANGED Submitted!vars
  BY <1>8, RefDown DEF Submitted!Next
<1>9. CASE UNCHANGED vars
  BY <1>9, Stutter DEF vars, slotVars, callVars, Stage, Carrier, On
<1> QED
  BY <1>1, <1>3, <1>4, <1>5, <1>6, <1>7, <1>8, <1>9 DEF Next, Dropped, Quiescent

(* send_transaction_bytes keeps the promise of Submission: a transaction is offered to
   the current connection and at most once more, to a newer one, after the first has
   gone down; and a connection is replaced only when it is down. *)
THEOREM Refinement == Spec => AtMostOneReplay
<1>1. IInv => SlotInv
  BY DEF IInv
<1> QED
  BY <1>1, RefInit, RefStep, Invariance, PTL DEF Spec, AtMostOneReplay, Submitted!Spec
=============================================================================
