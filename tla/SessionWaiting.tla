--------------------------- MODULE SessionWaiting ---------------------------
(***************************************************************************)
(* A finite max_attempts bounds the dials a stuck send waits for, for any  *)
(* number of tasks: whoever waits for the lock has a claim on no more than *)
(* a full round of dials for each other task.                              *)
(***************************************************************************)
EXTENDS SessionProofs, FiniteSetTheorems

USE TasksAssumption, BoundsAssumption
    DEF Sending, Holding, Reconnecting, Left, Results, SendErrors

Limited == MaxAttempts # NoLimit

(* Of any two tasks that wait, one is ahead of the other. *)
QueueOrder ==
    /\ \A t \in Tasks : ahead[t] \subseteq Waiting \ {t} /\ (t \notin Waiting => ahead[t] = {})
    /\ \A t, u \in Waiting : t # u => t \in ahead[u] \/ u \in ahead[t]

(* Nothing is counted for a task that does not reconnect. *)
AtRest ==
    \A t \in Tasks :
       /\ pc[t] \notin {"lock", "dial", "sleep"} => waited[t] = 0
       /\ pc[t] \notin Holding => attempts[t] = 0

(* Dials the holder of the lock may still make, and n full rounds of them. *)
Remaining ==
    IF reconnect_lock # NoTask /\ pc[reconnect_lock] \in {"dial", "sleep"}
    THEN PerHolder - attempts[reconnect_lock] ELSE 0

Rounds(n) == n * PerHolder

Others == Cardinality(Tasks) - 1

(* What a task has waited, what the holder has left and a round for everybody ahead of it
   are never more than a round for all the others. *)
Claims ==
    Limited =>
       \A t \in Waiting :
          waited[t] + Remaining + Rounds(Cardinality(ahead[t])) <= Rounds(Others)

(* The holder has waited for them, and beyond that for its own dials only. *)
HolderCounts ==
    Limited =>
       \A t \in Tasks : pc[t] \in {"dial", "sleep"} =>
          attempts[t] < PerHolder /\ waited[t] <= Rounds(Others) + attempts[t]

WaitInv == QueueOrder /\ AtRest /\ Claims /\ HolderCounts

-----------------------------------------------------------------------------
(* Counting *)

LEMMA PerHolderType == ASSUME Limited PROVE PerHolder \in Nat /\ PerHolder >= 1
BY DEF Limited, PerHolder

LEMMA RoundsType == ASSUME Limited, NEW n \in Nat PROVE Rounds(n) \in Nat
<1>1. PerHolder \in Nat
  BY PerHolderType
<1> QED
  BY <1>1, SMT DEF Rounds

LEMMA OneRound ==
    ASSUME Limited, NEW n \in Nat PROVE Rounds(n + 1) = Rounds(n) + PerHolder
<1>1. PerHolder \in Nat
  BY PerHolderType
<1>2. (n + 1) * PerHolder = n * PerHolder + PerHolder
  BY <1>1, SMT
<1> QED
  BY <1>2 DEF Rounds

LEMMA MoreRounds ==
    ASSUME Limited, NEW m \in Nat, NEW n \in Nat, m <= n PROVE Rounds(m) <= Rounds(n)
<1> DEFINE k == n - m
<1>1. PerHolder \in Nat /\ k \in Nat /\ n = m + k
  BY PerHolderType
<1> HIDE DEF k
<1>2. (m + k) * PerHolder = m * PerHolder + k * PerHolder /\ k * PerHolder >= 0
  BY <1>1, SMT
<1>3. m * PerHolder \in Nat /\ k * PerHolder \in Nat
  BY <1>1, SMT
<1> QED
  BY <1>1, <1>2, <1>3 DEF Rounds

(* Every set of tasks has a size, and one that leaves tasks out is that much smaller. *)
LEMMA Sizes ==
    ASSUME NEW S \in SUBSET Tasks
    PROVE  /\ IsFiniteSet(S) /\ Cardinality(S) \in Nat
           /\ \A t \in Tasks \ S :
                 /\ Cardinality(S) <= Others
                 /\ \A h \in (Tasks \ S) \ {t} : Cardinality(S) + 1 <= Others
<1>1. IsFiniteSet(S) /\ Cardinality(S) \in Nat
  BY FS_Subset, FS_CardinalityType
<1>2. Cardinality(Tasks) \in Nat
  BY FS_CardinalityType
<1>3. ASSUME NEW t \in Tasks \ S
      PROVE  /\ IsFiniteSet(S \union {t})
             /\ Cardinality(S \union {t}) = Cardinality(S) + 1
             /\ Cardinality(S \union {t}) <= Cardinality(Tasks)
  <2>1. IsFiniteSet(S \union {t}) /\ Cardinality(S \union {t}) = Cardinality(S) + 1
    BY <1>1, <1>3, FS_AddElement
  <2>2. S \union {t} \in SUBSET Tasks
    BY <1>3
  <2> QED
    BY <2>1, <2>2, FS_Subset
<1>4. ASSUME NEW t \in Tasks \ S, NEW h \in (Tasks \ S) \ {t}
      PROVE  Cardinality(S) + 1 <= Others
  <2> DEFINE T == S \union {t}
  <2>1. IsFiniteSet(T) /\ Cardinality(T) = Cardinality(S) + 1
    BY <1>3
  <2>2. T \union {h} \in SUBSET Tasks /\ h \notin T
    BY <1>4
  <2> HIDE DEF T
  <2>3. Cardinality(T \union {h}) = Cardinality(T) + 1
    BY <2>1, <2>2, FS_AddElement
  <2>4. Cardinality(T \union {h}) <= Cardinality(Tasks)
    BY <2>2, FS_Subset
  <2> QED
    BY <1>1, <1>2, <2>1, <2>3, <2>4 DEF Others
<1>5. ASSUME NEW t \in Tasks \ S PROVE Cardinality(S) <= Others
  <2>1. Cardinality(S) + 1 <= Cardinality(Tasks)
    BY <1>3, <1>5
  <2> QED
    BY <1>1, <1>2, <2>1 DEF Others
<1> QED
  BY <1>1, <1>4, <1>5

LEMMA OthersType == Others \in Nat
<1>1. {} \in SUBSET Tasks /\ Cardinality({}) = 0 /\ Cardinality(Tasks) \in Nat
  BY FS_EmptySet, FS_CardinalityType
<1>2. PICK t \in Tasks : TRUE
  OBVIOUS
<1>3. 0 <= Others
  BY <1>1, <1>2, Sizes
<1> QED
  BY <1>1, <1>3 DEF Others

(* What the claims add up are natural numbers. *)
LEMMA ClaimTypes ==
    ASSUME SlotInv, WaitInv, Limited
    PROVE  /\ Remaining \in Nat
           /\ Rounds(Others) \in Nat
           /\ \A t \in Tasks : waited[t] \in Nat /\ attempts[t] \in Nat
           /\ \A t \in Tasks : /\ Cardinality(ahead[t]) \in Nat
                               /\ Rounds(Cardinality(ahead[t])) \in Nat
<1>1. \A t \in Tasks : waited[t] \in Nat /\ attempts[t] \in Nat /\ ahead[t] \in SUBSET Tasks
  BY DEF SlotInv, TypeOK
<1>2. Remaining \in Nat
  BY <1>1, PerHolderType DEF SlotInv, TypeOK, WaitInv, HolderCounts, Remaining
<1> QED
  BY <1>1, <1>2, Sizes, OthersType, RoundsType

-----------------------------------------------------------------------------
(* The steps of the queue *)

(* Nobody joins the queue, leaves it, dials or gives up. *)
Calm ==
    /\ UNCHANGED <<ahead, waited, reconnect_lock>>
    /\ \A t \in Tasks :
          /\ attempts'[t] = attempts[t]
          /\ \/ pc'[t] = pc[t]
             \/ pc[t] \notin Reconnecting /\ pc'[t] \notin Reconnecting
             \/ pc[t] = "sleep" /\ pc'[t] = "dial"

Joins(t) ==
    /\ pc[t] \in Sending /\ pc' = [pc EXCEPT ![t] = "lock"]
    /\ JoinQueue(t)
    /\ UNCHANGED <<waited, reconnect_lock, attempts>>

(* Out of the queue, and out of the lock if t holds it, with nothing left to count. *)
Leaves(t) ==
    /\ pc'[t] \notin Reconnecting
    /\ \A u \in Tasks \ {t} : /\ pc'[u] = pc[u] /\ waited'[u] = waited[u]
                              /\ attempts'[u] = attempts[u] /\ ahead'[u] = ahead[u] \ {t}
    /\ ahead'[t] = {} /\ waited'[t] = 0 /\ attempts'[t] = 0
    /\ reconnect_lock' = IF reconnect_lock = t THEN NoTask ELSE reconnect_lock

(* The last dial of a reconnect. *)
LastDial(t) ==
    /\ pc[t] = "dial" /\ UNCHANGED ahead
    /\ pc'[t] \notin {"lock", "dial", "sleep"}
    /\ pc'[t] # "install" => attempts'[t] = 0
    /\ \A u \in Tasks \ {t} : pc'[u] = pc[u] /\ attempts'[u] = attempts[u]
    /\ CountDial({t})

LEMMA StepKinds ==
    ASSUME SlotInv, AtRest, QueueOrder, [Next]_vars, TypeOK'
    PROVE  \/ Calm
           \/ \E t \in Tasks : \/ Joins(t) \/ Leaves(t) \/ BeginReconnect(t) \/ LastDial(t)
                               \/ \E e \in DialErrors : DialBackoff(t, e)
<1> USE DEF SlotInv, TypeOK, slotVars, lockVars, callVars, Goto
<1>1. ASSUME NEW t \in Tasks, Send(t) \/ Peer(t) PROVE Calm
  BY <1>1 DEF Calm, Send, Peer, StartSend, RejectTooLarge, OpenUni, WriteAll,
     PeerReceives, PeerStops
<1>2. ASSUME NEW t \in Tasks, SendAcked(t) PROVE Calm
  BY <1>2 DEF Calm, SendAcked, Return, AtRest
<1>3. ASSUME NEW t \in Tasks, NEW e \in SendErrors, pc[t] \in Sending, Failed(t, e)
      PROVE  Calm \/ Joins(t)
  <2>1. CASE MayReplay(t, e)
    BY <1>3, <2>1 DEF Failed, Joins
  <2>2. CASE ~ MayReplay(t, e)
    BY <1>3, <2>2 DEF Failed, Return, Calm, AtRest
  <2> QED
    BY <2>1, <2>2
<1>4. ASSUME NEW t \in Tasks, AttemptEnds(t) PROVE Calm \/ Joins(t)
  BY <1>2, <1>3, <1>4 DEF AttemptEnds, SendLost, SendStopped, SendTimeout
<1>5. ASSUME NEW t \in Tasks, ReuseConnection(t) PROVE Leaves(t)
  BY <1>5, TasksAssumption DEF ReuseConnection, Turn, Retry, LeaveQueue, Leaves
<1>6. ASSUME NEW t \in Tasks, CancelSend(t) PROVE Leaves(t)
  BY <1>6 DEF CancelSend, Return, LeaveQueue, Leaves
<1>7. ASSUME NEW t \in Tasks, Install(t) PROVE Leaves(t)
  <2>1. reconnect_lock = t /\ waited[t] = 0 /\ ahead[t] = {}
    BY <1>7 DEF Install, LockDiscipline, AtRest, QueueOrder, Waiting
  <2>2. \A u \in Tasks : ahead[u] \ {t} = ahead[u]
    BY <1>7 DEF Install, QueueOrder, Waiting
  <2> QED
    BY <1>7, <2>1, <2>2 DEF Install, Retry, Leaves
<1>8. ASSUME NEW t \in Tasks, DialSucceeds(t) PROVE LastDial(t)
  BY <1>8 DEF DialSucceeds, LastDial
<1>9. ASSUME NEW t \in Tasks, NEW e \in DialErrors, DialTerminal(t, e) \/ DialExhausted(t, e)
      PROVE  LastDial(t)
  BY <1>9 DEF DialTerminal, DialExhausted, Return, LastDial
<1>10. ASSUME NEW t \in Tasks, DialResolves(t)
       PROVE  LastDial(t) \/ \E e \in DialErrors : DialBackoff(t, e)
  BY <1>8, <1>9, <1>10 DEF DialResolves, DialFails
<1>11. ASSUME NEW t \in Tasks,
              CancelClose(t) \/ DropHandle(t) \/ EndpointIdle(t) \/ BeginClose(t) \/ Close(t)
       PROVE  Calm
  BY <1>11 DEF Calm, CancelClose, DropHandle, EndpointIdle, Leave, BeginClose, Close
<1>12. ASSUME NEW t \in Tasks, Wake(t) PROVE Calm
  BY <1>12 DEF Calm, Wake
<1>13. ASSUME NEW c \in live, LoseConnection(c) PROVE Calm
  BY <1>13 DEF Calm, LoseConnection
<1>14. CASE UNCHANGED vars
  BY <1>14 DEF Calm, vars
<1> QED
  BY <1>1, <1>4, <1>5, <1>6, <1>7, <1>10, <1>11, <1>12, <1>13, <1>14
  DEF Next, LockGranted, Dropped, Quiescent

-----------------------------------------------------------------------------
(* The invariant *)

(* Who dials holds the lock, and what is left to it is what Remaining says. *)
LEMMA HolderIs ==
    ASSUME SlotInv
    PROVE  /\ \A t \in Tasks : pc[t] \in {"dial", "sleep"} =>
                 reconnect_lock = t /\ Remaining = PerHolder - attempts[t]
           /\ (\A t \in Tasks : pc[t] \notin {"dial", "sleep"}) => Remaining = 0
BY DEF SlotInv, TypeOK, LockDiscipline, Remaining

LEMMA WaitInit == Init => WaitInv
<1> SUFFICES ASSUME Init PROVE WaitInv
  OBVIOUS
<1>1. \A t \in Tasks : pc[t] = "idle" /\ ahead[t] = {} /\ waited[t] = 0 /\ attempts[t] = 0
  BY DEF Init
<1> QED
  BY <1>1 DEF WaitInv, QueueOrder, AtRest, Claims, HolderCounts, Waiting

LEMMA CalmStep == ASSUME SlotInv, SlotInv', WaitInv, Calm PROVE WaitInv'
<1> USE DEF WaitInv, Calm
<1>1. Waiting' = Waiting
  BY DEF Waiting
<1>2. QueueOrder' /\ AtRest'
  BY <1>1 DEF QueueOrder, AtRest
<1>3. Remaining' = Remaining
  BY DEF SlotInv, TypeOK, Remaining, LockDiscipline
<1>4. Claims' /\ HolderCounts'
  BY <1>1, <1>3 DEF Claims, HolderCounts, Limited, Waiting, PerHolder, Rounds, Others
<1> QED
  BY <1>2, <1>4

(* A newcomer queues behind all others: they and the holder are not more than all. *)
LEMMA JoinStep ==
    ASSUME SlotInv, SlotInv', WaitInv, NEW t \in Tasks, Joins(t) PROVE WaitInv'
<1> USE DEF WaitInv
<1>1. /\ pc \in [Tasks -> {"idle", "close", "closing"} \union Left \union Sending
                              \union Reconnecting]
      /\ pc[t] \in Sending /\ pc' = [pc EXCEPT ![t] = "lock"]
      /\ ahead \in [Tasks -> SUBSET Tasks] /\ ahead' = [ahead EXCEPT ![t] = Waiting]
      /\ waited' = waited /\ reconnect_lock' = reconnect_lock /\ attempts' = attempts
  BY DEF SlotInv, TypeOK, Joins, JoinQueue
<1>2. Waiting' = Waiting \union {t} /\ t \notin Waiting
  BY <1>1 DEF Waiting
<1>3. QueueOrder'
  BY <1>1, <1>2 DEF QueueOrder, Waiting
<1>4. AtRest' /\ HolderCounts'
  BY <1>1 DEF AtRest, HolderCounts, Limited, PerHolder, Rounds, Others
<1>5. Remaining' = Remaining
  BY <1>1 DEF SlotInv, TypeOK, Remaining, LockDiscipline
<1>6. ASSUME Limited PROVE Remaining + Rounds(Cardinality(Waiting)) <= Rounds(Others)
  <2>1. Waiting \in SUBSET Tasks /\ t \in Tasks \ Waiting
    BY <1>2 DEF Waiting
  <2>2. Cardinality(Waiting) \in Nat /\ Cardinality(Waiting) <= Others /\ Others \in Nat
    BY <2>1, Sizes, OthersType
  <2>3. Rounds(Cardinality(Waiting)) \in Nat /\ Rounds(Others) \in Nat
    BY <1>6, <2>2, RoundsType
  <2>4. CASE \A h \in Tasks : pc[h] \notin {"dial", "sleep"}
    BY <1>6, <2>2, <2>3, <2>4, HolderIs, MoreRounds
  <2>5. ASSUME NEW h \in Tasks, pc[h] \in {"dial", "sleep"}
        PROVE  Remaining + Rounds(Cardinality(Waiting)) <= Rounds(Others)
    <3>1. h \in (Tasks \ Waiting) \ {t}
      BY <1>1, <2>5 DEF Waiting
    <3>2. Cardinality(Waiting) + 1 <= Others
      BY <2>1, <3>1, Sizes
    <3>3. Rounds(Cardinality(Waiting)) + PerHolder <= Rounds(Others)
      BY <1>6, <2>2, <3>2, OneRound, MoreRounds
    <3>4. Remaining = PerHolder - attempts[h] /\ attempts[h] \in Nat /\ PerHolder \in Nat
      BY <1>6, <2>5, HolderIs, PerHolderType DEF SlotInv, TypeOK
    <3> QED
      BY ONLY <2>3, <3>3, <3>4
  <2> QED
    BY <2>4, <2>5
<1>7. Claims'
  <2> SUFFICES ASSUME Limited, NEW u \in Waiting'
               PROVE  waited'[u] + Remaining' + Rounds(Cardinality(ahead'[u]))
                        <= Rounds(Others)
    BY DEF Claims, Limited, Rounds, PerHolder, Others
  <2>1. CASE u = t
    <3>1. waited'[u] = 0 /\ ahead'[u] = Waiting
      BY <1>1, <2>1 DEF AtRest
    <3>2. Remaining \in Nat /\ Rounds(Cardinality(Waiting)) \in Nat
      BY ClaimTypes, Sizes, RoundsType DEF Waiting
    <3> QED
      BY <1>5, <1>6, <3>1, <3>2
  <2>2. CASE u # t
    <3>1. u \in Waiting /\ waited'[u] = waited[u] /\ ahead'[u] = ahead[u]
      BY <1>1, <1>2, <2>2 DEF Waiting
    <3> QED
      BY <1>5, <3>1 DEF Claims
  <2> QED
    BY <2>1, <2>2
<1> QED
  BY <1>3, <1>4, <1>7

(* Somebody leaves: nobody's claim grows. *)
LEMMA LeaveStep ==
    ASSUME SlotInv, SlotInv', WaitInv, NEW t \in Tasks, Leaves(t) PROVE WaitInv'
<1> USE DEF WaitInv, Leaves
<1>1. Waiting' = Waiting \ {t}
  BY DEF Waiting
<1>2. QueueOrder' /\ AtRest'
  BY <1>1 DEF QueueOrder, AtRest, Waiting
<1>3. HolderCounts'
  BY DEF HolderCounts, Limited, PerHolder, Rounds, Others
<1>4. ASSUME Limited PROVE Remaining' <= Remaining /\ Remaining' \in Nat
  <2>1. Remaining \in Nat
    BY <1>4, ClaimTypes
  <2>2. CASE reconnect_lock = t
    BY <2>1, <2>2 DEF Remaining
  <2>3. CASE reconnect_lock # t
    <3>1. Remaining' = Remaining
      BY <2>3 DEF SlotInv, TypeOK, Remaining, PerHolder
    <3> QED
      BY <2>1, <3>1
  <2> QED
    BY <2>2, <2>3
<1>5. Claims'
  <2> SUFFICES ASSUME Limited, NEW u \in Waiting \ {t}
               PROVE  waited'[u] + Remaining' + Rounds(Cardinality(ahead'[u]))
                        <= Rounds(Others)
    BY <1>1 DEF Claims, Limited, Rounds, PerHolder, Others
  <2>1. u \in Tasks /\ waited'[u] = waited[u] /\ ahead'[u] = ahead[u] \ {t}
    BY DEF Waiting
  <2>2. ahead[u] \in SUBSET Tasks /\ ahead'[u] \in SUBSET ahead[u]
    BY <2>1 DEF SlotInv, TypeOK
  <2>3. /\ Cardinality(ahead'[u]) <= Cardinality(ahead[u])
        /\ Cardinality(ahead'[u]) \in Nat /\ Cardinality(ahead[u]) \in Nat
    BY <2>2, Sizes, FS_Subset
  <2>4. /\ Rounds(Cardinality(ahead'[u])) <= Rounds(Cardinality(ahead[u]))
        /\ Rounds(Cardinality(ahead'[u])) \in Nat /\ Rounds(Cardinality(ahead[u])) \in Nat
    BY <2>3, MoreRounds, RoundsType
  <2>5. waited[u] + Remaining + Rounds(Cardinality(ahead[u])) <= Rounds(Others)
    BY DEF Claims
  <2>6. waited[u] \in Nat /\ Remaining \in Nat /\ Rounds(Others) \in Nat
    BY <2>1, ClaimTypes
  <2>7. Remaining' <= Remaining /\ Remaining' \in Nat
    BY <1>4
  <2> QED
    BY ONLY <2>1, <2>4, <2>5, <2>6, <2>7
<1> QED
  BY <1>2, <1>3, <1>5

(* The lock goes to the first: it now has a round, and is ahead of nobody any more. *)
LEMMA GrantStep ==
    ASSUME SlotInv, SlotInv', WaitInv, NEW t \in Tasks, BeginReconnect(t) PROVE WaitInv'
<1> USE DEF WaitInv
<1>1. /\ pc[t] = "lock" /\ reconnect_lock = NoTask /\ ahead[t] = {} /\ reconnect_lock' = t
      /\ pc' = [pc EXCEPT ![t] = "dial"] /\ pc'[t] = "dial"
      /\ \A u \in Tasks \ {t} : pc'[u] = pc[u] /\ ahead'[u] = ahead[u] \ {t}
      /\ ahead'[t] = {} /\ waited' = waited /\ attempts' = attempts
  BY DEF BeginReconnect, Turn, Goto, LeaveQueue, SlotInv, TypeOK
<1>2. Waiting' = Waiting \ {t} /\ t \in Waiting
  BY <1>1 DEF Waiting
<1>3. attempts[t] = 0
  BY <1>1 DEF AtRest
<1>4. QueueOrder'
  BY <1>1, <1>2 DEF QueueOrder, Waiting
<1>5. AtRest'
  BY <1>1 DEF AtRest
<1>6. Remaining = 0 /\ Remaining' = PerHolder - attempts[t]
  BY <1>1 DEF Remaining, PerHolder
<1>7. HolderCounts'
  <2> SUFFICES ASSUME Limited, NEW u \in Tasks, pc'[u] \in {"dial", "sleep"}
               PROVE  attempts[u] < PerHolder /\ waited[u] <= Rounds(Others) + attempts[u]
    BY <1>1 DEF HolderCounts, Limited, PerHolder, Rounds, Others
  <2>1. u = t
    BY <1>1 DEF SlotInv, LockDiscipline
  <2>2. waited[t] + Remaining + Rounds(Cardinality(ahead[t])) <= Rounds(Others)
    BY <1>2 DEF Claims
  <2>3. /\ waited[t] \in Nat /\ Rounds(Others) \in Nat
        /\ Rounds(Cardinality(ahead[t])) \in Nat
    BY ClaimTypes
  <2>4. PerHolder \in Nat /\ PerHolder >= 1
    BY PerHolderType
  <2> QED
    BY ONLY <1>3, <1>6, <2>1, <2>2, <2>3, <2>4
<1>8. Claims'
  <2> SUFFICES ASSUME Limited, NEW u \in Waiting \ {t}
               PROVE  waited'[u] + Remaining' + Rounds(Cardinality(ahead'[u]))
                        <= Rounds(Others)
    BY <1>2 DEF Claims, Limited, Rounds, PerHolder, Others
  <2>1. u \in Tasks /\ waited'[u] = waited[u] /\ ahead'[u] = ahead[u] \ {t} /\ t \in ahead[u]
    BY <1>1, <1>2 DEF Waiting, QueueOrder
  <2>2. ahead[u] \in SUBSET Tasks /\ ahead'[u] \in SUBSET Tasks
    BY <2>1 DEF SlotInv, TypeOK
  <2>3. /\ Cardinality(ahead[u]) = Cardinality(ahead'[u]) + 1
        /\ Cardinality(ahead'[u]) \in Nat
    BY <2>1, <2>2, Sizes, FS_RemoveElement
  <2>4. /\ Rounds(Cardinality(ahead[u])) = Rounds(Cardinality(ahead'[u])) + PerHolder
        /\ Rounds(Cardinality(ahead'[u])) \in Nat
    BY <2>3, OneRound, RoundsType
  <2>5. waited[u] + Remaining + Rounds(Cardinality(ahead[u])) <= Rounds(Others)
    BY DEF Claims
  <2>6. waited[u] \in Nat /\ Rounds(Others) \in Nat /\ PerHolder \in Nat
    BY <2>1, ClaimTypes, PerHolderType
  <2> QED
    BY ONLY <1>3, <1>6, <2>1, <2>4, <2>5, <2>6
<1> QED
  BY <1>4, <1>5, <1>7, <1>8

(* A dial that failed: everybody has waited for one more, and one less is left. *)
LEMMA BackoffStep ==
    ASSUME SlotInv, SlotInv', WaitInv, NEW t \in Tasks, NEW e \in DialErrors,
           DialBackoff(t, e)
    PROVE  WaitInv'
<1> USE DEF WaitInv
<1>1. /\ pc[t] = "dial" /\ pc'[t] = "sleep"
      /\ \A u \in Tasks \ {t} : pc'[u] = pc[u] /\ attempts'[u] = attempts[u]
      /\ ahead' = ahead /\ ~ Exhausted(attempts[t] + 1)
      /\ attempts'[t] = Count(attempts[t])
      /\ \A u \in Tasks : waited'[u] = IF pc[u] \in {"lock", "dial"}
                                       THEN Count(waited[u]) ELSE waited[u]
  BY DEF DialBackoff, Goto, lockVars, CountDial, SlotInv, TypeOK
<1>2. Waiting' = Waiting
  BY <1>1 DEF Waiting
<1>3. QueueOrder' /\ AtRest'
  BY <1>1, <1>2 DEF QueueOrder, AtRest
<1>4. ASSUME Limited
      PROVE  /\ attempts[t] \in Nat /\ attempts'[t] = attempts[t] + 1
             /\ PerHolder \in Nat /\ attempts'[t] < PerHolder
             /\ Remaining = PerHolder - attempts[t] /\ Remaining' = Remaining - 1
             /\ \A u \in Waiting \union {t} : waited'[u] = waited[u] + 1
  <2>1. attempts[t] \in Nat /\ attempts'[t] = attempts[t] + 1
    BY <1>1, <1>4 DEF Count, Limited, SlotInv, TypeOK
  <2>2. PerHolder \in Nat /\ attempts'[t] < PerHolder
    BY <1>1, <1>4, <2>1, PerHolderType DEF Exhausted, Limited, PerHolder
  <2>3. Remaining = PerHolder - attempts[t] /\ Remaining' = PerHolder - attempts'[t]
    <3>1. reconnect_lock = t /\ reconnect_lock' = t /\ t # NoTask
      BY <1>1 DEF SlotInv, LockDiscipline
    <3> QED
      BY <1>1, <3>1 DEF Remaining, PerHolder
  <2>4. \A u \in Waiting \union {t} : waited'[u] = waited[u] + 1
    BY <1>1, <1>4 DEF Waiting, Count, Limited
  <2> QED
    BY <2>1, <2>2, <2>3, <2>4
<1>5. HolderCounts'
  <2> SUFFICES ASSUME Limited, NEW u \in Tasks, pc'[u] \in {"dial", "sleep"}
               PROVE  attempts'[u] < PerHolder /\ waited'[u] <= Rounds(Others) + attempts'[u]
    BY DEF HolderCounts, Limited, PerHolder, Rounds, Others
  <2>1. u = t
    BY <1>1 DEF SlotInv, LockDiscipline
  <2>2. waited[t] <= Rounds(Others) + attempts[t]
    BY <1>1 DEF HolderCounts
  <2>3. waited[t] \in Nat /\ Rounds(Others) \in Nat
    BY ClaimTypes
  <2>4. attempts[t] \in Nat /\ attempts'[t] = attempts[t] + 1 /\ attempts'[t] < PerHolder
        /\ waited'[t] = waited[t] + 1
    BY <1>4
  <2> QED
    BY ONLY <2>1, <2>2, <2>3, <2>4
<1>6. Claims'
  <2> SUFFICES ASSUME Limited, NEW u \in Waiting
               PROVE  waited'[u] + Remaining' + Rounds(Cardinality(ahead[u]))
                        <= Rounds(Others)
    BY <1>1, <1>2 DEF Claims, Limited, Rounds, PerHolder, Others
  <2>1. waited[u] + Remaining + Rounds(Cardinality(ahead[u])) <= Rounds(Others)
    BY DEF Claims
  <2>2. /\ waited[u] \in Nat /\ Remaining \in Nat /\ Rounds(Others) \in Nat
        /\ Rounds(Cardinality(ahead[u])) \in Nat
    BY ClaimTypes DEF Waiting
  <2>3. waited'[u] = waited[u] + 1 /\ Remaining' = Remaining - 1
    BY <1>4
  <2> QED
    BY ONLY <2>1, <2>2, <2>3
<1> QED
  BY <1>3, <1>5, <1>6

(* The last dial: everybody has waited for it, and the holder has none left. *)
LEMMA LastDialStep ==
    ASSUME SlotInv, SlotInv', WaitInv, NEW t \in Tasks, LastDial(t) PROVE WaitInv'
<1> USE DEF WaitInv
<1>1. /\ pc[t] = "dial" /\ pc'[t] \notin {"lock", "dial", "sleep"}
      /\ pc'[t] # "install" => attempts'[t] = 0
      /\ \A u \in Tasks \ {t} : pc'[u] = pc[u] /\ attempts'[u] = attempts[u]
      /\ ahead' = ahead /\ waited'[t] = 0
      /\ \A u \in Tasks \ {t} : waited'[u] = IF pc[u] \in {"lock", "dial"}
                                             THEN Count(waited[u]) ELSE waited[u]
  BY DEF LastDial, CountDial, SlotInv, TypeOK
<1>2. Waiting' = Waiting /\ t \notin Waiting
  BY <1>1 DEF Waiting
<1>3. QueueOrder' /\ AtRest'
  BY <1>1, <1>2 DEF QueueOrder, AtRest
<1>4. \A u \in Tasks : pc'[u] \notin {"dial", "sleep"}
  BY <1>1 DEF SlotInv, LockDiscipline
<1>5. HolderCounts'
  BY <1>4 DEF HolderCounts
<1>6. Remaining' = 0
  BY <1>4 DEF SlotInv, TypeOK, Remaining
<1>7. ASSUME Limited PROVE Remaining \in Nat /\ Remaining >= 1
  <2>1. Remaining = PerHolder - attempts[t]
    BY <1>1, HolderIs
  <2>2. attempts[t] < PerHolder /\ PerHolder \in Nat /\ attempts[t] \in Nat
    BY <1>1, <1>7, PerHolderType DEF HolderCounts, SlotInv, TypeOK
  <2> QED
    BY ONLY <2>1, <2>2
<1>8. Claims'
  <2> SUFFICES ASSUME Limited, NEW u \in Waiting
               PROVE  waited'[u] + Remaining' + Rounds(Cardinality(ahead[u]))
                        <= Rounds(Others)
    BY <1>1, <1>2 DEF Claims, Limited, Rounds, PerHolder, Others
  <2>1. waited[u] + Remaining + Rounds(Cardinality(ahead[u])) <= Rounds(Others)
    BY DEF Claims
  <2>2. /\ waited[u] \in Nat /\ Rounds(Others) \in Nat
        /\ Rounds(Cardinality(ahead[u])) \in Nat
    BY ClaimTypes DEF Waiting
  <2>3. waited'[u] = waited[u] + 1
    BY <1>1, <1>2 DEF Waiting, Count, Limited
  <2>4. Remaining \in Nat /\ Remaining >= 1 /\ Remaining' = 0
    BY <1>6, <1>7
  <2> QED
    BY ONLY <2>1, <2>2, <2>3, <2>4
<1> QED
  BY <1>3, <1>5, <1>8

LEMMA WaitStep == SlotInv /\ WaitInv /\ [Next]_vars => WaitInv'
<1> SUFFICES ASSUME SlotInv, WaitInv, [Next]_vars PROVE WaitInv'
  OBVIOUS
<1>1. SlotInv' /\ TypeOK' /\ AtRest /\ QueueOrder
  BY InvStep DEF SlotInv, WaitInv
<1> QED
  BY <1>1, StepKinds, CalmStep, JoinStep, LeaveStep, GrantStep, BackoffStep, LastDialStep

LEMMA ClaimsBound == SlotInv /\ WaitInv => ReconnectWaitBound
<1> SUFFICES ASSUME SlotInv, WaitInv, Limited, NEW t \in Tasks
             PROVE  /\ pc[t] = "lock" => waited[t] <= (Cardinality(Tasks) - 1) * PerHolder
                    /\ pc[t] \in {"dial", "sleep"} =>
                          waited[t] < Cardinality(Tasks) * PerHolder
  BY DEF ReconnectWaitBound, Limited
<1>1. /\ waited[t] \in Nat /\ attempts[t] \in Nat /\ Remaining \in Nat
      /\ Rounds(Others) \in Nat /\ Rounds(Cardinality(ahead[t])) \in Nat
  BY ClaimTypes
<1>2. ASSUME pc[t] = "lock" PROVE waited[t] <= Rounds(Others)
  <2>1. waited[t] + Remaining + Rounds(Cardinality(ahead[t])) <= Rounds(Others)
    BY <1>2 DEF WaitInv, Claims, Waiting
  <2> QED
    BY ONLY <1>1, <2>1
<1>3. ASSUME pc[t] \in {"dial", "sleep"} PROVE waited[t] < Rounds(Others + 1)
  <2>1. attempts[t] < PerHolder /\ waited[t] <= Rounds(Others) + attempts[t]
    BY <1>3 DEF WaitInv, HolderCounts
  <2>2. Rounds(Others + 1) = Rounds(Others) + PerHolder /\ PerHolder \in Nat
    BY OthersType, OneRound, PerHolderType
  <2> QED
    BY ONLY <1>1, <2>1, <2>2
<1>4. Others + 1 = Cardinality(Tasks)
  BY FS_CardinalityType DEF Others
<1> QED
  BY <1>2, <1>3, <1>4 DEF Rounds, Others

(* However many tasks share the session and whatever they and the network do, a stuck send
   waits for at most a full round of dials of each other task, and for its own. *)
THEOREM WaitIsBounded == Spec => []ReconnectWaitBound
<1>1. Init => SlotInv /\ WaitInv
  BY InvInit, WaitInit
<1>2. SlotInv /\ WaitInv /\ [Next]_vars => SlotInv' /\ WaitInv'
  BY InvStep, WaitStep
<1> QED
  BY <1>1, <1>2, ClaimsBound, PTL DEF Spec
=============================================================================
