--------------------------- MODULE DeliveryProofs ---------------------------
(***************************************************************************)
(* What Ok says of the transaction, for any number of tasks and sends and  *)
(* whenever the peer reads the streams that were given up.                 *)
(***************************************************************************)
EXTENDS Delivery, SessionProofs

USE DEF Sending, Holding, Reconnecting, Left, Results, SendErrors

StreamsTypeOK == streams \in [Tasks -> [Attempts -> Fates]]

(* The stream of a call belongs to the attempt that runs; until the call returns it has
   no result. *)
StreamOf(t) ==
    /\ pc[t] = "write_all" => stream[t] \in {"open", "stopped"}
    /\ pc[t] = "stopped" => stream[t] # "none"
    /\ pc[t] \notin {"write_all", "stopped"} => stream[t] = "none"
    /\ pc[t] \in Sending \union Reconnecting => result[t] = "none"

(* The fate of a stream that is still there: reading late is no business of its own. *)
Running == [s \in {"none", "open", "received", "stopped"} |->
              CASE s = "received" -> "whole" [] s = "stopped" -> "refused" [] OTHER -> s]

(* An attempt starts on a stream of its own, and a replay once the first connection is
   down. *)
FateOf(t) ==
    /\ pc[t] \in Sending => streams[t][Attempt(t)] = Running[stream[t]]
    /\ pc[t] \in Reconnecting \/ (pc[t] \in Sending /\ fresh[t] = 0) =>
          streams[t]["replay"] = "none"
    /\ pc[t] \in Sending /\ fresh[t] # 0 => conn[t] \notin live
    /\ result[t] = "Ok" => LastStream(t) \in {"whole", "refused"}

DeliveryInv == /\ SlotInv /\ StreamsTypeOK
               /\ \A t \in Tasks : StreamOf(t) /\ FateOf(t)

-----------------------------------------------------------------------------
(* What a step does to one task and its call *)

Kept(t) == /\ pc'[t] = pc[t] /\ stream'[t] = stream[t] /\ fresh'[t] = fresh[t]
           /\ result'[t] = result[t] /\ calls'[t] = calls[t] /\ conn'[t] = conn[t]

(* Nothing runs before nor after. *)
Rests(t) == /\ pc[t] \notin Sending \union Reconnecting
            /\ pc'[t] \notin Sending \union Reconnecting
            /\ stream'[t] = stream[t] /\ result'[t] = result[t] /\ calls'[t] = calls[t]

(* The call is over, and not well. *)
Ends(t) == /\ pc'[t] \notin Sending \union Reconnecting
           /\ stream'[t] = "none" /\ result'[t] # "Ok"

Starts(t) == /\ pc[t] \notin Sending \union Reconnecting /\ pc'[t] = "open_uni"
             /\ stream'[t] = stream[t] /\ fresh'[t] = 0 /\ fresh[t] = 0
             /\ calls'[t] # calls[t] /\ result'[t] = "none"

Proceeds(t) ==
    /\ pc[t] \in Sending
    /\ \/ pc'[t] = "write_all" /\ pc[t] = "open_uni" /\ stream'[t] = "open"
       \/ pc'[t] = "stopped" /\ pc[t] = "write_all" /\ stream'[t] = stream[t]
       \/ /\ pc'[t] = pc[t] /\ stream[t] = "open"
          /\ stream'[t] = "stopped" \/ (stream'[t] = "received" /\ pc[t] = "stopped")
    /\ fresh'[t] = fresh[t] /\ result'[t] = result[t] /\ calls'[t] = calls[t]
    /\ conn'[t] = conn[t]

Acked(t) == /\ pc[t] = "stopped" /\ stream[t] \in {"received", "stopped"}
            /\ pc'[t] = "idle" /\ stream'[t] = "none" /\ result'[t] = "Ok"
            /\ calls'[t] = calls[t]

Fails(t) == /\ pc[t] \in Sending /\ fresh[t] = 0 /\ pc'[t] = "lock"
            /\ stream'[t] = "none" /\ result'[t] = result[t] /\ calls'[t] = calls[t]

Waits(t) == /\ pc[t] \in Reconnecting /\ pc'[t] \in Reconnecting
            /\ stream'[t] = stream[t] /\ result'[t] = result[t] /\ calls'[t] = calls[t]

Replays(t) == /\ pc[t] \in Reconnecting /\ pc'[t] = "open_uni" /\ fresh'[t] # 0
              /\ stream'[t] = stream[t] /\ result'[t] = result[t] /\ calls'[t] = calls[t]
              /\ conn'[t] = conn[t]

Kind(t) == \/ Kept(t) \/ Rests(t) \/ Ends(t) \/ Starts(t) \/ Proceeds(t)
           \/ Acked(t) \/ Fails(t) \/ Waits(t) \/ Replays(t)

LEMMA TaskKinds ==
    ASSUME SlotInv, TypeOK', \A t \in Tasks : StreamOf(t), [Next]_vars
    PROVE  \A u \in Tasks : Kind(u)
<1> USE TasksAssumption DEF SlotInv, TypeOK, slotVars, lockVars, callVars, Goto
<1>1. SUFFICES ASSUME NEW u \in Tasks PROVE Kind(u)
  OBVIOUS
<1>2. ASSUME NEW t \in Tasks, Send(t) PROVE Kind(u)
  <2>1. CASE StartSend(t)
    BY <2>1 DEF Kind, Kept, Starts, StartSend, Numbering, NumberingOf
  <2>2. CASE RejectTooLarge(t)
    BY <2>2 DEF Kind, Kept, Ends, RejectTooLarge, StreamOf
  <2>3. CASE OpenUni(t) \/ WriteAll(t)
    BY <2>3 DEF Kind, Kept, Proceeds, OpenUni, WriteAll
  <2> QED
    BY <1>2, <2>1, <2>2, <2>3 DEF Send
<1>3. ASSUME NEW t \in Tasks, Peer(t) PROVE Kind(u)
  BY <1>3 DEF Kind, Kept, Proceeds, Peer, PeerReceives, PeerStops
<1>4. ASSUME NEW t \in Tasks, SendAcked(t) PROVE Kind(u)
  BY <1>4 DEF Kind, Kept, Acked, SendAcked, Return
<1>5. ASSUME NEW t \in Tasks, NEW e \in SendErrors, pc[t] \in Sending, Failed(t, e)
      PROVE  Kind(u)
  <2>1. CASE MayReplay(t, e)
    BY <1>5, <2>1 DEF Kind, Kept, Fails, Failed, MayReplay
  <2>2. CASE ~ MayReplay(t, e)
    BY <1>5, <2>2 DEF Kind, Kept, Ends, Failed, Return
  <2> QED
    BY <2>1, <2>2
<1>6. ASSUME NEW t \in Tasks, AttemptEnds(t) PROVE Kind(u)
  BY <1>4, <1>5, <1>6 DEF AttemptEnds, SendLost, SendStopped, SendTimeout
<1>7. ASSUME NEW t \in Tasks, LockGranted(t) PROVE Kind(u)
  <2>1. CASE ReuseConnection(t)
    BY <2>1 DEF Kind, Kept, Replays, ReuseConnection, Turn, Retry, Numbering, NumberingOf
  <2>2. CASE BeginReconnect(t)
    BY <2>2 DEF Kind, Kept, Waits, BeginReconnect, Turn
  <2> QED
    BY <1>7, <2>1, <2>2 DEF LockGranted
<1>8. ASSUME NEW t \in Tasks, DialResolves(t) PROVE Kind(u)
  <2>1. CASE DialSucceeds(t)
    <3>1. CASE u = t
      BY <2>1, <3>1 DEF Kind, Waits, DialSucceeds
    <3>2. CASE u # t
      BY <2>1, <3>2 DEF Kind, Kept, DialSucceeds
    <3> QED
      BY <3>1, <3>2
  <2>2. ASSUME NEW e \in DialErrors, DialTerminal(t, e) \/ DialExhausted(t, e)
        PROVE  Kind(u)
    BY <2>2 DEF Kind, Kept, Ends, DialTerminal, DialExhausted, Return
  <2>3. ASSUME NEW e \in DialErrors, DialBackoff(t, e) PROVE Kind(u)
    BY <2>3 DEF Kind, Kept, Waits, DialBackoff
  <2> QED
    BY <1>8, <2>1, <2>2, <2>3 DEF DialResolves, DialFails
<1>9. ASSUME NEW t \in Tasks, Install(t) PROVE Kind(u)
  BY <1>9 DEF Kind, Kept, Replays, Install, Retry, Numbering, NumberingOf
<1>10. ASSUME NEW t \in Tasks, Wake(t) PROVE Kind(u)
  BY <1>10 DEF Kind, Kept, Waits, Wake
<1>11. ASSUME NEW t \in Tasks, CancelSend(t) PROVE Kind(u)
  BY <1>11 DEF Kind, Kept, Ends, CancelSend, Return
<1>12. ASSUME NEW t \in Tasks,
              CancelClose(t) \/ DropHandle(t) \/ EndpointIdle(t) \/ BeginClose(t) \/ Close(t)
       PROVE  Kind(u)
  BY <1>12 DEF Kind, Kept, Rests, CancelClose, DropHandle, EndpointIdle, Leave, BeginClose,
     Close
<1>13. CASE UNCHANGED vars \/ \E c \in live : LoseConnection(c)
  BY <1>13 DEF Kind, Kept, vars, LoseConnection
<1> QED
  BY <1>2, <1>3, <1>6, <1>7, <1>8, <1>9, <1>10, <1>11, <1>12, <1>13
  DEF Next, Dropped, Quiescent

(* A connection that is down stays down: new ones have new numbers. *)
LEMMA DownStaysDown ==
    ASSUME SlotInv, [Next]_vars
    PROVE  \A u \in Tasks : conn[u] \notin live => conn[u] \notin live'
<1> USE DEF SlotInv, TypeOK, slotVars, lockVars, callVars
<1>1. ASSUME NEW t \in Tasks, DialSucceeds(t)
      PROVE  \A u \in Tasks : conn[u] \notin live => conn[u] \notin live'
  BY <1>1 DEF DialSucceeds, NewConnection, Numbering, NumberingOf
<1>2. ASSUME NEW t \in Tasks, NEW e \in SendErrors, Failed(t, e) PROVE live' \subseteq live
  BY <1>2 DEF Failed, CloseOnTimeout
<1>3. ASSUME NEW t \in Tasks, AttemptEnds(t) PROVE live' \subseteq live
  BY <1>2, <1>3 DEF AttemptEnds, SendAcked, SendLost, SendStopped, SendTimeout
<1>4. ASSUME NEW t \in Tasks, Send(t) \/ Peer(t) \/ LockGranted(t) PROVE live' \subseteq live
  BY <1>4 DEF Send, Peer, LockGranted, StartSend, RejectTooLarge, OpenUni, WriteAll,
     PeerReceives, PeerStops, ReuseConnection, BeginReconnect
<1>5. ASSUME NEW t \in Tasks, DialFails(t) \/ Install(t) \/ Wake(t) PROVE live' \subseteq live
  BY <1>5 DEF DialFails, DialTerminal, DialExhausted, DialBackoff, Install, Wake
<1>6. ASSUME NEW t \in Tasks, Dropped(t) \/ BeginClose(t) \/ Close(t) \/ EndpointIdle(t)
      PROVE  live' \subseteq live
  BY <1>6 DEF Dropped, CancelSend, DropFresh, CancelClose, DropHandle, Leave, BeginClose,
     Close, EndpointIdle
<1>7. CASE UNCHANGED vars \/ \E c \in live : LoseConnection(c)
  BY <1>7 DEF vars, LoseConnection
<1> QED
  BY <1>1, <1>3, <1>4, <1>5, <1>6, <1>7 DEF Next, DialResolves, Quiescent

-----------------------------------------------------------------------------
(* The invariant *)

LEMMA AfterTypes ==
    ASSUME SlotInv, StreamsTypeOK, Follow
    PROVE  StreamsTypeOK' /\ \A u \in Tasks : streams'[u] = After(u)
<1> USE DEF StreamsTypeOK
<1>1. \A u \in Tasks : streams'[u] = After(u)
  BY DEF Follow
<1>2. ASSUME NEW u \in Tasks PROVE After(u) \in [Attempts -> Fates]
  <2>1. Untouched \in [Attempts -> Fates] /\ streams[u] \in [Attempts -> Fates]
    BY DEF Untouched, Fates
  <2>2. Attempt(u) \in Attempts
    BY DEF Attempt, Attempts
  <2>3. streams[u][Attempt(u)] \in Fates /\ GivenUp(u) \in Fates
    BY <2>1, <2>2 DEF GivenUp, Fates
  <2>4. Becomes(u) \in Fates
    BY <2>3 DEF Becomes, Fates
  <2> QED
    BY <2>1, <2>4 DEF After
<1> QED
  BY <1>1, <1>2 DEF Follow

(* Every kind of step keeps what is said of a task's stream and its fate. *)
LEMMA TaskStep ==
    ASSUME SlotInv, SlotInv', StreamsTypeOK, NEW t \in Tasks, StreamOf(t), FateOf(t),
           Kind(t), conn[t] \notin live => conn[t] \notin live',
           streams'[t] = After(t)
    PROVE  StreamOf(t)' /\ FateOf(t)'
<1>1. StreamOf(t)'
  BY DEF StreamOf, Kind, Kept, Rests, Ends, Starts, Proceeds, Acked, Fails, Waits, Replays
<1>2. /\ streams[t] \in [Attempts -> Fates] /\ Attempt(t) \in Attempts
      /\ stream[t] \in {"none", "open", "received", "stopped"} /\ fresh[t] \in Nat
      /\ stream'[t] \in {"none", "open", "received", "stopped"} /\ fresh'[t] \in Nat
  BY DEF StreamsTypeOK, SlotInv, TypeOK, Attempt, Attempts
(* Between sends nothing has a stream to lose. *)
<1>3. ASSUME calls'[t] = calls[t], stream'[t] = stream[t], stream[t] = "none"
      PROVE  streams'[t] = streams[t]
  BY <1>2, <1>3 DEF After, Becomes
<1>4. CASE Kept(t)
  <2>1. CASE pc[t] \in Sending
    <3>1. streams'[t] = streams[t]
      <4>1. streams[t][Attempt(t)] = Running[stream[t]]
        BY <2>1 DEF FateOf
      <4>2. Becomes(t) = streams[t][Attempt(t)]
        BY <1>2, <1>4, <4>1 DEF Kept, Becomes, Running
      <4> QED
        BY <1>2, <1>4, <4>2 DEF Kept, After
    <3> QED
      BY <1>1, <1>4, <3>1 DEF Kept, FateOf, Attempt, LastStream
  <2>2. CASE pc[t] \notin Sending
    <3>1. streams'[t] = streams[t]
      BY <1>3, <1>4, <2>2 DEF Kept, StreamOf
    <3> QED
      BY <1>1, <1>4, <2>2, <3>1 DEF Kept, FateOf, LastStream
  <2> QED
    BY <2>1, <2>2
<1>5. CASE Rests(t)
  <2>1. streams'[t] = streams[t]
    BY <1>3, <1>5 DEF Rests, StreamOf
  <2> QED
    BY <1>1, <1>5, <2>1 DEF Rests, FateOf, LastStream
<1>6. CASE Ends(t)
  BY <1>1, <1>6 DEF Ends, FateOf
<1>7. CASE Starts(t)
  <2>1. streams'[t] = Untouched /\ stream'[t] = "none"
    BY <1>7 DEF Starts, After, StreamOf
  <2> QED
    BY <1>1, <1>7, <2>1 DEF Starts, FateOf, Attempt, Attempts, Untouched, Running
<1>8. CASE Proceeds(t)
  <2> DEFINE a == Attempt(t)
  <2>1. result'[t] = "none" /\ calls'[t] = calls[t]
    BY <1>8 DEF Proceeds, StreamOf
  <2>2. Becomes(t) = Running[stream'[t]]
    <3>1. stream'[t] = "none" => FALSE
      BY <1>8 DEF Proceeds, StreamOf
    <3> QED
      BY <1>2, <3>1 DEF Becomes, Running
  <2>3. /\ streams'[t][a] = Running[stream'[t]]
        /\ \A b \in Attempts \ {a} : streams'[t][b] = streams[t][b]
    BY <1>2, <2>1, <2>2 DEF After
  <2>4. Attempt(t)' = a /\ fresh'[t] = fresh[t]
    BY <1>8 DEF Proceeds, Attempt
  <2>5. fresh'[t] = 0 => streams'[t]["replay"] = "none"
    BY <1>8, <2>3, <2>4 DEF FateOf, Proceeds, Attempt, Attempts
  <2> QED
    BY <1>1, <1>8, <2>1, <2>3, <2>4, <2>5 DEF FateOf, Proceeds
<1>9. CASE Acked(t)
  <2>1. /\ streams[t][Attempt(t)] = Running[stream[t]]
        /\ Running[stream[t]] \in {"whole", "refused"}
    BY <1>9 DEF Acked, FateOf, Running
  <2>2. streams'[t] = streams[t]
    <3>1. Becomes(t) = streams[t][Attempt(t)]
      BY <1>9 DEF Acked, Becomes
    <3> QED
      BY <1>2, <1>9, <3>1 DEF Acked, After
  <2>3. fresh[t] = 0 => streams[t]["replay"] = "none"
    BY <1>9 DEF Acked, FateOf
  <2>4. LastStream(t)' \in {"whole", "refused"}
    BY <2>1, <2>2, <2>3 DEF LastStream, Attempt
  <2> QED
    BY <1>1, <1>9, <2>4 DEF Acked, FateOf
<1>10. CASE Fails(t)
  <2>1. result'[t] = "none" /\ streams[t]["replay"] = "none" /\ Attempt(t) = "first"
    BY <1>10 DEF Fails, StreamOf, FateOf, Attempt
  <2>2. streams'[t]["replay"] = "none"
    BY <1>2, <1>10, <2>1 DEF Fails, After, Attempts
  <2> QED
    BY <1>1, <1>10, <2>1, <2>2 DEF Fails, FateOf
<1>11. CASE Waits(t)
  <2>1. result'[t] = "none" /\ streams[t]["replay"] = "none" /\ stream[t] = "none"
    BY <1>11 DEF Waits, StreamOf, FateOf
  <2>2. streams'[t] = streams[t]
    BY <1>3, <1>11, <2>1 DEF Waits
  <2> QED
    BY <1>1, <1>11, <2>1, <2>2 DEF Waits, FateOf
<1>12. CASE Replays(t)
  <2>1. result'[t] = "none" /\ streams[t]["replay"] = "none" /\ stream[t] = "none"
    BY <1>12 DEF Replays, StreamOf, FateOf
  <2>2. streams'[t] = streams[t]
    BY <1>3, <1>12, <2>1 DEF Replays
  <2>3. conn'[t] \notin live'
    BY <1>12 DEF Replays, SlotInv, StaleIsDead
  <2> QED
    BY <1>1, <1>12, <2>1, <2>2, <2>3 DEF Replays, FateOf, Attempt, Running
<1> QED
  BY <1>4, <1>5, <1>6, <1>7, <1>8, <1>9, <1>10, <1>11, <1>12 DEF Kind

(* What is read late was given up before: neither the running stream nor one an Ok
   rests on. *)
LEMMA LateStep ==
    ASSUME DeliveryInv, NEW t \in Tasks, NEW a \in Attempts, ReadLate(t, a)
    PROVE  DeliveryInv'
<1> USE DEF DeliveryInv, StreamsTypeOK
<1>1. SlotInv' /\ \A u \in Tasks : StreamOf(u)'
  <2>1. UNCHANGED vars
    BY DEF ReadLate
  <2>2. [Next]_vars
    BY <2>1
  <2> QED
    BY <2>1, <2>2, InvStep DEF vars, slotVars, lockVars, callVars, StreamOf
<1>2. streams[t] \in [Attempts -> Fates] /\ Read(streams[t][a]) \in Fates
  BY DEF Read, Fates
<1>3. StreamsTypeOK'
  BY <1>2 DEF ReadLate
<1>4. ASSUME NEW u \in Tasks PROVE FateOf(u)'
  <2>1. ASSUME NEW b \in Attempts, streams[u][b] \in {"none", "open", "whole", "refused"}
        PROVE  streams'[u][b] = streams[u][b]
    BY <1>2, <2>1 DEF ReadLate
  <2>2. ASSUME NEW b \in Attempts
        PROVE  /\ streams'[u][b] = "none" <=> streams[u][b] = "none"
    BY <1>2 DEF ReadLate, Read
  <2>3. FateOf(u) /\ Attempt(u) \in Attempts
        /\ stream[u] \in {"none", "open", "received", "stopped"}
    BY DEF Attempt, Attempts, SlotInv, TypeOK
  <2>4. UNCHANGED <<pc, stream, fresh, conn, live, result>>
    BY DEF ReadLate, vars, slotVars, callVars
  <2>5. Attempt(u)' = Attempt(u)
    BY <2>4 DEF Attempt
  <2>6. Running[stream[u]] \in {"none", "open", "whole", "refused"}
    BY <2>3 DEF Running
  <2>7. result[u] = "Ok" => LastStream(u)' = LastStream(u)
    BY <2>1, <2>2, <2>3 DEF FateOf, LastStream, Attempts
  <2>8. pc[u] \in Sending => streams'[u][Attempt(u)] = Running[stream[u]]
    BY <2>1, <2>3, <2>6 DEF FateOf
  <2>9. streams[u]["replay"] = "none" => streams'[u]["replay"] = "none"
    BY <2>2 DEF Attempts
  <2> QED
    BY <2>3, <2>4, <2>5, <2>7, <2>8, <2>9 DEF FateOf
<1> QED
  BY <1>1, <1>3, <1>4

LEMMA DeliveryStep == DeliveryInv /\ [DeliveryNext]_deliveryVars => DeliveryInv'
<1> SUFFICES ASSUME DeliveryInv, [DeliveryNext]_deliveryVars PROVE DeliveryInv'
  OBVIOUS
<1>1. CASE Next /\ Follow
  <2>1. SlotInv' /\ TypeOK'
    BY <1>1, InvStep DEF DeliveryInv, SlotInv
  <2>2. StreamsTypeOK' /\ \A t \in Tasks : streams'[t] = After(t)
    BY <1>1, AfterTypes DEF DeliveryInv
  <2>3. \A t \in Tasks : Kind(t) /\ (conn[t] \notin live => conn[t] \notin live')
    BY <1>1, <2>1, TaskKinds, DownStaysDown DEF DeliveryInv
  <2> QED
    BY <2>1, <2>2, <2>3, TaskStep DEF DeliveryInv
<1>2. ASSUME NEW t \in Tasks, NEW a \in Attempts, ReadLate(t, a) PROVE DeliveryInv'
  BY <1>2, LateStep
<1>3. CASE UNCHANGED deliveryVars
  <2>1. SlotInv'
    BY <1>3, InvStep DEF deliveryVars, DeliveryInv
  <2> QED
    BY <1>3, <2>1 DEF deliveryVars, vars, slotVars, callVars, DeliveryInv, StreamsTypeOK,
       StreamOf, FateOf, Attempt, LastStream
<1> QED
  BY <1>1, <1>2, <1>3 DEF DeliveryNext

LEMMA DeliveryStart == DeliveryInit => DeliveryInv
<1> SUFFICES ASSUME DeliveryInit PROVE DeliveryInv
  OBVIOUS
<1>1. SlotInv
  BY InvInit DEF DeliveryInit
<1>2. Untouched \in [Attempts -> Fates]
  BY DEF Untouched, Fates
<1> QED
  BY <1>1, <1>2 DEF DeliveryInit, Init, DeliveryInv, StreamsTypeOK, StreamOf, FateOf

LEMMA InvDelivered == DeliveryInv => OkIsDelivered
BY DEF DeliveryInv, FateOf, OkIsDelivered, Retrying, SlotInv, StaleIsDead

(* However the replay, the timeouts and late readings interleave, Ok means that the peer
   has read the last stream of the call whole, or has refused it; and a call retries only
   when the connection its first attempt gave up is down at this end. *)
THEOREM OkMeansDelivered == DeliverySpec => []OkIsDelivered
BY DeliveryStart, DeliveryStep, InvDelivered, PTL DEF DeliverySpec
=============================================================================
