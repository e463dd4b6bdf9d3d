------------------------------ MODULE Session ------------------------------
(***************************************************************************)
(* The session a SolanaGunQuicClient keeps with one endpoint: the shared   *)
(* connection slot, send_transaction_bytes with its single replay, the     *)
(* serialised reconnect loop and close (src/src/client.rs).                *)
(*                                                                         *)
(* A task owns one clone of the client and has at most one call running.   *)
(* Connections are numbered in the order they are established, so pointer  *)
(* equality of two Arc<Connection> is equality of their numbers.  A step   *)
(* is what a task does between two awaits, a resolved wait, or a move of   *)
(* the peer or of the network.                                             *)
(***************************************************************************)
EXTENDS Naturals, FiniteSets

CONSTANTS Tasks,        \* tasks, each with its own clone of the client
          NoTask,       \* the reconnect lock is free
          MaxCalls,     \* bound: sends a task starts
          Enabled,      \* reconnect.enabled
          MaxAttempts,  \* reconnect.max_attempts, or NoLimit for None
          NoLimit,
          DialErrors    \* outcomes a failing dial_and_handshake may have here

(* Outcomes of one dial_and_handshake under connect_timeout; "Elapsed" is the
   timeout of the whole attempt, which the loop reports as a handshake timeout. *)
ConnectErrors == {"Tls", "TransportError", "Connection", "Dial", "Unauthorized",
                  "Revoked", "BadRequest", "TooManyConnections", "Io", "Timeout",
                  "Unexpected", "Elapsed"}

ASSUME TasksAssumption == IsFiniteSet(Tasks) /\ Tasks # {} /\ NoTask \notin Tasks
ASSUME BoundsAssumption ==
    /\ MaxCalls \in Nat
    /\ Enabled \in BOOLEAN
    /\ NoLimit \notin Nat
    /\ MaxAttempts \in Nat \union {NoLimit}
ASSUME DialErrorsAssumption == DialErrors \subseteq ConnectErrors

VARIABLES connection,      \* the slot RwLock<Arc<Connection>>
          established,     \* connections made so far
          live,            \* connections neither lost nor closed
          reconnect_lock,  \* holder of the Mutex, or NoTask
          ahead,           \* ahead[t]: tasks that wait for the lock before t
          pc,              \* where the task's call is suspended
          conn,            \* the connection read from the slot by the call
          fresh,           \* the connection reconnect returned to it, or 0
          stream,          \* the peer's view of the call's current uni-stream
          attempts,        \* failed dials of the call's reconnect
          calls,           \* sends started by the task
          result,          \* outcome of the task's latest call
          waited           \* history: dials resolved while t was reconnecting

slotVars == <<connection, established, live>>
lockVars == <<reconnect_lock, ahead>>
callVars == <<pc, conn, fresh, stream, attempts, calls, result>>
vars == <<slotVars, lockVars, callVars, waited>>

Sending      == {"open_uni", "write_all", "stopped"}
Holding      == {"dial", "sleep", "install"}
Reconnecting == {"lock"} \union Holding
Left         == {"gone", "dropped"}
SendErrors   == {"Timeout", "ConnectionLost", "Stopped"}
Results      == {"none", "Ok", "TooLarge", "Reconnect", "ReconnectExhausted",
                 "Cancelled"} \union SendErrors

Reconnectable(e) == e \in {"Timeout", "ConnectionLost"}

(* The faulty variants named Mutant... take the place of the definition that follows
   them in the checks that show a property can fail; nothing else uses them. *)
MutantNoRevoked(e) == e \in {"Tls", "TransportError", "Unauthorized", "BadRequest"}

IsTerminal(e) ==
    e \in {"Tls", "TransportError", "Unauthorized", "Revoked", "BadRequest"}

(* max_attempts is tested after a failure: Some(0) behaves as Some(1). *)
Exhausted(n) == MaxAttempts # NoLimit /\ n >= MaxAttempts

(* Without a limit nothing reads the counter. *)
Count(n) == IF MaxAttempts = NoLimit THEN n ELSE n + 1

MutantAlwaysRedial(t) == TRUE

(* Arc::ptr_eq(&cur, stale), under the lock. *)
StillCurrent(t) == connection = conn[t]

(* The connection the running attempt of the call uses. *)
On(t) == IF fresh[t] = 0 THEN conn[t] ELSE fresh[t]

Waiting == {t \in Tasks : pc[t] = "lock"}

Goto(t, l) == pc' = [pc EXCEPT ![t] = l]

(* The call returns r and drops its clones of the connections. *)
Return(t, r) ==
    /\ Goto(t, "idle")
    /\ result' = [result EXCEPT ![t] = r]
    /\ conn' = [conn EXCEPT ![t] = 0]
    /\ fresh' = [fresh EXCEPT ![t] = 0]
    /\ stream' = [stream EXCEPT ![t] = "none"]
    /\ attempts' = [attempts EXCEPT ![t] = 0]
    /\ UNCHANGED calls

(* The attempt on the fresh connection: it is the last one of the call. *)
Retry(t, c) ==
    /\ Goto(t, "open_uni")
    /\ fresh' = [fresh EXCEPT ![t] = c]
    /\ attempts' = [attempts EXCEPT ![t] = 0]
    /\ UNCHANGED <<conn, stream, calls, result>>

MutantLastFirst(t) ==
    ahead' = [u \in Tasks |-> IF u \in Waiting THEN ahead[u] \union {t} ELSE ahead[u]]

(* tokio's Mutex is fair: a newcomer queues behind everyone already waiting. *)
JoinQueue(t) == ahead' = [ahead EXCEPT ![t] = Waiting]

LeaveQueue(t) ==
    ahead' = [u \in Tasks |-> IF u = t THEN {} ELSE ahead[u] \ {t}]

Turn(t) == pc[t] = "lock" /\ reconnect_lock = NoTask /\ ahead[t] = {}

(* A dial has resolved: everybody still reconnecting has waited for it. *)
CountDial(returning) ==
    waited' = [u \in Tasks |->
                 IF u \in returning THEN 0
                 ELSE IF pc[u] \in {"lock", "dial"} THEN Count(waited[u])
                 ELSE waited[u]]

Init ==
    /\ connection = 1 /\ established = 1 /\ live = {1}
    /\ reconnect_lock = NoTask
    /\ ahead = [t \in Tasks |-> {}]
    /\ pc = [t \in Tasks |-> "idle"]
    /\ conn = [t \in Tasks |-> 0]
    /\ fresh = [t \in Tasks |-> 0]
    /\ stream = [t \in Tasks |-> "none"]
    /\ attempts = [t \in Tasks |-> 0]
    /\ calls = [t \in Tasks |-> 0]
    /\ result = [t \in Tasks |-> "none"]
    /\ waited = [t \in Tasks |-> 0]

-----------------------------------------------------------------------------
(* send_transaction_bytes and one attempt of it, send_on_timed *)

StartSend(t) ==
    /\ pc[t] = "idle" /\ calls[t] < MaxCalls
    /\ Goto(t, "open_uni")
    /\ conn' = [conn EXCEPT ![t] = connection]
    /\ calls' = [calls EXCEPT ![t] = @ + 1]
    /\ result' = [result EXCEPT ![t] = "none"]
    /\ UNCHANGED <<slotVars, lockVars, fresh, stream, attempts, waited>>

RejectTooLarge(t) ==
    /\ pc[t] = "idle" /\ calls[t] < MaxCalls
    /\ calls' = [calls EXCEPT ![t] = @ + 1]
    /\ result' = [result EXCEPT ![t] = "TooLarge"]
    /\ UNCHANGED <<slotVars, lockVars, pc, conn, fresh, stream, attempts, waited>>

OpenUni(t) ==
    /\ pc[t] = "open_uni" /\ On(t) \in live
    /\ Goto(t, "write_all")
    /\ stream' = [stream EXCEPT ![t] = "open"]
    /\ UNCHANGED <<slotVars, lockVars, conn, fresh, attempts, calls, result, waited>>

(* write_all has handed over the last byte; finish() follows without an await,
   and succeeds on a stream the peer has just stopped. *)
WriteAll(t) ==
    /\ pc[t] = "write_all" /\ On(t) \in live
    /\ Goto(t, "stopped")
    /\ UNCHANGED <<slotVars, lockVars, conn, fresh, stream, attempts, calls, result, waited>>

(* The peer has the whole finished stream and its acknowledgement is on the way. *)
PeerReceives(t) ==
    /\ pc[t] = "stopped" /\ stream[t] = "open" /\ On(t) \in live
    /\ stream' = [stream EXCEPT ![t] = "received"]
    /\ UNCHANGED <<slotVars, lockVars, pc, conn, fresh, attempts, calls, result, waited>>

(* STOP_SENDING: the peer refuses this transaction. *)
PeerStops(t) ==
    /\ pc[t] \in {"write_all", "stopped"} /\ stream[t] = "open" /\ On(t) \in live
    /\ stream' = [stream EXCEPT ![t] = "stopped"]
    /\ UNCHANGED <<slotVars, lockVars, pc, conn, fresh, attempts, calls, result, waited>>

MutantAckUnawaited(t) ==
    /\ pc[t] = "stopped" /\ On(t) \in live
    /\ Return(t, "Ok")
    /\ UNCHANGED <<slotVars, lockVars, waited>>

(* stopped() resolves: fully acknowledged, or refused, whose code is ignored. *)
SendAcked(t) ==
    /\ pc[t] = "stopped" /\ stream[t] \in {"received", "stopped"}
    /\ Return(t, "Ok")
    /\ UNCHANGED <<slotVars, lockVars, waited>>

MutantReplayAgain(t, e) == Enabled /\ Reconnectable(e)

MayReplay(t, e) == fresh[t] = 0 /\ Enabled /\ Reconnectable(e)

MutantKeepOnTimeout(t, e) == live' = live

CloseOnTimeout(t, e) == live' = IF e = "Timeout" THEN live \ {conn[t]} ELSE live

(* An attempt ends with the error e: close a connection that timed out and go
   and reconnect, or give the error to the caller.  A retry is not retried. *)
Failed(t, e) ==
    \/ /\ MayReplay(t, e)
       /\ CloseOnTimeout(t, e)
       /\ Goto(t, "lock")
       /\ JoinQueue(t)
       /\ stream' = [stream EXCEPT ![t] = "none"]
       /\ UNCHANGED <<connection, established, reconnect_lock, conn, fresh,
                      attempts, calls, result, waited>>
    \/ /\ ~ MayReplay(t, e)
       /\ Return(t, e)
       /\ UNCHANGED <<slotVars, lockVars, waited>>

SendLost(t) ==
    /\ pc[t] \in Sending /\ On(t) \notin live
    /\ Failed(t, "ConnectionLost")

(* Only the write reports that the peer stopped the stream. *)
SendStopped(t) ==
    /\ pc[t] = "write_all" /\ stream[t] = "stopped" /\ On(t) \in live
    /\ Failed(t, "Stopped")

MutantRetryUntimed(t) ==
    /\ pc[t] \in Sending /\ fresh[t] = 0
    /\ Failed(t, "Timeout")

SendTimeout(t) ==
    /\ pc[t] \in Sending
    /\ Failed(t, "Timeout")

-----------------------------------------------------------------------------
(* reconnect *)

(* Another task has replaced the connection meanwhile: use what is there. *)
ReuseConnection(t) ==
    /\ Turn(t) /\ ~ StillCurrent(t)
    /\ LeaveQueue(t)
    /\ Retry(t, connection)
    /\ waited' = [waited EXCEPT ![t] = 0]
    /\ UNCHANGED <<slotVars, reconnect_lock>>

BeginReconnect(t) ==
    /\ Turn(t) /\ StillCurrent(t)
    /\ reconnect_lock' = t
    /\ LeaveQueue(t)
    /\ Goto(t, "dial")
    /\ UNCHANGED <<slotVars, conn, fresh, stream, attempts, calls, result, waited>>

MutantNumberReused(c) ==
    /\ live' = live \union {c}
    /\ UNCHANGED established

NewConnection(c) ==
    /\ live' = live \union {c}
    /\ established' = c

DialSucceeds(t) ==
    /\ pc[t] = "dial"
    /\ NewConnection(established + 1)
    /\ fresh' = [fresh EXCEPT ![t] = established + 1]
    /\ Goto(t, "install")
    /\ CountDial({t})
    /\ UNCHANGED <<connection, lockVars, conn, stream, attempts, calls, result>>

(* The slot's write lock is granted; the guard of reconnect_lock is dropped. *)
Install(t) ==
    /\ pc[t] = "install"
    /\ connection' = fresh[t]
    /\ reconnect_lock' = NoTask
    /\ Retry(t, fresh[t])
    /\ UNCHANGED <<established, live, ahead, waited>>

DialTerminal(t, e) ==
    /\ pc[t] = "dial" /\ IsTerminal(e)
    /\ Return(t, "Reconnect")
    /\ reconnect_lock' = NoTask
    /\ CountDial({t})
    /\ UNCHANGED <<slotVars, ahead>>

DialExhausted(t, e) ==
    /\ pc[t] = "dial" /\ ~ IsTerminal(e) /\ Exhausted(attempts[t] + 1)
    /\ Return(t, "ReconnectExhausted")
    /\ reconnect_lock' = NoTask
    /\ CountDial({t})
    /\ UNCHANGED <<slotVars, ahead>>

DialBackoff(t, e) ==
    /\ pc[t] = "dial" /\ ~ IsTerminal(e) /\ ~ Exhausted(attempts[t] + 1)
    /\ attempts' = [attempts EXCEPT ![t] = Count(@)]
    /\ Goto(t, "sleep")
    /\ CountDial({})
    /\ UNCHANGED <<slotVars, lockVars, conn, fresh, stream, calls, result>>

DialFails(t) ==
    \E e \in DialErrors : DialTerminal(t, e) \/ DialExhausted(t, e) \/ DialBackoff(t, e)

Wake(t) ==
    /\ pc[t] = "sleep"
    /\ Goto(t, "dial")
    /\ UNCHANGED <<slotVars, lockVars, conn, fresh, stream, attempts, calls, result, waited>>

-----------------------------------------------------------------------------
(* Dropping the future at an await, close, and the network *)

MutantLeakFresh(t) == live' = live

(* The last Arc of a connection that never reached the slot. *)
DropFresh(t) == live' = IF pc[t] = "install" THEN live \ {fresh[t]} ELSE live

(* Whatever the call holds goes with it: the guard or its place in the queue,
   and a connection that was dialled but not yet installed, which closes. *)
CancelSend(t) ==
    /\ pc[t] \in Sending \union Reconnecting
    /\ Return(t, "Cancelled")
    /\ DropFresh(t)
    /\ reconnect_lock' = IF reconnect_lock = t THEN NoTask ELSE reconnect_lock
    /\ LeaveQueue(t)
    /\ waited' = [waited EXCEPT ![t] = 0]
    /\ UNCHANGED <<connection, established>>

LastHandle(t) == \A u \in Tasks \ {t} : pc[u] \in Left

(* The last handle takes Inner with it, and quinn closes the connection in it. *)
Leave(t, l) ==
    /\ Goto(t, l)
    /\ live' = IF LastHandle(t) THEN live \ {connection} ELSE live
    /\ UNCHANGED <<connection, established, lockVars, conn, fresh, stream, attempts,
                   calls, result, waited>>

(* A handle is dropped and was never closed. *)
DropHandle(t) == pc[t] = "idle" /\ Leave(t, "dropped")

CancelClose(t) == pc[t] = "closing" /\ Leave(t, "gone")

(* close takes the handle by value: no send of this handle is running.  It reads the
   slot first, and another task may replace the connection before this one closes it. *)
BeginClose(t) ==
    /\ pc[t] = "idle"
    /\ Goto(t, "close")
    /\ conn' = [conn EXCEPT ![t] = connection]
    /\ UNCHANGED <<slotVars, lockVars, fresh, stream, attempts, calls, result, waited>>

MutantOnlyWait(t) ==
    /\ pc[t] = "close"
    /\ Goto(t, "closing")
    /\ conn' = [conn EXCEPT ![t] = 0]
    /\ UNCHANGED <<slotVars, lockVars, fresh, stream, attempts, calls, result, waited>>

Close(t) ==
    /\ pc[t] = "close"
    /\ live' = live \ {conn[t]}
    /\ Goto(t, "closing")
    /\ conn' = [conn EXCEPT ![t] = 0]
    /\ UNCHANGED <<connection, established, lockVars, fresh, stream, attempts,
                   calls, result, waited>>

(* wait_idle: the endpoint knows of no connection, established or being dialled. *)
EndpointIdle(t) ==
    /\ pc[t] = "closing"
    /\ live = {} /\ \A u \in Tasks : pc[u] # "dial"
    /\ Leave(t, "gone")

LoseConnection(c) ==
    /\ live' = live \ {c}
    /\ UNCHANGED <<connection, established, lockVars, callVars, waited>>

Quiescent ==
    /\ \A t \in Tasks : pc[t] \in Left
    /\ UNCHANGED vars

-----------------------------------------------------------------------------
AttemptEnds(t) == SendAcked(t) \/ SendLost(t) \/ SendStopped(t) \/ SendTimeout(t)
Send(t)        == StartSend(t) \/ RejectTooLarge(t) \/ OpenUni(t) \/ WriteAll(t)
Peer(t)        == PeerReceives(t) \/ PeerStops(t)
LockGranted(t) == ReuseConnection(t) \/ BeginReconnect(t)
DialResolves(t) == DialSucceeds(t) \/ DialFails(t)
Dropped(t)     == CancelSend(t) \/ CancelClose(t) \/ DropHandle(t)

Next ==
    \/ \E t \in Tasks :
          \/ Send(t) \/ Peer(t) \/ AttemptEnds(t)
          \/ LockGranted(t) \/ DialResolves(t) \/ Install(t) \/ Wake(t)
          \/ Dropped(t) \/ BeginClose(t) \/ Close(t) \/ EndpointIdle(t)
    \/ \E c \in live : LoseConnection(c)
    \/ Quiescent

Spec == Init /\ [][Next]_vars

(* Timers fire, a released mutex is handed to the first waiter, and a runnable
   task is polled.  Nothing obliges the peer or the network to do anything. *)
Fairness ==
    \A t \in Tasks :
       /\ WF_vars(AttemptEnds(t))
       /\ WF_vars(LockGranted(t))
       /\ WF_vars(DialResolves(t))
       /\ WF_vars(Install(t))
       /\ WF_vars(Wake(t))
       /\ WF_vars(Close(t))
       /\ WF_vars(EndpointIdle(t))

FairSpec == Spec /\ Fairness
-----------------------------------------------------------------------------
(* Properties *)

TypeOK ==
    /\ connection \in Nat /\ established \in Nat /\ live \subseteq 1..established
    /\ reconnect_lock \in Tasks \union {NoTask}
    /\ ahead \in [Tasks -> SUBSET Tasks]
    /\ pc \in [Tasks -> {"idle", "close", "closing"} \union Left \union Sending
                           \union Reconnecting]
    /\ conn \in [Tasks -> Nat] /\ fresh \in [Tasks -> Nat]
    /\ stream \in [Tasks -> {"none", "open", "received", "stopped"}]
    /\ attempts \in [Tasks -> Nat] /\ calls \in [Tasks -> Nat]
    /\ result \in [Tasks -> Results]
    /\ waited \in [Tasks -> Nat]

(* The lock is held exactly while a task dials, backs off or installs. *)
LockDiscipline == \A t \in Tasks : pc[t] \in Holding <=> reconnect_lock = t

(* Nobody reconnects away from a connection that still works. *)
StaleIsDead == \A t \in Tasks : pc[t] \in Reconnecting => conn[t] \notin live

(* The slot does not move under the task that is replacing its content. *)
HolderIsCurrent == \A t \in Tasks : pc[t] \in Holding => conn[t] = connection

(* Connections come and go in the order of their numbers. *)
NumberingOf(t) ==
    /\ conn[t] <= connection
    /\ pc[t] \in {"idle", "closing"} \union Left => conn[t] = 0
    /\ pc[t] \in {"close"} \union Sending \union Reconnecting => conn[t] > 0
    /\ fresh[t] <= established
    /\ pc[t] \in Sending /\ fresh[t] # 0 => conn[t] < fresh[t] /\ fresh[t] <= connection
    /\ pc[t] = "install" => connection < fresh[t]
    /\ pc[t] \notin Sending \union {"install"} => fresh[t] = 0

Numbering == connection \in 1..established /\ \A t \in Tasks : NumberingOf(t)

(* A connection that works is in the slot, or about to be put there. *)
LiveIsReachable ==
    \A c \in live : c = connection \/ \E t \in Tasks : pc[t] = "install" /\ fresh[t] = c

SlotInv == /\ TypeOK /\ LockDiscipline /\ StaleIsDead /\ HolderIsCurrent
           /\ Numbering /\ LiveIsReachable

(* Once nobody sends any more, what is open is what somebody is about to close. *)
ClosersKnow ==
    (\A t \in Tasks : pc[t] \in {"close", "closing", "gone"}) =>
       \A c \in live : \E t \in Tasks : pc[t] = "close" /\ conn[t] = c

(* Nothing is open that no handle refers to. *)
NothingOutlives == (\A t \in Tasks : pc[t] \in Left) => live = {}

IInv == SlotInv /\ ClosersKnow /\ NothingOutlives

(* The client occupies one connection slot at the server, which counts them per
   token: never two open connections, and none while another one is dialled, for
   all interleavings of senders, timeouts, drops and closes (README.md:7). *)
SingleConnection ==
    /\ \A c, d \in live : c = d
    /\ (\E t \in Tasks : pc[t] = "dial") => live = {}

(* A clone may reconnect after another clone closed the session, but once every
   clone has called close no connection is left open behind them (close), and none
   outlives the handles, closed or not. *)
LastCloseLeavesNothing ==
    /\ (\A t \in Tasks : pc[t] \in {"closing", "gone"}) => live = {}
    /\ (\A t \in Tasks : pc[t] \in Left) => live = {}

(* Dials one holder of the lock makes at most. *)
PerHolder == IF MaxAttempts = 0 THEN 1 ELSE MaxAttempts

(* A finite max_attempts bounds how long a stuck send takes, counted in dials:
   every sender queued before it may use up its own attempts first, and nobody who
   comes later may.  (README.md: "finite so a stuck send returns".) *)
ReconnectWaitBound ==
    MaxAttempts # NoLimit =>
       \A t \in Tasks :
          /\ pc[t] = "lock" => waited[t] <= (Cardinality(Tasks) - 1) * PerHolder
          /\ pc[t] \in {"dial", "sleep"} => waited[t] < Cardinality(Tasks) * PerHolder

Stage(t) == CASE pc[t] \in Sending /\ fresh[t] = 0 -> "first"
              [] pc[t] \in Sending /\ fresh[t] # 0 -> "replay"
              [] pc[t] \in Reconnecting -> "failed"
              [] OTHER -> "rest"

(* A connection that is not installed yet carries nothing. *)
Carrier(t) == CASE Stage(t) = "rest" -> 0
                [] pc[t] = "install" -> conn[t]
                [] OTHER -> On(t)

StageMap == [t \in Tasks |-> Stage(t)]
CarrierMap == [t \in Tasks |-> Carrier(t)]

Submitted == INSTANCE Submission WITH
    current <- connection,
    up <- connection \in live,
    stage <- StageMap,
    on <- CarrierMap

(* send_transaction_bytes with reconnect implements Submission: a transaction is
   replayed at most once, on a newer connection, after its first one is down. *)
AtMostOneReplay == Submitted!Spec

(* With a finite max_attempts, or with a server that only refuses for good, every
   send returns: timeouts, the lock queue and the backoff leave nobody behind. *)
EveryCallReturns ==
    \A t \in Tasks : pc[t] \in Sending \union Reconnecting ~> pc[t] \in {"idle", "gone"}

(* When all clones are being closed, every close returns.  (It need not if a clone that
   has reconnected is dropped instead: its connection keeps the endpoint busy.) *)
LastClosesReturn ==
    (\A t \in Tasks : pc[t] \in {"close", "closing", "gone"})
       ~> (\A t \in Tasks : pc[t] = "gone")

(* The doc comment of send_transaction_bytes: "Returns Ok once the bytes are written
   and the uni-stream finished -- i.e. queued in the local QUIC send buffer": a call whose
   stream is finished does not return an error. *)
OkOnceQueued ==
    [][\A t \in Tasks : pc[t] = "stopped" => result'[t] \notin SendErrors]_vars

(* README.md on send_timeout: "on timeout the connection is closed". *)
TimeoutCloses ==
    [][\A t \in Tasks : result[t] # "Timeout" /\ result'[t] = "Timeout"
                          => On(t) \notin live']_vars
=============================================================================
