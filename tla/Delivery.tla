------------------------------ MODULE Delivery ------------------------------
(***************************************************************************)
(* What becomes of the streams a Session sends on, as the peer sees them.  *)
(* An attempt that is given up, by its timeout or because the call is      *)
(* dropped, drops its stream.  What was sent of it stays on its way: the   *)
(* peer may read it before or after the replay, and after the client has   *)
(* closed the connection, whose close may be lost or overtaken.  Worse,    *)
(* quinn finishes a stream that is dropped: as long as the connection is   *)
(* up the peer may be sent, as a complete stream, a transaction that was   *)
(* only written in part.                                                   *)
(***************************************************************************)
EXTENDS Session

VARIABLE streams  \* history: the fate of the two streams of the task's latest call

deliveryVars == <<vars, streams>>

Attempts == {"first", "replay"}

(* "late" has been given up complete and may be read at any time, "torn" given up half
   written and finished by quinn, "gone" will never be complete, "cut" has been read. *)
Fates == {"none", "open", "whole", "refused", "late", "torn", "gone", "cut"}

Untouched == [a \in Attempts |-> "none"]

Attempt(t) == IF fresh[t] = 0 THEN "first" ELSE "replay"

(* What is left of a stream that is dropped now. *)
GivenUp(t) == CASE pc[t] = "stopped"                      -> "late"
                [] pc[t] = "write_all" /\ On(t) \in live -> "torn"
                [] OTHER                                  -> "gone"

(* The fate of the stream of the running attempt after a step of Session. *)
Becomes(t) ==
    CASE stream'[t] = "open"                        -> "open"
      [] stream'[t] = "received"                    -> "whole"
      [] stream'[t] = "stopped"                     -> "refused"
      [] stream'[t] = "none" /\ stream[t] = "open"  -> GivenUp(t)
      [] OTHER                                      -> streams[t][Attempt(t)]

After(t) == IF calls'[t] # calls[t] THEN Untouched
                                    ELSE [streams[t] EXCEPT ![Attempt(t)] = Becomes(t)]

Follow == streams' = [t \in Tasks |-> After(t)]

Read(fate) == IF fate = "late" THEN "whole" ELSE "cut"

(* The peer comes to read what was on its way when the stream was given up, whatever the
   client has done, or thinks, of the connection by now. *)
ReadLate(t, a) ==
    /\ streams[t][a] \in {"late", "torn"}
    /\ streams' = [streams EXCEPT ![t][a] = Read(@)]
    /\ UNCHANGED vars

DeliveryInit == Init /\ streams = [t \in Tasks |-> Untouched]

DeliveryNext == \/ Next /\ Follow
                \/ \E t \in Tasks, a \in Attempts : ReadLate(t, a)

DeliverySpec == DeliveryInit /\ [][DeliveryNext]_deliveryVars

-----------------------------------------------------------------------------
(* Properties *)

(* The stream the outcome of the call is about. *)
LastStream(t) == IF streams[t]["replay"] = "none" THEN streams[t]["first"]
                                                  ELSE streams[t]["replay"]

(* The first attempt is over and its call goes on. *)
Retrying(t) == pc[t] \in Reconnecting \/ (pc[t] \in Sending /\ fresh[t] # 0)

(* Ok rests on the last stream of the call and on nothing that was given up before: the
   peer has read that stream whole, or has refused it with STOP_SENDING, which the code
   takes for Ok too.  A call that goes on after its first attempt does so only when the
   connection of that attempt is down at this end: of a stream left half written there
   no more is sent, and what was sent before may still be read, truncated, before or
   after the replay (send_on, send_on_timed, send_transaction_bytes). *)
OkIsDelivered ==
    \A t \in Tasks :
       /\ result[t] = "Ok" => LastStream(t) \in {"whole", "refused"}
       /\ Retrying(t) => conn[t] \notin live
=============================================================================
