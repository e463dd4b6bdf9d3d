----------------------------- MODULE Submission -----------------------------
(***************************************************************************)
(* What the session promises about a submitted transaction, whatever the   *)
(* lock, the backoff and the streams do: it is offered to one connection,  *)
(* the current one, and offered once more only after that connection has   *)
(* gone down and only on a newer one.  Since a connection is replaced only *)
(* when it is down, no two connections ever carry the client's traffic.    *)
(***************************************************************************)
EXTENDS Naturals

CONSTANT Tasks

VARIABLES current,  \* number of the connection in use
          up,       \* whether it is open
          stage,    \* what each task's call is doing
          on        \* the connection that carries, or last carried, the transaction

vars == <<current, up, stage, on>>

Stages == {"rest", "first", "failed", "replay"}

Init ==
    /\ current = 1 /\ up = TRUE
    /\ stage = [t \in Tasks |-> "rest"]
    /\ on = [t \in Tasks |-> 0]

Enter(t, s, c) ==
    /\ stage' = [stage EXCEPT ![t] = s]
    /\ on' = [on EXCEPT ![t] = c]

Submit(t) ==
    /\ stage[t] = "rest"
    /\ Enter(t, "first", current)
    /\ UNCHANGED <<current, up>>

(* The first attempt is given up for a replay: its connection is down. *)
Fail(t) ==
    /\ stage[t] = "first"
    /\ Enter(t, "failed", on[t])
    /\ up' = (up /\ on[t] # current)
    /\ UNCHANGED current

(* Accepted, refused, failed for good or abandoned. *)
Finish(t) ==
    /\ stage[t] # "rest"
    /\ Enter(t, "rest", 0)
    /\ UNCHANGED <<current, up>>

Replay(t) ==
    /\ stage[t] = "failed" /\ on[t] < current
    /\ Enter(t, "replay", current)
    /\ UNCHANGED <<current, up>>

(* The connection is replaced, by a call that failed on it, once it is down.
   The new one may have gone down by the time it is put in place. *)
Redial(t) ==
    /\ stage[t] = "failed" /\ on[t] = current /\ ~ up
    /\ current' \in Nat /\ current' > current
    /\ up' \in BOOLEAN
    /\ Enter(t, "replay", current')

GoDown == up' = FALSE /\ UNCHANGED <<current, stage, on>>

Next ==
    \/ GoDown
    \/ \E t \in Tasks : Submit(t) \/ Fail(t) \/ Finish(t) \/ Replay(t) \/ Redial(t)

Spec == Init /\ [][Next]_vars
=============================================================================
