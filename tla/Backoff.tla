------------------------------ MODULE Backoff ------------------------------
(***************************************************************************)
(* The time a reconnect takes (src/src/client.rs): dials of at most        *)
(* connect_timeout, and between them sleeps whose length doubles from      *)
(* initial_backoff to max_backoff and is jittered.  The policy comes from  *)
(* the caller and has passed ClientConfig::validate (src/src/config.rs).   *)
(*                                                                         *)
(* Durations are integers that saturate at MaxDuration, as Duration does   *)
(* at Duration::MAX.  Timers fire when they are due.                       *)
(***************************************************************************)
EXTENDS Naturals

CONSTANTS MaxDuration,  \* Duration::MAX
          NoLimit,      \* max_attempts is None
          Policies,     \* ReconnectPolicy values callers come with
          MaxDials      \* bound: dials of a policy without limit

Durations == 0..MaxDuration

ReconnectPolicy == [connect_timeout : Durations, initial_backoff : Durations,
                    max_backoff : Durations, max_attempts : Nat \union {NoLimit}]

ASSUME MaxDurationAssumption == MaxDuration \in Nat /\ NoLimit \notin Nat
ASSUME PoliciesAssumption == Policies \subseteq ReconnectPolicy
ASSUME MaxDialsAssumption == MaxDials \in Nat

VARIABLES policy,    \* the client's ReconnectPolicy
          phase,     \* "new", "rejected", "dial", "sleep", "returned"
          backoff,   \* the loop's backoff
          attempts,  \* dials that have failed
          now,       \* history: time since reconnect began
          slept      \* history: the part of it spent asleep

vars == <<policy, phase, backoff, attempts, now, slept>>

(* The faulty variants named Mutant... take the place of the definition that follows
   them in the checks that show a property can fail; nothing else uses them. *)
MutantBackoffUnchecked(p) == p.connect_timeout # 0 /\ p.initial_backoff # 0

validate(p) ==
    /\ p.connect_timeout # 0
    /\ p.initial_backoff # 0
    /\ p.max_backoff >= p.initial_backoff

Least(a, b) == IF a <= b THEN a ELSE b

saturating_mul(a, n) == Least(a * n, MaxDuration)

MutantUncapped(current, max) == current * 2

MutantWraps(current, max) == Least((current * 2) % (MaxDuration + 1), max)

next_backoff(current, max) == Least(saturating_mul(current, 2), max)

MutantFullJitter(base) == 0..base

(* half + half.mul_f64(u) for some u in 0..1: a half that is not there, for an odd base,
   is lost. *)
jittered(base) == {base \div 2 + part : part \in 0..(base \div 2)}

Exhausted(n) == policy.max_attempts # NoLimit /\ n >= policy.max_attempts

Init ==
    /\ policy \in Policies
    /\ phase = "new" /\ backoff = 0 /\ attempts = 0
    /\ now = 0 /\ slept = 0

(* connect refuses the configuration. *)
Reject ==
    /\ phase = "new" /\ ~ validate(policy)
    /\ phase' = "rejected"
    /\ UNCHANGED <<policy, backoff, attempts, now, slept>>

BeginReconnect ==
    /\ phase = "new" /\ validate(policy)
    /\ phase' = "dial"
    /\ backoff' = policy.initial_backoff
    /\ UNCHANGED <<policy, attempts, now, slept>>

(* The dial has taken d: it connects or fails for good. *)
DialEnds(d) ==
    /\ phase = "dial"
    /\ phase' = "returned"
    /\ now' = now + d
    /\ UNCHANGED <<policy, backoff, attempts, slept>>

(* A transient failure, the timeout of the dial included. *)
DialFails(d) ==
    /\ phase = "dial"
    /\ policy.max_attempts # NoLimit \/ attempts < MaxDials
    /\ attempts' = attempts + 1
    /\ phase' = IF Exhausted(attempts + 1) THEN "returned" ELSE "sleep"
    /\ now' = now + d
    /\ UNCHANGED <<policy, backoff, slept>>

Sleep(s) ==
    /\ phase = "sleep"
    /\ phase' = "dial"
    /\ now' = now + s /\ slept' = slept + s
    /\ backoff' = next_backoff(backoff, policy.max_backoff)
    /\ UNCHANGED <<policy, attempts>>

Done == phase \in {"rejected", "returned"} /\ UNCHANGED vars

Next ==
    \/ Reject \/ BeginReconnect
    \/ \E d \in 0..policy.connect_timeout : DialEnds(d) \/ DialFails(d)
    \/ \E s \in jittered(backoff) : Sleep(s)
    \/ Done

Spec == Init /\ [][Next]_vars

-----------------------------------------------------------------------------
(* Properties *)

BackoffTypeOK ==
    /\ policy \in Policies
    /\ phase \in {"new", "rejected", "dial", "sleep", "returned"}
    /\ backoff \in Durations
    /\ attempts \in Nat
    /\ now \in Nat /\ slept \in Nat

(* The backoff before the k-th sleep, without limits of representation. *)
Schedule(k) == Least(policy.initial_backoff * 2 ^ (k - 1), policy.max_backoff)

(* Sum of the first k of them, under a scaling. *)
Planned(Scaled(_)) ==
    LET sum[k \in Nat] == IF k = 0 THEN 0 ELSE sum[k - 1] + Scaled(Schedule(k))
    IN sum

(* Doubling with saturation and cap comes out as min(initial * 2^k, max) whatever the
   width of a Duration: it neither wraps nor stops short (next_backoff). *)
OnSchedule ==
    /\ phase = "sleep" => backoff = Schedule(attempts)
    /\ phase = "dial" => backoff = Schedule(attempts + 1)

(* The server is not hammered and the caller is not kept waiting beyond the plan: with
   every draw of the jitter, the time asleep after k sleeps is between the sum of the
   schedule's first k values and the sum of their halves (apply_jitter). *)
Paced ==
    phase = "dial" =>
       /\ slept <= Planned(LAMBDA b : b)[attempts]
       /\ slept >= Planned(LAMBDA b : b \div 2)[attempts]

(* Dials of one reconnect: Some(0) behaves as Some(1). *)
Dials == IF policy.max_attempts = 0 THEN 1 ELSE policy.max_attempts

(* README.md on max_attempts: "finite so a stuck send returns within a bounded time".
   The bound: every dial runs into its timeout and every sleep but none after the last
   dial is max_backoff long. *)
StuckReturns ==
    phase \in {"dial", "sleep", "returned"} /\ policy.max_attempts # NoLimit =>
       now <= Dials * policy.connect_timeout + (Dials - 1) * policy.max_backoff
=============================================================================
