------------------------------ MODULE Probing ------------------------------
(***************************************************************************)
(* probe_all, probe_one and probe_addrs (src/src/autoconfig.rs): every     *)
(* discovered endpoint is probed by a task of its own, a semaphore lets a  *)
(* bounded number of them run, each task probes all addresses of its       *)
(* endpoint at once, and results are folded in the order they arrive.      *)
(*                                                                         *)
(* Endpoints are their discovery indices and addresses their place in the  *)
(* resolver's answer.  A latency is whatever a probe measured: it says     *)
(* nothing of the order in which probes end, since they start at different *)
(* times.  Join sets hand out tasks as they finish, so a probe ends and is *)
(* joined in one step.                                                     *)
(***************************************************************************)
EXTENDS Naturals, FiniteSets

CONSTANTS Count,      \* bound: discovered endpoints
          MaxAddrs,   \* bound: addresses a lookup returns
          Permits,    \* MAX_CONCURRENT_PROBES
          Latencies   \* bound: latencies a probe measures

ASSUME CountAssumption == Count \in Nat \ {0}
ASSUME MaxAddrsAssumption == MaxAddrs \in Nat \ {0}
ASSUME PermitsAssumption == Permits \in Nat \ {0}
ASSUME LatenciesAssumption == Latencies \subseteq Nat

Addrs == 1..MaxAddrs

(* A ProbeOk, or the best of an endpoint: which address answered, and how fast. *)
Probes == [index : 1..Count, addr : Addrs, latency : Latencies]
NoProbe == [index |-> 0, addr |-> 0, latency |-> 0]

(* usize::MAX in failures: the task itself failed and took its endpoint's name along. *)
Unknown == Count + 1

VARIABLES found,      \* endpoints probe_all is called with, 0 before
          task,       \* phase of each endpoint's task
          running,    \* <<endpoint, address>> probes under way
          best,       \* fastest success of each endpoint so far
          first_err,  \* lowest address that failed, or 0
          results,    \* successes probe_all has joined
          failures,   \* failures joined: spawning order, index kept, what failed
          answer,     \* what probe_all returned
          measured,   \* history: every success of an address probe
          failed      \* history: every <<endpoint, address>> that failed

probingVars == <<found, task, running, best, first_err, results, failures, answer>>
vars == <<probingVars, measured, failed>>

Endpoints == 1..found

Pending == [kind |-> "pending", best |-> NoProbe]

Holders == {i \in Endpoints : task[i] \in {"lookup", "probing"}}

Init ==
    /\ found = 0
    /\ task = [i \in 1..Count |-> "queued"]
    /\ running = {}
    /\ best = [i \in 1..Count |-> NoProbe]
    /\ first_err = [i \in 1..Count |-> 0]
    /\ results = {} /\ failures = {}
    /\ answer = Pending
    /\ measured = {} /\ failed = {}

(* A task is spawned for every endpoint. *)
Start(n) ==
    /\ found = 0
    /\ found' = n
    /\ UNCHANGED <<task, running, best, first_err, results, failures, answer, measured, failed>>

-----------------------------------------------------------------------------
(* One endpoint's task *)

Acquire(i) ==
    /\ task[i] = "queued" /\ Cardinality(Holders) < Permits
    /\ task' = [task EXCEPT ![i] = "lookup"]
    /\ UNCHANGED <<found, running, best, first_err, results, failures, answer, measured, failed>>

(* The task ends, its permit is free, and probe_all joins it. *)
JoinFailure(i, index, about) ==
    /\ task' = [task EXCEPT ![i] = "joined"]
    /\ failures' = failures \union {[of |-> i, index |-> index, about |-> about]}
    /\ UNCHANGED <<found, best, first_err, results, answer, measured, failed>>

(* DNS error, DNS timeout, or an empty answer. *)
LookupFails(i) ==
    /\ task[i] = "lookup"
    /\ JoinFailure(i, i, "lookup")
    /\ UNCHANGED running

Resolve(i, n) ==
    /\ task[i] = "lookup"
    /\ task' = [task EXCEPT ![i] = "probing"]
    /\ running' = running \union ({i} \X (1..n))
    /\ UNCHANGED <<found, best, first_err, results, failures, answer, measured, failed>>

(* The faulty variants named Mutant... take the place of the definition that follows
   them in the checks that show a property can fail; nothing else uses them. *)
MutantLatest(i, latency) == TRUE

(* best.is_none_or(..): among equals the first to arrive stays. *)
Improves(i, latency) == best[i] = NoProbe \/ latency < best[i].latency

ProbeSucceeds(i, a, latency) ==
    /\ <<i, a>> \in running
    /\ running' = running \ {<<i, a>>}
    /\ LET ok == [index |-> i, addr |-> a, latency |-> latency]
       IN /\ best' = IF Improves(i, latency) THEN [best EXCEPT ![i] = ok] ELSE best
          /\ measured' = measured \union {ok}
    /\ UNCHANGED <<found, task, first_err, results, failures, answer, failed>>

MutantFirstToFail(i, a) == first_err[i] = 0

EarlierError(i, a) == first_err[i] = 0 \/ a < first_err[i]

(* The dial fails or probe_timeout expires. *)
ProbeFails(i, a) ==
    /\ <<i, a>> \in running
    /\ running' = running \ {<<i, a>>}
    /\ first_err' = IF EarlierError(i, a) THEN [first_err EXCEPT ![i] = a] ELSE first_err
    /\ failed' = failed \union {<<i, a>>}
    /\ UNCHANGED <<found, task, best, results, failures, answer, measured>>

(* The address's task does not finish: its JoinError is skipped. *)
ProbeAborts(i, a) ==
    /\ <<i, a>> \in running
    /\ running' = running \ {<<i, a>>}
    /\ UNCHANGED <<found, task, best, first_err, results, failures, answer, measured, failed>>

MutantAnyJoined(i) == task[i] = "probing" /\ \E a \in Addrs : <<i, a>> \notin running

(* The join set of the endpoint is empty: probe_addrs returns. *)
AllJoined(i) == task[i] = "probing" /\ \A a \in Addrs : <<i, a>> \notin running

MutantAssumed(i) == TRUE

Reached(i) == best[i] # NoProbe

EndpointSucceeds(i) ==
    /\ AllJoined(i) /\ Reached(i)
    /\ task' = [task EXCEPT ![i] = "joined"]
    /\ results' = results \union {best[i]}
    /\ UNCHANGED <<found, running, best, first_err, failures, answer, measured, failed>>

EndpointFails(i) ==
    /\ AllJoined(i) /\ ~ Reached(i) /\ first_err[i] # 0
    /\ JoinFailure(i, i, "address")
    /\ UNCHANGED running

(* No address task finished: "probe task failed". *)
EndpointAborted(i) ==
    /\ AllJoined(i) /\ ~ Reached(i) /\ first_err[i] = 0
    /\ JoinFailure(i, i, "tasks")
    /\ UNCHANGED running

(* The endpoint's own task does not finish; its address tasks are aborted with it. *)
TaskAborts(i) ==
    /\ i \in Holders
    /\ running' = {r \in running : r[1] # i}
    /\ JoinFailure(i, Unknown, "aborted")

-----------------------------------------------------------------------------
(* probe_all *)

(* The key (latency, order) of select_best. *)
NotSlower(r, q) == r.latency < q.latency \/ (r.latency = q.latency /\ r.index <= q.index)

select_best(rs) == CHOOSE r \in rs : \A q \in rs : NotSlower(r, q)

(* join_next returned None. *)
ProbeAll ==
    /\ answer = Pending /\ found # 0
    /\ \A i \in Endpoints : task[i] = "joined"
    /\ answer' = IF results = {} THEN [kind |-> "AllProbesFailed", best |-> NoProbe]
                 ELSE [kind |-> "selected", best |-> select_best(results)]
    /\ UNCHANGED <<found, task, running, best, first_err, results, failures, measured, failed>>

Answered == answer # Pending /\ UNCHANGED vars

-----------------------------------------------------------------------------
LookupEnds(i) == LookupFails(i) \/ \E n \in Addrs : Resolve(i, n)

ProbeEnds(i, a) ==
    \/ \E l \in Latencies : ProbeSucceeds(i, a, l)
    \/ ProbeFails(i, a)
    \/ ProbeAborts(i, a)

EndpointEnds(i) == EndpointSucceeds(i) \/ EndpointFails(i) \/ EndpointAborted(i)

Probe ==
    \/ \E i \in Endpoints :
          \/ Acquire(i) \/ LookupEnds(i) \/ EndpointEnds(i) \/ TaskAborts(i)
          \/ \E a \in Addrs : ProbeEnds(i, a)
    \/ ProbeAll

Next == (\E n \in 1..Count : Start(n)) \/ Probe \/ Answered

Spec == Init /\ [][Next]_vars

-----------------------------------------------------------------------------
(* Properties *)

Answers == {Pending, [kind |-> "AllProbesFailed", best |-> NoProbe]}
             \union [kind : {"selected"}, best : Probes]

ProbingTypeOK ==
    /\ found \in 0..Count
    /\ task \in [1..Count -> {"queued", "lookup", "probing", "joined"}]
    /\ running \subseteq Endpoints \X Addrs
    /\ best \in [1..Count -> Probes \union {NoProbe}]
    /\ first_err \in [1..Count -> Addrs \union {0}]
    /\ results \subseteq Probes
    /\ failures \subseteq [of : Endpoints, index : Endpoints \union {Unknown},
                           about : {"lookup", "address", "tasks", "aborted"}]
    /\ answer \in Answers
    /\ measured \subseteq Probes
    /\ failed \subseteq Endpoints \X Addrs

(* The two folds, per endpoint in the order its probes end and over the endpoints in
   the order their tasks end, pick what was measured to be fastest of all addresses
   whose endpoint's task finished; equally fast endpoints rank in discovery order
   (select_best, probe_addrs). *)
FastestSelected ==
    answer.kind = "selected" =>
       /\ answer.best \in measured
       /\ \A m \in measured :
             m.index \in {r.index : r \in results} => NotSlower(answer.best, m)

(* "Every discovered endpoint failed its probe; (endpoint, error) per endpoint": the
   list has one entry for each, and none for an endpoint an address of which
   answered, unless its task was lost afterwards.  The entry of a lost task is found by the
   task ("of"); what the caller reads there is "<probe task>". *)
FailureIsTotal ==
    answer.kind = "AllProbesFailed" =>
       /\ \A i \in Endpoints : \E f \in failures : f.of = i
       /\ \A f, g \in failures : f.of = g.of => f = g
       /\ \A m \in measured, f \in failures : f.of = m.index => f.about = "aborted"

(* "On total failure, returns the first address's error" (probe_addrs), whatever the
   order in which the addresses fail. *)
FirstAddressReported ==
    \A i \in Endpoints :
       [of |-> i, index |-> i, about |-> "address"] \in failures =>
          /\ <<i, first_err[i]>> \in failed
          /\ \A a \in Addrs : <<i, a>> \in failed => first_err[i] <= a
=============================================================================
