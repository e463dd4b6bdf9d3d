--------------------------- MODULE ProbingProofs ---------------------------
(***************************************************************************)
(* What probe_all selects and reports, for any number of endpoints, of     *)
(* addresses and of permits, any latencies, and any order in which probes  *)
(* and tasks end, fail or are lost.                                        *)
(***************************************************************************)
EXTENDS Probing, WellFoundedInduction, TLAPS

USE CountAssumption, MaxAddrsAssumption, PermitsAssumption, LatenciesAssumption
USE DEF Addrs, Probes, NoProbe

(* Probes run for tasks that wait for them, and a task that has not got so far has
   measured nothing. *)
ProbesHaveTasks ==
    /\ \A r \in running : task[r[1]] = "probing"
    /\ \A m \in measured : task[m.index] \in {"probing", "joined"}

(* The fold of probe_addrs over successes. *)
BestIsFastest ==
    /\ \A i \in 1..Count : best[i] # NoProbe => best[i] \in measured /\ best[i].index = i
    /\ \A m \in measured : Reached(m.index) /\ best[m.index].latency <= m.latency

(* The fold of probe_addrs over failures. *)
FirstErrIsFirst ==
    /\ \A i \in 1..Count : first_err[i] # 0 => <<i, first_err[i]>> \in failed
    /\ \A i \in 1..Count, a \in Addrs :
          <<i, a>> \in failed => first_err[i] # 0 /\ first_err[i] <= a

(* A task is joined once, with its best probe or with one failure. *)
JoinedWithOutcome ==
    \A i \in 1..Count :
       task[i] = "joined" => (Reached(i) /\ best[i] \in results) \/ \E f \in failures : f.of = i

OutcomeOfJoined ==
    /\ \A r \in results : task[r.index] = "joined" /\ r = best[r.index]
    /\ \A f \in failures : task[f.of] = "joined"
    /\ \A f, g \in failures : f.of = g.of => f = g

FailuresAreTrue ==
    \A f \in failures :
       /\ f.about # "aborted" => ~ Reached(f.of)
       /\ f.about = "address" => first_err[f.of] # 0

(* probe_all answers when all tasks have been joined. *)
AnswerIsRight ==
    /\ answer # Pending => found # 0 /\ \A i \in Endpoints : task[i] = "joined"
    /\ answer.kind = "AllProbesFailed" => results = {}
    /\ answer.kind = "selected" =>
          answer.best \in results /\ \A q \in results : NotSlower(answer.best, q)

IInv == /\ ProbingTypeOK /\ ProbesHaveTasks /\ BestIsFastest /\ FirstErrIsFirst
        /\ JoinedWithOutcome /\ OutcomeOfJoined /\ FailuresAreTrue /\ AnswerIsRight

-----------------------------------------------------------------------------
(* The choice of select_best *)

LEMMA LeastNatural ==
    ASSUME NEW S \in SUBSET Nat, S # {}
    PROVE  \E x \in S : \A y \in S : x <= y
<1>1. PICK x \in S : \A y \in S : ~ (<<y, x>> \in OpToRel(<, Nat))
  BY NatLessThanWellFounded, WFMin
<1>2. \A y \in S : ~ (y < x)
  BY <1>1 DEF OpToRel
<1> QED
  BY <1>2

LEMMA ProbeTypes == \A p \in Probes : p.latency \in Nat /\ p.index \in Nat
<1> TAKE p \in Probes
<1>1. p.latency \in Latencies /\ p.index \in 1..Count
  OBVIOUS
<1>2. \A l \in Latencies : l \in Nat
  BY ONLY LatenciesAssumption
<1>3. \A i \in 1..Count : i \in Nat
  BY ONLY CountAssumption
<1> QED
  BY ONLY <1>1, <1>2, <1>3

(* Of any results there is one that is fastest and, among the fastest, first in
   discovery order; select_best returns it. *)
LEMMA SelectBest ==
    ASSUME NEW rs \in SUBSET Probes, rs # {}
    PROVE  select_best(rs) \in rs /\ \A q \in rs : NotSlower(select_best(rs), q)
<1>1. PICK l \in {r.latency : r \in rs} : \A k \in {r.latency : r \in rs} : l <= k
  <2>1. {r.latency : r \in rs} \in SUBSET Nat /\ {r.latency : r \in rs} # {}
    OBVIOUS
  <2> QED
    BY <2>1, LeastNatural
<1> DEFINE fastest == {r \in rs : r.latency = l}
<1>2. PICK i \in {r.index : r \in fastest} : \A k \in {r.index : r \in fastest} : i <= k
  <2>1. {r.index : r \in fastest} \in SUBSET Nat /\ {r.index : r \in fastest} # {}
    BY <1>1
  <2> QED
    BY <2>1, LeastNatural
<1>3. PICK r \in fastest : r.index = i
  BY <1>2
<1>4. ASSUME NEW q \in rs PROVE NotSlower(r, q)
  <2>1. l <= q.latency /\ l \in Nat /\ q.latency \in Nat /\ r.latency = l
    BY <1>1, <1>3
  <2>2. q.latency = l => i <= q.index
    BY <1>2
  <2> QED
    BY <1>3, <2>1, <2>2 DEF NotSlower
<1> QED
  BY <1>3, <1>4 DEF select_best

-----------------------------------------------------------------------------
(* The invariant *)

LEMMA TypeInit == Init => ProbingTypeOK
  BY DEF Init, ProbingTypeOK, Answers, Endpoints

LEMMA TypeStep == ProbingTypeOK /\ [Next]_vars => ProbingTypeOK'
<1> SUFFICES ASSUME ProbingTypeOK, [Next]_vars PROVE ProbingTypeOK'
  OBVIOUS
<1> USE DEF ProbingTypeOK, Endpoints
<1>1. ASSUME NEW n \in 1..Count, Start(n) PROVE ProbingTypeOK'
  BY <1>1 DEF Start, Answers
<1>2. ASSUME NEW i \in Endpoints, Acquire(i) PROVE ProbingTypeOK'
  BY <1>2 DEF Acquire
<1>3. ASSUME NEW i \in Endpoints, LookupEnds(i) PROVE ProbingTypeOK'
  <2>1. CASE LookupFails(i)
    BY <2>1 DEF LookupFails, JoinFailure
  <2>2. ASSUME NEW n \in Addrs, Resolve(i, n) PROVE ProbingTypeOK'
    BY <2>2 DEF Resolve
  <2> QED
    BY <1>3, <2>1, <2>2 DEF LookupEnds
<1>4. ASSUME NEW i \in Endpoints, EndpointEnds(i) PROVE ProbingTypeOK'
  <2>1. CASE EndpointSucceeds(i)
    BY <2>1 DEF EndpointSucceeds, Reached
  <2>2. CASE EndpointFails(i) \/ EndpointAborted(i)
    BY <2>2 DEF EndpointFails, EndpointAborted, JoinFailure
  <2> QED
    BY <1>4, <2>1, <2>2 DEF EndpointEnds
<1>5. ASSUME NEW i \in Endpoints, TaskAborts(i) PROVE ProbingTypeOK'
  BY <1>5 DEF TaskAborts, JoinFailure
<1>6. ASSUME NEW i \in Endpoints, NEW a \in Addrs, ProbeEnds(i, a) PROVE ProbingTypeOK'
  <2>1. ASSUME NEW l \in Latencies, ProbeSucceeds(i, a, l) PROVE ProbingTypeOK'
    BY <2>1 DEF ProbeSucceeds
  <2>2. CASE ProbeFails(i, a)
    BY <2>2 DEF ProbeFails
  <2>3. CASE ProbeAborts(i, a)
    BY <2>3 DEF ProbeAborts
  <2> QED
    BY <1>6, <2>1, <2>2, <2>3 DEF ProbeEnds
<1>7. CASE ProbeAll
  <2>1. results # {} => select_best(results) \in Probes
    BY SelectBest
  <2> QED
    BY <1>7, <2>1 DEF ProbeAll, Answers
<1>8. CASE UNCHANGED vars
  BY <1>8 DEF vars, probingVars
<1> QED
  BY <1>1, <1>2, <1>3, <1>4, <1>5, <1>6, <1>7, <1>8 DEF Next, Probe, Answered

LEMMA InvInit == Init => IInv
  BY TypeInit DEF Init, IInv, Pending, ProbesHaveTasks, BestIsFastest, FirstErrIsFirst,
     JoinedWithOutcome, OutcomeOfJoined, FailuresAreTrue, AnswerIsRight

(* probe_all waits for every task. *)
LEMMA Waits ==
    ASSUME IInv, NEW i \in Endpoints, task[i] # "joined"
    PROVE  answer = Pending /\ i \in 1..Count
  BY DEF IInv, AnswerIsRight, ProbingTypeOK, Endpoints

(* Nothing has been answered, joined or measured before the first task. *)
LEMMA InvStart ==
    ASSUME IInv, NEW n \in 1..Count, Start(n), ProbingTypeOK'
    PROVE  IInv'
<1> USE DEF IInv, Start
<1>1. AnswerIsRight'
  BY DEF AnswerIsRight, Pending
<1>2. UNCHANGED <<task, running, best, first_err, results, failures, measured, failed>>
  OBVIOUS
<1> QED
  BY <1>1, <1>2 DEF ProbesHaveTasks, BestIsFastest, FirstErrIsFirst, JoinedWithOutcome,
     OutcomeOfJoined, FailuresAreTrue, Reached

(* A task gets its permit, or the addresses to probe. *)
LEMMA InvProceed ==
    ASSUME IInv, NEW i \in Endpoints, ProbingTypeOK',
           Acquire(i) \/ \E n \in Addrs : Resolve(i, n)
    PROVE  IInv'
<1> USE DEF IInv, ProbingTypeOK
<1>1. answer = Pending /\ i \in 1..Count
  BY Waits DEF Acquire, Resolve
<1>2. PICK l \in {"lookup", "probing"} :
         /\ task' = [task EXCEPT ![i] = l] /\ task[i] \in {"queued", "lookup"}
         /\ \A r \in running' : r \in running \/ (r[1] = i /\ l = "probing")
         /\ UNCHANGED <<found, best, first_err, results, failures, answer, measured, failed>>
  BY DEF Acquire, Resolve
<1>3. ProbesHaveTasks'
  BY <1>1, <1>2 DEF ProbesHaveTasks, Endpoints
<1>4. BestIsFastest' /\ FirstErrIsFirst' /\ FailuresAreTrue'
  BY <1>2 DEF BestIsFastest, FirstErrIsFirst, FailuresAreTrue, Reached
<1>5. JoinedWithOutcome' /\ OutcomeOfJoined'
  BY <1>1, <1>2 DEF JoinedWithOutcome, OutcomeOfJoined, Reached
<1>6. AnswerIsRight'
  BY <1>1, <1>2 DEF AnswerIsRight, Pending
<1> QED
  BY <1>3, <1>4, <1>5, <1>6

(* A probe ends: it enters one of the folds, or neither. *)
LEMMA InvProbe ==
    ASSUME IInv, NEW i \in Endpoints, NEW a \in Addrs, ProbeEnds(i, a), ProbingTypeOK'
    PROVE  IInv'
<1> USE DEF IInv, ProbingTypeOK
<1>1. <<i, a>> \in running /\ task[i] = "probing"
  BY DEF ProbeEnds, ProbeSucceeds, ProbeFails, ProbeAborts, ProbesHaveTasks
<1>2. answer = Pending /\ i \in 1..Count
  BY <1>1, Waits
<1>3. /\ UNCHANGED <<found, task, results, failures, answer>>
      /\ running' \subseteq running
  BY DEF ProbeEnds, ProbeSucceeds, ProbeFails, ProbeAborts
<1>4. AnswerIsRight'
  BY <1>2, <1>3 DEF AnswerIsRight, Pending
<1>5. ASSUME NEW l \in Latencies, ProbeSucceeds(i, a, l) PROVE IInv'
  <2> USE <1>5 DEF ProbeSucceeds
  <2> DEFINE ok == [index |-> i, addr |-> a, latency |-> l]
  <2>1. /\ ok \in Probes /\ ok # NoProbe /\ ok.index = i /\ ok.latency = l /\ l \in Nat
        /\ measured' = measured \union {ok}
    BY <1>2
  <2>2. ProbesHaveTasks'
    BY <1>1, <1>3, <2>1 DEF ProbesHaveTasks
  <2>3. \A j \in 1..Count : j # i => best'[j] = best[j]
    BY <1>2
  <2>4. /\ best'[i] \in {best[i], ok} /\ Reached(i)' /\ best'[i].latency <= l
        /\ Reached(i) => best'[i].latency <= best[i].latency
    <3>1. best[i] = NoProbe \/ (best[i] \in Probes /\ best[i].latency \in Nat)
      BY <1>2
    <3>2. CASE Improves(i, l)
      BY <1>2, <2>1, <3>1, <3>2 DEF Reached, Improves
    <3>3. CASE ~ Improves(i, l)
      BY <1>2, <2>1, <3>1, <3>3 DEF Reached, Improves
    <3> QED
      BY <3>2, <3>3
  <2>5. ASSUME NEW j \in 1..Count, best'[j] # NoProbe
        PROVE  best'[j] \in measured' /\ best'[j].index = j
    BY <1>2, <2>1, <2>3, <2>4, <2>5 DEF BestIsFastest
  <2>6. ASSUME NEW m \in measured'
        PROVE  best'[m.index] # NoProbe /\ best'[m.index].latency <= m.latency
    <3>1. CASE m = ok
      BY <2>1, <2>4, <3>1 DEF Reached
    <3>2. CASE m \in measured /\ m.index # i
      BY <2>3, <3>2 DEF BestIsFastest, Reached
    <3>3. CASE m \in measured /\ m.index = i
      <4>1. Reached(i) /\ best[i].latency <= m.latency
        BY <3>3 DEF BestIsFastest
      <4>2. best[i].latency \in Nat /\ m.latency \in Nat /\ best'[i].latency \in Nat
        BY <1>2, <2>1, <2>4, <3>3, <4>1 DEF Reached
      <4> QED
        BY <2>4, <3>3, <4>1, <4>2 DEF Reached
    <3> QED
      BY <2>1, <3>1, <3>2, <3>3
  <2>7. BestIsFastest'
    BY <2>5, <2>6 DEF BestIsFastest, Reached
  <2>8. FirstErrIsFirst'
    BY DEF FirstErrIsFirst
  <2>9. JoinedWithOutcome' /\ OutcomeOfJoined' /\ FailuresAreTrue'
    BY <1>1, <1>2, <1>3, <2>3 DEF JoinedWithOutcome, OutcomeOfJoined, FailuresAreTrue, Reached
  <2> QED
    BY <1>4, <2>2, <2>7, <2>8, <2>9
<1>6. CASE ProbeFails(i, a)
  <2> USE <1>6 DEF ProbeFails
  <2>1. ProbesHaveTasks' /\ BestIsFastest'
    BY <1>3 DEF ProbesHaveTasks, BestIsFastest, Reached
  <2>2. /\ \A j \in 1..Count : j # i => first_err'[j] = first_err[j]
        /\ first_err'[i] \in {first_err[i], a} /\ first_err'[i] # 0 /\ first_err'[i] <= a
        /\ first_err[i] # 0 => first_err'[i] <= first_err[i]
    BY <1>2 DEF EarlierError
  <2>3. ASSUME NEW j \in 1..Count, first_err'[j] # 0
        PROVE  <<j, first_err'[j]>> \in failed'
    BY <2>2, <2>3 DEF FirstErrIsFirst
  <2>4. ASSUME NEW j \in 1..Count, NEW b \in Addrs, <<j, b>> \in failed'
        PROVE  first_err'[j] # 0 /\ first_err'[j] <= b
    <3>1. CASE <<j, b>> = <<i, a>>
      BY <2>2, <3>1
    <3>2. CASE <<j, b>> \in failed
      <4>1. first_err[j] # 0 /\ first_err[j] <= b
        BY <3>2 DEF FirstErrIsFirst
      <4> QED
        BY <2>2, <4>1
    <3> QED
      BY <2>4, <3>1, <3>2
  <2>5. FirstErrIsFirst'
    BY <2>3, <2>4 DEF FirstErrIsFirst
  <2>6. JoinedWithOutcome' /\ OutcomeOfJoined' /\ FailuresAreTrue'
    BY <1>1, <1>2, <1>3, <2>2 DEF JoinedWithOutcome, OutcomeOfJoined, FailuresAreTrue, Reached
  <2> QED
    BY <1>4, <2>1, <2>5, <2>6
<1>7. CASE ProbeAborts(i, a)
  BY <1>3, <1>4, <1>7 DEF ProbeAborts, ProbesHaveTasks, BestIsFastest, FirstErrIsFirst,
     JoinedWithOutcome, OutcomeOfJoined, FailuresAreTrue, Reached
<1> QED
  BY <1>5, <1>6, <1>7 DEF ProbeEnds

(* A task ends without a probe that answered, or is lost. *)
LEMMA InvJoinFailure ==
    ASSUME IInv, NEW i \in Endpoints, task[i] # "joined", NEW index, NEW about,
           JoinFailure(i, index, about), ProbingTypeOK',
           running' = {r \in running : r[1] # i},
           about # "aborted" => ~ Reached(i), about = "address" => first_err[i] # 0
    PROVE  IInv'
<1> USE DEF IInv, ProbingTypeOK, JoinFailure
<1>1. answer = Pending /\ i \in 1..Count
  BY Waits
<1> DEFINE new == [of |-> i, index |-> index, about |-> about]
<1>2. failures' = failures \union {new} /\ new.of = i /\ new.about = about
  OBVIOUS
<1>3. task'[i] = "joined" /\ \A j \in 1..Count : j # i => task'[j] = task[j]
  BY <1>1
<1>4. \A f \in failures : f.of # i /\ f.of \in 1..Count
  BY DEF OutcomeOfJoined, Endpoints
<1> HIDE DEF new
<1>5. ProbesHaveTasks'
  BY <1>3 DEF ProbesHaveTasks, Endpoints
<1>6. BestIsFastest' /\ FirstErrIsFirst'
  BY DEF BestIsFastest, FirstErrIsFirst, Reached
<1>7. JoinedWithOutcome'
  BY <1>2, <1>3 DEF JoinedWithOutcome, Reached
<1>8. OutcomeOfJoined'
  BY <1>2, <1>3, <1>4 DEF OutcomeOfJoined
<1>9. FailuresAreTrue'
  BY <1>2 DEF FailuresAreTrue, Reached
<1>10. AnswerIsRight'
  BY <1>1 DEF AnswerIsRight, Pending
<1> QED
  BY <1>5, <1>6, <1>7, <1>8, <1>9, <1>10

LEMMA InvSucceeds ==
    ASSUME IInv, NEW i \in Endpoints, EndpointSucceeds(i), ProbingTypeOK'
    PROVE  IInv'
<1> USE DEF IInv, ProbingTypeOK, EndpointSucceeds, AllJoined
<1>1. answer = Pending /\ i \in 1..Count
  BY Waits
<1>2. task'[i] = "joined" /\ \A j \in 1..Count : j # i => task'[j] = task[j]
  BY <1>1
<1>3. best[i].index = i
  BY <1>1 DEF BestIsFastest, Reached
<1>4. \A r \in running : r[1] # i
  OBVIOUS
<1>5. ProbesHaveTasks'
  BY <1>2, <1>4 DEF ProbesHaveTasks, Endpoints
<1>6. BestIsFastest' /\ FirstErrIsFirst' /\ FailuresAreTrue'
  BY DEF BestIsFastest, FirstErrIsFirst, FailuresAreTrue, Reached
<1>7. JoinedWithOutcome'
  BY <1>2 DEF JoinedWithOutcome, Reached
<1>8. OutcomeOfJoined'
  BY <1>1, <1>2, <1>3 DEF OutcomeOfJoined, Endpoints
<1>9. AnswerIsRight'
  BY <1>1 DEF AnswerIsRight, Pending
<1> QED
  BY <1>5, <1>6, <1>7, <1>8, <1>9

LEMMA InvProbeAll == ASSUME IInv, ProbeAll, ProbingTypeOK' PROVE IInv'
<1> USE DEF IInv, ProbeAll
<1>1. AnswerIsRight'
  BY SelectBest DEF ProbingTypeOK, AnswerIsRight, Endpoints
<1> QED
  BY <1>1 DEF ProbesHaveTasks, BestIsFastest, FirstErrIsFirst, JoinedWithOutcome,
     OutcomeOfJoined, FailuresAreTrue, Reached

LEMMA InvStep == IInv /\ [Next]_vars => IInv'
<1> SUFFICES ASSUME IInv, [Next]_vars PROVE IInv'
  OBVIOUS
<1>1. ProbingTypeOK'
  BY TypeStep DEF IInv
<1>2. ASSUME NEW i \in Endpoints, LookupFails(i) PROVE IInv'
  <2>1. i \in 1..Count /\ task[i] = "lookup"
    BY <1>2 DEF LookupFails, IInv, ProbingTypeOK, Endpoints
  <2>2. \A m \in measured : m.index # i
    BY <2>1 DEF IInv, ProbesHaveTasks
  <2>3. ~ Reached(i)
    BY <2>1, <2>2 DEF IInv, BestIsFastest, Reached
  <2>4. running = {r \in running : r[1] # i}
    BY <2>1 DEF IInv, ProbesHaveTasks
  <2> QED
    BY <1>1, <1>2, <2>1, <2>3, <2>4, InvJoinFailure DEF LookupFails
<1>3. ASSUME NEW i \in Endpoints, EndpointFails(i) \/ EndpointAborted(i) PROVE IInv'
  <2>1. task[i] = "probing" /\ ~ Reached(i) /\ running = {r \in running : r[1] # i}
    BY <1>3 DEF EndpointFails, EndpointAborted, AllJoined, IInv, ProbingTypeOK
  <2> QED
    BY <1>1, <1>3, <2>1, InvJoinFailure DEF EndpointFails, EndpointAborted
<1>4. ASSUME NEW i \in Endpoints, TaskAborts(i) PROVE IInv'
  BY <1>1, <1>4, InvJoinFailure DEF TaskAborts, Holders
<1>5. CASE UNCHANGED vars
  BY <1>5 DEF vars, probingVars, IInv, ProbingTypeOK, ProbesHaveTasks, BestIsFastest,
     FirstErrIsFirst, JoinedWithOutcome, OutcomeOfJoined, FailuresAreTrue, AnswerIsRight,
     Reached, Endpoints
<1> QED
  BY <1>1, <1>2, <1>3, <1>4, <1>5, InvStart, InvProceed, InvProbe, InvSucceeds, InvProbeAll
  DEF Next, Probe, LookupEnds, EndpointEnds, Answered

(* The folds hold what was measured of every task that ended, in every reachable state. *)
THEOREM Invariance == Spec => []IInv
  BY InvInit, InvStep, PTL DEF Spec

(* Every variable keeps its type: Spec => []ProbingTypeOK. *)
THEOREM ProbingTyping == Spec => []ProbingTypeOK
<1>1. IInv => ProbingTypeOK
  BY DEF IInv
<1> QED
  BY <1>1, Invariance, PTL

-----------------------------------------------------------------------------
(* What probe_all returns *)

LEMMA InvFastest == IInv => FastestSelected
<1> SUFFICES ASSUME IInv, answer.kind = "selected" PROVE
       /\ answer.best \in measured
       /\ \A m \in measured :
             m.index \in {r.index : r \in results} => NotSlower(answer.best, m)
  BY DEF FastestSelected
<1> USE DEF IInv, ProbingTypeOK
<1>1. answer.best \in results /\ \A q \in results : NotSlower(answer.best, q)
  BY DEF AnswerIsRight
<1>2. \A r \in results : r.index \in 1..Count /\ r = best[r.index] /\ r # NoProbe
  BY DEF OutcomeOfJoined
<1>3. answer.best \in measured
  BY <1>1, <1>2 DEF BestIsFastest
<1>4. ASSUME NEW m \in measured, NEW r \in results, r.index = m.index
      PROVE  NotSlower(answer.best, m)
  <2>1. r.latency <= m.latency
    BY <1>2, <1>4 DEF BestIsFastest
  <2>2. NotSlower(answer.best, r)
    BY <1>1
  <2>3. /\ answer.best.latency \in Nat /\ r.latency \in Nat /\ m.latency \in Nat
        /\ answer.best.index \in Nat /\ r.index \in Nat
    BY <1>1, ProbeTypes
  <2> QED
    BY <1>4, <2>1, <2>2, <2>3 DEF NotSlower
<1> QED
  BY <1>3, <1>4

(* probe_all selects what was measured to be fastest: Spec => []FastestSelected. *)
THEOREM SelectsFastest == Spec => []FastestSelected
  BY Invariance, InvFastest, PTL

LEMMA InvTotal == IInv => FailureIsTotal
<1> SUFFICES ASSUME IInv, answer.kind = "AllProbesFailed" PROVE
       /\ \A i \in Endpoints : \E f \in failures : f.of = i
       /\ \A f, g \in failures : f.of = g.of => f = g
       /\ \A m \in measured, f \in failures : f.of = m.index => f.about = "aborted"
  BY DEF FailureIsTotal
<1> USE DEF IInv, ProbingTypeOK, Endpoints
<1>1. results = {} /\ \A i \in Endpoints : task[i] = "joined"
  BY DEF AnswerIsRight, Pending
<1>2. \A i \in Endpoints : \E f \in failures : f.of = i
  BY <1>1 DEF JoinedWithOutcome
<1>3. \A m \in measured, f \in failures : f.of = m.index => f.about = "aborted"
  BY DEF FailuresAreTrue, BestIsFastest
<1> QED
  BY <1>2, <1>3 DEF OutcomeOfJoined

(* A total failure reports every endpoint once, and truly: Spec => []FailureIsTotal. *)
THEOREM ReportsEveryFailure == Spec => []FailureIsTotal
  BY Invariance, InvTotal, PTL

LEMMA InvFirstAddress == IInv => FirstAddressReported
<1> SUFFICES ASSUME IInv, NEW i \in Endpoints,
                    [of |-> i, index |-> i, about |-> "address"] \in failures
             PROVE  /\ <<i, first_err[i]>> \in failed
                    /\ \A a \in Addrs : <<i, a>> \in failed => first_err[i] <= a
  BY DEF FirstAddressReported
<1>1. i \in 1..Count /\ first_err[i] # 0
  BY DEF IInv, ProbingTypeOK, Endpoints, FailuresAreTrue
<1> QED
  BY <1>1 DEF IInv, FirstErrIsFirst

(* The error reported for an endpoint is that of its first address that failed, in
   whatever order they did: Spec => []FirstAddressReported. *)
THEOREM ReportsFirstAddress == Spec => []FirstAddressReported
  BY Invariance, InvFirstAddress, PTL
=============================================================================
