------------------------- MODULE AutoConnectProofs -------------------------
(***************************************************************************)
(* What parse_endpoints makes of any response, and which address may see   *)
(* the token, and why, whatever fails: on the invariant of the probes      *)
(* (ProbingProofs) and a stage-by-stage account of connect_auto.           *)
(***************************************************************************)
EXTENDS AutoConnect, TLAPS

PP == INSTANCE ProbingProofs

-----------------------------------------------------------------------------
(* parse_endpoints *)

Usable(raw) == {i \in DOMAIN raw : split_host_port(Trim(raw[i])).ok}
At(raw, entry) == {i \in Usable(raw) : Trim(raw[i]) = entry}
Earliest(S) == CHOOSE i \in S : \A j \in S : i <= j

(* What the fold makes of the entries in a set of places, the last of them last. *)
FoldOn(raw, g, s) == IF s = {} THEN <<>> ELSE Collect(g[s \ {Max(s)}], raw[Max(s)])
Folded(raw) == CHOOSE g : g = [s \in SUBSET DOMAIN raw |-> FoldOn(raw, g, s)]

IsFold(raw, n, g) == g = [s \in SUBSET (1..n) |-> FoldOn(raw, g, s)]

LEMMA ParseIsFold ==
    ASSUME NEW b PROVE parse_endpoints(b) = Folded(Entries(b))[DOMAIN Entries(b)]
BY DEF parse_endpoints, FoldLeft, MapThenFoldSet, Folded, FoldOn

LEMMA MaxIs ==
    ASSUME NEW s, NEW m \in s, s \subseteq Int, \A i \in s : i <= m PROVE Max(s) = m
<1>1. \A x \in s : (\A i \in s : x >= i) => x = m
  OBVIOUS
<1> QED
  BY <1>1 DEF Max

(* There is such a function: of the places below n + 1 it is made from that of those
   below n. *)
LEMMA FoldExtends ==
    ASSUME NEW raw, NEW n \in Nat \ {0}, NEW g, IsFold(raw, n - 1, g)
    PROVE  \E h : IsFold(raw, n, h)
<1> DEFINE h == [s \in SUBSET (1..n) |-> IF n \in s THEN Collect(g[s \ {n}], raw[n])
                                                    ELSE g[s]]
<1>1. ASSUME NEW s \in SUBSET (1..n) PROVE h[s] = FoldOn(raw, h, s)
  <2>1. CASE n \in s
    <3>1. Max(s) = n
      <4>1. n \in s /\ s \subseteq Int /\ \A i \in s : i <= n
        BY <2>1
      <4> QED
        BY <4>1, MaxIs
    <3>2. s \ {n} \in SUBSET (1..n) /\ n \notin s \ {n}
      OBVIOUS
    <3>3. h[s \ {n}] = g[s \ {n}]
      BY <3>2
    <3> QED
      BY <2>1, <3>1, <3>3 DEF FoldOn
  <2>2. CASE n \notin s
    <3>1. s \in SUBSET (1..(n - 1))
      BY <2>2
    <3>2. h[s] = FoldOn(raw, g, s)
      BY <2>2, <3>1 DEF IsFold
    <3>3. h[s \ {Max(s)}] = g[s \ {Max(s)}]
      <4>1. s \ {Max(s)} \in SUBSET (1..n) /\ n \notin s \ {Max(s)}
        BY <2>2
      <4> QED
        BY <4>1
    <3> QED
      BY <3>2, <3>3 DEF FoldOn
  <2> QED
    BY <2>1, <2>2
<1>2. h = [s \in SUBSET (1..n) |-> FoldOn(raw, h, s)]
  <2> DEFINE k == [s \in SUBSET (1..n) |-> FoldOn(raw, h, s)]
  <2>1. \A s \in SUBSET (1..n) : h[s] = k[s]
    BY <1>1
  <2> QED
    BY <2>1, ZenonT(30)
<1> HIDE DEF h
<1> QED
  BY <1>2 DEF IsFold

LEMMA FoldExists ==
    ASSUME NEW raw PROVE \A n \in Nat : \E g : IsFold(raw, n, g)
<1> DEFINE Missing == {n \in Nat : ~ \E g : IsFold(raw, n, g)}
<1> SUFFICES ASSUME Missing # {} PROVE FALSE
  OBVIOUS
<1>1. PICK n \in Missing : \A m \in Missing : n <= m
  <2>1. Missing \in SUBSET Nat
    OBVIOUS
  <2> HIDE DEF Missing
  <2> QED
    BY <2>1, PP!LeastNatural, PP!CountAssumption, PP!MaxAddrsAssumption,
       PP!PermitsAssumption, PP!LatenciesAssumption
<1>2. n # 0
  <2> DEFINE g == [s \in SUBSET (1..0) |-> <<>>]
  <2>1. \A s \in SUBSET (1..0) : s = {} /\ FoldOn(raw, g, s) = <<>>
    BY DEF FoldOn
  <2>2. g = [s \in SUBSET (1..0) |-> FoldOn(raw, g, s)]
    BY <2>1
  <2> HIDE DEF g
  <2>3. IsFold(raw, 0, g)
    BY <2>2 DEF IsFold
  <2> QED
    BY <2>3, <1>1
<1>3. n \in Nat \ {0} /\ n - 1 \in Nat /\ n - 1 \notin Missing
  BY <1>1, <1>2
<1>4. PICK g : IsFold(raw, n - 1, g)
  BY <1>3
<1> QED
  BY <1>1, <1>3, <1>4, FoldExtends

(* One more entry in front of which all others are done. *)
LEMMA FoldStep ==
    ASSUME NEW raw, NEW n \in Nat, DOMAIN raw = 1..n
    PROVE  /\ Folded(raw)[{}] = <<>>
           /\ \A k \in 1..n : Folded(raw)[1..k] = Collect(Folded(raw)[1..(k - 1)], raw[k])
<1>1. Folded(raw) = [s \in SUBSET (1..n) |-> FoldOn(raw, Folded(raw), s)]
  <2>1. \E g : g = [s \in SUBSET (1..n) |-> FoldOn(raw, g, s)]
    BY FoldExists DEF IsFold
  <2> QED
    BY <2>1 DEF Folded
<1>2. Folded(raw)[{}] = <<>>
  BY <1>1 DEF FoldOn
<1>3. ASSUME NEW k \in 1..n PROVE Folded(raw)[1..k] = Collect(Folded(raw)[1..(k - 1)], raw[k])
  <2>1. 1..k \in SUBSET (1..n) /\ k \in 1..k
    <3>1. k \in Nat /\ 1 <= k /\ k <= n
      OBVIOUS
    <3>2. k \in 1..k
      BY <3>1
    <3>3. \A i \in 1..k : i \in 1..n
      BY <3>1
    <3> QED
      BY <3>2, <3>3
  <2>2. Max(1..k) = k
    <3>1. 1..k \subseteq Int /\ \A i \in 1..k : i <= k
      OBVIOUS
    <3> QED
      BY <2>1, <3>1, MaxIs
  <2>3. (1..k) \ {k} = 1..(k - 1)
    OBVIOUS
  <2> QED
    BY <1>1, <2>1, <2>2, <2>3 DEF FoldOn
<1> QED
  BY <1>2, <1>3

(* What has been listed of the first k entries. *)
Lists(raw, list, k) ==
    /\ list \in Seq({Trim(raw[i]) : i \in Usable(raw)})
    /\ ToSet(list) = {Trim(raw[i]) : i \in {j \in Usable(raw) : j <= k}}
    /\ \A i, j \in DOMAIN list :
          i < j => /\ list[i] # list[j]
                   /\ Earliest(At(raw, list[i])) < Earliest(At(raw, list[j]))

LEMMA EarliestIs ==
    ASSUME NEW S \in SUBSET Nat, S # {}
    PROVE  Earliest(S) \in S /\ \A j \in S : Earliest(S) <= j
<1>1. \E x \in S : \A y \in S : x <= y
  BY PP!LeastNatural, PP!CountAssumption, PP!MaxAddrsAssumption, PP!PermitsAssumption,
     PP!LatenciesAssumption
<1> QED
  BY <1>1 DEF Earliest

LEMMA ListStep ==
    ASSUME NEW raw, NEW n \in Nat, DOMAIN raw = 1..n, NEW k \in 1..n, NEW list,
           Lists(raw, list, k - 1)
    PROVE  Lists(raw, Collect(list, raw[k]), k)
<1> DEFINE entry == Trim(raw[k])
           texts == {Trim(raw[i]) : i \in Usable(raw)}
<1>1. k \in Nat /\ \A i \in 1..n : i <= k <=> i <= k - 1 \/ i = k
  OBVIOUS
<1>2. Usable(raw) \subseteq 1..n /\ (k \in Usable(raw) <=> split_host_port(entry).ok)
  BY DEF Usable
<1>3. list \in Seq(texts)
  BY DEF Lists
<1>4. CASE k \notin Usable(raw)
  <2>1. {j \in Usable(raw) : j <= k} = {j \in Usable(raw) : j <= k - 1}
    BY <1>1, <1>2, <1>4
  <2>2. Collect(list, raw[k]) = list
    BY <1>2, <1>4 DEF Collect
  <2> QED
    BY <2>1, <2>2 DEF Lists
<1>5. CASE k \in Usable(raw)
  <2>1. {Trim(raw[i]) : i \in {j \in Usable(raw) : j <= k}} = ToSet(list) \union {entry}
    BY <1>1, <1>2, <1>5 DEF Lists
  <2>2. CASE entry \in ToSet(list)
    <3>1. Collect(list, raw[k]) = list
      BY <2>2 DEF Collect
    <3>2. {Trim(raw[i]) : i \in {j \in Usable(raw) : j <= k}} = ToSet(list)
      BY <2>1, <2>2
    <3> HIDE DEF entry
    <3> QED
      BY <3>1, <3>2 DEF Lists
  <2>3. CASE entry \notin ToSet(list)
    <3> DEFINE longer == Append(list, entry)
    <3>1. Collect(list, raw[k]) = longer
      BY <1>2, <1>5, <2>3 DEF Collect
    <3>2. entry \in texts
      BY <1>5
    <3>3. /\ longer \in Seq(texts) /\ Len(list) \in Nat /\ DOMAIN list = 1..Len(list)
          /\ DOMAIN longer = 1..(Len(list) + 1) /\ longer[Len(list) + 1] = entry
          /\ \A i \in 1..Len(list) : longer[i] = list[i]
      <4> HIDE DEF entry, texts
      <4> QED
        BY <1>3, <3>2
    <3>4. ToSet(longer) = ToSet(list) \union {entry}
      BY <3>3 DEF ToSet
    <3>5. ASSUME NEW i \in 1..Len(list)
          PROVE  list[i] # entry /\ Earliest(At(raw, list[i])) < Earliest(At(raw, entry))
      <4>1. list[i] \in ToSet(list)
        BY <3>3 DEF ToSet
      <4>2. PICK j \in Usable(raw) : j <= k - 1 /\ Trim(raw[j]) = list[i]
        BY <4>1 DEF Lists
      <4>3. /\ At(raw, list[i]) \in SUBSET Nat /\ At(raw, entry) \in SUBSET Nat
            /\ j \in At(raw, list[i]) /\ k \in At(raw, entry)
        BY <1>2, <1>5, <4>2 DEF At
      <4>4. ASSUME NEW m \in At(raw, entry) PROVE m >= k
        <5>1. m \in Usable(raw) /\ m \in 1..n /\ Trim(raw[m]) = entry
          BY <1>2 DEF At
        <5>2. ~ m <= k - 1
          BY <2>3, <5>1 DEF Lists
        <5> QED
          BY <1>1, <5>1, <5>2
      <4>5. /\ Earliest(At(raw, list[i])) \in Nat /\ Earliest(At(raw, list[i])) <= j
            /\ Earliest(At(raw, entry)) \in Nat /\ Earliest(At(raw, entry)) >= k
        BY <4>3, <4>4, EarliestIs
      <4>6. j <= k - 1 /\ j \in Nat
        BY <1>2, <4>2
      <4> HIDE DEF entry
      <4> QED
        BY <1>1, <2>3, <4>1, <4>5, <4>6
    <3>6. ASSUME NEW i \in DOMAIN longer, NEW j \in DOMAIN longer, i < j
          PROVE  /\ longer[i] # longer[j]
                 /\ Earliest(At(raw, longer[i])) < Earliest(At(raw, longer[j]))
      <4>1. i \in 1..Len(list) /\ (j \in 1..Len(list) \/ j = Len(list) + 1)
        BY <3>3, <3>6
      <4>2. CASE j = Len(list) + 1
        BY <3>3, <3>5, <4>1, <4>2
      <4>3. CASE j \in 1..Len(list)
        BY <3>3, <3>6, <4>1, <4>3 DEF Lists
      <4> QED
        BY <4>1, <4>2, <4>3
    <3> QED
      BY <2>1, <3>1, <3>3, <3>4, <3>6 DEF Lists
  <2> QED
    BY <2>2, <2>3
<1> QED
  BY <1>4, <1>5

LEMMA ListsAll ==
    ASSUME NEW raw, NEW n \in Nat, DOMAIN raw = 1..n
    PROVE  \A k \in 0..n : Lists(raw, Folded(raw)[1..k], k)
<1> DEFINE Wrong == {k \in 0..n : ~ Lists(raw, Folded(raw)[1..k], k)}
<1> SUFFICES ASSUME Wrong # {} PROVE FALSE
  OBVIOUS
<1>1. PICK k \in Wrong : \A m \in Wrong : k <= m
  <2>1. Wrong \in SUBSET Nat
    OBVIOUS
  <2> HIDE DEF Wrong
  <2> QED
    BY <2>1, PP!LeastNatural, PP!CountAssumption, PP!MaxAddrsAssumption,
       PP!PermitsAssumption, PP!LatenciesAssumption
<1>2. k # 0
  <2>1. 1..0 = {} /\ Folded(raw)[{}] = <<>>
    BY FoldStep
  <2>2. {j \in Usable(raw) : j <= 0} = {}
    BY DEF Usable
  <2>3. Lists(raw, <<>>, 0)
    BY <2>2 DEF Lists, ToSet
  <2> QED
    BY <2>1, <2>3, <1>1
<1>3. k \in 1..n /\ k - 1 \in 0..n /\ k - 1 \notin Wrong
  BY <1>1, <1>2
<1>4. Lists(raw, Collect(Folded(raw)[1..(k - 1)], raw[k]), k)
  BY <1>3, ListStep
<1> QED
  BY <1>1, <1>3, <1>4, FoldStep

(* parse_endpoints lists what is usable of any response. *)
LEMMA ParsesWell ==
    ASSUME NEW b \in Bodies \union {NotJson}
    PROVE  /\ ListsUsable(parse_endpoints(b), b)
           /\ \A i \in DOMAIN parse_endpoints(b) : split_host_port(parse_endpoints(b)[i]).ok
           /\ Len(parse_endpoints(b)) \in 0..Count
           /\ Len(parse_endpoints(b)) = 0 => parse_endpoints(b) = <<>>
<1> DEFINE raw == Entries(b)
           n == Len(raw)
           list == parse_endpoints(b)
<1>1. n \in Nat /\ DOMAIN raw = 1..n
  BY BodiesAssumption DEF Entries
<1>2. list = Folded(raw)[1..n]
  BY <1>1, ParseIsFold
<1>3. Lists(raw, list, n)
  <2> HIDE DEF raw, n, list
  <2> QED
    BY <1>1, <1>2, ListsAll
<1>4. {j \in Usable(raw) : j <= n} = Usable(raw)
  BY <1>1 DEF Usable
<1>5. \A i \in DOMAIN list : split_host_port(list[i]).ok
  <2>1. \A text \in {Trim(raw[i]) : i \in Usable(raw)} : split_host_port(text).ok
    BY DEF Usable
  <2>2. \A i \in DOMAIN list : list[i] \in {Trim(raw[j]) : j \in Usable(raw)}
    BY <1>3 DEF Lists
  <2> QED
    BY <2>1, <2>2
<1>6. ListsUsable(list, b)
  BY <1>3, <1>4 DEF Lists, ListsUsable, Usable, At, Earliest
<1>7. Len(list) \in 0..Count /\ (Len(list) = 0 => list = <<>>)
  <2>1. Len(list) \in Nat /\ (Len(list) = 0 => list = <<>>)
    BY <1>3 DEF Lists
  <2>2. Len(list) <= Count
    <3>1. CASE b = NotJson
      <4>1. n = 0 /\ 1..n = {}
        BY <3>1 DEF Entries
      <4>2. list = <<>>
        BY <1>1, <1>2, <4>1, FoldStep
      <4> QED
        BY <4>2, CountAssumption
    <3> QED
      BY <3>1, BodiesAssumption
  <2> QED
    BY <2>1, <2>2, CountAssumption
<1> QED
  BY <1>5, <1>6, <1>7

-----------------------------------------------------------------------------
(* The invariant *)

Early == {"validate", "roots", "discover", "parsed"}
Discovering == Early \union {"probe", "dial"}

(* Probing starts when the list is known, connect when the discovered endpoints are
   given up, and nothing is returned before. *)
StageOrder ==
    /\ stage \in Early => found = 0
    /\ stage \in Discovering => reason = "none" /\ entrusted = {}
    /\ stage = "dial" => Selected
    /\ stage = "fallback" => reason # "none" /\ fallback
    /\ stage # "done" => outcome = "pending" /\ source = NoSource
    /\ stage \notin {"validate", "done"} => settings /\ ValidFallback

ListIsParsed ==
    /\ stage = "parsed" => endpoints = parse_endpoints(body)
    /\ stage \in {"parsed", "probe"} =>
          \A i \in DOMAIN endpoints : split_host_port(endpoints[i]).ok

ReasonIsTrue ==
    /\ reason \in {"DiscoveryFailed", "InvalidResponse"} => found = 0
    /\ reason = "InvalidResponse" => endpoints = <<>>
    /\ reason = "AllProbesFailed" => answer.kind = "AllProbesFailed"
    /\ reason = "InitialConnectFailed" => Selected

TokenIsHeld ==
    /\ entrusted # {} => Selected /\ entrusted = {Chosen}
    /\ reason = "none" => phase = "idle" /\ offered = {}
    /\ phase = "idle" => last_err = "none"

SourceIsSet ==
    /\ outcome = "Connected" =>
          \/ source = SourceOfChosen /\ reason = "none" /\ entrusted = {Chosen}
          \/ source = FallbackSource /\ reason # "none" /\ phase = "connected"
    /\ outcome # "Connected" => source = NoSource
    /\ outcome = "AutoConfig" => ~ fallback

AutoInv == /\ AutoTypeOK /\ PP!IInv /\ StageOrder /\ ListIsParsed /\ ReasonIsTrue
           /\ TokenIsHeld /\ SourceIsSet /\ FallbackIsAccepted

-----------------------------------------------------------------------------
(* The probes of connect_auto are those ProbingProofs is about. *)

LEMMA SameNames ==
    /\ P!Endpoints = PP!Endpoints /\ P!Holders = PP!Holders /\ P!Addrs = PP!Addrs
    /\ P!NoProbe = PP!NoProbe /\ P!Pending = PP!Pending /\ P!Probes = PP!Probes
    /\ P!Unknown = PP!Unknown
BY DEF P!Endpoints, PP!Endpoints, P!Holders, PP!Holders, P!Addrs, PP!Addrs, P!NoProbe,
   PP!NoProbe, P!Pending, PP!Pending, P!Probes, PP!Probes, P!Unknown, PP!Unknown

LEMMA SameInit == P!Init => PP!Init
BY SameNames DEF P!Init, PP!Init

LEMMA SameStart ==
    ASSUME NEW n \in 1..Count, P!Start(n) PROVE PP!Next
BY DEF P!Start, PP!Start, PP!Next

LEMMA SameProbe == P!Probe => PP!Next
<1> USE SameNames
<1>1. ASSUME NEW i, P!Acquire(i) PROVE PP!Acquire(i)
  BY <1>1 DEF P!Acquire, PP!Acquire, P!Cardinality, PP!Cardinality
<1>2. ASSUME NEW i, P!LookupEnds(i) PROVE PP!LookupEnds(i)
  BY <1>2 DEF P!LookupEnds, PP!LookupEnds, P!LookupFails, PP!LookupFails, P!JoinFailure,
     PP!JoinFailure, P!Resolve, PP!Resolve
<1>3. ASSUME NEW i, P!EndpointEnds(i) PROVE PP!EndpointEnds(i)
  BY <1>3 DEF P!EndpointEnds, PP!EndpointEnds, P!EndpointSucceeds, PP!EndpointSucceeds,
     P!EndpointFails, PP!EndpointFails, P!EndpointAborted, PP!EndpointAborted,
     P!JoinFailure, PP!JoinFailure, P!AllJoined, PP!AllJoined, P!Reached, PP!Reached
<1>4. ASSUME NEW i, P!TaskAborts(i) PROVE PP!TaskAborts(i)
  BY <1>4 DEF P!TaskAborts, PP!TaskAborts, P!JoinFailure, PP!JoinFailure
<1>5. ASSUME NEW i, NEW a, P!ProbeEnds(i, a) PROVE PP!ProbeEnds(i, a)
  <2>1. ASSUME NEW l, P!ProbeSucceeds(i, a, l) PROVE PP!ProbeSucceeds(i, a, l)
    BY <2>1 DEF P!ProbeSucceeds, PP!ProbeSucceeds, P!Improves, PP!Improves
  <2>2. P!ProbeFails(i, a) => PP!ProbeFails(i, a)
    BY DEF P!ProbeFails, PP!ProbeFails, P!EarlierError, PP!EarlierError
  <2>3. P!ProbeAborts(i, a) => PP!ProbeAborts(i, a)
    BY DEF P!ProbeAborts, PP!ProbeAborts
  <2> QED
    BY <1>5, <2>1, <2>2, <2>3 DEF P!ProbeEnds, PP!ProbeEnds
<1>6. P!ProbeAll => PP!ProbeAll
  BY DEF P!ProbeAll, PP!ProbeAll, P!select_best, PP!select_best, P!NotSlower, PP!NotSlower
<1> QED
  BY <1>1, <1>2, <1>3, <1>4, <1>5, <1>6 DEF P!Probe, PP!Probe, PP!Next

(* Nothing but the probes' own steps, and their end when connect_auto is dropped,
   changes what is known of them. *)
LEMMA ProbesKept ==
    ASSUME PP!IInv, UNCHANGED probeVars PROVE PP!IInv'
<1>1. [PP!Next]_PP!vars
  BY DEF probeVars, PP!vars, PP!probingVars
<1> QED
  BY <1>1, PP!InvStep, PP!CountAssumption, PP!MaxAddrsAssumption, PP!PermitsAssumption,
     PP!LatenciesAssumption

LEMMA ProbesStep ==
    ASSUME PP!IInv, PP!Next PROVE PP!IInv'
BY PP!InvStep, PP!CountAssumption, PP!MaxAddrsAssumption, PP!PermitsAssumption,
   PP!LatenciesAssumption

LEMMA ProbesDropped ==
    ASSUME PP!IInv, running' = {},
           UNCHANGED <<found, task, best, first_err, results, failures, answer, measured,
                       failed>>
    PROVE  PP!IInv'
<1>1. PP!ProbingTypeOK' /\ PP!ProbesHaveTasks'
  BY DEF PP!IInv, PP!ProbingTypeOK, PP!ProbesHaveTasks, PP!Endpoints
<1>2. PP!BestIsFastest' /\ PP!FirstErrIsFirst' /\ PP!FailuresAreTrue'
  BY DEF PP!IInv, PP!BestIsFastest, PP!FirstErrIsFirst, PP!FailuresAreTrue, PP!Reached
<1>3. PP!JoinedWithOutcome' /\ PP!OutcomeOfJoined' /\ PP!AnswerIsRight'
  BY DEF PP!IInv, PP!JoinedWithOutcome, PP!OutcomeOfJoined, PP!AnswerIsRight, PP!Reached,
     PP!Endpoints
<1> QED
  BY <1>1, <1>2, <1>3 DEF PP!IInv

-----------------------------------------------------------------------------
(* Every step keeps the invariant. *)

(* What all probes have measured is in when one has been selected. *)
LEMMA SelectedProbes ==
    ASSUME PP!IInv
    PROVE  /\ Selected => answer.best \in P!Probes
                          /\ running = {} /\ \A r \in results : P!NotSlower(answer.best, r)
           /\ answer.kind = "AllProbesFailed" =>
                 \A i \in P!Endpoints : \E f \in failures : f.of = i
<1> USE DEF PP!IInv, PP!AnswerIsRight, PP!Pending, PP!NoProbe
<1>1. ASSUME Selected
      PROVE  /\ answer.best \in results /\ running = {}
             /\ \A i \in PP!Endpoints : task[i] = "joined"
  BY <1>1 DEF Selected, PP!ProbesHaveTasks, PP!ProbingTypeOK
<1>2. ASSUME Selected PROVE answer.best \in P!Probes
  BY <1>1, <1>2, SameNames DEF PP!ProbingTypeOK
<1>3. ASSUME Selected PROVE \A r \in results : P!NotSlower(answer.best, r)
  BY <1>3 DEF Selected, P!NotSlower, PP!NotSlower
<1>4. ASSUME answer.kind = "AllProbesFailed"
      PROVE  \A i \in P!Endpoints : \E f \in failures : f.of = i
  BY <1>4, PP!InvTotal, PP!CountAssumption, PP!MaxAddrsAssumption, PP!PermitsAssumption,
     PP!LatenciesAssumption, SameNames DEF PP!FailureIsTotal
<1> QED
  BY <1>1, <1>2, <1>3, <1>4

LEMMA AutoInit == Init => AutoInv
<1> SUFFICES ASSUME Init PROVE AutoInv
  OBVIOUS
<1>1. PP!IInv
  BY SameInit, PP!InvInit, PP!CountAssumption, PP!MaxAddrsAssumption, PP!PermitsAssumption,
     PP!LatenciesAssumption DEF Init
<1> QED
  BY <1>1, CountAssumption DEF Init, P!Init, C!Init, AutoInv, AutoTypeOK, StageOrder, Early,
     Discovering, ListIsParsed, ReasonIsTrue, TokenIsHeld, SourceIsSet, FallbackIsAccepted,
     NoSource

(* connect does not reject a fallback that was validated, and takes the same host. *)
LEMMA FallbackSplits ==
    ASSUME NEW text, split_host_port(text).ok
    PROVE  /\ C!connect_host(text).ok /\ split_host_port(text).host # <<>>
           /\ C!connect_host(text).host = split_host_port(text).host
<1>1. connect_host(text) = split_host_port(text) /\ split_host_port(text).host # <<>>
  BY DEF split_host_port, connect_host, Checked, Ok, Err
<1>2. C!FirstOf(text, "]") = FirstOf(text, "]") /\ C!LastOf(text, ":") = LastOf(text, ":")
  BY DEF C!FirstOf, FirstOf, C!LastOf, LastOf, C!SelectInSeq, SelectInSeq,
     C!SelectLastInSeq, SelectLastInSeq, C!Min, Min, C!Max, Max
<1>3. C!connect_host(text) = connect_host(text)
  BY <1>2 DEF C!connect_host, connect_host, C!Bracketed, Bracketed, C!Before, Before,
     C!Ok, Ok, C!Err, Err
<1> QED
  BY <1>1, <1>3

LEMMA ProbesInv == AutoInv /\ [Next]_vars => PP!IInv'
<1> SUFFICES ASSUME AutoInv, [Next]_vars PROVE PP!IInv'
  OBVIOUS
<1>1. PP!IInv
  BY DEF AutoInv
<1>2. CASE UNCHANGED probeVars
  BY <1>1, <1>2, ProbesKept
<1>3. CASE UseList
  <2>1. Len(endpoints) \in 0..Count /\ (endpoints # <<>> => Len(endpoints) # 0)
    BY <1>3, ParsesWell DEF UseList, AutoInv, AutoTypeOK, ListIsParsed
  <2>2. CASE P!Start(Len(endpoints)) /\ endpoints # <<>>
    <3>1. Len(endpoints) \in 1..Count
      BY <2>1, <2>2, CountAssumption
    <3> QED
      BY <1>1, <2>2, <3>1, SameStart, ProbesStep
  <2> QED
    BY <1>2, <1>3, <2>2 DEF UseList
<1>4. CASE ProbeStep
  BY <1>1, <1>4, SameProbe, ProbesStep DEF ProbeStep
<1>5. CASE Drop
  BY <1>1, <1>5, ProbesDropped DEF Drop
<1> QED
  BY <1>2, <1>3, <1>4, <1>5 DEF Next, vars, Validate, LoadRoots, Discover, DiscoveryFails,
     Respond, Select, NoneReached, Dial, ChosenConnects, ChosenFails, FallbackStep,
     FallbackReturns, FallbackConnects, FallbackFails, FallbackDropped, Done

Rest == /\ AutoTypeOK /\ StageOrder /\ ListIsParsed /\ ReasonIsTrue
        /\ TokenIsHeld /\ SourceIsSet /\ FallbackIsAccepted

(* Up to the list of endpoints. *)
LEMMA RestEarly ==
    ASSUME Rest, Validate \/ LoadRoots \/ Discover \/ UseList PROVE Rest'
<1> USE DEF Rest, StageOrder, Early, Discovering, ListIsParsed, ReasonIsTrue, TokenIsHeld,
       SourceIsSet, FallbackIsAccepted, AutoTypeOK, Reasons, Selected, Chosen, Enter, Return,
       FallBack, ValidFallback, probeVars, connectVars
<1>1. CASE Validate
  BY <1>1 DEF Validate
<1>2. CASE LoadRoots
  BY <1>2 DEF LoadRoots
<1>3. CASE DiscoveryFails
  BY <1>3 DEF DiscoveryFails
<1>4. ASSUME NEW b \in Bodies, Respond(b) PROVE Rest'
  <2>1. /\ \A i \in DOMAIN parse_endpoints(b) : split_host_port(parse_endpoints(b)[i]).ok
        /\ Len(parse_endpoints(b)) \in 0..Count
    BY ParsesWell
  <2> QED
    BY <1>4, <2>1 DEF Respond
<1>5. CASE UseList
  BY <1>5 DEF UseList, P!Start
<1> QED
  BY <1>1, <1>2, <1>3, <1>4, <1>5 DEF Discover

(* Up to the end of the dial of the one selected. *)
LEMMA RestProbe ==
    ASSUME Rest, PP!IInv, ProbeStep \/ Select \/ NoneReached \/ Dial \/ Drop PROVE Rest'
<1> USE DEF Rest, StageOrder, Early, Discovering, ListIsParsed, ReasonIsTrue, TokenIsHeld,
       SourceIsSet, FallbackIsAccepted, AutoTypeOK, Reasons, Enter, Return,
       FallBack, ValidFallback, connectVars
<1>1. CASE ProbeStep
  BY <1>1 DEF ProbeStep, autoVars
<1>2. CASE Select
  <2>1. SplitsAgain
    BY <1>2 DEF Select, SplitsAgain
  <2> QED
    BY <1>2, <2>1 DEF Select, Selected, Chosen, probeVars
<1>3. CASE NoneReached
  BY <1>3 DEF NoneReached, Selected, Chosen, probeVars
<1>4. CASE Dial
  <2>1. Selected /\ Chosen \in P!Probes
    BY <1>4, SelectedProbes DEF Dial, ChosenConnects, ChosenFails, Chosen
  <2>2. Selected' /\ Chosen' = Chosen
    BY <1>4, <2>1 DEF Dial, ChosenConnects, ChosenFails, Selected, Chosen, probeVars
  <2>3. P!Probes' = P!Probes
    BY DEF P!Probes, P!Addrs
  <2>4. SourceOfChosen' = SourceOfChosen /\ SourceOfChosen.kind = "Discovered"
    BY <1>4, <2>2 DEF Dial, ChosenConnects, ChosenFails, Return, FallBack, SourceOfChosen,
       GiveUpChosen
  <2>5. CASE ChosenConnects
    BY <2>1, <2>2, <2>3, <2>4, <2>5 DEF ChosenConnects, probeVars
  <2>6. CASE ChosenFails
    BY <2>1, <2>2, <2>3, <2>6 DEF ChosenFails, GiveUpChosen, probeVars
  <2> QED
    BY <1>4, <2>5, <2>6 DEF Dial
<1>5. CASE Drop
  <2>1. Selected' = Selected /\ Chosen' = Chosen /\ P!Probes' = P!Probes
    BY <1>5 DEF Drop, Selected, Chosen, P!Probes, P!Addrs
  <2>2. entrusted' = entrusted \/ (stage = "dial" /\ entrusted' \in {{}, {Chosen}})
    BY <1>5 DEF Drop
  <2>3. stage = "dial" => Selected /\ Chosen \in P!Probes
    BY SelectedProbes DEF Chosen
  <2>4. AutoTypeOK' /\ TokenIsHeld'
    BY <1>5, <2>1, <2>2, <2>3 DEF Drop
  <2>5. StageOrder' /\ SourceIsSet'
    BY <1>5 DEF Drop
  <2> QED
    BY <1>5, <2>4, <2>5 DEF Drop
<1> QED
  BY <1>1, <1>2, <1>3, <1>4, <1>5

(* The fallback. *)
LEMMA RestFallback ==
    ASSUME Rest, FallbackStep \/ FallbackReturns PROVE Rest'
<1> USE DEF Rest, StageOrder, Early, Discovering, ListIsParsed, ReasonIsTrue, TokenIsHeld,
       SourceIsSet, AutoTypeOK, Reasons, ValidFallback, probeVars, Selected, Chosen
<1>1. CASE FallbackStep
  <2> USE <1>1 DEF FallbackStep, autoVars
  <2>1. settings /\ split_host_port(addr).ok /\ UNCHANGED <<settings, addr>>
    BY DEF C!Step, C!Begin, C!RejectConfig, C!RejectAddress, C!LookupEnds, C!LookupFails,
       C!Resolve, C!DialEnds, C!AddrConnects, C!AddrFails, C!Drop, C!given, C!FailBeforeDial
  <2>2. FallbackIsAccepted'
    <3> USE DEF FallbackIsAccepted
    <3>1. CASE C!Begin
      BY <2>1, <3>1, FallbackSplits DEF C!Begin
    <3>2. CASE C!RejectConfig \/ C!RejectAddress
      BY <2>1, <3>2, FallbackSplits DEF C!RejectConfig, C!RejectAddress
    <3>3. CASE C!LookupEnds \/ C!AddrConnects \/ C!Drop
      BY <2>1, <3>3 DEF C!LookupEnds, C!LookupFails, C!Resolve, C!AddrConnects, C!Drop,
         C!FailBeforeDial
    <3>4. ASSUME NEW e \in DialErrors, C!AddrFails(e) PROVE FallbackIsAccepted'
      <4>1. e # "Config"
        BY DialErrorsAssumption DEF C!ConnectErrors, C!BeforeToken, C!AfterToken
      <4> QED
        BY <2>1, <3>4, <4>1 DEF C!AddrFails, C!LastErr
    <3> QED
      BY <3>1, <3>2, <3>3, <3>4 DEF C!Step, C!DialEnds
  <2>3. phase' # "idle"
    BY DEF C!Step, C!Begin, C!RejectConfig, C!RejectAddress, C!LookupEnds, C!LookupFails,
       C!Resolve, C!DialEnds, C!AddrConnects, C!AddrFails, C!Drop, C!FailBeforeDial
  <2> QED
    BY <2>1, <2>2, <2>3
<1>2. CASE FallbackReturns
  <2>1. FallbackSource' = FallbackSource /\ FallbackSource.kind = "Fallback"
    BY <1>2 DEF FallbackReturns, FallbackConnects, FallbackFails, FallbackDropped, Return,
       FallbackSource, connectVars
  <2> QED
    BY <1>2, <2>1 DEF FallbackReturns, FallbackConnects, FallbackFails, FallbackDropped,
       Return, FallbackIsAccepted, connectVars
<1> QED
  BY <1>1, <1>2

LEMMA AutoStep == AutoInv /\ [Next]_vars => AutoInv'
<1> SUFFICES ASSUME AutoInv, [Next]_vars PROVE AutoInv'
  OBVIOUS
<1>1. Rest /\ PP!IInv
  BY DEF AutoInv, Rest
<1>2. PP!IInv'
  BY ProbesInv
<1>3. ASSUME UNCHANGED vars PROVE Rest'
  BY <1>1, <1>3 DEF vars, probeVars, connectVars, autoVars, Rest, StageOrder, Early,
     Discovering, ListIsParsed, ReasonIsTrue, TokenIsHeld, SourceIsSet, FallbackIsAccepted,
     AutoTypeOK, Reasons, ValidFallback, Selected, Chosen, P!Probes, P!Addrs, SourceOfChosen,
     FallbackSource
<1>4. Rest'
  BY <1>1, <1>3, RestEarly, RestProbe, RestFallback DEF Next, Done
<1> QED
  BY <1>2, <1>4 DEF AutoInv, Rest

(* Probing, what is parsed, the reason and the token keep in step with connect_auto, in
   every reachable state. *)
THEOREM AutoInvariance == Spec => []AutoInv
  BY AutoInit, AutoStep, PTL DEF Spec

(* Every variable keeps its type: Spec => []AutoTypeOK. *)
THEOREM AutoTyping == Spec => []AutoTypeOK
<1>1. AutoInv => AutoTypeOK
  BY DEF AutoInv
<1> QED
  BY <1>1, AutoInvariance, PTL

-----------------------------------------------------------------------------
(* What connect_auto promises *)

(* Of all discovered endpoints only the one that answered fastest may see the token, and
   the fallback's addresses only after a failure: Spec => []TokenOnlyToChosen. *)
THEOREM TokenGoesToChosen == Spec => []TokenOnlyToChosen
<1>1. AutoInv => TokenOnlyToChosen
  BY SelectedProbes DEF AutoInv, TokenIsHeld, TokenOnlyToChosen, Selected, Chosen
<1> QED
  BY <1>1, AutoInvariance, PTL

(* endpoint_source() names the endpoint, address and latency of the probe whose endpoint
   has been given the token, or the fallback that is connected and the reason why it is,
   which is what happened: Spec => []SourceIsTrue. *)
THEOREM SourceTells == Spec => []SourceIsTrue
<1>1. AutoInv => SourceIsTrue
  <2> SUFFICES ASSUME AutoInv PROVE SourceIsTrue
    OBVIOUS
  <2>1. /\ reason = "InitialConnectFailed" => answer.kind = "selected"
        /\ reason = "AllProbesFailed" => \A i \in P!Endpoints : \E f \in failures : f.of = i
        /\ reason \in {"DiscoveryFailed", "InvalidResponse"} => found = 0
        /\ reason = "InvalidResponse" => endpoints = <<>>
    BY SelectedProbes DEF AutoInv, ReasonIsTrue, Selected
  <2>2. ASSUME source = SourceOfChosen, reason = "none", entrusted = {Chosen}
        PROVE  /\ source.kind = "Discovered" /\ phase = "idle"
               /\ \E p \in measured :
                     /\ entrusted = {p}
                     /\ source.endpoint = endpoints[p.index]
                     /\ source.addr = p.addr /\ source.latency = p.latency
    <3>1. Selected /\ phase = "idle"
      BY <2>2 DEF AutoInv, TokenIsHeld
    <3>2. Chosen \in measured
      BY <3>1, PP!InvFastest, PP!CountAssumption, PP!MaxAddrsAssumption,
         PP!PermitsAssumption, PP!LatenciesAssumption
      DEF AutoInv, Selected, Chosen, PP!FastestSelected
    <3> QED
      BY <2>2, <3>1, <3>2 DEF SourceOfChosen
  <2>3. ASSUME source = FallbackSource
        PROVE  source.kind = "Fallback" /\ source.endpoint = addr /\ source.reason = reason
    BY <2>3 DEF FallbackSource
  <2> QED
    BY <2>1, <2>2, <2>3 DEF AutoInv, SourceIsSet, SourceIsTrue
<1> QED
  BY <1>1, AutoInvariance, PTL

(* The fallback is accepted when it is needed: Spec => []FallbackIsAccepted. *)
THEOREM FallbackAccepted == Spec => []FallbackIsAccepted
<1>1. AutoInv => FallbackIsAccepted
  BY DEF AutoInv
<1> QED
  BY <1>1, AutoInvariance, PTL

(* Whatever the response, the usable entries are probed, each once and in order of
   appearance: Spec => []ParsedWell. *)
THEOREM ParsesEveryResponse == Spec => []ParsedWell
<1>1. AutoInv => ParsedWell
  BY ParsesWell DEF AutoInv, AutoTypeOK, ListIsParsed, ParsedWell
<1> QED
  BY <1>1, AutoInvariance, PTL

(* The safety part of FallbackUsed: connect_auto gives up for the discovered endpoints
   alone only when there is no fallback. *)
THEOREM FallbackComesFirst == Spec => [](outcome = "AutoConfig" => ~ fallback)
<1>1. AutoInv => (outcome = "AutoConfig" => ~ fallback)
  BY DEF AutoInv, SourceIsSet
<1> QED
  BY <1>1, AutoInvariance, PTL

-----------------------------------------------------------------------------
(* The parts of connect_auto *)

(* What is proved of probe_all alone holds in connect_auto too, where it starts with the
   parsed list and may be dropped at any point. *)
THEOREM ProbesAsPromised ==
    Spec => [](P!FastestSelected /\ P!FailureIsTotal /\ P!FirstAddressReported)
<1>1. AutoInv => P!FastestSelected /\ P!FailureIsTotal /\ P!FirstAddressReported
  <2> SUFFICES ASSUME PP!IInv
               PROVE  P!FastestSelected /\ P!FailureIsTotal /\ P!FirstAddressReported
    BY DEF AutoInv
  <2>1. PP!FastestSelected /\ PP!FailureIsTotal /\ PP!FirstAddressReported
    BY PP!InvFastest, PP!InvTotal, PP!InvFirstAddress, PP!CountAssumption,
       PP!MaxAddrsAssumption, PP!PermitsAssumption, PP!LatenciesAssumption
  <2> QED
    BY <2>1, SameNames DEF P!FastestSelected, PP!FastestSelected, P!FailureIsTotal,
       PP!FailureIsTotal, P!FirstAddressReported, PP!FirstAddressReported, P!NotSlower,
       PP!NotSlower
<1> QED
  BY <1>1, AutoInvariance, PTL

(* The fallback is connect_with_source and nothing else: every behaviour of connect_auto
   is one of Connect, so all that is proved of Connect holds of the fallback. *)
THEOREM FallbackIsConnect == Spec => C!Spec
<1>1. Init => C!Init
  BY DEF Init
<1>2. [Next]_vars => [C!Next]_C!vars
  <2> SUFFICES ASSUME [Next]_vars PROVE C!Next \/ UNCHANGED C!vars
    OBVIOUS
  <2>1. CASE FallbackStep
    BY <2>1 DEF FallbackStep, C!Next
  <2>2. CASE UNCHANGED connectVars
    BY <2>2 DEF connectVars, C!vars, C!given
  <2> QED
    BY <2>1, <2>2 DEF Next, vars, connectVars, Validate, LoadRoots, Discover, DiscoveryFails,
       Respond, UseList, ProbeStep, Select, NoneReached, Dial, ChosenConnects, ChosenFails,
       FallbackReturns, FallbackConnects, FallbackFails, FallbackDropped, Drop, Done
<1> QED
  BY <1>1, <1>2, PTL DEF Spec, C!Spec
=============================================================================
