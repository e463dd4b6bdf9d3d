---------------------------- MODULE AutoConnect ----------------------------
(***************************************************************************)
(* connect_auto and try_discovered (src/src/autoconfig.rs): request the    *)
(* endpoints (Discovery), probe them (Probing), offer the token to the     *)
(* fastest, and on any failure go through connect_with_source (Connect)    *)
(* for the fallback, whose text is Connect's addr.                         *)
(***************************************************************************)
EXTENDS Discovery

CONSTANTS Bodies,                               \* what discovery may answer
          Count, MaxAddrs, Permits, Latencies,  \* as in Probing
          Texts, DialErrors                     \* as in Connect

ASSUME CountAssumption == Count \in Nat \ {0}
ASSUME MaxAddrsAssumption == MaxAddrs \in Nat \ {0}
ASSUME PermitsAssumption == Permits \in Nat \ {0}
ASSUME LatenciesAssumption == Latencies \subseteq Nat
ASSUME BodiesAssumption ==
    \A b \in Bodies \ {NotJson} :
       b \in Seq(Seq(STRING)) /\ Len(parse_endpoints(b)) <= Count

VARIABLES found, task, running, best, first_err, results, failures, answer, measured, failed,
          settings, addr, server_name, phase, count, next, last_err, offered, errors

P == INSTANCE Probing
C == INSTANCE Connect

ASSUME DialErrorsAssumption == DialErrors \subseteq C!ConnectErrors

VARIABLES fallback,  \* auto.fallback_endpoint is Some
          stage,     \* what connect_auto is at
          body,      \* the response that was parsed
          endpoints, \* the endpoints to probe
          reason,    \* the FallbackReason, or "none"
          source,    \* EndpointSource of the client, or NoSource
          outcome,   \* what connect_auto returned
          entrusted  \* discovered addresses that may have seen the token

autoVars == <<fallback, stage, body, endpoints, reason, source, outcome, entrusted>>
probeVars == <<found, task, running, best, first_err, results, failures, answer, measured,
               failed>>
connectVars == <<settings, addr, server_name, phase, count, next, last_err, offered, errors>>
vars == <<probeVars, connectVars, autoVars>>

Reasons == {"DiscoveryFailed", "InvalidResponse", "AllProbesFailed", "InitialConnectFailed"}

NoSource == [kind |-> "none"]

Init ==
    /\ P!Init /\ C!Init
    /\ fallback \in BOOLEAN /\ (fallback \/ addr = <<>>)
    /\ stage = "validate" /\ body = NotJson /\ endpoints = <<>>
    /\ reason = "none" /\ source = NoSource /\ outcome = "pending"
    /\ entrusted = {}

Enter(s) ==
    /\ stage' = s
    /\ UNCHANGED <<fallback, body, endpoints, reason, source, outcome, entrusted>>

Return(o) ==
    /\ stage' = "done"
    /\ outcome' = o
    /\ UNCHANGED <<fallback, body, endpoints, reason>>

(* The faulty variants named Mutant... take the place of the definition that follows
   them in the checks that show a property can fail; nothing else uses them. *)
MutantUncheckedFallback == TRUE

ValidFallback == fallback => split_host_port(addr).ok

(* config.validate, validate_token, auto.validate, whose other settings are fine. *)
Validate ==
    /\ stage = "validate"
    /\ IF settings /\ ValidFallback THEN Enter("roots")
       ELSE Return("Config") /\ UNCHANGED <<source, entrusted>>
    /\ UNCHANGED <<probeVars, connectVars>>

LoadRoots ==
    /\ stage = "roots"
    /\ Enter("discover") \/ (Return("Tls") /\ UNCHANGED <<source, entrusted>>)
    /\ UNCHANGED <<probeVars, connectVars>>

(* try_discovered gave up for the reason r. *)
FallBack(r) ==
    /\ reason' = r
    /\ \/ fallback /\ stage' = "fallback" /\ UNCHANGED outcome
       \/ ~ fallback /\ stage' = "done" /\ outcome' = "AutoConfig"
    /\ UNCHANGED <<fallback, source>>

(* Request, response or status; the endpoints are not known. *)
DiscoveryFails ==
    /\ stage = "discover"
    /\ FallBack("DiscoveryFailed")
    /\ UNCHANGED <<body, endpoints, entrusted, probeVars, connectVars>>

(* The body has arrived and is parsed. *)
Respond(b) ==
    /\ stage = "discover"
    /\ stage' = "parsed"
    /\ body' = b /\ endpoints' = parse_endpoints(b)
    /\ UNCHANGED <<fallback, reason, source, outcome, entrusted, probeVars, connectVars>>

(* discover returns the list, and probe_all takes it. *)
UseList ==
    /\ stage = "parsed"
    /\ \/ /\ endpoints # <<>>
          /\ stage' = "probe"
          /\ P!Start(Len(endpoints))
          /\ UNCHANGED <<fallback, reason, source, outcome>>
       \/ /\ endpoints = <<>>
          /\ FallBack("InvalidResponse")
          /\ UNCHANGED probeVars
    /\ body' = NotJson
    /\ UNCHANGED <<endpoints, entrusted, connectVars>>

ProbeStep ==
    /\ stage = "probe"
    /\ P!Probe
    /\ UNCHANGED <<connectVars, autoVars>>

Selected == answer.kind = "selected"

(* The endpoint is split once more, for the TLS name. *)
SplitsAgain ==
    \A i \in DOMAIN endpoints : i = answer.best.index => split_host_port(endpoints[i]).ok

Select ==
    /\ stage = "probe" /\ Selected
    /\ IF SplitsAgain THEN Enter("dial")
       ELSE FallBack("InvalidResponse") /\ UNCHANGED <<body, endpoints, entrusted>>
    /\ UNCHANGED <<probeVars, connectVars>>

NoneReached ==
    /\ stage = "probe" /\ answer.kind = "AllProbesFailed"
    /\ FallBack("AllProbesFailed")
    /\ UNCHANGED <<probeVars, connectVars, body, endpoints, entrusted>>

MutantFirstResult == CHOOSE r \in results : \A q \in results : r.index <= q.index

Chosen == answer.best

MutantSourceOfFirst ==
    [kind |-> "Discovered", endpoint |-> endpoints[1],
     addr |-> Chosen.addr, latency |-> Chosen.latency]

SourceOfChosen ==
    [kind |-> "Discovered", endpoint |-> endpoints[Chosen.index],
     addr |-> Chosen.addr, latency |-> Chosen.latency]

ChosenConnects ==
    /\ stage = "dial"
    /\ Return("Connected")
    /\ source' = SourceOfChosen
    /\ entrusted' = {Chosen}
    /\ UNCHANGED <<probeVars, connectVars>>

MutantStopOnRefusal(e) ==
    \/ e \notin C!AuthErrors /\ FallBack("InitialConnectFailed")
    \/ /\ e \in C!AuthErrors
       /\ Return("AutoConfig") /\ UNCHANGED source

MutantRawReason(e) == FallBack(e)

GiveUpChosen(e) == FallBack("InitialConnectFailed")

(* Any failure of the chosen endpoint leads to the fallback, a refused token too. *)
ChosenFails ==
    /\ stage = "dial"
    /\ \E e \in DialErrors : GiveUpChosen(e)
    /\ entrusted' \in {{}, {Chosen}}
    /\ UNCHANGED <<probeVars, connectVars, body, endpoints>>

FallbackStep ==
    /\ stage = "fallback"
    /\ C!Step
    /\ UNCHANGED <<probeVars, autoVars>>

FallbackSource == [kind |-> "Fallback", endpoint |-> addr, reason |-> reason]

FallbackConnects ==
    /\ stage = "fallback" /\ phase = "connected"
    /\ Return("Connected")
    /\ source' = FallbackSource
    /\ UNCHANGED <<probeVars, connectVars, entrusted>>

FallbackFails ==
    /\ stage = "fallback" /\ phase = "failed"
    /\ Return("AutoConfigBoth")
    /\ UNCHANGED <<probeVars, connectVars, source, entrusted>>

(* Connect was dropped, and the future it runs in with it. *)
FallbackDropped ==
    /\ stage = "fallback" /\ phase = "dropped"
    /\ Return("dropped")
    /\ UNCHANGED <<probeVars, connectVars, source, entrusted>>

(* The future of connect_auto is dropped: the join sets abort their tasks.  In its dial the
   selected endpoint may have got the token by then. *)
Drop ==
    /\ stage \in {"roots", "discover", "probe", "dial"}
    /\ Return("dropped")
    /\ running' = {}
    /\ \/ stage = "dial" /\ entrusted' \in {{}, {Chosen}}
       \/ stage # "dial" /\ UNCHANGED entrusted
    /\ UNCHANGED <<found, task, best, first_err, results, failures, answer, measured, failed,
                   connectVars, source>>

Done == stage = "done" /\ UNCHANGED vars

FallbackReturns == FallbackConnects \/ FallbackFails \/ FallbackDropped

Dial == ChosenConnects \/ ChosenFails

Discover == DiscoveryFails \/ \E b \in Bodies : Respond(b)

Next ==
    \/ Validate \/ LoadRoots \/ Discover \/ UseList
    \/ ProbeStep \/ Select \/ NoneReached
    \/ Dial
    \/ FallbackStep \/ FallbackReturns
    \/ Drop \/ Done

(* Discovery, probes, lookups and dials all have timeouts. *)
Fairness ==
    /\ WF_vars(Validate) /\ WF_vars(LoadRoots) /\ WF_vars(Discover) /\ WF_vars(UseList)
    /\ WF_vars(ProbeStep) /\ WF_vars(Select) /\ WF_vars(NoneReached)
    /\ WF_vars(Dial)
    /\ WF_vars(FallbackStep) /\ WF_vars(FallbackReturns)

Spec == Init /\ [][Next]_vars /\ Fairness

-----------------------------------------------------------------------------
(* Properties *)

AutoTypeOK ==
    /\ fallback \in BOOLEAN
    /\ stage \in {"validate", "roots", "discover", "parsed", "probe", "dial", "fallback",
                 "done"}
    /\ body \in Bodies \union {NotJson} /\ Len(endpoints) \in 0..Count
    /\ reason \in Reasons \union {"none"}
    /\ source.kind \in {"none", "Discovered", "Fallback"}
    /\ outcome \in {"pending", "Config", "Tls", "AutoConfig", "AutoConfigBoth",
                    "Connected", "dropped"}
    /\ entrusted \subseteq P!Probes

(* Probes carry no token: of all discovered endpoints only the one that answered
   fastest may ever see it, once probing is over, and the fallback's addresses only
   after discovery, probing or that endpoint has failed (try_discovered, connect_auto). *)
TokenOnlyToChosen ==
    /\ entrusted # {} =>
          /\ answer.kind = "selected" /\ running = {}
          /\ \A p \in entrusted, r \in results : P!NotSlower(p, r)
    /\ offered # {} => reason # "none"

(* endpoint_source() of the client tells what happened: the endpoint, address and latency
   of the one discovered endpoint that was offered the token, as a probe has measured them;
   or the fallback that is connected, with the reason for which no discovered endpoint is,
   and that reason is what went wrong. *)
SourceIsTrue ==
    /\ outcome = "Connected" =>
          \/ /\ source.kind = "Discovered" /\ reason = "none" /\ phase = "idle"
             /\ \E p \in measured :
                   /\ entrusted = {p}
                   /\ source.endpoint = endpoints[p.index]
                   /\ source.addr = p.addr /\ source.latency = p.latency
          \/ /\ source.kind = "Fallback" /\ reason # "none" /\ phase = "connected"
             /\ source.endpoint = addr /\ source.reason = reason
    /\ outcome # "Connected" => source = NoSource
    /\ reason = "InitialConnectFailed" => answer.kind = "selected"
    /\ reason = "AllProbesFailed" => \A i \in P!Endpoints : \E f \in failures : f.of = i
    /\ reason \in {"DiscoveryFailed", "InvalidResponse"} => found = 0
    /\ reason = "InvalidResponse" => endpoints = <<>>

(* What is probed is what the response lists: each usable entry once, in the order of
   their first appearance, which breaks ties later on (parse_endpoints). *)
ParsedWell == stage = "parsed" => ListsUsable(endpoints, body)

(* The fallback has been checked before any network activity: when it is needed,
   minutes later and by another parser, connect does not reject it, but looks up the
   host that was checked. *)
FallbackIsAccepted ==
    stage = "fallback" /\ phase # "idle" =>
       last_err # "Config" /\ server_name # <<>> /\ server_name = split_host_port(addr).host

(* connect_auto returns: discovery, the probes, lookups and dials all have timeouts.
   A configured fallback is tried whatever went wrong with the discovered endpoints. *)
FallbackUsed ==
    /\ <>(stage = "done")
    /\ [](outcome = "AutoConfig" => ~ fallback)
=============================================================================
