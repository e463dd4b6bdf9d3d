------------------------------ MODULE Connect ------------------------------
(***************************************************************************)
(* connect_with_source (src/src/client.rs): split host:port (Address),     *)
(* resolve it once, then try the addresses in the resolver's order, each   *)
(* with an endpoint of its own and connect_timeout for dial and token      *)
(* handshake together.                                                     *)
(***************************************************************************)
EXTENDS Address

CONSTANTS Texts,      \* what callers pass for host:port
          MaxAddrs,   \* bound: addresses a lookup returns
          DialErrors  \* how connect_addr_with_source may fail here

(* Before the token line is written, after it, and either. *)
BeforeToken == {"Tls", "Io", "Dial", "Connection", "TransportError"}
AfterToken  == {"Unauthorized", "Revoked", "BadRequest", "TooManyConnections",
                "HandshakeIo", "Unexpected"}
ConnectErrors == BeforeToken \union AfterToken \union {"Timeout"}

ASSUME TextsAssumption == \A text \in Texts : text \in Seq(STRING)
ASSUME MaxAddrsAssumption == MaxAddrs \in Nat \ {0}
ASSUME DialErrorsAssumption == DialErrors \subseteq ConnectErrors

VARIABLES settings,    \* ClientConfig and token pass their checks
          addr,        \* the host:port
          server_name, \* the name TLS will verify, <<>> before the split
          phase,       \* "idle", "lookup", "dialing", "connected", "failed", "dropped"
          count,       \* addresses resolved
          next,        \* the address being tried
          last_err,    \* error of the last address tried
          offered,     \* addresses that may have seen the token
          errors       \* history: the errors of the addresses tried so far

given == <<settings, addr>>
vars == <<given, server_name, phase, count, next, last_err, offered, errors>>

AuthErrors == {"Unauthorized", "Revoked", "BadRequest"}

Init ==
    /\ settings \in BOOLEAN /\ addr \in Texts /\ server_name = <<>>
    /\ phase = "idle" /\ count = 0 /\ next = 0
    /\ last_err = "none" /\ offered = {} /\ errors = <<>>

(* ClientConfig::validate and validate_token pass, and the text has a host. *)
Begin ==
    /\ phase = "idle" /\ settings /\ connect_host(addr).ok
    /\ phase' = "lookup"
    /\ server_name' = connect_host(addr).host
    /\ UNCHANGED <<given, count, next, last_err, offered, errors>>

FailBeforeDial(e) ==
    /\ phase' = "failed"
    /\ last_err' = e
    /\ UNCHANGED <<given, server_name, count, next, offered, errors>>

RejectConfig == phase = "idle" /\ ~ settings /\ FailBeforeDial("Config")

RejectAddress ==
    /\ phase = "idle" /\ settings /\ ~ connect_host(addr).ok
    /\ FailBeforeDial("Resolve")

(* Unparsable for lookup_host, DNS error, DNS timeout, or no address. *)
LookupFails == phase = "lookup" /\ FailBeforeDial("Resolve")

(* A literal is an address itself, a name may have several. *)
Resolve(n) ==
    /\ phase = "lookup" /\ lookup_host(addr) # {}
    /\ n = 1 \/ \A name \in lookup_host(addr) : ~ IsV6(name)
    /\ phase' = "dialing"
    /\ count' = n /\ next' = 1
    /\ UNCHANGED <<given, server_name, last_err, offered, errors>>

AddrConnects ==
    /\ phase = "dialing"
    /\ phase' = "connected"
    /\ offered' = offered \union {next}
    /\ UNCHANGED <<given, server_name, count, next, last_err, errors>>

(* The faulty variants named Mutant... take the place of the definition that follows
   them in the checks that show a property can fail; nothing else uses them. *)
MutantOneBeyond == next <= count

MoreAddrs == next < count

MutantFirstErr(e) == IF last_err = "none" THEN e ELSE last_err

(* The error of an address replaces the one before. *)
LastErr(e) == e

(* Every error moves on to the next address, a refused token included; the last
   one is the caller's. *)
AddrFails(e) ==
    /\ phase = "dialing"
    /\ offered' \in {o \in {offered, offered \union {next}} :
                        /\ e \in BeforeToken => o = offered
                        /\ e \in AfterToken => next \in o}
    /\ errors' = Append(errors, e)
    /\ last_err' = LastErr(e)
    /\ \/ MoreAddrs /\ next' = next + 1 /\ UNCHANGED phase
       \/ ~ MoreAddrs /\ phase' = "failed" /\ UNCHANGED next
    /\ UNCHANGED <<given, server_name, count>>

(* The future is dropped at an await; the address being tried may have got the token. *)
Drop ==
    /\ \/ phase = "lookup" /\ UNCHANGED offered
       \/ phase = "dialing" /\ offered' \in {offered, offered \union {next}}
    /\ phase' = "dropped"
    /\ UNCHANGED <<given, server_name, count, next, last_err, errors>>

LookupEnds == LookupFails \/ \E n \in 1..MaxAddrs : Resolve(n)
DialEnds   == AddrConnects \/ \E e \in DialErrors : AddrFails(e)

Step == Begin \/ RejectConfig \/ RejectAddress \/ LookupEnds \/ DialEnds \/ Drop

Returned == phase \in {"connected", "failed", "dropped"} /\ UNCHANGED vars

Next == Step \/ Returned

Spec == Init /\ [][Next]_vars

-----------------------------------------------------------------------------
(* Properties *)

ConnectTypeOK ==
    /\ settings \in BOOLEAN /\ Len(server_name) <= Len(addr)
    /\ phase \in {"idle", "lookup", "dialing", "connected", "failed", "dropped"}
    /\ count \in 0..MaxAddrs /\ next \in 0..count
    /\ last_err \in ConnectErrors \union {"none", "Config", "Resolve"}
    /\ offered \subseteq 1..count
    /\ errors \in Seq(ConnectErrors)

(* README.md: "Surfaces authentication errors immediately so a stale token never
   silently retries forever": a refused token is what connect returns. *)
RefusalSurfaces ==
    \A i \in DOMAIN errors : errors[i] \in AuthErrors => phase = "failed" /\ last_err = errors[i]

(* "tries each resolved address in turn, returning the first successful connection":
   connect gives up only when every address has failed, with the error of the last one,
   and connects only after the addresses before have failed; the token has been in no
   address beyond the one it got to. *)
EveryAddressTried ==
    /\ phase = "failed" /\ count > 0 => Len(errors) = count /\ last_err = errors[count]
    /\ phase = "connected" => Len(errors) = next - 1
    /\ offered \subseteq 1..next

(* The certificate is verified for the name that was resolved: connect takes it from
   the text by a parser of its own, lookup_host by another. *)
VerifiesResolvedName == count > 0 => lookup_host(addr) = {server_name}

(* What split_host_port accepts, for a fallback or a discovered endpoint, connect
   splits into the same host and does not reject. *)
ParsersAgree ==
    split_host_port(addr).ok =>
       /\ connect_host(addr) = split_host_port(addr)
       /\ lookup_host(addr) \subseteq {split_host_port(addr).host}
=============================================================================
