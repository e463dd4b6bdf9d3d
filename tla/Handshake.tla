------------------------------ MODULE Handshake -----------------------------
(***************************************************************************)
(* The token handshake (src/src/client.rs), run by a reconnect loop with   *)
(* max_attempts None, from the connection connect_addr has left, against a *)
(* server that admits a bounded number of connections per token.  The      *)
(* server's view lags behind the client's: it still counts a connection    *)
(* the client has lost or given up, and it may revoke the token meanwhile. *)
(*                                                                         *)
(* What the server does is modelled from the close codes the client knows, *)
(* README.md and the stub server of the tests; only the client is the      *)
(* code's.  What goes wrong with a token that is good is a fault; faults   *)
(* are counted.                                                            *)
(***************************************************************************)
EXTENDS Naturals, FiniteSets

CONSTANTS Limit,     \* connections the server admits per token
          MaxConns,  \* bound: connections one side still knows of
          MaxFaults  \* bound: faults

ASSUME LimitAssumption == Limit \in Nat \ {0}
ASSUME BoundsAssumption == MaxConns \in Nat \ {0} /\ MaxFaults \in Nat

(* The line of a validated token is well formed: the server here has no occasion for
   BadRequest. *)
Codes == {"Unauthorized", "BadRequest", "TooMany", "Revoked", "Other"}

VARIABLES dial,          \* the connection of the latest dial
          client,        \* "idle", "open_bi", "read", "established", "stopped"
          open,          \* connections the client's endpoint keeps up
          close_reason,  \* of the latest connection as the client knows it
          reply,         \* what the finished handshake stream holds: "none", "ok", "bad"
          last,          \* outcome of the latest dial_and_handshake
          wire,          \* messages in flight
          slots,         \* connections the server counts for the token
          valid,         \* the server knows the token
          trusted,       \* what answers a dial passes the TLS handshake
          faults         \* faults so far

clientVars == <<dial, client, open, close_reason, reply, last>>
vars == <<clientVars, wire, slots, valid, trusted, faults>>

Conns == 1..MaxConns
Messages == [kind : {"line", "ok", "bad", "bye"}, conn : Conns, code : {"none"}]
              \union [kind : {"close"}, conn : Conns, code : Codes]
Msg(k, c) == [kind |-> k, conn |-> c, code |-> "none"]
CloseMsg(c, code) == [kind |-> "close", conn |-> c, code |-> code]

HandshakeErrors == {"Unauthorized", "TooManyConnections", "BadRequest", "Revoked", "Io",
                    "Timeout", "Unexpected"}

(* What is on its way to a client that no longer has the connection is lost. *)
Reaching(ws, os) == {m \in ws : m.kind \in {"line", "bye"} \/ m.conn \in os}

(* Neither side has anything left of c. *)
Free(c) == c \notin slots /\ \A m \in wire : m.conn # c

Fault == faults < MaxFaults /\ faults' = faults + 1

(* connect_addr has dialled and been admitted, and a send uses the connection. *)
Init ==
    /\ dial = 1 /\ client = "established" /\ open = {1} /\ close_reason = "none"
    /\ reply = "ok" /\ last = "Ok" /\ wire = {} /\ slots = {1}
    /\ valid = TRUE /\ trusted = TRUE /\ faults = 0

-----------------------------------------------------------------------------
(* The client *)

(* The faulty variants named Mutant... take the place of the definition that follows
   them in the checks that show a property can fail; nothing else uses them. *)
MutantRawCode(code) == code

code_to_err(code) ==
    CASE code = "Unauthorized" -> "Unauthorized"
      [] code = "BadRequest" -> "BadRequest"
      [] code = "TooMany" -> "TooManyConnections"
      [] code = "Revoked" -> "Revoked"
      [] OTHER -> "Unexpected"

(* map_close, and connection_close_error where there is a reason. *)
map_close(r) == IF r \in Codes THEN code_to_err(r) ELSE "Io"

MutantCodeUnread(r) == "Unexpected"

connection_close_error(r) == IF r = "none" THEN "Unexpected" ELSE map_close(r)

MutantLimitTerminal(e) ==
    e \in {"Tls", "TransportError", "Unauthorized", "Revoked", "BadRequest",
           "TooManyConnections"}

MutantOnlyRevoked(e) == e \in {"Tls", "TransportError", "Revoked"}

(* "Tls" is an error of setting up the endpoint, which the loop does not do again. *)
IsTerminal(e) ==
    e \in {"Tls", "TransportError", "Unauthorized", "Revoked", "BadRequest"}

MutantStillOpen == open

(* The last handle of a connection that failed is dropped, which closes it. *)
OpenAfterDrop == open \ {dial}

(* The loop dials again unless the error is terminal. *)
Fail(e) ==
    /\ last' = e
    /\ client' = IF IsTerminal(e) THEN "stopped" ELSE "idle"
    /\ open' = OpenAfterDrop
    /\ wire' = Reaching(wire, open')
                 \union {Msg("bye", c) : c \in open \ open'}
    /\ UNCHANGED <<dial, close_reason, reply, slots, valid, trusted>>

DialConnects(c) ==
    /\ client = "idle" /\ trusted /\ c # dial /\ Free(c)
    /\ dial' = c /\ client' = "open_bi"
    /\ open' = open \union {c}
    /\ close_reason' = "none" /\ reply' = "none"
    /\ UNCHANGED <<last, wire, slots, valid, trusted, faults>>

(* endpoint.connect(..)?.await? fails: by a fault with any transient error, here "Dial", or
   with a TransportError because TLS does not accept what answers. *)
DialFails ==
    /\ client = "idle"
    /\ \/ last' = "Dial" /\ Fault
       \/ last' = "TransportError" /\ ~ trusted /\ UNCHANGED faults
    /\ client' = IF IsTerminal(last') THEN "stopped" ELSE "idle"
    /\ UNCHANGED <<dial, open, close_reason, reply, wire, slots, valid, trusted>>

(* open_bi, write_all and finish: the line fits the stream's window. *)
SendLine ==
    /\ client = "open_bi" /\ close_reason = "none"
    /\ client' = "read"
    /\ wire' = wire \union {Msg("line", dial)}
    /\ UNCHANGED <<dial, open, close_reason, reply, last, slots, valid, trusted, faults>>

(* The connection goes before open_bi, or between it and write_all, whose error is
   not mapped. *)
OpenOrWriteFails ==
    /\ client = "open_bi" /\ close_reason # "none"
    /\ Fail(map_close(close_reason)) \/ Fail("Io")
    /\ UNCHANGED faults

(* Data that has arrived is read even if the connection has closed since. *)
ReadOk ==
    /\ client = "read" /\ reply = "ok"
    /\ client' = "established" /\ last' = "Ok"
    /\ UNCHANGED <<dial, open, close_reason, reply, wire, slots, valid, trusted, faults>>

(* read_to_end fails, or returns something else than OK\n: the reason is what the
   connection knows by now. *)
ReadFails ==
    /\ client = "read"
    /\ reply = "bad" \/ (reply = "none" /\ close_reason # "none")
    /\ Fail(connection_close_error(close_reason))
    /\ UNCHANGED faults

(* 750 ms for the reply, or connect_timeout for everything.  A timeout looks at what
   it guards first. *)
TimesOut ==
    /\ client \in {"open_bi", "read"} /\ reply = "none" /\ close_reason = "none"
    /\ Fail("Timeout")
    /\ Fault

(* A send finds the connection closed, and the loop starts. *)
Reconnect ==
    /\ client = "established" /\ close_reason # "none"
    /\ client' = "idle"
    /\ UNCHANGED <<dial, open, close_reason, reply, last, wire, slots, valid, trusted, faults>>

-----------------------------------------------------------------------------
(* The network *)

(* The connection ends on the client's side, which drops what is still to come. *)
Ends(reason, ws) ==
    /\ close_reason' = reason
    /\ open' = open \ {dial}
    /\ wire' = Reaching(ws, open')
    /\ UNCHANGED <<dial, client, reply, last, slots, valid, trusted>>

(* Idle timeout, reset, path failure: the client gives up the connection. *)
LoseConnection ==
    /\ dial \in open
    /\ Ends("lost", wire)
    /\ Fault

DeliverReply(k) ==
    /\ client = "read" /\ dial \in open /\ Msg(k, dial) \in wire
    /\ reply' = k
    /\ wire' = wire \ {Msg(k, dial)}
    /\ UNCHANGED <<dial, client, open, close_reason, last, slots, valid, trusted, faults>>

(* CONNECTION_CLOSE may overtake the reply. *)
DeliverClose(code) ==
    /\ dial \in open /\ CloseMsg(dial, code) \in wire
    /\ Ends(code, wire \ {CloseMsg(dial, code)})
    /\ UNCHANGED faults

-----------------------------------------------------------------------------
(* The server *)

ServerDoes(ws, ss) ==
    /\ wire' = Reaching(ws, open) /\ slots' = ss
    /\ UNCHANGED <<clientVars, trusted>>

(* A refusal is a close; a server that finishes its stream before it closes is a fault. *)
Refuse(c, code) ==
    LET closing == (wire \ {Msg("line", c)}) \union {CloseMsg(c, code)}
    IN \/ ServerDoes(closing, slots) /\ UNCHANGED faults
       \/ ServerDoes(closing \union {Msg("bad", c)}, slots) /\ Fault

Admit(c) ==
    /\ Msg("line", c) \in wire
    /\ \/ ~ valid /\ Refuse(c, "Unauthorized")
       \/ valid /\ Cardinality(slots) >= Limit /\ Refuse(c, "TooMany")
       \/ /\ valid /\ Cardinality(slots) < Limit
          /\ ServerDoes((wire \ {Msg("line", c)}) \union {Msg("ok", c)}, slots \union {c})
          /\ UNCHANGED faults
    /\ UNCHANGED valid

(* The client's close arrives: nothing of that connection is processed any more. *)
HearBye(c) ==
    /\ Msg("bye", c) \in wire
    /\ ServerDoes({m \in wire : m.conn # c}, slots \ {c})
    /\ UNCHANGED <<valid, faults>>

(* The server's own idle timeout, some time after the client has gone. *)
Expire(c) ==
    /\ c \in slots \ open
    /\ ServerDoes(wire, slots \ {c})
    /\ UNCHANGED <<valid, faults>>

(* Shutdown, overload: a close that has nothing to do with the token. *)
ServerCloses ==
    /\ dial \in open /\ \A code \in Codes : CloseMsg(dial, code) \notin wire
    /\ ServerDoes((wire \ {Msg("line", dial)}) \union {CloseMsg(dial, "Other")}, slots \ {dial})
    /\ Fault
    /\ UNCHANGED valid

Revoke ==
    /\ valid /\ valid' = FALSE
    /\ ServerDoes(wire \union {CloseMsg(c, "Revoked") : c \in slots}, {})
    /\ UNCHANGED faults

(* A certificate that is not, or no longer, one the client trusts, or somebody else's at
   the address; and its replacement. *)
CertificateChanges ==
    /\ \/ trusted /\ trusted' = FALSE /\ Fault
       \/ ~ trusted /\ trusted' = TRUE /\ UNCHANGED faults
    /\ UNCHANGED <<clientVars, wire, slots, valid>>

-----------------------------------------------------------------------------
Dial == DialFails \/ \E c \in Conns : DialConnects(c)

Handshaken == SendLine \/ OpenOrWriteFails \/ ReadOk \/ ReadFails

Client == Dial \/ Handshaken \/ TimesOut \/ Reconnect

Delivery == (\E k \in {"ok", "bad"} : DeliverReply(k)) \/ \E code \in Codes : DeliverClose(code)

Server == ServerCloses \/ Revoke \/ CertificateChanges
            \/ \E c \in Conns : Admit(c) \/ HearBye(c) \/ Expire(c)

(* The client has stopped, is up and undisturbed, or, at the bound, waits until a
   connection is forgotten. *)
Settled == client \in {"stopped", "established", "idle"} /\ UNCHANGED vars

Next == Client \/ LoseConnection \/ Delivery \/ Server \/ Settled

Spec == Init /\ [][Next]_vars

(* The loop and the handshake run, packets that are not lost arrive, and the server
   answers, and forgets connections that are gone.  No send has to come, no fault and
   no revocation. *)
FairSpec ==
    /\ Spec
    /\ WF_vars(Dial) /\ WF_vars(Handshaken) /\ WF_vars(Delivery)
    /\ \A c \in Conns : WF_vars(Admit(c)) /\ WF_vars(HearBye(c)) /\ WF_vars(Expire(c))

-----------------------------------------------------------------------------
(* Properties *)

HandshakeTypeOK ==
    /\ dial \in Conns
    /\ client \in {"idle", "open_bi", "read", "established", "stopped"}
    /\ open \subseteq Conns
    /\ close_reason \in Codes \union {"none", "lost"}
    /\ reply \in {"none", "ok", "bad"}
    /\ last \in HandshakeErrors \union {"Ok", "Dial", "TransportError"}
    /\ wire \subseteq Messages
    /\ slots \subseteq Conns
    /\ valid \in BOOLEAN /\ trusted \in BOOLEAN
    /\ faults \in 0..MaxFaults

(* The loop ends for good for one of two reasons: TLS has rejected what answers the dial,
   or the token is no longer good.  The connection it has just lost or given up, which the
   server still counts, delays a reconnect but does not end it (is_terminal; README.md:
   TooManyConnections is transient). *)
TerminalIsDeserved ==
    [][(client # "stopped" /\ client' = "stopped")
         => IF last' = "TransportError" THEN ~ trusted ELSE ~ valid]_vars

(* A handshake that fails after an authentication code has arrived is the last one of
   the loop, whatever step it was in, and whatever timeouts, replies and losses surround
   the code (handshake, connection_close_error). *)
RefusalStops ==
    [][(client \in {"open_bi", "read"} /\ client' = "idle")
         => close_reason \notin {"Unauthorized", "Revoked"}]_vars

(* A loop that has started reconnects, or ends for good: the
   connections the server still counts do not keep the client out for ever, for each
   failed one is closed or expires. *)
Recovers == client = "idle" ~> client \in {"established", "stopped"}

(* README.md: "a stale token never silently retries forever". *)
StaleTokenStops == (client = "idle" /\ ~ valid) ~> client = "stopped"
=============================================================================
