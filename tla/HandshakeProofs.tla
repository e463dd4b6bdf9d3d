-------------------------- MODULE HandshakeProofs --------------------------
(***************************************************************************)
(* The reconnect loop ends for good only for a token that is no longer     *)
(* good or a server TLS rejects, and never goes on once a handshake has    *)
(* met an authentication code: for any limit of the server, any number of  *)
(* connections and of faults, and whatever overtakes what.                 *)
(***************************************************************************)
EXTENDS Handshake, TLAPS

USE LimitAssumption, BoundsAssumption DEF Conns, Codes

(* The codes a reconnect loop does not survive. *)
Terminal == {code \in Codes : IsTerminal(code_to_err(code))}

LEMMA TerminalCodes == Terminal = {"Unauthorized", "BadRequest", "Revoked"}
  BY DEF Terminal, IsTerminal, code_to_err

(* The server sends a terminal code, and the client knows one, only once the token is
   no longer good. *)
CodesAreEarned ==
    /\ close_reason \in Terminal => ~ valid
    /\ \A m \in wire : m.kind = "close" /\ m.code \in Terminal => ~ valid

(* Of a connection whose line the client has not written the server knows nothing: it is
   not counted, and nothing but a close for reasons of the server's own is on its way. *)
Unannounced ==
    client = "open_bi" =>
       /\ dial \in Conns /\ dial \notin slots
       /\ close_reason \in {"none", "lost", "Other"}
       /\ \A m \in wire : m.conn = dial => m.kind = "close" /\ m.code = "Other"

IInv == HandshakeTypeOK /\ CodesAreEarned /\ Unannounced

-----------------------------------------------------------------------------
(* Messages *)

LEMMA MessageTypes ==
    /\ \A k \in {"line", "ok", "bad", "bye"}, c \in Conns :
          /\ Msg(k, c) \in Messages /\ Msg(k, c).conn = c
          /\ Msg(k, c).kind = k /\ Msg(k, c).kind # "close"
    /\ \A c \in Conns, code \in Codes :
          /\ CloseMsg(c, code) \in Messages /\ CloseMsg(c, code).conn = c
          /\ CloseMsg(c, code).kind = "close" /\ CloseMsg(c, code).code = code
  BY DEF Msg, CloseMsg, Messages

LEMMA ReachingSubset == \A ws, os : Reaching(ws, os) \subseteq ws
  BY DEF Reaching

(* What map_close makes of a reason is terminal only if the reason is. *)
LEMMA TerminalReasons ==
    ASSUME NEW r \in Codes \union {"none", "lost"},
           IsTerminal(map_close(r)) \/ IsTerminal(connection_close_error(r))
    PROVE  r \in Terminal
  BY DEF map_close, connection_close_error, code_to_err, IsTerminal, Terminal

LEMMA ErrorTypes ==
    ASSUME NEW r \in Codes \union {"none", "lost"}
    PROVE  map_close(r) \in HandshakeErrors /\ connection_close_error(r) \in HandshakeErrors
  BY DEF map_close, connection_close_error, code_to_err, HandshakeErrors

-----------------------------------------------------------------------------
(* The invariant *)

LEMMA InitInv == Init => IInv
  BY DEF Init, IInv, HandshakeTypeOK, CodesAreEarned, Unannounced, Messages, Terminal

(* A handshake that fails with e. *)
LEMMA InvFail ==
    ASSUME IInv, NEW e \in HandshakeErrors, Fail(e), faults' \in 0..MaxFaults,
           client \in {"open_bi", "read"}
    PROVE  IInv'
<1> USE DEF IInv, HandshakeTypeOK
<1>1. open' \subseteq open
  BY DEF Fail, OpenAfterDrop
<1>2. \A m \in wire' : m \in wire \/ (m \in Messages /\ m.kind = "bye")
  BY <1>1, MessageTypes, ReachingSubset DEF Fail
<1>3. HandshakeTypeOK'
  BY <1>1, <1>2 DEF Fail
<1>4. CodesAreEarned'
  BY <1>2 DEF Fail, CodesAreEarned
<1>5. Unannounced'
  BY DEF Fail, Unannounced
<1> QED
  BY <1>3, <1>4, <1>5

LEMMA InvClient == ASSUME IInv, Client PROVE IInv'
<1> USE DEF IInv, HandshakeTypeOK
<1>1. ASSUME NEW c \in Conns, DialConnects(c) PROVE IInv'
  <2> USE <1>1 DEF DialConnects
  <2>1. HandshakeTypeOK' /\ CodesAreEarned'
    BY DEF CodesAreEarned, Terminal
  <2>2. Unannounced'
    BY DEF Unannounced, Free
  <2> QED
    BY <2>1, <2>2
<1>2. CASE DialFails
  BY <1>2 DEF DialFails, Fault, CodesAreEarned, Unannounced
<1>3. CASE SendLine
  <2> USE <1>3 DEF SendLine
  <2>1. dial \in Conns /\ Msg("line", dial) \in Messages /\ Msg("line", dial).kind # "close"
    BY MessageTypes DEF Unannounced
  <2> QED
    BY <2>1 DEF CodesAreEarned, Unannounced
<1>4. CASE OpenOrWriteFails
  <2>1. PICK e \in {map_close(close_reason), "Io"} : Fail(e)
    BY <1>4 DEF OpenOrWriteFails
  <2>2. e \in HandshakeErrors
    BY ErrorTypes DEF HandshakeErrors
  <2> QED
    BY <1>4, <2>1, <2>2, InvFail DEF OpenOrWriteFails
<1>5. CASE ReadOk
  BY <1>5 DEF ReadOk, CodesAreEarned, Unannounced
<1>6. CASE ReadFails
  BY <1>6, ErrorTypes, InvFail DEF ReadFails
<1>7. CASE TimesOut
  BY <1>7, InvFail DEF TimesOut, Fault, HandshakeErrors
<1>8. CASE Reconnect
  BY <1>8 DEF Reconnect, CodesAreEarned, Unannounced
<1> QED
  BY <1>1, <1>2, <1>3, <1>4, <1>5, <1>6, <1>7, <1>8 DEF Client, Dial, Handshaken

(* The connection ends on the client's side, lost or closed with a code. *)
LEMMA InvEnds ==
    ASSUME IInv, NEW r \in Codes \union {"lost"}, NEW ws, ws \subseteq wire, Ends(r, ws),
           faults' \in 0..MaxFaults, r \in Terminal => ~ valid,
           client = "open_bi" => r \in {"lost", "Other"}
    PROVE  IInv'
<1> USE DEF IInv, HandshakeTypeOK, Ends
<1>1. wire' \subseteq wire
  BY ReachingSubset
<1>2. HandshakeTypeOK' /\ CodesAreEarned'
  BY <1>1 DEF CodesAreEarned
<1>3. Unannounced'
  BY <1>1 DEF Unannounced
<1> QED
  BY <1>2, <1>3

LEMMA InvNetwork == ASSUME IInv, LoseConnection \/ Delivery PROVE IInv'
<1> USE DEF IInv, HandshakeTypeOK
<1>1. CASE LoseConnection
  BY <1>1, InvEnds DEF LoseConnection, Fault, Terminal
<1>2. ASSUME NEW k \in {"ok", "bad"}, DeliverReply(k) PROVE IInv'
  BY <1>2 DEF DeliverReply, CodesAreEarned, Unannounced
<1>3. ASSUME NEW code \in Codes, DeliverClose(code) PROVE IInv'
  <2> USE <1>3 DEF DeliverClose
  <2> DEFINE m == CloseMsg(dial, code)
  <2>1. m \in wire /\ m.conn = dial /\ m.kind = "close" /\ m.code = code
    BY MessageTypes
  <2>2. code \in Terminal => ~ valid
    BY <2>1 DEF CodesAreEarned
  <2>3. client = "open_bi" => code = "Other"
    BY <2>1 DEF Unannounced
  <2> QED
    BY <2>2, <2>3, InvEnds
<1> QED
  BY <1>1, <1>2, <1>3 DEF Delivery

(* The server takes messages and sends others, about connections it knows. *)
LEMMA InvServerDoes ==
    ASSUME IInv, NEW ws, NEW ss \in SUBSET Conns, ServerDoes(ws, ss),
           faults' \in 0..MaxFaults, valid' \in BOOLEAN, valid' => valid,
           \A m \in ws \ wire :
              /\ m \in Messages
              /\ m.kind = "close" /\ m.code \in Terminal => ~ valid',
           client = "open_bi" =>
              /\ dial \notin ss
              /\ \A m \in ws \ wire : m.conn = dial => m.kind = "close" /\ m.code = "Other"
    PROVE  IInv'
<1> USE DEF IInv, HandshakeTypeOK, ServerDoes, clientVars
<1>1. wire' \subseteq ws
  BY ReachingSubset
<1>2. HandshakeTypeOK'
  BY <1>1
<1>3. CodesAreEarned'
  BY <1>1 DEF CodesAreEarned
<1>4. Unannounced'
  BY <1>1 DEF Unannounced
<1> QED
  BY <1>2, <1>3, <1>4

LEMMA InvAdmit == ASSUME IInv, NEW c \in Conns, Admit(c) PROVE IInv'
<1> USE DEF IInv, HandshakeTypeOK, Admit
<1>1. valid' = valid /\ (client = "open_bi" => c # dial)
  BY MessageTypes DEF Unannounced
<1>2. ASSUME NEW code \in {"Unauthorized", "TooMany"}, Refuse(c, code),
             code = "Unauthorized" => ~ valid
      PROVE  IInv'
  <2> DEFINE closing == (wire \ {Msg("line", c)}) \union {CloseMsg(c, code)}
  <2>1. PICK ws \in {closing, closing \union {Msg("bad", c)}} :
           ServerDoes(ws, slots) /\ faults' \in 0..MaxFaults
    BY <1>2 DEF Refuse, Fault
  <2>2. \A m \in ws \ wire : m \in Messages /\ m.conn = c
                               /\ (m.kind = "close" => m.code = code)
    BY MessageTypes
  <2>3. code \in Terminal => ~ valid
    BY <1>2, TerminalCodes
  <2>4. client = "open_bi" => dial \notin slots
    BY DEF Unannounced
  <2>5. \A m \in ws \ wire : /\ m \in Messages
                             /\ m.kind = "close" /\ m.code \in Terminal => ~ valid'
    BY <1>1, <2>2, <2>3
  <2>6. client = "open_bi" =>
           /\ dial \notin slots
           /\ \A m \in ws \ wire : m.conn = dial => m.kind = "close" /\ m.code = "Other"
    BY <1>1, <2>2, <2>4
  <2> QED
    BY <1>1, <2>1, <2>5, <2>6, InvServerDoes
<1>3. ASSUME ServerDoes((wire \ {Msg("line", c)}) \union {Msg("ok", c)}, slots \union {c}),
             UNCHANGED faults
      PROVE  IInv'
  <2> DEFINE ws == (wire \ {Msg("line", c)}) \union {Msg("ok", c)}
  <2>1. \A m \in ws \ wire : m \in Messages /\ m.conn = c /\ m.kind # "close"
    BY MessageTypes
  <2>2. client = "open_bi" => dial \notin slots \union {c}
    BY <1>1 DEF Unannounced
  <2> HIDE DEF ws
  <2>3. slots \union {c} \in SUBSET Conns /\ ServerDoes(ws, slots \union {c})
    BY <1>3 DEF ws
  <2> QED
    BY <1>1, <1>3, <2>1, <2>2, <2>3, InvServerDoes
<1> QED
  BY <1>2, <1>3

LEMMA InvServer == ASSUME IInv, Server PROVE IInv'
<1> USE DEF IInv, HandshakeTypeOK
<1>1. CASE ServerCloses
  <2> USE <1>1 DEF ServerCloses
  <2> DEFINE ws == (wire \ {Msg("line", dial)}) \union {CloseMsg(dial, "Other")}
  <2>1. \A m \in ws \ wire : m \in Messages /\ m.kind = "close" /\ m.code = "Other"
    BY MessageTypes
  <2>2. client = "open_bi" => dial \notin slots \ {dial}
    OBVIOUS
  <2>3. "Other" \notin Terminal
    BY TerminalCodes
  <2> HIDE DEF ws
  <2>4. slots \ {dial} \in SUBSET Conns /\ ServerDoes(ws, slots \ {dial})
    BY DEF ws
  <2>5. faults' \in 0..MaxFaults
    BY DEF Fault
  <2> QED
    BY <2>1, <2>2, <2>3, <2>4, <2>5, InvServerDoes
<1>2. CASE Revoke
  <2> USE <1>2 DEF Revoke
  <2> DEFINE ws == wire \union {CloseMsg(c, "Revoked") : c \in slots}
  <2>1. \A m \in ws \ wire : m \in Messages /\ m.conn \in slots
    BY MessageTypes
  <2>2. client = "open_bi" => dial \notin slots
    BY DEF Unannounced
  <2> HIDE DEF ws
  <2>3. ServerDoes(ws, {})
    BY DEF ws
  <2> QED
    BY <2>1, <2>2, <2>3, InvServerDoes
<1>3. ASSUME NEW c \in Conns, HearBye(c) \/ Expire(c) PROVE IInv'
  <2>1. PICK ws \in SUBSET wire : ServerDoes(ws, slots \ {c}) /\ UNCHANGED <<valid, faults>>
    BY <1>3 DEF HearBye, Expire
  <2>2. client = "open_bi" => dial \notin slots \ {c}
    BY DEF Unannounced
  <2>3. slots \ {c} \in SUBSET Conns /\ ws \ wire = {}
    OBVIOUS
  <2> QED
    BY <2>1, <2>2, <2>3, InvServerDoes
<1>4. CASE CertificateChanges
  <2>1. UNCHANGED <<clientVars, wire, slots, valid>> /\ trusted' \in BOOLEAN
    BY <1>4 DEF CertificateChanges
  <2>2. faults' \in 0..MaxFaults
    BY <1>4 DEF CertificateChanges, Fault
  <2>3. HandshakeTypeOK'
    BY <2>1, <2>2 DEF clientVars
  <2> QED
    BY <2>1, <2>3 DEF clientVars, CodesAreEarned, Unannounced
<1> QED
  BY <1>1, <1>2, <1>3, <1>4, InvAdmit DEF Server

LEMMA InvStep == IInv /\ [Next]_vars => IInv'
<1> SUFFICES ASSUME IInv, [Next]_vars PROVE IInv'
  OBVIOUS
<1>1. CASE UNCHANGED vars
  BY <1>1 DEF vars, clientVars, IInv, HandshakeTypeOK, CodesAreEarned, Unannounced
<1> QED
  BY <1>1, InvClient, InvNetwork, InvServer DEF Next, Settled

(* What the server answers, what the network holds and what the client knows of a token
   agree in every reachable state. *)
THEOREM Invariance == Spec => []IInv
  BY InitInv, InvStep, PTL DEF Spec

(* Every variable keeps its type: Spec => []HandshakeTypeOK. *)
THEOREM HandshakeTyping == Spec => []HandshakeTypeOK
<1>1. IInv => HandshakeTypeOK
  BY DEF IInv
<1> QED
  BY <1>1, Invariance, PTL

-----------------------------------------------------------------------------
(* The action properties *)

(* A failed handshake stops the loop for a reason the server has earned, a failed dial for
   a TransportError only. *)
LEMMA StopIsDeserved ==
    ASSUME IInv, [Next]_vars, client # "stopped", client' = "stopped"
    PROVE  IF last' = "TransportError" THEN ~ trusted ELSE ~ valid
<1> USE DEF IInv, HandshakeTypeOK
<1>1. ASSUME NEW e \in HandshakeErrors, Fail(e), IsTerminal(e) => ~ valid
      PROVE  IF last' = "TransportError" THEN ~ trusted ELSE ~ valid
  BY <1>1 DEF Fail, HandshakeErrors
<1>2. CASE OpenOrWriteFails
  <2>1. PICK e \in {map_close(close_reason), "Io"} : Fail(e)
    BY <1>2 DEF OpenOrWriteFails
  <2>2. e \in HandshakeErrors /\ (IsTerminal(e) => ~ valid)
    BY ErrorTypes, TerminalReasons DEF CodesAreEarned, HandshakeErrors, IsTerminal
  <2> QED
    BY <1>1, <2>1, <2>2
<1>3. CASE ReadFails
  BY <1>1, <1>3, ErrorTypes, TerminalReasons DEF ReadFails, CodesAreEarned
<1>4. CASE TimesOut
  BY <1>1, <1>4 DEF TimesOut, HandshakeErrors, IsTerminal
<1>5. CASE DialFails
  BY <1>5 DEF DialFails, IsTerminal
<1>6. CASE (\E c \in Conns : DialConnects(c)) \/ SendLine \/ ReadOk \/ Reconnect
  BY <1>6 DEF DialConnects, SendLine, ReadOk, Reconnect
<1>7. CASE LoseConnection \/ Delivery
  BY <1>7 DEF LoseConnection, Delivery, DeliverReply, DeliverClose, Ends
<1>8. CASE Server
  <2>1. UNCHANGED clientVars
    BY <1>8 DEF Server, ServerCloses, Revoke, Admit, Refuse, HearBye, Expire, ServerDoes,
       CertificateChanges
  <2> QED
    BY <2>1 DEF clientVars
<1>9. CASE UNCHANGED vars
  BY <1>9 DEF vars, clientVars
<1> QED
  BY <1>2, <1>3, <1>4, <1>5, <1>6, <1>7, <1>8, <1>9
  DEF Next, Client, Dial, Handshaken, Settled

(* The loop ends for good only because TLS has rejected what answers, or because its token
   is no longer good: whatever the limit of the server, no count of connections that lags,
   no fault and no reply that comes early ends it. *)
THEOREM StopsOnlyForCause == Spec => TerminalIsDeserved
<1>1. IInv /\ [Next]_vars =>
        [(client # "stopped" /\ client' = "stopped")
           => IF last' = "TransportError" THEN ~ trusted ELSE ~ valid]_vars
  BY StopIsDeserved
<1> QED
  BY <1>1, Invariance, PTL DEF Spec, TerminalIsDeserved

(* A handshake goes back to the loop in three ways; the one that forgets the reason, the
   write that fails, happens before the server can have looked at the token. *)
LEMMA RefusalEnds ==
    ASSUME IInv, [Next]_vars, client \in {"open_bi", "read"}, client' = "idle"
    PROVE  close_reason \notin {"Unauthorized", "Revoked"}
<1> USE DEF IInv, HandshakeTypeOK
<1>1. CASE OpenOrWriteFails
  BY <1>1 DEF OpenOrWriteFails, Unannounced
<1>2. CASE ReadFails
  BY <1>2 DEF ReadFails, Fail, connection_close_error, map_close, code_to_err, IsTerminal
<1>3. CASE TimesOut
  BY <1>3 DEF TimesOut
<1>4. CASE Dial \/ SendLine \/ ReadOk \/ Reconnect
  BY <1>4 DEF Dial, DialFails, DialConnects, SendLine, ReadOk, Reconnect
<1>5. CASE LoseConnection \/ Delivery
  BY <1>5 DEF LoseConnection, Delivery, DeliverReply, DeliverClose, Ends
<1>6. CASE Server
  <2>1. UNCHANGED clientVars
    BY <1>6 DEF Server, ServerCloses, Revoke, Admit, Refuse, HearBye, Expire, ServerDoes,
       CertificateChanges
  <2> QED
    BY <2>1 DEF clientVars
<1>7. CASE UNCHANGED vars
  BY <1>7 DEF vars, clientVars
<1> QED
  BY <1>1, <1>2, <1>3, <1>4, <1>5, <1>6, <1>7 DEF Next, Client, Handshaken, Settled

(* Once the authentication code of a refusal has arrived, the handshake it meets is the
   last one of the loop. *)
THEOREM RefusalIsFinal == Spec => RefusalStops
<1>1. IInv /\ [Next]_vars =>
        [(client \in {"open_bi", "read"} /\ client' = "idle")
           => close_reason \notin {"Unauthorized", "Revoked"}]_vars
  BY RefusalEnds
<1> QED
  BY <1>1, Invariance, PTL DEF Spec, RefusalStops
=============================================================================
