---------------------------- MODULE ConnectProofs ----------------------------
(***************************************************************************)
(* The two parsers of a host:port and lookup_host agree on every text, and *)
(* connect tries the addresses it gets, however many and however they      *)
(* fail.                                                                   *)
(***************************************************************************)
EXTENDS Connect, SequenceTheorems, WellFoundedInduction, TLAPS

-----------------------------------------------------------------------------
(* Where a character is in a text *)

LEMMA LeastNatural ==
    ASSUME NEW S \in SUBSET Nat, S # {}
    PROVE  \E x \in S : \A y \in S : x <= y
<1>1. PICK x \in S : \A y \in S : ~ (<<y, x>> \in OpToRel(<, Nat))
  BY NatLessThanWellFounded, WFMin
<1>2. \A y \in S : ~ (y < x)
  BY <1>1 DEF OpToRel
<1> QED
  BY <1>2

LEMMA GreatestBelow ==
    ASSUME NEW n \in Nat, NEW S \in SUBSET (1..n), S # {}
    PROVE  \E x \in S : \A y \in S : x >= y
<1> DEFINE D == {n - i : i \in S}
<1>1. D \in SUBSET Nat /\ D # {}
  <2>1. \A i \in S : n - i \in Nat
    OBVIOUS
  <2> QED
    BY <2>1
<1>2. PICK d \in D : \A e \in D : d <= e
  BY <1>1, LeastNatural
<1>3. PICK x \in S : d = n - x
  BY <1>2
<1>4. \A y \in S : n - x <= n - y /\ x \in Nat /\ y \in Nat
  BY <1>2, <1>3
<1> QED
  BY <1>4

LEMMA FirstOfIs ==
    ASSUME NEW text \in Seq(STRING), NEW c, NEW k \in 1..Len(text), text[k] = c,
           \A i \in 1..(k - 1) : text[i] # c
    PROVE  FirstOf(text, c) = k
<1> DEFINE I == {i \in 1..Len(text) : text[i] = c}
<1>1. k \in I /\ \A i \in I : k <= i
  OBVIOUS
<1>2. Min(I) = k
  BY <1>1 DEF Min
<1> QED
  BY <1>1, <1>2 DEF FirstOf, SelectInSeq

LEMMA FirstOfType ==
    ASSUME NEW text \in Seq(STRING), NEW c PROVE FirstOf(text, c) \in 0..Len(text)
<1> DEFINE I == {i \in 1..Len(text) : text[i] = c}
<1>1. CASE I # {}
  <2>1. I \in SUBSET Nat
    OBVIOUS
  <2>2. Min(I) \in I
    BY <1>1, <2>1, LeastNatural DEF Min
  <2> QED
    BY <1>1, <2>2 DEF FirstOf, SelectInSeq
<1>2. CASE I = {}
  BY <1>2 DEF FirstOf, SelectInSeq
<1> QED
  BY <1>1, <1>2

LEMMA LastOfType ==
    ASSUME NEW text \in Seq(STRING), NEW c
    PROVE  /\ LastOf(text, c) \in 0..Len(text)
           /\ LastOf(text, c) # 0 => text[LastOf(text, c)] = c
<1> DEFINE I == {i \in 1..Len(text) : text[i] = c}
<1>1. CASE I # {}
  <2>1. I \in SUBSET (1..Len(text)) /\ Len(text) \in Nat
    OBVIOUS
  <2>2. Max(I) \in I
    BY <1>1, <2>1, GreatestBelow DEF Max
  <2> QED
    BY <1>1, <2>2 DEF LastOf, SelectLastInSeq
<1>2. CASE I = {}
  BY <1>2 DEF LastOf, SelectLastInSeq
<1> QED
  BY <1>1, <1>2

LEMMA Part ==
    ASSUME NEW text \in Seq(STRING), NEW m \in 1..(Len(text) + 1), NEW n \in 0..Len(text)
    PROVE  /\ SubSeq(text, m, n) \in Seq(STRING)
           /\ Len(SubSeq(text, m, n)) = IF m <= n THEN n - m + 1 ELSE 0
           /\ Len(SubSeq(text, m, n)) <= Len(text)
           /\ \A i \in 1..(n - m + 1) : SubSeq(text, m, n)[i] = text[m + i - 1]
<1>1. m \in Int /\ n \in Int /\ \A i \in m..n : text[i] \in STRING
  OBVIOUS
<1>2. /\ SubSeq(text, m, n) \in Seq(STRING)
      /\ Len(SubSeq(text, m, n)) = IF m <= n THEN n - m + 1 ELSE 0
      /\ \A i \in 1..(n - m + 1) : SubSeq(text, m, n)[i] = text[m + i - 1]
  BY <1>1, SubSeqProperties
<1>3. Len(text) \in Nat
  OBVIOUS
<1> QED
  BY <1>2, <1>3

-----------------------------------------------------------------------------
(* The parsers *)

(* What passes split_host_port has a host, and connect finds the same one. *)
LEMMA SplitsAlike ==
    ASSUME NEW text, split_host_port(text).ok
    PROVE  connect_host(text) = split_host_port(text) /\ split_host_port(text).host # <<>>
BY DEF split_host_port, connect_host, Checked, Ok, Err

(* lookup_host resolves the text before the last colon or, for a V6 literal, what is
   between the brackets; a bracket that connect takes for the closing one earlier on
   cannot be part of a literal, nor of a name. *)
LEMMA LooksUpTheSame ==
    ASSUME NEW text \in Seq(STRING), connect_host(text).ok
    PROVE  lookup_host(text) \subseteq {connect_host(text).host}
<1> DEFINE close == FirstOf(text, "]")
           colon == LastOf(text, ":")
           host == Before(text, colon)
           inner == SubSeq(host, 2, Len(host) - 1)
<1>1. /\ colon \in 0..Len(text) /\ close \in 0..Len(text) /\ Len(text) \in Nat
      /\ colon # 0 => text[colon] = ":"
  <2>1. Len(text) \in Nat
    OBVIOUS
  <2> QED
    BY <2>1, FirstOfType, LastOfType
<1>2. ASSUME colon = 0 PROVE lookup_host(text) = {}
  <2>1. host = <<>>
    BY <1>2, SubSeqEmpty DEF Before
  <2> HIDE DEF colon, host
  <2>2. ~ Bracketed(host) /\ ~ IsV6(host) /\ host \notin Names
    <3>1. DOMAIN host = {}
      BY <2>1
    <3> QED
      BY <2>1, <3>1, NamesAssumption DEF Bracketed, IsV6
  <2> QED
    BY <1>2, <2>2 DEF lookup_host, colon, host
<1>3. ASSUME colon # 0 PROVE lookup_host(text) \subseteq {connect_host(text).host}
  <2>1. colon \in 1..Len(text) /\ colon - 1 \in 0..Len(text)
    BY <1>1, <1>3
  <2>2. /\ host \in Seq(STRING) /\ Len(host) = colon - 1
        /\ \A i \in 1..(colon - 1) : host[i] = text[i]
    BY <2>1, Part DEF Before
  <2>3. text # <<>> /\ Head(text) = text[1]
    BY <2>1
  <2>4. Bracketed(host) <=> (colon > 1 /\ text[1] = "[")
    BY <2>1, <2>2 DEF Bracketed
  <2>5. Bracketed(text) <=> text[1] = "["
    BY <2>3 DEF Bracketed
  <2> HIDE DEF colon, close, host
  <2>6. ASSUME Bracketed(host), host[Len(host)] = "]", IsV6(inner)
        PROVE  connect_host(text).host = inner
    <3>1. colon >= 3 /\ text[colon - 1] = "]" /\ text[1] = "["
      BY <2>1, <2>2, <2>4, <2>6
    <3>2. inner = SubSeq(text, 2, colon - 2)
      <4>1. 1 \in 1..Len(text) /\ colon - 1 \in 1..Len(text)
        BY <2>1, <3>1
      <4>2. 2 \in 1..((colon - 1) - 1 + 1) /\ colon - 2 \in 1..((colon - 1) - 1 + 1)
        BY <2>1, <3>1
      <4>3. SubSeq(SubSeq(text, 1, colon - 1), 2, colon - 2)
              = SubSeq(text, 1 + 2 - 1, 1 + (colon - 2) - 1)
        BY <4>1, <4>2, SubSeqOfSubSeq
      <4>4. Len(host) - 1 = colon - 2 /\ 1 + 2 - 1 = 2 /\ 1 + (colon - 2) - 1 = colon - 2
        BY <2>1, <2>2
      <4> QED
        BY <4>3, <4>4 DEF host, Before
    <3>3. \A i \in 2..(colon - 2) : text[i] # "]"
      <4>1. 2 \in 1..(Len(text) + 1) /\ colon - 2 \in 0..Len(text)
        BY <2>1, <3>1
      <4>2. /\ inner \in Seq(STRING)
            /\ Len(inner) = IF 2 <= colon - 2 THEN (colon - 2) - 2 + 1 ELSE 0
            /\ \A i \in 1..((colon - 2) - 2 + 1) : inner[i] = text[2 + i - 1]
        <5> HIDE DEF inner
        <5> QED
          BY <3>2, <4>1, Part
      <4>3. \A i \in DOMAIN inner : inner[i] # "]"
        BY <2>6 DEF IsV6, Digits
      <4> SUFFICES ASSUME NEW i \in 2..(colon - 2) PROVE text[i] # "]"
        OBVIOUS
      <4>4. i - 1 \in 1..((colon - 2) - 2 + 1) /\ 2 + (i - 1) - 1 = i
        BY <2>1
      <4>5. DOMAIN inner = 1..Len(inner) /\ Len(inner) = (colon - 2) - 2 + 1
        BY <2>1, <4>2
      <4> QED
        BY <4>2, <4>3, <4>4, <4>5
    <3>4. close = colon - 1
      <4>1. \A i \in 1..((colon - 1) - 1) : text[i] # "]"
        BY <2>1, <3>1, <3>3
      <4>2. colon - 1 \in 1..Len(text)
        BY <2>1, <3>1
      <4> QED
        BY <3>1, <4>1, <4>2, FirstOfIs DEF close
    <3>5. connect_host(text).host = SubSeq(text, 2, close - 1)
      BY <2>1, <2>5, <3>1, <3>4 DEF connect_host, Ok, close
    <3> QED
      BY <2>1, <3>2, <3>4, <3>5
  <2>7. ASSUME IsV6(host) \/ host \in Names
        PROVE  connect_host(text).host = host
    <3>1. \A i \in DOMAIN host : host[i] # "["
      BY <2>7, NamesAssumption DEF IsV6, Digits
    <3>2. ~ Bracketed(host)
      BY <2>2, <3>1 DEF Bracketed
    <3>3. CASE ~ Bracketed(text)
      BY <1>3, <3>3 DEF connect_host, Ok, Err, host, colon
    <3>4. ASSUME Bracketed(text) PROVE FALSE
      <4>1. colon = 1 /\ text[1] = "["
        BY <2>1, <2>4, <2>5, <3>2, <3>4
      <4> QED
        BY <1>1, <4>1
    <3> QED
      BY <3>3, <3>4
  <2> QED
    BY <2>6, <2>7 DEF lookup_host, host, colon
<1> QED
  BY <1>2, <1>3

(* The name is part of the text. *)
LEMMA HostIsShorter ==
    ASSUME NEW text \in Seq(STRING), connect_host(text).ok
    PROVE  Len(connect_host(text).host) <= Len(text)
<1> DEFINE close == FirstOf(text, "]")
           colon == LastOf(text, ":")
<1>1. colon \in 0..Len(text) /\ close \in 0..Len(text) /\ Len(text) \in Nat
  <2>1. Len(text) \in Nat
    OBVIOUS
  <2> QED
    BY <2>1, FirstOfType, LastOfType
<1>2. CASE Bracketed(text)
  <2>1. close # 0 /\ connect_host(text).host = SubSeq(text, 2, close - 1)
    BY <1>2 DEF connect_host, Ok, Err
  <2>2. 2 \in 1..(Len(text) + 1) /\ close - 1 \in 0..Len(text)
    BY <1>1, <2>1
  <2> QED
    BY <2>1, <2>2, Part
<1>3. CASE ~ Bracketed(text)
  <2>1. colon # 0 /\ connect_host(text).host = SubSeq(text, 1, colon - 1)
    BY <1>3 DEF connect_host, Ok, Err, Before
  <2>2. 1 \in 1..(Len(text) + 1) /\ colon - 1 \in 0..Len(text)
    BY <1>1, <2>1
  <2> QED
    BY <2>1, <2>2, Part
<1> QED
  BY <1>2, <1>3

-----------------------------------------------------------------------------
(* connect *)

USE TextsAssumption, MaxAddrsAssumption, DialErrorsAssumption

(* The addresses are tried from the first on, and each before the one at hand has left an
   error: an address is being tried, or there has been no lookup, or the last one failed. *)
TriesInOrder ==
    /\ phase \in {"idle", "lookup"} => count = 0 /\ next = 0 /\ offered = {} /\ errors = <<>>
    /\ phase \in {"dialing", "connected"} => next \in 1..count /\ Len(errors) = next - 1

(* The name is what connect takes from the text, once it has been split. *)
NameIsSplit ==
    /\ addr \in Texts
    /\ server_name = <<>> \/ (connect_host(addr).ok /\ server_name = connect_host(addr).host)
    /\ phase = "lookup" => connect_host(addr).ok /\ server_name = connect_host(addr).host

IInv == /\ ConnectTypeOK /\ TriesInOrder /\ NameIsSplit
        /\ EveryAddressTried /\ VerifiesResolvedName

LEMMA InvInit == Init => IInv
BY DEF Init, IInv, ConnectTypeOK, TriesInOrder, NameIsSplit, EveryAddressTried,
   VerifiesResolvedName

LEMMA InvStep == IInv /\ [Next]_vars => IInv'
<1> SUFFICES ASSUME IInv, [Next]_vars PROVE IInv'
  OBVIOUS
<1> USE DEF IInv, given
<1>1. addr \in Seq(STRING) /\ Len(addr) \in Nat
  BY DEF NameIsSplit
<1>2. CASE Begin
  <2>1. Len(server_name') <= Len(addr')
    BY <1>1, <1>2, HostIsShorter DEF Begin
  <2>2. ConnectTypeOK'
    BY <1>2, <2>1 DEF Begin, ConnectTypeOK
  <2> QED
    BY <1>2, <2>2 DEF Begin, TriesInOrder, NameIsSplit, EveryAddressTried, VerifiesResolvedName
<1>3. ASSUME NEW e, FailBeforeDial(e), phase \in {"idle", "lookup"}, e \in {"Config", "Resolve"}
      PROVE  IInv'
  BY <1>3 DEF FailBeforeDial, ConnectTypeOK, TriesInOrder, NameIsSplit, EveryAddressTried,
     VerifiesResolvedName
<1>4. ASSUME NEW n \in 1..MaxAddrs, Resolve(n) PROVE IInv'
  <2>1. VerifiesResolvedName'
    <3>1. lookup_host(addr) \subseteq {server_name} /\ lookup_host(addr) # {}
      BY <1>1, <1>4, LooksUpTheSame DEF Resolve, NameIsSplit
    <3> QED
      BY <1>4, <3>1 DEF Resolve, VerifiesResolvedName
  <2>2. ConnectTypeOK' /\ TriesInOrder' /\ NameIsSplit' /\ EveryAddressTried'
    BY <1>4 DEF Resolve, ConnectTypeOK, TriesInOrder, NameIsSplit, EveryAddressTried
  <2> QED
    BY <2>1, <2>2
<1>5. CASE AddrConnects
  BY <1>5 DEF AddrConnects, ConnectTypeOK, TriesInOrder, NameIsSplit, EveryAddressTried,
     VerifiesResolvedName
<1>6. ASSUME NEW e \in DialErrors, AddrFails(e) PROVE IInv'
  <2>1. next \in 1..count /\ count \in Nat /\ next \in Nat /\ offered' \subseteq 1..next
    BY <1>6 DEF AddrFails, TriesInOrder, ConnectTypeOK, EveryAddressTried
  <2>2. next' \in 1..count /\ next <= next'
    BY <1>6, <2>1 DEF AddrFails, MoreAddrs
  <2>3. ConnectTypeOK'
    <3>1. last_err' \in ConnectErrors /\ errors' \in Seq(ConnectErrors)
      BY <1>6, AppendProperties DEF AddrFails, LastErr, ConnectTypeOK
    <3>2. phase' \in {"dialing", "failed"}
      BY <1>6 DEF AddrFails
    <3>3. offered' \subseteq 1..count
      BY <2>1
    <3>4. UNCHANGED <<settings, addr, server_name, count>> /\ next' \in 0..count
      BY <1>6, <2>1, <2>2 DEF AddrFails
    <3> QED
      BY <3>1, <3>2, <3>3, <3>4 DEF ConnectTypeOK
  <2>4. errors \in Seq(ConnectErrors) /\ Len(errors) = next - 1
    BY <1>6 DEF AddrFails, TriesInOrder, ConnectTypeOK
  <2>5. Len(errors') = next /\ errors'[next] = e
    <3>1. e \in ConnectErrors
      OBVIOUS
    <3> QED
      BY <1>6, <2>1, <2>4, <3>1, AppendProperties DEF AddrFails
  <2>6. TriesInOrder'
    <3>1. phase' = "dialing" => next' = next + 1
      BY <1>6 DEF AddrFails
    <3>2. phase' \in {"dialing", "failed"}
      BY <1>6 DEF AddrFails
    <3>3. phase' = "dialing" => Len(errors') = next' - 1
      BY <2>1, <2>5, <3>1
    <3>4. phase' = "dialing" => next' \in 1..count'
      BY <1>6, <2>2 DEF AddrFails
    <3> QED
      BY <3>2, <3>3, <3>4 DEF TriesInOrder
  <2>7. EveryAddressTried'
    <3>1. phase' = "failed" => Len(errors') = count' /\ last_err' = errors'[count']
      BY <1>6, <2>1, <2>5 DEF AddrFails, MoreAddrs, LastErr
    <3>2. offered' \subseteq 1..next' /\ phase' # "connected"
      BY <1>6, <2>1, <2>2 DEF AddrFails
    <3> QED
      BY <3>1, <3>2 DEF EveryAddressTried
  <2>8. NameIsSplit' /\ VerifiesResolvedName'
    BY <1>6 DEF AddrFails, NameIsSplit, VerifiesResolvedName
  <2> QED
    BY <2>3, <2>6, <2>7, <2>8
<1>7. CASE Drop
  <2>1. offered' \subseteq 1..next /\ offered' \subseteq 1..count
    <3>1. next \in 0..count /\ count \in Nat
      BY DEF ConnectTypeOK
    <3>2. offered \subseteq 1..next
      BY DEF EveryAddressTried
    <3>3. 1..next \subseteq 1..count
      BY <3>1
    <3>4. offered' = offered \/ (offered' = offered \union {next} /\ next \in 1..next)
      <4>1. phase = "dialing" => next \in 1..next
        BY <3>1 DEF TriesInOrder
      <4> QED
        BY <1>7, <4>1 DEF Drop
    <3>5. offered' \subseteq 1..next
      BY <3>2, <3>4
    <3> QED
      BY <3>3, <3>5
  <2>2. ConnectTypeOK'
    BY <1>7, <2>1 DEF Drop, ConnectTypeOK
  <2>3. phase' = "dropped" /\ TriesInOrder'
    BY <1>7 DEF Drop, TriesInOrder
  <2>4. EveryAddressTried'
    BY <1>7, <2>1, <2>3 DEF Drop, EveryAddressTried
  <2> QED
    BY <1>7, <2>2, <2>3, <2>4 DEF Drop, NameIsSplit, VerifiesResolvedName
<1>8. CASE UNCHANGED vars
  BY <1>8 DEF vars, ConnectTypeOK, TriesInOrder, NameIsSplit, EveryAddressTried,
     VerifiesResolvedName
<1> QED
  BY <1>2, <1>3, <1>4, <1>5, <1>6, <1>7, <1>8
  DEF Next, Step, RejectConfig, RejectAddress, LookupEnds, LookupFails, DialEnds, Returned

(* The order of the addresses, and the name taken from the text, hold in every reachable
   state. *)
THEOREM Invariance == Spec => []IInv
BY InvInit, InvStep, PTL DEF Spec

(* Every variable of Connect keeps its type, whatever text connect is given. *)
THEOREM ConnectTyping == Spec => []ConnectTypeOK
<1>1. IInv => ConnectTypeOK
  BY DEF IInv
<1> QED
  BY <1>1, Invariance, PTL

(* Whatever number of addresses a name has, connect gives up when every one of them has
   failed, with the error of the last, connects after the ones before have failed, and has
   shown the token to none beyond the one it got to. *)
THEOREM TriesEveryAddress == Spec => []EveryAddressTried
<1>1. IInv => EveryAddressTried
  BY DEF IInv
<1> QED
  BY <1>1, Invariance, PTL

(* For every text, the certificate is verified for the name that was resolved. *)
THEOREM VerifiedNameIsResolved == Spec => []VerifiesResolvedName
<1>1. IInv => VerifiesResolvedName
  BY DEF IInv
<1> QED
  BY <1>1, Invariance, PTL

(* Every text split_host_port accepts, of whatever length, connect accepts too, and all
   three parsers find the same host in it. *)
THEOREM ParsersAlike == Spec => []ParsersAgree
<1>1. IInv => ParsersAgree
  <2> SUFFICES ASSUME IInv, split_host_port(addr).ok
               PROVE  /\ connect_host(addr) = split_host_port(addr)
                      /\ lookup_host(addr) \subseteq {split_host_port(addr).host}
    BY DEF ParsersAgree
  <2>1. addr \in Seq(STRING)
    BY DEF IInv, NameIsSplit
  <2>2. connect_host(addr) = split_host_port(addr)
    BY SplitsAlike
  <2> QED
    BY <2>1, <2>2, LooksUpTheSame
<1> QED
  BY <1>1, Invariance, PTL
=============================================================================
