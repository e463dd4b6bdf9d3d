------------------------------ MODULE Address ------------------------------
(***************************************************************************)
(* The two parsers a host:port goes through (src/src/client.rs):           *)
(* split_host_port, which validates it, and the split in connect, which    *)
(* picks the TLS server name; and tokio's lookup_host, which parses the    *)
(* same text once more for the name to resolve.                            *)
(*                                                                         *)
(* A text is a sequence of characters: those the parsers tell apart, a     *)
(* digit that counts and one that does not.                                *)
(***************************************************************************)
EXTENDS Naturals, Sequences, FiniteSets, SequencesExt

CONSTANTS MaxPort,  \* u16::MAX
          Names     \* host names DNS knows, none of them with a bracket or colon

ASSUME MaxPortAssumption == MaxPort \in Nat \ {0}
ASSUME NamesAssumption ==
    \A name \in Names :
       name # <<>> /\ \A i \in DOMAIN name : name[i] \notin {"[", "]", ":"}

Digits == {"0", "9"}

DigitValue == [d \in Digits |-> IF d = "0" THEN 0 ELSE 9]

FirstOf(text, c) == SelectInSeq(text, LAMBDA x : x = c)
LastOf(text, c) == SelectLastInSeq(text, LAMBDA x : x = c)

Before(text, i) == SubSeq(text, 1, i - 1)
After(text, i) == SubSeq(text, i + 1, Len(text))

Bracketed(text) == text # <<>> /\ Head(text) = "["

(* Result<&str, _>, the error without its wording. *)
Ok(host) == [ok |-> TRUE, host |-> host]
Err == [ok |-> FALSE, host |-> <<>>]

(* A decimal number; beyond every port if it is none. *)
DecimalValue(text) ==
    IF text # <<>> /\ \A i \in DOMAIN text : text[i] \in Digits
    THEN FoldLeft(LAMBDA v, d : 10 * v + DigitValue[d], 0, text)
    ELSE MaxPort + 1

(* str::parse::<u16>, which takes leading zeros and one plus sign. *)
ParsedPort(text) ==
    DecimalValue(IF text # <<>> /\ Head(text) = "+" THEN Tail(text) ELSE text)

-----------------------------------------------------------------------------
(* src/src/client.rs *)

Checked(host, port) ==
    IF host # <<>> /\ ParsedPort(port) \in 1..MaxPort THEN Ok(host) ELSE Err

split_host_port(text) ==
    LET close == FirstOf(text, "]")
        colon == LastOf(text, ":")
        after == After(text, close)
    IN CASE Bracketed(text) /\ close # 0 /\ after # <<>> /\ Head(after) = ":" ->
              Checked(SubSeq(text, 2, close - 1), Tail(after))
         [] ~ Bracketed(text) /\ colon # 0 -> Checked(Before(text, colon), After(text, colon))
         [] OTHER -> Err

(* The faulty variants named Mutant... take the place of the definition that follows
   them in the checks that show a property can fail; nothing else uses them. *)
MutantFirstColon(text) ==
    LET colon == FirstOf(text, ":")
    IN IF colon # 0 THEN Ok(Before(text, colon)) ELSE Err

MutantBracketsStay(text) ==
    LET colon == LastOf(text, ":")
    IN IF colon # 0 THEN Ok(Before(text, colon)) ELSE Err

(* The port is left to lookup_host. *)
connect_host(text) ==
    LET close == FirstOf(text, "]")
        colon == LastOf(text, ":")
    IN CASE Bracketed(text) /\ close # 0 -> Ok(SubSeq(text, 2, close - 1))
         [] ~ Bracketed(text) /\ colon # 0 -> Ok(Before(text, colon))
         [] OTHER -> Err

-----------------------------------------------------------------------------
(* tokio and std *)

(* Ipv6Addr: of the literals, those with two colons. *)
IsV6(text) ==
    /\ \A i \in DOMAIN text : text[i] \in Digits \union {":"}
    /\ Cardinality({i \in DOMAIN text : text[i] = ":"}) = 2
    /\ \E i \in DOMAIN text : i + 1 \in DOMAIN text /\ text[i] = ":" /\ text[i + 1] = ":"

(* SocketAddrV6: [literal]:port, where a port has no sign.  Else the text up to the
   last colon is a literal, or a name for DNS. *)
lookup_host(text) ==
    LET colon == LastOf(text, ":")
        host == Before(text, colon)
        port == After(text, colon)
        inner == SubSeq(host, 2, Len(host) - 1)
    IN CASE colon = 0 -> {}
         [] /\ Bracketed(host) /\ host[Len(host)] = "]"
            /\ IsV6(inner) /\ DecimalValue(port) <= MaxPort -> {inner}
         [] (IsV6(host) \/ host \in Names) /\ ParsedPort(port) <= MaxPort -> {host}
         [] OTHER -> {}
=============================================================================
