----------------------------- MODULE Discovery -----------------------------
(***************************************************************************)
(* parse_endpoints (src/src/autoconfig.rs): the list a discovery response  *)
(* is reduced to.  A body is the list of strings of either accepted JSON   *)
(* shape, or NotJson.                                                      *)
(***************************************************************************)
EXTENDS Address

CONSTANT NotJson  \* a body that is neither shape

Entries(body) == IF body = NotJson THEN <<>> ELSE body

(* str::trim. *)
Trim(text) ==
    LET from == SelectInSeq(text, LAMBDA c : c # " ")
        to == SelectLastInSeq(text, LAMBDA c : c # " ")
    IN IF from = 0 THEN <<>> ELSE SubSeq(text, from, to)

(* The faulty variants named Mutant... take the place of the definition that follows
   them in the checks that show a property can fail; nothing else uses them. *)
MutantKeepLast(out, raw) ==
    IF ~ split_host_port(Trim(raw)).ok THEN out
    ELSE Append(SelectSeq(out, LAMBDA entry : entry # Trim(raw)), Trim(raw))

Collect(out, raw) ==
    LET entry == Trim(raw)
    IN IF ~ split_host_port(entry).ok \/ entry \in ToSet(out) THEN out
       ELSE Append(out, entry)

(* Empty where the code reports an InvalidResponse. *)
parse_endpoints(body) == FoldLeft(Collect, <<>>, Entries(body))

(* "Trimmed, deduplicated host:port entries in discovery order; invalid entries
   dropped", said of a list without computing it. *)
ListsUsable(list, body) ==
    LET raw == Entries(body)
        usable == {i \in DOMAIN raw : split_host_port(Trim(raw[i])).ok}
        At(entry) == {i \in usable : Trim(raw[i]) = entry}
        Earliest(S) == CHOOSE i \in S : \A j \in S : i <= j
    IN /\ ToSet(list) = {Trim(raw[i]) : i \in usable}
       /\ \A i, j \in DOMAIN list :
             i < j => /\ list[i] # list[j]
                      /\ Earliest(At(list[i])) < Earliest(At(list[j]))
=============================================================================
