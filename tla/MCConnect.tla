----------------------------- MODULE MCConnect -----------------------------
(* Every text of up to six characters that brackets, colons, digits and a sign can make,
   where ports end at 90; one name that DNS knows, with up to three addresses, each with
   every kind of failure. *)
EXTENDS Connect

Characters == {"[", "]", ":", "0", "9", "+"}
ShortTexts == UNION {[1..k -> Characters] : k \in 0..6}
KnownNames == {<<"9">>}

AllErrors == ConnectErrors
OneText == {<<"9", ":", "9">>}
SomeErrors == {"Dial", "Unauthorized"}
=============================================================================
