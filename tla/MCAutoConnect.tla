--------------------------- MODULE MCAutoConnect ---------------------------
(* Responses of up to three entries: two good ones, one of them also with a blank, one
   whose port is 0, and one all blank; two endpoints with two addresses each, one probed
   at a time.  The fallback is a name, a literal, a name that does not resolve, or
   malformed. *)
EXTENDS AutoConnect

TwoLatencies == {1, 2}
SomeErrors == {"Dial", "Unauthorized", "Timeout"}
KnownNames == {<<"9">>}

Name == <<"9", ":", "9">>
Literal == <<"[", ":", ":", "]", ":", "9">>
NoPort == <<"9", ":", "0">>
Unresolvable == <<"[", "9", "]", ":", "9">>

Responses ==
    {NotJson} \union
       UNION {[1..k -> {Name, <<" ">> \o Name, Literal, NoPort, <<" ">>}] : k \in 0..3}

Fallbacks == {<<>>, Name, Literal, Unresolvable, NoPort, <<"[", "9", ":", "9">>}
=============================================================================
