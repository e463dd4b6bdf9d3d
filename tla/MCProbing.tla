----------------------------- MODULE MCProbing -----------------------------
(* More endpoints than permits, two addresses each, latencies that tie. *)
EXTENDS Probing

TwoLatencies == {1, 2}
=============================================================================
