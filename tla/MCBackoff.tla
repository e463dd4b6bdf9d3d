----------------------------- MODULE MCBackoff -----------------------------
(* Durations of three bits: doubling 4 leaves them.  Policies on both sides of every
   test of validate. *)
EXTENDS Backoff

SmallPolicies ==
    [connect_timeout : {0, 2}, initial_backoff : {0, 1, 3, 4},
     max_backoff : {0, 3, 7}, max_attempts : {0, 1, 4, NoLimit}]
=============================================================================
