----------------------------- MODULE MCSession -----------------------------
(* Small instances of Session. *)
EXTENDS Session, TLC

TaskSymmetry == Permutations(Tasks)

(* One failure of each class the loop tells apart. *)
SomeErrors == {"Unauthorized", "Connection", "Elapsed"}
TransientErrors == {"Connection"}
AuthErrors == {"Unauthorized", "Revoked", "BadRequest"}
=============================================================================
