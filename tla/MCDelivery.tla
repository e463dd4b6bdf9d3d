----------------------------- MODULE MCDelivery -----------------------------
(* Small instances of Delivery. *)
EXTENDS Delivery, TLC

(* One failure of each class the loop tells apart. *)
SomeErrors == {"Unauthorized", "Connection", "Elapsed"}

TaskSymmetry == Permutations(Tasks)
=============================================================================
