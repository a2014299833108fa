----------------------------- MODULE MCAppCore -----------------------------
(* Instances of AppCore for TLC: two headphones, interchangeable. *)
EXTENDS AppCore, TLC

CONSTANTS m1, m2

Pairs == Permutations({m1, m2})
=============================================================================
