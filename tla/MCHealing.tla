----------------------------- MODULE MCHealing -----------------------------
(* TLC instances of Healing: two machines, of one instance or of two. *)
EXTENDS Healing, TLC

CONSTANTS m1, m2, i1, i2, r1, r2

OneInstance == (m1 :> i1) @@ (m2 :> i1)
TwoInstances == (m1 :> i1) @@ (m2 :> i2)

(* For OneInstance only, where the machines differ in nothing. *)
Symmetry == Permutations(Restorers) \cup Permutations(Machines)
=============================================================================
