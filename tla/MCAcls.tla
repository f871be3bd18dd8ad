------------------------------- MODULE MCAcls -------------------------------
(* TLC instance of Acls. *)
EXTENDS Acls, TLC

CONSTANTS h1, h2, h3

AclSymmetry == Permutations(Procs) \cup Permutations(Destinations) \cup Permutations({h2, h3})
=============================================================================
