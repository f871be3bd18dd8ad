----------------------------- MODULE MCMachines -----------------------------
(* TLC instance of Machines: an instance of one machine and soon of two. *)
EXTENDS Machines, TLC

CONSTANT i1

MCHome == [m \in Machines |-> i1]

MachineSymmetry == Permutations(Restores) \cup Permutations(Rotations)
=============================================================================
