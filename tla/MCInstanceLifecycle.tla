------------------------ MODULE MCInstanceLifecycle ------------------------
(* InstanceLifecycle on small instances; requests, workers, load balancers *)
(* and machines are interchangeable, and so are the names of the instances.*)
EXTENDS InstanceLifecycle

Symmetry ==
    UNION {Permutations(Names), Permutations(Teams), Permutations(Requests),
           Permutations(Workers), Permutations(LBs), Permutations(Hosts)}
=============================================================================
