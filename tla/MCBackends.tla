----------------------------- MODULE MCBackends -----------------------------
(* TLC instance of RouterBackends: one backend and two other instances. *)
EXTENDS RouterBackends, TLC

CONSTANTS backend, other, third, duke, dune, default

Named(host) == [scheme |-> "", host |-> host, port |-> 0]

DefaultUpstream == Named(default)
BackendUpstream == Named(backend)
Servers == {Named(duke), Named(dune)}
AllAddresses == {DefaultUpstream, BackendUpstream} \cup Servers

BackendApp == {BackendUpstream}

WorkSymmetry ==
    Permutations(Requests) \cup Permutations(Jobs)
        \cup Permutations({duke, dune}) \cup Permutations({other, third})
=============================================================================
