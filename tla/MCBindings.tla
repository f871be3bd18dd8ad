----------------------------- MODULE MCBindings -----------------------------
(* TLC instance of Bindings: the routes spell one host in two ways. *)
EXTENDS Bindings, TLC

CONSTANTS duke, dune, default

Spelled(scheme, host, port) == [scheme |-> scheme, host |-> host, port |-> port]

DefaultUpstream == Spelled("", default, 0)
Duke == Spelled("", duke, 0)
Dune == Spelled("", dune, 0)

DuneUrl == Spelled("http", dune, 0)

AllAddresses == {DefaultUpstream, Duke, Dune, DuneUrl}
Apps == {Duke, Dune}
RouteDestinations == {Dune, DuneUrl}

RequestSymmetry == Permutations(Requests)
=============================================================================
