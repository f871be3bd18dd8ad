----------------------------- MODULE AccessList -----------------------------
(***************************************************************************)
(* What the record of the network access rules of an instance promises:    *)
(* it changes by one destination granted to a host, or by a host losing    *)
(* all it was granted, however many requests and tasks work on it.         *)
(***************************************************************************)
EXTENDS FiniteSets

CONSTANTS Hosts, Destinations

VARIABLE granted    \* granted[h]: destinations recorded for the host

ListInit == granted = [h \in Hosts |-> {}]

Grant(h, d) == granted' = [granted EXCEPT ![h] = @ \cup {d}]
Revoke(h) == granted' = [granted EXCEPT ![h] = {}]

ListNext == \E h \in Hosts : Revoke(h) \/ \E d \in Destinations : Grant(h, d)

ListSpec == ListInit /\ [][ListNext]_granted
=============================================================================
