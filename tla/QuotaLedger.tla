---------------------------- MODULE QuotaLedger ----------------------------
(***************************************************************************)
(* What the team quota promises, without the storage calls that keep it:   *)
(* a ledger of the instance names charged to each team.  A charge happens  *)
(* at once and only under the largest quota the team was ever granted; an  *)
(* instance is released from the bills of all teams at once.               *)
(*                                                                         *)
(* The requests of InstanceLifecycle implement this ledger with a read, a  *)
(* comparison and a compare-and-set on the team's document.                *)
(***************************************************************************)
EXTENDS Naturals, FiniteSets

CONSTANTS
    Names,      \* service instance names
    Teams,      \* teams of the platform
    Granted0    \* quota a team has before an administrator sets one

VARIABLES
    charged,    \* charged[t]: names on the bill of team t
    granted     \* granted[t]: largest quota team t was ever granted

ledgerVars == <<charged, granted>>

Init ==
    /\ charged = [t \in Teams |-> {}]
    /\ granted = [t \in Teams |-> Granted0]

(* A name goes on the bill of a team that has room for it. *)
Charge(t, n) ==
    /\ n \notin charged[t]
    /\ Cardinality(charged[t]) < granted[t]
    /\ charged' = [charged EXCEPT ![t] = @ \cup {n}]
    /\ UNCHANGED granted

(* A removed instance leaves every bill it was on. *)
Release(n) ==
    /\ charged' = [t \in Teams |-> charged[t] \ {n}]
    /\ UNCHANGED granted

(* An administrator grants a team more than it ever had. *)
Grant(t) ==
    /\ granted'[t] > granted[t]
    /\ granted' = [granted EXCEPT ![t] = granted'[t]]
    /\ UNCHANGED charged

Next ==
    \/ \E t \in Teams, n \in Names : Charge(t, n)
    \/ \E n \in Names : Release(n)
    \/ \E t \in Teams : Grant(t)

Spec == Init /\ [][Next]_ledgerVars
=============================================================================
