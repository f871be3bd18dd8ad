---------------------------- MODULE RestoreLock ----------------------------
(***************************************************************************)
(* The clock of the lock that RestoreMachineTask holds (rpaas/tasks.py,    *)
(* rpaas/lock.py): it is taken for the health check timeout plus a minute  *)
(* and extended after every machine by the whole seconds that the machine  *)
(* took.  Healing models what the task does under the lock; this module    *)
(* how long a restore may take for the lock to be one.                     *)
(*                                                                         *)
(* Time counts ticks, PerSecond of them to a second.  Only the restore of  *)
(* a machine takes time: the calls between two of them are instantaneous.  *)
(***************************************************************************)
EXTENDS Integers

CONSTANTS
    Workers,        \* workers that run RestoreMachineTask
    Free,           \* nobody holds the lock
    PerSecond,      \* ticks in a second
    Timeout,        \* timeout of the lock in ticks
    MaxRestore,     \* ticks the restore of one machine takes at most
    MaxMachines     \* machines with a due document in one run, at most

ASSUME ConstantsAssumption ==
    /\ Free \notin Workers
    /\ PerSecond \in Nat \ {0} /\ Timeout \in Nat \ {0}
    /\ MaxRestore \in Nat /\ MaxMachines \in Nat

VARIABLES
    owner,      \* the worker whose token is in Redis
    ttl,        \* ticks until Redis deletes it
    task        \* task[w]: the task of worker w and its local variables

vars == <<owner, ttl, task>>

(* "elapsed" is the time since start_time, "left" the machines still in    *)
(* the cursor, "done" the machines of this run that are restored.          *)
TaskType == [pc : {"idle", "next", "restoring", "extend", "unlock"},
             elapsed : 0..MaxRestore, left : 0..MaxMachines, done : 0..MaxMachines]
IdleTask == [pc |-> "idle", elapsed |-> 0, left |-> 0, done |-> 0]

TypeOK ==
    /\ owner \in Workers \cup {Free}
    /\ ttl \in Nat
    /\ owner # Free => ttl > 0
    /\ task \in [Workers -> TaskType]

Init ==
    /\ owner = Free
    /\ ttl = 0
    /\ task = [w \in Workers |-> IdleTask]
-----------------------------------------------------------------------------
At(w, pc) == task[w].pc = pc
Goto(w, pc) == task' = [task EXCEPT ![w].pc = pc]

(* timeout=(healthcheck_timeout + 60) *)
LockTimeout_Forgotten == 0
LockTimeout == Timeout

(* acquire(blocking=False) sets the token only if the key does not exist. *)
Lock(w) ==
    /\ At(w, "idle")
    /\ owner = Free
    /\ owner' = w
    /\ ttl' = LockTimeout
    /\ \E n \in 0..MaxMachines :
          task' = [task EXCEPT ![w] = [IdleTask EXCEPT !.pc = "next", !.left = n]]

StartMachine(w) ==
    /\ At(w, "next")
    /\ task[w].left > 0
    /\ task' = [task EXCEPT ![w].pc = "restoring", ![w].elapsed = 0, ![w].left = @ - 1]
    /\ UNCHANGED <<owner, ttl>>

EndMachine(w) ==
    /\ At(w, "restoring")
    /\ Goto(w, "extend")
    /\ UNCHANGED <<owner, ttl>>

(* elapsed_time.seconds: the fraction of the last second is lost. *)
ExtraTime_None(w) == 0
ExtraTime(w) == task[w].elapsed - (task[w].elapsed % PerSecond)

(* extend compares the token; a lock that is lost raises, and the except   *)
(* block goes on to the unlock.                                            *)
ExtendLock(w) ==
    /\ At(w, "extend")
    /\ IF owner = w
       THEN /\ ttl' = ttl + ExtraTime(w)
            /\ task' = [task EXCEPT ![w].pc = "next", ![w].done = @ + 1]
       ELSE /\ UNCHANGED ttl
            /\ Goto(w, "unlock")
    /\ UNCHANGED owner

(* The loop is over, or the restore of a machine raised. *)
LeaveLoop(w) ==
    /\ \/ At(w, "next") /\ task[w].left = 0
       \/ At(w, "restoring")
    /\ Goto(w, "unlock")
    /\ UNCHANGED <<owner, ttl>>

(* release deletes the key if it still holds the worker's token, else raises. *)
Unlock(w) ==
    /\ At(w, "unlock")
    /\ owner' = IF owner = w THEN Free ELSE owner
    /\ ttl' = IF owner' = Free THEN 0 ELSE ttl
    /\ task' = [task EXCEPT ![w] = IdleTask]

(* The worker is killed: the key stays until Redis deletes it. *)
Crash(w) ==
    /\ ~At(w, "idle")
    /\ task' = [task EXCEPT ![w] = IdleTask]
    /\ UNCHANGED <<owner, ttl>>

Tick ==
    /\ \A w \in Workers :
          At(w, "idle") \/ (At(w, "restoring") /\ task[w].elapsed < MaxRestore)
    /\ ttl' = IF owner = Free THEN ttl ELSE ttl - 1
    /\ owner' = IF ttl' = 0 THEN Free ELSE owner
    /\ task' = [w \in Workers |-> IF At(w, "restoring")
                                  THEN [task[w] EXCEPT !.elapsed = @ + 1]
                                  ELSE task[w]]

RunStep(w) ==
    \/ Lock(w) \/ StartMachine(w) \/ EndMachine(w) \/ ExtendLock(w) \/ LeaveLoop(w)
    \/ Unlock(w) \/ Crash(w)

Next == Tick \/ \E w \in Workers : RunStep(w)

Spec == Init /\ [][Next]_vars
-----------------------------------------------------------------------------
(* Ticks a run loses to truncation before its last machine. *)
Lost == (MaxMachines - 1) * (PerSecond - 1)

(* Two workers never restore machines at once as long as the restore of a  *)
(* machine is shorter than the timeout of the lock by what the extensions  *)
(* of a run lose (RestoreMachineTask.run: the IaaS calls must fit into the *)
(* minute that is added to the health check timeout).                      *)
OneRestorer ==
    Timeout > MaxRestore + Lost =>
        \A v, w \in Workers : At(v, "restoring") /\ At(w, "restoring") => v = w
=============================================================================
