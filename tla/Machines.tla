------------------------------ MODULE Machines ------------------------------
(***************************************************************************)
(* What the service does to machines in use: an administrator restores all *)
(* machines of an instance (rpaas/manager.py, restore_instance), and every *)
(* few minutes SessionResumptionTask gives the machines of each instance a *)
(* new key for TLS session tickets (rpaas/tasks.py, rpaas/nginx.py).       *)
(* A restore runs in the generator of a streamed response: it is over when *)
(* the client goes away, while the call of the IaaS it was waiting for, in *)
(* a thread of its own, goes on.                                           *)
(***************************************************************************)
EXTENDS FiniteSets, Naturals

CONSTANTS
    Instances, Machines, Home,  \* Home[m]: the instance the machine is of
    Spare,          \* machines that a scale may add
    Restores,       \* requests of administrators
    Rotations,      \* tasks that rotate the tickets
    None,           \* no instance, machine, ticket or holder of a lock
    MaxFaults,      \* bound: calls that fail, clients that leave, locks that expire
    MaxScales       \* bound: machines added or removed, plans deleted

ASSUME MachinesAssumption ==
    /\ Home \in [Machines -> Instances] /\ Spare \subseteq Machines
    /\ None \notin Instances \cup Machines \cup Rotations
    /\ MaxFaults \in Nat /\ MaxScales \in Nat

VARIABLES
    up,         \* machines that run
    down,       \* machines that are stopped
    plan,       \* instances whose plan exists
    task,       \* instances with a task document
    restore,    \* restore[r]
    jobs,       \* <<call, machine>> pairs whose restore did not wait for them
    ticket,     \* ticket[m]: the rotation whose key the machine uses
    lock,       \* lock[i]: the rotation that holds the lock of the instance
    rotation,   \* rotation[t]
    newest,     \* history: newest[i], the last rotation that completed on i
    stale,      \* history: machines that missed the newest rotation for a cause
    faults, scales, \* how much of each bound is spent
    aborted     \* history: instances on which a restore failed or was abandoned

machines == <<up, down>>
tickets == <<ticket, lock, rotation, newest, stale>>
restores == <<task, restore, jobs, aborted>>
bounds == <<faults, scales>>
vars == <<machines, plan, tickets, restores, bounds>>
-----------------------------------------------------------------------------
Of(i) == {m \in up \cup down : Home[m] = i}
Calls == {"stop", "scale", "reset"}

RestoreType ==
    [pc : {"new", "create", "plan", "next", "stop", "scale", "reset", "start", "health",
           "free", "done", "lost"},
     on : Instances \cup {None}, left : SUBSET Machines, at : Machines \cup {None}]

RotationType ==
    [pc : {"new", "list", "lock", "hosts", "unlock", "done"},
     lbs : SUBSET Instances, on : Instances \cup {None}, left : SUBSET Machines,
     late : BOOLEAN]

TypeOK ==
    /\ up \subseteq Machines /\ down \subseteq Machines \ up
    /\ {plan, task, aborted} \subseteq SUBSET Instances
    /\ restore \in [Restores -> RestoreType] /\ jobs \subseteq Calls \X Machines
    /\ stale \subseteq Machines
    /\ ticket \in [Machines -> Rotations \cup {None}]
    /\ {lock, newest} \subseteq [Instances -> Rotations \cup {None}]
    /\ rotation \in [Rotations -> RotationType]
    /\ faults \in Nat /\ scales \in Nat

Init ==
    /\ up = Machines \ Spare /\ down = {}
    /\ plan = Instances /\ task = {} /\ aborted = {}
    /\ restore = [r \in Restores |-> [pc |-> "new", on |-> None, left |-> {}, at |-> None]]
    /\ jobs = {}
    /\ stale = {}
    /\ ticket = [m \in Machines |-> None]
    /\ lock = [i \in Instances |-> None] /\ newest = lock
    /\ rotation = [t \in Rotations |-> [pc |-> "new", lbs |-> {}, on |-> None, left |-> {},
                                        late |-> FALSE]]
    /\ faults = 0 /\ scales = 0
-----------------------------------------------------------------------------
(* restore_instance, up to its loop *)

Goto(r, pc) == restore' = [restore EXCEPT ![r].pc = pc]

(* ensure_ready *)
BeginRestore(r, i) ==
    /\ restore[r].pc = "new"
    /\ restore' = [restore EXCEPT ![r].pc = IF i \in task THEN "done" ELSE "create",
                                  ![r].on = i]
    /\ UNCHANGED <<machines, plan, tickets, task, jobs, aborted, bounds>>

Taken_Never(i) == FALSE
Taken(i) == i \in task

CreateTaskDoc(r) ==
    /\ restore[r].pc = "create"
    /\ IF Taken(restore[r].on) THEN Goto(r, "done") /\ UNCHANGED task
       ELSE Goto(r, "plan") /\ task' = task \cup {restore[r].on}
    /\ UNCHANGED <<machines, plan, tickets, jobs, aborted, bounds>>

(* find_plan raises outside of the try: the document stays. *)
ReadPlan(r) ==
    LET i == restore[r].on
    IN  /\ restore[r].pc = "plan"
        /\ restore' = IF i \in plan
                      THEN [restore EXCEPT ![r].pc = "next", ![r].left = Of(i)]
                      ELSE [restore EXCEPT ![r].pc = "lost"]
        /\ UNCHANGED <<machines, plan, tickets, task, jobs, aborted, bounds>>
-----------------------------------------------------------------------------
(* One machine after the other *)

NextMachine(r) ==
    /\ restore[r].pc = "next"
    /\ IF restore[r].left = {} THEN Goto(r, "free")
       ELSE \E m \in restore[r].left :
                restore' = [restore EXCEPT ![r].pc = "stop", ![r].left = @ \ {m}, ![r].at = m]
    /\ UNCHANGED <<machines, plan, tickets, task, jobs, aborted, bounds>>

(* What a call of the IaaS does; one on a machine that is gone fails.  The *)
(* machine is built anew from its template: it forgets its tickets.        *)
Effect(call, m) ==
    /\ up' = IF call = "stop" THEN up \ {m} ELSE up
    /\ down' = IF call = "stop" THEN down \cup {m} ELSE down
    /\ ticket' = IF call = "reset" THEN [ticket EXCEPT ![m] = None] ELSE ticket
    /\ stale' = IF call = "reset" THEN stale \cup {m} ELSE stale

After == [stop |-> "scale", scale |-> "reset", reset |-> "start"]

(* host.stop, host.scale and host.restore in a JobWaiting *)
CallEnds(r) ==
    LET me == restore[r]
    IN  /\ me.pc \in Calls /\ me.at \in up \cup down
        /\ Effect(me.pc, me.at)
        /\ Goto(r, After[me.pc])
        /\ UNCHANGED <<plan, lock, rotation, newest, task, jobs, aborted, bounds>>

(* host.start *)
StillDown_All(m) == down
StillDown(m) == down \ {m}

StartMachine(r) ==
    /\ restore[r].pc = "start" /\ restore[r].at \in up \cup down
    /\ up' = up \cup {restore[r].at} /\ down' = StillDown(restore[r].at)
    /\ Goto(r, "health")
    /\ UNCHANGED <<plan, tickets, task, jobs, aborted, bounds>>

(* wait_healthcheck answers only for a machine that runs. *)
AfterHealth(r) ==
    /\ restore[r].pc = "health" /\ restore[r].at \in up
    /\ Goto(r, "next")
    /\ UNCHANGED <<machines, plan, tickets, task, jobs, aborted, bounds>>

(* The end of the loop and every exception lead to the finally, where it   *)
(* is TaskNotFound if the document is gone.                                *)
FreeTaskDoc(r) ==
    /\ restore[r].pc = "free"
    /\ task' = task \ {restore[r].on}
    /\ Goto(r, "done")
    /\ UNCHANGED <<machines, plan, tickets, jobs, aborted, bounds>>

InLoop(r) == restore[r].pc \in {"stop", "scale", "reset", "start", "health"}

(* The call fails, as it does on a machine that is gone: the restore ends  *)
(* and leaves the machine as it is.                                        *)
CallFails(r) ==
    LET m == restore[r].at
    IN  /\ InLoop(r)
        /\ IF m \in up \/ (m \in down /\ restore[r].pc # "health")
           THEN faults < MaxFaults /\ faults' = faults + 1
           ELSE UNCHANGED faults
        /\ aborted' = aborted \cup {restore[r].on}
        /\ Goto(r, "free")
        /\ UNCHANGED <<machines, plan, tickets, task, jobs, scales>>

AfterClose_Stop == "done"
AfterClose == "free"

(* The client goes away: the generator is closed where it yields.  What    *)
(* the thread has to do is done without it.                                *)
ClientLeaves(r) ==
    LET me == restore[r]
    IN  /\ me.pc \in Calls \cup {"health"}
        /\ faults < MaxFaults /\ faults' = faults + 1
        /\ jobs' = IF me.pc \in Calls THEN jobs \cup {<<me.pc, me.at>>} ELSE jobs
        /\ aborted' = aborted \cup {me.on}
        /\ Goto(r, AfterClose)
        /\ UNCHANGED <<machines, plan, tickets, task, scales>>

LeftCallEnds(job) ==
    /\ job \in jobs /\ jobs' = jobs \ {job}
    /\ IF job[2] \in up \cup down THEN Effect(job[1], job[2])
       ELSE UNCHANGED <<machines, ticket, stale>>
    /\ UNCHANGED <<plan, lock, rotation, newest, task, restore, aborted, bounds>>
-----------------------------------------------------------------------------
(* The instance meanwhile *)

Change == scales < MaxScales /\ scales' = scales + 1

(* ScaleInstanceTask, as InstanceLifecycle has it in detail.  A name is    *)
(* not used twice.                                                         *)
AddMachine(m) ==
    /\ m \in Spare \ (up \cup down) /\ Home[m] \notin task
    /\ Change
    /\ up' = up \cup {m} /\ stale' = stale \cup {m}
    /\ UNCHANGED <<down, plan, ticket, lock, rotation, newest, restores, faults>>

RemoveMachine(m) ==
    /\ m \in (up \cup down) \ Spare /\ Home[m] \notin task
    /\ Change
    /\ up' = up \ {m} /\ down' = down \ {m}
    /\ UNCHANGED <<plan, ticket, lock, rotation, newest, stale, restores, faults>>

(* store_plan and delete_plan *)
StorePlan(i) ==
    /\ i \notin plan /\ plan' = plan \cup {i}
    /\ UNCHANGED <<machines, tickets, restores, bounds>>

DeletePlan(i) ==
    /\ i \in plan /\ plan' = plan \ {i} /\ Change
    /\ UNCHANGED <<machines, tickets, restores, faults>>
-----------------------------------------------------------------------------
(* SessionResumptionTask *)

Set(t, new) == rotation' = [rotation EXCEPT ![t] = new]
Me(t) == rotation[t]

ListBalancers(t) ==
    /\ Me(t).pc = "new"
    /\ Set(t, [Me(t) EXCEPT !.pc = "list", !.lbs = Instances])
    /\ UNCHANGED <<machines, plan, ticket, lock, newest, stale, restores, bounds>>

NextBalancer(t) ==
    /\ Me(t).pc = "list"
    /\ IF Me(t).lbs = {} THEN Set(t, [Me(t) EXCEPT !.pc = "done"])
       ELSE \E i \in Me(t).lbs :
                Set(t, [Me(t) EXCEPT !.pc = "lock", !.on = i, !.lbs = @ \ {i}])
    /\ UNCHANGED <<machines, plan, ticket, lock, newest, stale, restores, bounds>>

Free_Always(i) == TRUE
Free(i) == lock[i] = None

(* An instance that another rotation is at is left out. *)
TakeLock(t) ==
    LET i == Me(t).on
    IN  /\ Me(t).pc = "lock"
        /\ IF Free(i)
           THEN /\ lock' = [lock EXCEPT ![i] = t]
                /\ Set(t, [Me(t) EXCEPT !.pc = "hosts", !.left = Of(i)])
           ELSE Set(t, [Me(t) EXCEPT !.pc = "list"]) /\ UNCHANGED lock
        /\ UNCHANGED <<machines, plan, ticket, newest, stale, restores, bounds>>

(* The certificate of the machine is made if it has none, and a machine    *)
(* that runs takes the key.                                                *)
AddTicket(t, m) ==
    /\ Me(t).pc = "hosts" /\ m \in Me(t).left \cap up
    /\ ticket' = [ticket EXCEPT ![m] = t]
    /\ Set(t, [Me(t) EXCEPT !.left = @ \ {m}])
    /\ UNCHANGED <<machines, plan, lock, newest, stale, restores, bounds>>

(* A machine that does not answer until the retries are over, or a call    *)
(* that fails: the machines that are left do not get the key.  If it is    *)
(* the certificate that cannot be read, the finally posts the key all the  *)
(* same, and a call may fail after the machine took it.                    *)
AddTicketFails(t, m) ==
    /\ Me(t).pc = "hosts" /\ m \in Me(t).left
    /\ IF m \in up
       THEN /\ faults < MaxFaults /\ faults' = faults + 1
            /\ ticket' \in {ticket, [ticket EXCEPT ![m] = t]}
       ELSE UNCHANGED <<faults, ticket>>
    /\ stale' = stale \cup Of(Me(t).on)
    /\ Set(t, [Me(t) EXCEPT !.pc = "unlock", !.left = {}])
    /\ UNCHANGED <<machines, plan, lock, newest, restores, scales>>

AllAdded(t) ==
    LET i == Me(t).on
    IN  /\ Me(t).pc = "hosts" /\ Me(t).left = {}
        /\ Set(t, [Me(t) EXCEPT !.pc = "unlock"])
        /\ newest' = [newest EXCEPT ![i] = t]
        /\ stale' = IF Me(t).late THEN stale \cup Of(i)
                    ELSE stale \ {m \in Of(i) : ticket[m] = t}
        /\ UNCHANGED <<machines, plan, ticket, lock, restores, bounds>>

(* The release of a lock that expired raises, and no other instance has    *)
(* its turn.                                                               *)
Unlock(t) ==
    LET i == Me(t).on
    IN  /\ Me(t).pc = "unlock"
        /\ lock' = IF lock[i] = t THEN [lock EXCEPT ![i] = None] ELSE lock
        /\ Set(t, [Me(t) EXCEPT !.pc = IF lock[i] = t THEN "list" ELSE "done", !.late = FALSE])
        /\ UNCHANGED <<machines, plan, ticket, newest, stale, restores, bounds>>

(* After SESSION_RESUMPTION_TICKET_ROTATE seconds. *)
LockExpires(i) ==
    /\ lock[i] # None /\ lock' = [lock EXCEPT ![i] = None]
    /\ faults < MaxFaults /\ faults' = faults + 1
    /\ stale' = stale \cup Of(i)
    /\ Set(lock[i], [Me(lock[i]) EXCEPT !.late = TRUE])
    /\ UNCHANGED <<machines, plan, ticket, newest, restores, scales>>
-----------------------------------------------------------------------------
RestoreStep(r) ==
    \/ CreateTaskDoc(r) \/ ReadPlan(r) \/ NextMachine(r) \/ CallEnds(r) \/ StartMachine(r)
    \/ AfterHealth(r) \/ CallFails(r) \/ FreeTaskDoc(r)

RotationStep(t) ==
    \/ NextBalancer(t) \/ TakeLock(t) \/ AllAdded(t) \/ Unlock(t)
    \/ \E m \in Me(t).left : AddTicket(t, m) \/ AddTicketFails(t, m)

Next ==
    \/ \E r \in Restores :
          RestoreStep(r) \/ ClientLeaves(r) \/ \E i \in Instances : BeginRestore(r, i)
    \/ \E job \in jobs : LeftCallEnds(job)
    \/ \E t \in Rotations : ListBalancers(t) \/ RotationStep(t)
    \/ \E m \in Machines : AddMachine(m) \/ RemoveMachine(m)
    \/ \E i \in Instances : StorePlan(i) \/ DeletePlan(i) \/ LockExpires(i)

Spec == Init /\ [][Next]_vars
-----------------------------------------------------------------------------
(* Properties *)

(* A restore takes an instance out of service one machine at a time, and   *)
(* brings that one back before it gives up its document, whoever else asks *)
(* for a restore.  Unless a restore failed or its client left it.          *)
OneMachineDown ==
    \A i \in Instances \ aborted :
        LET stopped == {m \in down : Home[m] = i}
        IN  Cardinality(stopped) <= IF i \in task THEN 1 ELSE 0

(* The machines of an instance all use the key of its last rotation, so    *)
(* that a client may resume its session with any, when no rotation is at   *)
(* it, however rotations overlap.  But for machines that were added or     *)
(* built anew since, and all of them if a rotation was cut short or its    *)
(* lock expired.                                                           *)
NewestTicket ==
    \A i \in Instances :
        (\A t \in Rotations : rotation[t].on = i => rotation[t].pc \in {"list", "done"})
            => \A m \in Of(i) \ stale : ticket[m] = newest[i]

(* No document is left behind, by which every later request would be       *)
(* refused: who has it is still at work and will give it up, also when a   *)
(* call fails or the client leaves.  Unless the plan was gone.             *)
DocumentReleased ==
    \A i \in task : \E r \in Restores :
        restore[r].on = i /\ restore[r].pc \notin {"create", "done"}
=============================================================================
