------------------------------ MODULE Healing ------------------------------
(***************************************************************************)
(* The healing of machines: CheckMachineTask turns failing Consul checks   *)
(* into restore documents, RestoreMachineTask takes the documents that are *)
(* old enough and stops, restores and starts their machines one by one     *)
(* under a Redis lock (rpaas/tasks.py), and an administrator may ask for a *)
(* restore or cancel it (Manager.restore_machine_instance).                *)
(*                                                                         *)
(* Every call to Consul, MongoDB, Redis or the IaaS is one step.  Time is  *)
(* abstract: a document becomes due, the delay after a failure ends and    *)
(* the lock of a dead worker expires, each in an action of its own.  What  *)
(* the lock's timeout must be is the subject of RestoreLock.  The dry mode *)
(* that drops the documents without a restore is off.                      *)
(***************************************************************************)
EXTENDS Naturals, FiniteSets

CONSTANTS
    Machines,       \* the machines of the service
    Instances,      \* the instances they belong to
    InstanceOf,     \* InstanceOf[m]: the instance whose tag machine m carries
    Broken,         \* machines whose restore always fails
    Checkers,       \* workers that run CheckMachineTask
    Restorers,      \* workers that run RestoreMachineTask
    None,           \* None
    MaxFailures,    \* bound: machines that fail, recover alone or are destroyed
    MaxDisruptions  \* bound: calls that raise for other machines, requests of
                    \* administrators, restore workers killed while they run and
                    \* locks that expire under a worker that still runs, together

ASSUME ConstantsAssumption ==
    /\ InstanceOf \in [Machines -> Instances]
    /\ Broken \subseteq Machines
    /\ None \notin Machines \cup Restorers
    /\ MaxFailures \in Nat /\ MaxDisruptions \in Nat

VARIABLES
    machine,    \* machine[m]: what runs on m; only an "up" one passes its checks
    hosts,      \* machines with a document in the hosts collection
    doc,        \* doc[m]: restore document, "none", or "fresh" or "due" by its age
    attempt,    \* attempt[m]: last_attempt in the document; "recent" and "seen"
                \* are younger than the failure delay, "waited" may be older
    healing,    \* healing[m]: status of the newest healing event of m
    lock,       \* holder of restore_lock in Redis
    chk,        \* chk[c]: the check task of worker c and its local variables
    rst,        \* rst[r]: the restore task of worker r and its local variables
    adm,        \* the administrator's request under way
    failures, disruptions,  \* how much of each bound is spent
    expiries,   \* history: locks that expired under a worker that still ran
    failed,     \* history: failed[m]: age of the newest failed healing event of
                \* m (end_time in the healings collection), in the words of attempt;
                \* "never" too when it is older than the failure delay
    unrecorded  \* history: machines whose failure of late no document tells of

docVars == <<doc, attempt, failed, unrecorded>>
boundVars == <<failures, disruptions, expiries>>
vars == <<machine, hosts, docVars, healing, lock, chk, rst, adm, boundVars>>

IdleChk == [pc |-> "idle", failing |-> {}, todo |-> {}, node |-> None]
ChkType == [pc : {"idle", "next", "ensure_ready", "create", "remove"},
            failing : SUBSET Machines, todo : SUBSET Machines,
            node : Machines \cup {None}]

IdleRst == [pc |-> "idle", todo |-> {}, task |-> None]
RestorePcs == {"stop", "restore", "start", "wait_healthcheck"}
RstType == [pc : {"idle", "find_task", "next", "store_healing", "healing_success",
                  "remove_task", "extend_lock", "healing_failed", "update_task",
                  "unlock"} \cup RestorePcs,
            todo : SUBSET Machines, task : Machines \cup {None}]

IdleAdm == [op |-> "none", machine |-> None]

Ages == {"never", "recent", "seen", "waited", "old"}
Lately == {"recent", "seen", "waited"}

TypeOK ==
    /\ machine \in [Machines -> {"up", "failed", "stopped", "restored"}]
    /\ hosts \in SUBSET Machines
    /\ doc \in [Machines -> {"none", "fresh", "due"}]
    /\ attempt \in [Machines -> Ages]
    /\ \A m \in Machines : doc[m] = "none" => attempt[m] = "never"
    /\ healing \in [Machines -> {"none", "open", "success", "failed"}]
    /\ lock \in Restorers \cup {None}
    /\ chk \in [Checkers -> ChkType]
    /\ rst \in [Restorers -> RstType]
    /\ adm \in [op : {"none", "restore", "cancel"}, machine : Machines \cup {None}]
    /\ failures \in Nat /\ disruptions \in Nat /\ expiries \in Nat
    /\ failed \in [Machines -> Ages]
    /\ unrecorded \in SUBSET Machines

Init ==
    /\ machine = [m \in Machines |-> "up"]
    /\ hosts = Machines
    /\ doc = [m \in Machines |-> "none"]
    /\ attempt = [m \in Machines |-> "never"]
    /\ healing = [m \in Machines |-> "none"]
    /\ lock = None
    /\ chk = [c \in Checkers |-> IdleChk]
    /\ rst = [r \in Restorers |-> IdleRst]
    /\ adm = IdleAdm
    /\ failures = 0 /\ disruptions = 0 /\ expiries = 0
    /\ failed = [m \in Machines |-> "never"]
    /\ unrecorded = {}

Disrupt ==
    /\ disruptions < MaxDisruptions
    /\ disruptions' = disruptions + 1
-----------------------------------------------------------------------------
(* The task documents, storage.py *)

(* store_task: the unique _id makes a second insert raise DuplicateError. *)
CreateDoc(m) ==
    doc' = IF doc[m] = "none" THEN [doc EXCEPT ![m] = "fresh"] ELSE doc

(* A failure of late that no document tells of any more. *)
Forgotten(m) == unrecorded \cup {n \in Machines : n = m /\ failed[n] \in Lately}

RemoveDoc(m) ==
    /\ doc' = [doc EXCEPT ![m] = "none"]
    /\ attempt' = [attempt EXCEPT ![m] = "never"]
    /\ unrecorded' = Forgotten(m)
-----------------------------------------------------------------------------
(***************************************************************************)
(* CheckMachineTask reads the state of all checks once and then works      *)
(* through the nodes; every exception of the task manager is swallowed.    *)
(***************************************************************************)

ServiceHealthcheck(c) ==
    /\ chk[c].pc = "idle"
    /\ chk' = [chk EXCEPT ![c] = [pc |-> "next", todo |-> Machines, node |-> None,
                                  failing |-> {m \in Machines : machine[m] # "up"}]]
    /\ UNCHANGED <<machine, hosts, docVars, healing, lock, rst, adm, boundVars>>

(* The next node; one whose machine has no document is skipped. *)
CheckNode(c) ==
    /\ chk[c].pc = "next"
    /\ \/ /\ chk[c].todo = {}
          /\ chk' = [chk EXCEPT ![c] = IdleChk]
       \/ \E m \in chk[c].todo :
             chk' = [chk EXCEPT ![c].todo = @ \ {m},
                                ![c].node = IF m \in hosts THEN m ELSE None,
                                ![c].pc = IF m \in hosts THEN "ensure_ready" ELSE "next"]
    /\ UNCHANGED <<machine, hosts, docVars, healing, lock, rst, adm, boundVars>>

(* ensure_ready raises when there is a document: no second one is created, *)
(* and only an existing one is removed.                                    *)
NodeWrite(c, m) ==
    IF m \in chk[c].failing /\ doc[m] = "none" THEN "create"
    ELSE IF m \notin chk[c].failing /\ doc[m] # "none" THEN "remove"
    ELSE "next"

EnsureReady(c) ==
    /\ chk[c].pc = "ensure_ready"
    /\ chk' = [chk EXCEPT ![c].pc = NodeWrite(c, chk[c].node)]
    /\ UNCHANGED <<machine, hosts, docVars, healing, lock, rst, adm, boundVars>>

CreateRestoreTask(c) ==
    /\ chk[c].pc = "create"
    /\ CreateDoc(chk[c].node)
    /\ chk' = [chk EXCEPT ![c].pc = "next"]
    /\ UNCHANGED <<machine, hosts, attempt, failed, unrecorded, healing, lock, rst, adm,
                   boundVars>>

RemoveRestoreTask(c) ==
    /\ chk[c].pc = "remove"
    /\ RemoveDoc(chk[c].node)
    /\ chk' = [chk EXCEPT ![c].pc = "next"]
    /\ UNCHANGED <<machine, hosts, failed, healing, lock, rst, adm, boundVars>>

CheckStep(c) ==
    \/ ServiceHealthcheck(c) \/ CheckNode(c) \/ EnsureReady(c)
    \/ CreateRestoreTask(c) \/ RemoveRestoreTask(c)
-----------------------------------------------------------------------------
(* RestoreMachineTask *)

At(r, pc) == rst[r].pc = pc
Goto(r, pc) == rst' = [rst EXCEPT ![r].pc = pc]

(* lock_manager.lock does not wait; without the lock the task ends. *)
LockFree_Unchecked(r) == TRUE
LockFree(r) == lock = None

(* A recent failure grows older with the runs that meet it: RUN_INTERVAL   *)
(* (30 seconds) is shorter than FAILURE_DELAY (5 minutes), so one whole    *)
(* run at least fits into the delay.                                       *)
Aged(age, from, to) == [m \in Machines |-> IF age[m] = from THEN to ELSE age[m]]
TimePasses(from, to) ==
    /\ attempt' = Aged(attempt, from, to)
    /\ failed' = Aged(failed, from, to)

TakeLock(r) ==
    /\ At(r, "idle")
    /\ LockFree(r)
    /\ lock' = r
    /\ TimePasses("recent", "seen")
    /\ Goto(r, "find_task")
    /\ UNCHANGED <<machine, hosts, doc, unrecorded, healing, chk, adm, boundVars>>

(* The documents that are due when the query runs; the cursor's first      *)
(* batch holds them all, in no order the code asks for.                    *)
FindTask(r) ==
    /\ At(r, "find_task")
    /\ rst' = [rst EXCEPT ![r] = [pc |-> "next", task |-> None,
                                  todo |-> {m \in Machines : doc[m] = "due"}]]
    /\ UNCHANGED <<machine, hosts, docVars, healing, lock, chk, adm, boundVars>>

(* _failure_instances: a recent failure blocks the machines of its instance. *)
RecentFailure(m) == attempt[m] \in Lately
Blocked_ByMachine(m) == RecentFailure(m)
Blocked(m) == \E f \in Machines : RecentFailure(f) /\ InstanceOf[f] = InstanceOf[m]

(* The next task; a task of a failing instance counts as done at once. *)
NextTask(r) ==
    /\ At(r, "next")
    /\ \/ /\ rst[r].todo = {}
          /\ Goto(r, "unlock")
       \/ \E m \in rst[r].todo :
             rst' = [rst EXCEPT ![r].todo = @ \ {m}, ![r].task = m,
                                ![r].pc = IF Blocked(m) THEN "extend_lock" ELSE "store_healing"]
    /\ UNCHANGED <<machine, hosts, docVars, healing, lock, chk, adm, boundVars>>

(* Without a host document the first Host.from_dict raises, and the calls  *)
(* that follow fail for a machine destroyed since.                         *)
StoreHealing(r) ==
    LET m == rst[r].task
    IN  /\ At(r, "store_healing")
        /\ healing' = [healing EXCEPT ![m] = "open"]
        /\ Goto(r, IF m \in hosts THEN "stop" ELSE "healing_failed")
        /\ UNCHANGED <<machine, hosts, docVars, lock, chk, adm, boundVars>>

Stop(r) ==
    /\ At(r, "stop")
    /\ rst[r].task \in hosts
    /\ machine' = [machine EXCEPT ![rst[r].task] = "stopped"]
    /\ Goto(r, "restore")
    /\ UNCHANGED <<hosts, docVars, healing, lock, chk, adm, boundVars>>

Restore(r) ==
    /\ At(r, "restore")
    /\ rst[r].task \in hosts \ Broken
    /\ machine' = [machine EXCEPT ![rst[r].task] = "restored"]
    /\ Goto(r, "start")
    /\ UNCHANGED <<hosts, docVars, healing, lock, chk, adm, boundVars>>

Start(r) ==
    LET m == rst[r].task
    IN  /\ At(r, "start")
        /\ m \in hosts
        /\ machine' = [machine EXCEPT ![m] = IF @ = "restored" THEN "up" ELSE @]
        /\ Goto(r, "wait_healthcheck")
        /\ UNCHANGED <<hosts, docVars, healing, lock, chk, adm, boundVars>>

WaitHealthcheck(r) ==
    /\ At(r, "wait_healthcheck")
    /\ machine[rst[r].task] = "up"
    /\ Goto(r, "healing_success")
    /\ UNCHANGED <<machine, hosts, docVars, healing, lock, chk, adm, boundVars>>

HealingSuccess(r) ==
    /\ At(r, "healing_success")
    /\ healing' = [healing EXCEPT ![rst[r].task] = "success"]
    /\ Goto(r, "remove_task")
    /\ UNCHANGED <<machine, hosts, docVars, lock, chk, adm, boundVars>>

RemoveTask(r) ==
    /\ At(r, "remove_task")
    /\ RemoveDoc(rst[r].task)
    /\ Goto(r, "extend_lock")
    /\ UNCHANGED <<machine, hosts, failed, healing, lock, chk, adm, boundVars>>

(* extend raises a LockError when the lock is no longer owned. *)
ExtendLock(r) ==
    /\ At(r, "extend_lock")
    /\ Goto(r, IF lock = r THEN "next" ELSE "update_task")
    /\ UNCHANGED <<machine, hosts, docVars, healing, lock, chk, adm, boundVars>>

(* A call of _restore_machine raises or the health check times out. *)
RestoreRaises(r) ==
    LET m == rst[r].task
        certain == \/ rst[r].pc \in {"stop", "restore", "start"} /\ m \notin hosts
                   \/ At(r, "restore") /\ m \in Broken
                   \/ At(r, "wait_healthcheck") /\ machine[m] # "up"
    IN  /\ rst[r].pc \in RestorePcs
        /\ IF certain THEN UNCHANGED disruptions ELSE Disrupt
        /\ Goto(r, "healing_failed")
        /\ UNCHANGED <<machine, hosts, docVars, healing, lock, chk, adm, failures,
                       expiries>>

HealingFailed(r) ==
    /\ At(r, "healing_failed")
    /\ healing' = [healing EXCEPT ![rst[r].task] = "failed"]
    /\ failed' = [failed EXCEPT ![rst[r].task] = "recent"]
    /\ Goto(r, "update_task")
    /\ UNCHANGED <<machine, hosts, doc, attempt, unrecorded, lock, chk, adm, boundVars>>

(* update_task does not insert: a document removed meanwhile stays away. *)
UpdateTask_NoAttempt(m) == attempt
UpdateTask_Inserted(m) == [attempt EXCEPT ![m] = "recent"]
UpdatedAttempt(m) == [attempt EXCEPT ![m] = IF doc[m] = "none" THEN @ ELSE "recent"]

UpdateTask(r) ==
    LET m == rst[r].task
    IN  /\ At(r, "update_task")
        /\ attempt' = UpdatedAttempt(m)
        /\ unrecorded' = IF doc[m] = "none" THEN Forgotten(m) ELSE unrecorded \ {m}
        /\ Goto(r, "unlock")
        /\ UNCHANGED <<machine, hosts, doc, failed, healing, lock, chk, adm, boundVars>>

(* release compares the token: it raises instead of releasing the lock of  *)
(* another worker.                                                         *)
Released_AnyToken(r) == None
Released(r) == IF lock = r THEN None ELSE lock

Unlock(r) ==
    /\ At(r, "unlock")
    /\ lock' = Released(r)
    /\ TimePasses("seen", "waited")
    /\ rst' = [rst EXCEPT ![r] = IdleRst]
    /\ UNCHANGED <<machine, hosts, doc, unrecorded, healing, chk, adm, boundVars>>

RestoreStep(r) ==
    \/ TakeLock(r) \/ FindTask(r) \/ NextTask(r) \/ StoreHealing(r) \/ Stop(r)
    \/ Restore(r) \/ Start(r) \/ WaitHealthcheck(r) \/ HealingSuccess(r)
    \/ RemoveTask(r) \/ ExtendLock(r) \/ HealingFailed(r) \/ UpdateTask(r) \/ Unlock(r)
    \/ RestoreRaises(r)
-----------------------------------------------------------------------------
(* Manager.restore_machine_instance: the reads, then the write *)

AdminRestore(m) ==
    /\ adm = IdleAdm
    /\ doc[m] = "none" /\ m \in hosts
    /\ adm' = [op |-> "restore", machine |-> m]
    /\ Disrupt
    /\ UNCHANGED <<machine, hosts, docVars, healing, lock, chk, rst, failures, expiries>>

AdminCancel(m) ==
    /\ adm = IdleAdm
    /\ doc[m] # "none"
    /\ adm' = [op |-> "cancel", machine |-> m]
    /\ Disrupt
    /\ UNCHANGED <<machine, hosts, docVars, healing, lock, chk, rst, failures, expiries>>

AdminWrite ==
    /\ \/ adm.op = "restore" /\ CreateDoc(adm.machine) /\ UNCHANGED <<attempt, unrecorded>>
       \/ adm.op = "cancel" /\ RemoveDoc(adm.machine)
    /\ adm' = IdleAdm
    /\ UNCHANGED <<machine, hosts, failed, healing, lock, chk, rst, boundVars>>
-----------------------------------------------------------------------------
(* The machines, time and faults *)

(* nginx on m stops answering, or answers again by itself. *)
MachineChanges(m) ==
    /\ failures < MaxFailures
    /\ failures' = failures + 1
    /\ \/ machine[m] = "up" /\ machine' = [machine EXCEPT ![m] = "failed"]
       \/ machine[m] = "failed" /\ machine' = [machine EXCEPT ![m] = "up"]
    /\ UNCHANGED <<hosts, docVars, healing, lock, chk, rst, adm, disruptions, expiries>>

(* The instance is scaled down or removed: host.destroy deletes the document. *)
MachineDestroyed(m) ==
    /\ failures < MaxFailures
    /\ failures' = failures + 1
    /\ m \in hosts
    /\ hosts' = hosts \ {m}
    /\ machine' = [machine EXCEPT ![m] = "stopped"]
    /\ UNCHANGED <<docVars, healing, lock, chk, rst, adm, disruptions, expiries>>

(* RESTORE_MACHINE_DELAY has passed since the document was created. *)
BecomesDue(m) ==
    /\ doc[m] = "fresh"
    /\ doc' = [doc EXCEPT ![m] = "due"]
    /\ UNCHANGED <<machine, hosts, attempt, failed, unrecorded, healing, lock, chk, rst, adm,
                   boundVars>>

(* RESTORE_MACHINE_FAILURE_DELAY has passed since the failure. *)
BackoffEnds(m) ==
    /\ "waited" \in {attempt[m], failed[m]}
    /\ attempt' = [attempt EXCEPT ![m] = IF @ = "waited" THEN "old" ELSE @]
    /\ failed' = [failed EXCEPT ![m] = IF @ = "waited" THEN "never" ELSE @]
    /\ unrecorded' = {n \in unrecorded : failed'[n] \in Lately}
    /\ UNCHANGED <<machine, hosts, doc, healing, lock, chk, rst, adm, boundVars>>

(* Redis drops the lock after its timeout. *)
LockExpires(r) ==
    /\ lock = r
    /\ IF At(r, "idle") THEN UNCHANGED <<disruptions, expiries>>
                        ELSE Disrupt /\ expiries' = expiries + 1
    /\ lock' = None
    /\ UNCHANGED <<machine, hosts, docVars, healing, chk, rst, adm, failures>>

(* The worker is killed: nothing is undone, its lock stays until it expires. *)
Crash(r) ==
    /\ ~At(r, "idle")
    /\ Disrupt
    /\ rst' = [rst EXCEPT ![r] = IdleRst]
    /\ unrecorded' = IF At(r, "update_task") THEN Forgotten(rst[r].task) ELSE unrecorded
    /\ UNCHANGED <<machine, hosts, doc, attempt, failed, healing, lock, chk, adm, failures,
                   expiries>>

Next ==
    \/ \E c \in Checkers : CheckStep(c)
    \/ \E r \in Restorers : RestoreStep(r) \/ Crash(r) \/ LockExpires(r)
    \/ \E m \in Machines :
          \/ AdminRestore(m) \/ AdminCancel(m)
          \/ MachineChanges(m) \/ MachineDestroyed(m) \/ BecomesDue(m) \/ BackoffEnds(m)
    \/ AdminWrite

Spec == Init /\ [][Next]_vars

(* The schedulers of healing.py start both tasks again and again, a task   *)
(* that runs goes on, and time passes.                                     *)
FairSpec ==
    /\ Spec
    /\ \A c \in Checkers : WF_vars(CheckStep(c))
    /\ \A r \in Restorers : WF_vars(RestoreStep(r)) /\ WF_vars(LockExpires(r))
    /\ \A m \in Machines : WF_vars(BecomesDue(m)) /\ WF_vars(BackoffEnds(m))
-----------------------------------------------------------------------------
(* Properties *)

Restoring(r) == rst[r].pc \in RestorePcs

(* No two workers stop or restore machines at the same time, even when one *)
(* was killed with the lock (restore_lock, tasks.py): the service loses at *)
(* most one machine at a time to healing.  While no lock expires under a   *)
(* running worker.                                                         *)
RestoreExclusive ==
    expiries = 0 => \A r, s \in Restorers : Restoring(r) /\ Restoring(s) => r = s

(* A worker that lost its lock to a timeout never gives up the lock of the *)
(* worker that holds it now (lock.py, unlock in an except block).          *)
OwnLockOnly ==
    [][\A r \in Restorers : lock = r /\ lock' # r => Unlock(r) \/ LockExpires(r)]_vars

(* After a restore that failed, as the healings collection tells, no       *)
(* machine of that instance is stopped for the failure delay, so that one  *)
(* instance never loses machine after machine to a broken template.  The   *)
(* delay itself is kept only in the restore document: it is lost, and the  *)
(* next run stops a machine at once, when the document was cancelled or    *)
(* found unneeded before or after update_task, which inserts none, or the  *)
(* worker was killed before it.  While no lock expires under a worker that *)
(* runs.                                                                   *)
BackoffRespected ==
    [][\A r \in Restorers : Stop(r) /\ expiries = 0 =>
          ~\E f \in Machines \ unrecorded : /\ failed[f] \in Lately
                                            /\ InstanceOf[f] = InstanceOf[rst[r].task]]_vars

(* A machine that fails is restored in the end, whatever fails, crashes or *)
(* is cancelled meanwhile, unless it is destroyed or one of its instance's *)
(* machines cannot be restored: failing instances do not hold up others.   *)
MachineHeals ==
    \A m \in Machines :
        (\A b \in Broken : InstanceOf[b] # InstanceOf[m]) =>
            (machine[m] # "up" ~> machine[m] = "up" \/ m \notin hosts)
=============================================================================
