-------------------------------- MODULE Swap --------------------------------
(***************************************************************************)
(* Two instances that are swapped: each names the other in its swap key in *)
(* Consul (rpaas/consul_manager.py), and a swapped instance must not be    *)
(* removed (rpaas/manager.py).  A swap decides on three reads and then     *)
(* writes two keys; a removal reads the key, gives up its task document    *)
(* and leaves the rest to RemoveInstanceTask.  Nothing locks a pair.       *)
(***************************************************************************)
EXTENDS FiniteSets, Naturals

CONSTANTS
    Instances,  \* names of instances
    Jobs,       \* swaps and removals that may be under way at once
    None,       \* no instance
    MaxJobs,    \* bound: swaps, removals and creations
    MaxDeaths   \* bound: of them that raise or die between two calls

ASSUME SwapAssumption ==
    /\ None \notin Instances
    /\ MaxJobs \in Nat /\ MaxDeaths \in Nat

VARIABLES
    live,       \* instances with a load balancer
    task,       \* instances with a task document
    partner,    \* partner[i]: the swap key of i
    job,        \* job[j]: a swap or a removal, with what it has read
    jobs, deaths,   \* how much of each bound is spent
    mixed       \* history: instances whose last job failed or overlapped another

swapVars == <<live, task, partner, job, jobs, deaths, mixed>>
-----------------------------------------------------------------------------
Idle == [pc |-> "idle", src |-> None, dst |-> None, seen |-> None, clean |-> TRUE]

JobType ==
    [pc : {"idle", "src", "dst", "again", "first", "second", "doc", "task",
           "binding", "tree", "lb"},
     src : Instances \cup {None}, dst : Instances \cup {None},
     seen : Instances \cup {None}, clean : BOOLEAN]

SwapTypeOK ==
    /\ live \subseteq Instances /\ task \subseteq Instances /\ mixed \subseteq Instances
    /\ partner \in [Instances -> Instances \cup {None}]
    /\ job \in [Jobs -> JobType]
    /\ jobs \in Nat /\ deaths \in Nat

SwapInit ==
    /\ live = Instances /\ task = {} /\ mixed = {}
    /\ partner = [i \in Instances |-> None]
    /\ job = [j \in Jobs |-> Idle]
    /\ jobs = 0 /\ deaths = 0
-----------------------------------------------------------------------------
Working(j) == job[j].pc # "idle"
Names(j) == {job[j].src, job[j].dst} \ {None}
WorkOn(i) == {j \in Jobs : Working(j) /\ i \in Names(j)}

(* Jobs on disjoint instances do not disturb each other. *)
BeginJob(j, pc, src, dst) ==
    LET names == {src, dst} \ {None}
        rivals == UNION {WorkOn(i) : i \in names}
    IN  /\ ~Working(j)
        /\ jobs < MaxJobs /\ jobs' = jobs + 1
        /\ job' = [k \in Jobs |->
                      IF k = j THEN [pc |-> pc, src |-> src, dst |-> dst,
                                     seen |-> None, clean |-> rivals = {}]
                      ELSE [job[k] EXCEPT !.clean = @ /\ k \notin rivals]]
        /\ mixed' = IF rivals = {} THEN mixed
                    ELSE mixed \cup names \cup UNION {Names(k) : k \in rivals}
        /\ UNCHANGED <<live, partner, deaths>>

Goto(j, pc) == job' = [job EXCEPT ![j].pc = pc]

(* A job that wrote all it is about and is still clean mends it. *)
EndJob(j) ==
    /\ job' = [job EXCEPT ![j] = Idle]
    /\ mixed' = IF job[j].clean THEN mixed \ Names(j) ELSE mixed

GiveUp(j) == job' = [job EXCEPT ![j] = Idle] /\ UNCHANGED mixed

(* new_instance and its task, as InstanceLifecycle has them in detail. *)
CreateInstance(i) ==
    /\ i \notin live \cup task
    /\ jobs < MaxJobs /\ jobs' = jobs + 1
    /\ live' = live \cup {i}
    /\ mixed' = IF WorkOn(i) = {} THEN mixed ELSE mixed \cup {i}
    /\ UNCHANGED <<task, partner, deaths>>
    /\ job' = [j \in Jobs |-> [job[j] EXCEPT !.clean = @ /\ j \notin WorkOn(i)]]
-----------------------------------------------------------------------------
(* swap: ensure_ready and LoadBalancer.find of both. *)
BeginSwap(j, a, b) ==
    /\ {a, b} \subseteq live \ task
    /\ BeginJob(j, "src", a, b)
    /\ UNCHANGED task

(* check_swap_state *)
CheckSrc(j) ==
    /\ job[j].pc = "src"
    /\ job' = [job EXCEPT ![j].pc = "dst", ![j].seen = partner[job[j].src]]
    /\ UNCHANGED <<live, task, partner, jobs, deaths, mixed>>

Swappable_OneFree(a, b, ofA, ofB) == {ofA, ofB} = {a, b} \/ None \in {ofA, ofB}
Swappable(a, b, ofA, ofB) ==
    \/ ofA = None /\ ofB = None
    \/ ofA = a /\ ofB = b
    \/ ofA = b /\ ofB = a

CheckDst(j) ==
    LET me == job[j]
    IN  /\ me.pc = "dst"
        /\ IF Swappable(me.src, me.dst, me.seen, partner[me.dst])
           THEN Goto(j, "again") /\ UNCHANGED mixed
           ELSE GiveUp(j)
        /\ UNCHANGED <<live, task, partner, jobs, deaths>>

(* swap_instances reads the key of the source once more. *)
ReadAgain(j) ==
    /\ job[j].pc = "again"
    /\ job' = [job EXCEPT ![j].pc = "first", ![j].seen = partner[job[j].src]]
    /\ UNCHANGED <<live, task, partner, jobs, deaths, mixed>>

(* A pair is dissolved, anything else becomes a pair. *)
Written(j, other) == IF job[j].seen = job[j].dst THEN None ELSE other

WriteSrc(j) ==
    /\ job[j].pc = "first"
    /\ partner' = [partner EXCEPT ![job[j].src] = Written(j, job[j].dst)]
    /\ Goto(j, "second")
    /\ UNCHANGED <<live, task, jobs, deaths, mixed>>

WriteDst(j) ==
    /\ job[j].pc = "second"
    /\ partner' = [partner EXCEPT ![job[j].dst] = Written(j, job[j].src)]
    /\ EndJob(j)
    /\ UNCHANGED <<live, task, jobs, deaths>>
-----------------------------------------------------------------------------
(* remove_instance: check_swap_state of the name and of "None", which is   *)
(* the key of no instance, then the task document.                         *)
MayRemove(i) == partner[i] = None

BeginRemoval(j, i) ==
    /\ MayRemove(i)
    /\ BeginJob(j, "doc", i, None)
    /\ UNCHANGED task

(* NotReadyError if another task has its document. *)
CreateTaskDoc(j) ==
    /\ job[j].pc = "doc"
    /\ IF job[j].src \in task THEN GiveUp(j) /\ UNCHANGED task
       ELSE task' = task \cup {job[j].src} /\ Goto(j, "task") /\ UNCHANGED mixed
    /\ UNCHANGED <<live, partner, jobs, deaths>>

(* The document is gone again before the rest of the request is done. *)
RemoveTaskDoc(j) ==
    /\ job[j].pc = "task"
    /\ task' = task \ {job[j].src}
    /\ Goto(j, "binding")
    /\ UNCHANGED <<live, partner, jobs, deaths, mixed>>

(* remove_binding, remove_instance_metadata; the task is enqueued. *)
RemoveBinding(j) ==
    /\ job[j].pc = "binding"
    /\ Goto(j, "tree")
    /\ UNCHANGED <<live, task, partner, jobs, deaths, mixed>>

(* destroy_instance deletes every key of the instance, unless the task     *)
(* finds no load balancer.                                                 *)
DestroyTree(j) ==
    LET i == job[j].src
    IN  /\ job[j].pc = "tree"
        /\ IF i \in live
           THEN partner' = [partner EXCEPT ![i] = None] /\ Goto(j, "lb") /\ UNCHANGED mixed
           ELSE GiveUp(j) /\ UNCHANGED partner
        /\ UNCHANGED <<live, task, jobs, deaths>>

DestroyLB(j) ==
    /\ job[j].pc = "lb"
    /\ live' = live \ {job[j].src}
    /\ EndJob(j)
    /\ UNCHANGED <<task, partner, jobs, deaths>>

(* Consul fails a call or a process dies; a removal leaves its document. *)
JobDies(j) ==
    /\ Working(j)
    /\ deaths < MaxDeaths /\ deaths' = deaths + 1
    /\ job' = [job EXCEPT ![j] = Idle]
    /\ mixed' = mixed \cup Names(j)
    /\ UNCHANGED <<live, task, partner, jobs>>

JobStep(j) ==
    \/ CheckSrc(j) \/ CheckDst(j) \/ ReadAgain(j) \/ WriteSrc(j) \/ WriteDst(j)
    \/ CreateTaskDoc(j) \/ RemoveTaskDoc(j)
-----------------------------------------------------------------------------
(* Properties *)

(* A swap is mutual and both of its instances exist: otherwise neither can *)
(* be swapped back or removed, ever.  For every instance no job is about,  *)
(* unless its last job failed halfway or overlapped another about it; jobs *)
(* on other instances may run at the same time, in any order.              *)
SwapPaired ==
    \A i \in Instances :
        LET p == partner[i]
        IN  p # None /\ WorkOn(i) = {} /\ i \notin mixed =>
                partner[p] = i /\ {i, p} \subseteq live
=============================================================================
