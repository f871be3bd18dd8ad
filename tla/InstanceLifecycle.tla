------------------------- MODULE InstanceLifecycle -------------------------
(***************************************************************************)
(* The life of a service instance: the API requests that create, resize,   *)
(* update and remove it (rpaas/manager.py), the Celery tasks they enqueue  *)
(* (rpaas/tasks.py) and the stores both sides share - the quota, task and  *)
(* metadata collections of MongoDB (rpaas/storage.py), the key tree of the *)
(* instance in Consul, the health check record (rpaas/hc.py) and the load  *)
(* balancers and hosts of the hm library.                                  *)
(*                                                                         *)
(* API requests run in many greenlets and processes, tasks in many Celery  *)
(* workers, and nothing serialises them but the documents they write.  So  *)
(* every call to a store or a service is one step, and a request or a task *)
(* keeps between its steps only what its code keeps in local variables.    *)
(***************************************************************************)
EXTENDS SequencesExt

CONSTANTS
    Names,          \* service instance names
    Teams,          \* teams charged for instances
    Requests,       \* API request handlers that may run at once
    Workers,        \* Celery worker processes
    LBs, Hosts,     \* load balancers and machines hm can hand out, never reused
    Nothing,        \* None
    DefaultQuota,   \* quota in a team document nobody configured
    QuotaValues,    \* quotas an administrator may set
    Quantities,     \* quantities a scale request may ask for
    Client,         \* discipline of the API's client, see MayIssue
    Rollback,       \* RPAAS_ROLLBACK_ON_ERROR
    RetainLB,       \* RPAAS_RETAIN_LOAD_BALANCER
    MaxOps,         \* bound: API requests in a behaviour
    MaxRequestFaults, \* bound: API requests that raise or die halfway
    MaxFaults,      \* bound: calls of tasks that raise although they could succeed
    MaxCrashes      \* bound: workers killed in the middle of a task

ASSUME ConstantsAssumption ==
    /\ DefaultQuota \in Nat
    /\ QuotaValues \subseteq Nat \ {0}
    /\ Quantities \subseteq Nat
    /\ Nothing \notin Names \cup LBs \cup Hosts
    /\ {"unused", "destroyed"} \cap Names = {}
    /\ Client \in {"any", "polling", "patient", "orderly"}
    /\ Rollback \in BOOLEAN /\ RetainLB \in BOOLEAN
    /\ MaxOps \in Nat /\ MaxRequestFaults \in Nat
    /\ MaxFaults \in Nat /\ MaxCrashes \in Nat

VARIABLES
    used,       \* used[t]: the list of names charged to team t
    quota,      \* quota[t]: the team's quota
    granted,    \* history: the largest quota the team ever had
    taskDoc,    \* taskDoc[n]: "none", or the task document "created"/"queued"
    metadata,   \* names with an instance_metadata document
    kv,         \* names with a key tree in Consul
    hcs,        \* names with a health check document
    urls,       \* urls[n]: hosts listed as urls in that document
    lbOf,       \* lbOf[l]: the instance of load balancer l, "unused", "destroyed"
    attached,   \* attached[l]: hosts behind l, oldest first
    hostOf,     \* hostOf[h]: the instance machine h runs, "unused", "destroyed"
    req,        \* req[r]: the request handler r and its local variables
    queue,      \* the Celery queue
    wk,         \* wk[w]: the worker w and the local variables of its task
    ops, reqFaults, faults, crashes    \* how much of each bound is spent

quotaVars == <<used, quota, granted>>
storeVars == <<taskDoc, metadata, kv, hcs, urls>>
cloudVars == <<lbOf, attached, hostOf>>
boundVars == <<ops, reqFaults, faults, crashes>>
vars == <<quotaVars, storeVars, cloudVars, req, queue, wk, boundVars>>
-----------------------------------------------------------------------------
(* Types *)

IdleReq == [pc |-> "idle", op |-> "none", name |-> Nothing,
            team |-> Nothing, prev |-> <<>>, qty |-> 0]

ReqPcs == {"idle", "increment_quota", "find_lb", "create_task",
           "write_healthcheck", "decrement_quota", "remove_task",
           "remove_metadata", "find_metadata", "store_metadata", "delay",
           "update_task"}

ReqType == [pc : ReqPcs, op : {"none", "new", "remove", "scale", "update"},
            name : Names \cup {Nothing}, team : Teams \cup {Nothing},
            prev : Seq(Names), qty : Nat]

TaskType == [kind : {"new", "remove", "scale"}, name : Names, qty : Nat]

IdleWk == [pc |-> "idle", kind |-> "none", name |-> Nothing, qty |-> 0,
           lb |-> Nothing, fresh |-> FALSE, empty |-> FALSE,
           host |-> Nothing, adds |-> 0, todo |-> <<>>,
           rolling |-> FALSE, error |-> FALSE]

AddPcs == {"create_lb", "create_hc", "create_host", "add_host",
           "wait_healthcheck", "add_url"}
DeletePcs == {"destroy_host", "remove_host", "remove_url"}
TailPcs == {"destroy_instance", "destroy_lb", "destroy_hc"}
RollbackPcs == {"rollback_lb", "rollback_hc"}
FinallyPcs == {"add_finally", "delete_finally", "scale_finally"}

WkType == [pc : {"idle", "find_lb"} \cup AddPcs \cup DeletePcs \cup TailPcs
                \cup RollbackPcs \cup FinallyPcs,
           kind : {"none", "new", "remove", "scale"},
           name : Names \cup {Nothing}, qty : Nat,
           lb : LBs \cup {Nothing}, fresh : BOOLEAN, empty : BOOLEAN,
           host : Hosts \cup {Nothing}, adds : Nat, todo : Seq(Hosts),
           rolling : BOOLEAN, error : BOOLEAN]

TypeOK ==
    /\ used \in [Teams -> Seq(Names)]
    /\ quota \in [Teams -> Nat] /\ granted \in [Teams -> Nat]
    /\ taskDoc \in [Names -> {"none", "created", "queued"}]
    /\ metadata \in SUBSET Names /\ kv \in SUBSET Names
    /\ hcs \in SUBSET Names /\ urls \in [Names -> SUBSET Hosts]
    /\ lbOf \in [LBs -> Names \cup {"unused", "destroyed"}]
    /\ attached \in [LBs -> Seq(Hosts)]
    /\ hostOf \in [Hosts -> Names \cup {"unused", "destroyed"}]
    /\ req \in [Requests -> ReqType]
    /\ queue \in Seq(TaskType)
    /\ wk \in [Workers -> WkType]
    /\ ops \in Nat /\ reqFaults \in Nat /\ faults \in Nat /\ crashes \in Nat

(* What the local variables of a request hold while it runs. *)
ReqRecordOK(q) ==
    /\ q.pc # "idle" => q.name \in Names /\ q.op # "none"
    /\ q.pc = "increment_quota" => q.team \in Teams
    /\ q.op = "update" => q.pc \in {"find_lb", "find_metadata", "store_metadata"}

(* What the local variables of a task hold: an LB and a host where they are used. *)
WkRecordOK(t) ==
    /\ t.pc # "idle" => t.name \in Names
    /\ t.pc \notin {"idle", "find_lb", "create_lb", "add_finally", "scale_finally"}
          => t.lb \in LBs
    /\ t.pc = "add_finally" /\ t.kind = "scale" => t.lb \in LBs
    /\ t.pc = "create_lb" => t.kind = "new"
    /\ t.pc \in {"add_host", "wait_healthcheck", "add_url"} \cup DeletePcs
          => t.host \in Hosts

RecordsOK ==
    /\ \A r \in Requests : ReqRecordOK(req[r])
    /\ \A w \in Workers : WkRecordOK(wk[w])

Init ==
    /\ used = [t \in Teams |-> <<>>]
    /\ quota = [t \in Teams |-> DefaultQuota]
    /\ granted = [t \in Teams |-> DefaultQuota]
    /\ taskDoc = [n \in Names |-> "none"]
    /\ metadata = {} /\ kv = {} /\ hcs = {}
    /\ urls = [n \in Names |-> {}]
    /\ lbOf = [l \in LBs |-> "unused"]
    /\ attached = [l \in LBs |-> <<>>]
    /\ hostOf = [h \in Hosts |-> "unused"]
    /\ req = [r \in Requests |-> IdleReq]
    /\ queue = <<>>
    /\ wk = [w \in Workers |-> IdleWk]
    /\ ops = 0 /\ reqFaults = 0 /\ faults = 0 /\ crashes = 0
-----------------------------------------------------------------------------
(* What LoadBalancer.find and the client of the API see *)

LBsOf(n) == {l \in LBs : lbOf[l] = n}

Charged(n) == \E t \in Teams : Contains(used[t], n)

InRequest(n) == \E r \in Requests : req[r].pc # "idle" /\ req[r].name = n

InTask(n) ==
    \/ \E i \in DOMAIN queue : queue[i].name = n
    \/ \E w \in Workers : wk[w].pc # "idle" /\ wk[w].name = n

(* Nothing in the system still works on instance n. *)
Quiet(n) == ~InRequest(n) /\ ~InTask(n)

(***************************************************************************)
(* The client (tsuru) decides when the next request about an instance is   *)
(* sent.  "any": whenever it likes.  "polling": it waits for its own       *)
(* requests and for status to stop answering pending, that is for the task *)
(* document to disappear.  "patient": it knows when all work on the        *)
(* instance is over, queued tasks included.  "orderly": so does it, and it *)
(* scales only what exists.                                                *)
(***************************************************************************)
MayIssue(n, op) ==
    /\ ops < MaxOps
    /\ Client = "polling" => ~InRequest(n) /\ taskDoc[n] = "none"
    /\ Client \in {"patient", "orderly"} => Quiet(n)
    /\ Client = "orderly" => (op = "scale" => LBsOf(n) # {})

-----------------------------------------------------------------------------
(* Team quota, storage.py *)

(* The list without n, which it holds at most once: $pull on the bill of a *)
(* team, remove_host on the hosts of an LB.                                *)
Pull(s, n) ==
    IF Contains(s, n)
    THEN RemoveAt(s, CHOOSE i \in 1..Len(s) : s[i] = n)
    ELSE s

(* db.update(..., {'$addToSet': {'used': n}}) *)
AddToSet(s, n) == IF Contains(s, n) THEN s ELSE Append(s, n)

(* What decrement_quota leaves on the bills: its query matches every team. *)
Unbilled_OneTeam(n) ==
    LET payers == {t \in Teams : Contains(used[t], n)}
    IN  IF payers = {} THEN used
        ELSE [used EXCEPT ![CHOOSE t \in payers : TRUE] = Pull(@, n)]
Unbilled(n) == [t \in Teams |-> Pull(used[t], n)]

(* An administrator sets the quota of a team, below what it uses or above. *)
SetTeamQuota(t, q) ==
    /\ quota' = [quota EXCEPT ![t] = q]
    /\ granted' = [granted EXCEPT ![t] = IF q > @ THEN q ELSE @]
    /\ UNCHANGED <<used, storeVars, cloudVars, req, queue, wk, boundVars>>
-----------------------------------------------------------------------------
(***************************************************************************)
(* API requests.  A request refused by its first read changes nothing, so  *)
(* that first read is the guard of the action that begins the request.     *)
(***************************************************************************)

Begin(r, first) ==
    /\ req[r].pc = "idle"
    /\ MayIssue(first.name, first.op)
    /\ req' = [req EXCEPT ![r] = first]
    /\ ops' = ops + 1
    /\ UNCHANGED <<quotaVars, cloudVars, metadata, kv, hcs, urls, queue, wk,
                   reqFaults, faults, crashes>>

At(r, pc) == req[r].pc = pc
Goto(r, pc) == req' = [req EXCEPT ![r].pc = pc]
Return(r) == req' = [req EXCEPT ![r] = IdleReq]

(* new_instance reads the team's document and passes the quota check. *)
NewInstance(r, n, t) ==
    /\ Len(used[t]) < quota[t]
    /\ Begin(r, [IdleReq EXCEPT !.pc = "increment_quota", !.op = "new",
                 !.name = n, !.team = t, !.prev = used[t]])
    /\ UNCHANGED taskDoc

(* remove_instance creates the task document; it never looks for the LB. *)
RemoveInstance(r, n) ==
    /\ taskDoc[n] = "none"
    /\ Begin(r, [IdleReq EXCEPT !.pc = "decrement_quota", !.op = "remove", !.name = n])
    /\ taskDoc' = [taskDoc EXCEPT ![n] = "created"]

(* scale_instance finds the instance ready and the quantity valid. *)
ScaleInstance(r, n, q) ==
    /\ taskDoc[n] = "none"
    /\ Begin(r, [IdleReq EXCEPT !.pc = "create_task", !.op = "scale",
                 !.name = n, !.qty = q])
    /\ UNCHANGED taskDoc

(* update_instance finds the plan, the flavor and the instance ready. *)
UpdateInstance(r, n) ==
    /\ taskDoc[n] = "none"
    /\ Begin(r, [IdleReq EXCEPT !.pc = "find_lb", !.op = "update", !.name = n])
    /\ UNCHANGED taskDoc

(* The query of increment_quota: the list is still the one that was read. *)
BillUnchanged_NotCompared(r) == TRUE
BillUnchanged(r) == used[req[r].team] = req[r].prev

Billed_TeamName(r) == AddToSet(used[req[r].team], req[r].team)
Billed(r) == AddToSet(used[req[r].team], req[r].name)

IncrementQuota(r) ==
    LET t == req[r].team
    IN  /\ At(r, "increment_quota")
        /\ IF BillUnchanged(r)
           THEN /\ used' = [used EXCEPT ![t] = Billed(r)]
                /\ Goto(r, "find_lb")
           ELSE /\ Return(r)
                /\ UNCHANGED used
        /\ UNCHANGED <<quota, granted, storeVars, cloudVars, queue, wk, boundVars>>

(* LoadBalancer.find: a new instance must not exist, an updated one must. *)
InstanceFound_NewUnchecked(r) == req[r].op = "update"
InstanceFound(r) == LBsOf(req[r].name) # {}

FindLB(r) ==
    /\ At(r, "find_lb")
    /\ CASE req[r].op = "new" /\ ~InstanceFound(r) -> Goto(r, "create_task")
         [] req[r].op = "update" /\ InstanceFound(r) -> Goto(r, "find_metadata")
         [] OTHER -> Return(r)
    /\ UNCHANGED <<quotaVars, storeVars, cloudVars, queue, wk, boundVars>>

(* task_manager.create: the unique _id refuses a second document. *)
CreateTask(r) ==
    LET n == req[r].name
    IN  /\ At(r, "create_task")
        /\ IF taskDoc[n] = "none"
           THEN /\ taskDoc' = [taskDoc EXCEPT ![n] = "created"]
                /\ Goto(r, IF req[r].op = "new" THEN "write_healthcheck"
                                               ELSE "find_metadata")
           ELSE /\ Return(r)
                /\ UNCHANGED taskDoc
        /\ UNCHANGED <<quotaVars, metadata, kv, hcs, urls, cloudVars, queue, wk,
                       boundVars>>

(* generate_token and write_healthcheck put the first keys of the instance. *)
WriteHealthcheck(r) ==
    /\ At(r, "write_healthcheck")
    /\ kv' = kv \cup {req[r].name}
    /\ Goto(r, "store_metadata")
    /\ UNCHANGED <<quotaVars, taskDoc, metadata, hcs, urls, cloudVars, queue, wk,
                   boundVars>>

(* scale_instance generates a token for an instance without metadata;      *)
(* update_instance fails with a TypeError when there is none.              *)
FindMetadata(r) ==
    /\ At(r, "find_metadata")
    /\ CASE req[r].op = "scale" ->
               Goto(r, IF req[r].name \in metadata THEN "delay" ELSE "store_metadata")
         [] req[r].op = "update" /\ req[r].name \in metadata -> Goto(r, "store_metadata")
         [] OTHER -> Return(r)
    /\ UNCHANGED <<quotaVars, storeVars, cloudVars, queue, wk, boundVars>>

(* store_instance_metadata is an upsert. *)
StoreMetadata(r) ==
    /\ At(r, "store_metadata")
    /\ metadata' = metadata \cup {req[r].name}
    /\ IF req[r].op = "update" THEN Return(r) ELSE Goto(r, "delay")
    /\ UNCHANGED <<quotaVars, taskDoc, kv, hcs, urls, cloudVars, queue, wk, boundVars>>

(* decrement_quota takes the instance off the bill of every team. *)
DecrementQuota(r) ==
    /\ At(r, "decrement_quota")
    /\ used' = Unbilled(req[r].name)
    /\ Goto(r, "remove_task")
    /\ UNCHANGED <<quota, granted, storeVars, cloudVars, queue, wk, boundVars>>

(* remove_instance gives the task document up before it enqueues the task. *)
RemoveTask(r) ==
    /\ At(r, "remove_task")
    /\ taskDoc' = [taskDoc EXCEPT ![req[r].name] = "none"]
    /\ Goto(r, "remove_metadata")
    /\ UNCHANGED <<quotaVars, metadata, kv, hcs, urls, cloudVars, queue, wk, boundVars>>

RemoveMetadata(r) ==
    /\ At(r, "remove_metadata")
    /\ metadata' = metadata \ {req[r].name}
    /\ Goto(r, "delay")
    /\ UNCHANGED <<quotaVars, taskDoc, kv, hcs, urls, cloudVars, queue, wk, boundVars>>

(* Task.delay puts the task in the broker's queue. *)
Delay(r) ==
    /\ At(r, "delay")
    /\ queue' = Append(queue, [kind |-> req[r].op, name |-> req[r].name,
                               qty |-> req[r].qty])
    /\ IF req[r].op = "remove" THEN Return(r) ELSE Goto(r, "update_task")
    /\ UNCHANGED <<quotaVars, storeVars, cloudVars, wk, boundVars>>

(* task_manager.update writes the task id, without upsert: the worker may  *)
(* already have removed the document.                                      *)
UpdateTask(r) ==
    /\ At(r, "update_task")
    /\ taskDoc' = [taskDoc EXCEPT ![req[r].name] =
                      IF @ = "none" THEN "none" ELSE "queued"]
    /\ Return(r)
    /\ UNCHANGED <<quotaVars, metadata, kv, hcs, urls, cloudVars, queue, wk, boundVars>>

(* A call of the request raises, or its process dies: nothing is undone. *)
RequestRaises(r) ==
    /\ req[r].pc # "idle"
    /\ reqFaults < MaxRequestFaults
    /\ reqFaults' = reqFaults + 1
    /\ Return(r)
    /\ UNCHANGED <<quotaVars, storeVars, cloudVars, queue, wk, ops, faults, crashes>>

RequestStep(r) ==
    \/ IncrementQuota(r) \/ FindLB(r) \/ CreateTask(r) \/ WriteHealthcheck(r)
    \/ FindMetadata(r) \/ StoreMetadata(r) \/ DecrementQuota(r) \/ RemoveTask(r)
    \/ RemoveMetadata(r) \/ Delay(r) \/ UpdateTask(r)
-----------------------------------------------------------------------------
(***************************************************************************)
(* Celery tasks.  A worker keeps the hosts of its LoadBalancer object as   *)
(* they were when it was found or created: "todo" are the ones still to    *)
(* delete, "adds" the number still to create, "empty" says there were none.*)
(***************************************************************************)

In(w, pc) == wk[w].pc = pc
Set(w, rec) == wk' = [wk EXCEPT ![w] = rec]
Enter(w, pc) == wk' = [wk EXCEPT ![w].pc = pc]

(* The worker's task with the next host to delete, or at "done" if none is left. *)
NextDelete_KeepsLast(t, done) ==
    IF Len(t.todo) <= 1 THEN [t EXCEPT !.pc = done, !.host = Nothing]
    ELSE [t EXCEPT !.pc = "destroy_host", !.host = Head(t.todo), !.todo = Tail(t.todo)]
NextDelete(t, done) ==
    IF t.todo = <<>> THEN [t EXCEPT !.pc = done, !.host = Nothing]
    ELSE [t EXCEPT !.pc = "destroy_host", !.host = Head(t.todo), !.todo = Tail(t.todo)]

(* The rollback of _add_host after the LB: delete the host, if it was created. *)
RollbackHost_Kept(t) == [t EXCEPT !.pc = "rollback_hc"]
RollbackHost(t) ==
    IF t.host = Nothing THEN [t EXCEPT !.pc = "rollback_hc"]
    ELSE [t EXCEPT !.pc = "destroy_host", !.rolling = TRUE]

(* A worker takes the oldest task; the broker forgets it. *)
TakeTask(w) ==
    /\ In(w, "idle")
    /\ queue # <<>>
    /\ LET m == Head(queue)
       IN  Set(w, [IdleWk EXCEPT !.kind = m.kind, !.name = m.name, !.qty = m.qty,
                     !.pc = IF m.kind = "new" THEN "create_lb" ELSE "find_lb",
                     !.adds = IF m.kind = "new" THEN 1 ELSE 0])
    /\ queue' = Tail(queue)
    /\ UNCHANGED <<quotaVars, storeVars, cloudVars, req, boundVars>>

(* RemoveInstanceTask deletes the hosts of the LB one by one, ScaleInstanceTask *)
(* adds the hosts missing or deletes as many of the first hosts as are too many. *)
TaskFindLB(w) ==
    /\ In(w, "find_lb")
    /\ \E l \in LBsOf(wk[w].name) :
          LET hosts == attached[l]
              found == [wk[w] EXCEPT !.lb = l, !.empty = (hosts = <<>>)]
              extra == Len(hosts) - wk[w].qty
          IN  CASE found.kind = "remove" ->
                     Set(w, NextDelete([found EXCEPT !.todo = hosts], "destroy_instance"))
                [] found.kind = "scale" /\ extra < 0 ->
                     Set(w, [found EXCEPT !.pc = "create_host", !.adds = -extra])
                [] OTHER ->
                     Set(w, NextDelete([found EXCEPT !.todo = SubSeq(hosts, 1, extra)],
                                       "scale_finally"))
    /\ UNCHANGED <<quotaVars, storeVars, cloudVars, req, queue, boundVars>>

(* _add_host *)

CreateLB(w) ==
    /\ In(w, "create_lb")
    /\ \E l \in LBsOf("unused") :
          /\ lbOf' = [lbOf EXCEPT ![l] = wk[w].name]
          /\ Set(w, [wk[w] EXCEPT !.pc = "create_hc", !.lb = l, !.fresh = TRUE,
                                  !.empty = TRUE])
    /\ UNCHANGED <<quotaVars, storeVars, attached, hostOf, req, queue, boundVars>>

(* The health check client: create, add_url and remove_url read the        *)
(* document, ask the service and store the document, and the step stands   *)
(* for the last of the three.  Until a call fails, who reads the document  *)
(* in between is another task of the same name, which the properties that  *)
(* read urls leave out; a call that raises leaves the document as it was,  *)
(* whatever the service did.  create replaces the document of an earlier   *)
(* health check of that name.                                              *)
CreateHC(w) ==
    /\ In(w, "create_hc")
    /\ hcs' = hcs \cup {wk[w].name}
    /\ urls' = [urls EXCEPT ![wk[w].name] = {}]
    /\ Enter(w, "create_host")
    /\ UNCHANGED <<quotaVars, taskDoc, metadata, kv, cloudVars, req, queue, boundVars>>

CreateHost(w) ==
    /\ In(w, "create_host")
    /\ \E h \in Hosts :
          /\ hostOf[h] = "unused"
          /\ hostOf' = [hostOf EXCEPT ![h] = wk[w].name]
          /\ Set(w, [wk[w] EXCEPT !.pc = "add_host", !.host = h])
    /\ UNCHANGED <<quotaVars, storeVars, lbOf, attached, req, queue, boundVars>>

AddHost(w) ==
    /\ In(w, "add_host")
    /\ lbOf[wk[w].lb] # "destroyed"
    /\ attached' = [attached EXCEPT ![wk[w].lb] = Append(@, wk[w].host)]
    /\ Enter(w, "wait_healthcheck")
    /\ UNCHANGED <<quotaVars, storeVars, lbOf, hostOf, req, queue, boundVars>>

WaitHealthcheck(w) ==
    /\ In(w, "wait_healthcheck")
    /\ hostOf[wk[w].host] # "destroyed"
    /\ Enter(w, "add_url")
    /\ UNCHANGED <<quotaVars, storeVars, cloudVars, req, queue, boundVars>>

AddURL(w) ==
    /\ In(w, "add_url")
    /\ wk[w].name \in hcs
    /\ urls' = [urls EXCEPT ![wk[w].name] = @ \cup {wk[w].host}]
    /\ Enter(w, "add_finally")
    /\ UNCHANGED <<quotaVars, taskDoc, metadata, kv, hcs, cloudVars, req, queue,
                   boundVars>>

(* ScaleInstanceTask has more hosts to add. *)
MoreHosts_OneShort(t) == t.kind = "scale" /\ ~t.error /\ t.adds > 2
MoreHosts(t) == t.kind = "scale" /\ ~t.error /\ t.adds > 1

(* The finally of _add_host removes the task document after every host. *)
AddFinally(w) ==
    LET t == wk[w]
        next == CASE t.kind = "new" -> IdleWk
                  [] t.kind # "new" /\ MoreHosts(t) ->
                       [t EXCEPT !.pc = "create_host", !.adds = @ - 1, !.host = Nothing]
                  [] OTHER -> [t EXCEPT !.pc = "scale_finally"]
    IN  /\ In(w, "add_finally")
        /\ taskDoc' = [taskDoc EXCEPT ![t.name] = "none"]
        /\ Set(w, next)
        /\ UNCHANGED <<quotaVars, metadata, kv, hcs, urls, cloudVars, req, queue,
                       boundVars>>

(* _delete_host *)

(* The rollback of a new instance passes no LB: there is none to remove from. *)
DestroyHost(w) ==
    LET h == wk[w].host
    IN  /\ In(w, "destroy_host")
        /\ hostOf[h] # "destroyed"
        /\ hostOf' = [hostOf EXCEPT ![h] = "destroyed"]
        /\ Enter(w, IF wk[w].rolling /\ wk[w].fresh THEN "remove_url" ELSE "remove_host")
        /\ UNCHANGED <<quotaVars, storeVars, lbOf, attached, req, queue, boundVars>>

RemoveHost(w) ==
    LET l == wk[w].lb
    IN  /\ In(w, "remove_host")
        /\ lbOf[l] # "destroyed"
        /\ attached' = [attached EXCEPT ![l] = Pull(@, wk[w].host)]
        /\ Enter(w, "remove_url")
        /\ UNCHANGED <<quotaVars, storeVars, lbOf, hostOf, req, queue, boundVars>>

(* The list of urls raises a ValueError when the url is not in it. *)
RemoveURL(w) ==
    LET n == wk[w].name
    IN  /\ In(w, "remove_url")
        /\ n \in hcs /\ wk[w].host \in urls[n]
        /\ urls' = [urls EXCEPT ![n] = @ \ {wk[w].host}]
        /\ Enter(w, "delete_finally")
        /\ UNCHANGED <<quotaVars, taskDoc, metadata, kv, hcs, cloudVars, req, queue,
                       boundVars>>

(* An exception that leaves the body of run: only ScaleInstanceTask catches it. *)
LeaveRun_NoFinally(t) == IdleWk
LeaveRun(t) ==
    IF t.kind = "scale" THEN [t EXCEPT !.pc = "scale_finally", !.error = TRUE] ELSE IdleWk

(* The finally of _delete_host removes the task document after every host; *)
(* an error ends the loop of the caller, a rollback goes on.               *)
DeleteFinally(w) ==
    LET t == wk[w]
        next == IF t.rolling THEN [t EXCEPT !.pc = "rollback_hc"]
                ELSE IF t.error THEN LeaveRun(t)
                ELSE NextDelete(t, IF t.kind = "scale" THEN "scale_finally"
                                                       ELSE "destroy_instance")
    IN  /\ In(w, "delete_finally")
        /\ taskDoc' = [taskDoc EXCEPT ![t.name] = "none"]
        /\ Set(w, next)
        /\ UNCHANGED <<quotaVars, metadata, kv, hcs, urls, cloudVars, req, queue,
                       boundVars>>

ScaleFinally(w) ==
    /\ In(w, "scale_finally")
    /\ taskDoc' = [taskDoc EXCEPT ![wk[w].name] = "none"]
    /\ Set(w, IdleWk)
    /\ UNCHANGED <<quotaVars, metadata, kv, hcs, urls, cloudVars, req, queue, boundVars>>

(* The end of RemoveInstanceTask, after the last host. *)

DestroyInstance(w) ==
    /\ In(w, "destroy_instance")
    /\ kv' = kv \ {wk[w].name}
    /\ Enter(w, IF RetainLB THEN "destroy_hc" ELSE "destroy_lb")
    /\ UNCHANGED <<quotaVars, taskDoc, metadata, hcs, urls, cloudVars, req, queue,
                   boundVars>>

DestroyLB(w) ==
    LET l == wk[w].lb
    IN  /\ In(w, "destroy_lb") \/ In(w, "rollback_lb")
        /\ lbOf[l] # "destroyed"
        /\ lbOf' = [lbOf EXCEPT ![l] = "destroyed"]
        /\ attached' = [attached EXCEPT ![l] = <<>>]
        /\ IF In(w, "destroy_lb") THEN Enter(w, "destroy_hc")
                                  ELSE Set(w, RollbackHost(wk[w]))
        /\ UNCHANGED <<quotaVars, storeVars, hostOf, req, queue, boundVars>>

(* hc.destroy: RemoveInstanceTask always calls it, the rollback of         *)
(* _add_host when the LB had no hosts.                                     *)
DestroysHC_OnlyEmpty(w) == wk[w].empty
DestroysHC(w) == In(w, "destroy_hc") \/ wk[w].empty

DestroyHC(w) ==
    LET n == wk[w].name
    IN  /\ In(w, "destroy_hc") \/ In(w, "rollback_hc")
        /\ hcs' = IF DestroysHC(w) THEN hcs \ {n} ELSE hcs
        /\ urls' = IF DestroysHC(w) THEN [urls EXCEPT ![n] = {}] ELSE urls
        /\ IF In(w, "destroy_hc") THEN Set(w, IdleWk) ELSE Enter(w, "add_finally")
        /\ UNCHANGED <<quotaVars, taskDoc, metadata, kv, cloudVars, req, queue,
                       boundVars>>

(* A call of the task must raise: there is nothing left for it to act on. *)
MustRaise(w) ==
    CASE wk[w].pc = "find_lb" -> LBsOf(wk[w].name) = {}
      [] wk[w].pc = "create_lb" -> LBsOf("unused") = {}
      [] wk[w].pc = "create_host" -> \A h \in Hosts : hostOf[h] # "unused"
      [] wk[w].pc \in {"wait_healthcheck", "destroy_host"} ->
           hostOf[wk[w].host] = "destroyed"
      [] wk[w].pc \in {"add_host", "remove_host", "destroy_lb", "rollback_lb"} ->
           lbOf[wk[w].lb] = "destroyed"
      [] wk[w].pc = "add_url" -> wk[w].name \notin hcs
      [] wk[w].pc = "remove_url" ->
           wk[w].name \notin hcs \/ wk[w].host \notin urls[wk[w].name]
      [] OTHER -> FALSE

(* Where an exception takes the task: through the rollback of _add_host if *)
(* it is configured, to the finally of the helper, out of the task's loop. *)
Handler(t) ==
    CASE t.pc \in AddPcs ->
           LET failed == [t EXCEPT !.error = TRUE]
           IN  IF ~Rollback \/ t.lb = Nothing THEN [failed EXCEPT !.pc = "add_finally"]
               ELSE IF t.fresh THEN [failed EXCEPT !.pc = "rollback_lb"]
               ELSE RollbackHost(failed)
      [] t.pc = "rollback_lb" -> RollbackHost(t)
      [] t.pc = "rollback_hc" -> [t EXCEPT !.pc = "add_finally"]
      [] t.pc \in DeletePcs -> [t EXCEPT !.pc = "delete_finally", !.error = TRUE]
      [] OTHER -> LeaveRun(t)

TaskRaises(w) ==
    /\ MustRaise(w)
    /\ Set(w, Handler(wk[w]))
    /\ UNCHANGED <<quotaVars, storeVars, cloudVars, req, queue, boundVars>>

(* hm, Consul, nginx or the health check service fails a call, or times     *)
(* out.  A call that raises has had no effect: one that did its work and    *)
(* raised all the same, a machine created and not returned, is left out.    *)
CallFails(w) ==
    /\ wk[w].pc \notin FinallyPcs \cup {"idle"}
    /\ ~MustRaise(w)
    /\ faults < MaxFaults
    /\ faults' = faults + 1
    /\ Set(w, Handler(wk[w]))
    /\ UNCHANGED <<quotaVars, storeVars, cloudVars, req, queue, ops, reqFaults, crashes>>

(* The worker is killed; its task is lost and no finally runs. *)
Crash(w) ==
    /\ ~In(w, "idle")
    /\ crashes < MaxCrashes
    /\ crashes' = crashes + 1
    /\ Set(w, IdleWk)
    /\ UNCHANGED <<quotaVars, storeVars, cloudVars, req, queue, ops, reqFaults, faults>>

AddHostStep(w) ==
    \/ CreateLB(w) \/ CreateHC(w) \/ CreateHost(w) \/ AddHost(w)
    \/ WaitHealthcheck(w) \/ AddURL(w) \/ AddFinally(w)

DeleteHostStep(w) ==
    \/ DestroyHost(w) \/ RemoveHost(w) \/ RemoveURL(w) \/ DeleteFinally(w)

WorkerStep(w) ==
    \/ TakeTask(w) \/ TaskFindLB(w) \/ AddHostStep(w) \/ DeleteHostStep(w)
    \/ ScaleFinally(w) \/ DestroyInstance(w) \/ DestroyLB(w) \/ DestroyHC(w)
    \/ TaskRaises(w)
-----------------------------------------------------------------------------
Next ==
    \/ \E t \in Teams, q \in QuotaValues : SetTeamQuota(t, q)
    \/ \E r \in Requests, n \in Names :
          \/ \E t \in Teams : NewInstance(r, n, t)
          \/ RemoveInstance(r, n)
          \/ \E q \in Quantities : ScaleInstance(r, n, q)
          \/ UpdateInstance(r, n)
    \/ \E r \in Requests : RequestStep(r) \/ RequestRaises(r)
    \/ \E w \in Workers : WorkerStep(w) \/ CallFails(w) \/ Crash(w)

Spec == Init /\ [][Next]_vars

(* A request that began and a worker with something to do go on: gevent and *)
(* Celery schedule them, and every call they make has a timeout.            *)
FairSpec ==
    /\ Spec
    /\ \A r \in Requests : WF_vars(RequestStep(r))
    /\ \A w \in Workers : WF_vars(WorkerStep(w))
-----------------------------------------------------------------------------
(***************************************************************************)
(* Properties.  Each says for which clients and which faults it is meant.  *)
(***************************************************************************)

(* No interleaving of creations, removals and quota changes bills a team   *)
(* for more instances than the largest quota it ever had: new_instance     *)
(* checks the quota and writes the bill in two calls.  Any client, faults  *)
(* and crashes included.                                                   *)
QuotaNeverExceeded == \A t \in Teams : Len(used[t]) <= granted[t]

(* The storage calls implement the quota ledger: every step of the system  *)
(* charges one name under the granted quota, releases one name everywhere, *)
(* raises a grant or leaves the ledger alone.  Any client.                 *)
Ledger == INSTANCE QuotaLedger WITH
              charged <- [t \in Teams |-> ToSet(used[t])],
              Granted0 <- DefaultQuota

LedgerSpec == Ledger!Spec

(* Creation of an instance that exists is refused, so a name never has two *)
(* load balancers, whatever crashes and fails.  A patient client: one that *)
(* only polls status breaks this, because a failed creation that is rolled *)
(* back removes the task document twice and, between the two, the client's *)
(* next creation has written its own.                                      *)
AtMostOneLB == \A n \in Names : Cardinality(LBsOf(n)) <= 1

(* When no work on an instance is left, the stores agree about it: it has  *)
(* an LB if and only if a team pays for it, it has metadata, Consul keys   *)
(* and a health check, and its machines are the ones behind the LB and in  *)
(* the health check.  Orderly client, as long as no call has failed and no *)
(* process has died.                                                       *)
StoresAgree ==
    \A n \in Names : Quiet(n) /\ reqFaults + faults + crashes = 0 =>
        LET machines == {h \in Hosts : hostOf[h] = n}
            exists == LBsOf(n) # {}
        IN  /\ taskDoc[n] = "none"
            /\ Charged(n) <=> exists
            /\ n \in metadata <=> exists
            /\ n \in kv <=> exists
            /\ n \in hcs <=> exists
            /\ urls[n] = machines
            /\ machines = UNION {ToSet(attached[l]) : l \in LBsOf(n)}

(* A scale task that reports no error leaves the instance with the number  *)
(* of hosts asked for, whatever failed or died before it.  Patient client; *)
(* two scale tasks at once break it.                                       *)
ScaleReachesQuantity ==
    \A w \in Workers :
        In(w, "scale_finally") /\ ~wk[w].error =>
            Len(attached[wk[w].lb]) = wk[w].qty

(* With rollback configured a failed call strands no machine: when no work *)
(* on the instance is left, its machines are behind its LB and can still   *)
(* be removed.  Patient client, until a second call fails - the rollback   *)
(* does not survive one - or a worker dies.                                *)
NoOrphanMachine ==
    \A n \in Names : Quiet(n) /\ faults <= 1 /\ crashes = 0 =>
        \A h \in Hosts : hostOf[h] = n =>
            \E l \in LBsOf(n) : Contains(attached[l], h)

(* The task document that makes an instance answer "not ready" always goes *)
(* away again when only the calls of tasks fail: their finally blocks      *)
(* cover every path.  A request or a worker that dies may leave it forever.*)
TaskDocFreed ==
    \A n \in Names :
        taskDoc[n] # "none" ~> taskDoc[n] = "none" \/ reqFaults + crashes > 0

(* A removal that was accepted takes down the LB and every machine behind  *)
(* it in the end.  Patient client, unless a call fails or a worker dies.   *)
RemovalCompletes ==
    \A n \in Names :
        (\E i \in DOMAIN queue : queue[i].kind = "remove" /\ queue[i].name = n)
            ~> \/ LBsOf(n) = {} /\ \A h \in Hosts : hostOf[h] # n
               \/ faults + crashes > 0
=============================================================================
