# A TLA+ development of rpaas

rpaas runs nginx reverse proxies as a service for tsuru. An HTTP API creates,
scales and removes instances (a load balancer with machines behind it), binds
them to apps, edits their routes and repairs their machines. The modules here
model the parts in which several processes share state, and say what must hold
whatever the order of their steps. TLC checks them on small instances; TLAPS
proves thirty-six of the results for every value of the constants.

## The system

| Component | Code | State | What it must do | Module |
|---|---|---|---|---|
| Instance lifecycle | `manager.py` (`new_instance`, `remove_instance`, `scale_instance`, `update_instance`), `tasks.py` (`NewInstanceTask`, `RemoveInstanceTask`, `ScaleInstanceTask`) | instance metadata, task documents, Consul tree, health check, load balancers, machines | one balancer per name; stores agree; a scale is exact; a removal is complete; nothing is stranded | `InstanceLifecycle` |
| Team quotas | `storage.py` 243-267, `admin_api.py` | quota documents | a team is never billed above its quota | `InstanceLifecycle`, `QuotaLedger` |
| Task registry | `tasks.py` `TaskManager`, `storage.py` | task documents | one task per name, and the name becomes free again | `InstanceLifecycle`, `Healing` |
| Machine healing | `tasks.py` `CheckMachineTask`, `RestoreMachineTask`, `manager.py` `restore_machine_instance` | restore documents, healing events | failed machines return, one at a time, with a pause after a failure | `Healing` |
| Redis lock | `lock.py` | the lock key | excludes for as long as it is needed | `Healing`, `RestoreLock` |
| Job schedulers | `scheduler.py`, `healing.py`, `session_resumption.py`, `le_renewer.py` | the last-run key | one run per interval among many API processes | `JobScheduler` |
| Bindings and routes | `manager.py` (`bind`, `unbind`, `add_route`, `delete_route`), `storage.py`, `consul_manager.py` | binding document, location and upstream keys | document and configuration agree; no location without a server; one app | `Bindings` |
| Router API backends | `router_api.py`, `manager.py` 199-238, 331-357 | binding document, upstream keys | a backend with servers is bound, one without is not, and it can always be unbound | `RouterBackends` on `Bindings` |
| Swap | `manager.py` 283-290, `consul_manager.py` 212-236 | two swap keys | pairs are mutual and of instances that exist | `Swap`, composed in `RouterBackends` |
| Network ACLs | `acl.py`, `consul_manager.py` 238-262, `tasks.py` `_add_host`, `_delete_host` | ACL keys, rules of the ACL service, lock per instance | no lost update; both sides agree; servers reachable; no rule forgotten | `Acls`, `AccessList` |
| Certificates, blocks, Lua modules | `manager.py` 302-329, 427-559, `tasks.py` 351-401, `sslutils.py`, `ssl_plugins/` | certificate and setting keys, LE documents, task documents | the two keys match; a removal leaves nothing; renewal comes | `Certificates` |
| Session tickets | `tasks.py` 404-447, `nginx.py` | tickets in the machines, lock per instance | all machines of an instance use the newest key | `Machines` |
| Instance restore | `manager.py` 134-197, 561-576 | machines, task document | one machine down at a time; the document is given up | `Machines` |
| Health check service | `hc.py` | HCAPI resources, documents | urls of the service and documents agree | as steps of `InstanceLifecycle` |
| nginx client | `nginx.py` | none | retry until a deadline | outcome only |
| Plans and flavors | `plan.py`, `flavor.py`, `storage.py` | documents of one writer | | only whether a plan exists |
| Plugins, Celery transport, helpers | `plugin.py`, `admin_plugin.py`, `celery_sentinel.py`, `flower_uimodules.py`, `misc.py` | none | | not modelled |

The components meet in shared documents only. An API request runs in a greenlet
of one of many processes, a task in one of many Celery workers; MongoDB, Consul
and Redis give atomic single operations and no transactions across them.
Therefore one call to a store or a service is one step of a model, and a request
or task carries from one step to the next only what its code keeps in local
variables. What is hard here is the interleaving of those steps, the death of a
process between two of them, calls that raise in the middle of a handler, locks
that expire, and long sequences of legal requests. `hazards` in `PROJECT.json`
lists each at its line.

## Modules

### `InstanceLifecycle`, `QuotaLedger`

`req[r]` is a request with its program counter and local variables, `wk[w]` a
worker with its task. The rest are the stores: `used`, `quota` (quota
collection), `taskDoc` (tasks), `metadata`, `kv` (Consul tree), `hcs` and `urls`
(health check), `lbOf`, `attached`, `hostOf` (the hm library), `queue` (Celery).
Each action is one call, named for the function it stands for. A request that
its first read refuses changes nothing, so this read is the guard of the action
that begins it. `Handler` sends an exception where the code does: through the
rollback of `_add_host`, to a `finally`, or out of the task.

External code is modelled from its use. hm's `find` returns the object with
the hosts it had then; `create` gives out fresh machines and does not look at
names; an operation on something destroyed raises. The health check client is
`HCAPI`, a call of which - read the document, ask the service, store the
document - is one step: work on other names does not touch the document, and the
properties about clients that let work on one name overlap (`AtMostOneLB` in
`retry`, the quota) do not read it. A call that raises had no effect, and the choice
is made at each call; a machine that exists although its creation raised is in no
store of rpaas. Celery loses the task of a killed worker (`acks_late` is not set).

`Client` is the discipline of the caller (tsuru), which the code does not
enforce: `"any"` request at any time, `"polling"` waits until `status` is no
longer pending, `"patient"` waits until all work on the name is over, and
`"orderly"` also names only what exists. Each property says for which of them it
is meant.

`QuotaLedger` is what the quota promises with no storage calls: charge under the
granted quota, release everywhere, grant. `LedgerSpec` is that specification
under `charged <- ToSet(used[t])`: the read, compare and compare-and-set of
`increment_quota` implement an atomic charge.

### `Healing`

`CheckMachineTask` reads all checks once, then works through the nodes;
`RestoreMachineTask` takes the lock, queries the documents that are due and
stops, restores and starts their machines. `machine`, `hosts`, `doc`, `attempt`,
`healing` and `lock` are the stores. Time is abstract: documents become due, a
failure delay ends, a lock expires. One ordering is assumed of it: the task is
started every 30 seconds and a failure delays an instance by five minutes, so at
least one whole run fits into the delay (`attempt` passes "recent", "seen",
"waited"). The dry mode is off.

`attempt` is the field of the restore document, which the guard of the code
reads. `BackoffRespected` speaks of `failed` instead, the age of a machine's newest
failed event in the `healings` collection, which outlives the document. They are
not the same: `update_task` does not insert, so a failure whose document was
cancelled (`restore_machine_instance`) or removed by `CheckMachineTask` delays
nothing. `unrecorded` are the machines with such a failure.

### `RestoreLock`

The clock of that lock: taken for `healthcheck_timeout + 60`, extended after
each machine by the whole seconds it took. Only the restore of a machine takes
time. Two timings decide whether the lock is one; the property states them:
`Timeout > MaxRestore + (MaxMachines - 1) * (PerSecond - 1)`, a second less for
every machine before the last, because `timedelta.seconds` drops fractions.

### `JobScheduler`

`try_lock` with its `WATCH`, `GET`, `MULTI`/`SET`/`EXEC`: the clock is read
before the key is watched, and the key keeps whole seconds. One job; the clocks
of the processes agree; a thread is stopped for at most `Stall` ticks between
two calls (needed by the deadline of `TaskKeepsRunning`, not by `RunsSpaced`).

### `Bindings`

The requests of the service API on one instance. The initial read decides the list of
calls (`todo`) still to make; each call is a step: MongoDB `$pull`, `$push` and `$set`,
and the read, save, put and delete of Consul keys. A destination is a record of scheme,
host and port, because the code compares it as spelled in one place (`delete_route`), by
host in another (`write_location`) and by host and port in a third
(`remove_server_upstream`). Two routes may therefore share an upstream under two
spellings, and `delete_route` does not count one as a reference of the other.
`outspelled` is the history of that: upstreams saved without a server while a location
of another path, spelled otherwise, proxied there. The document is kept per path: the
code never uses the order of entries of different paths. `torn` is a history variable:
paths whose last write failed halfway or overlapped another write of that path.

### `Swap`, `RouterBackends`

`Swap` has the swap keys: a swap checks both instances, reads the source key
again and puts two keys; a removal reads the key, takes and gives up a task
document and destroys the tree of the instance later. `RouterBackends` composes
it with `Bindings`: a backend of the tsuru router is an instance bound to its own
name. It EXTENDS both modules and shares their steps: the request handlers of
`router_api.py` become lists of the calls of `Bindings`, some of which decide what
follows (`list_routes`, `find_binding`), and `RemoveBackendBinding` and
`DestroyBackendTree` join a step of a removal with what it deletes of the
binding. `mixed` and `torn` are the history that the properties exempt: the last
work on an instance or path failed or overlapped other work on it.

### `AccessList`, `Acls`

`Acls` has the rules of one instance on both sides: `rules` at the ACL service, `record`
in Consul. `add_upstream` makes a rule for each machine and server, `_add_host` copies
the record of any other machine, also of one that is gone and left a record,
`_delete_host` takes rules back. Each rule is one critical section under the lock of the
instance; who does not get the lock raises. A task has its own list of `Lock` objects,
but the requests of the API share one, since `get_manager` returns one manager to all
greenlets: `unlock` releases the lock in Redis, yields, and then deletes the entry of
the list (`DropEntry`), which may be the one another request has taken in between. That
request finds no entry when it is done, and its lock stays taken until it expires (`lock
= Gone`; `tokens` are the requests whose token is in the entry). The loops run over sets
without an order, hence sets of pairs. `AccessList` is what the record promises: it
changes by one grant or by the revocation of a machine. `KeepsAccessList` checks that
the read and the write of `store_acl_network` implement it, which is what the lock is
for.

### `Certificates`

`cert` and `key` hold the writer of each of the two keys, so that the question
whether they match is the question whether they are of one writer. Updates,
deletions, activations and renewals write them; `le` is the document that a
renewal starts from, `location` the challenge that downloads share, `queue` the
downloads no worker has started. Validation by Let's Encrypt succeeds only when
it finds the challenge of the same download. `settings` are the keys of blocks and
Lua modules. To add or delete one is a request of two steps, the check and the
write; a deletion writes an empty module and leaves the key. `mixed` are the
instances on which work overlapped that nothing in the code keeps apart (all but
activations), failed, or added a Lua module where there is no balancer.

### `Machines`

Machines in use. `restore_instance` is a generator in a streamed response: it
stops, scales, restores and starts one machine after the other, each call in a
thread (`JobWaiting`) that outlives a client that leaves (`jobs`).
`SessionResumptionTask` posts a new key to each machine of an instance under a
lock; `newest` is the last rotation that got to its end, `stale` the machines that
missed it for a cause the property names: added or built anew since, a rotation
cut short, a lock that expired. A machine that is down does not take a key.

## Runs

| Run | Bounds | Shows |
|---|---|---|
| `quota` | 2 teams, 2 names, 2 requests at once, 3 requests in all, 1 that dies, quotas 1 and 2, any client | `QuotaNeverExceeded`, `LedgerSpec`, `TypeOK` |
| `retry` | 1 name, 2 workers, 3 requests of a polling client, one failed call, rollback | `AtMostOneLB` violated, see below |
| `orderly` | 1 name, 1 worker, 2 balancers, 4 machines, 4 requests, quantities 0 to 2, one failed call, one killed worker, rollback, fair | `AtMostOneLB`, `ScaleReachesQuantity`, `StoresAgree`, `NoOrphanMachine`, `TaskDocFreed`, `RemovalCompletes` |
| `heal_safety` | 2 machines of one instance, 2 restore workers, a check worker, 2 failures, 1 disruption | `RestoreExclusive`, `BackoffRespected`, `OwnLockOnly`, `TypeOK` |
| `heal_live` | 2 instances, one of which can never be restored, 2 failures, 1 disruption, fair | `MachineHeals` |
| `restore_lock` | 3 workers, 3 machines, 2 ticks to a second, timeout 7, restores of up to 4 ticks: one tick more than is lost | `OneRestorer`, `TypeOK` |
| `scheduler` | 2 threads, interval 4, nap 2, 2 ticks to a second, stalls of 2, 1 death, 28 ticks | `RunsSpaced`, `TaskKeepsRunning`, `TypeOK` |
| `routes` | root and one other path, 2 app hosts, 2 route destinations (two spellings of one host, one of them as the app has it), 1 text, 2 requests at once, 1 overlap, 1 failure | `RoutesAgree`, `ProxyHasServer`, `BoundToOneApp`, `TypeOK` |
| `backends` | 1 backend and 2 other instances, 2 servers, 2 requests and 2 jobs of which 3 at once, 3 in all, 1 that fails | `BackendAgrees`, `UnbindStaysPossible`, `SwapPaired`, `RouterTypeOK` |
| `acls` | 3 machines, 2 networks, 2 processes, 4 requests, tasks and failures together | `KeepsAccessList` (refinement), `StoredIsPermitted`, `NoRuleForgotten`, `ServersReachable`, `TypeOK` |
| `certificates` | 1 instance that has a certificate, 2 processes, 2 requests and any number of renewals, 1 fault, fair | `PairMatches`, `NothingLeft`, `RenewalComes`, `TypeOK` |
| `machines` | 1 instance of one machine and one to add, 2 restores, 2 rotations, 2 machines added or removed or plans deleted, 1 fault | `OneMachineDown`, `NewestTicket`, `DocumentReleased`, `TypeOK` |

Why these bounds suffice for the cases of interest. Two teams and two names let
one team be billed for a name that another team owns and let a creation compare
with a stale list; a third team adds nothing that the compare-and-set, which
looks at one document, could see. Four orderly requests are a creation, a
scale or two, a removal and a second creation of the same name. One failed call per
behaviour is failed at every call in turn; a second one only fails calls of a
rollback, which `tasks.py` does not protect. Two machines of one instance are
what the pause after a failure is about, and two instances what its fairness is
about. `MaxDisruptions` counts the events outside the tasks' normal course
together - a call that raises for another machine, a request of an
administrator, a killed worker, a lock that expires under a running worker - so
each is met at every point. In `routes` the two spellings are one host with and
without a scheme, so that they share an upstream, and the root with a custom entry is the
second path with the same destination. `MaxOverlaps` bounds only how often a
request begins while another runs; twice, as a chain of three requests, gives
six times the states and the same result. In `backends` three pieces of work are, for
example, a request for routes, a removal and a request or a swap that overlaps it
(four, two at once, take TLC several minutes and show nothing new); three
instances are needed for a swap that must be refused because one side is
in another pair. In `acls` three machines are one to copy from, one to copy to
and one to remove; two processes compete for the lock, and a third, which finds
it taken as the second does, added nothing when it was tried. `MaxWork` bounds
requests, tasks and failures together (a failure is a call that raises, a killed
process or a lock that expires early). Four are, for example, the addition of a
machine, a request, a removal that overlaps it and leaves a record, and an addition
that copies from the machine that is gone; or a request, a removal that fails
between its two deletions, and an addition. In `certificates`
two requests are a removal and what overlaps it, or a removal and a creation;
the instance has a certificate at the start, which saves a request. A second
instance shares only the loop of `RenewCertsTask` with it: with two instances,
one request and no failure the run takes longer and finds the same. In
`machines`, two restores and two rotations are enough for each to meet its like,
and the fault may be a failed call, a client that leaves or a lock that expires,
at any point.

`CHECK_DEADLOCK FALSE` stands where the bound on requests or on the clock makes
the system stop: the lifecycle runs, `scheduler` and the four runs that bound the
number of requests. The other modules never stop. Symmetry is used in safety runs only.

Properties that hold under a condition name it in their formula or comment, and
the condition is where the code is known to be weaker:

- `AtMostOneLB`: a client that waits until all work on the name is over, its
  tasks included. Two overlapping creations of one name may both find no
  balancer and, one after the other, get one each;
- `ScaleReachesQuantity`: the same client; what failed or died before is
  immaterial. Two scale tasks of one name at once break it;
- `StoresAgree`, `RemovalCompletes`: until a call fails or a process dies. A
  failed call in a removal leaves what follows it undone, and the quota has been
  given back by then;
- `NoOrphanMachine`: the same client, rollback configured, until a worker dies or
  a second call fails: the rollback does not survive a failure of its own;
- `TaskDocFreed`: a request or worker that dies leaves the document forever;
- `RestoreExclusive`, `BackoffRespected`: until a lock expires under a worker
  that still runs; `RestoreLock` says when this cannot happen;
- `BackoffRespected`: unless the failure was never recorded, because the document
  was cancelled or found unneeded before `update_task` or after it, or the worker
  was killed before it. The next run then stops a machine of the instance at once;
- `ProxyHasServer`: requests one at a time. A location that spells its host otherwise
  than its upstream is named loses its server with the last route that does
  not, until a write puts one there again;
- `BoundToOneApp`: requests one at a time and none failing, app hosts without a
  port. An `unbind` that fails in Consul is refused when it is tried again, and
  the next app joins the old one in the default upstream;
- `RoutesAgree` needs none of these: it holds with overlaps and failures, for
  each path that is not `torn`, and a single request that runs alone repairs one
  that is;
- `BackendAgrees`, `SwapPaired`: unless the last work on the backend or instance
  failed or overlapped other work on it. A swap that dies between its two puts,
  or overlaps a removal, leaves a key that points nowhere;
- `UnbindStaysPossible`: until a request dies between the pull of the root path
  and the unset of the app, after which every unbind answers 404;
- `KeepsAccessList`, `StoredIsPermitted`: until the lock expires under a process
  that works. The latter also exempts a machine whose removal ended between the
  service and the record;
- `NoRuleForgotten`: no failure, and no removal that overlaps other work or
  comes upon a lock that a request left taken: one that finds the lock taken
  raises and never comes back, and with several rules the whole record goes with
  the first of them;
- `ServersReachable`: no machine added while other work runs, in a task that
  fails, or with the rules of a machine that is gone: `find_acl_network` finds
  any record of the instance, and one that an interrupted or overlapped removal left
  may lack servers added since. And never zero machines: with the last machine its
  rules are gone;
- `PairMatches`, `NothingLeft`: instances that are not `mixed`. A renewal that
  overlaps a removal puts certificate and document of an instance that is gone,
  and a block or Lua module added or deleted beside a removal leaves its key;
- `RenewalComes`: unless a certificate that is due belongs to an instance whose
  plan was deleted: `RenewCertsTask` raises there, and so on every later day,
  and the certificates behind it in the cursor wait, too;
- `OneMachineDown`: unless a restore failed or its client left, which leaves the
  machine down;
- `DocumentReleased`: unless the plan was gone, which raises before the `try`.

To wait for `status` is not enough for `AtMostOneLB`; the run `retry` shows why.
The rollback of a failed creation removes the task document twice, at the end of
`_delete_host` and at the end of `_add_host`. A client that retries between the
two loses the document of its retry to the second removal. As the task of the
retry has not made its balancer yet, a third creation is accepted, and the name
gets two balancers. `new_instance` is tested (`test_manager.py` 273-277) to refuse a
name with a task, and the finding in `PROJECT.json` quotes it.

Reading the code for these models also showed what no property states, since no
document promises otherwise: `_add_host` gives up the document of a scale task
after its first machine; `scale_instance` accepts a name without an instance and
leaves metadata for it; a host spelled in two ways, with and without a scheme,
empties an upstream still in use when one of its routes is deleted (exempt from
`ProxyHasServer` by `outspelled`); two greenlets of the API that unlock access rules
together may leave the lock of the instance taken; a restore that fails after its
document was cancelled delays nothing; a renewal
replaces a custom or deleted certificate, because the LE document stays when a
certificate is updated or deleted; `activate_ssl` leaves its document when
`delay` fails; `revoke_ssl` enqueues its task without the domain; `add_lua` lacks
the `raise` for a missing balancer; `add_session_ticket` passes its timeout by
position, where `retry_request` does not see it and takes 30 seconds; the release
of an expired lock ends a rotation for all instances that are left; a swap of an
instance with itself is accepted.

### Fairness

`InstanceLifecycle!FairSpec`: weak fairness of the steps of each request and
worker - gevent and Celery schedule them and every call has a timeout. No
fairness of new requests, faults or crashes. `Healing!FairSpec`: weak fairness
of both tasks, which the schedulers start again and again, of the lock's expiry
and of the two delays. Which document a restore run takes next is not fair: the
cursor has no order. `Certificates!Spec`: weak fairness of the steps of each
request and task and of `RenewCerts`, which the scheduler starts every day, and
strong fairness of the start of a queued download: a worker that is free again
and again takes it in the end, because the queue of Celery is first in, first
out. No fairness of requests, failures, or of the certificate becoming due.
`RestoreLock`, `JobScheduler`, `Bindings`, `RouterBackends`, `Acls` and `Machines`
are checked for safety and state none.

## Proofs

Thirty-six listed theorems, each for every value of the constants under the module's
`ConstantsAssumption` (elsewhere `AclAssumption`, `MachinesAssumption`,
`CertAssumption`, `SwapAssumption`, `RouterAssumption`); the modules `*_proofs`
hold them. `RouterBackends_proofs` has those of `Swap`, `Bindings` and
`RouterBackends`, which share variables and steps.

- `TypeCorrect`: `InstanceLifecycle!Spec => []TypeOK`. `TypeOK` is not inductive:
  a step that destroys a host must know that the task has one. `RecordsOK` adds
  which local variables hold a value at which program counter.
- `QuotaSafe`: `Spec => []QuotaNeverExceeded`. The step that writes the bill does
  not look at the quota, so the property is not inductive. `QuotaInv` adds that
  a bill is a list without repetition and that the list a creation compares with
  was shorter than a quota the team had (`ReadsOK`): with the compare-and-set
  the written list is at most one longer.
- `ImplementsLedger`: `Spec => LedgerSpec`. Each action is a step of the ledger or
  leaves `charged` and `granted` alone; uses `QuotaInv` to show that an added
  name finds room, and that the cardinality of the set is the length of the list.
- `InstancesUnique`: `Spec => []AtMostOneLB` for the clients "patient" and
  "orderly". `Serial` says that such a client has one piece of work at a time
  for a name, as a request, in the queue or in a worker, and that a worker has no
  work of a request that still stores. `FreshInv` follows a creation: from the
  moment it found no balancer until it makes one, there is none.
- `ScalesExactly`: `Spec => []ScaleReachesQuantity` for the same clients, whatever
  failed before. `FleetInv`: a task touches only a balancer of its own name, and a
  machine is attached once. `ScaleInv`: in a scale, machines behind the balancer,
  plus those to add or minus those to delete, make the quantity.
- `StrandsNothing`: `Spec => []NoOrphanMachine` for the same clients with rollback.
  `HeldTasks` says what a task knows of its balancer and machine at each call -
  what is still behind a balancer about to be destroyed is at most the machine
  the rollback destroys next - and `Kept`, while at most one call has failed and
  no worker died, that each machine of a name is behind its balancer or in the
  hands of a task that attaches or destroys it.
- `StoresStayInStep`: `Spec /\ []Supplied => []StoresAgree` for the client "orderly"
  when a removal takes the balancer down. `StoreInv` gives each call of each
  request and task its stage (`ReqStage`, `TaskStage`): which stores have the
  instance, and which machines are alive, behind the balancer and in the health
  check; and who may have created its task document (`Documented`). `Supplied`
  says that hm has a balancer and a machine for a task about to ask for one: a
  creation that gets none raises and leaves what it has stored, without a fault
  being counted. `StoresAgreeUnlimited` is the same for infinite sets of balancers
  and machines, which are always `Supplied`.
- `LockExcludes`: `RestoreLock!Spec => []OneRestorer`. `LockInv` says that a worker
  in its loop owns the lock and what is left of it: the timeout, less what each
  machine done has lost to truncation, less the time of the current one.
- `RestoreLock_proofs!TypeCorrect`: `Spec => []TypeOK`, for restores of any length.
  `TypedInv` adds that the machines done, in work and to come are never more
  than the cursor had, which bounds the counter of the machines done.
- `RunsAreSpaced`: `JobScheduler!Spec => RunsSpaced`. `SchedInv` says that a thread
  about to write knows from its own read that the run is due, or its
  transaction will be refused; the lemmas on `%` show that dropping fractions
  never brings two runs closer than an interval of whole seconds.
- `JobScheduler_proofs!TypeCorrect`: `Spec => []TypeOK`, from the same `SchedInv`.
- `TaskGoesOn`: `JobScheduler!Spec => []TaskKeepsRunning`. `TimeInv` counts from the
  last enqueueing of the task, plus a `Cycle` for each thread that died: a thread
  is at each call by a certain time (`InTime`), either because no run was recorded
  later than that base, or because the thread that recorded one is about to
  enqueue the task. `ClockOK` is how long a thread stays at a call. A thread that
  died between the two opens a new cycle.
- `Healing_proofs!TypeCorrect`: `Healing!Spec => []TypeOK`; here `TypeOK` is
  inductive, since it also says that a document that is gone has no attempt.
- `RestoresExclude`: `Spec => []RestoreExclusive`. The property speaks of the
  workers between two calls to a machine; `HolderOK` adds the whole loop: until a
  lock expires early, a task that runs holds the lock.
- `OwnLockReleased`: `Spec => OwnLockOnly`, from the steps alone: each action
  other than the holder's unlock and the timeout leaves a held lock as it is.
- `BackoffHolds`: `Spec => BackoffRespected`. The property is about the history
  `failed`, the guard about documents; `RecordedOK` ties them: a failure of late is in
  the document of its machine, or about to be written there, or `unrecorded`. The choice
  of a machine and its stop are several calls apart; `ChoiceOK` says that no document of
  its instance came to delay in between, because only the holder of the lock (`HolderOK`)
  records failures.
- `Acls_proofs!TypeCorrect`: `Spec => []TypeOK`. The pair a process writes comes
  from a request several calls before, so the invariant is `TypedSection`:
  `Local` says from which program counter on a process has a pair, `Guarded`
  that a process in its section holds the lock of the instance until a lock
  expires early, hence that what it read of rules and record is still there.
- `NoUpdateLost`: `Acls!Spec => KeepsAccessList`, the steps of the record being
  steps of `AccessList`. From `Guarded`: a process stores the destinations it
  read and one more, and what it read is what is there.
- `RecordIsPermitted`: `Spec => []StoredIsPermitted`, inductive together with
  `TypedSection`: a record is stored after its rule was found, and a rule is
  deleted only by a process that then erases the record, or leaves it halved.
- `OverlapInvariant`: `Acls!Spec => []Overlap`, what both theorems below rest on.
  `OnMachines`: which machines a process works on, and that it has pairs of these
  only. `Alone`: until history says otherwise, nothing works beside a removal, or
  beside the addition of a machine. `NoFault`: without a failure the lock is held by
  who works under it, and by nobody else.
- `EveryRuleTraced`: `Spec => []NoRuleForgotten`. The property speaks of moments without
  work and without failure; a lock left taken only ever refuses an addition, before it
  has asked for the rule. `Traced` says what holds during work: every rule is on record,
  or about to be stored, or belongs to a machine that is being removed (`RulesKnown`),
  and a removal has before it every rule its machine still has (`RemovalsMeet`). The
  latter is what needs the removal to be alone: the record, which is where the rules are
  found, is erased as a whole with the first rule.
- `EveryServerReachable`: `Spec => []ServersReachable`. `Known` gives every server on
  record of every attached machine, or among the pairs of the task that adds the
  machine; a request has before it what it has not done (`UpstreamsMeet`), and so has
  an addition from the moment it copied another machine's rules (`AdditionsMeet`).
  An earlier form of the property did not exempt the record of a machine that is
  gone. The proof failed at `CopyRules` for that reason, TLC with `MaxWork = 4` showed
  the behaviour that three requests had been too few for, and `disturbed` now covers it.
- `Machines_proofs!TypeCorrect`, `MachinesGoOneByOne`, `DocumentsReleased`,
  `TicketsAgree`: the four invariants of `Machines`, from one invariant `IInv`.
  `RestoreInv` says which restore has the document of an instance (`Documents`,
  at most one between creation and `finally`) and in whose hands a machine is
  down (`DownHeld`); `TicketInv` says who holds the lock of the tickets (`Locks`)
  and that the machines a rotation has been to have the key it made (`Keys`),
  which no step of a restore changes except for machines it makes stale.
- `Certificates_proofs!TypeCorrect`, `PairsMatch`, `RemovalsLeaveNothing`: the three
  invariants of `Certificates` from `CertificatesInvariant`. `Places` says what a
  process has at each call; `Apart` that an instance that is not mixed has one
  process at work, so that what it wrote of the pair is there at its next step
  (`Paired`), and what a removal has deleted stays deleted (`Cleared`, `Removed`) -
  blocks and Lua modules too, whose requests are processes like the others.
- `SwapsPair`: `RouterSpec => []SwapPaired`. `SwapInv`: a clean job is alone on its
  instances and what it read of the keys still holds; clean instances without a
  job are paired both ways or not at all.
- `BindingsTyped`, `RouterTyped`: `Spec => []TypeOK` of `Bindings` and
  `RouterSpec => []RouterTypeOK`; the calls still to make (`todo`) are what needs to be
  said, since each writes what an earlier read put into it.
- `RoutesAgreeAlways`: `Bindings!Spec => []RoutesAgree`. `RoutesInv`: a request that
  runs alone on a path that is not torn is at a stage whose remaining calls finish
  what document and configuration must agree on.
- `OneAppBehindRoot`: `Bindings!Spec => []BoundToOneApp`, for app hosts without a
  port (`AppsWithoutPort`, the case the property is about). `OneInv`: one request is
  in progress at most, and its remaining calls are those of one of the stages of a
  route, a bind, an unbind or the rename of a document (`RoutingRoot`, `BindingRoot`,
  `UnbindingRoot`, `NamingRoot`), each with what the default upstream, the location
  of `/` and the document then hold; at rest they hold nothing, the routes of `/`,
  or one app. `RouteInv` keeps the calls of other paths off the default upstream.
- `ProxyAlwaysHasServer`: `Bindings!Spec => []ProxyHasServer`, for any spelling of
  hosts and with requests that fail anywhere. `LightInv`: of the one request in
  progress, the calls left and the upstream as they find it (`LightAdding`,
  `LightBinding`, `LightUnbinding`, `LightRemoving`), and a server behind every other
  path in order. A server is only taken out of an upstream to which no other path in
  order proxies with the spelling by which the upstream is named (`Unused`), and
  those that proxy with another are `outspelled` from then on: for `unbind` since
  only `/` proxies to the default upstream (`RouteInv`), for `delete_route` since it
  counted the entries (`OneReference`) and the document agrees with the locations
  (`RoutesInv`).
- `BackendsAgree`: `RouterSpec => []BackendAgrees`. `BackInv` has the stages
  of a backend's requests (`Opening`, `Filling`, `Taking`, `Closing`) and of a
  removal (`Erased`), each with what the document and the upstream hold.
- `UnbindPossible`: `RouterSpec => []UnbindStaysPossible`, from `UnbindInv`: a document
  that names an app has its root path, or a request is about to write one of the
  two, whatever overlaps; until a call fails.

Only model-checked: the liveness properties (`TaskDocFreed`, `RemovalCompletes`,
`MachineHeals`, `RenewalComes`), which rest on fairness and so are out of the
prover's reach. Every other property of a passing run, invariants, action properties
and refinements, is a theorem.

## Not modelled

Text (templates, blocks and Lua modules beyond whether they exist, messages),
authentication, the command line plugins, plans and flavors as documents, the
cryptography and the ACME client, cloud providers, the response codes of the
health check service, `purge_location` and the other handlers that only read.
`revoke_ssl` and `RevokeCertTask`: no handler calls them. The look-up of networks
for an ACL and the `Dumb` variants of the ACL manager and the health check. The
certificate a rotation makes for a machine that has none is not kept as state.
An API process that is killed is a request that dies in `InstanceLifecycle`,
`Bindings`, `RouterBackends` and `Acls`; in `Machines` it is not among the faults: no
`finally` runs then, and the document stays for good. A call that takes effect and
raises all the same, and a delivery that Celery repeats, are in no module.
`ensure_ready` in the requests of `Bindings` is assumed to pass in the run
`routes`: the instance exists and no task of it runs; `RouterBackends` has it as a
step. `Acls`, `Certificates` and `Machines` have the creation, scaling and removal
of instances in as many steps as their state needs, and refer to
`InstanceLifecycle` for the rest. The bounded counters (`ops`, `faults`, `crashes`,
`failures`, `disruptions`, `overlaps`, `jobs`, `deaths`, `scales`, `MaxTime`) keep
TLC's instances finite; a property that exempts failures reads them as history. The
theorems hold for every value of their bounds.

## Plan

Done: `QuotaLedger`, `InstanceLifecycle`, `Healing`, `RestoreLock`, `JobScheduler`,
`Bindings`, `Swap`, `RouterBackends`, `AccessList`, `Acls`, `Certificates`,
`Machines`. Left of the models: `HealthChecks`, the responses of the health check
service against its documents.
