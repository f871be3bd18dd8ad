---------------------------- MODULE Certificates ----------------------------
(***************************************************************************)
(* The keys an instance has in Consul beside its routes - certificate and  *)
(* private key, blocks, Lua modules - and the documents of the             *)
(* certificates that Let's Encrypt issued (rpaas/manager.py, sslutils.py,  *)
(* tasks.py, ssl_plugins/le*.py).  A certificate is two keys, written one  *)
(* after the other by requests that checked for a task document and have   *)
(* none, by an activation, which has one, and by a renewal, which has none *)
(* but removes whichever there is.                                         *)
(***************************************************************************)
EXTENDS FiniteSets, Naturals

CONSTANTS
    Instances,
    Certified,      \* those that have a certificate of Let's Encrypt already
    Procs,          \* requests and tasks that may run at once
    Earlier,        \* who wrote that certificate
    None,           \* no process, no instance, no key
    MaxOps,         \* bound: requests
    MaxFaults       \* bound: of them and their tasks that fail or are killed

ASSUME CertAssumption ==
    /\ Certified \subseteq Instances
    /\ {None, Earlier} \cap Procs = {} /\ None \notin Instances \cup {Earlier}
    /\ MaxOps \in Nat /\ MaxFaults \in Nat

Settings == {"block", "lua"}

VARIABLES
    live,       \* instances with a load balancer
    task,       \* instances with a task document
    cert, key,  \* who wrote the two keys of the certificate of the instance
    settings,   \* the keys of blocks and Lua modules it has, empty ones too
    location,   \* who wrote its location /acme-validate
    le,         \* its document in le_certificates
    planless,   \* instances whose plan was deleted
    renewing,   \* documents that RenewCertsTask has still to look at
    queue,      \* downloads that no worker has started
    proc,       \* proc[p]: the request or task of p
    ops, faults,    \* how much of each bound is spent
    mixed       \* history: instances on which work overlapped that nothing
                \* keeps apart, that has had a failure or a stray Lua module

tree == <<cert, key, settings, location>>
renewal == <<le, planless, renewing>>
bounds == <<ops, faults>>
vars == <<live, task, tree, renewal, queue, proc, bounds, mixed>>
-----------------------------------------------------------------------------
IdleProc == [pc |-> "idle", op |-> None, on |-> None, issued |-> FALSE]

Requests == {"update", "delete", "set", "unset", "activation", "removal"}
Downloads == {"activation", "renewal"}

ProcType ==
    [pc : {"idle", "create", "enqueue", "find", "challenge", "answer", "clean", "cert",
           "key", "store", "free", "give", "hosts", "tree", "balancer", "documents", "put"},
     op : Requests \cup Downloads \cup Settings \cup {None},
     on : Instances \cup {None}, issued : BOOLEAN]

Idle(p) == proc[p].pc = "idle"

TypeOK ==
    /\ {live, task, planless, renewing, mixed} \subseteq SUBSET Instances
    /\ {cert, key, location} \subseteq [Instances -> Procs \cup {Earlier, None}]
    /\ settings \in [Instances -> SUBSET Settings]
    /\ le \in [Instances -> {"none", "fresh", "due"}]
    /\ queue \subseteq Downloads \X Instances
    /\ proc \in [Procs -> ProcType]
    /\ ops \in Nat /\ faults \in Nat

Init ==
    /\ live = Instances /\ task = {}
    /\ cert = [i \in Instances |-> IF i \in Certified THEN Earlier ELSE None] /\ key = cert
    /\ location = [i \in Instances |-> None]
    /\ settings = [i \in Instances |-> {}]
    /\ le = [i \in Instances |-> IF i \in Certified THEN "fresh" ELSE "none"]
    /\ planless = {} /\ renewing = {} /\ queue = {}
    /\ proc = [p \in Procs |-> IdleProc]
    /\ ops = 0 /\ faults = 0 /\ mixed = {}
-----------------------------------------------------------------------------
(* Requests and tasks *)

Waiting(i) == {w \in queue : w[2] = i}
Working(i) == {p \in Procs : ~Idle(p) /\ proc[p].on = i}
AtRest(i) == Waiting(i) = {} /\ Working(i) = {}

(* Only activations keep out each other, by their task documents, unless a *)
(* renewal frees the document of one that waits for a worker.              *)
Mingles(op, i) ==
    \/ op # "activation" /\ <<"activation", i>> \in queue
    \/ \E p \in Working(i) : {op, proc[p].op} # {"activation"}

Begin(p, pc, op, i) ==
    /\ Idle(p)
    /\ proc' = [proc EXCEPT ![p] = [IdleProc EXCEPT !.pc = pc, !.op = op, !.on = i]]
    /\ mixed' = IF Mingles(op, i) \/ (op = "lua" /\ i \notin live) THEN mixed \cup {i} ELSE mixed

Request(p, pc, op, i) ==
    /\ ops < MaxOps /\ ops' = ops + 1
    /\ Begin(p, pc, op, i)
    /\ UNCHANGED <<live, task, tree, renewal, queue, faults>>

Ready(i) == i \in live \ task

Goto(p, pc) == proc' = [proc EXCEPT ![p].pc = pc]
End(p) == proc' = [proc EXCEPT ![p] = IdleProc]

(* update_certificate, also by activate_ssl with the default plugin. *)
UpdateCertificate(p, i) == Ready(i) /\ Request(p, "cert", "update", i)
DeleteCertificate(p, i) == Ready(i) /\ Request(p, "cert", "delete", i)

Written_Json(p, var) == [var EXCEPT ![proc[p].on] = [crt |-> p]]
Written(p, var) == [var EXCEPT ![proc[p].on] = IF proc[p].op = "delete" THEN None ELSE p]

AfterKey_NoDocument(p) == IF proc[p].op \in Downloads THEN Goto(p, "free") ELSE End(p)
AfterKey(p) == IF proc[p].op \in Downloads THEN Goto(p, "store") ELSE End(p)

(* set_certificate and delete_certificate *)
PutCert(p) ==
    /\ proc[p].pc = "cert"
    /\ cert' = Written(p, cert)
    /\ Goto(p, "key")
    /\ UNCHANGED <<live, task, key, settings, location, renewal, queue, bounds, mixed>>

PutKey(p) ==
    /\ proc[p].pc = "key"
    /\ key' = Written(p, key)
    /\ AfterKey(p)
    /\ UNCHANGED <<live, task, cert, settings, location, renewal, queue, bounds, mixed>>

(* add_block and delete_block, which writes an empty block; add_lua, which  *)
(* finds that there is no balancer and does not mind; and delete_lua, which *)
(* writes an empty module.  The key is put whatever the content.            *)
WriteBlock(p, i) == Ready(i) /\ Request(p, "put", "block", i)
AddLua(p, i) == i \notin task /\ Request(p, "put", "lua", i)
DeleteLua(p, i) == Ready(i) /\ Request(p, "put", "lua", i)

PutSetting(p) ==
    /\ proc[p].pc = "put"
    /\ settings' = [settings EXCEPT ![proc[p].on] = @ \cup {proc[p].op}]
    /\ End(p)
    /\ UNCHANGED <<live, task, cert, key, location, renewal, queue, bounds, mixed>>
-----------------------------------------------------------------------------
(* activate_ssl with the plugin "le", and remove_instance *)

(* The balancer is found, its status is not pending and the domain         *)
(* resolves to its address.                                                *)
ActivateSSL(p, i) == Ready(i) /\ Request(p, "create", "activation", i)

RemoveInstance(p, i) == Request(p, "create", "removal", i)

Taken_Never(i) == FALSE
Taken(i) == i \in task

(* An activation answers SslError, a removal NotReadyError. *)
CreateTaskDoc(p) ==
    LET i == proc[p].on
    IN  /\ proc[p].pc = "create"
        /\ IF Taken(i) THEN End(p) /\ UNCHANGED task
           ELSE /\ task' = task \cup {i}
                /\ Goto(p, IF proc[p].op = "removal" THEN "give" ELSE "enqueue")
        /\ UNCHANGED <<live, tree, renewal, queue, bounds, mixed>>

(* A download that waits stands for an equal one. *)
Enqueue(p) ==
    /\ proc[p].pc = "enqueue"
    /\ queue' = queue \cup {<<"activation", proc[p].on>>}
    /\ End(p)
    /\ UNCHANGED <<live, task, tree, renewal, bounds, mixed>>

(* The removal gives up its document and the metadata of the instance and  *)
(* leaves the rest to RemoveInstanceTask, which ends if there is no        *)
(* balancer and frees the document once more with every machine.           *)
GiveUp(p) ==
    /\ proc[p].pc = "give"
    /\ task' = task \ {proc[p].on}
    /\ planless' = planless \ {proc[p].on}
    /\ Goto(p, "hosts")
    /\ UNCHANGED <<live, tree, le, renewing, queue, bounds, mixed>>

DeleteHosts(p) ==
    /\ proc[p].pc = "hosts"
    /\ IF proc[p].on \in live THEN task' = task \ {proc[p].on} /\ Goto(p, "tree")
       ELSE End(p) /\ UNCHANGED task
    /\ UNCHANGED <<live, tree, renewal, queue, bounds, mixed>>

DestroyTree(p) ==
    LET i == proc[p].on
    IN  /\ proc[p].pc = "tree"
        /\ cert' = [cert EXCEPT ![i] = None] /\ key' = [key EXCEPT ![i] = None]
        /\ settings' = [settings EXCEPT ![i] = {}]
        /\ location' = [location EXCEPT ![i] = None]
        /\ Goto(p, "balancer")
        /\ UNCHANGED <<live, task, renewal, queue, bounds, mixed>>

DestroyBalancer(p) ==
    /\ proc[p].pc = "balancer"
    /\ live' = live \ {proc[p].on}
    /\ Goto(p, "documents")
    /\ UNCHANGED <<task, tree, renewal, queue, bounds, mixed>>

(* find_le_certificates, remove_le_certificate *)
RemoveDocuments(p) ==
    /\ proc[p].pc = "documents"
    /\ le' = [le EXCEPT ![proc[p].on] = "none"]
    /\ End(p)
    /\ UNCHANGED <<live, task, tree, planless, renewing, queue, bounds, mixed>>

(* new_instance and its task, as InstanceLifecycle has them in detail. *)
CreateInstance(i) ==
    /\ i \notin live \cup task
    /\ ops < MaxOps /\ ops' = ops + 1
    /\ live' = live \cup {i}
    /\ mixed' = IF AtRest(i) THEN mixed ELSE mixed \cup {i}
    /\ UNCHANGED <<task, tree, renewal, queue, proc, faults>>
-----------------------------------------------------------------------------
(* DownloadCertTask: generate_crt with Let's Encrypt *)

Start(p, w) ==
    /\ w \in queue /\ queue' = queue \ {w}
    /\ Begin(p, "find", w[1], w[2])
    /\ UNCHANGED <<live, task, tree, renewal, bounds>>

FindBalancer(p) ==
    /\ proc[p].pc = "find"
    /\ Goto(p, IF proc[p].on \in live THEN "challenge" ELSE "free")
    /\ UNCHANGED <<live, task, tree, renewal, queue, bounds, mixed>>

(* The location serves the validation of one download, that of the last. *)
WriteChallenge(p) ==
    /\ proc[p].pc = "challenge"
    /\ location' = [location EXCEPT ![proc[p].on] = p]
    /\ Goto(p, "answer")
    /\ UNCHANGED <<live, task, cert, key, settings, renewal, queue, bounds, mixed>>

(* Let's Encrypt finds its validation, or refuses. *)
Answer(p) ==
    /\ proc[p].pc = "answer"
    /\ \E issued \in BOOLEAN :
           /\ issued => location[proc[p].on] = p
           /\ IF issued \/ location[proc[p].on] # p THEN UNCHANGED faults
              ELSE faults < MaxFaults /\ faults' = faults + 1
           /\ proc' = [proc EXCEPT ![p].pc = "clean", ![p].issued = issued]
    /\ UNCHANGED <<live, task, tree, renewal, queue, ops, mixed>>

(* The finally of download_crt. *)
CleanUp_IfIssued(p) == IF proc[p].issued THEN None ELSE location[proc[p].on]
CleanUp(p) == None

RemoveChallenge(p) ==
    /\ proc[p].pc = "clean"
    /\ location' = [location EXCEPT ![proc[p].on] = CleanUp(p)]
    /\ Goto(p, IF proc[p].issued THEN "cert" ELSE "free")
    /\ UNCHANGED <<live, task, cert, key, settings, renewal, queue, bounds, mixed>>

StoreDocument(p) ==
    /\ proc[p].pc = "store"
    /\ le' = [le EXCEPT ![proc[p].on] = "fresh"]
    /\ Goto(p, "free")
    /\ UNCHANGED <<live, task, tree, planless, renewing, queue, bounds, mixed>>

(* The finally of the task, whoever has created the document. *)
FreeTaskDoc(p) ==
    /\ proc[p].pc = "free"
    /\ task' = task \ {proc[p].on}
    /\ End(p)
    /\ UNCHANGED <<live, tree, renewal, queue, bounds, mixed>>
-----------------------------------------------------------------------------
(* RenewCertsTask *)

(* Three days before the certificate expires. *)
Due(i) ==
    /\ le[i] = "fresh" /\ le' = [le EXCEPT ![i] = "due"]
    /\ UNCHANGED <<live, task, tree, planless, renewing, queue, proc, bounds, mixed>>

(* delete_plan does not mind the instances that have it. *)
DeletePlan(i) ==
    /\ i \in live \ planless /\ planless' = planless \cup {i}
    /\ ops < MaxOps /\ ops' = ops + 1
    /\ UNCHANGED <<live, task, tree, le, renewing, queue, proc, faults, mixed>>

(* LeRenewer enqueues the task at most once a day, when the downloads of   *)
(* the day before are over.                                                *)
RenewCerts ==
    LET due == {i \in Instances : le[i] = "due"}
    IN  /\ renewing = {} /\ due # {}
        /\ \A w \in queue : w[1] # "renewal"
        /\ \A p \in Procs : proc[p].op # "renewal"
        /\ renewing' = due
        /\ UNCHANGED <<live, task, tree, le, planless, queue, proc, bounds, mixed>>

(* One document after the other: a plan that is gone ends the task. *)
Renew(i) ==
    /\ i \in renewing
    /\ IF i \in planless THEN renewing' = {} /\ UNCHANGED queue
       ELSE renewing' = renewing \ {i} /\ queue' = queue \cup {<<"renewal", i>>}
    /\ UNCHANGED <<live, task, tree, le, planless, proc, bounds, mixed>>
-----------------------------------------------------------------------------
(* A call fails, or the process is killed and its finally clauses with it. *)
Fail(p) ==
    /\ ~Idle(p)
    /\ faults < MaxFaults /\ faults' = faults + 1
    /\ mixed' = mixed \cup {proc[p].on}
    /\ \/ End(p)
       \/ proc[p].pc \in {"challenge", "answer"} /\ Goto(p, "clean")
       \/ proc[p].pc \in {"find", "clean", "cert", "key", "store"}
              /\ proc[p].op \in Downloads /\ Goto(p, "free")
    /\ UNCHANGED <<live, task, tree, renewal, queue, ops>>

Step(p) ==
    \/ PutCert(p) \/ PutKey(p) \/ PutSetting(p)
    \/ CreateTaskDoc(p) \/ Enqueue(p) \/ GiveUp(p) \/ DeleteHosts(p) \/ DestroyTree(p)
    \/ DestroyBalancer(p) \/ RemoveDocuments(p)
    \/ FindBalancer(p) \/ WriteChallenge(p) \/ Answer(p) \/ RemoveChallenge(p)
    \/ StoreDocument(p) \/ FreeTaskDoc(p)

Next ==
    \/ \E p \in Procs :
          \/ \E i \in Instances :
                \/ UpdateCertificate(p, i) \/ DeleteCertificate(p, i)
                \/ WriteBlock(p, i) \/ AddLua(p, i) \/ DeleteLua(p, i)
                \/ ActivateSSL(p, i) \/ RemoveInstance(p, i)
          \/ \E w \in queue : Start(p, w)
          \/ Step(p) \/ Fail(p)
    \/ \E i \in Instances :
          CreateInstance(i) \/ Due(i) \/ DeletePlan(i) \/ Renew(i)
    \/ RenewCerts

(* Requests and tasks go on, Celery hands out every task, the renewer runs *)
(* every day.                                                              *)
Spec ==
    /\ Init /\ [][Next]_vars
    /\ \A p \in Procs : WF_vars(Step(p))
    /\ \A w \in Downloads \X Instances : SF_vars(\E p \in Procs : Start(p, w))
    /\ WF_vars(RenewCerts) /\ \A i \in Instances : WF_vars(Renew(i))
-----------------------------------------------------------------------------
(* Properties *)

(* The certificate and the private key of an instance are from one writer, *)
(* when none is at work, although they are two keys.  Activations may      *)
(* overlap: their task documents keep them apart.                          *)
PairMatches ==
    \A i \in Instances \ mixed : AtRest(i) => cert[i] = key[i]

(* A removed instance leaves nothing that one of the same name would start *)
(* with: no certificate, no setting, no document that a renewal would      *)
(* install a certificate by.  And no download leaves its location.  Unless *)
(* requests or renewals overlapped on the instance, which check for a task *)
(* document and then write without one - a block or a Lua module added or  *)
(* deleted beside a removal leaves a key -, one of them failed, or add_lua *)
(* was asked for an instance that has no balancer.                         *)
NothingLeft ==
    \A i \in Instances \ mixed :
        AtRest(i) =>
            /\ location[i] = None
            /\ i \notin live =>
                   cert[i] = None /\ key[i] = None /\ settings[i] = {} /\ le[i] = "none"

(* A certificate that is due is renewed in the end, whatever requests come *)
(* between and although downloads disturb each other's validation.  Unless *)
(* its instance is gone, or the plan of one whose certificate is due.      *)
RenewalComes ==
    \A i \in Instances :
        i \in live /\ le[i] = "due" ~>
            \/ le[i] # "due" \/ i \notin live
            \/ \E j \in planless : le[j] = "due"
=============================================================================
