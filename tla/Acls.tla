-------------------------------- MODULE Acls --------------------------------
(***************************************************************************)
(* The network access rules of one instance (rpaas/acl.py).  A server of a *)
(* router backend must be reachable from every machine: add_upstream asks  *)
(* the ACL service for a rule per machine and server, _add_host copies the *)
(* rules of one machine to a new one, _delete_host takes them back.  The   *)
(* destinations of a machine are kept in a Consul key that is read and     *)
(* written back, under a Redis lock of the instance that nobody waits for. *)
(* A task has a list of Lock objects of its own; the requests of the API   *)
(* share one, whose entry of an instance another may have taken out before *)
(* a request comes to release its lock (rpaas/lock.py).  Sets of pairs     *)
(* stand for the loops of the code: their order is that of the machines    *)
(* and of sets of strings.                                                 *)
(***************************************************************************)
EXTENDS FiniteSets, Naturals

CONSTANTS
    Hosts, First,   \* machines, the one the instance was created with
    Destinations,   \* servers, as networks
    Procs,          \* requests and tasks that may run at once
    None,           \* no process
    Gone,           \* the holder of a lock that no process will release
    MaxWork         \* bound: requests and tasks, and with them calls that fail,
                    \* processes that are killed and locks that expire under one

ASSUME AclAssumption ==
    /\ First \in Hosts
    /\ None \notin Procs \cup {Gone} /\ Gone \notin Procs
    /\ MaxWork \in Nat

VARIABLES
    attached,   \* machines behind the load balancer
    used,       \* machines that ever were
    servers,    \* servers of the upstream
    rules,      \* <<machine, destination>> pairs the ACL service permits
    record,     \* record[h]: destinations in the ACL key of h
    lock,       \* who holds the lock of the instance
    tokens,     \* requests whose token is in the entry that the list of the API
                \* has for the lock; a Lock object keeps one per greenlet
    proc,       \* proc[p]: what p is doing
    ops, faults,    \* requests and tasks, failures so far
    crossed,    \* history: rules were removed while other work ran or a lock was
                \* taken that no process will release
    disturbed,  \* history: a machine was added while other work ran, not to the end, or
                \* with the rules of a machine that was gone
    halved,     \* history: machines whose removal ended between service and record
    emptied,    \* history: the instance had no machine
    expired     \* history: a lock expired under a process that ran

stores == <<attached, used, servers, rules, record>>
history == <<crossed, disturbed, halved, emptied, expired>>
vars == <<stores, lock, tokens, proc, ops, faults, history>>
-----------------------------------------------------------------------------
Pairs == Hosts \X Destinations

(* "pairs" are the rules still to add or to remove, "pair" the one at      *)
(* hand, "seen" what was read of its record.                               *)
IdleProc ==
    [pc |-> "idle", op |-> None, hosts |-> {}, adds |-> {}, pairs |-> {}, pair |-> <<>>,
     seen |-> {}, failed |-> FALSE]

ProcType ==
    [pc : {"idle", "pick", "lock", "put", "find", "store", "delete", "erase", "unlock",
           "drop", "copy", "look"},
     op : {None, "add_upstream", "add_host", "delete_host"}, hosts : SUBSET Hosts,
     adds : SUBSET Destinations, pairs : SUBSET Pairs, pair : Pairs \cup {<<>>},
     seen : SUBSET Destinations, failed : BOOLEAN]

TypeOK ==
    /\ attached \subseteq used /\ used \subseteq Hosts
    /\ servers \subseteq Destinations /\ rules \subseteq Pairs
    /\ record \in [Hosts -> SUBSET Destinations]
    /\ lock \in Procs \cup {None, Gone}
    /\ tokens \subseteq Procs
    /\ proc \in [Procs -> ProcType]
    /\ ops \in Nat /\ faults \in Nat
    /\ {crossed, disturbed, emptied, expired} \subseteq BOOLEAN /\ halved \subseteq Hosts

Init ==
    /\ attached = {First} /\ used = {First} /\ servers = {} /\ rules = {}
    /\ record = [h \in Hosts |-> {}]
    /\ lock = None /\ tokens = {}
    /\ proc = [p \in Procs |-> IdleProc]
    /\ ops = 0 /\ faults = 0
    /\ crossed = FALSE /\ disturbed = FALSE /\ halved = {}
    /\ emptied = FALSE /\ expired = FALSE
-----------------------------------------------------------------------------
(* Requests and tasks *)

Room == ops + faults < MaxWork

Working(p) == proc[p].pc # "idle"
Goto(p, pc) == proc' = [proc EXCEPT ![p].pc = pc]
Set(p, pc, var, value) == proc' = [proc EXCEPT ![p].pc = pc, ![p][var] = value]

Begin(p, op, pc, hosts, adds) ==
    /\ ~Working(p)
    /\ Room /\ ops' = ops + 1
    /\ proc' = [proc EXCEPT ![p] = [IdleProc EXCEPT !.pc = pc, !.op = op, !.hosts = hosts,
                                    !.adds = adds, !.pairs = hosts \X adds]]
    /\ crossed' = \/ crossed
                  \/ op = "delete_host" /\ lock = Gone
                  \/ \E q \in Procs : Working(q) /\ "delete_host" \in {op, proc[q].op}
    /\ disturbed' = (disturbed \/ \E q \in Procs :
                        Working(q) /\ "add_host" \in {op, proc[q].op})
    /\ UNCHANGED <<lock, tokens, faults, halved, expired>>

(* add_upstream: the machines are those the balancer had when it was found. *)
AddUpstream(p, adds) ==
    /\ Begin(p, "add_upstream", "pick", attached, adds)
    /\ UNCHANGED <<stores, emptied>>

(* _add_host: the machine is attached before it has its rules. *)
AddHost(p, h) ==
    /\ h \notin used
    /\ attached' = attached \cup {h} /\ used' = used \cup {h}
    /\ Begin(p, "add_host", "copy", {h}, {})
    /\ UNCHANGED <<servers, rules, record, emptied>>

(* _delete_host: the machine is gone before its rules are. *)
DeleteHost(p, h) ==
    /\ h \in attached
    /\ attached' = attached \ {h}
    /\ emptied' = (emptied \/ attached' = {})
    /\ Begin(p, "delete_host", "look", {h}, {})
    /\ UNCHANGED <<used, servers, rules, record>>

End(p) == proc' = [proc EXCEPT ![p] = IdleProc]

(* find_acl_network of the instance; pop takes one of the sources, be it a *)
(* machine that is gone and left a record.                                 *)
CopyRules(p) ==
    LET sources == {h \in Hosts : record[h] # {}}
    IN  /\ proc[p].pc = "copy"
        /\ IF sources = {} THEN End(p) /\ UNCHANGED disturbed
           ELSE \E source \in sources :
                    /\ Set(p, "pick", "pairs", proc[p].hosts \X record[source])
                    /\ disturbed' = (disturbed \/ source \notin attached)
        /\ UNCHANGED <<stores, lock, tokens, ops, faults, crossed, halved, emptied, expired>>

(* remove_acl: find_acl_network of the machine. *)
LookUp(p) ==
    LET h == CHOOSE x \in proc[p].hosts : TRUE
    IN  /\ proc[p].pc = "look"
        /\ IF record[h] = {} THEN End(p)
           ELSE Set(p, "pick", "pairs", {h} \X record[h])
        /\ UNCHANGED <<stores, lock, tokens, ops, faults, history>>

(* The next pair: add_acl has nothing to do if its record has it, and      *)
(* remove_acl nothing if the service finds no rule of it.                  *)
NothingToDo(p, pair) ==
    IF proc[p].op = "delete_host" THEN pair \notin rules ELSE pair[2] \in record[pair[1]]

PickPair(p) ==
    /\ proc[p].pc = "pick"
    /\ \E pair \in proc[p].pairs :
           LET rest == [proc[p] EXCEPT !.pairs = @ \ {pair}]
           IN  proc' = [proc EXCEPT ![p] = IF NothingToDo(p, pair) THEN rest
                                           ELSE [rest EXCEPT !.pc = "lock", !.pair = pair]]
    /\ UNCHANGED <<stores, lock, tokens, ops, faults, history>>

(* All pairs done: add_upstream saves its servers, the tasks go on. *)
Finish(p) ==
    /\ proc[p].pc = "pick" /\ proc[p].pairs = {}
    /\ servers' = servers \cup proc[p].adds
    /\ End(p)
    /\ UNCHANGED <<attached, used, rules, record, lock, tokens, ops, faults, history>>
-----------------------------------------------------------------------------
(* One rule, under the lock of the instance *)

(* An exception ends the request or the task, in place of the pairs left.  *)
Abort(p) ==
    /\ End(p)
    /\ disturbed' = (disturbed \/ proc[p].op = "add_host")

(* Nobody waits: AclApiError if another process holds the lock. *)
LockFree_Unchecked == TRUE
LockFree == lock = None

(* The requests of the API share the list: one that finds an entry for the *)
(* lock takes the lock by it, the others append one.                       *)
Shares(p) == proc[p].op = "add_upstream"

TakeLock(p) ==
    /\ proc[p].pc = "lock"
    /\ IF LockFree
       THEN /\ lock' = p
            /\ tokens' = IF Shares(p) THEN tokens \cup {p} ELSE tokens
            /\ Goto(p, IF proc[p].op = "delete_host" THEN "delete" ELSE "put")
            /\ UNCHANGED disturbed
       ELSE Abort(p) /\ UNCHANGED <<lock, tokens>>
    /\ UNCHANGED <<stores, ops, faults, crossed, halved, emptied, expired>>

(* The end of the section, by an exception or without. *)
Leave(p, failed) ==
    proc' = [proc EXCEPT ![p].pc = "unlock", ![p].seen = {}, ![p].failed = failed]

PutRule(p) ==
    /\ proc[p].pc = "put"
    /\ rules' = rules \cup {proc[p].pair}
    /\ Goto(p, "find")
    /\ UNCHANGED <<attached, used, servers, record, lock, tokens, ops, faults, history>>

(* store_acl_network *)
FindRecord(p) ==
    /\ proc[p].pc = "find"
    /\ Set(p, "store", "seen", record[proc[p].pair[1]])
    /\ UNCHANGED <<stores, lock, tokens, ops, faults, history>>

Stored_Nested(seen, d) == IF seen = {} THEN {d} ELSE {seen, {d}}
Stored_Alone(seen, d) == {d}
Stored(seen, d) == seen \cup {d}

StoreRecord(p) ==
    /\ proc[p].pc = "store"
    /\ record' = [record EXCEPT ![proc[p].pair[1]] = Stored(proc[p].seen, proc[p].pair[2])]
    /\ Leave(p, FALSE)
    /\ UNCHANGED <<attached, used, servers, rules, lock, tokens, ops, faults, history>>

(* DELETE of the rule; one that is gone by now (AclNotFound) is as good. *)
DeleteRule(p) ==
    /\ proc[p].pc = "delete"
    /\ rules' = rules \ {proc[p].pair}
    /\ Goto(p, "erase")
    /\ UNCHANGED <<attached, used, servers, record, lock, tokens, ops, faults, history>>

(* remove_acl_network: the whole key goes with the first of its rules. *)
EraseRecord(p) ==
    /\ proc[p].pc = "erase"
    /\ record' = [record EXCEPT ![proc[p].pair[1]] = {}]
    /\ Leave(p, FALSE)
    /\ UNCHANGED <<attached, used, servers, rules, lock, tokens, ops, faults, history>>

(* The next pair, or the exception of the section goes on. *)
GoOn(p) ==
    IF proc[p].failed THEN Abort(p)
    ELSE Set(p, "pick", "pair", <<>>) /\ UNCHANGED disturbed

(* The lock of a process that will not release it. *)
LeftLock(p) == IF lock = p THEN Gone ELSE lock

(* The finally.  The entry with the token of the process releases the lock *)
(* or raises LockError if it has expired; a task deletes it at once.  When *)
(* that entry is gone, unlock finds none and returns, or it finds one that *)
(* another request has put there since and raises: the lock stays taken.   *)
Unlock(p) ==
    /\ proc[p].pc = "unlock"
    /\ tokens' = tokens \ {p}
    /\ \/ /\ p \in tokens \/ ~Shares(p)
          /\ lock' = IF lock = p THEN None ELSE lock
          /\ IF lock # p THEN Abort(p)
             ELSE IF Shares(p) THEN Goto(p, "drop") /\ UNCHANGED disturbed
             ELSE GoOn(p)
       \/ /\ Shares(p) /\ p \notin tokens
          /\ lock' = LeftLock(p)
          /\ (GoOn(p) \/ Abort(p))
    /\ UNCHANGED <<stores, ops, faults, crossed, halved, emptied, expired>>

(* The entry at the position found before the release is deleted, whoever  *)
(* has taken the lock by it since.  Entries of other instances may have    *)
(* come and gone: then another one is deleted, or there is none.           *)
DropEntry(p) ==
    /\ proc[p].pc = "drop"
    /\ \/ tokens' = {} /\ GoOn(p)
       \/ UNCHANGED tokens /\ (GoOn(p) \/ Abort(p))
    /\ UNCHANGED <<stores, lock, ops, faults, crossed, halved, emptied, expired>>

(* A request for another instance deletes the entry at a position that is  *)
(* that of this instance by now, as one that comes to unlock will find.    *)
StrayDrop ==
    /\ \E p \in tokens : proc[p].pc = "unlock"
    /\ tokens' = {}
    /\ UNCHANGED <<stores, lock, proc, ops, faults, history>>
-----------------------------------------------------------------------------
(* Failures *)

InSection(p) == proc[p].pc \in {"put", "find", "store", "delete", "erase"}

(* A call of the section fails, a request to the service perhaps only      *)
(* after it took effect.                                                   *)
CallFails(p) ==
    LET me == proc[p]
    IN  /\ InSection(p)
        /\ Room /\ faults' = faults + 1
        /\ rules' \in {rules, CASE me.pc = "put" -> rules \cup {me.pair}
                               [] me.pc = "delete" -> rules \ {me.pair}
                               [] OTHER -> rules}
        /\ halved' = IF me.pc = "erase" \/ (me.pc = "delete" /\ rules' # rules)
                     THEN halved \cup {me.pair[1]} ELSE halved
        /\ Leave(p, TRUE)
        /\ UNCHANGED <<attached, used, servers, record, lock, tokens, ops, crossed, disturbed,
                       emptied, expired>>

(* A call outside of it fails, or the process is killed: its lock stays. *)
Killed(p) ==
    /\ Working(p)
    /\ Room /\ faults' = faults + 1
    /\ lock' = LeftLock(p) /\ tokens' = tokens \ {p}
    /\ halved' = IF proc[p].pc = "erase" THEN halved \cup {proc[p].pair[1]} ELSE halved
    /\ Abort(p)
    /\ UNCHANGED <<stores, ops, crossed, emptied, expired>>

(* Redis drops the lock after twice the timeout of a request. *)
LockExpires ==
    /\ lock # None
    /\ IF lock = Gone THEN UNCHANGED <<faults, expired>>
       ELSE Room /\ faults' = faults + 1 /\ expired' = TRUE
    /\ lock' = None
    /\ UNCHANGED <<stores, tokens, proc, ops, crossed, disturbed, halved, emptied>>

RuleStep(p) ==
    \/ TakeLock(p) \/ PutRule(p) \/ FindRecord(p) \/ StoreRecord(p)
    \/ DeleteRule(p) \/ EraseRecord(p) \/ Unlock(p) \/ DropEntry(p)

Next ==
    \/ \E p \in Procs :
          \/ \E adds \in (SUBSET Destinations) \ {{}} : AddUpstream(p, adds)
          \/ \E h \in Hosts : AddHost(p, h) \/ DeleteHost(p, h)
          \/ CopyRules(p) \/ LookUp(p) \/ PickPair(p) \/ Finish(p) \/ RuleStep(p)
          \/ CallFails(p) \/ Killed(p)
    \/ LockExpires \/ StrayDrop

Spec == Init /\ [][Next]_vars
-----------------------------------------------------------------------------
(* Properties *)

List == INSTANCE AccessList WITH granted <- record

(* Although the destinations of a machine are read and written back, each  *)
(* write adds the one destination or takes back all: no update is lost.    *)
(* Until a lock expires while its holder still works.                      *)
KeepsAccessList ==
    [][~expired' => List!ListNext \/ UNCHANGED record]_record

(* What the record has, the service permits, so that add_acl may rely on   *)
(* it - however requests and removals overlap and fail, except a removal   *)
(* that ends between its two deletions, or an expired lock.                *)
StoredIsPermitted ==
    ~expired =>
        \A h \in Hosts \ halved : \A d \in record[h] :
            \/ <<h, d>> \in rules
            \/ \E p \in Procs : proc[p].pc = "erase" /\ proc[p].pair[1] = h

(* When nothing is under way every rule has a record, by which it will be  *)
(* found and removed, and a machine that is gone has left no rule behind.  *)
(* Unless a call failed, or a removal overlapped other work or met a lock  *)
(* that a request left taken when its entry was gone from the list: it is  *)
(* refused the lock then and its rules stay.  Additions may overlap,       *)
(* refuse each other the lock and lose it.                                 *)
NoRuleForgotten ==
    ~crossed /\ faults = 0 /\ (\A p \in Procs : ~Working(p)) =>
        /\ rules = {pair \in Pairs : pair[2] \in record[pair[1]]}
        /\ \A h \in Hosts \ attached : record[h] = {}

(* Every machine may reach every server, those added after the servers by  *)
(* the rules of some other machine.  Unless a machine was added while      *)
(* other work ran or its task failed or copied the rules of a machine that *)
(* is gone, whose record may lack servers; or no machine was left.         *)
ServersReachable ==
    ~disturbed /\ ~emptied /\ ~expired =>
        \A h \in attached : \A d \in servers :
            \/ <<h, d>> \in rules
            \/ \E p \in Procs : proc[p].op = "add_host" /\ h \in proc[p].hosts
=============================================================================
