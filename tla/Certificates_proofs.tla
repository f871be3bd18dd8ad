------------------------- MODULE Certificates_proofs -------------------------
(***************************************************************************)
(* Proofs about Certificates, for any number of instances, requests and    *)
(* tasks: the two keys of a certificate match, and a removed instance      *)
(* leaves nothing.                                                         *)
(***************************************************************************)
EXTENDS Certificates, TLAPS

(* The kinds of work that have each place. *)
Places(p) ==
    /\ Idle(p) <=> proc[p].on = None
    /\ proc[p].pc = "create" => proc[p].op \in {"activation", "removal"}
    /\ proc[p].pc = "enqueue" => proc[p].op = "activation"
    /\ proc[p].pc \in {"find", "challenge", "answer", "clean", "store", "free"} =>
           proc[p].op \in Downloads
    /\ proc[p].pc \in {"cert", "key"} => proc[p].op \in Downloads \cup {"update", "delete"}
    /\ proc[p].pc \in {"give", "hosts", "tree", "balancer", "documents"} => proc[p].op = "removal"
    /\ proc[p].pc = "put" => proc[p].op \in Settings

On(p, i) == proc[p].on = i
Queued(i) == <<"activation", i>> \in queue

(* Only activations work side by side on an instance that is not mixed, and *)
(* the one that has the document, or whose download waits, is past the     *)
(* others.                                                                 *)
Apart(i) ==
    /\ \A p, q \in Procs : p # q /\ On(p, i) /\ On(q, i) => proc[p].op = "activation"
    /\ Queued(i) => i \in task /\ \A p \in Procs : On(p, i) =>
                                      proc[p].op = "activation" /\ proc[p].pc = "create"
    /\ \A p \in Procs : On(p, i) /\ proc[p].op = "activation" /\ proc[p].pc # "create" =>
           i \in task /\ \A q \in Procs \ {p} : On(q, i) => proc[q].pc = "create"

(* Between its two writes a process knows the first. *)
ItsValue(p) == IF proc[p].op = "delete" THEN None ELSE p

Paired(i) ==
    /\ \A p \in Procs : On(p, i) /\ proc[p].pc = "key" => cert[i] = ItsValue(p)
    /\ (\A p \in Procs : On(p, i) => proc[p].pc # "key") => cert[i] = key[i]

Cleared(i) ==
    location[i] # None => \E p \in Procs : On(p, i) /\ proc[p].pc \in {"answer", "clean"}

Empty(i) == cert[i] = None /\ key[i] = None /\ settings[i] = {}

(* From the tree on the removal leaves nothing but the document, and no    *)
(* other work begins on an instance that is gone, or it finds that out.    *)
Removed(i) ==
    /\ \A p \in Procs : On(p, i) /\ proc[p].pc = "balancer" => Empty(i)
    /\ i \notin live =>
           /\ Empty(i) /\ ~Queued(i)
           /\ le[i] # "none" => \E p \in Procs : On(p, i) /\ proc[p].pc = "documents"
           /\ \A p \in Procs : On(p, i) =>
                  \/ proc[p].op = "removal"
                  \/ proc[p].op = "renewal" /\ proc[p].pc \in {"find", "free"}

Inv(i) == Apart(i) /\ Paired(i) /\ Cleared(i) /\ Removed(i)

IInv ==
    /\ TypeOK
    /\ \A p \in Procs : Places(p)
    /\ \A i \in Instances \ mixed : Inv(i)

-----------------------------------------------------------------------------
(* One process moves *)

(* Process p goes to state x. *)
Becomes(p, x) == proc' = [proc EXCEPT ![p] = x] /\ x \in ProcType

LEMMA BecomesOne ==
    ASSUME TypeOK, NEW p \in Procs, NEW x, Becomes(p, x)
    PROVE  /\ proc' \in [Procs -> ProcType]
           /\ proc'[p] = x
           /\ \A q \in Procs \ {p} : proc'[q] = proc[q]
  BY DEF TypeOK, Becomes

LEMMA GotoBecomes ==
    ASSUME TypeOK, NEW p \in Procs, NEW pc, Goto(p, pc),
           pc \in {"enqueue", "give", "hosts", "tree", "balancer", "documents", "challenge",
                   "answer", "clean", "cert", "key", "store", "free"}
    PROVE  \E x : Becomes(p, x) /\ x.pc = pc /\ x.op = proc[p].op /\ x.on = proc[p].on
  <1> DEFINE x == [proc[p] EXCEPT !.pc = pc]
  <1>1. x \in ProcType /\ x.pc = pc /\ x.op = proc[p].op /\ x.on = proc[p].on
    BY DEF TypeOK, ProcType
  <1>2. proc' = [proc EXCEPT ![p] = x]
    BY DEF Goto, TypeOK
  <1> HIDE DEF x
  <1> QED BY <1>1, <1>2 DEF Becomes

LEMMA AnswerBecomes ==
    ASSUME TypeOK, NEW p \in Procs, Answer(p)
    PROVE  \E x : Becomes(p, x) /\ x.pc = "clean" /\ x.op = proc[p].op /\ x.on = proc[p].on
  <1>1. PICK issued \in BOOLEAN : proc' = [proc EXCEPT ![p].pc = "clean", ![p].issued = issued]
    BY DEF Answer
  <1> DEFINE x == [proc[p] EXCEPT !.pc = "clean", !.issued = issued]
  <1>2. x \in ProcType /\ x.pc = "clean" /\ x.op = proc[p].op /\ x.on = proc[p].on
    BY DEF TypeOK, ProcType
  <1>3. proc' = [proc EXCEPT ![p] = x]
    BY <1>1 DEF TypeOK
  <1> HIDE DEF x
  <1> QED BY <1>2, <1>3 DEF Becomes

LEMMA EndBecomes ==
    ASSUME NEW p \in Procs, End(p)
    PROVE  Becomes(p, IdleProc) /\ IdleProc.pc = "idle" /\ IdleProc.on = None /\ IdleProc.op = None
  BY DEF End, Becomes, IdleProc, ProcType

LEMMA BeginBecomes ==
    ASSUME NEW p \in Procs, NEW pc \in {"create", "find", "cert", "put"}, NEW i \in Instances,
           NEW op \in Requests \cup Downloads \cup Settings, Begin(p, pc, op, i)
    PROVE  \E x : Becomes(p, x) /\ x.pc = pc /\ x.op = op /\ x.on = i
  <1> DEFINE x == [IdleProc EXCEPT !.pc = pc, !.op = op, !.on = i]
  <1>1. IdleProc \in ProcType
    BY DEF IdleProc, ProcType
  <1>2. x \in ProcType /\ x.pc = pc /\ x.op = op /\ x.on = i
    BY <1>1 DEF ProcType
  <1>3. proc' = [proc EXCEPT ![p] = x]
    BY DEF Begin
  <1> HIDE DEF x
  <1> QED BY <1>2, <1>3 DEF Becomes

(* What is kept of an instance stays. *)
Same(i) ==
    /\ i \in live' <=> i \in live
    /\ i \in task' <=> i \in task
    /\ Queued(i)' <=> Queued(i)
    /\ cert'[i] = cert[i] /\ key'[i] = key[i] /\ settings'[i] = settings[i]
    /\ location'[i] = location[i] /\ le'[i] = le[i]

(* A process that works elsewhere does not matter. *)
LEMMA Elsewhere ==
    ASSUME TypeOK, NEW p \in Procs, NEW x, Becomes(p, x), NEW i \in Instances, Inv(i), Same(i),
           proc[p].on # i, x.on # i
    PROVE  Inv(i)'
  <1>1. /\ \A q \in Procs : On(q, i)' <=> On(q, i)
        /\ \A q \in Procs : On(q, i) => proc'[q] = proc[q]
    BY BecomesOne DEF On
  <1>2. Apart(i)'
    BY <1>1 DEF Inv, Apart, Same
  <1>3. Paired(i)'
    BY <1>1 DEF Inv, Paired, Same, ItsValue
  <1>4. Cleared(i)'
    BY <1>1 DEF Inv, Cleared, Same
  <1>5. Removed(i)'
    BY <1>1 DEF Inv, Removed, Same, Empty
  <1> QED BY <1>2, <1>3, <1>4, <1>5 DEF Inv

(* It is enough to look at the instance the process works on. *)
LEMMA OneInstance ==
    ASSUME IInv, NEW p \in Procs, NEW x, Becomes(p, x), NEW j \in Instances,
           proc[p].on \in {j, None}, x.on \in {j, None},
           TypeOK', Places(p)', mixed \subseteq mixed',
           \A i \in Instances \ {j} : Same(i),
           j \notin mixed' => Inv(j)'
    PROVE  IInv'
  <1>0. TypeOK /\ None \notin Instances
    BY CertAssumption DEF IInv
  <1>1. \A q \in Procs : Places(q)'
    BY BecomesOne DEF IInv, Places, Idle
  <1>2. ASSUME NEW i \in Instances \ mixed'
        PROVE  Inv(i)'
    BY <1>0, Elsewhere DEF IInv
  <1> QED BY <1>1, <1>2 DEF IInv

(* An instance whose process p goes on: what its steps have in common.     *)
LEMMA AtWork ==
    ASSUME IInv, NEW p \in Procs, ~Idle(p)
    PROVE  /\ TypeOK /\ proc[p] \in ProcType /\ Places(p)
           /\ proc[p].on \in Instances /\ On(p, proc[p].on)
           /\ proc[p].on \notin mixed => Inv(proc[p].on)
  BY DEF IInv, TypeOK, Places, ProcType, On

(* p ends, or goes on with its work past "create". *)
Leads(p, x) ==
    \/ x.pc = "idle" /\ x.op = None /\ x.on = None
    \/ /\ x.pc \notin {"idle", "create"} /\ proc[p].pc # "create"
       /\ x.op = proc[p].op /\ x.on = proc[p].on

LEMMA ApartKept ==
    ASSUME IInv, NEW p \in Procs, ~Idle(p), NEW x, Becomes(p, x), Leads(p, x),
           NEW j \in Instances \ mixed, j = proc[p].on, Queued(j)' <=> Queued(j),
           \/ j \in task => j \in task'
           \/ x.pc = "idle" /\ proc[p].pc # "create"
           \/ proc[p].op # "activation"
    PROVE  Apart(j)'
  <1>0. Inv(j) /\ On(p, j)
    BY AtWork
  <1>1. proc'[p] = x /\ \A q \in Procs \ {p} : proc'[q] = proc[q]
    BY BecomesOne DEF IInv
  <1>2. j # None
    BY AtWork DEF Places
  <1> QED BY <1>0, <1>1, <1>2 DEF Inv, Apart, On, Leads

-----------------------------------------------------------------------------
(* Types *)

Began == {"create", "find", "cert", "put"}

LEMMA RequestTyped ==
    ASSUME TypeOK, NEW p \in Procs, NEW pc \in Began, NEW op \in Requests \cup Settings,
           NEW i \in Instances, Request(p, pc, op, i)
    PROVE  TypeOK'
  <1>1. \E x : Becomes(p, x)
    BY BeginBecomes DEF Request, Began
  <1>2. proc' \in [Procs -> ProcType]
    BY <1>1, BecomesOne
  <1>3. mixed' \subseteq Instances
    BY DEF Request, Begin, TypeOK
  <1>4. ops' \in Nat
    BY DEF Request, TypeOK
  <1> QED BY <1>2, <1>3, <1>4 DEF Request, TypeOK, tree, renewal

LEMMA StartTyped ==
    ASSUME TypeOK, NEW p \in Procs, NEW w \in queue, Start(p, w)
    PROVE  TypeOK'
  <1>1. w[1] \in Downloads /\ w[2] \in Instances
    BY DEF TypeOK
  <1>2. \E x : Becomes(p, x)
    BY <1>1, BeginBecomes DEF Start
  <1>3. proc' \in [Procs -> ProcType]
    BY <1>2, BecomesOne
  <1>4. mixed' \subseteq Instances /\ queue' \subseteq queue
    BY <1>1 DEF Start, Begin, TypeOK
  <1> QED BY <1>3, <1>4 DEF Start, TypeOK, tree, renewal, bounds

LEMMA StepTyped ==
    ASSUME IInv, NEW p \in Procs, NEW x, Becomes(p, x), Step(p)
    PROVE  TypeOK'
  <1>0. TypeOK /\ proc' \in [Procs -> ProcType]
    BY BecomesOne DEF IInv
  <1>1. proc[p].on \in Instances
    BY AtWork DEF Step, PutCert, PutKey, PutSetting, CreateTaskDoc, Enqueue, GiveUp, DeleteHosts,
           DestroyTree, DestroyBalancer, RemoveDocuments, FindBalancer, WriteChallenge, Answer,
           RemoveChallenge, StoreDocument, FreeTaskDoc, Idle
  <1>2. CASE PutCert(p)
    BY <1>0, <1>1, <1>2 DEF PutCert, Written, TypeOK, renewal, bounds
  <1>3. CASE PutKey(p)
    BY <1>0, <1>1, <1>3 DEF PutKey, Written, TypeOK, renewal, bounds
  <1>4. CASE PutSetting(p)
    <2>1. proc[p].op \in Settings
      BY <1>0, <1>4 DEF PutSetting, IInv, Places
    <2> QED BY <1>0, <1>1, <1>4, <2>1 DEF PutSetting, TypeOK, renewal, bounds
  <1>5. CASE CreateTaskDoc(p) \/ GiveUp(p) \/ DeleteHosts(p) \/ FreeTaskDoc(p) \/ FindBalancer(p)
             \/ DestroyBalancer(p) \/ Enqueue(p)
    <2>1. UNCHANGED <<cert, key, settings, location, le, renewing, ops, faults, mixed>>
      BY <1>5 DEF CreateTaskDoc, GiveUp, DeleteHosts, FreeTaskDoc, FindBalancer, DestroyBalancer,
                  Enqueue, tree, renewal, bounds
    <2>2. /\ live' \subseteq live /\ task' \subseteq task \cup {proc[p].on}
          /\ planless' \subseteq planless
          /\ queue' \subseteq queue \cup {<<"activation", proc[p].on>>}
      BY <1>5 DEF CreateTaskDoc, GiveUp, DeleteHosts, FreeTaskDoc, FindBalancer, DestroyBalancer,
                  Enqueue, renewal
    <2> QED BY <1>0, <1>1, <2>1, <2>2 DEF TypeOK, Downloads
  <1>6. CASE DestroyTree(p)
    BY <1>0, <1>1, <1>6 DEF DestroyTree, TypeOK, renewal, bounds
  <1>7. CASE RemoveDocuments(p) \/ StoreDocument(p)
    BY <1>0, <1>1, <1>7 DEF RemoveDocuments, StoreDocument, TypeOK, tree, bounds
  <1>8. CASE WriteChallenge(p) \/ RemoveChallenge(p)
    BY <1>0, <1>1, <1>8 DEF WriteChallenge, RemoveChallenge, CleanUp, TypeOK, renewal, bounds
  <1>9. CASE Answer(p)
    <2>1. faults' = faults \/ faults' = faults + 1
      BY <1>9 DEF Answer
    <2>2. UNCHANGED <<live, task, tree, renewal, queue, ops, mixed>>
      BY <1>9 DEF Answer
    <2> QED BY <1>0, <2>1, <2>2 DEF TypeOK, tree, renewal
  <1> QED BY <1>2, <1>3, <1>4, <1>5, <1>6, <1>7, <1>8, <1>9 DEF Step

-----------------------------------------------------------------------------
(* The instance a process works on *)

LEMMA AloneAtWork ==
    ASSUME IInv, NEW p \in Procs, ~Idle(p), NEW j \in Instances \ mixed, j = proc[p].on
    PROVE  /\ \A q \in Procs \ {p} : On(q, j) =>
                  /\ proc[p].op = "activation" /\ proc[q].op = "activation"
                  /\ proc[p].pc = "create" \/ proc[q].pc = "create"
           /\ proc[p].pc # "create" => ~Queued(j)
           /\ \/ j \in live \/ proc[p].op = "removal"
              \/ proc[p].op = "renewal" /\ proc[p].pc \in {"find", "free"}
  <1>1. Inv(j) /\ On(p, j)
    BY AtWork
  <1> QED BY <1>1 DEF Inv, Apart, Removed, On

LEMMA PairedKept ==
    ASSUME IInv, NEW p \in Procs, ~Idle(p), NEW x, Becomes(p, x), NEW j \in Instances \ mixed,
           j = proc[p].on, cert'[j] = cert[j], key'[j] = key[j],
           x.pc # "key", proc[p].pc # "key"
    PROVE  Paired(j)'
  <1>1. Paired(j) /\ On(p, j)
    BY AtWork DEF Inv
  <1>2. proc'[p] = x /\ \A q \in Procs \ {p} : proc'[q] = proc[q]
    BY BecomesOne DEF IInv
  <1> QED BY <1>1, <1>2 DEF Paired, On, ItsValue

LEMMA ClearedKept ==
    ASSUME IInv, NEW p \in Procs, ~Idle(p), NEW x, Becomes(p, x), NEW j \in Instances \ mixed,
           j = proc[p].on, location'[j] = location[j] \/ location'[j] = None,
           proc[p].pc \in {"answer", "clean"} /\ location'[j] # None =>
               x.pc \in {"answer", "clean"} /\ x.on = j
    PROVE  Cleared(j)'
  <1>1. Cleared(j) /\ On(p, j)
    BY AtWork DEF Inv
  <1>2. proc'[p] = x /\ \A q \in Procs \ {p} : proc'[q] = proc[q]
    BY BecomesOne DEF IInv
  <1> QED BY <1>1, <1>2 DEF Cleared, On

LEMMA RemovedKept ==
    ASSUME IInv, NEW p \in Procs, ~Idle(p), NEW x, Becomes(p, x), NEW j \in Instances \ mixed,
           j = proc[p].on, j \in live' <=> j \in live, Queued(j)' <=> Queued(j),
           Empty(j) => Empty(j)', x.pc # "balancer",
           le'[j] = "none" \/ (le'[j] = le[j] /\ proc[p].pc # "documents"),
           x.on \in {j, None}, x.pc = "idle" <=> x.on = None,
           j \in live \/ x.on = None \/ x.op = "removal"
              \/ (x.op = "renewal" /\ x.pc \in {"find", "free"})
    PROVE  Removed(j)'
  <1>1. Removed(j) /\ On(p, j) /\ j # None
    BY AtWork, CertAssumption DEF Inv
  <1>2. proc'[p] = x /\ \A q \in Procs \ {p} : proc'[q] = proc[q]
    BY BecomesOne DEF IInv
  <1> QED BY <1>1, <1>2 DEF Removed, On

(* A process that finds the instance live, and leaves it live. *)
LEMMA LiveKept ==
    ASSUME IInv, NEW p \in Procs, ~Idle(p), NEW x, Becomes(p, x), NEW j \in Instances \ mixed,
           j = proc[p].on, proc[p].op # "removal", proc[p].pc \notin {"find", "free"},
           live' = live, x.pc # "balancer"
    PROVE  Removed(j)'
  <1>1. j \in live /\ \A q \in Procs \ {p} : On(q, j) => proc[q].op = "activation"
    BY AloneAtWork
  <1>2. proc'[p] = x /\ \A q \in Procs \ {p} : proc'[q] = proc[q]
    BY BecomesOne DEF IInv
  <1>3. \A q \in Procs : proc[q].pc = "balancer" => proc[q].op = "removal"
    BY DEF IInv, Places
  <1> QED BY <1>1, <1>2, <1>3 DEF Removed, On

(* What p leaves of the instance it works on, and where it goes. *)
LEMMA PutCertKept ==
    ASSUME IInv, NEW p \in Procs, ~Idle(p), PutCert(p),
           NEW j \in Instances \ mixed, j = proc[p].on
    PROVE  Inv(j)'
  <1>0. /\ proc[p].pc = "cert" /\ TypeOK /\ Goto(p, "key")
        /\ proc[p].op \in Downloads \cup {"update", "delete"}
    BY AtWork DEF PutCert, Places
  <1>1. PICK x : Becomes(p, x) /\ x.pc = "key" /\ x.op = proc[p].op /\ x.on = j
    BY <1>0, GotoBecomes
  <1>2. proc'[p] = x /\ \A q \in Procs \ {p} : proc'[q] = proc[q]
    BY <1>0, <1>1, BecomesOne
  <1>3. /\ UNCHANGED <<live, task, key, settings, location, le, queue>>
        /\ cert'[j] = ItsValue(p)
    BY <1>0 DEF PutCert, tree, renewal, bounds, TypeOK, Written, ItsValue
  <1>4. Queued(j)' <=> Queued(j)
    BY <1>3 DEF Queued
  <1>5. Leads(p, x)
    BY <1>0, <1>1 DEF Leads
  <1>6. j \in task => j \in task'
    BY <1>3
  <1>7. proc[p].op # "removal"
    BY <1>0 DEF Downloads, Settings
  <1>11. Apart(j)'
    BY <1>1, <1>4, <1>5, <1>6, ApartKept
  <1>12. Paired(j)'
    BY <1>0, <1>1, <1>2, <1>3, AloneAtWork DEF Paired, On, ItsValue
  <1>13. Cleared(j)'
    BY <1>0, <1>1, <1>3, ClearedKept
  <1>14. Removed(j)'
    BY <1>0, <1>1, <1>3, <1>7, LiveKept
  <1> QED BY <1>11, <1>12, <1>13, <1>14 DEF Inv

LEMMA PutKeyKept ==
    ASSUME IInv, NEW p \in Procs, ~Idle(p), PutKey(p),
           NEW j \in Instances \ mixed, j = proc[p].on
    PROVE  Inv(j)'
  <1>0. /\ proc[p].pc = "key" /\ TypeOK
        /\ proc[p].op \in Downloads \cup {"update", "delete"}
    BY AtWork DEF PutKey, Places
  <1>1. PICK x : Becomes(p, x) /\ Leads(p, x) /\ x.pc \in {"idle", "store"}
    <2>1. CASE End(p)
      BY <2>1, EndBecomes DEF Leads
    <2>2. CASE Goto(p, "store")
      BY <1>0, <2>2, GotoBecomes DEF Leads
    <2> QED BY <2>1, <2>2 DEF PutKey, AfterKey
  <1>2. proc'[p] = x /\ \A q \in Procs \ {p} : proc'[q] = proc[q]
    BY <1>0, <1>1, BecomesOne
  <1>3. /\ UNCHANGED <<live, task, cert, settings, location, le, queue>>
        /\ key'[j] = ItsValue(p)
    BY <1>0 DEF PutKey, tree, renewal, bounds, TypeOK, Written, ItsValue
  <1>4. Queued(j)' <=> Queued(j)
    BY <1>3 DEF Queued
  <1>6. j \in task => j \in task'
    BY <1>3
  <1>7. proc[p].op # "removal"
    BY <1>0 DEF Downloads, Settings
  <1>11. Apart(j)'
    BY <1>1, <1>4, <1>6, ApartKept
  <1>12. Paired(j)'
    <2>1. cert[j] = ItsValue(p)
      BY <1>0, AtWork DEF Inv, Paired
    <2>2. \A q \in Procs : On(q, j)' => proc'[q].pc # "key"
      BY <1>0, <1>1, <1>2, AloneAtWork DEF On
    <2> QED BY <1>3, <2>1, <2>2 DEF Paired, On
  <1>13. Cleared(j)'
    BY <1>0, <1>1, <1>3, ClearedKept
  <1>14. Removed(j)'
    BY <1>0, <1>1, <1>3, <1>7, LiveKept
  <1> QED BY <1>11, <1>12, <1>13, <1>14 DEF Inv

LEMMA PutSettingKept ==
    ASSUME IInv, NEW p \in Procs, ~Idle(p), PutSetting(p),
           NEW j \in Instances \ mixed, j = proc[p].on
    PROVE  Inv(j)'
  <1>0. /\ proc[p].pc = "put" /\ TypeOK /\ End(p)
        /\ proc[p].op \in Settings
    BY AtWork DEF PutSetting, Places
  <1>1. PICK x : Becomes(p, x) /\ x.pc = "idle" /\ x.op = None /\ x.on = None
    BY <1>0, EndBecomes
  <1>3. UNCHANGED <<live, task, cert, key, location, le, queue>>
    BY <1>0 DEF PutSetting, tree, renewal, bounds, TypeOK
  <1>4. Queued(j)' <=> Queued(j)
    BY <1>3 DEF Queued
  <1>5. Leads(p, x)
    BY <1>0, <1>1 DEF Leads
  <1>6. j \in task => j \in task'
    BY <1>3
  <1>7. proc[p].op # "removal"
    BY <1>0 DEF Downloads, Settings
  <1>11. Apart(j)'
    BY <1>1, <1>4, <1>5, <1>6, ApartKept
  <1>12. Paired(j)'
    BY <1>0, <1>1, <1>3, PairedKept
  <1>13. Cleared(j)'
    BY <1>0, <1>1, <1>3, ClearedKept
  <1>14. Removed(j)'
    BY <1>0, <1>1, <1>3, <1>7, LiveKept
  <1> QED BY <1>11, <1>12, <1>13, <1>14 DEF Inv

LEMMA CreateTaskDocKept ==
    ASSUME IInv, NEW p \in Procs, ~Idle(p), CreateTaskDoc(p),
           NEW j \in Instances \ mixed, j = proc[p].on
    PROVE  Inv(j)'
  <1>0. /\ proc[p].pc = "create" /\ TypeOK
        /\ proc[p].op \in {"activation", "removal"}
    BY AtWork DEF CreateTaskDoc, Places
  <1>3. UNCHANGED <<live, cert, key, settings, location, le, queue>>
    BY <1>0 DEF CreateTaskDoc, tree, renewal, bounds, TypeOK
  <1>4. Queued(j)' <=> Queued(j)
    BY <1>3 DEF Queued
  <1>8. Empty(j) => Empty(j)'
    BY <1>3 DEF Empty
  <1>1. CASE j \in task
    <2>0. End(p) /\ task' = task
      BY <1>1 DEF CreateTaskDoc, Taken
    <2>1. PICK x : Becomes(p, x) /\ x.pc = "idle" /\ x.op = None /\ x.on = None
      BY <2>0, EndBecomes
    <2>2. Leads(p, x) /\ (j \in task => j \in task')
      BY <2>0, <2>1 DEF Leads
    <2>3. Apart(j)'
      BY <1>4, <2>1, <2>2, ApartKept
    <2>4. Paired(j)'
      BY <1>0, <1>3, <2>1, PairedKept
    <2>5. Cleared(j)'
      BY <1>0, <1>3, <2>1, ClearedKept
    <2>6. Removed(j)'
      BY <1>0, <1>3, <1>4, <1>8, <2>1, RemovedKept
    <2> QED BY <2>3, <2>4, <2>5, <2>6 DEF Inv
  <1>2. CASE j \notin task
    <2> DEFINE pc == IF proc[p].op = "removal" THEN "give" ELSE "enqueue"
    <2>0. Goto(p, pc) /\ task' = task \cup {j}
      BY <1>2 DEF CreateTaskDoc, Taken
    <2>1. PICK x : Becomes(p, x) /\ x.pc = pc /\ x.op = proc[p].op /\ x.on = j
      BY <1>0, <2>0, GotoBecomes
    <2>2. proc'[p] = x /\ \A q \in Procs \ {p} : proc'[q] = proc[q]
      BY <1>0, <2>1, BecomesOne
    <2>3. Apart(j)'
      <3>1. Apart(j) /\ On(p, j) /\ ~Queued(j)
        BY <1>2, AtWork DEF Inv, Apart
      <3> QED BY <1>2, <1>4, <2>0, <2>1, <2>2, <3>1 DEF Apart, On
    <2>4. Paired(j)'
      BY <1>0, <1>3, <2>1, PairedKept
    <2>5. Cleared(j)'
      BY <1>0, <1>3, <2>1, ClearedKept
    <2>6. j \in live \/ proc[p].op = "removal"
      BY <1>0, AloneAtWork
    <2>7. x.on # None
      BY <2>1, CertAssumption
    <2>8. Removed(j)'
      BY <1>0, <1>3, <1>4, <1>8, <2>1, <2>6, <2>7, RemovedKept
    <2> QED BY <2>3, <2>4, <2>5, <2>8 DEF Inv
  <1> QED BY <1>1, <1>2

LEMMA EnqueueKept ==
    ASSUME IInv, NEW p \in Procs, ~Idle(p), Enqueue(p),
           NEW j \in Instances \ mixed, j = proc[p].on
    PROVE  Inv(j)'
  <1>0. /\ proc[p].pc = "enqueue" /\ TypeOK /\ End(p)
        /\ proc[p].op = "activation"
    BY AtWork DEF Enqueue, Places
  <1>1. PICK x : Becomes(p, x) /\ x.pc = "idle" /\ x.op = None /\ x.on = None
    BY <1>0, EndBecomes
  <1>2. proc'[p] = x /\ \A q \in Procs \ {p} : proc'[q] = proc[q]
    BY <1>0, <1>1, BecomesOne
  <1>3. /\ UNCHANGED <<live, task, cert, key, settings, location, le>>
        /\ Queued(j)'
    BY <1>0 DEF Enqueue, tree, renewal, bounds, TypeOK, Queued
  <1>7. proc[p].op # "removal"
    BY <1>0 DEF Downloads, Settings
  <1>11. Apart(j)'
    <2>1. Apart(j) /\ On(p, j) /\ j # None
      BY AtWork, CertAssumption DEF Inv
    <2> QED BY <1>0, <1>1, <1>2, <1>3, <2>1 DEF Apart, On
  <1>12. Paired(j)'
    BY <1>0, <1>1, <1>3, PairedKept
  <1>13. Cleared(j)'
    BY <1>0, <1>1, <1>3, ClearedKept
  <1>14. Removed(j)'
    BY <1>0, <1>1, <1>3, <1>7, LiveKept
  <1> QED BY <1>11, <1>12, <1>13, <1>14 DEF Inv

LEMMA GiveUpKept ==
    ASSUME IInv, NEW p \in Procs, ~Idle(p), GiveUp(p),
           NEW j \in Instances \ mixed, j = proc[p].on
    PROVE  Inv(j)'
  <1>0. /\ proc[p].pc = "give" /\ TypeOK /\ Goto(p, "hosts")
        /\ proc[p].op = "removal"
    BY AtWork DEF GiveUp, Places
  <1>1. PICK x : Becomes(p, x) /\ x.pc = "hosts" /\ x.op = proc[p].op /\ x.on = j
    BY <1>0, GotoBecomes
  <1>3. UNCHANGED <<live, cert, key, settings, location, le, queue>>
    BY <1>0 DEF GiveUp, tree, renewal, bounds, TypeOK
  <1>4. Queued(j)' <=> Queued(j)
    BY <1>3 DEF Queued
  <1>5. Leads(p, x)
    BY <1>0, <1>1 DEF Leads
  <1>6. proc[p].op # "activation" /\ x.on # None
    BY <1>0, <1>1, CertAssumption
  <1>11. Apart(j)'
    BY <1>1, <1>4, <1>5, <1>6, ApartKept
  <1>12. Paired(j)'
    BY <1>0, <1>1, <1>3, PairedKept
  <1>13. Cleared(j)'
    BY <1>0, <1>1, <1>3, ClearedKept
  <1>8. Empty(j) => Empty(j)'
    BY <1>3 DEF Empty
  <1>14. Removed(j)'
    BY <1>0, <1>1, <1>3, <1>4, <1>6, <1>8, RemovedKept
  <1> QED BY <1>11, <1>12, <1>13, <1>14 DEF Inv

LEMMA DeleteHostsKept ==
    ASSUME IInv, NEW p \in Procs, ~Idle(p), DeleteHosts(p),
           NEW j \in Instances \ mixed, j = proc[p].on
    PROVE  Inv(j)'
  <1>0. proc[p].pc = "hosts" /\ TypeOK /\ proc[p].op = "removal" /\ proc[p].op # "activation"
    BY AtWork DEF DeleteHosts, Places
  <1>1. PICK x : /\ Becomes(p, x)
                 /\ \/ x.pc = "idle" /\ x.op = None /\ x.on = None
                    \/ x.pc = "tree" /\ x.op = "removal" /\ x.on = j /\ x.on # None
    <2>1. CASE End(p)
      BY <2>1, EndBecomes
    <2>2. CASE Goto(p, "tree")
      BY <1>0, <2>2, GotoBecomes, CertAssumption
    <2> QED BY <2>1, <2>2 DEF DeleteHosts
  <1>5. Leads(p, x)
    BY <1>0, <1>1 DEF Leads
  <1>3. UNCHANGED <<live, cert, key, settings, location, le, queue>>
    BY <1>0 DEF DeleteHosts, tree, renewal, bounds, TypeOK
  <1>4. Queued(j)' <=> Queued(j)
    BY <1>3 DEF Queued
  <1>11. Apart(j)'
    BY <1>0, <1>1, <1>4, <1>5, ApartKept
  <1>12. Paired(j)'
    BY <1>0, <1>1, <1>3, PairedKept
  <1>13. Cleared(j)'
    BY <1>0, <1>1, <1>3, ClearedKept
  <1>8. Empty(j) => Empty(j)'
    BY <1>3 DEF Empty
  <1>9. x.on \in {j, None} /\ (x.pc = "idle" <=> x.on = None) /\ x.pc # "balancer"
    BY <1>1
  <1>10. x.on = None \/ x.op = "removal"
    BY <1>1
  <1>14. Removed(j)'
    BY <1>0, <1>1, <1>3, <1>4, <1>8, <1>9, <1>10, RemovedKept
  <1> QED BY <1>11, <1>12, <1>13, <1>14 DEF Inv

LEMMA DestroyTreeKept ==
    ASSUME IInv, NEW p \in Procs, ~Idle(p), DestroyTree(p),
           NEW j \in Instances \ mixed, j = proc[p].on
    PROVE  Inv(j)'
  <1>0. /\ proc[p].pc = "tree" /\ TypeOK /\ Goto(p, "balancer")
        /\ proc[p].op = "removal"
    BY AtWork DEF DestroyTree, Places
  <1>1. PICK x : Becomes(p, x) /\ x.pc = "balancer" /\ x.op = proc[p].op /\ x.on = j
    BY <1>0, GotoBecomes
  <1>2. proc'[p] = x /\ \A q \in Procs \ {p} : proc'[q] = proc[q]
    BY <1>0, <1>1, BecomesOne
  <1>3. /\ UNCHANGED <<live, task, le, queue>>
        /\ cert'[j] = None /\ key'[j] = None /\ settings'[j] = {} /\ location'[j] = None
    BY <1>0 DEF DestroyTree, tree, renewal, bounds, TypeOK
  <1>4. Queued(j)' <=> Queued(j)
    BY <1>3 DEF Queued
  <1>5. Leads(p, x)
    BY <1>0, <1>1 DEF Leads
  <1>6. j \in task => j \in task'
    BY <1>3
  <1>11. Apart(j)'
    BY <1>1, <1>4, <1>5, <1>6, ApartKept
  <1>12. Paired(j)'
    BY <1>0, <1>1, <1>2, <1>3, AloneAtWork DEF Paired, On
  <1>13. Cleared(j)'
    BY <1>3 DEF Cleared
  <1>14. Removed(j)'
    <2>1. Removed(j) /\ On(p, j)
      BY AtWork DEF Inv
    <2> QED BY <1>0, <1>1, <1>2, <1>3, <1>4, <2>1 DEF Removed, On, Empty
  <1> QED BY <1>11, <1>12, <1>13, <1>14 DEF Inv

LEMMA DestroyBalancerKept ==
    ASSUME IInv, NEW p \in Procs, ~Idle(p), DestroyBalancer(p),
           NEW j \in Instances \ mixed, j = proc[p].on
    PROVE  Inv(j)'
  <1>0. /\ proc[p].pc = "balancer" /\ TypeOK /\ Goto(p, "documents")
        /\ proc[p].op = "removal"
    BY AtWork DEF DestroyBalancer, Places
  <1>1. PICK x : Becomes(p, x) /\ x.pc = "documents" /\ x.op = proc[p].op /\ x.on = j
    BY <1>0, GotoBecomes
  <1>2. proc'[p] = x /\ \A q \in Procs \ {p} : proc'[q] = proc[q]
    BY <1>0, <1>1, BecomesOne
  <1>3. UNCHANGED <<task, cert, key, settings, location, le, queue>>
    BY <1>0 DEF DestroyBalancer, tree, renewal, bounds, TypeOK
  <1>4. Queued(j)' <=> Queued(j)
    BY <1>3 DEF Queued
  <1>5. Leads(p, x)
    BY <1>0, <1>1 DEF Leads
  <1>6. j \in task => j \in task'
    BY <1>3
  <1>11. Apart(j)'
    BY <1>1, <1>4, <1>5, <1>6, ApartKept
  <1>12. Paired(j)'
    BY <1>0, <1>1, <1>3, PairedKept
  <1>13. Cleared(j)'
    BY <1>0, <1>1, <1>3, ClearedKept
  <1>14. Removed(j)'
    <2>1. Empty(j) /\ ~Queued(j) /\ On(p, j)
      BY <1>0, AtWork, AloneAtWork DEF Inv, Removed
    <2>2. \A q \in Procs \ {p} : ~On(q, j)
      BY <1>0, AloneAtWork
    <2> QED BY <1>0, <1>1, <1>2, <1>3, <1>4, <2>1, <2>2 DEF Removed, On, Empty
  <1> QED BY <1>11, <1>12, <1>13, <1>14 DEF Inv

LEMMA RemoveDocumentsKept ==
    ASSUME IInv, NEW p \in Procs, ~Idle(p), RemoveDocuments(p),
           NEW j \in Instances \ mixed, j = proc[p].on
    PROVE  Inv(j)'
  <1>0. /\ proc[p].pc = "documents" /\ TypeOK /\ End(p)
        /\ proc[p].op = "removal"
    BY AtWork DEF RemoveDocuments, Places
  <1>1. PICK x : Becomes(p, x) /\ x.pc = "idle" /\ x.op = None /\ x.on = None
    BY <1>0, EndBecomes
  <1>3. UNCHANGED <<live, task, cert, key, settings, location, queue>> /\ le'[j] = "none"
    BY <1>0 DEF RemoveDocuments, tree, renewal, bounds, TypeOK
  <1>4. Queued(j)' <=> Queued(j)
    BY <1>3 DEF Queued
  <1>5. Leads(p, x)
    BY <1>0, <1>1 DEF Leads
  <1>6. j \in task => j \in task'
    BY <1>3
  <1>11. Apart(j)'
    BY <1>1, <1>4, <1>5, <1>6, ApartKept
  <1>12. Paired(j)'
    BY <1>0, <1>1, <1>3, PairedKept
  <1>13. Cleared(j)'
    BY <1>0, <1>1, <1>3, ClearedKept
  <1>8. Empty(j) => Empty(j)'
    BY <1>3 DEF Empty
  <1>14. Removed(j)'
    BY <1>0, <1>1, <1>3, <1>4, <1>8, RemovedKept
  <1> QED BY <1>11, <1>12, <1>13, <1>14 DEF Inv

LEMMA FindBalancerKept ==
    ASSUME IInv, NEW p \in Procs, ~Idle(p), FindBalancer(p),
           NEW j \in Instances \ mixed, j = proc[p].on
    PROVE  Inv(j)'
  <1>0. proc[p].pc = "find" /\ TypeOK /\ proc[p].op \in Downloads
    BY AtWork DEF FindBalancer, Places
  <1> DEFINE pc == IF j \in live THEN "challenge" ELSE "free"
  <1>1. PICK x : Becomes(p, x) /\ x.pc = pc /\ x.op = proc[p].op /\ x.on = j
    <2>1. Goto(p, pc)
      BY DEF FindBalancer
    <2> QED BY <1>0, <2>1, GotoBecomes
  <1>3. UNCHANGED <<live, task, cert, key, settings, location, le, queue>>
    BY <1>0 DEF FindBalancer, tree, renewal, bounds, TypeOK
  <1>4. Queued(j)' <=> Queued(j)
    BY <1>3 DEF Queued
  <1>5. Leads(p, x)
    BY <1>0, <1>1 DEF Leads
  <1>6. j \in task => j \in task'
    BY <1>3
  <1>11. Apart(j)'
    BY <1>1, <1>4, <1>5, <1>6, ApartKept
  <1>12. Paired(j)'
    BY <1>0, <1>1, <1>3, PairedKept
  <1>13. Cleared(j)'
    BY <1>0, <1>1, <1>3, ClearedKept
  <1>7. j \in live \/ (x.op = "renewal" /\ x.pc = "free")
    BY <1>0, <1>1, AloneAtWork DEF Downloads
  <1>8. (Empty(j) => Empty(j)') /\ x.on # None
    BY <1>1, <1>3, CertAssumption DEF Empty
  <1>14. Removed(j)'
    BY <1>0, <1>1, <1>3, <1>4, <1>7, <1>8, RemovedKept
  <1> QED BY <1>11, <1>12, <1>13, <1>14 DEF Inv

LEMMA WriteChallengeKept ==
    ASSUME IInv, NEW p \in Procs, ~Idle(p), WriteChallenge(p),
           NEW j \in Instances \ mixed, j = proc[p].on
    PROVE  Inv(j)'
  <1>0. /\ proc[p].pc = "challenge" /\ TypeOK /\ Goto(p, "answer")
        /\ proc[p].op \in Downloads
    BY AtWork DEF WriteChallenge, Places
  <1>1. PICK x : Becomes(p, x) /\ x.pc = "answer" /\ x.op = proc[p].op /\ x.on = j
    BY <1>0, GotoBecomes
  <1>2. proc'[p] = x /\ \A q \in Procs \ {p} : proc'[q] = proc[q]
    BY <1>0, <1>1, BecomesOne
  <1>3. UNCHANGED <<live, task, cert, key, settings, le, queue>>
    BY <1>0 DEF WriteChallenge, tree, renewal, bounds, TypeOK
  <1>4. Queued(j)' <=> Queued(j)
    BY <1>3 DEF Queued
  <1>5. Leads(p, x)
    BY <1>0, <1>1 DEF Leads
  <1>6. j \in task => j \in task'
    BY <1>3
  <1>7. proc[p].op # "removal"
    BY <1>0 DEF Downloads, Settings
  <1>11. Apart(j)'
    BY <1>1, <1>4, <1>5, <1>6, ApartKept
  <1>12. Paired(j)'
    BY <1>0, <1>1, <1>3, PairedKept
  <1>13. Cleared(j)'
    BY <1>1, <1>2 DEF Cleared, On
  <1>14. Removed(j)'
    BY <1>0, <1>1, <1>3, <1>7, LiveKept
  <1> QED BY <1>11, <1>12, <1>13, <1>14 DEF Inv

LEMMA AnswerKept ==
    ASSUME IInv, NEW p \in Procs, ~Idle(p), Answer(p),
           NEW j \in Instances \ mixed, j = proc[p].on
    PROVE  Inv(j)'
  <1>0. proc[p].pc = "answer" /\ TypeOK /\ proc[p].op \in Downloads
    BY AtWork DEF Answer, Places
  <1>1. PICK x : Becomes(p, x) /\ x.pc = "clean" /\ x.op = proc[p].op /\ x.on = j
    BY <1>0, AnswerBecomes
  <1>3. UNCHANGED <<live, task, cert, key, settings, location, le, queue>>
    BY <1>0 DEF Answer, tree, renewal, bounds, TypeOK
  <1>4. Queued(j)' <=> Queued(j)
    BY <1>3 DEF Queued
  <1>5. Leads(p, x)
    BY <1>0, <1>1 DEF Leads
  <1>6. j \in task => j \in task'
    BY <1>3
  <1>7. proc[p].op # "removal"
    BY <1>0 DEF Downloads, Settings
  <1>11. Apart(j)'
    BY <1>1, <1>4, <1>5, <1>6, ApartKept
  <1>12. Paired(j)'
    BY <1>0, <1>1, <1>3, PairedKept
  <1>13. Cleared(j)'
    BY <1>0, <1>1, <1>3, ClearedKept
  <1>14. Removed(j)'
    BY <1>0, <1>1, <1>3, <1>7, LiveKept
  <1> QED BY <1>11, <1>12, <1>13, <1>14 DEF Inv

LEMMA RemoveChallengeKept ==
    ASSUME IInv, NEW p \in Procs, ~Idle(p), RemoveChallenge(p),
           NEW j \in Instances \ mixed, j = proc[p].on
    PROVE  Inv(j)'
  <1>0. proc[p].pc = "clean" /\ TypeOK /\ proc[p].op \in Downloads
    BY AtWork DEF RemoveChallenge, Places
  <1>1. PICK x : Becomes(p, x) /\ x.pc \in {"cert", "free"} /\ x.op = proc[p].op /\ x.on = j
    BY <1>0, GotoBecomes DEF RemoveChallenge
  <1>3. /\ UNCHANGED <<live, task, cert, key, settings, le, queue>>
        /\ location'[j] = None
    BY <1>0 DEF RemoveChallenge, tree, renewal, bounds, TypeOK, CleanUp
  <1>4. Queued(j)' <=> Queued(j)
    BY <1>3 DEF Queued
  <1>5. Leads(p, x)
    BY <1>0, <1>1 DEF Leads
  <1>6. j \in task => j \in task'
    BY <1>3
  <1>7. proc[p].op # "removal"
    BY <1>0 DEF Downloads, Settings
  <1>11. Apart(j)'
    BY <1>1, <1>4, <1>5, <1>6, ApartKept
  <1>12. Paired(j)'
    BY <1>0, <1>1, <1>3, PairedKept
  <1>13. Cleared(j)'
    BY <1>0, <1>1, <1>3, ClearedKept
  <1>14. Removed(j)'
    BY <1>0, <1>1, <1>3, <1>7, LiveKept
  <1> QED BY <1>11, <1>12, <1>13, <1>14 DEF Inv

LEMMA StoreDocumentKept ==
    ASSUME IInv, NEW p \in Procs, ~Idle(p), StoreDocument(p),
           NEW j \in Instances \ mixed, j = proc[p].on
    PROVE  Inv(j)'
  <1>0. /\ proc[p].pc = "store" /\ TypeOK /\ Goto(p, "free")
        /\ proc[p].op \in Downloads
    BY AtWork DEF StoreDocument, Places
  <1>1. PICK x : Becomes(p, x) /\ x.pc = "free" /\ x.op = proc[p].op /\ x.on = j
    BY <1>0, GotoBecomes
  <1>3. UNCHANGED <<live, task, cert, key, settings, location, queue>>
    BY <1>0 DEF StoreDocument, tree, renewal, bounds, TypeOK
  <1>4. Queued(j)' <=> Queued(j)
    BY <1>3 DEF Queued
  <1>5. Leads(p, x)
    BY <1>0, <1>1 DEF Leads
  <1>6. j \in task => j \in task'
    BY <1>3
  <1>7. proc[p].op # "removal"
    BY <1>0 DEF Downloads, Settings
  <1>11. Apart(j)'
    BY <1>1, <1>4, <1>5, <1>6, ApartKept
  <1>12. Paired(j)'
    BY <1>0, <1>1, <1>3, PairedKept
  <1>13. Cleared(j)'
    BY <1>0, <1>1, <1>3, ClearedKept
  <1>14. Removed(j)'
    BY <1>0, <1>1, <1>3, <1>7, LiveKept
  <1> QED BY <1>11, <1>12, <1>13, <1>14 DEF Inv

LEMMA FreeTaskDocKept ==
    ASSUME IInv, NEW p \in Procs, ~Idle(p), FreeTaskDoc(p),
           NEW j \in Instances \ mixed, j = proc[p].on
    PROVE  Inv(j)'
  <1>0. /\ proc[p].pc = "free" /\ TypeOK /\ End(p)
        /\ proc[p].op \in Downloads
    BY AtWork DEF FreeTaskDoc, Places
  <1>1. PICK x : Becomes(p, x) /\ x.pc = "idle" /\ x.op = None /\ x.on = None
    BY <1>0, EndBecomes
  <1>3. UNCHANGED <<live, cert, key, settings, location, le, queue>>
    BY <1>0 DEF FreeTaskDoc, tree, renewal, bounds, TypeOK
  <1>4. Queued(j)' <=> Queued(j)
    BY <1>3 DEF Queued
  <1>5. Leads(p, x)
    BY <1>0, <1>1 DEF Leads
  <1>6. x.pc = "idle" /\ proc[p].pc # "create"
    BY <1>0, <1>1
  <1>11. Apart(j)'
    BY <1>1, <1>4, <1>5, <1>6, ApartKept
  <1>12. Paired(j)'
    BY <1>0, <1>1, <1>3, PairedKept
  <1>13. Cleared(j)'
    BY <1>0, <1>1, <1>3, ClearedKept
  <1>8. Empty(j) => Empty(j)'
    BY <1>3 DEF Empty
  <1>14. Removed(j)'
    BY <1>0, <1>1, <1>3, <1>4, <1>8, RemovedKept
  <1> QED BY <1>11, <1>12, <1>13, <1>14 DEF Inv

-----------------------------------------------------------------------------
(***************************************************************************)
(* A step of a process: its instance, and the others.                      *)
(***************************************************************************)

LEMMA StepMoves ==
    ASSUME IInv, NEW p \in Procs, Step(p)
    PROVE  /\ ~Idle(p) /\ mixed' = mixed /\ Places(p)'
           /\ \E x : Becomes(p, x) /\ x.on \in {proc[p].on, None}
  <1> USE CertAssumption
  <1>0. /\ ~Idle(p) /\ mixed' = mixed
        /\ TypeOK /\ Places(p) /\ proc[p].on \in Instances
    <2>1. ~Idle(p) /\ mixed' = mixed
      BY DEF Step, PutCert, PutKey, PutSetting, CreateTaskDoc, Enqueue, GiveUp, DeleteHosts,
             DestroyTree, DestroyBalancer, RemoveDocuments, FindBalancer, WriteChallenge, Answer,
             RemoveChallenge, StoreDocument, FreeTaskDoc, Idle
    <2> QED BY <2>1, AtWork
  <1>1. CASE End(p)
    <2>1. PICK x : Becomes(p, x) /\ x.pc = "idle" /\ x.on = None
      BY <1>1, EndBecomes
    <2>2. proc'[p] = x
      BY <1>0, <2>1, BecomesOne
    <2> QED BY <1>0, <2>1, <2>2 DEF Places, Idle
  <1>2. ASSUME NEW pc \in {"enqueue", "give", "hosts", "tree", "balancer", "documents",
                           "challenge", "answer", "clean", "cert", "key", "store", "free"},
               Goto(p, pc),
               pc = "enqueue" => proc[p].op = "activation",
               pc \in {"challenge", "answer", "clean", "store", "free", "cert"} =>
                   proc[p].op \in Downloads,
               pc = "key" => proc[p].op \in Downloads \cup {"update", "delete"},
               pc \in {"give", "hosts", "tree", "balancer", "documents"} =>
                   proc[p].op = "removal"
        PROVE  Places(p)' /\ \E x : Becomes(p, x) /\ x.on \in {proc[p].on, None}
    <2>1. PICK x : Becomes(p, x) /\ x.pc = pc /\ x.op = proc[p].op /\ x.on = proc[p].on
      BY <1>0, <1>2, GotoBecomes
    <2>2. proc'[p] = x
      BY <1>0, <2>1, BecomesOne
    <2> QED BY <1>0, <1>2, <2>1, <2>2 DEF Places, Idle
  <1>3. CASE PutCert(p)
    BY <1>0, <1>2, <1>3 DEF PutCert, Places
  <1>4. CASE PutKey(p)
    BY <1>0, <1>1, <1>2, <1>4 DEF PutKey, AfterKey, Places
  <1>5. CASE PutSetting(p) \/ Enqueue(p) \/ RemoveDocuments(p) \/ FreeTaskDoc(p)
    BY <1>0, <1>1, <1>5 DEF PutSetting, Enqueue, RemoveDocuments, FreeTaskDoc
  <1>6. CASE CreateTaskDoc(p)
    <2>1. proc[p].op \in {"activation", "removal"}
      BY <1>0, <1>6 DEF CreateTaskDoc, Places
    <2>2. End(p) \/ Goto(p, IF proc[p].op = "removal" THEN "give" ELSE "enqueue")
      BY <1>6 DEF CreateTaskDoc
    <2>3. CASE proc[p].op = "removal"
      BY <1>0, <1>1, <1>2, <2>2, <2>3
    <2>4. CASE proc[p].op = "activation"
      BY <1>0, <1>1, <1>2, <2>2, <2>4
    <2> QED BY <2>1, <2>3, <2>4
  <1>7. CASE GiveUp(p) \/ DeleteHosts(p) \/ DestroyTree(p) \/ DestroyBalancer(p)
    <2>1. proc[p].op = "removal"
      BY <1>0, <1>7 DEF GiveUp, DeleteHosts, DestroyTree, DestroyBalancer, Places
    <2>2. End(p) \/ \E pc \in {"hosts", "tree", "balancer", "documents"} : Goto(p, pc)
      BY <1>7 DEF GiveUp, DeleteHosts, DestroyTree, DestroyBalancer
    <2> QED BY <1>0, <1>1, <1>2, <2>1, <2>2
  <1>8. CASE FindBalancer(p) \/ WriteChallenge(p) \/ RemoveChallenge(p) \/ StoreDocument(p)
    <2>1. proc[p].op \in Downloads
      BY <1>0, <1>8 DEF FindBalancer, WriteChallenge, RemoveChallenge, StoreDocument, Places
    <2>2. \E pc \in {"challenge", "answer", "cert", "free"} : Goto(p, pc)
      BY <1>8 DEF FindBalancer, WriteChallenge, RemoveChallenge, StoreDocument
    <2> QED BY <1>0, <1>2, <2>1, <2>2
  <1>9. CASE Answer(p)
    <2>1. PICK x : Becomes(p, x) /\ x.pc = "clean" /\ x.op = proc[p].op /\ x.on = proc[p].on
      BY <1>0, <1>9, AnswerBecomes
    <2>2. proc'[p] = x
      BY <1>0, <2>1, BecomesOne
    <2> QED BY <1>0, <1>9, <2>1, <2>2 DEF Places, Idle, Answer
  <1> QED BY <1>3, <1>4, <1>5, <1>6, <1>7, <1>8, <1>9 DEF Step

LEMMA StepElsewhere ==
    ASSUME TypeOK, NEW p \in Procs, Step(p), NEW i \in Instances, i # proc[p].on
    PROVE  Same(i)
  <1>1. CASE PutCert(p) \/ PutKey(p) \/ PutSetting(p)
    BY <1>1 DEF PutCert, PutKey, PutSetting, Written, renewal, Same, Queued, TypeOK
  <1>2. CASE CreateTaskDoc(p) \/ Enqueue(p)
    BY <1>2 DEF CreateTaskDoc, Enqueue, tree, renewal, Same, Queued
  <1>3. CASE GiveUp(p) \/ DeleteHosts(p)
    BY <1>3 DEF GiveUp, DeleteHosts, tree, renewal, Same, Queued
  <1>4. CASE DestroyTree(p) \/ DestroyBalancer(p) \/ RemoveDocuments(p)
    BY <1>4 DEF DestroyTree, DestroyBalancer, RemoveDocuments, tree, renewal, Same, Queued, TypeOK
  <1>5. CASE FindBalancer(p) \/ Answer(p) \/ FreeTaskDoc(p)
    BY <1>5 DEF FindBalancer, Answer, FreeTaskDoc, tree, renewal, Same, Queued
  <1>6. CASE WriteChallenge(p) \/ RemoveChallenge(p) \/ StoreDocument(p)
    BY <1>6 DEF WriteChallenge, RemoveChallenge, StoreDocument, tree, renewal, Same, Queued, TypeOK
  <1> QED BY <1>1, <1>2, <1>3, <1>4, <1>5, <1>6 DEF Step

LEMMA StepKept ==
    ASSUME IInv, NEW p \in Procs, Step(p)
    PROVE  IInv'
  <1>1. ~Idle(p) /\ mixed' = mixed /\ Places(p)'
    BY StepMoves
  <1>2. PICK x : Becomes(p, x) /\ x.on \in {proc[p].on, None}
    BY StepMoves
  <1>3. PICK j \in Instances : j = proc[p].on
    BY <1>1, AtWork
  <1>4. TypeOK'
    BY <1>2, StepTyped
  <1>5. \A i \in Instances \ {j} : Same(i)
    BY <1>3, StepElsewhere DEF IInv
  <1>6. ASSUME j \notin mixed'
        PROVE  Inv(j)'
    <2>1. j \in Instances \ mixed
      BY <1>1, <1>6
    <2> QED BY <1>1, <1>3, <2>1, PutCertKept, PutKeyKept, PutSettingKept, CreateTaskDocKept,
               EnqueueKept, GiveUpKept, DeleteHostsKept, DestroyTreeKept, DestroyBalancerKept,
               RemoveDocumentsKept, FindBalancerKept, WriteChallengeKept, AnswerKept,
               RemoveChallengeKept, StoreDocumentKept, FreeTaskDocKept DEF Step
  <1>7. proc[p].on \in {j, None} /\ x.on \in {j, None} /\ mixed \subseteq mixed'
    BY <1>1, <1>2, <1>3
  <1> QED BY <1>1, <1>2, <1>4, <1>5, <1>6, <1>7, OneInstance

-----------------------------------------------------------------------------
(***************************************************************************)
(* A request or a task begins.                                             *)
(***************************************************************************)

(* What it knows of an instance that is not mixed afterwards. *)
LEMMA Beginning ==
    ASSUME IInv, NEW p \in Procs, NEW pc, NEW op, NEW i \in Instances,
           Begin(p, pc, op, i), i \notin mixed'
    PROVE  /\ i \notin mixed /\ Inv(i)
           /\ op = "lua" => i \in live
           /\ op # "activation" => ~Queued(i) /\ \A q \in Procs : ~On(q, i)
           /\ \A q \in Procs : On(q, i) => proc[q].op = "activation"
  <1>1. ~Mingles(op, i) /\ i \notin mixed /\ (op = "lua" => i \in live)
    BY DEF Begin
  <1>2. \A q \in Procs : On(q, i) => q \in Working(i)
    BY CertAssumption DEF IInv, Places, On, Working
  <1> QED BY <1>1, <1>2 DEF Mingles, IInv, Queued

LEMMA RequestKept ==
    ASSUME IInv, NEW p \in Procs, NEW i \in Instances,
           \/ UpdateCertificate(p, i) \/ DeleteCertificate(p, i)
           \/ WriteBlock(p, i) \/ AddLua(p, i) \/ DeleteLua(p, i)
           \/ ActivateSSL(p, i) \/ RemoveInstance(p, i)
    PROVE  IInv'
  <1>1. PICK pc \in {"create", "cert", "put"}, op \in Requests \cup Settings :
            /\ Request(p, pc, op, i)
            /\ op \notin {"lua", "removal"} => i \in live
            /\ pc = "create" <=> op \in {"activation", "removal"}
            /\ pc = "cert" => op \in {"update", "delete"}
            /\ pc = "put" => op \in Settings
    BY DEF UpdateCertificate, DeleteCertificate, WriteBlock, AddLua, DeleteLua, ActivateSSL,
           RemoveInstance, Ready, Requests, Settings
  <1>2. Begin(p, pc, op, i) /\ UNCHANGED <<live, task, tree, renewal, queue>>
    BY <1>1 DEF Request
  <1>3. PICK x : Becomes(p, x) /\ x.pc = pc /\ x.op = op /\ x.on = i
    BY <1>2, BeginBecomes
  <1>4. proc'[p] = x /\ \A q \in Procs \ {p} : proc'[q] = proc[q]
    BY <1>3, BecomesOne DEF IInv
  <1>5. TypeOK'
    BY <1>1, RequestTyped DEF IInv, Began
  <1>6. Places(p)'
    BY <1>1, <1>3, <1>4, CertAssumption DEF Places, Idle
  <1>7. proc[p].on = None /\ i # None /\ mixed \subseteq mixed'
    BY <1>2, CertAssumption DEF Begin, IInv, Places
  <1>8. \A h \in Instances : Same(h)
    BY <1>2 DEF tree, renewal, Same, Queued
  <1>9. ASSUME i \notin mixed'
        PROVE  Inv(i)'
    <2>1. /\ Apart(i) /\ Paired(i) /\ Cleared(i) /\ Removed(i)
          /\ op = "lua" => i \in live
          /\ op # "activation" => ~Queued(i) /\ \A q \in Procs : ~On(q, i)
          /\ \A q \in Procs : On(q, i) => proc[q].op = "activation"
      BY <1>2, <1>9, Beginning DEF Inv
    <2>2. Apart(i)'
      BY <1>1, <1>3, <1>4, <1>7, <1>8, <2>1 DEF Apart, On, Same
    <2>3. Paired(i)'
      BY <1>1, <1>3, <1>4, <1>7, <1>8, <2>1 DEF Paired, On, Same, ItsValue
    <2>4. Cleared(i)'
      BY <1>1, <1>3, <1>4, <1>7, <1>8, <2>1 DEF Cleared, On, Same
    <2>5. Removed(i)'
      BY <1>1, <1>3, <1>4, <1>7, <1>8, <2>1 DEF Removed, On, Same, Empty
    <2> QED BY <2>2, <2>3, <2>4, <2>5 DEF Inv
  <1> QED BY <1>3, <1>5, <1>6, <1>7, <1>8, <1>9, OneInstance

LEMMA StartKept ==
    ASSUME IInv, NEW p \in Procs, NEW w \in queue, Start(p, w)
    PROVE  IInv'
  <1>1. PICK op \in Downloads, i \in Instances : w = <<op, i>>
    BY DEF IInv, TypeOK
  <1>2. Begin(p, "find", op, i) /\ UNCHANGED <<live, task, tree, renewal>> /\ queue' = queue \ {w}
    BY <1>1 DEF Start
  <1>3. PICK x : Becomes(p, x) /\ x.pc = "find" /\ x.op = op /\ x.on = i
    BY <1>2, BeginBecomes
  <1>4. proc'[p] = x /\ \A q \in Procs \ {p} : proc'[q] = proc[q]
    BY <1>3, BecomesOne DEF IInv
  <1>5. TypeOK'
    BY StartTyped DEF IInv
  <1>6. Places(p)'
    BY <1>3, <1>4, CertAssumption DEF Places, Idle
  <1>7. proc[p].on = None /\ i # None /\ mixed \subseteq mixed'
    BY <1>2, CertAssumption DEF Begin, IInv, Places
  <1>8. \A h \in Instances \ {i} : Same(h)
    BY <1>1, <1>2 DEF tree, renewal, Same, Queued
  <1>9. ASSUME i \notin mixed'
        PROVE  Inv(i)'
    <2>1. /\ Apart(i) /\ Paired(i) /\ Cleared(i) /\ Removed(i)
          /\ op # "activation" => ~Queued(i) /\ \A q \in Procs : ~On(q, i)
          /\ \A q \in Procs : On(q, i) => proc[q].op = "activation"
      BY <1>2, <1>9, Beginning DEF Inv
    <2>2. /\ i \in live' <=> i \in live
          /\ i \in task' <=> i \in task
          /\ cert'[i] = cert[i] /\ key'[i] = key[i] /\ settings'[i] = settings[i]
          /\ location'[i] = location[i] /\ le'[i] = le[i]
      BY <1>2 DEF tree, renewal
    <2>3. op = "activation" => Queued(i)
      BY <1>1 DEF Queued
    <2>4. ~Queued(i)'
      BY <1>1, <1>2, <2>1 DEF Queued
    <2>5. op = "activation" \/ op = "renewal"
      BY DEF Downloads
    <2>6. Apart(i)'
      BY <1>3, <1>4, <1>7, <2>1, <2>2, <2>3, <2>4, <2>5 DEF Apart, On
    <2>7. Paired(i)'
      BY <1>3, <1>4, <1>7, <2>1, <2>2 DEF Paired, On, ItsValue
    <2>8. Cleared(i)'
      BY <1>3, <1>4, <1>7, <2>1, <2>2 DEF Cleared, On
    <2>9. Removed(i)'
      BY <1>3, <1>4, <1>7, <2>1, <2>2, <2>3, <2>4, <2>5 DEF Removed, On, Empty
    <2> QED BY <2>6, <2>7, <2>8, <2>9 DEF Inv
  <1> QED BY <1>3, <1>5, <1>6, <1>7, <1>8, <1>9, OneInstance

-----------------------------------------------------------------------------
(***************************************************************************)
(* The other actions.                                                      *)
(***************************************************************************)

(* Whatever fails takes its instance out of the properties. *)
LEMMA FailKept ==
    ASSUME IInv, NEW p \in Procs, Fail(p)
    PROVE  IInv'
  <1>0. /\ ~Idle(p) /\ TypeOK /\ Places(p) /\ proc[p].on \in Instances
        /\ mixed' = mixed \cup {proc[p].on}
        /\ UNCHANGED <<live, task, tree, renewal, queue>>
    BY AtWork DEF Fail
  <1>1. PICK x : /\ Becomes(p, x)
                 /\ \/ x.pc = "idle" /\ x.on = None
                    \/ /\ x.pc \in {"clean", "free"} /\ x.op \in Downloads
                       /\ x.op = proc[p].op /\ x.on = proc[p].on
    <2>1. CASE End(p)
      BY <2>1, EndBecomes
    <2>2. CASE proc[p].pc \in {"challenge", "answer"} /\ Goto(p, "clean")
      BY <1>0, <2>2, GotoBecomes DEF Places
    <2>3. CASE proc[p].op \in Downloads /\ Goto(p, "free")
      BY <1>0, <2>3, GotoBecomes
    <2> QED BY <2>1, <2>2, <2>3 DEF Fail
  <1>2. proc'[p] = x /\ proc' \in [Procs -> ProcType]
    BY <1>0, <1>1, BecomesOne
  <1>3. Places(p)'
    BY <1>0, <1>1, <1>2, CertAssumption DEF Places, Idle
  <1>4. TypeOK'
    <2>1. ops' = ops /\ faults' = faults + 1
      BY DEF Fail
    <2> QED BY <1>0, <1>2, <2>1 DEF TypeOK, tree, renewal
  <1>5. \A i \in Instances : Same(i)
    BY <1>0 DEF tree, renewal, Same, Queued
  <1>6. PICK j \in Instances : j = proc[p].on
    BY <1>0
  <1>7. proc[p].on \in {j, None} /\ x.on \in {j, None} /\ mixed \subseteq mixed' /\ j \in mixed'
    BY <1>0, <1>1, <1>6
  <1> QED BY <1>1, <1>3, <1>4, <1>5, <1>7, OneInstance

LEMMA Untouched ==
    ASSUME NEW i \in Instances, Inv(i), Same(i), UNCHANGED proc
    PROVE  Inv(i)'
  <1>1. Apart(i)'
    BY DEF Inv, Apart, On, Same
  <1>2. Paired(i)'
    BY DEF Inv, Paired, On, Same, ItsValue
  <1>3. Cleared(i)'
    BY DEF Inv, Cleared, On, Same
  <1>4. Removed(i)'
    BY DEF Inv, Removed, On, Same, Empty
  <1> QED BY <1>1, <1>2, <1>3, <1>4 DEF Inv

(* Nothing that counts is done, or all of it to instance j. *)
LEMMA WithoutProcess ==
    ASSUME IInv, NEW j \in Instances, UNCHANGED proc, TypeOK', mixed \subseteq mixed',
           \A i \in Instances \ {j} : Same(i),
           j \notin mixed' => Inv(j)'
    PROVE  IInv'
  <1>1. \A p \in Procs : Places(p)'
    BY DEF IInv, Places, Idle
  <1>2. ASSUME NEW i \in Instances \ mixed'
        PROVE  Inv(i)'
    BY <1>2, Untouched DEF IInv
  <1> QED BY <1>1, <1>2 DEF IInv

LEMMA CreateInstanceKept ==
    ASSUME IInv, NEW j \in Instances, CreateInstance(j)
    PROVE  IInv'
  <1>1. /\ live' = live \cup {j} /\ ops' = ops + 1 /\ mixed \subseteq mixed'
        /\ mixed' \subseteq mixed \cup {j}
        /\ UNCHANGED <<task, cert, key, settings, location, le, planless, renewing, queue, proc,
                       faults>>
    BY DEF CreateInstance, tree, renewal
  <1>2. TypeOK'
    BY <1>1 DEF IInv, TypeOK
  <1>3. \A i \in Instances \ {j} : Same(i)
    BY <1>1 DEF Same, Queued
  <1>4. ASSUME j \notin mixed'
        PROVE  Inv(j)'
    <2>1. Apart(j) /\ Paired(j) /\ Cleared(j) /\ Removed(j)
      BY <1>1, <1>4 DEF IInv, Inv
    <2>2. Removed(j)'
      BY <1>1, <2>1 DEF Removed, On, Empty
    <2>3. Apart(j)' /\ Paired(j)' /\ Cleared(j)'
      BY <1>1, <2>1 DEF Apart, Paired, Cleared, On, Queued, ItsValue
    <2> QED BY <2>2, <2>3 DEF Inv
  <1> QED BY <1>1, <1>2, <1>3, <1>4, WithoutProcess

LEMMA RenewalKept ==
    ASSUME IInv, NEW j \in Instances, Due(j) \/ DeletePlan(j) \/ Renew(j) \/ RenewCerts
    PROVE  IInv'
  <1>1. /\ UNCHANGED <<live, task, cert, key, settings, location, proc, mixed>>
        /\ \A i \in Instances : Queued(i)' <=> Queued(i)
    BY DEF Due, DeletePlan, Renew, RenewCerts, tree, Queued
  <1>2. /\ le' = le \/ (le[j] = "fresh" /\ le' = [le EXCEPT ![j] = "due"])
        /\ planless' \subseteq planless \cup {j}
        /\ renewing' \subseteq Instances
        /\ queue' \subseteq queue \cup {<<"renewal", j>>}
        /\ ops' \in Nat /\ faults' \in Nat
    BY DEF Due, DeletePlan, Renew, RenewCerts, bounds, IInv, TypeOK
  <1>3. TypeOK'
    BY <1>1, <1>2 DEF IInv, TypeOK, Downloads
  <1>4. \A i \in Instances \ {j} : Same(i)
    BY <1>1, <1>2 DEF Same, IInv, TypeOK
  <1>5. ASSUME j \notin mixed'
        PROVE  Inv(j)'
    <2>1. Apart(j) /\ Paired(j) /\ Cleared(j) /\ Removed(j)
      BY <1>1, <1>5 DEF IInv, Inv
    <2>2. le'[j] # "none" => le[j] # "none"
      BY <1>2 DEF IInv, TypeOK
    <2>3. Removed(j)'
      BY <1>1, <2>1, <2>2 DEF Removed, On, Empty
    <2>4. Apart(j)' /\ Paired(j)' /\ Cleared(j)'
      BY <1>1, <2>1 DEF Apart, Paired, Cleared, On, ItsValue
    <2> QED BY <2>3, <2>4 DEF Inv
  <1> QED BY <1>1, <1>3, <1>4, <1>5, WithoutProcess

-----------------------------------------------------------------------------
(***************************************************************************)
(* Theorems                                                                *)
(***************************************************************************)

LEMMA InitIInv == Init => IInv
  <1> SUFFICES ASSUME Init
               PROVE  IInv
    OBVIOUS
  <1>1. TypeOK
    BY CertAssumption DEF Init, TypeOK, IdleProc, ProcType
  <1>2. \A p \in Procs : proc[p].pc = "idle" /\ proc[p].on = None
    BY DEF Init, IdleProc
  <1>3. \A p \in Procs : Places(p)
    BY <1>2 DEF Places, Idle
  <1>4. ASSUME NEW i \in Instances
        PROVE  Inv(i)
    <2>1. \A p \in Procs : ~On(p, i)
      BY <1>2, CertAssumption DEF On
    <2>2. queue = {} /\ live = Instances /\ cert = key /\ location[i] = None
      BY DEF Init
    <2> QED BY <2>1, <2>2 DEF Inv, Apart, Paired, Cleared, Removed, Queued
  <1> QED BY <1>1, <1>3, <1>4 DEF IInv

LEMMA NextIInv == IInv /\ [Next]_vars => IInv'
  <1> SUFFICES ASSUME IInv, [Next]_vars
               PROVE  IInv'
    OBVIOUS
  <1>1. ASSUME NEW p \in Procs, NEW i \in Instances,
               \/ UpdateCertificate(p, i) \/ DeleteCertificate(p, i)
               \/ WriteBlock(p, i) \/ AddLua(p, i) \/ DeleteLua(p, i)
               \/ ActivateSSL(p, i) \/ RemoveInstance(p, i)
        PROVE  IInv'
    BY <1>1, RequestKept
  <1>2. ASSUME NEW p \in Procs, NEW w \in queue, Start(p, w)
        PROVE  IInv'
    BY <1>2, StartKept
  <1>3. ASSUME NEW p \in Procs, Step(p) \/ Fail(p)
        PROVE  IInv'
    BY <1>3, StepKept, FailKept
  <1>4. ASSUME NEW i \in Instances, CreateInstance(i)
        PROVE  IInv'
    BY <1>4, CreateInstanceKept
  <1>5. ASSUME NEW i \in Instances, Due(i) \/ DeletePlan(i) \/ Renew(i)
        PROVE  IInv'
    BY <1>5, RenewalKept
  <1>6. CASE RenewCerts
    <2>1. PICK i \in Instances : le[i] = "due"
      BY <1>6 DEF RenewCerts
    <2> QED BY <1>6, RenewalKept
  <1>7. CASE UNCHANGED vars
    <2>1. UNCHANGED <<live, task, cert, key, settings, location, le, planless, renewing, queue,
                      proc, ops, faults, mixed>>
      BY <1>7 DEF vars, tree, renewal, bounds
    <2> QED BY <2>1 DEF IInv, TypeOK, Places, Idle, Inv, Apart, Paired, Cleared, Removed, On,
                       Queued, ItsValue, Empty
  <1> QED BY <1>1, <1>2, <1>3, <1>4, <1>5, <1>6, <1>7 DEF Next

THEOREM CertificatesInvariant == Spec => []IInv
  <1> QED BY InitIInv, NextIInv, PTL DEF Spec

(* Every value is one the code gives it. *)
THEOREM TypeCorrect == Spec => []TypeOK
  <1>1. IInv => TypeOK
    BY DEF IInv
  <1> QED BY <1>1, CertificatesInvariant, PTL

LEMMA AtRestOff ==
    ASSUME NEW i \in Instances, AtRest(i), \A p \in Procs : Places(p)
    PROVE  \A p \in Procs : ~On(p, i)
  <1>1. \A p \in Procs : p \notin Working(i)
    BY DEF AtRest
  <1> QED BY <1>1, CertAssumption DEF Working, On, Places

(* The certificate and the private key of an instance are from one writer  *)
(* (set_certificate and delete_certificate, rpaas/consul_manager.py).      *)
THEOREM PairsMatch == Spec => []PairMatches
  <1>1. IInv => PairMatches
    <2> SUFFICES ASSUME IInv, NEW i \in Instances \ mixed, AtRest(i)
                 PROVE  cert[i] = key[i]
      BY DEF PairMatches
    <2>1. \A p \in Procs : ~On(p, i)
      BY AtRestOff DEF IInv
    <2> QED BY <2>1 DEF IInv, Inv, Paired
  <1> QED BY <1>1, CertificatesInvariant, PTL

(* A removed instance leaves nothing that one of the same name would start *)
(* with, and no download leaves its location (remove_instance,             *)
(* rpaas/manager.py; download_crt, rpaas/ssl_plugins/le_authenticator.py). *)
THEOREM RemovalsLeaveNothing == Spec => []NothingLeft
  <1>1. IInv => NothingLeft
    <2> SUFFICES ASSUME IInv, NEW i \in Instances \ mixed, AtRest(i)
                 PROVE  /\ location[i] = None
                        /\ i \notin live =>
                               /\ cert[i] = None /\ key[i] = None /\ settings[i] = {}
                               /\ le[i] = "none"
      BY DEF NothingLeft
    <2>1. \A p \in Procs : ~On(p, i)
      BY AtRestOff DEF IInv
    <2> QED BY <2>1 DEF IInv, Inv, Cleared, Removed, Empty
  <1> QED BY <1>1, CertificatesInvariant, PTL
=============================================================================
