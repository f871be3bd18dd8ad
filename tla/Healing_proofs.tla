--------------------------- MODULE Healing_proofs ---------------------------
(* Type correctness of the healing of machines, and what the restore lock  *)
(* guarantees, for every set of machines, instances and workers.           *)
EXTENDS Healing, TLAPS

(* The restore documents, where a machine without one has no last attempt, *)
(* and what is kept of failures.                                           *)
DocsOK ==
    /\ doc \in [Machines -> {"none", "fresh", "due"}]
    /\ attempt \in [Machines -> Ages]
    /\ failed \in [Machines -> Ages]
    /\ unrecorded \in SUBSET Machines
    /\ \A m \in Machines : doc[m] = "none" => attempt[m] = "never"

LEMMA TypeHasDocs == TypeOK => DocsOK
  BY DEF TypeOK, DocsOK

LEMMA CreateDocKeeps ==
    ASSUME DocsOK, NEW m, CreateDoc(m), UNCHANGED <<attempt, failed, unrecorded>>
    PROVE  DocsOK'
<1>1. CASE doc[m] = "none" /\ m \in Machines
  <2>1. doc' = [doc EXCEPT ![m] = "fresh"]
    BY <1>1 DEF CreateDoc
  <2> QED
    BY <2>1 DEF DocsOK
<1>2. CASE ~(doc[m] = "none" /\ m \in Machines)
  <2>1. doc' = doc
    BY <1>2 DEF CreateDoc, DocsOK
  <2> QED
    BY <2>1 DEF DocsOK
<1> QED
  BY <1>1, <1>2

LEMMA RemoveDocKeeps ==
    ASSUME DocsOK, NEW m, RemoveDoc(m), UNCHANGED failed
    PROVE  DocsOK'
<1>1. /\ doc' \in [Machines -> {"none", "fresh", "due"}]
      /\ attempt' \in [Machines -> Ages]
      /\ unrecorded' \in SUBSET Machines
  BY DEF DocsOK, RemoveDoc, Forgotten, Ages
<1>2. \A n \in Machines : doc'[n] = "none" => attempt'[n] = "never"
  BY DEF DocsOK, RemoveDoc
<1> QED
  BY <1>1, <1>2 DEF DocsOK
-----------------------------------------------------------------------------
LEMMA InitTypes == Init => TypeOK
  BY ConstantsAssumption DEF Init, TypeOK, IdleChk, ChkType, IdleRst, RstType,
     RestorePcs, IdleAdm, Ages

LEMMA CheckTypes ==
    ASSUME TypeOK, NEW c \in Checkers, CheckStep(c)
    PROVE  TypeOK'
<1> USE DEF docVars, boundVars
<1>0. chk \in [Checkers -> ChkType] /\ DocsOK
  BY TypeHasDocs DEF TypeOK
<1>1. CASE ServiceHealthcheck(c)
  BY <1>1 DEF ServiceHealthcheck, TypeOK, ChkType
<1>2. CASE CheckNode(c)
  <2>1. chk' \in [Checkers -> ChkType]
    <3>1. CASE chk' = [chk EXCEPT ![c] = IdleChk]
      BY <1>0, <3>1 DEF IdleChk, ChkType
    <3>2. ASSUME NEW m \in Machines,
                 chk' = [chk EXCEPT ![c].todo = @ \ {m},
                                    ![c].node = IF m \in hosts THEN m ELSE None,
                                    ![c].pc = IF m \in hosts THEN "ensure_ready" ELSE "next"]
          PROVE  chk' \in [Checkers -> ChkType]
      <4> DEFINE rest == chk[c].todo \ {m}
                 node == IF m \in hosts THEN m ELSE None
                 to == IF m \in hosts THEN "ensure_ready" ELSE "next"
      <4>1. /\ rest \in SUBSET Machines /\ node \in Machines \cup {None}
            /\ to \in {"ensure_ready", "next"}
        BY <1>0 DEF ChkType
      <4>2. chk' = [chk EXCEPT ![c] = [@ EXCEPT !.todo = rest, !.node = node, !.pc = to]]
        BY <1>0, <3>2 DEF ChkType
      <4> HIDE DEF rest, node, to
      <4> QED
        BY <1>0, <4>1, <4>2 DEF ChkType
    <3>3. chk[c].todo \subseteq Machines
      BY <1>0 DEF ChkType
    <3> QED
      BY <1>2, <3>1, <3>2, <3>3 DEF CheckNode
  <2> QED
    BY <1>2, <2>1 DEF CheckNode, TypeOK
<1>3. CASE EnsureReady(c)
  BY <1>3 DEF EnsureReady, NodeWrite, TypeOK, ChkType
<1>4. CASE CreateRestoreTask(c)
  <2>1. DocsOK'
    BY <1>0, <1>4, CreateDocKeeps DEF CreateRestoreTask
  <2>2. chk' \in [Checkers -> ChkType]
    BY <1>0, <1>4 DEF CreateRestoreTask, ChkType
  <2> QED
    BY <1>4, <2>1, <2>2 DEF CreateRestoreTask, TypeOK, DocsOK
<1>5. CASE RemoveRestoreTask(c)
  <2>1. DocsOK'
    BY <1>0, <1>5, RemoveDocKeeps DEF RemoveRestoreTask
  <2>2. chk' \in [Checkers -> ChkType]
    BY <1>0, <1>5 DEF RemoveRestoreTask, ChkType
  <2> QED
    BY <1>5, <2>1, <2>2 DEF RemoveRestoreTask, TypeOK, DocsOK
<1> QED
  BY <1>1, <1>2, <1>3, <1>4, <1>5 DEF CheckStep
-----------------------------------------------------------------------------
(* A restore worker that goes on to another call keeps its type. *)
LEMMA GotoTypes ==
    ASSUME TypeOK, NEW r \in Restorers, NEW pc, Goto(r, pc),
           pc \in {"idle", "find_task", "next", "store_healing", "healing_success",
                   "remove_task", "extend_lock", "healing_failed", "update_task",
                   "unlock"} \cup RestorePcs
    PROVE  rst' \in [Restorers -> RstType]
<1>1. rst \in [Restorers -> RstType]
  BY DEF TypeOK
<1> QED
  BY <1>1 DEF Goto, RstType, RestorePcs

LEMMA AgedKeeps ==
    ASSUME DocsOK, NEW from \in {"recent", "seen"}, NEW to \in {"seen", "waited"},
           TimePasses(from, to), UNCHANGED <<doc, unrecorded>>
    PROVE  DocsOK'
  BY DEF DocsOK, TimePasses, Aged, Ages

LEMMA RestoreTypes ==
    ASSUME TypeOK, NEW r \in Restorers, RestoreStep(r)
    PROVE  TypeOK'
<1> USE DEF docVars, boundVars
<1>0. /\ rst \in [Restorers -> RstType] /\ DocsOK
      /\ machine \in [Machines -> {"up", "failed", "stopped", "restored"}]
      /\ healing \in [Machines -> {"none", "open", "success", "failed"}]
      /\ lock \in Restorers \cup {None} /\ disruptions \in Nat
  BY TypeHasDocs DEF TypeOK
<1>1. CASE TakeLock(r)
  <2>1. DocsOK'
    BY <1>0, <1>1, AgedKeeps DEF TakeLock
  <2>2. rst' \in [Restorers -> RstType]
    BY <1>1, GotoTypes DEF TakeLock
  <2> QED
    BY <1>1, <2>1, <2>2 DEF TakeLock, TypeOK, DocsOK
<1>2. CASE FindTask(r)
  <2>1. rst' \in [Restorers -> RstType]
    BY <1>0, <1>2 DEF FindTask, RstType
  <2> QED
    BY <1>2, <2>1 DEF FindTask, TypeOK
<1>3. CASE NextTask(r)
  <2>1. CASE rst[r].todo = {} /\ Goto(r, "unlock")
    <3>1. rst' \in [Restorers -> RstType]
      BY <2>1, GotoTypes
    <3> QED
      BY <1>3, <3>1 DEF NextTask, TypeOK
  <2>2. ASSUME NEW m \in rst[r].todo,
               rst' = [rst EXCEPT ![r].todo = @ \ {m}, ![r].task = m,
                         ![r].pc = IF Blocked(m) THEN "extend_lock" ELSE "store_healing"]
        PROVE  TypeOK'
    <3>1. rst[r].todo \subseteq Machines
      BY <1>0 DEF RstType
    <3>2. m \in Machines
      BY <3>1
    <3> DEFINE to == IF Blocked(m) THEN "extend_lock" ELSE "store_healing"
    <3>3. to \in {"extend_lock", "store_healing"}
      OBVIOUS
    <3> DEFINE rest == rst[r].todo \ {m}
    <3>4. rest \in SUBSET Machines
      BY <3>1
    <3>5. rst' = [rst EXCEPT ![r] = [@ EXCEPT !.todo = rest, !.task = m, !.pc = to]]
      BY <1>0, <2>2 DEF RstType
    <3> HIDE DEF to, rest
    <3>6. rst' \in [Restorers -> RstType]
      BY <1>0, <3>2, <3>3, <3>4, <3>5 DEF RstType
    <3> QED
      BY <1>3, <3>6 DEF NextTask, TypeOK
  <2> QED
    BY <1>3, <2>1, <2>2 DEF NextTask
<1>4. CASE StoreHealing(r)
  <2>1. rst' \in [Restorers -> RstType]
    BY <1>4, GotoTypes DEF StoreHealing, RestorePcs
  <2> QED
    BY <1>0, <1>4, <2>1 DEF StoreHealing, TypeOK
<1>5. CASE Stop(r)
  <2>1. rst' \in [Restorers -> RstType]
    BY <1>5, GotoTypes DEF Stop, RestorePcs
  <2> QED
    BY <1>0, <1>5, <2>1 DEF Stop, TypeOK
<1>6. CASE Restore(r)
  <2>1. rst' \in [Restorers -> RstType]
    BY <1>6, GotoTypes DEF Restore, RestorePcs
  <2> QED
    BY <1>0, <1>6, <2>1 DEF Restore, TypeOK
<1>7. CASE Start(r)
  <2>1. rst' \in [Restorers -> RstType]
    BY <1>7, GotoTypes DEF Start, RestorePcs
  <2>2. machine' \in [Machines -> {"up", "failed", "stopped", "restored"}]
    BY <1>0, <1>7 DEF Start
  <2> QED
    BY <1>7, <2>1, <2>2 DEF Start, TypeOK
<1>8. CASE WaitHealthcheck(r)
  <2>1. rst' \in [Restorers -> RstType]
    BY <1>8, GotoTypes DEF WaitHealthcheck
  <2> QED
    BY <1>8, <2>1 DEF WaitHealthcheck, TypeOK
<1>9. CASE HealingSuccess(r)
  <2>1. rst' \in [Restorers -> RstType]
    BY <1>9, GotoTypes DEF HealingSuccess
  <2> QED
    BY <1>0, <1>9, <2>1 DEF HealingSuccess, TypeOK
<1>10. CASE RemoveTask(r)
  <2>1. DocsOK'
    BY <1>0, <1>10, RemoveDocKeeps DEF RemoveTask
  <2>2. rst' \in [Restorers -> RstType]
    BY <1>10, GotoTypes DEF RemoveTask
  <2> QED
    BY <1>10, <2>1, <2>2 DEF RemoveTask, TypeOK, DocsOK
<1>11. CASE ExtendLock(r)
  <2>1. rst' \in [Restorers -> RstType]
    BY <1>11, GotoTypes DEF ExtendLock
  <2> QED
    BY <1>11, <2>1 DEF ExtendLock, TypeOK
<1>12. CASE HealingFailed(r)
  <2>1. rst' \in [Restorers -> RstType]
    BY <1>12, GotoTypes DEF HealingFailed
  <2>2. failed' \in [Machines -> Ages]
    BY <1>0, <1>12 DEF HealingFailed, DocsOK, Ages
  <2> QED
    BY <1>0, <1>12, <2>1, <2>2 DEF HealingFailed, TypeOK
<1>13. CASE UpdateTask(r)
  <2>1. DocsOK'
    BY <1>0, <1>13 DEF UpdateTask, UpdatedAttempt, Forgotten, DocsOK, Ages
  <2>2. rst' \in [Restorers -> RstType]
    BY <1>13, GotoTypes DEF UpdateTask
  <2> QED
    BY <1>13, <2>1, <2>2 DEF UpdateTask, TypeOK, DocsOK
<1>14. CASE Unlock(r)
  <2>1. DocsOK'
    BY <1>0, <1>14, AgedKeeps DEF Unlock
  <2>2. rst' \in [Restorers -> RstType]
    BY <1>0, <1>14 DEF Unlock, IdleRst, RstType
  <2>3. lock' \in Restorers \cup {None}
    BY <1>0, <1>14 DEF Unlock, Released
  <2> QED
    BY <1>14, <2>1, <2>2, <2>3 DEF Unlock, TypeOK, DocsOK
<1>15. CASE RestoreRaises(r)
  <2>1. rst' \in [Restorers -> RstType]
    BY <1>15, GotoTypes DEF RestoreRaises
  <2>2. disruptions' \in Nat
    BY <1>0, <1>15 DEF RestoreRaises, Disrupt
  <2> QED
    BY <1>15, <2>1, <2>2 DEF RestoreRaises, TypeOK
<1> QED
  BY <1>1, <1>2, <1>3, <1>4, <1>5, <1>6, <1>7, <1>8, <1>9, <1>10, <1>11, <1>12,
     <1>13, <1>14, <1>15 DEF RestoreStep
-----------------------------------------------------------------------------
(* The administrator, the machines, time and faults. *)
LEMMA OutsideTypes ==
    ASSUME TypeOK, NEW m \in Machines,
           \/ AdminRestore(m) \/ AdminCancel(m) \/ AdminWrite
           \/ MachineChanges(m) \/ MachineDestroyed(m) \/ BecomesDue(m) \/ BackoffEnds(m)
    PROVE  TypeOK'
<1> USE DEF docVars, boundVars
<1>0. /\ DocsOK /\ hosts \in SUBSET Machines
      /\ machine \in [Machines -> {"up", "failed", "stopped", "restored"}]
      /\ adm \in [op : {"none", "restore", "cancel"}, machine : Machines \cup {None}]
      /\ failures \in Nat /\ disruptions \in Nat
  BY TypeHasDocs DEF TypeOK
<1>1. CASE AdminRestore(m) \/ AdminCancel(m)
  <2>1. disruptions' \in Nat
    BY <1>0, <1>1 DEF AdminRestore, AdminCancel, Disrupt
  <2>2. adm' \in [op : {"none", "restore", "cancel"}, machine : Machines \cup {None}]
    BY <1>1 DEF AdminRestore, AdminCancel
  <2> QED
    BY <1>1, <2>1, <2>2 DEF AdminRestore, AdminCancel, TypeOK
<1>2. CASE AdminWrite
  <2>1. DocsOK'
    BY <1>0, <1>2, CreateDocKeeps, RemoveDocKeeps DEF AdminWrite
  <2>2. adm' \in [op : {"none", "restore", "cancel"}, machine : Machines \cup {None}]
    BY <1>2 DEF AdminWrite, IdleAdm
  <2> QED
    BY <1>2, <2>1, <2>2 DEF AdminWrite, TypeOK, DocsOK
<1>3. CASE MachineChanges(m) \/ MachineDestroyed(m)
  <2>1. machine' \in [Machines -> {"up", "failed", "stopped", "restored"}]
    BY <1>0, <1>3 DEF MachineChanges, MachineDestroyed
  <2>2. failures' \in Nat /\ hosts' \in SUBSET Machines
    BY <1>0, <1>3 DEF MachineChanges, MachineDestroyed
  <2> QED
    BY <1>3, <2>1, <2>2 DEF MachineChanges, MachineDestroyed, TypeOK
<1>4. CASE BecomesDue(m) \/ BackoffEnds(m)
  <2>1. DocsOK'
    BY <1>0, <1>4 DEF BecomesDue, BackoffEnds, DocsOK, Ages
  <2> QED
    BY <1>4, <2>1 DEF BecomesDue, BackoffEnds, TypeOK, DocsOK
<1> QED
  BY <1>1, <1>2, <1>3, <1>4

LEMMA WorkerFaultTypes ==
    ASSUME TypeOK, NEW r \in Restorers, Crash(r) \/ LockExpires(r)
    PROVE  TypeOK'
<1> USE DEF docVars, boundVars
<1>0. rst \in [Restorers -> RstType] /\ disruptions \in Nat /\ expiries \in Nat
  BY DEF TypeOK
<1>1. rst' \in [Restorers -> RstType]
  BY <1>0 DEF Crash, LockExpires, IdleRst, RstType
<1>2. disruptions' \in Nat /\ expiries' \in Nat
  BY <1>0 DEF Crash, LockExpires, Disrupt
<1>3. unrecorded' \in SUBSET Machines
  BY DEF Crash, LockExpires, Forgotten, TypeOK
<1> QED
  BY <1>1, <1>2, <1>3 DEF Crash, LockExpires, TypeOK

LEMMA StepTypes == TypeOK /\ [Next]_vars => TypeOK'
<1> SUFFICES ASSUME TypeOK, [Next]_vars PROVE TypeOK'
  OBVIOUS
<1>1. CASE UNCHANGED vars
  BY <1>1 DEF vars, docVars, boundVars, TypeOK
<1>2. ASSUME AdminWrite PROVE TypeOK'
  <2>1. CASE Machines = {}
    BY <1>2, <2>1 DEF AdminWrite, CreateDoc, RemoveDoc, Forgotten, TypeOK, IdleAdm,
       boundVars
  <2>2. CASE Machines # {}
    BY <1>2, <2>2, OutsideTypes
  <2> QED
    BY <2>1, <2>2
<1> QED
  BY <1>1, <1>2, CheckTypes, RestoreTypes, OutsideTypes, WorkerFaultTypes DEF Next

(* Every variable of the healing keeps its type; in particular a restore   *)
(* document that is gone keeps no last attempt behind.                     *)
THEOREM TypeCorrect == Spec => []TypeOK
<1>1. Init => TypeOK
  BY InitTypes
<1>2. TypeOK /\ [Next]_vars => TypeOK'
  BY StepTypes
<1> QED
  BY <1>1, <1>2, PTL DEF Spec
-----------------------------------------------------------------------------
(* A task that runs holds the lock, until one expires under a running task. *)
HolderOK ==
    expiries = 0 => \A r \in Restorers : ~At(r, "idle") => lock = r

HealInv == TypeOK /\ HolderOK

LEMMA StepHolder == HealInv /\ [Next]_vars => HealInv'
<1> SUFFICES ASSUME HealInv, [Next]_vars PROVE HolderOK'
  BY StepTypes DEF HealInv
<1> USE DEF docVars, boundVars
<1>0. /\ rst \in [Restorers -> RstType] /\ expiries \in Nat /\ None \notin Restorers
      /\ HolderOK
  BY ConstantsAssumption DEF HealInv, TypeOK
<1>1. ASSUME UNCHANGED <<rst, lock, expiries>> PROVE HolderOK'
  BY <1>0, <1>1 DEF HolderOK, At
<1>2. ASSUME NEW r \in Restorers, TakeLock(r) PROVE HolderOK'
  BY <1>0, <1>2 DEF TakeLock, LockFree, HolderOK, At, Goto
<1>3. ASSUME NEW r \in Restorers, ~At(r, "idle"), UNCHANGED <<lock, expiries>>,
             \A s \in Restorers \ {r} : rst'[s] = rst[s]
      PROVE  HolderOK'
  BY <1>0, <1>3 DEF HolderOK, At
<1>4. ASSUME NEW r \in Restorers, Unlock(r) PROVE HolderOK'
  BY <1>0, <1>4 DEF Unlock, Released, IdleRst, HolderOK, At
<1>5. ASSUME NEW r \in Restorers, LockExpires(r) PROVE HolderOK'
  BY <1>0, <1>5 DEF LockExpires, HolderOK, At
<1>6. ASSUME NEW r \in Restorers,
             \/ FindTask(r) \/ NextTask(r) \/ StoreHealing(r) \/ Stop(r) \/ Restore(r)
             \/ Start(r) \/ WaitHealthcheck(r) \/ HealingSuccess(r) \/ RemoveTask(r)
             \/ ExtendLock(r) \/ HealingFailed(r) \/ UpdateTask(r) \/ RestoreRaises(r)
             \/ Crash(r)
      PROVE  HolderOK'
  <2>1. ~At(r, "idle") /\ UNCHANGED <<lock, expiries>>
    BY <1>6 DEF FindTask, NextTask, StoreHealing, Stop, Restore, Start, WaitHealthcheck,
       HealingSuccess, RemoveTask, ExtendLock, HealingFailed, UpdateTask, RestoreRaises,
       Crash, RestorePcs, At, Goto
  <2>2. \A s \in Restorers \ {r} : rst'[s] = rst[s]
    BY <1>0, <1>6 DEF FindTask, NextTask, StoreHealing, Stop, Restore, Start,
       WaitHealthcheck, HealingSuccess, RemoveTask, ExtendLock, HealingFailed, UpdateTask,
       RestoreRaises, Crash, Goto
  <2> QED
    BY <1>3, <2>1, <2>2
<1>7. ASSUME NEW c \in Checkers, CheckStep(c) PROVE HolderOK'
  BY <1>1, <1>7 DEF CheckStep, ServiceHealthcheck, CheckNode, EnsureReady,
     CreateRestoreTask, RemoveRestoreTask
<1>8. ASSUME NEW m \in Machines,
             \/ AdminRestore(m) \/ AdminCancel(m) \/ MachineChanges(m)
             \/ MachineDestroyed(m) \/ BecomesDue(m) \/ BackoffEnds(m)
      PROVE  HolderOK'
  BY <1>1, <1>8 DEF AdminRestore, AdminCancel, MachineChanges, MachineDestroyed,
     BecomesDue, BackoffEnds
<1>9. ASSUME AdminWrite PROVE HolderOK'
  BY <1>1, <1>9 DEF AdminWrite
<1>10. ASSUME UNCHANGED vars PROVE HolderOK'
  BY <1>1, <1>10 DEF vars
<1> QED
  BY <1>2, <1>4, <1>5, <1>6, <1>7, <1>8, <1>9, <1>10 DEF Next, RestoreStep

(* While no lock expires under a running task, two workers never restore   *)
(* machines at the same time, whatever is killed, fails or is cancelled.   *)
THEOREM RestoresExclude == Spec => []RestoreExclusive
<1>1. Init => HealInv
  BY InitTypes DEF HealInv, HolderOK, Init, IdleRst, At
<1>2. HealInv /\ [Next]_vars => HealInv'
  BY StepHolder
<1>3. HealInv => RestoreExclusive
  BY ConstantsAssumption DEF HealInv, HolderOK, RestoreExclusive, Restoring, RestorePcs, At
<1> QED
  BY <1>1, <1>2, <1>3, PTL DEF Spec
-----------------------------------------------------------------------------
(* A worker that lost its lock to a timeout never gives up the lock of the *)
(* worker that holds it now: only its holder or its timeout releases it.   *)
THEOREM OwnLockReleased == Spec => OwnLockOnly
<1>1. ASSUME [Next]_vars, NEW r \in Restorers, lock = r, lock' # r
      PROVE  Unlock(r) \/ LockExpires(r)
  <2> USE DEF docVars, boundVars
  <2>0. None \notin Restorers
    BY ConstantsAssumption
  <2>1. ASSUME NEW c \in Checkers, CheckStep(c) PROVE lock' = lock
    BY <2>1 DEF CheckStep, ServiceHealthcheck, CheckNode, EnsureReady,
       CreateRestoreTask, RemoveRestoreTask
  <2>2. ASSUME NEW m \in Machines,
               \/ AdminRestore(m) \/ AdminCancel(m) \/ MachineChanges(m)
               \/ MachineDestroyed(m) \/ BecomesDue(m) \/ BackoffEnds(m)
        PROVE  lock' = lock
    BY <2>2 DEF AdminRestore, AdminCancel, MachineChanges, MachineDestroyed,
       BecomesDue, BackoffEnds
  <2>3. ASSUME AdminWrite \/ UNCHANGED vars PROVE lock' = lock
    BY <2>3 DEF AdminWrite, vars
  <2>4. ASSUME NEW s \in Restorers, RestoreStep(s) PROVE lock' = lock \/ s = r
    BY <1>1, <2>0, <2>4 DEF RestoreStep, TakeLock, LockFree, FindTask, NextTask,
       StoreHealing, Stop, Restore, Start, WaitHealthcheck, HealingSuccess, RemoveTask,
       ExtendLock, HealingFailed, UpdateTask, Unlock, Released, RestoreRaises
  <2>5. ASSUME RestoreStep(r), ~Unlock(r) PROVE lock' = lock
    BY <1>1, <2>0, <2>5 DEF RestoreStep, TakeLock, LockFree, FindTask, NextTask,
       StoreHealing, Stop, Restore, Start, WaitHealthcheck, HealingSuccess, RemoveTask,
       ExtendLock, HealingFailed, UpdateTask, RestoreRaises
  <2>6. ASSUME NEW s \in Restorers, Crash(s) PROVE lock' = lock
    BY <2>6 DEF Crash
  <2>7. ASSUME NEW s \in Restorers, LockExpires(s) PROVE s = r
    BY <1>1, <2>7 DEF LockExpires
  <2> QED
    BY <1>1, <2>1, <2>2, <2>3, <2>4, <2>5, <2>6, <2>7 DEF Next
<1>2. [Next]_vars =>
        [\A r \in Restorers : lock = r /\ lock' # r => Unlock(r) \/ LockExpires(r)]_vars
  BY <1>1
<1> QED
  BY <1>2, PTL DEF Spec, OwnLockOnly
-----------------------------------------------------------------------------
(* The machine a worker is about to stop was free to be stopped when the   *)
(* worker looked, and only a task that holds the lock writes new failures. *)
ChoiceOK ==
    expiries = 0 =>
        \A r \in Restorers : At(r, "store_healing") \/ At(r, "stop") => ~Blocked(rst[r].task)

(* A failure of late is in the document of its machine, or the worker that *)
(* met it is about to write it there, or the document is gone.             *)
RecordedOK ==
    expiries = 0 =>
        /\ \A m \in Machines \ unrecorded : failed[m] \in Lately =>
              \/ attempt[m] = failed[m]
              \/ \E r \in Restorers : At(r, "update_task") /\ rst[r].task = m
        /\ \A r \in Restorers : At(r, "update_task") /\ rst[r].task \in Machines =>
              failed[rst[r].task] = "recent"

BackoffInv == HealInv /\ ChoiceOK /\ RecordedOK

(* Only a lock that expires under a running task ends a history without one. *)
LEMMA ExpiriesStay ==
    ASSUME TypeOK, [Next]_vars, expiries' = 0
    PROVE  expiries = 0
<1> USE DEF docVars, boundVars
<1>1. ASSUME NEW s \in Restorers, LockExpires(s) PROVE expiries = 0
  BY <1>1 DEF LockExpires, Disrupt, TypeOK
<1>2. CASE UNCHANGED expiries
  BY <1>2
<1> QED
  BY <1>1, <1>2 DEF Next, vars, CheckStep, ServiceHealthcheck, CheckNode, EnsureReady,
     CreateRestoreTask, RemoveRestoreTask, RestoreStep, TakeLock, FindTask, NextTask,
     StoreHealing, Stop, Restore, Start, WaitHealthcheck, HealingSuccess, RemoveTask,
     ExtendLock, HealingFailed, UpdateTask, Unlock, RestoreRaises, Crash, AdminRestore,
     AdminCancel, AdminWrite, MachineChanges, MachineDestroyed, BecomesDue, BackoffEnds

LEMMA StepChoice == BackoffInv /\ [Next]_vars => ChoiceOK'
<1> SUFFICES ASSUME BackoffInv, [Next]_vars, expiries' = 0, NEW r \in Restorers,
                    rst'[r].pc \in {"store_healing", "stop"}, NEW f \in Machines,
                    RecentFailure(f)', InstanceOf[f] = InstanceOf[rst'[r].task]
             PROVE  FALSE
  BY DEF ChoiceOK, At, Blocked
<1> USE DEF docVars, boundVars
<1>0. /\ rst \in [Restorers -> RstType] /\ expiries \in Nat /\ DocsOK /\ HolderOK
      /\ None \notin Restorers /\ ChoiceOK
  BY ConstantsAssumption, TypeHasDocs DEF BackoffInv, HealInv, TypeOK
<1>1. expiries = 0
  BY ExpiriesStay DEF BackoffInv, HealInv
<1>2. RecentFailure(f) \/ \E s \in Restorers : UpdateTask(s)
  <2>1. CASE UNCHANGED attempt
    BY <2>1 DEF RecentFailure
  <2>2. ASSUME NEW m, RemoveDoc(m) PROVE RecentFailure(f)
    BY <1>0, <2>2 DEF RemoveDoc, RecentFailure, Lately, DocsOK
  <2>3. CASE TimePasses("recent", "seen") \/ TimePasses("seen", "waited")
    BY <1>0, <2>3 DEF TimePasses, Aged, RecentFailure, Lately, DocsOK
  <2>4. ASSUME NEW m \in Machines, BackoffEnds(m) PROVE RecentFailure(f)
    BY <1>0, <2>4 DEF BackoffEnds, RecentFailure, Lately, DocsOK
  <2> QED
    BY <2>1, <2>2, <2>3, <2>4 DEF Next, vars, CheckStep, ServiceHealthcheck, CheckNode,
       EnsureReady, CreateRestoreTask, RemoveRestoreTask, RestoreStep, TakeLock, FindTask,
       NextTask, StoreHealing, Stop, Restore, Start, WaitHealthcheck, HealingSuccess,
       RemoveTask, ExtendLock, HealingFailed, Unlock, RestoreRaises, Crash, LockExpires,
       AdminRestore, AdminCancel, AdminWrite, MachineChanges, MachineDestroyed, BecomesDue
<1>3. CASE \E s \in Restorers : UpdateTask(s)
  <2>1. PICK s \in Restorers : UpdateTask(s)
    BY <1>3
  <2>2. rst'[s].pc = "unlock" /\ (s # r => rst'[r] = rst[r])
    BY <1>0, <2>1 DEF UpdateTask, Goto, RstType
  <2>3. s # r /\ ~At(s, "idle") /\ ~At(r, "idle")
    BY <2>1, <2>2 DEF UpdateTask, At
  <2> QED
    BY <1>0, <1>1, <2>3 DEF HolderOK
<1>4. CASE RecentFailure(f)
  <2>1. CASE rst'[r] = rst[r]
    <3>1. At(r, "store_healing") \/ At(r, "stop")
      BY <2>1 DEF At
    <3> QED
      BY <1>0, <1>1, <1>4, <2>1, <3>1 DEF ChoiceOK, Blocked
  <2>2. CASE NextTask(r)
    <3>1. PICK m \in rst[r].todo :
            rst' = [rst EXCEPT ![r].todo = @ \ {m}, ![r].task = m,
                      ![r].pc = IF Blocked(m) THEN "extend_lock" ELSE "store_healing"]
      BY <1>0, <2>2 DEF NextTask, Goto, RstType
    <3>2. rst'[r].task = m /\ ~Blocked(m)
      BY <1>0, <3>1 DEF RstType
    <3> QED
      BY <1>4, <3>2 DEF Blocked
  <2>3. CASE StoreHealing(r)
    <3>1. At(r, "store_healing") /\ rst'[r].task = rst[r].task
      BY <1>0, <2>3 DEF StoreHealing, Goto, RstType
    <3> QED
      BY <1>0, <1>1, <1>4, <3>1 DEF ChoiceOK, Blocked
  <2>4. rst'[r] = rst[r] \/ NextTask(r) \/ StoreHealing(r)
    <3>1. CASE UNCHANGED rst
      BY <3>1
    <3>2. ASSUME NEW s \in Restorers, s # r, RestoreStep(s) \/ Crash(s)
          PROVE  rst'[r] = rst[r]
      BY <1>0, <3>2 DEF RestoreStep, TakeLock, FindTask, NextTask, StoreHealing, Stop,
         Restore, Start, WaitHealthcheck, HealingSuccess, RemoveTask, ExtendLock,
         HealingFailed, UpdateTask, Unlock, RestoreRaises, Crash, Goto
    <3>3. ASSUME RestoreStep(r) \/ Crash(r), ~NextTask(r), ~StoreHealing(r)
          PROVE  FALSE
      BY <1>0, <3>3 DEF RestoreStep, TakeLock, FindTask, Stop, Restore, Start,
         WaitHealthcheck, HealingSuccess, RemoveTask, ExtendLock, HealingFailed, UpdateTask,
         Unlock, RestoreRaises, Crash, Goto, IdleRst, RstType
    <3> QED
      BY <3>1, <3>2, <3>3 DEF Next, vars, CheckStep, ServiceHealthcheck, CheckNode,
         EnsureReady, CreateRestoreTask, RemoveRestoreTask, LockExpires, AdminRestore,
         AdminCancel, AdminWrite, MachineChanges, MachineDestroyed, BecomesDue, BackoffEnds
  <2> QED
    BY <2>1, <2>2, <2>3, <2>4
<1> QED
  BY <1>2, <1>3, <1>4

-----------------------------------------------------------------------------
(* What a step does to the failures of a history without an early expiry:  *)
(* their record is kept, or the machine counts as one without.             *)
LEMMA StepRecorded == BackoffInv /\ [Next]_vars => RecordedOK'
<1> SUFFICES ASSUME BackoffInv, [Next]_vars, expiries' = 0
             PROVE  RecordedOK'
  BY DEF RecordedOK
<1> USE DEF docVars, boundVars
<1>0. /\ rst \in [Restorers -> RstType] /\ DocsOK /\ HolderOK /\ RecordedOK
      /\ None \notin Machines
  BY ConstantsAssumption, TypeHasDocs DEF BackoffInv, HealInv, TypeOK
<1>1. expiries = 0
  BY ExpiriesStay DEF BackoffInv, HealInv
<1>2. \A r, s \in Restorers : ~At(r, "idle") /\ ~At(s, "idle") => r = s
  BY <1>0, <1>1 DEF HolderOK
(* Nothing is written about failures and no worker is about to. *)
<1>3. ASSUME UNCHANGED <<attempt, failed, unrecorded>>,
             \A s \in Restorers \ {q \in Restorers : rst'[q] = rst[q]} :
                ~At(s, "update_task") /\ ~At(s, "update_task")'
      PROVE  RecordedOK'
  BY <1>0, <1>1, <1>3 DEF RecordedOK, At
<1>4. ASSUME NEW m, RemoveDoc(m), UNCHANGED failed,
             \A s \in Restorers \ {q \in Restorers : rst'[q] = rst[q]} :
                ~At(s, "update_task") /\ ~At(s, "update_task")'
      PROVE  RecordedOK'
  BY <1>0, <1>1, <1>4 DEF RemoveDoc, Forgotten, RecordedOK, DocsOK, At
<1>5. ASSUME NEW r \in Restorers, TakeLock(r) PROVE RecordedOK'
  <2>1. \A s \in Restorers : At(s, "idle")
    BY <1>0, <1>1, <1>5, ConstantsAssumption DEF TakeLock, LockFree, HolderOK
  <2>2. \A s \in Restorers : ~At(s, "update_task")'
    BY <1>0, <1>5, <2>1 DEF TakeLock, Goto, At
  <2>3. \A m \in Machines \ unrecorded : failed[m] \in Lately => attempt[m] = failed[m]
    BY <1>0, <1>1, <2>1 DEF RecordedOK, At
  <2> QED
    BY <1>0, <1>5, <2>2, <2>3 DEF TakeLock, TimePasses, Aged, Lately, RecordedOK, DocsOK
<1>6. ASSUME NEW r \in Restorers, Unlock(r) PROVE RecordedOK'
  <2>1. \A s \in Restorers : ~At(s, "update_task")
    BY <1>2, <1>6 DEF Unlock, At
  <2>2. \A s \in Restorers : ~At(s, "update_task")'
    BY <1>0, <1>6, <2>1 DEF Unlock, IdleRst, At
  <2>3. \A m \in Machines \ unrecorded : failed[m] \in Lately => attempt[m] = failed[m]
    BY <1>0, <1>1, <2>1 DEF RecordedOK
  <2> QED
    BY <1>0, <1>6, <2>2, <2>3 DEF Unlock, TimePasses, Aged, Lately, RecordedOK, DocsOK
<1>7. ASSUME NEW r \in Restorers, HealingFailed(r) PROVE RecordedOK'
  <2>1. \A s \in Restorers : ~At(s, "update_task")
    BY <1>2, <1>7 DEF HealingFailed, At
  <2>2. /\ At(r, "update_task")' /\ rst'[r].task = rst[r].task
        /\ \A s \in Restorers : At(s, "update_task")' => s = r
    BY <1>0, <1>7, <2>1 DEF HealingFailed, Goto, RstType, At
  <2>3. \A m \in Machines \ unrecorded : failed[m] \in Lately => attempt[m] = failed[m]
    BY <1>0, <1>1, <2>1 DEF RecordedOK
  <2> QED
    BY <1>0, <1>7, <2>2, <2>3 DEF HealingFailed, RecordedOK, DocsOK
<1>8. ASSUME NEW r \in Restorers, UpdateTask(r) PROVE RecordedOK'
  <2>1. \A s \in Restorers : At(s, "update_task") => s = r
    BY <1>2, <1>8 DEF UpdateTask, At
  <2>2. \A s \in Restorers : ~At(s, "update_task")'
    BY <1>0, <1>8, <2>1 DEF UpdateTask, Goto, At
  <2>3. rst[r].task \in Machines => failed[rst[r].task] = "recent"
    BY <1>0, <1>1, <1>8 DEF UpdateTask, RecordedOK
  <2>4. \A m \in Machines \ unrecorded : failed[m] \in Lately /\ m # rst[r].task
                                            => attempt[m] = failed[m]
    BY <1>0, <1>1, <2>1 DEF RecordedOK
  <2> QED
    BY <1>0, <1>8, <2>2, <2>3, <2>4 DEF UpdateTask, UpdatedAttempt, Forgotten, Lately,
       RecordedOK, DocsOK
<1>9. ASSUME NEW r \in Restorers, Crash(r) PROVE RecordedOK'
  <2>1. \A s \in Restorers : At(s, "update_task") => s = r
    BY <1>2, <1>9 DEF Crash, At
  <2>2. \A s \in Restorers : ~At(s, "update_task")'
    BY <1>0, <1>9, <2>1 DEF Crash, IdleRst, At
  <2>3. \A m \in Machines \ unrecorded' : failed[m] \in Lately => attempt[m] = failed[m]
    BY <1>0, <1>1, <1>9, <2>1 DEF Crash, Forgotten, RecordedOK, At
  <2> QED
    BY <1>9, <2>2, <2>3 DEF Crash, RecordedOK
<1>10. ASSUME NEW m \in Machines, BackoffEnds(m) PROVE RecordedOK'
  BY <1>0, <1>1, <1>10 DEF BackoffEnds, Lately, RecordedOK, DocsOK, At
<1>11. ASSUME NEW r \in Restorers,
              \/ FindTask(r) \/ NextTask(r) \/ StoreHealing(r) \/ Stop(r) \/ Restore(r)
              \/ Start(r) \/ WaitHealthcheck(r) \/ HealingSuccess(r) \/ ExtendLock(r)
              \/ RestoreRaises(r)
       PROVE  RecordedOK'
  <2>1. /\ ~At(r, "update_task") /\ ~At(r, "update_task")'
        /\ \A s \in Restorers \ {r} : rst'[s] = rst[s]
    <3>1. ExtendLock(r) => lock = r
      BY <1>0, <1>1 DEF ExtendLock, HolderOK, At
    <3>2. ~At(r, "update_task")
      BY <1>11 DEF FindTask, NextTask, StoreHealing, Stop, Restore, Start,
         WaitHealthcheck, HealingSuccess, ExtendLock, RestoreRaises, RestorePcs, At
    <3>3. \A s \in Restorers \ {r} : rst'[s] = rst[s]
      BY <1>0, <1>11 DEF FindTask, NextTask, StoreHealing, Stop, Restore, Start,
         WaitHealthcheck, HealingSuccess, ExtendLock, RestoreRaises, Goto
    <3>4. CASE FindTask(r) \/ NextTask(r)
      <4>1. rst'[r].pc \in {"next", "unlock", "extend_lock", "store_healing"}
        <5>1. CASE FindTask(r)
          BY <1>0, <5>1 DEF FindTask, RstType
        <5>2. CASE NextTask(r)
          <6>1. CASE Goto(r, "unlock")
            BY <1>0, <6>1 DEF Goto, RstType
          <6>2. ASSUME NEW m \in rst[r].todo,
                       rst' = [rst EXCEPT ![r].todo = @ \ {m}, ![r].task = m,
                         ![r].pc = IF Blocked(m) THEN "extend_lock" ELSE "store_healing"]
                PROVE  rst'[r].pc \in {"extend_lock", "store_healing"}
            BY <1>0, <6>2 DEF RstType
          <6> QED
            BY <5>2, <6>1, <6>2 DEF NextTask
        <5> QED
          BY <3>4, <5>1, <5>2
      <4> QED
        BY <3>2, <3>3, <4>1 DEF At
    <3>5. CASE ExtendLock(r)
      BY <1>0, <3>1, <3>5, <3>2, <3>3 DEF ExtendLock, Goto, RstType, At
    <3>6. CASE StoreHealing(r) \/ Stop(r) \/ Restore(r) \/ Start(r) \/ WaitHealthcheck(r)
               \/ HealingSuccess(r) \/ RestoreRaises(r)
      <4>1. \E pc \in {"stop", "healing_failed", "restore", "start", "wait_healthcheck",
                        "healing_success", "remove_task"} : Goto(r, pc)
        BY <3>6 DEF StoreHealing, Stop, Restore, Start, WaitHealthcheck, HealingSuccess,
           RestoreRaises
      <4> QED
        BY <1>0, <3>2, <3>3, <4>1 DEF Goto, RstType, At
    <3> QED
      BY <1>11, <3>2, <3>3, <3>4, <3>5, <3>6
  <2>2. UNCHANGED <<attempt, failed, unrecorded>>
    BY <1>11 DEF FindTask, NextTask, StoreHealing, Stop, Restore, Start, WaitHealthcheck,
       HealingSuccess, ExtendLock, RestoreRaises
  <2> QED
    BY <1>3, <2>1, <2>2
<1>12. ASSUME NEW r \in Restorers, RemoveTask(r) PROVE RecordedOK'
  <2>1. \A s \in Restorers \ {q \in Restorers : rst'[q] = rst[q]} :
                ~At(s, "update_task") /\ ~At(s, "update_task")'
    BY <1>0, <1>12 DEF RemoveTask, Goto, At
  <2> QED
    BY <1>4, <1>12, <2>1 DEF RemoveTask
<1>13. ASSUME NEW r \in Restorers, LockExpires(r) PROVE RecordedOK'
  BY <1>3, <1>13 DEF LockExpires
<1>14. ASSUME NEW c \in Checkers, CheckStep(c) PROVE RecordedOK'
  BY <1>3, <1>4, <1>14 DEF CheckStep, ServiceHealthcheck, CheckNode, EnsureReady,
     CreateRestoreTask, RemoveRestoreTask
<1>15. ASSUME NEW m \in Machines,
              \/ AdminRestore(m) \/ AdminCancel(m) \/ MachineChanges(m)
              \/ MachineDestroyed(m) \/ BecomesDue(m)
       PROVE  RecordedOK'
  BY <1>3, <1>15 DEF AdminRestore, AdminCancel, MachineChanges, MachineDestroyed, BecomesDue
<1>16. ASSUME AdminWrite \/ UNCHANGED vars PROVE RecordedOK'
  BY <1>3, <1>4, <1>16 DEF AdminWrite, vars
<1> QED
  BY <1>5, <1>6, <1>7, <1>8, <1>9, <1>10, <1>11, <1>12, <1>13, <1>14, <1>15, <1>16
     DEF Next, RestoreStep

(* After a restore that failed no machine of that instance is stopped for  *)
(* the failure delay, unless the document that keeps the delay was removed *)
(* meanwhile or its worker was killed before it wrote there, and while no  *)
(* lock expires under a running task.                                      *)
THEOREM BackoffHolds == Spec => BackoffRespected
<1>1. Init => BackoffInv
  <2>1. Init => \A r \in Restorers : At(r, "idle")
    BY DEF Init, IdleRst, At
  <2>2. Init => \A m \in Machines : failed[m] \notin Lately
    BY DEF Init, Lately
  <2> QED
    BY InitTypes, <2>1, <2>2 DEF BackoffInv, HealInv, HolderOK, ChoiceOK, RecordedOK, At
<1>2. BackoffInv /\ [Next]_vars => BackoffInv'
  BY StepHolder, StepChoice, StepRecorded DEF BackoffInv
<1>3. ASSUME BackoffInv, NEW r \in Restorers, Stop(r), expiries = 0,
             NEW f \in Machines \ unrecorded, failed[f] \in Lately,
             InstanceOf[f] = InstanceOf[rst[r].task]
      PROVE  FALSE
  <2>1. At(r, "stop") /\ ~Blocked(rst[r].task)
    BY <1>3 DEF Stop, BackoffInv, ChoiceOK
  <2>2. \A s \in Restorers : ~At(s, "update_task")
    BY <1>3, <2>1 DEF BackoffInv, HealInv, HolderOK, At
  <2>3. attempt[f] \in Lately
    BY <1>3, <2>2 DEF BackoffInv, RecordedOK
  <2> QED
    BY <1>3, <2>1, <2>3 DEF Blocked, RecentFailure
<1>4. BackoffInv =>
        [\A r \in Restorers : Stop(r) /\ expiries = 0 =>
            ~\E f \in Machines \ unrecorded :
                /\ failed[f] \in Lately
                /\ InstanceOf[f] = InstanceOf[rst[r].task]]_vars
  BY <1>3
<1> QED
  BY <1>1, <1>2, <1>4, PTL DEF Spec, BackoffRespected
=============================================================================
