------------------------- MODULE RestoreLock_proofs -------------------------
(* The restore lock excludes, for every number of workers and machines and *)
(* every length of the second, the timeout and the restore.                *)
EXTENDS RestoreLock, TLAPS

(* What is left of the timeout after d machines, without their own time. *)
Kept(d) == Timeout - d * (PerSecond - 1)

LEMMA KeptProperties ==
    ASSUME NEW d \in Nat
    PROVE  /\ Kept(d) \in Int
           /\ Kept(0) = Timeout
           /\ Kept(d + 1) = Kept(d) - (PerSecond - 1)
           /\ d <= MaxMachines - 1 => Kept(d) >= Timeout - Lost
<1> DEFINE c == PerSecond - 1
<1>1. c \in Nat /\ MaxMachines \in Nat /\ Timeout \in Nat
  BY ConstantsAssumption
<1>2. d * c \in Int /\ 0 * c = 0 /\ (d + 1) * c = d * c + c
  BY <1>1
<1>3. ASSUME d <= MaxMachines - 1
      PROVE  d * c <= (MaxMachines - 1) * c
  <2> DEFINE e == MaxMachines - 1 - d
  <2>1. e \in Nat /\ MaxMachines - 1 = d + e
    BY <1>1, <1>3
  <2> HIDE DEF e, c
  <2>2. (d + e) * c = d * c + e * c /\ e * c \in Nat /\ d * c \in Int
    BY <1>1, <2>1
  <2> QED
    BY <2>1, <2>2
<1>4. (MaxMachines - 1) * c \in Int
  BY <1>1
<1> QED
  BY <1>1, <1>2, <1>3, <1>4 DEF Kept, Lost

(* A worker in its loop holds the lock, and the lock has what the machines *)
(* done and the time of the current one have left of the timeout.          *)
LoopOK(w) ==
    /\ At(w, "next") =>
          /\ owner = w
          /\ ttl >= Kept(task[w].done)
          /\ task[w].done + task[w].left <= MaxMachines
    /\ At(w, "restoring") \/ At(w, "extend") =>
          /\ owner = w
          /\ ttl >= Kept(task[w].done) - task[w].elapsed
          /\ task[w].done + task[w].left <= MaxMachines - 1

LockInv == TypeOK /\ \A w \in Workers : LoopOK(w)

LEMMA InitLockInv == Init => LockInv
  BY ConstantsAssumption DEF Init, LockInv, TypeOK, LoopOK, At, IdleTask, TaskType

LEMMA StepLockInv ==
    ASSUME Timeout > MaxRestore + Lost, LockInv, [Next]_vars
    PROVE  LockInv'
<1>0. /\ owner \in Workers \cup {Free} /\ ttl \in Nat /\ (owner # Free => ttl > 0)
      /\ task \in [Workers -> TaskType] /\ \A w \in Workers : LoopOK(w)
      /\ PerSecond \in Nat \ {0} /\ Timeout \in Nat \ {0} /\ Free \notin Workers
      /\ MaxRestore \in Nat /\ MaxMachines \in Nat
  BY ConstantsAssumption DEF LockInv, TypeOK
<1>1. \A w \in Workers : /\ task[w].pc \in {"idle", "next", "restoring", "extend", "unlock"}
                         /\ task[w].elapsed \in 0..MaxRestore
                         /\ task[w].left \in 0..MaxMachines
                         /\ task[w].done \in 0..MaxMachines
  BY <1>0 DEF TaskType
<1>2. IdleTask \in TaskType /\ IdleTask.pc = "idle" /\ IdleTask.done = 0
  BY <1>0 DEF TaskType, IdleTask
<1>k. \A w \in Workers : Kept(task[w].done) \in Int
  BY <1>1, KeptProperties
(* A step of one worker that keeps its own loop and the owner is safe. *)
<1>3. ASSUME NEW w \in Workers, NEW t \in TaskType, task' = [task EXCEPT ![w] = t],
             owner' = owner, ttl' = ttl, LoopOK(w)'
      PROVE  LockInv'
  BY <1>0, <1>3 DEF LockInv, TypeOK, LoopOK, At
<1>4. ASSUME NEW w \in Workers, Lock(w)
      PROVE  LockInv'
  <2>1. PICK n \in 0..MaxMachines :
            task' = [task EXCEPT ![w] = [IdleTask EXCEPT !.pc = "next", !.left = n]]
    BY <1>4 DEF Lock
  <2> DEFINE t == [IdleTask EXCEPT !.pc = "next", !.left = n]
  <2>2. t \in TaskType /\ t.pc = "next" /\ t.left = n /\ t.done = 0
    BY <1>2 DEF TaskType
  <2> HIDE DEF t
  <2>3. task' = [task EXCEPT ![w] = t]
    BY <2>1 DEF t
  <2>4. owner = Free /\ owner' = w /\ ttl' = Timeout
    BY <1>4 DEF Lock, LockTimeout
  <2>5. TypeOK'
    BY <1>0, <2>2, <2>3, <2>4 DEF TypeOK
  <2>6. ASSUME NEW v \in Workers
        PROVE  LoopOK(v)'
    <3>1. CASE v = w
      <4>1. task'[v] = t
        BY <1>0, <2>3, <3>1
      <4>2. Kept(0) = Timeout
        BY KeptProperties
      <4> QED
        BY <1>0, <2>2, <2>4, <3>1, <4>1, <4>2 DEF LoopOK, At
    <3>2. CASE v # w
      <4>1. task'[v] = task[v]
        BY <1>0, <2>3, <3>2
      <4>2. ~At(v, "next") /\ ~At(v, "restoring") /\ ~At(v, "extend")
        BY <1>0, <2>4 DEF LoopOK
      <4> QED
        BY <4>1, <4>2 DEF LoopOK, At
    <3> QED
      BY <3>1, <3>2
  <2> QED
    BY <2>5, <2>6 DEF LockInv
<1>5. ASSUME NEW w \in Workers, StartMachine(w)
      PROVE  LockInv'
  <2> DEFINE t == [task[w] EXCEPT !.pc = "restoring", !.elapsed = 0, !.left = @ - 1]
  <2>1. /\ t \in TaskType /\ t.pc = "restoring" /\ t.elapsed = 0
        /\ t.done = task[w].done /\ t.left = task[w].left - 1
    BY <1>0, <1>1, <1>5 DEF StartMachine, TaskType
  <2> HIDE DEF t
  <2>2. task' = [task EXCEPT ![w] = t] /\ UNCHANGED <<owner, ttl>>
    BY <1>5 DEF StartMachine, t
  <2>3. task'[w] = t
    BY <1>0, <2>2
  <2>4. LoopOK(w)'
    BY <1>0, <1>1, <1>5, <1>k, <2>1, <2>2, <2>3 DEF StartMachine, LoopOK, At
  <2> QED
    BY <1>3, <2>1, <2>2, <2>4
<1>6. ASSUME NEW w \in Workers, EndMachine(w)
      PROVE  LockInv'
  <2> DEFINE t == [task[w] EXCEPT !.pc = "extend"]
  <2>1. /\ t \in TaskType /\ t.pc = "extend" /\ t.elapsed = task[w].elapsed
        /\ t.done = task[w].done /\ t.left = task[w].left
    BY <1>0, <1>1 DEF TaskType
  <2> HIDE DEF t
  <2>2. task' = [task EXCEPT ![w] = t] /\ UNCHANGED <<owner, ttl>>
    BY <1>6 DEF EndMachine, Goto, t
  <2>3. task'[w] = t
    BY <1>0, <2>2
  <2>4. LoopOK(w)'
    BY <1>0, <1>6, <2>1, <2>2, <2>3 DEF EndMachine, LoopOK, At
  <2> QED
    BY <1>3, <2>1, <2>2, <2>4
<1>7. ASSUME NEW w \in Workers, ExtendLock(w)
      PROVE  LockInv'
  <2>1. owner = w
    BY <1>0, <1>7 DEF ExtendLock, LoopOK
  <2> DEFINE t == [task[w] EXCEPT !.pc = "next", !.done = @ + 1]
  <2>2. task[w].done + task[w].left <= MaxMachines - 1
    BY <1>0, <1>7 DEF ExtendLock, LoopOK
  <2>3. /\ t \in TaskType /\ t.pc = "next"
        /\ t.done = task[w].done + 1 /\ t.left = task[w].left
    <3>1. task[w].done + 1 \in 0..MaxMachines
      BY <1>0, <1>1, <2>2
    <3>2. t = [task[w] EXCEPT !.pc = "next", !.done = task[w].done + 1]
      OBVIOUS
    <3> QED
      BY <1>0, <3>1, <3>2 DEF TaskType
  <2> HIDE DEF t
  <2>4. task' = [task EXCEPT ![w] = t] /\ owner' = owner /\ ttl' = ttl + ExtraTime(w)
    BY <1>7, <2>1 DEF ExtendLock, t
  <2>5. ExtraTime(w) \in Nat /\ ExtraTime(w) >= task[w].elapsed - (PerSecond - 1)
    <3>1. /\ task[w].elapsed % PerSecond \in 0..(PerSecond - 1)
          /\ task[w].elapsed % PerSecond <= task[w].elapsed
      BY <1>0, <1>1
    <3> QED
      BY <1>0, <1>1, <3>1 DEF ExtraTime
  <2>6. TypeOK'
    BY <1>0, <2>3, <2>4, <2>5 DEF TypeOK
  <2>7. task'[w] = t
    BY <1>0, <2>4
  <2>8. LoopOK(w)'
    <3>1. ttl >= Kept(task[w].done) - task[w].elapsed
      BY <1>0, <1>7 DEF ExtendLock, LoopOK
    <3>2. Kept(t.done) = Kept(task[w].done) - (PerSecond - 1)
      BY <1>1, <2>3, KeptProperties
    <3>3. ttl' >= Kept(t.done)
      BY <1>0, <1>1, <1>k, <2>4, <2>5, <3>1, <3>2
    <3>4. t.done + t.left <= MaxMachines
      BY <1>0, <1>1, <2>2, <2>3
    <3> QED
      BY <2>1, <2>3, <2>4, <2>7, <3>3, <3>4 DEF LoopOK, At
  <2>9. ASSUME NEW v \in Workers, v # w
        PROVE  LoopOK(v)'
    <3>1. task'[v] = task[v]
      BY <1>0, <2>4, <2>9
    <3>2. ~At(v, "next") /\ ~At(v, "restoring") /\ ~At(v, "extend")
      BY <1>0, <2>1, <2>9 DEF LoopOK
    <3> QED
      BY <3>1, <3>2 DEF LoopOK, At
  <2> QED
    BY <2>6, <2>8, <2>9 DEF LockInv
<1>8. ASSUME NEW w \in Workers, LeaveLoop(w)
      PROVE  LockInv'
  <2>1. [task[w] EXCEPT !.pc = "unlock"] \in TaskType
    BY <1>0, <1>1 DEF TaskType
  <2>2. task' = [task EXCEPT ![w] = [task[w] EXCEPT !.pc = "unlock"]]
    BY <1>8 DEF LeaveLoop, Goto
  <2>3. LoopOK(w)'
    BY <1>0, <2>2 DEF LoopOK, At
  <2> QED
    BY <1>3, <1>8, <2>1, <2>2, <2>3 DEF LeaveLoop
<1>9. ASSUME NEW w \in Workers, Unlock(w)
      PROVE  LockInv'
  <2>1. /\ task' = [task EXCEPT ![w] = IdleTask]
        /\ owner' = (IF owner = w THEN Free ELSE owner)
        /\ ttl' = (IF owner' = Free THEN 0 ELSE ttl)
    BY <1>9 DEF Unlock
  <2>2. TypeOK'
    BY <1>0, <1>2, <2>1 DEF TypeOK
  <2>3. ASSUME NEW v \in Workers
        PROVE  LoopOK(v)'
    <3>1. CASE v = w
      BY <1>0, <1>2, <2>1, <3>1 DEF LoopOK, At
    <3>2. CASE v # w
      <4>1. task'[v] = task[v]
        BY <1>0, <2>1, <3>2
      <4> QED
        BY <1>0, <2>1, <3>2, <4>1 DEF LoopOK, At
    <3> QED
      BY <3>1, <3>2
  <2> QED
    BY <2>2, <2>3 DEF LockInv
<1>10. ASSUME NEW w \in Workers, Crash(w)
       PROVE  LockInv'
  <2>1. LoopOK(w)'
    BY <1>0, <1>2, <1>10 DEF Crash, LoopOK, At
  <2> QED
    BY <1>2, <1>3, <1>10, <2>1 DEF Crash
(* Time passes while every worker in the loop restores a machine. *)
<1>11. CASE Tick
  <2>1. \A w \in Workers : At(w, "idle") \/ (At(w, "restoring") /\ task[w].elapsed < MaxRestore)
    BY <1>11 DEF Tick
  <2>2. task' = [w \in Workers |-> IF At(w, "restoring")
                                   THEN [task[w] EXCEPT !.elapsed = @ + 1] ELSE task[w]]
    BY <1>11 DEF Tick
  <2>3. ASSUME NEW w \in Workers, At(w, "restoring")
        PROVE  /\ task'[w] \in TaskType /\ task'[w].pc = "restoring"
               /\ task'[w].elapsed = task[w].elapsed + 1
               /\ task'[w].done = task[w].done /\ task'[w].left = task[w].left
    <3>1. task[w].elapsed + 1 \in 0..MaxRestore
      BY <1>0, <1>1, <2>1, <2>3 DEF At
    <3>2. task'[w] = [task[w] EXCEPT !.elapsed = task[w].elapsed + 1]
      BY <2>2, <2>3
    <3> QED
      BY <1>0, <2>3, <3>1, <3>2 DEF TaskType, At
  <2>4. task' \in [Workers -> TaskType]
    BY <1>0, <2>2, <2>3
  <2>5. ttl' \in Nat /\ owner' \in Workers \cup {Free} /\ (owner' # Free => ttl' > 0)
    BY <1>0, <1>11 DEF Tick
  <2>6. ASSUME NEW w \in Workers
        PROVE  LoopOK(w)'
    <3>1. CASE At(w, "restoring")
      <4>1. /\ owner = w /\ ttl >= Kept(task[w].done) - task[w].elapsed
            /\ task[w].done + task[w].left <= MaxMachines - 1
        BY <1>0, <3>1 DEF LoopOK
      <4>2. Kept(task[w].done) >= Timeout - Lost
        BY <1>0, <1>1, <4>1, KeptProperties
      <4>3. ttl' = ttl - 1 /\ ttl' > 0 /\ owner' = w
        <5>1. Lost \in Int
          BY <1>0 DEF Lost
        <5>2. task[w].elapsed < MaxRestore
          BY <2>1, <3>1 DEF At
        <5>3. ttl > 1
          BY <1>0, <1>1, <1>k, <4>1, <4>2, <5>1, <5>2
        <5> QED
          BY <1>0, <1>11, <4>1, <5>3 DEF Tick
      <4>4. ttl' >= Kept(task[w].done) - (task[w].elapsed + 1)
        BY <1>0, <1>1, <1>k, <4>1, <4>3
      <4> QED
        BY <2>3, <3>1, <4>1, <4>3, <4>4 DEF LoopOK, At
    <3>2. CASE At(w, "idle")
      BY <2>2, <3>2 DEF LoopOK, At
    <3> QED
      BY <2>1, <3>1, <3>2
  <2> QED
    BY <2>4, <2>5, <2>6 DEF LockInv, TypeOK
<1>12. CASE UNCHANGED vars
  BY <1>12 DEF vars, LockInv, TypeOK, LoopOK, At
<1> QED
  BY <1>4, <1>5, <1>6, <1>7, <1>8, <1>9, <1>10, <1>11, <1>12 DEF Next, RunStep

(* Two workers never restore machines at once, for every run that restores *)
(* each machine in less than the timeout minus what truncation loses       *)
(* (RestoreMachineTask.run, Lock.extend_lock).                             *)
THEOREM LockExcludes == Spec => []OneRestorer
<1> DEFINE Fits == Timeout > MaxRestore + Lost
<1>1. CASE ~Fits
  <2>1. OneRestorer
    BY <1>1 DEF OneRestorer
  <2> QED
    BY <2>1, PTL
<1>2. CASE Fits
  <2>1. Init => LockInv
    BY InitLockInv
  <2>2. LockInv /\ [Next]_vars => LockInv'
    BY <1>2, StepLockInv
  <2>3. LockInv => OneRestorer
    BY DEF LockInv, LoopOK, OneRestorer
  <2> QED
    BY <2>1, <2>2, <2>3, PTL DEF Spec
<1> QED
  BY <1>1, <1>2
-----------------------------------------------------------------------------
(* The machines a run has restored, the one in work and those still in the *)
(* cursor are never more than the cursor had.                              *)
Total(t) == t.done + t.left + (IF t.pc \in {"restoring", "extend"} THEN 1 ELSE 0)

KeyTyped == owner \in Workers \cup {Free} /\ ttl \in Nat /\ (owner # Free => ttl > 0)

TypedInv == TypeOK /\ \A w \in Workers : Total(task[w]) <= MaxMachines

LEMMA StepTypedInv ==
    ASSUME TypedInv, [Next]_vars
    PROVE  TypedInv'
<1>0. /\ KeyTyped
      /\ task \in [Workers -> TaskType]
      /\ PerSecond \in Nat \ {0} /\ Timeout \in Nat \ {0} /\ Free \notin Workers
      /\ MaxRestore \in Nat /\ MaxMachines \in Nat
  BY ConstantsAssumption DEF TypedInv, TypeOK, KeyTyped
<1>1. \A w \in Workers : /\ task[w] \in TaskType
                         /\ task[w].pc \in {"idle", "next", "restoring", "extend", "unlock"}
                         /\ task[w].elapsed \in 0..MaxRestore
                         /\ task[w].left \in 0..MaxMachines
                         /\ task[w].done \in 0..MaxMachines
                         /\ Total(task[w]) <= MaxMachines
  BY <1>0 DEF TaskType, TypedInv
<1>2. IdleTask \in TaskType /\ IdleTask.done = 0 /\ Total(IdleTask) <= MaxMachines
  BY <1>0 DEF TaskType, IdleTask, Total
(* What one worker does to its own task, and to the key, is typed. *)
<1>3. ASSUME NEW w \in Workers, NEW t \in TaskType, task' = [task EXCEPT ![w] = t],
             Total(t) <= MaxMachines, KeyTyped'
      PROVE  TypedInv'
  <2>1. task' \in [Workers -> TaskType]
    BY <1>0, <1>3
  <2>2. \A v \in Workers : task'[v] = IF v = w THEN t ELSE task[v]
    BY <1>0, <1>3
  <2>3. \A v \in Workers : Total(task'[v]) <= MaxMachines
    BY <1>1, <1>3, <2>2
  <2> QED
    BY <1>3, <2>1, <2>3 DEF TypedInv, TypeOK, KeyTyped
<1>4. ASSUME NEW w \in Workers, Lock(w)
      PROVE  TypedInv'
  <2>1. PICK n \in 0..MaxMachines :
            task' = [task EXCEPT ![w] = [IdleTask EXCEPT !.pc = "next", !.left = n]]
    BY <1>4 DEF Lock
  <2> DEFINE t == [IdleTask EXCEPT !.pc = "next", !.left = n]
  <2>2. t \in TaskType /\ t.pc = "next" /\ t.left = n /\ t.done = 0
    BY <1>2 DEF TaskType
  <2> HIDE DEF t
  <2>3. task' = [task EXCEPT ![w] = t]
    BY <2>1 DEF t
  <2>4. Total(t) <= MaxMachines
    BY <1>0, <2>2 DEF Total
  <2>5. KeyTyped'
    BY <1>0, <1>4 DEF Lock, LockTimeout, KeyTyped
  <2> QED
    BY <1>3, <2>2, <2>3, <2>4, <2>5
<1>5. ASSUME NEW w \in Workers, StartMachine(w)
      PROVE  TypedInv'
  <2> DEFINE t == [task[w] EXCEPT !.pc = "restoring", !.elapsed = 0, !.left = @ - 1]
  <2>1. task[w].pc = "next" /\ task[w].left > 0
    BY <1>5 DEF StartMachine, At
  <2>1a. task[w].left - 1 \in 0..MaxMachines /\ 0 \in 0..MaxRestore
    BY <1>0, <1>1, <2>1
  <2>2. /\ t \in TaskType /\ t.pc = "restoring"
        /\ t.left = task[w].left - 1 /\ t.done = task[w].done
    BY <1>1, <2>1a DEF TaskType
  <2>3. task' = [task EXCEPT ![w] = t]
    BY <1>0, <1>5 DEF StartMachine
  <2>4. KeyTyped'
    BY <1>0, <1>5 DEF StartMachine, KeyTyped
  <2> HIDE DEF t
  <2>5. Total(t) <= MaxMachines
    BY <1>0, <1>1, <2>1, <2>2 DEF Total
  <2> QED
    BY <1>3, <2>2, <2>3, <2>4, <2>5
<1>6. ASSUME NEW w \in Workers, EndMachine(w)
      PROVE  TypedInv'
  <2> DEFINE t == [task[w] EXCEPT !.pc = "extend"]
  <2>1. task[w].pc = "restoring"
    BY <1>6 DEF EndMachine, At
  <2>2. /\ t \in TaskType /\ t.pc = "extend"
        /\ t.left = task[w].left /\ t.done = task[w].done
    BY <1>1 DEF TaskType
  <2>3. task' = [task EXCEPT ![w] = t]
    BY <1>6 DEF EndMachine, Goto
  <2>4. KeyTyped'
    BY <1>0, <1>6 DEF EndMachine, KeyTyped
  <2> HIDE DEF t
  <2>5. Total(t) <= MaxMachines
    BY <1>0, <1>1, <2>1, <2>2 DEF Total
  <2> QED
    BY <1>3, <2>2, <2>3, <2>4, <2>5
<1>7. ASSUME NEW w \in Workers, ExtendLock(w)
      PROVE  TypedInv'
  <2>1. task[w].pc = "extend"
    BY <1>7 DEF ExtendLock, At
  <2>2. task[w].done + task[w].left + 1 <= MaxMachines
    BY <1>0, <1>1, <2>1 DEF Total
  <2>3. CASE owner = w
    <3> DEFINE t == [task[w] EXCEPT !.pc = "next", !.done = @ + 1]
    <3>1. task[w].done + 1 \in 0..MaxMachines
      BY <1>0, <1>1, <2>2
    <3>2. /\ t \in TaskType /\ t.pc = "next"
          /\ t.left = task[w].left /\ t.done = task[w].done + 1
      BY <1>1, <3>1 DEF TaskType
    <3>3. task' = [task EXCEPT ![w] = t] /\ owner' = owner /\ ttl' = ttl + ExtraTime(w)
      BY <1>0, <1>7, <2>3 DEF ExtendLock
    <3>4. task[w].elapsed % PerSecond \in 0..(PerSecond - 1)
      BY <1>0, <1>1
    <3>5. task[w].elapsed % PerSecond <= task[w].elapsed
      BY <1>0, <1>1
    <3>6. ExtraTime(w) \in Nat
      BY <1>0, <1>1, <3>4, <3>5 DEF ExtraTime
    <3> HIDE DEF t
    <3>7. Total(t) <= MaxMachines
      BY <1>0, <1>1, <2>2, <3>2 DEF Total
    <3>8. KeyTyped'
      BY <1>0, <3>3, <3>6 DEF KeyTyped
    <3> QED
      BY <1>3, <3>2, <3>3, <3>7, <3>8
  <2>4. CASE owner # w
    <3> DEFINE t == [task[w] EXCEPT !.pc = "unlock"]
    <3>1. /\ t \in TaskType /\ t.pc = "unlock"
          /\ t.left = task[w].left /\ t.done = task[w].done
      BY <1>1 DEF TaskType
    <3>2. task' = [task EXCEPT ![w] = t] /\ owner' = owner /\ ttl' = ttl
      BY <1>7, <2>4 DEF ExtendLock, Goto
    <3> HIDE DEF t
    <3>3. Total(t) <= MaxMachines
      BY <1>0, <1>1, <2>2, <3>1 DEF Total
    <3>4. KeyTyped'
      BY <1>0, <3>2 DEF KeyTyped
    <3> QED
      BY <1>3, <3>1, <3>2, <3>3, <3>4
  <2> QED
    BY <2>3, <2>4
<1>8. ASSUME NEW w \in Workers, LeaveLoop(w)
      PROVE  TypedInv'
  <2> DEFINE t == [task[w] EXCEPT !.pc = "unlock"]
  <2>1. task[w].pc \in {"next", "restoring"}
    BY <1>8 DEF LeaveLoop, At
  <2>2. /\ t \in TaskType /\ t.pc = "unlock"
        /\ t.left = task[w].left /\ t.done = task[w].done
    BY <1>1 DEF TaskType
  <2>3. task' = [task EXCEPT ![w] = t]
    BY <1>8 DEF LeaveLoop, Goto
  <2>4. KeyTyped'
    BY <1>0, <1>8 DEF LeaveLoop, KeyTyped
  <2> HIDE DEF t
  <2>5. Total(t) <= MaxMachines
    BY <1>0, <1>1, <2>1, <2>2 DEF Total
  <2> QED
    BY <1>3, <2>2, <2>3, <2>4, <2>5
<1>9. ASSUME NEW w \in Workers, Unlock(w)
      PROVE  TypedInv'
  <2>1. task' = [task EXCEPT ![w] = IdleTask]
    BY <1>9 DEF Unlock
  <2>2. KeyTyped'
    BY <1>0, <1>9 DEF Unlock, KeyTyped
  <2> QED
    BY <1>2, <1>3, <2>1, <2>2
<1>10. ASSUME NEW w \in Workers, Crash(w)
      PROVE  TypedInv'
  <2>1. task' = [task EXCEPT ![w] = IdleTask]
    BY <1>10 DEF Crash
  <2>2. KeyTyped'
    BY <1>0, <1>10 DEF Crash, KeyTyped
  <2> QED
    BY <1>2, <1>3, <2>1, <2>2
<1>11. ASSUME Tick
       PROVE  TypedInv'
  <2>1. \A w \in Workers : At(w, "restoring") => task[w].elapsed < MaxRestore
    BY <1>11 DEF Tick, At
  <2>2. task' = [w \in Workers |-> IF At(w, "restoring")
                                   THEN [task[w] EXCEPT !.elapsed = @ + 1]
                                   ELSE task[w]]
    BY <1>11 DEF Tick
  <2>3. \A w \in Workers :
            /\ task'[w] \in TaskType
            /\ task'[w].pc = task[w].pc
            /\ task'[w].left = task[w].left /\ task'[w].done = task[w].done
    BY <1>0, <1>1, <2>1, <2>2 DEF TaskType
  <2>4. task' \in [Workers -> TaskType]
    BY <2>2, <2>3
  <2>5. KeyTyped'
    BY <1>0, <1>11 DEF Tick, KeyTyped
  <2>6. \A w \in Workers : Total(task'[w]) <= MaxMachines
    BY <1>1, <2>3 DEF Total
  <2> QED
    BY <2>4, <2>5, <2>6 DEF TypedInv, TypeOK, KeyTyped
<1>12. CASE UNCHANGED vars
  BY <1>12 DEF vars, TypedInv, TypeOK
<1> QED
  BY <1>4, <1>5, <1>6, <1>7, <1>8, <1>9, <1>10, <1>11, <1>12 DEF Next, RunStep

(* The lock and the tasks keep their types, however slow a restore is: a   *)
(* key in Redis has time left, and no run restores more machines than its  *)
(* cursor had (Lock, RestoreMachineTask.run).                              *)
THEOREM TypeCorrect == Spec => []TypeOK
<1>1. Init => TypedInv
  BY ConstantsAssumption DEF Init, TypedInv, TypeOK, Total, IdleTask, TaskType
<1>2. TypedInv /\ [Next]_vars => TypedInv'
  BY StepTypedInv
<1>3. TypedInv => TypeOK
  BY DEF TypedInv
<1> QED
  BY <1>1, <1>2, <1>3, PTL DEF Spec
=============================================================================
