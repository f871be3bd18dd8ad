--------------------------- MODULE Machines_proofs ---------------------------
(***************************************************************************)
(* Proofs about Machines, for any number of instances, machines, restores  *)
(* and rotations: a task document keeps the restores of an instance apart, *)
(* is given up, and guards the one machine that is down; the lock of the   *)
(* tickets makes the machines agree on the key of the last rotation.       *)
(***************************************************************************)
EXTENDS Machines, FiniteSetTheorems, TLAPS

Loop == {"stop", "scale", "reset", "start", "health"}
Held == Loop \cup {"plan", "next", "free", "lost"}

(* What a restore in state x knows: whose machines it is at. *)
Fits(x) ==
    /\ x.pc = "new" <=> x.on = None
    /\ \A m \in x.left : Home[m] = x.on
    /\ x.pc \in Loop => x.at \in Machines /\ Home[x.at] = x.on

(* A restore past its first write has the document, and has it alone.      *)
Documents ==
    /\ \A r \in Restores : restore[r].pc \in Held => restore[r].on \in task
    /\ \A r, s \in Restores :
           /\ restore[r].pc \in Held /\ restore[s].pc \in Held
           /\ restore[r].on = restore[s].on
           => r = s

(* A machine is down in the hands of the restore that stopped it. *)
Brings(r, m) ==
    /\ restore[r].pc \in {"scale", "reset", "start"}
    /\ restore[r].on = Home[m] /\ restore[r].at = m

DownHeld ==
    /\ \A m \in down : Home[m] \in aborted \/ \E r \in Restores : Brings(r, m)
    /\ \A job \in jobs : Home[job[2]] \in aborted

RestoreInv ==
    /\ TypeOK
    /\ \A r \in Restores : Fits(restore[r])
    /\ Documents /\ DocumentReleased /\ DownHeld

RestoreAction(r) ==
    RestoreStep(r) \/ ClientLeaves(r) \/ \E i \in Instances : BeginRestore(r, i)

-----------------------------------------------------------------------------
(* The steps of a restore *)

(* It keeps the document it has or has not, takes it, or gives it up. *)
Passes(r, x) ==
    \/ /\ task' = task
       /\ restore[r].pc = "new" \/ x.on = restore[r].on
       /\ x.pc \in Held <=> restore[r].pc \in Held
    \/ /\ x.on = restore[r].on /\ x.pc \in Held /\ restore[r].pc \notin Held
       /\ x.on \notin task /\ task' = task \cup {x.on}
    \/ /\ x.on = restore[r].on /\ x.pc \notin Held /\ restore[r].pc \in Held
       /\ task' = task \ {x.on}

Becomes(r, x) ==
    /\ restore' = [restore EXCEPT ![r] = x]
    /\ x \in RestoreType /\ Fits(x) /\ Passes(r, x)

LEMMA GotoBecomes ==
    ASSUME RestoreInv, NEW r \in Restores, NEW pc, Goto(r, pc),
           pc \in Held \cup {"create", "done"}, restore[r].pc # "new",
           pc \in Loop => restore[r].pc \in Loop,
           \/ task' = task /\ (pc \in Held <=> restore[r].pc \in Held)
           \/ /\ pc \in Held /\ restore[r].pc \notin Held
              /\ restore[r].on \notin task /\ task' = task \cup {restore[r].on}
           \/ /\ pc \notin Held /\ restore[r].pc \in Held
              /\ task' = task \ {restore[r].on}
    PROVE  \E x : Becomes(r, x)
  <1> DEFINE x == [restore[r] EXCEPT !.pc = pc]
  <1>1. restore \in [Restores -> RestoreType] /\ Fits(restore[r])
    BY DEF RestoreInv, TypeOK
  <1>2. restore' = [restore EXCEPT ![r] = x]
    BY <1>1 DEF Goto
  <1>3. x \in RestoreType
    BY <1>1 DEF RestoreType, Held, Loop
  <1>4. x.pc = pc /\ x.on = restore[r].on /\ x.left = restore[r].left /\ x.at = restore[r].at
    BY <1>1 DEF RestoreType
  <1> HIDE DEF x
  <1>5. Fits(x)
    BY <1>1, <1>4 DEF Fits, Held, Loop
  <1>6. Passes(r, x)
    BY <1>4 DEF Passes
  <1> QED BY <1>2, <1>3, <1>5, <1>6 DEF Becomes

LEMMA RestoreMoves ==
    ASSUME RestoreInv, NEW r \in Restores, RestoreAction(r)
    PROVE  \E x : Becomes(r, x)
  <1>0. TypeOK /\ restore[r] \in RestoreType /\ Fits(restore[r])
    BY DEF RestoreInv, TypeOK
  <1>1. CASE \E i \in Instances : BeginRestore(r, i)
    <2>1. PICK i \in Instances : BeginRestore(r, i)
      BY <1>1
    <2> DEFINE x == [restore[r] EXCEPT !.pc = IF i \in task THEN "done" ELSE "create", !.on = i]
    <2>2. restore' = [restore EXCEPT ![r] = x] /\ restore[r].pc = "new" /\ task' = task
      BY <1>0, <2>1 DEF BeginRestore, TypeOK
    <2>3. x \in RestoreType
      BY <1>0 DEF RestoreType
    <2>4. x.pc \in {"done", "create"} /\ x.on = i /\ x.left = restore[r].left
      BY <1>0 DEF RestoreType
    <2> HIDE DEF x
    <2>5. restore[r].left = {}
      BY <1>0, <2>2, MachinesAssumption DEF Fits, RestoreType
    <2>6. Fits(x)
      BY <2>4, <2>5, MachinesAssumption DEF Fits, Loop
    <2> QED BY <2>2, <2>3, <2>4, <2>6 DEF Becomes, Passes, Held, Loop
  <1>2. CASE ReadPlan(r)
    <2> DEFINE x == [restore[r] EXCEPT !.pc = "next", !.left = Of(restore[r].on)]
    <2>1. task' = task /\ restore[r].pc = "plan"
      BY <1>2 DEF ReadPlan
    <2>2. CASE Goto(r, "lost")
      BY <2>1, <2>2, GotoBecomes DEF Held, Loop
    <2>3. ASSUME restore' = [restore EXCEPT ![r] = x]
          PROVE  \E y : Becomes(r, y)
      <3>1. x \in RestoreType
        BY <1>0 DEF RestoreType, Of, TypeOK
      <3>2. x.pc = "next" /\ x.on = restore[r].on /\ x.left = Of(restore[r].on)
        BY <1>0 DEF RestoreType
      <3> HIDE DEF x
      <3>3. Fits(x)
        BY <1>0, <2>1, <3>2 DEF Fits, Of, Loop
      <3>4. Becomes(r, x)
        BY <2>1, <2>3, <3>1, <3>2, <3>3 DEF Becomes, Passes, Held, Loop
      <3> QED BY <3>4
    <2> QED BY <1>0, <1>2, <2>2, <2>3 DEF ReadPlan, Goto, TypeOK
  <1>3. CASE NextMachine(r)
    <2>1. task' = task /\ restore[r].pc = "next"
      BY <1>3 DEF NextMachine
    <2>2. CASE Goto(r, "free")
      BY <2>1, <2>2, GotoBecomes DEF Held, Loop
    <2>3. ASSUME NEW m \in restore[r].left,
                 restore' = [restore EXCEPT ![r].pc = "stop", ![r].left = @ \ {m}, ![r].at = m]
          PROVE  \E x : Becomes(r, x)
      <3> DEFINE x == [restore[r] EXCEPT !.pc = "stop", !.left = @ \ {m}, !.at = m]
      <3>0. restore' = [restore EXCEPT ![r] = x]
        BY <1>0, <2>3 DEF TypeOK, RestoreType
      <3>1. x \in RestoreType
        BY <1>0 DEF RestoreType
      <3>2. x.pc = "stop" /\ x.on = restore[r].on /\ x.left = restore[r].left \ {m} /\ x.at = m
        BY <1>0 DEF RestoreType
      <3> HIDE DEF x
      <3>3. Fits(x)
        BY <1>0, <2>1, <3>2 DEF Fits, RestoreType
      <3> QED BY <2>1, <3>0, <3>1, <3>2, <3>3 DEF Becomes, Passes, Held, Loop
    <2> QED BY <1>3, <2>2, <2>3 DEF NextMachine
  <1>4. CASE CreateTaskDoc(r)
    <2>1. restore[r].pc = "create"
      BY <1>4 DEF CreateTaskDoc
    <2>2. \/ Goto(r, "done") /\ task' = task
          \/ /\ Goto(r, "plan") /\ restore[r].on \notin task
             /\ task' = task \cup {restore[r].on}
      BY <1>4 DEF CreateTaskDoc, Taken
    <2> QED BY <2>1, <2>2, GotoBecomes DEF Held, Loop
  <1>5. CASE CallEnds(r) \/ StartMachine(r) \/ AfterHealth(r) \/ CallFails(r) \/ ClientLeaves(r)
    <2>1. task' = task /\ restore[r].pc \in Loop
      BY <1>5 DEF CallEnds, StartMachine, AfterHealth, CallFails, ClientLeaves, InLoop, Loop, Calls
    <2>2. \E pc \in Held : Goto(r, pc)
      BY <1>5 DEF CallEnds, StartMachine, AfterHealth, CallFails, ClientLeaves, Calls, After,
                  AfterClose, Held, Loop
    <2> QED BY <2>1, <2>2, GotoBecomes DEF Held, Loop
  <1>6. CASE FreeTaskDoc(r)
    <2>1. restore[r].pc = "free" /\ Goto(r, "done") /\ task' = task \ {restore[r].on}
      BY <1>6 DEF FreeTaskDoc
    <2> QED BY <2>1, GotoBecomes DEF Held, Loop
  <1> QED BY <1>1, <1>2, <1>3, <1>4, <1>5, <1>6 DEF RestoreAction, RestoreStep

-----------------------------------------------------------------------------
(* The documents *)

LEMMA StepDocuments ==
    ASSUME RestoreInv, NEW r \in Restores, NEW x, Becomes(r, x)
    PROVE  /\ \A s \in Restores : Fits(restore[s])'
           /\ Documents'
           /\ DocumentReleased'
  <1>0. /\ restore \in [Restores -> RestoreType] /\ task \subseteq Instances
        /\ restore' = [restore EXCEPT ![r] = x] /\ Passes(r, x) /\ Fits(x)
    BY DEF RestoreInv, TypeOK, Becomes
  <1>1. restore'[r] = x /\ \A s \in Restores \ {r} : restore'[s] = restore[s]
    BY <1>0
  <1>2. \A s \in Restores : Fits(restore[s])'
    <2>1. \A s \in Restores : Fits(restore'[s])
      BY <1>0, <1>1 DEF RestoreInv
    <2> QED BY <2>1 DEF Fits
  <1>3. ASSUME NEW s \in Restores, restore'[s].pc \in Held
        PROVE  restore'[s].on \in task'
    <2>1. CASE s = r
      BY <1>0, <1>1, <1>3, <2>1 DEF Passes, RestoreInv, Documents, Held, Loop
    <2>2. CASE s # r
      <3>1. restore'[s] = restore[s] /\ restore[s].on \in task
        BY <1>1, <1>3, <2>2 DEF RestoreInv, Documents
      <3>2. restore[r].pc \in Held => restore[r].on # restore[s].on
        BY <1>3, <2>2, <3>1 DEF RestoreInv, Documents
      <3> QED BY <1>0, <3>1, <3>2 DEF Passes
    <2> QED BY <2>1, <2>2
  <1>4. ASSUME NEW s \in Restores \ {r}, x.pc \in Held, restore[s].pc \in Held,
               x.on = restore[s].on
        PROVE  FALSE
    <2>1. restore[s].on \in task
      BY <1>4 DEF RestoreInv, Documents
    <2>2. restore[r].pc \in Held /\ x.on = restore[r].on
      BY <1>0, <1>4, <2>1 DEF Passes, Held, Loop
    <2> QED BY <1>4, <2>2 DEF RestoreInv, Documents
  <1>5. Documents'
    <2>1. ASSUME NEW s \in Restores, NEW t \in Restores, restore'[s].pc \in Held,
                 restore'[t].pc \in Held, restore'[s].on = restore'[t].on
          PROVE  s = t
      <3>1. CASE s = r \/ t = r
        BY <1>1, <1>4, <2>1, <3>1
      <3>2. CASE s # r /\ t # r
        BY <1>1, <2>1, <3>2 DEF RestoreInv, Documents
      <3> QED BY <3>1, <3>2
    <2> QED BY <1>3, <2>1 DEF Documents, Held, Loop
  <1>6. ASSUME NEW i \in task'
        PROVE  \E s \in Restores : restore'[s].on = i /\ restore'[s].pc \notin {"create", "done"}
    <2>1. CASE i \in task
      <3>1. PICK s \in Restores : restore[s].on = i /\ restore[s].pc \notin {"create", "done"}
        BY <2>1 DEF RestoreInv, DocumentReleased
      <3>2. CASE s # r
        BY <1>1, <3>1, <3>2
      <3>3. CASE s = r
        <4>1. restore[r].pc # "new"
          BY <1>0, <2>1, <3>1, <3>3, MachinesAssumption DEF RestoreInv, Fits
        <4>2. restore[r].pc \in Held
          BY <1>0, <3>1, <3>3, <4>1 DEF RestoreType, Held, Loop
        <4>3. x.on = i /\ x.pc \in Held
          BY <1>0, <1>6, <3>1, <3>3, <4>1, <4>2 DEF Passes
        <4> QED BY <1>1, <4>3 DEF Held, Loop
      <3> QED BY <3>2, <3>3
    <2>2. CASE i \notin task
      <3>1. x.on = i /\ x.pc \in Held
        BY <1>0, <1>6, <2>2 DEF Passes
      <3> QED BY <1>1, <3>1 DEF Held, Loop
    <2> QED BY <2>1, <2>2
  <1> QED BY <1>2, <1>5, <1>6 DEF DocumentReleased

-----------------------------------------------------------------------------
(* The machine that is down *)

LEMMA StepDown ==
    ASSUME RestoreInv, NEW r \in Restores, RestoreAction(r)
    PROVE  DownHeld'
  <1>0. TypeOK /\ restore[r] \in RestoreType /\ Fits(restore[r]) /\ DownHeld
    BY DEF RestoreInv, TypeOK
  <1>1. PICK x : Becomes(r, x)
    BY RestoreMoves
  <1>2. restore'[r] = x /\ \A s \in Restores \ {r} : restore'[s] = restore[s]
    BY <1>0, <1>1 DEF Becomes, TypeOK
  <1>3. aborted \subseteq aborted'
    BY DEF RestoreAction, RestoreStep, BeginRestore, CreateTaskDoc, ReadPlan, NextMachine,
           CallEnds, StartMachine, AfterHealth, CallFails, FreeTaskDoc, ClientLeaves
  <1>4. ASSUME NEW m \in down', m \notin down
        PROVE  \E s \in Restores : Brings(s, m)'
    <2>1. CallEnds(r) /\ restore[r].pc = "stop" /\ m = restore[r].at
      BY <1>4 DEF RestoreAction, RestoreStep, BeginRestore, CreateTaskDoc, ReadPlan, NextMachine,
                  CallEnds, Effect, StartMachine, StillDown, AfterHealth, CallFails, FreeTaskDoc,
                  ClientLeaves, machines
    <2>2. Goto(r, "scale") /\ Home[m] = restore[r].on
      BY <1>0, <2>1 DEF CallEnds, After, Fits, Loop
    <2>3. restore'[r].pc = "scale" /\ restore'[r].on = Home[m] /\ restore'[r].at = m
      BY <1>0, <2>1, <2>2 DEF Goto, TypeOK, RestoreType
    <2> QED BY <2>3 DEF Brings
  <1>5. ASSUME NEW m \in down', m \in down, Home[m] \notin aborted'
        PROVE  \E s \in Restores : Brings(s, m)'
    <2>1. PICK s \in Restores : Brings(s, m)
      BY <1>0, <1>3, <1>5 DEF DownHeld
    <2>2. CASE s # r
      BY <1>2, <2>1, <2>2 DEF Brings
    <2>3. CASE s = r
      <3>0. restore[r].pc \in {"scale", "reset", "start"} /\ restore[r].on = Home[m]
            /\ restore[r].at = m
        BY <2>1, <2>3 DEF Brings
      <3>1. CASE CallEnds(r)
        <4>1. \E pc \in {"reset", "start"} : Goto(r, pc)
          BY <3>0, <3>1 DEF CallEnds, After, Calls
        <4>2. restore'[r].pc \in {"reset", "start"} /\ restore'[r].on = Home[m]
              /\ restore'[r].at = m
          BY <1>0, <3>0, <4>1 DEF Goto, TypeOK, RestoreType
        <4> QED BY <4>2 DEF Brings
      <3>2. CASE ~CallEnds(r)
        <4>1. StartMachine(r) \/ aborted' = aborted \cup {restore[r].on}
          BY <3>0, <3>2 DEF RestoreAction, RestoreStep, BeginRestore, CreateTaskDoc, ReadPlan,
                            NextMachine, AfterHealth, CallFails, FreeTaskDoc, ClientLeaves
        <4>2. ~StartMachine(r)
          BY <1>5, <3>0 DEF StartMachine, StillDown
        <4> QED BY <1>5, <3>0, <4>1, <4>2
      <3> QED BY <3>1, <3>2
    <2> QED BY <2>2, <2>3
  <1>6. ASSUME NEW job \in jobs'
        PROVE  Home[job[2]] \in aborted'
    <2>1. CASE job \in jobs
      BY <1>0, <1>3, <2>1 DEF DownHeld
    <2>2. CASE job \notin jobs
      <3>1. /\ job = <<restore[r].pc, restore[r].at>> /\ restore[r].pc \in Calls
            /\ aborted' = aborted \cup {restore[r].on}
        BY <1>6, <2>2 DEF RestoreAction, RestoreStep, BeginRestore, CreateTaskDoc, ReadPlan,
                          NextMachine, CallEnds, StartMachine, AfterHealth, CallFails,
                          FreeTaskDoc, ClientLeaves
      <3> QED BY <1>0, <3>1 DEF Fits, Loop, Calls
    <2> QED BY <2>1, <2>2
  <1> QED BY <1>4, <1>5, <1>6 DEF DownHeld

LEMMA LeftCallDown ==
    ASSUME RestoreInv, NEW job \in jobs, LeftCallEnds(job)
    PROVE  DownHeld'
  <1>1. /\ UNCHANGED <<restore, aborted>> /\ jobs' \subseteq jobs
        /\ down' \subseteq down \cup {job[2]}
    BY DEF LeftCallEnds, Effect, machines
  <1> QED BY <1>1 DEF RestoreInv, DownHeld, Brings

-----------------------------------------------------------------------------
(* Types *)

LEMMA EffectTyped ==
    ASSUME TypeOK, NEW call, NEW m \in up \cup down, Effect(call, m)
    PROVE  /\ up' \subseteq Machines /\ down' \subseteq Machines \ up'
           /\ stale' \subseteq Machines
           /\ ticket' \in [Machines -> Rotations \cup {None}]
  BY DEF TypeOK, Effect

LEMMA RestoreTyped ==
    ASSUME RestoreInv, NEW r \in Restores, RestoreAction(r)
    PROVE  TypeOK'
  <1>0. TypeOK /\ restore[r] \in RestoreType /\ Fits(restore[r])
    BY DEF RestoreInv, TypeOK
  <1>1. PICK x : Becomes(r, x)
    BY RestoreMoves
  <1>2. restore' \in [Restores -> RestoreType]
    BY <1>0, <1>1 DEF Becomes, TypeOK
  <1>3. restore[r].pc \in Held \cup {"create"} => restore[r].on \in Instances
    BY <1>0 DEF Fits, RestoreType, Held, Loop
  <1>4. task' \subseteq Instances
    <2>1. task' \subseteq task \/ (restore[r].pc = "create" /\ task' = task \cup {restore[r].on})
      BY DEF RestoreAction, RestoreStep, BeginRestore, CreateTaskDoc, ReadPlan, NextMachine,
             CallEnds, StartMachine, AfterHealth, CallFails, FreeTaskDoc, ClientLeaves
    <2> QED BY <1>0, <1>3, <2>1 DEF TypeOK
  <1>5. aborted' \subseteq Instances /\ jobs' \subseteq Calls \X Machines /\ faults' \in Nat
    <2>1. CASE CallFails(r) \/ ClientLeaves(r)
      <3>1. restore[r].on \in Instances /\ restore[r].at \in Machines
        BY <1>0, <1>3, <2>1 DEF CallFails, ClientLeaves, InLoop, Fits, Held, Loop, Calls
      <3>2. aborted' = aborted \cup {restore[r].on}
        BY <2>1 DEF CallFails, ClientLeaves
      <3>3. faults' = faults \/ faults' = faults + 1
        BY <2>1 DEF CallFails, ClientLeaves
      <3>4. jobs' = jobs \/ (restore[r].pc \in Calls
                             /\ jobs' = jobs \cup {<<restore[r].pc, restore[r].at>>})
        BY <2>1 DEF CallFails, ClientLeaves
      <3> QED BY <1>0, <3>1, <3>2, <3>3, <3>4 DEF TypeOK
    <2>2. CASE ~CallFails(r) /\ ~ClientLeaves(r)
      <3>1. UNCHANGED <<aborted, jobs, faults>>
        BY <2>2 DEF RestoreAction, RestoreStep, BeginRestore, CreateTaskDoc, ReadPlan,
                    NextMachine, CallEnds, StartMachine, AfterHealth, FreeTaskDoc, bounds
      <3> QED BY <1>0, <3>1 DEF TypeOK
    <2> QED BY <2>1, <2>2
  <1>6. /\ up' \subseteq Machines /\ down' \subseteq Machines \ up'
        /\ stale' \subseteq Machines
        /\ ticket' \in [Machines -> Rotations \cup {None}]
    <2>1. CASE CallEnds(r)
      BY <1>0, <2>1, EffectTyped DEF CallEnds
    <2>2. CASE StartMachine(r)
      BY <1>0, <2>2 DEF StartMachine, StillDown, tickets, TypeOK
    <2>3. CASE ~CallEnds(r) /\ ~StartMachine(r)
      <3>1. UNCHANGED <<up, down, stale, ticket>>
        BY <2>3 DEF RestoreAction, RestoreStep, BeginRestore, CreateTaskDoc, ReadPlan,
                    NextMachine, AfterHealth, FreeTaskDoc, CallFails, ClientLeaves, machines,
                    tickets
      <3> QED BY <1>0, <3>1 DEF TypeOK
    <2> QED BY <2>1, <2>2, <2>3
  <1>7. UNCHANGED <<plan, lock, rotation, newest, scales>>
    BY DEF RestoreAction, RestoreStep, BeginRestore, CreateTaskDoc, ReadPlan, NextMachine,
           CallEnds, StartMachine, AfterHealth, CallFails, FreeTaskDoc, ClientLeaves, tickets,
           bounds
  <1> QED BY <1>0, <1>2, <1>4, <1>5, <1>6, <1>7 DEF TypeOK

LEMMA LeftCallTyped ==
    ASSUME TypeOK, NEW job \in jobs, LeftCallEnds(job)
    PROVE  TypeOK'
  <1>1. /\ jobs' \subseteq jobs
        /\ UNCHANGED <<plan, lock, rotation, newest, task, restore, aborted, faults, scales>>
    BY DEF LeftCallEnds, bounds
  <1>2. /\ up' \subseteq Machines /\ down' \subseteq Machines \ up'
        /\ stale' \subseteq Machines
        /\ ticket' \in [Machines -> Rotations \cup {None}]
    BY EffectTyped DEF LeftCallEnds, machines, TypeOK
  <1> QED BY <1>1, <1>2 DEF TypeOK

(* What else happens to the instance. *)
Meanwhile ==
    \/ \E m \in Machines : AddMachine(m) \/ RemoveMachine(m)
    \/ \E i \in Instances : StorePlan(i) \/ DeletePlan(i)

LEMMA MeanwhileKept ==
    ASSUME RestoreInv, Meanwhile
    PROVE  RestoreInv'
  <1>0. TypeOK
    BY DEF RestoreInv
  <1>1. UNCHANGED <<lock, rotation, newest, restores, faults, ticket>>
    BY DEF Meanwhile, AddMachine, RemoveMachine, StorePlan, DeletePlan, tickets, bounds
  <1>2. /\ up' \subseteq Machines /\ down' \subseteq Machines \ up'
        /\ down' \subseteq down /\ stale' \subseteq Machines
    BY <1>0 DEF Meanwhile, AddMachine, RemoveMachine, StorePlan, DeletePlan, tickets, machines,
                TypeOK
  <1>3. plan' \subseteq Instances
    BY <1>0 DEF Meanwhile, AddMachine, RemoveMachine, StorePlan, DeletePlan, TypeOK
  <1>4. scales' = scales \/ scales' = scales + 1
    BY DEF Meanwhile, AddMachine, RemoveMachine, StorePlan, DeletePlan, Change, bounds
  <1>5. scales' \in Nat
    BY <1>0, <1>4 DEF TypeOK
  <1>6. TypeOK'
    BY <1>0, <1>1, <1>2, <1>3, <1>5 DEF TypeOK, restores
  <1> QED BY <1>1, <1>2, <1>6
          DEF RestoreInv, Fits, Documents, DocumentReleased, DownHeld, Brings, restores

-----------------------------------------------------------------------------
(* The rotations *)

Section == {"hosts", "unlock"}

(* The lock is with a rotation that is at the instance, until it expires.  *)
Knows(t) ==
    /\ rotation[t].pc \in Section \cup {"lock"} => rotation[t].on \in Instances
    /\ rotation[t].pc \in Section /\ ~rotation[t].late => lock[rotation[t].on] = t
    /\ rotation[t].pc \notin Section => ~rotation[t].late
    /\ rotation[t].pc = "hosts" => \A m \in rotation[t].left : Home[m] = rotation[t].on

Holder(i, t) == rotation[t].on = i /\ rotation[t].pc \in Section /\ ~rotation[t].late

Locks ==
    /\ \A t \in Rotations : Knows(t)
    /\ \A i \in Instances : lock[i] # None => Holder(i, lock[i])

At(t, i) == rotation[t].on = i /\ rotation[t].pc = "hosts"
Timely(i) == \A t \in Rotations : At(t, i) => ~rotation[t].late

(* While the lock holds, a machine has the key of the last rotation or of  *)
(* the one at work, which has still to come to it or has been there.       *)
Keys ==
    \A i \in Instances : Timely(i) =>
        \A m \in Of(i) \ stale :
            /\ ticket[m] = newest[i] \/ \E t \in Rotations : At(t, i) /\ ticket[m] = t
            /\ \A t \in Rotations : At(t, i) => m \in rotation[t].left \/ ticket[m] = t

TicketInv == Locks /\ Keys

(* Steps of others leave the keys of the machines that are not stale.      *)
LEMMA OthersKeepKeys ==
    ASSUME TicketInv, UNCHANGED <<lock, rotation, newest>>,
           \A m \in (up \cup down)' \ stale' :
               m \in (up \cup down) \ stale /\ ticket'[m] = ticket[m]
    PROVE  TicketInv'
  BY DEF TicketInv, Locks, Knows, Holder, Keys, Of, At, Timely

LEMMA RestoreKeepsKeys ==
    ASSUME TypeOK, TicketInv,
           \/ \E r \in Restores : RestoreAction(r)
           \/ \E job \in jobs : LeftCallEnds(job)
           \/ Meanwhile
    PROVE  TicketInv'
  <1>1. ASSUME NEW call, NEW m \in up \cup down, Effect(call, m),
               UNCHANGED <<lock, rotation, newest>>
        PROVE  TicketInv'
    <2>1. (up \cup down)' = up \cup down
      BY <1>1 DEF Effect
    <2>2. \A n \in (up \cup down)' \ stale' :
              n \in (up \cup down) \ stale /\ ticket'[n] = ticket[n]
      BY <1>1, <2>1 DEF Effect, TypeOK
    <2> QED BY <1>1, <2>2, OthersKeepKeys
  <1>2. CASE \E r \in Restores : RestoreAction(r)
    <2>1. PICK r \in Restores : RestoreAction(r)
      BY <1>2
    <2>2. UNCHANGED <<lock, rotation, newest>>
      BY <2>1 DEF RestoreAction, RestoreStep, BeginRestore, CreateTaskDoc, ReadPlan, NextMachine,
                  CallEnds, StartMachine, AfterHealth, CallFails, FreeTaskDoc, ClientLeaves,
                  tickets
    <2>3. CASE CallEnds(r)
      BY <1>1, <2>2, <2>3 DEF CallEnds
    <2>4. CASE ~CallEnds(r)
      <3>1. UNCHANGED <<ticket, stale>> /\ (up \cup down)' = up \cup down
        BY <2>1, <2>4 DEF RestoreAction, RestoreStep, BeginRestore, CreateTaskDoc, ReadPlan,
                          NextMachine, StartMachine, StillDown, AfterHealth, CallFails,
                          FreeTaskDoc, ClientLeaves, tickets, machines
      <3> QED BY <2>2, <3>1, OthersKeepKeys
    <2> QED BY <2>3, <2>4
  <1>3. CASE \E job \in jobs : LeftCallEnds(job)
    <2>1. PICK job \in jobs : LeftCallEnds(job)
      BY <1>3
    <2>2. UNCHANGED <<lock, rotation, newest>>
      BY <2>1 DEF LeftCallEnds
    <2>3. CASE job[2] \in up \cup down
      BY <1>1, <2>1, <2>2, <2>3 DEF LeftCallEnds
    <2>4. CASE job[2] \notin up \cup down
      <3>1. UNCHANGED <<up, down, ticket, stale>>
        BY <2>1, <2>4 DEF LeftCallEnds, machines
      <3> QED BY <2>2, <3>1, OthersKeepKeys
    <2> QED BY <2>3, <2>4
  <1>4. CASE Meanwhile
    <2>1. UNCHANGED <<lock, rotation, newest, ticket>>
      BY <1>4 DEF Meanwhile, AddMachine, RemoveMachine, StorePlan, DeletePlan, tickets
    <2>2. \A m \in (up \cup down)' \ stale' : m \in (up \cup down) \ stale
      BY <1>4 DEF Meanwhile, AddMachine, RemoveMachine, StorePlan, DeletePlan, tickets, machines
    <2> QED BY <2>1, <2>2, OthersKeepKeys
  <1> QED BY <1>2, <1>3, <1>4

(* A rotation t goes to state x. *)
Turns(t, x) == rotation' = [rotation EXCEPT ![t] = x] /\ x \in RotationType

LEMMA TurnsOne ==
    ASSUME TypeOK, NEW t \in Rotations, NEW x, Turns(t, x)
    PROVE  /\ rotation' \in [Rotations -> RotationType]
           /\ rotation'[t] = x
           /\ \A s \in Rotations \ {t} : rotation'[s] = rotation[s]
  BY DEF TypeOK, Turns

(* It goes to no machines or comes from none, and keeps the locks and keys. *)
LEMMA AwayFromMachines ==
    ASSUME TypeOK, TicketInv, NEW t \in Rotations, NEW x, Turns(t, x),
           rotation[t].pc # "hosts", x.pc # "hosts", ~x.late,
           x.pc \in {"list", "done"} \/ (x.pc = "lock" /\ x.on \in Instances),
           UNCHANGED <<up, down, ticket, stale, newest>>,
           \/ lock' = lock /\ rotation[t].pc # "unlock"
           \/ lock' = lock /\ lock[rotation[t].on] # t
           \/ lock' = [lock EXCEPT ![rotation[t].on] = None]
              /\ lock[rotation[t].on] = t /\ rotation[t].on \in Instances
    PROVE  TicketInv'
  <1>0. Locks /\ Keys /\ lock \in [Instances -> Rotations \cup {None}]
    BY DEF TicketInv, TypeOK
  <1>1. rotation'[t] = x /\ \A s \in Rotations \ {t} : rotation'[s] = rotation[s]
    BY TurnsOne
  <1>2. x.pc \notin Section
    BY DEF Section
  <1>3. \A i \in Instances : lock'[i] = lock[i] \/ lock[i] = t
    BY <1>0
  <1>4. ASSUME NEW s \in Rotations
        PROVE  Knows(s)'
    <2>1. CASE s = t
      BY <1>1, <1>2, <2>1 DEF Knows, Section
    <2>2. CASE s # t
      BY <1>0, <1>1, <1>3, <2>2 DEF Locks, Knows, Holder
    <2> QED BY <2>1, <2>2
  <1>5. ASSUME NEW i \in Instances, lock'[i] # None
        PROVE  Holder(i, lock[i])'
    <2>1. lock'[i] = lock[i] /\ lock[i] \in Rotations
      BY <1>0, <1>5
    <2>2. Holder(i, lock[i])
      BY <1>0, <1>5, <2>1 DEF Locks, Knows, Holder
    <2>3. lock[i] # t
      BY <1>0, <1>5, <2>1, <2>2 DEF Holder, Section
    <2> QED BY <1>1, <2>1, <2>2, <2>3 DEF Holder
  <1>6. Locks'
    BY <1>4, <1>5 DEF Locks, Knows, Holder
  <1>7. \A i \in Instances, s \in Rotations : At(s, i)' <=> At(s, i)
    BY <1>1 DEF At
  <1>8. \A i \in Instances, s \in Rotations : At(s, i) => rotation'[s] = rotation[s]
    BY <1>1 DEF At
  <1>9. Keys'
    BY <1>0, <1>7, <1>8 DEF Keys, Timely, Of
  <1> QED BY <1>6, <1>9 DEF TicketInv

(* A rotation that takes the lock has every machine of the instance left. *)
LEMMA TakeLockKept ==
    ASSUME TypeOK, TicketInv, NEW t \in Rotations, NEW x, Turns(t, x),
           rotation[t].pc = "lock", x.pc = "hosts", ~x.late, x.on = rotation[t].on,
           x.left = Of(rotation[t].on),
           lock[rotation[t].on] = None, lock' = [lock EXCEPT ![rotation[t].on] = t],
           UNCHANGED <<up, down, ticket, stale, newest>>
    PROVE  TicketInv'
  <1>0. /\ Locks /\ Keys /\ lock \in [Instances -> Rotations \cup {None}]
        /\ rotation[t].on \in Instances /\ t # None
    BY MachinesAssumption DEF TicketInv, TypeOK, Locks, Knows, Section
  <1>1. rotation'[t] = x /\ \A s \in Rotations \ {t} : rotation'[s] = rotation[s]
    BY TurnsOne
  <1>2. ASSUME NEW s \in Rotations
        PROVE  Knows(s)'
    <2>1. CASE s = t
      BY <1>0, <1>1, <2>1 DEF Knows, Section, Of
    <2>2. CASE s # t
      <3>1. Knows(s)
        BY <1>0 DEF Locks, Knows, Holder
      <3>2. rotation[s].on \in Instances /\ lock[rotation[s].on] = s => lock'[rotation[s].on] = s
        BY <1>0, MachinesAssumption
      <3> QED BY <1>1, <2>2, <3>1, <3>2 DEF Knows
    <2> QED BY <2>1, <2>2
  <1>3. ASSUME NEW i \in Instances, lock'[i] # None
        PROVE  Holder(i, lock[i])'
    <2>1. CASE i = rotation[t].on
      BY <1>0, <1>1, <2>1 DEF Holder, Section
    <2>2. CASE i # rotation[t].on
      <3>1. lock'[i] = lock[i] /\ lock[i] \in Rotations
        BY <1>0, <1>3, <2>2
      <3>2. Holder(i, lock[i])
        BY <1>0, <1>3, <3>1 DEF Locks, Knows, Holder
      <3> QED BY <1>1, <2>2, <3>1, <3>2 DEF Holder
    <2> QED BY <2>1, <2>2
  <1>4. Locks'
    BY <1>2, <1>3 DEF Locks, Knows, Holder
  <1>5. \A i \in Instances, s \in Rotations \ {t} :
            (At(s, i)' <=> At(s, i)) /\ rotation'[s] = rotation[s]
    BY <1>1 DEF At
  <1>6. \A i \in Instances : ~At(t, i) /\ (At(t, i)' <=> i = rotation[t].on)
    BY <1>1 DEF At
  <1>7. \A i \in Instances : Timely(i)' => Timely(i)
    BY <1>5, <1>6 DEF Timely
  <1>8. ASSUME NEW i \in Instances, Timely(i)', NEW m \in Of(i) \ stale
        PROVE  /\ ticket[m] = newest[i] \/ \E s \in Rotations : At(s, i)' /\ ticket[m] = s
               /\ \A s \in Rotations : At(s, i)' => m \in rotation'[s].left \/ ticket[m] = s
    <2>1. /\ ticket[m] = newest[i] \/ \E s \in Rotations : At(s, i) /\ ticket[m] = s
          /\ \A s \in Rotations : At(s, i) => m \in rotation[s].left \/ ticket[m] = s
      BY <1>0, <1>7, <1>8 DEF Keys
    <2> QED BY <1>1, <1>5, <1>6, <1>8, <2>1
  <1>9. Keys'
    BY <1>8 DEF Keys, Of
  <1> QED BY <1>4, <1>9 DEF TicketInv

(* Its steps under the lock leave the locks as they are. *)
LEMMA SectionLocks ==
    ASSUME TypeOK, TicketInv, NEW t \in Rotations, NEW x, Turns(t, x), lock' = lock,
           rotation[t].pc \in Section, x.pc \in Section, x.on = rotation[t].on,
           x.late = rotation[t].late, x.left \subseteq rotation[t].left,
           x.pc = "hosts" => rotation[t].pc = "hosts"
    PROVE  Locks'
  <1>0. Locks /\ lock \in [Instances -> Rotations \cup {None}]
    BY DEF TicketInv, TypeOK
  <1>1. rotation'[t] = x /\ \A s \in Rotations \ {t} : rotation'[s] = rotation[s]
    BY TurnsOne
  <1>2. ASSUME NEW s \in Rotations
        PROVE  Knows(s)'
    <2>1. CASE s = t
      BY <1>0, <1>1, <2>1 DEF Locks, Knows, Section
    <2>2. CASE s # t
      BY <1>0, <1>1, <2>2 DEF Locks, Knows, Holder
    <2> QED BY <2>1, <2>2
  <1>3. ASSUME NEW i \in Instances, lock[i] # None
        PROVE  Holder(i, lock[i])'
    <2>1. lock[i] \in Rotations /\ Holder(i, lock[i])
      BY <1>0, <1>3 DEF Locks, Knows, Holder
    <2> QED BY <1>1, <2>1 DEF Holder
  <1> QED BY <1>2, <1>3 DEF Locks, Knows, Holder

(* The key goes to a machine that is left. *)
LEMMA AddTicketKept ==
    ASSUME TypeOK, TicketInv, NEW t \in Rotations, NEW m \in rotation[t].left, AddTicket(t, m)
    PROVE  TypeOK' /\ TicketInv'
  <1> DEFINE x == [rotation[t] EXCEPT !.left = @ \ {m}]
             i == rotation[t].on
  <1>0. /\ Locks /\ Keys /\ rotation[t] \in RotationType /\ rotation[t].pc = "hosts"
        /\ i \in Instances /\ m \in Machines /\ Home[m] = i
    BY DEF TicketInv, TypeOK, Locks, Knows, Section, AddTicket, Me, RotationType
  <1>1. /\ rotation' = [rotation EXCEPT ![t] = x] /\ ticket' = [ticket EXCEPT ![m] = t]
        /\ UNCHANGED <<up, down, plan, lock, newest, stale, restores, bounds>>
    BY DEF AddTicket, Set, Me, machines
  <1>2. x \in RotationType /\ x.pc = "hosts" /\ x.on = i /\ x.late = rotation[t].late
        /\ x.left = rotation[t].left \ {m}
    BY <1>0 DEF RotationType
  <1> HIDE DEF x
  <1>3. rotation' \in [Rotations -> RotationType] /\ rotation'[t] = x
        /\ \A s \in Rotations \ {t} : rotation'[s] = rotation[s]
    BY <1>1, <1>2, TurnsOne DEF Turns
  <1>4. TypeOK'
    <2>1. ticket' \in [Machines -> Rotations \cup {None}]
      BY <1>1 DEF TypeOK
    <2> QED BY <1>1, <1>3, <2>1 DEF TypeOK, restores, bounds
  <1>5. Locks'
    BY <1>0, <1>1, <1>2, SectionLocks DEF Turns, Section
  <1>6. \A j \in Instances, s \in Rotations :
            (At(s, j)' <=> At(s, j)) /\ rotation'[s].late = rotation[s].late
    BY <1>0, <1>2, <1>3 DEF At
  <1>7. ASSUME NEW j \in Instances, Timely(j)', NEW n \in Of(j) \ stale
        PROVE  /\ ticket'[n] = newest[j] \/ \E s \in Rotations : At(s, j)' /\ ticket'[n] = s
               /\ \A s \in Rotations : At(s, j)' => n \in rotation'[s].left \/ ticket'[n] = s
    <2>1. Timely(j) /\ n \in Machines
      BY <1>6, <1>7 DEF Timely, Of, TypeOK
    <2>2. /\ ticket[n] = newest[j] \/ \E s \in Rotations : At(s, j) /\ ticket[n] = s
          /\ \A s \in Rotations : At(s, j) => n \in rotation[s].left \/ ticket[n] = s
      BY <1>0, <1>7, <2>1 DEF Keys
    <2>3. CASE n = m
      <3>1. ticket'[n] = t /\ j = i /\ At(t, j)
        BY <1>0, <1>1, <1>7, <2>3 DEF Of, TypeOK, At
      <3>2. \A s \in Rotations : At(s, j) => lock[j] = s
        BY <1>0, <2>1 DEF Timely, Locks, Knows, At, Section
      <3> QED BY <1>6, <3>1, <3>2
    <2>4. CASE n # m
      <3>1. ticket'[n] = ticket[n]
        BY <1>1, <2>4 DEF TypeOK
      <3>2. \A s \in Rotations : n \in rotation[s].left => n \in rotation'[s].left
        BY <1>2, <1>3, <2>4
      <3> QED BY <1>6, <2>2, <3>1, <3>2
    <2> QED BY <2>3, <2>4
  <1>8. Keys'
    BY <1>1, <1>7 DEF Keys, Of
  <1> QED BY <1>4, <1>5, <1>8 DEF TicketInv

(* Nothing is promised of an instance whose machines are all stale.        *)
LEMMA StaleKept ==
    ASSUME TypeOK, TicketInv, NEW i \in Instances, UNCHANGED <<up, down, newest>>,
           stale' = stale \cup Of(i),
           \A m \in Machines : Home[m] # i => ticket'[m] = ticket[m],
           \A j \in Instances \ {i}, s \in Rotations :
               (At(s, j)' <=> At(s, j)) /\ (At(s, j) => rotation'[s] = rotation[s])
    PROVE  Keys'
  <1>1. ASSUME NEW j \in Instances, Timely(j)', NEW n \in Of(j) \ stale'
        PROVE  /\ ticket'[n] = newest[j] \/ \E s \in Rotations : At(s, j)' /\ ticket'[n] = s
               /\ \A s \in Rotations : At(s, j)' => n \in rotation'[s].left \/ ticket'[n] = s
    <2>1. j # i /\ n \in Of(j) \ stale /\ ticket'[n] = ticket[n]
      BY <1>1 DEF Of, TypeOK
    <2>2. Timely(j)
      BY <1>1, <2>1 DEF Timely
    <2>3. /\ ticket[n] = newest[j] \/ \E s \in Rotations : At(s, j) /\ ticket[n] = s
          /\ \A s \in Rotations : At(s, j) => n \in rotation[s].left \/ ticket[n] = s
      BY <2>1, <2>2 DEF TicketInv, Keys
    <2> QED BY <2>1, <2>3
  <1> QED BY <1>1 DEF Keys, Of

LEMMA AddTicketFailsKept ==
    ASSUME TypeOK, TicketInv, NEW t \in Rotations, NEW m \in rotation[t].left,
           AddTicketFails(t, m)
    PROVE  TypeOK' /\ TicketInv'
  <1> DEFINE x == [rotation[t] EXCEPT !.pc = "unlock", !.left = {}]
             i == rotation[t].on
  <1>0. /\ Locks /\ rotation[t] \in RotationType /\ rotation[t].pc = "hosts"
        /\ i \in Instances /\ m \in Machines /\ Home[m] = i
    BY DEF TicketInv, TypeOK, Locks, Knows, Section, AddTicketFails, Me, RotationType
  <1>1. /\ rotation' = [rotation EXCEPT ![t] = x] /\ stale' = stale \cup Of(i)
        /\ UNCHANGED <<up, down, plan, lock, newest, restores, scales>>
    BY DEF AddTicketFails, Set, Me, machines
  <1>2. ticket' = ticket \/ ticket' = [ticket EXCEPT ![m] = t]
    BY DEF AddTicketFails
  <1>3. x \in RotationType /\ x.pc = "unlock" /\ x.on = i /\ x.late = rotation[t].late
        /\ x.left = {}
    BY <1>0 DEF RotationType
  <1> HIDE DEF x
  <1>4. rotation' \in [Rotations -> RotationType] /\ rotation'[t] = x
        /\ \A s \in Rotations \ {t} : rotation'[s] = rotation[s]
    BY <1>1, <1>3, TurnsOne DEF Turns
  <1>5. TypeOK'
    <2>1. ticket' \in [Machines -> Rotations \cup {None}]
      BY <1>2 DEF TypeOK
    <2>2. faults' = faults \/ faults' = faults + 1
      BY DEF AddTicketFails
    <2>3. faults' \in Nat
      BY <2>2 DEF TypeOK
    <2>4. stale' \subseteq Machines
      BY <1>1 DEF Of, TypeOK
    <2> QED BY <1>1, <1>4, <2>1, <2>3, <2>4 DEF TypeOK, restores
  <1>6. Locks'
    BY <1>0, <1>1, <1>3, SectionLocks DEF Turns, Section
  <1>7. Keys'
    <2>1. \A j \in Instances \ {i}, s \in Rotations :
              (At(s, j)' <=> At(s, j)) /\ (At(s, j) => rotation'[s] = rotation[s])
      BY <1>3, <1>4 DEF At
    <2>2. \A n \in Machines : Home[n] # i => ticket'[n] = ticket[n]
      BY <1>0, <1>2 DEF TypeOK
    <2> HIDE DEF i
    <2> QED BY <1>0, <1>1, <2>1, <2>2, StaleKept
  <1> QED BY <1>5, <1>6, <1>7 DEF TicketInv

LEMMA LockExpiresKept ==
    ASSUME TypeOK, TicketInv, NEW i \in Instances, LockExpires(i)
    PROVE  TypeOK' /\ TicketInv'
  <1> DEFINE t == lock[i]
             x == [rotation[t] EXCEPT !.late = TRUE]
  <1>0. /\ Locks /\ t \in Rotations /\ Holder(i, t) /\ rotation[t] \in RotationType
        /\ lock \in [Instances -> Rotations \cup {None}]
    BY DEF TicketInv, TypeOK, Locks, LockExpires
  <1>1. /\ rotation' = [rotation EXCEPT ![t] = x] /\ lock' = [lock EXCEPT ![i] = None]
        /\ stale' = stale \cup Of(i) /\ faults' = faults + 1
        /\ UNCHANGED <<up, down, plan, ticket, newest, restores, scales>>
    BY DEF LockExpires, Set, Me, machines
  <1>2. x \in RotationType /\ x.pc = rotation[t].pc /\ x.on = i /\ x.late
        /\ x.left = rotation[t].left
    BY <1>0 DEF RotationType, Holder
  <1> HIDE DEF x
  <1>3. rotation' \in [Rotations -> RotationType] /\ rotation'[t] = x
        /\ \A s \in Rotations \ {t} : rotation'[s] = rotation[s]
    BY <1>0, <1>1, <1>2, TurnsOne DEF Turns
  <1>4. TypeOK'
    <2>1. stale' \subseteq Machines /\ faults' \in Nat
      BY <1>1 DEF Of, TypeOK
    <2>2. lock' \in [Instances -> Rotations \cup {None}]
      BY <1>0, <1>1
    <2> QED BY <1>1, <1>3, <2>1, <2>2 DEF TypeOK, restores
  <1>5. Locks'
    <2>1. ASSUME NEW s \in Rotations
          PROVE  Knows(s)'
      <3>1. CASE s = t
        BY <1>0, <1>2, <1>3, <3>1 DEF Locks, Knows, Holder
      <3>2. CASE s # t
        <4>1. Knows(s)
          BY <1>0 DEF Locks
        <4>2. rotation[s].on \in Instances /\ lock[rotation[s].on] = s => lock'[rotation[s].on] = s
          BY <1>0, <1>1, <3>2
        <4> QED BY <1>3, <3>2, <4>1, <4>2 DEF Knows
      <3> QED BY <3>1, <3>2
    <2>2. ASSUME NEW j \in Instances, lock'[j] # None
          PROVE  Holder(j, lock[j])'
      <3>1. j # i /\ lock'[j] = lock[j] /\ lock[j] \in Rotations
        BY <1>0, <1>1, <2>2
      <3>2. Holder(j, lock[j])
        BY <1>0, <2>2, <3>1 DEF Locks
      <3>3. lock[j] # t
        BY <1>0, <3>1, <3>2 DEF Holder
      <3> QED BY <1>3, <3>1, <3>2, <3>3 DEF Holder
    <2> QED BY <2>1, <2>2 DEF Locks
  <1>6. Keys'
    <2>1. \A j \in Instances \ {i}, s \in Rotations :
              (At(s, j)' <=> At(s, j)) /\ (At(s, j) => rotation'[s] = rotation[s])
      BY <1>0, <1>2, <1>3 DEF At, Holder
    <2> QED BY <1>1, <2>1, StaleKept
  <1> QED BY <1>4, <1>5, <1>6 DEF TicketInv

(* When no machine is left all but the stale ones have its key. *)
LEMMA AllAddedKept ==
    ASSUME TypeOK, TicketInv, NEW t \in Rotations, AllAdded(t)
    PROVE  TypeOK' /\ TicketInv'
  <1> DEFINE x == [rotation[t] EXCEPT !.pc = "unlock"]
             i == rotation[t].on
  <1>0. /\ Locks /\ Keys /\ rotation[t] \in RotationType /\ rotation[t].pc = "hosts"
        /\ i \in Instances /\ rotation[t].left = {}
    BY DEF TicketInv, TypeOK, Locks, Knows, Section, AllAdded, Me
  <1>1. /\ rotation' = [rotation EXCEPT ![t] = x] /\ newest' = [newest EXCEPT ![i] = t]
        /\ stale' = IF rotation[t].late THEN stale \cup Of(i)
                    ELSE stale \ {m \in Of(i) : ticket[m] = t}
        /\ UNCHANGED <<up, down, plan, ticket, lock, restores, bounds>>
    BY DEF AllAdded, Set, Me, machines
  <1>2. x \in RotationType /\ x.pc = "unlock" /\ x.on = i /\ x.late = rotation[t].late
        /\ x.left = {}
    BY <1>0 DEF RotationType
  <1> HIDE DEF x
  <1>3. rotation' \in [Rotations -> RotationType] /\ rotation'[t] = x
        /\ \A s \in Rotations \ {t} : rotation'[s] = rotation[s]
    BY <1>1, <1>2, TurnsOne DEF Turns
  <1>4. TypeOK'
    <2>1. newest' \in [Instances -> Rotations \cup {None}]
      BY <1>0, <1>1 DEF TypeOK
    <2>2. stale' \subseteq Machines
      BY <1>1 DEF Of, TypeOK
    <2> QED BY <1>1, <1>3, <2>1, <2>2 DEF TypeOK, restores, bounds
  <1>5. Locks'
    BY <1>0, <1>1, <1>2, SectionLocks DEF Turns, Section
  <1>6. \A j \in Instances, s \in Rotations \ {t} :
            (At(s, j)' <=> At(s, j)) /\ rotation'[s] = rotation[s]
    BY <1>3 DEF At
  <1>7. \A j \in Instances : ~At(t, j)' /\ (At(t, j) => j = i)
    BY <1>2, <1>3 DEF At
  <1>8. ASSUME NEW j \in Instances, Timely(j)', NEW n \in Of(j) \ stale'
        PROVE  /\ ticket[n] = newest'[j] \/ \E s \in Rotations : At(s, j)' /\ ticket[n] = s
               /\ \A s \in Rotations : At(s, j)' => n \in rotation'[s].left \/ ticket[n] = s
    <2>1. CASE j # i
      <3>1. Timely(j) /\ n \in Of(j) \ stale /\ newest'[j] = newest[j]
        BY <1>0, <1>1, <1>6, <1>7, <1>8, <2>1 DEF Timely, Of, TypeOK
      <3>2. /\ ticket[n] = newest[j] \/ \E s \in Rotations : At(s, j) /\ ticket[n] = s
            /\ \A s \in Rotations : At(s, j) => n \in rotation[s].left \/ ticket[n] = s
        BY <1>0, <3>1 DEF Keys
      <3> QED BY <1>6, <1>7, <2>1, <3>1, <3>2
    <2>2. CASE j = i
      <3>1. ~rotation[t].late /\ newest'[j] = t
        BY <1>0, <1>1, <1>8, <2>2 DEF TypeOK
      <3>2. Timely(i)
        BY <1>6, <1>8, <2>2, <3>1 DEF Timely
      <3>3. ticket[n] = t
        <4>1. CASE n \in stale
          BY <1>1, <1>8, <3>1, <4>1
        <4>2. CASE n \notin stale
          BY <1>0, <1>8, <2>2, <3>2, <4>2 DEF Keys, At
        <4> QED BY <4>1, <4>2
      <3>4. \A s \in Rotations : ~At(s, j)'
        <4>1. ASSUME NEW s \in Rotations \ {t}, At(s, i)
              PROVE  FALSE
          <5>1. lock[i] = s
            BY <1>0, <3>2, <4>1 DEF Timely, At, Locks, Knows, Section
          <5>2. lock[i] = t
            BY <1>0, <3>1 DEF Locks, Knows, Section
          <5> QED BY <4>1, <5>1, <5>2
        <4> QED BY <1>6, <1>7, <2>2, <4>1
      <3> QED BY <3>1, <3>3, <3>4
    <2> QED BY <2>1, <2>2
  <1>9. Keys'
    BY <1>1, <1>8 DEF Keys, Of
  <1> QED BY <1>4, <1>5, <1>9 DEF TicketInv

LEMMA TurnTyped ==
    ASSUME TypeOK, NEW t \in Rotations, NEW x, Turns(t, x),
           UNCHANGED <<machines, plan, ticket, newest, stale, restores, bounds>>,
           \/ lock' = lock
           \/ \E v \in Rotations \cup {None} : lock' = [lock EXCEPT ![rotation[t].on] = v]
    PROVE  TypeOK'
  <1>1. rotation' \in [Rotations -> RotationType]
    BY TurnsOne
  <1>2. lock' \in [Instances -> Rotations \cup {None}]
    BY DEF TypeOK
  <1> QED BY <1>1, <1>2 DEF TypeOK, machines, restores, bounds

LEMMA BetweenKept ==
    ASSUME TypeOK, TicketInv, NEW t \in Rotations,
           ListBalancers(t) \/ NextBalancer(t) \/ TakeLock(t) \/ Unlock(t)
    PROVE  TypeOK' /\ TicketInv'
  <1>0. /\ rotation[t] \in RotationType /\ Knows(t)
        /\ UNCHANGED <<machines, plan, ticket, newest, stale, restores, bounds>>
    BY DEF TicketInv, TypeOK, Locks, ListBalancers, NextBalancer, TakeLock, Unlock
  <1>1. CASE ListBalancers(t)
    <2> DEFINE x == [rotation[t] EXCEPT !.pc = "list", !.lbs = Instances]
    <2>1. x \in RotationType /\ x.pc = "list" /\ x.late = rotation[t].late
      BY <1>0 DEF RotationType
    <2>2. rotation' = [rotation EXCEPT ![t] = x] /\ rotation[t].pc = "new" /\ lock' = lock
      BY <1>1 DEF ListBalancers, Set, Me
    <2> HIDE DEF x
    <2> QED BY <1>0, <2>1, <2>2, TurnTyped, AwayFromMachines DEF Turns, Knows, Section, machines
  <1>2. CASE NextBalancer(t)
    <2>1. rotation[t].pc = "list" /\ lock' = lock /\ ~rotation[t].late
      BY <1>0, <1>2 DEF NextBalancer, Me, Knows, Section
    <2>2. CASE rotation[t].lbs = {}
      <3> DEFINE x == [rotation[t] EXCEPT !.pc = "done"]
      <3>1. x \in RotationType /\ x.pc = "done" /\ x.late = rotation[t].late
        BY <1>0 DEF RotationType
      <3>2. rotation' = [rotation EXCEPT ![t] = x]
        BY <1>2, <2>2 DEF NextBalancer, Set, Me
      <3> HIDE DEF x
      <3> QED BY <1>0, <2>1, <3>1, <3>2, TurnTyped, AwayFromMachines DEF Turns, machines
    <2>3. ASSUME NEW i \in rotation[t].lbs,
                 Set(t, [Me(t) EXCEPT !.pc = "lock", !.on = i, !.lbs = @ \ {i}])
          PROVE  TypeOK' /\ TicketInv'
      <3> DEFINE x == [rotation[t] EXCEPT !.pc = "lock", !.on = i, !.lbs = @ \ {i}]
      <3>1. x \in RotationType /\ x.pc = "lock" /\ x.on = i /\ x.late = rotation[t].late
            /\ i \in Instances
        BY <1>0 DEF RotationType
      <3>2. rotation' = [rotation EXCEPT ![t] = x]
        BY <2>3 DEF Set, Me
      <3> HIDE DEF x
      <3> QED BY <1>0, <2>1, <3>1, <3>2, TurnTyped, AwayFromMachines DEF Turns, machines
    <2> QED BY <1>2, <2>2, <2>3 DEF NextBalancer, Me
  <1>3. CASE TakeLock(t)
    <2> DEFINE i == rotation[t].on
    <2>1. rotation[t].pc = "lock" /\ ~rotation[t].late /\ i \in Instances
      BY <1>0, <1>3 DEF TakeLock, Me, Knows, Section
    <2>2. CASE lock[i] = None
      <3> DEFINE x == [rotation[t] EXCEPT !.pc = "hosts", !.left = Of(i)]
      <3>1. Of(i) \subseteq Machines
        BY DEF Of, TypeOK
      <3>2. x \in RotationType /\ x.pc = "hosts" /\ x.on = i /\ x.late = rotation[t].late
            /\ x.left = Of(i)
        BY <1>0, <3>1 DEF RotationType
      <3>3. rotation' = [rotation EXCEPT ![t] = x] /\ lock' = [lock EXCEPT ![i] = t]
        BY <1>3, <2>2 DEF TakeLock, Free, Set, Me
      <3> HIDE DEF x
      <3>4. TypeOK'
        BY <1>0, <3>2, <3>3, TurnTyped DEF Turns
      <3>5. TicketInv'
        BY <1>0, <2>1, <2>2, <3>2, <3>3, TakeLockKept DEF Turns, machines
      <3> QED BY <3>4, <3>5
    <2>3. CASE lock[i] # None
      <3> DEFINE x == [rotation[t] EXCEPT !.pc = "list"]
      <3>1. x \in RotationType /\ x.pc = "list" /\ x.late = rotation[t].late
        BY <1>0 DEF RotationType
      <3>2. rotation' = [rotation EXCEPT ![t] = x] /\ lock' = lock
        BY <1>3, <2>3 DEF TakeLock, Free, Set, Me
      <3> HIDE DEF x
      <3> QED BY <1>0, <2>1, <3>1, <3>2, TurnTyped, AwayFromMachines DEF Turns, machines
    <2> QED BY <2>2, <2>3
  <1>4. CASE Unlock(t)
    <2> DEFINE i == rotation[t].on
               x == [rotation[t] EXCEPT !.pc = IF lock[i] = t THEN "list" ELSE "done",
                                        !.late = FALSE]
    <2>1. rotation[t].pc = "unlock" /\ i \in Instances
      BY <1>0, <1>4 DEF Unlock, Me, Knows, Section
    <2>2. x \in RotationType /\ x.pc \in {"list", "done"} /\ ~x.late
      BY <1>0 DEF RotationType
    <2>3. /\ rotation' = [rotation EXCEPT ![t] = x]
          /\ lock' = IF lock[i] = t THEN [lock EXCEPT ![i] = None] ELSE lock
      BY <1>4 DEF Unlock, Set, Me
    <2> HIDE DEF x
    <2>4. TypeOK'
      BY <1>0, <2>2, <2>3, TurnTyped DEF Turns
    <2>5. TicketInv'
      BY <1>0, <2>1, <2>2, <2>3, AwayFromMachines DEF Turns, machines
    <2> QED BY <2>4, <2>5
  <1> QED BY <1>1, <1>2, <1>3, <1>4

-----------------------------------------------------------------------------
(* The theorems *)

IInv == RestoreInv /\ TicketInv

RotationAction(t) == ListBalancers(t) \/ RotationStep(t)

LEMMA RotationKept ==
    ASSUME IInv, \/ \E t \in Rotations : RotationAction(t)
                 \/ \E i \in Instances : LockExpires(i)
    PROVE  IInv'
  <1>0. TypeOK /\ TicketInv
    BY DEF IInv, RestoreInv
  <1>1. TypeOK' /\ TicketInv' /\ UNCHANGED <<machines, restores>>
    <2>1. ASSUME NEW i \in Instances, LockExpires(i)
          PROVE  TypeOK' /\ TicketInv' /\ UNCHANGED <<machines, restores>>
      BY <1>0, <2>1, LockExpiresKept DEF LockExpires
    <2>2. ASSUME NEW t \in Rotations, RotationAction(t)
          PROVE  TypeOK' /\ TicketInv' /\ UNCHANGED <<machines, restores>>
      <3>1. CASE ListBalancers(t) \/ NextBalancer(t) \/ TakeLock(t) \/ Unlock(t)
        BY <1>0, <3>1, BetweenKept DEF ListBalancers, NextBalancer, TakeLock, Unlock
      <3>2. CASE AllAdded(t)
        BY <1>0, <3>2, AllAddedKept DEF AllAdded
      <3>3. CASE \E m \in Me(t).left : AddTicket(t, m) \/ AddTicketFails(t, m)
        <4>1. PICK m \in rotation[t].left : AddTicket(t, m) \/ AddTicketFails(t, m)
          BY <3>3 DEF Me
        <4>2. CASE AddTicket(t, m)
          BY <1>0, <4>2, AddTicketKept DEF AddTicket
        <4>3. CASE AddTicketFails(t, m)
          BY <1>0, <4>3, AddTicketFailsKept DEF AddTicketFails
        <4> QED BY <4>1, <4>2, <4>3
      <3> QED BY <2>2, <3>1, <3>2, <3>3 DEF RotationAction, RotationStep
    <2> QED BY <2>1, <2>2
  <1> QED BY <1>1 DEF IInv, RestoreInv, Fits, Documents, DocumentReleased, DownHeld, Brings,
                      machines, restores

LEMMA RestoreKept ==
    ASSUME IInv, \/ \E r \in Restores : RestoreAction(r)
                 \/ \E job \in jobs : LeftCallEnds(job)
    PROVE  IInv'
  <1>1. TicketInv'
    BY RestoreKeepsKeys DEF IInv, RestoreInv
  <1>2. ASSUME NEW r \in Restores, RestoreAction(r)
        PROVE  RestoreInv'
    <2>1. PICK x : Becomes(r, x)
      BY <1>2, RestoreMoves DEF IInv
    <2>2. (\A s \in Restores : Fits(restore[s])') /\ Documents' /\ DocumentReleased'
      BY <2>1, StepDocuments DEF IInv
    <2>3. TypeOK' /\ DownHeld'
      BY <1>2, RestoreTyped, StepDown DEF IInv
    <2> QED BY <2>2, <2>3 DEF RestoreInv
  <1>3. ASSUME NEW job \in jobs, LeftCallEnds(job)
        PROVE  RestoreInv'
    <2>1. TypeOK' /\ DownHeld'
      BY <1>3, LeftCallTyped, LeftCallDown DEF IInv, RestoreInv
    <2>2. UNCHANGED <<restore, task>>
      BY <1>3 DEF LeftCallEnds
    <2> QED BY <2>1, <2>2 DEF IInv, RestoreInv, Fits, Documents, DocumentReleased
  <1> QED BY <1>1, <1>2, <1>3 DEF IInv

(* The invariant that carries the properties: who has the document of an   *)
(* instance, whose hands a machine is down in, who holds the lock of the   *)
(* tickets and which machines it has been to.                              *)
THEOREM MachinesInvariant == Spec => []IInv
  <1>1. Init => IInv
    <2> SUFFICES ASSUME Init
                 PROVE  IInv
      OBVIOUS
    <2>1. restore \in [Restores -> RestoreType] /\ rotation \in [Rotations -> RotationType]
      BY DEF Init, RestoreType, RotationType
    <2>2. TypeOK
      BY <2>1, MachinesAssumption DEF Init, TypeOK
    <2>3. RestoreInv
      BY <2>2 DEF Init, RestoreInv, Fits, Documents, DocumentReleased, DownHeld, Held, Loop
    <2>4. TicketInv
      BY <2>1, MachinesAssumption
         DEF Init, TicketInv, Locks, Knows, Keys, Of, At, Timely, Section
    <2> QED BY <2>3, <2>4 DEF IInv
  <1>2. IInv /\ [Next]_vars => IInv'
    <2> SUFFICES ASSUME IInv, [Next]_vars
                 PROVE  IInv'
      OBVIOUS
    <2>1. CASE \/ \E r \in Restores : RestoreAction(r)
               \/ \E job \in jobs : LeftCallEnds(job)
      BY <2>1, RestoreKept
    <2>2. CASE \/ \E t \in Rotations : RotationAction(t)
               \/ \E i \in Instances : LockExpires(i)
      BY <2>2, RotationKept
    <2>3. CASE Meanwhile
      BY <2>3, MeanwhileKept, RestoreKeepsKeys DEF IInv, RestoreInv
    <2>4. CASE UNCHANGED vars
      BY <2>4 DEF IInv, RestoreInv, TypeOK, Fits, Documents, DocumentReleased, DownHeld, Brings,
                  TicketInv, Locks, Knows, Holder, Keys, Of, At, Timely,
                  vars, machines, tickets, restores, bounds
    <2> QED BY <2>1, <2>2, <2>3, <2>4 DEF Next, RestoreAction, RotationAction, Meanwhile
  <1> QED BY <1>1, <1>2, PTL DEF Spec

(* Every value is one the code gives it.                                   *)
THEOREM TypeCorrect == Spec => []TypeOK
  <1>1. IInv => TypeOK
    BY DEF IInv, RestoreInv
  <1> QED BY <1>1, MachinesInvariant, PTL

(* A restore has at most one machine of the instance down, and none when   *)
(* it has given up its document.                                           *)
THEOREM MachinesGoOneByOne == Spec => []OneMachineDown
  <1>1. IInv => OneMachineDown
    <2> SUFFICES ASSUME IInv, NEW i \in Instances \ aborted
                 PROVE  Cardinality({m \in down : Home[m] = i}) <= IF i \in task THEN 1 ELSE 0
      BY DEF OneMachineDown
    <2> DEFINE stopped == {m \in down : Home[m] = i}
    <2>1. \A m \in stopped : \E r \in Restores : Brings(r, m) /\ restore[r].on = i /\ i \in task
      BY DEF IInv, RestoreInv, DownHeld, Documents, Brings, Held, Loop
    <2>2. \A m, n \in stopped : m = n
      BY <2>1 DEF IInv, RestoreInv, Documents, Brings, Held, Loop
    <2> HIDE DEF stopped
    <2>3. CASE stopped = {}
      <3>1. Cardinality(stopped) = 0
        BY <2>3, FS_EmptySet
      <3> QED BY <3>1 DEF stopped
    <2>4. ASSUME NEW m \in stopped
          PROVE  Cardinality(stopped) <= IF i \in task THEN 1 ELSE 0
      <3>1. stopped = {m}
        BY <2>2
      <3>2. Cardinality(stopped) = 1
        BY <3>1, FS_Singleton
      <3> QED BY <2>1, <3>2
    <2> QED BY <2>3, <2>4 DEF stopped
  <1> QED BY <1>1, MachinesInvariant, PTL

(* The document of an instance is always in the hands of a restore that    *)
(* has still to give it up, or has found no plan.                          *)
THEOREM DocumentsReleased == Spec => []DocumentReleased
  <1>1. IInv => DocumentReleased
    BY DEF IInv, RestoreInv
  <1> QED BY <1>1, MachinesInvariant, PTL

(* The machines of an instance agree on the key of its last rotation.      *)
THEOREM TicketsAgree == Spec => []NewestTicket
  <1>1. IInv => NewestTicket
    <2> SUFFICES ASSUME IInv, NEW i \in Instances,
                        \A t \in Rotations :
                            rotation[t].on = i => rotation[t].pc \in {"list", "done"},
                        NEW m \in Of(i) \ stale
                 PROVE  ticket[m] = newest[i]
      BY DEF NewestTicket
    <2>1. \A t \in Rotations : ~At(t, i)
      BY DEF At
    <2> QED BY <2>1 DEF IInv, TicketInv, Keys, Timely
  <1> QED BY <1>1, MachinesInvariant, PTL
=============================================================================
