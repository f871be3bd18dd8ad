----------------------------- MODULE Acls_proofs -----------------------------
(***************************************************************************)
(* Proofs about Acls, for any number of machines, destinations, requests   *)
(* and tasks: the record of the rules implements AccessList, what it has   *)
(* the service permits, no rule is forgotten and every machine may reach   *)
(* every server, each as far as the comment of the property says.          *)
(***************************************************************************)
EXTENDS Acls, TLAPS

(* What a process knows whatever the others do: it has a pair from the     *)
(* time it asks for the lock, and a machine to look up.                    *)
Local(q) ==
    /\ proc[q].pc = "look" => proc[q].hosts # {}
    /\ proc[q].pc = "lock" \/ InSection(q) => proc[q].pair \in Pairs

(* What the lock gives it: no one changes the record it has read, nor the  *)
(* rules it has asked for.                                                 *)
Guarded(q) ==
    InSection(q) =>
        /\ lock = q
        /\ proc[q].pc \in {"find", "store"} => proc[q].pair \in rules
        /\ proc[q].pc = "store" => proc[q].seen = record[proc[q].pair[1]]

SectionOK == \A q \in Procs : Local(q) /\ (~expired => Guarded(q))

TypedSection == TypeOK /\ SectionOK

-----------------------------------------------------------------------------
(* One process moves and keeps its type. *)
Moves(p) ==
    /\ proc' = [proc EXCEPT ![p] = proc'[p]]
    /\ proc'[p] \in ProcType
    /\ Local(p)'

LEMMA Becomes ==
    ASSUME TypeOK, NEW p \in Procs, NEW r \in ProcType, proc' = [proc EXCEPT ![p] = r],
           r.pc = "look" => r.hosts # {},
           r.pc \in {"lock", "put", "find", "store", "delete", "erase"} => r.pair \in Pairs
    PROVE  Moves(p) /\ proc'[p] = r
  <1>1. proc'[p] = r
    BY DEF TypeOK
  <1>2. proc' = [proc EXCEPT ![p] = proc'[p]]
    BY <1>1
  <1>3. Local(p)'
    BY <1>1 DEF Local, InSection
  <1> QED BY <1>1, <1>2, <1>3 DEF Moves

LEMMA EndMoves ==
    ASSUME TypeOK, NEW p \in Procs, End(p)
    PROVE  Moves(p) /\ proc'[p].pc = "idle"
  BY DEF TypeOK, End, IdleProc, ProcType, Moves, Local, InSection

(* A process that goes to another place and keeps its pair. *)
LEMMA GotoMoves ==
    ASSUME TypeOK, NEW p \in Procs, NEW pc, Goto(p, pc), proc[p].pair \in Pairs,
           pc \in {"put", "find", "delete", "erase"}
    PROVE  Moves(p) /\ proc'[p] = [proc[p] EXCEPT !.pc = pc]
  BY DEF TypeOK, Goto, ProcType, Moves, Local, InSection

(* A process that comes to the end of its section. *)
LEMMA LeaveMoves ==
    ASSUME TypeOK, NEW p \in Procs, NEW failed \in BOOLEAN, Leave(p, failed)
    PROVE  Moves(p)
  <1> DEFINE r == [proc[p] EXCEPT !.pc = "unlock", !.seen = {}, !.failed = failed]
  <1>1. proc' = [proc EXCEPT ![p] = r]
    BY DEF TypeOK, ProcType, Leave
  <1>2. r \in ProcType /\ r.pc = "unlock"
    BY DEF TypeOK, ProcType
  <1> HIDE DEF r
  <1> QED BY <1>1, <1>2, Becomes

(* A process that goes on after the section, if only to end. *)
LEMMA GoOnMoves ==
    ASSUME TypeOK, NEW p \in Procs, GoOn(p) \/ Abort(p)
    PROVE  Moves(p)
  <1>1. CASE End(p)
    BY <1>1, EndMoves
  <1>2. CASE Set(p, "pick", "pair", <<>>)
    <2> DEFINE r == [proc[p] EXCEPT !.pc = "pick", !.pair = <<>>]
    <2>1. proc' = [proc EXCEPT ![p] = r]
      BY <1>2 DEF TypeOK, ProcType, Set
    <2>2. r \in ProcType /\ r.pc = "pick"
      BY DEF TypeOK, ProcType
    <2> HIDE DEF r
    <2> QED BY <2>1, <2>2, Becomes
  <1> QED BY <1>1, <1>2 DEF GoOn, Abort

LEMMA BeginMoves ==
    ASSUME TypeOK, NEW p \in Procs, NEW op, NEW pc, NEW hosts, NEW adds,
           Begin(p, op, pc, hosts, adds),
           op \in {"add_upstream", "add_host", "delete_host"}, pc \in {"pick", "copy", "look"},
           hosts \in SUBSET Hosts, adds \in SUBSET Destinations, pc = "look" => hosts # {}
    PROVE  Moves(p) /\ proc'[p].pc = pc
  <1> DEFINE r == [IdleProc EXCEPT !.pc = pc, !.op = op, !.hosts = hosts, !.adds = adds,
                                   !.pairs = hosts \X adds]
  <1>1. IdleProc \in ProcType
    BY DEF IdleProc, ProcType
  <1>2. r \in ProcType
    <2>1. hosts \X adds \in SUBSET Pairs
      BY DEF Pairs
    <2> QED BY <1>1, <2>1 DEF ProcType
  <1>3. proc' = [proc EXCEPT ![p] = r]
    BY DEF Begin
  <1>4. r.pc = pc /\ r.hosts = hosts
    BY <1>1 DEF ProcType
  <1> HIDE DEF r
  <1> QED BY <1>2, <1>3, <1>4, Becomes

(* What a stray deletion of the entry leaves alone, and a stuttering step. *)
Rests == UNCHANGED <<stores, lock, proc, ops, faults, history>>

LEMMA StrayRests ==
    ASSUME StrayDrop \/ UNCHANGED vars
    PROVE  Rests /\ (TypeOK => tokens' \subseteq Procs)
  BY DEF StrayDrop, vars, Rests, TypeOK

(* The steps of a process, and the types they keep. *)
ProcStep(p) ==
    \/ \E adds \in (SUBSET Destinations) \ {{}} : AddUpstream(p, adds)
    \/ \E h \in Hosts : AddHost(p, h) \/ DeleteHost(p, h)
    \/ CopyRules(p) \/ LookUp(p) \/ PickPair(p) \/ Finish(p) \/ RuleStep(p)
    \/ CallFails(p) \/ Killed(p)

LEMMA StepMoves ==
    ASSUME TypedSection, NEW p \in Procs, ProcStep(p)
    PROVE  Moves(p)
  <1>0. TypeOK /\ Local(p)
    BY DEF TypedSection, SectionOK
  <1>1. CASE \E adds \in (SUBSET Destinations) \ {{}} : AddUpstream(p, adds)
    <2>1. PICK adds \in (SUBSET Destinations) \ {{}} : AddUpstream(p, adds)
      BY <1>1
    <2>2. Begin(p, "add_upstream", "pick", attached, adds) /\ attached \in SUBSET Hosts
      BY <1>0, <2>1 DEF AddUpstream, TypeOK
    <2> QED BY ONLY <1>0, <2>1, <2>2, BeginMoves
  <1>2. CASE \E h \in Hosts : AddHost(p, h) \/ DeleteHost(p, h)
    <2>1. PICK h \in Hosts : AddHost(p, h) \/ DeleteHost(p, h)
      BY <1>2
    <2>2. CASE AddHost(p, h)
      <3>1. Begin(p, "add_host", "copy", {h}, {})
        BY <2>2 DEF AddHost
      <3> QED BY <1>0, <3>1, BeginMoves
    <2>3. CASE DeleteHost(p, h)
      <3>1. Begin(p, "delete_host", "look", {h}, {})
        BY <2>3 DEF DeleteHost
      <3> QED BY <1>0, <3>1, BeginMoves
    <2> QED BY <2>1, <2>2, <2>3
  <1>3. CASE CopyRules(p)
    <2>1. CASE End(p)
      BY <1>0, <2>1, EndMoves
    <2>2. ASSUME NEW source \in Hosts, Set(p, "pick", "pairs", proc[p].hosts \X record[source])
          PROVE  Moves(p)
      <3>1. proc[p].hosts \X record[source] \in SUBSET Pairs
        BY <1>0 DEF TypeOK, ProcType, Pairs
      <3> DEFINE r == [proc[p] EXCEPT !.pc = "pick", !.pairs = proc[p].hosts \X record[source]]
      <3>2. proc' = [proc EXCEPT ![p] = r]
        BY <1>0, <2>2 DEF TypeOK, ProcType, Set
      <3>3. r \in ProcType /\ r.pc = "pick"
        BY <1>0, <3>1 DEF TypeOK, ProcType
      <3> HIDE DEF r
      <3> QED BY <1>0, <3>2, <3>3, Becomes
    <2> QED BY <1>3, <2>1, <2>2 DEF CopyRules
  <1>4. CASE LookUp(p)
    <2> DEFINE h == CHOOSE x \in proc[p].hosts : TRUE
    <2>1. CASE End(p)
      BY <1>0, <2>1, EndMoves
    <2>2. CASE Set(p, "pick", "pairs", {h} \X record[h])
      <3>0. h \in Hosts
        <4>1. proc[p].hosts # {}
          BY <1>0, <1>4 DEF Local, LookUp
        <4>2. h \in proc[p].hosts
          BY <4>1
        <4> QED BY <1>0, <4>2 DEF TypeOK, ProcType
      <3> HIDE DEF h
      <3>1. {h} \X record[h] \in SUBSET Pairs
        BY <1>0, <3>0 DEF TypeOK, ProcType, Pairs
      <3> DEFINE r == [proc[p] EXCEPT !.pc = "pick", !.pairs = {h} \X record[h]]
      <3>2. proc' = [proc EXCEPT ![p] = r]
        BY <1>0, <2>2 DEF TypeOK, ProcType, Set
      <3>3. r \in ProcType /\ r.pc = "pick"
        BY <1>0, <3>1 DEF TypeOK, ProcType
      <3> HIDE DEF r
      <3> QED BY <1>0, <3>2, <3>3, Becomes
    <2> QED BY <1>4, <2>1, <2>2 DEF LookUp
  <1>5. CASE PickPair(p)
    <2>1. PICK pair \in proc[p].pairs :
              LET rest == [proc[p] EXCEPT !.pairs = @ \ {pair}]
              IN  proc' = [proc EXCEPT ![p] = IF NothingToDo(p, pair) THEN rest
                                              ELSE [rest EXCEPT !.pc = "lock", !.pair = pair]]
      BY <1>5 DEF PickPair
    <2>2. pair \in Pairs
      BY <1>0 DEF TypeOK, ProcType
    <2> DEFINE rest == [proc[p] EXCEPT !.pairs = @ \ {pair}]
    <2>3. rest \in ProcType /\ rest.pc = "pick"
      BY <1>0, <1>5 DEF TypeOK, ProcType, PickPair
    <2>4. [rest EXCEPT !.pc = "lock", !.pair = pair] \in ProcType
      BY <2>2, <2>3 DEF ProcType
    <2>5. proc'[p] \in {rest, [rest EXCEPT !.pc = "lock", !.pair = pair]}
      BY <1>0, <2>1 DEF TypeOK
    <2>6. proc' = [proc EXCEPT ![p] = proc'[p]]
      BY <1>0, <2>1 DEF TypeOK
    <2> HIDE DEF rest
    <2>7. Local(p)'
      <3>1. CASE proc'[p] = rest
        BY <2>3, <3>1 DEF Local, InSection
      <3>2. CASE proc'[p] = [rest EXCEPT !.pc = "lock", !.pair = pair]
        BY <2>2, <2>3, <3>2 DEF Local, InSection, ProcType
      <3> QED BY <2>5, <3>1, <3>2
    <2> QED BY <2>3, <2>4, <2>5, <2>6, <2>7 DEF Moves
  <1>6. CASE Finish(p)
    BY <1>0, <1>6, EndMoves DEF Finish
  <1>7. CASE RuleStep(p)
    <2>1. CASE TakeLock(p)
      <3>1. proc[p].pair \in Pairs
        BY <1>0, <2>1 DEF Local, TakeLock
      <3>2. End(p) \/ Goto(p, "put") \/ Goto(p, "delete")
        BY <2>1 DEF TakeLock, Abort
      <3> QED BY ONLY <1>0, <3>1, <3>2, EndMoves, GotoMoves, p \in Procs
    <2>2. CASE PutRule(p) \/ DeleteRule(p)
      <3>1. proc[p].pair \in Pairs
        BY <1>0, <2>2 DEF Local, InSection, PutRule, DeleteRule
      <3>2. Goto(p, "find") \/ Goto(p, "erase")
        BY <2>2 DEF PutRule, DeleteRule
      <3> QED BY ONLY <1>0, <3>1, <3>2, GotoMoves, p \in Procs
    <2>5. CASE StoreRecord(p) \/ EraseRecord(p)
      BY <1>0, <2>5, LeaveMoves DEF StoreRecord, EraseRecord
    <2>3. CASE FindRecord(p)
      <3>1. proc[p].pair \in Pairs
        BY <1>0, <2>3 DEF Local, InSection, FindRecord
      <3>2. record[proc[p].pair[1]] \in SUBSET Destinations
        BY <1>0, <3>1 DEF TypeOK, Pairs
      <3> DEFINE r == [proc[p] EXCEPT !.pc = "store", !.seen = record[proc[p].pair[1]]]
      <3>3. proc' = [proc EXCEPT ![p] = r]
        BY <1>0, <2>3 DEF TypeOK, ProcType, FindRecord, Set
      <3>4. r \in ProcType /\ r.pair = proc[p].pair /\ r.pc = "store"
        BY <1>0, <3>2 DEF TypeOK, ProcType
      <3> HIDE DEF r
      <3> QED BY <1>0, <3>1, <3>3, <3>4, Becomes
    <2>4. CASE Unlock(p) \/ DropEntry(p)
      <3>1. CASE GoOn(p) \/ Abort(p)
        BY <1>0, <3>1, GoOnMoves
      <3>2. CASE Goto(p, "drop")
        <4> DEFINE r == [proc[p] EXCEPT !.pc = "drop"]
        <4>1. proc' = [proc EXCEPT ![p] = r]
          BY <1>0, <3>2 DEF TypeOK, ProcType, Goto
        <4>2. r \in ProcType /\ r.pc = "drop"
          BY <1>0 DEF TypeOK, ProcType
        <4> HIDE DEF r
        <4> QED BY <1>0, <4>1, <4>2, Becomes
      <3> QED BY <2>4, <3>1, <3>2 DEF Unlock, DropEntry
    <2> QED BY <1>7, <2>1, <2>2, <2>3, <2>4, <2>5 DEF RuleStep
  <1>8. CASE CallFails(p)
    BY <1>0, <1>8, LeaveMoves DEF CallFails
  <1>9. CASE Killed(p)
    BY <1>0, <1>9, EndMoves DEF Killed, Abort
  <1> QED BY <1>1, <1>2, <1>3, <1>4, <1>5, <1>6, <1>7, <1>8, <1>9 DEF ProcStep
-----------------------------------------------------------------------------
(* Types *)

(* The types are kept: by the process, and by each variable. *)
LEMMA MovesTyped ==
    ASSUME TypeOK, NEW p \in Procs, Moves(p)
    PROVE  /\ proc' \in [Procs -> ProcType]
           /\ \A q \in Procs \ {p} : proc'[q] = proc[q]
  BY DEF TypeOK, Moves

LEMMA BeginTyped ==
    ASSUME TypeOK, NEW p \in Procs, NEW op, NEW pc, NEW hosts, NEW adds,
           Begin(p, op, pc, hosts, adds)
    PROVE  /\ ops' \in Nat /\ faults' \in Nat /\ lock' = lock /\ tokens' = tokens
           /\ {crossed', disturbed', expired'} \subseteq BOOLEAN
           /\ expired' = expired /\ halved' = halved
  <1>1. crossed' \in BOOLEAN /\ disturbed' \in BOOLEAN
    BY DEF Begin
  <1>2. /\ ops' \in Nat /\ faults' \in Nat /\ lock' = lock /\ tokens' = tokens
        /\ expired' = expired /\ halved' = halved
    BY DEF Begin, TypeOK
  <1>3. expired \in BOOLEAN
    BY DEF TypeOK
  <1> QED BY <1>1, <1>2, <1>3

LEMMA StepTyped ==
    ASSUME TypedSection, NEW p \in Procs, ProcStep(p)
    PROVE  TypeOK'
  <1>0. TypeOK /\ Local(p) /\ proc' \in [Procs -> ProcType]
    BY StepMoves, MovesTyped DEF TypedSection, SectionOK
  <1>1. CASE \E adds \in (SUBSET Destinations) \ {{}} : AddUpstream(p, adds)
    <2>1. PICK adds \in (SUBSET Destinations) \ {{}} : AddUpstream(p, adds)
      BY <1>1
    <2>2. Begin(p, "add_upstream", "pick", attached, adds)
      BY <2>1 DEF AddUpstream
    <2>3. UNCHANGED <<stores, emptied>>
      BY <2>1 DEF AddUpstream
    <2> QED BY <1>0, <2>2, <2>3, BeginTyped DEF TypeOK, stores
  <1>2. CASE \E h \in Hosts : AddHost(p, h) \/ DeleteHost(p, h)
    <2>1. PICK h \in Hosts : AddHost(p, h) \/ DeleteHost(p, h)
      BY <1>2
    <2>2. CASE AddHost(p, h)
      <3>1. Begin(p, "add_host", "copy", {h}, {})
        BY <2>2 DEF AddHost
      <3>2. /\ attached' = attached \cup {h} /\ used' = used \cup {h}
            /\ UNCHANGED <<servers, rules, record, emptied>>
        BY <2>2 DEF AddHost
      <3> QED BY <1>0, <3>1, <3>2, BeginTyped DEF TypeOK
    <2>3. CASE DeleteHost(p, h)
      <3>1. Begin(p, "delete_host", "look", {h}, {})
        BY <2>3 DEF DeleteHost
      <3>2. attached' = attached \ {h} /\ UNCHANGED <<used, servers, rules, record>>
        BY <2>3 DEF DeleteHost
      <3>3. emptied' \in BOOLEAN
        BY <2>3 DEF DeleteHost
      <3> QED BY <1>0, <3>1, <3>2, <3>3, BeginTyped DEF TypeOK
    <2> QED BY <2>1, <2>2, <2>3
  <1>3. CASE CopyRules(p)
    BY <1>0, <1>3 DEF CopyRules, TypeOK, stores, history
  <1>4. CASE LookUp(p)
    BY <1>0, <1>4 DEF LookUp, TypeOK, stores, history
  <1>5. CASE PickPair(p)
    BY <1>0, <1>5 DEF PickPair, TypeOK, stores, history
  <1>6. CASE Finish(p)
    <2>1. proc[p].adds \subseteq Destinations
      BY <1>0 DEF TypeOK, ProcType
    <2> QED BY <1>0, <1>6, <2>1 DEF Finish, TypeOK, history
  <1>7. CASE RuleStep(p)
    <2>0. disturbed' \in BOOLEAN
          /\ UNCHANGED <<attached, used, servers, ops, faults, crossed, halved, emptied, expired>>
      <3>1. disturbed \in BOOLEAN
        BY <1>0 DEF TypeOK
      <3>2. disturbed' = disturbed \/ disturbed' \in BOOLEAN
        BY <1>7 DEF RuleStep, TakeLock, PutRule, FindRecord, StoreRecord, DeleteRule,
                    EraseRecord, Unlock, DropEntry, GoOn, Abort, stores, history
      <3>3. UNCHANGED <<attached, used, servers, ops, faults, crossed, halved, emptied, expired>>
        BY <1>7 DEF RuleStep, TakeLock, PutRule, FindRecord, StoreRecord, DeleteRule,
                    EraseRecord, Unlock, DropEntry, stores, history
      <3> QED BY <1>0, <3>1, <3>2, <3>3 DEF TypeOK
    <2>1. lock' \in Procs \cup {None, Gone} /\ tokens' \subseteq Procs
      BY <1>0, <1>7 DEF RuleStep, TakeLock, PutRule, FindRecord, StoreRecord, DeleteRule,
                        EraseRecord, Unlock, DropEntry, LeftLock, TypeOK
    <2>2. rules' \subseteq Pairs
      <3>1. CASE PutRule(p)
        <4>1. proc[p].pair \in Pairs
          BY <1>0, <3>1 DEF Local, InSection, PutRule
        <4> QED BY <1>0, <3>1, <4>1 DEF PutRule, TypeOK
      <3>2. CASE ~PutRule(p)
        <4>1. rules' \subseteq rules
          BY <1>7, <3>2 DEF RuleStep, TakeLock, FindRecord, StoreRecord, DeleteRule,
                            EraseRecord, Unlock, DropEntry, stores
        <4> QED BY <1>0, <4>1 DEF TypeOK
      <3> QED BY <3>1, <3>2
    <2>3. record' \in [Hosts -> SUBSET Destinations]
      <3>1. CASE StoreRecord(p)
        <4>1. proc[p].pair \in Pairs /\ proc[p].seen \in SUBSET Destinations
          BY <1>0, <3>1 DEF Local, InSection, StoreRecord, TypeOK, ProcType
        <4>2. Stored(proc[p].seen, proc[p].pair[2]) \in SUBSET Destinations
          BY <4>1 DEF Stored, Pairs
        <4> QED BY <1>0, <3>1, <4>2 DEF StoreRecord, TypeOK
      <3>2. CASE EraseRecord(p)
        BY <1>0, <3>2 DEF EraseRecord, TypeOK
      <3>3. CASE ~StoreRecord(p) /\ ~EraseRecord(p)
        <4>1. record' = record
          BY <1>7, <3>3 DEF RuleStep, TakeLock, PutRule, FindRecord, DeleteRule, Unlock,
                            DropEntry, stores
        <4> QED BY <1>0, <4>1 DEF TypeOK
      <3> QED BY <3>1, <3>2, <3>3
    <2> QED BY <1>0, <2>0, <2>1, <2>2, <2>3 DEF TypeOK
  <1>8. CASE CallFails(p)
    <2>1. proc[p].pair \in Pairs
      BY <1>0, <1>8 DEF Local, CallFails
    <2>2. rules' \subseteq Pairs
      BY <1>0, <1>8, <2>1 DEF CallFails, TypeOK
    <2>3. halved' \subseteq Hosts
      BY <1>0, <1>8, <2>1 DEF CallFails, TypeOK, Pairs
    <2>4. faults' \in Nat
      BY <1>0, <1>8 DEF CallFails, TypeOK
    <2> QED BY <1>0, <1>8, <2>2, <2>3, <2>4 DEF CallFails, TypeOK
  <1>9. CASE Killed(p)
    <2>1. halved' \subseteq Hosts
      <3>1. proc[p].pc = "erase" => proc[p].pair \in Pairs
        BY <1>0 DEF Local, InSection
      <3> QED BY <1>0, <1>9, <3>1 DEF Killed, TypeOK, Pairs
    <2>2. disturbed' \in BOOLEAN
      BY <1>9 DEF Killed, Abort
    <2>3. faults' \in Nat /\ lock' \in Procs \cup {None, Gone} /\ tokens' \subseteq Procs
      BY <1>0, <1>9 DEF Killed, LeftLock, TypeOK
    <2> QED BY <1>0, <1>9, <2>1, <2>2, <2>3 DEF Killed, TypeOK, stores
  <1> QED BY <1>1, <1>2, <1>3, <1>4, <1>5, <1>6, <1>7, <1>8, <1>9 DEF ProcStep

LEMMA ExpiryTyped ==
    ASSUME TypeOK, LockExpires
    PROVE  TypeOK'
  <1>1. UNCHANGED <<stores, tokens, proc, ops, crossed, disturbed, halved, emptied>> /\ lock' = None
    BY DEF LockExpires
  <1>2. faults' \in Nat
    BY DEF LockExpires, TypeOK
  <1>3. expired' = expired \/ expired' = TRUE
    BY DEF LockExpires
  <1>4. expired' \in BOOLEAN
    BY <1>3 DEF TypeOK
  <1> QED BY <1>1, <1>2, <1>4 DEF TypeOK, stores
-----------------------------------------------------------------------------
(* The lock *)

(* A step of p that does not hold the lock leaves alone what the lock      *)
(* guards, and the lock itself when another process has it.                *)
LEMMA OutsideSteps ==
    ASSUME TypedSection, ~expired, NEW p \in Procs, lock # p, ProcStep(p)
    PROVE  /\ UNCHANGED <<rules, record, expired>>
           /\ lock # None => lock' = lock
           /\ proc[p].pc # "erase"
           /\ ~InSection(p)
           /\ halved' = halved
  <1>0. ~InSection(p)
    BY DEF TypedSection, SectionOK, Guarded
  <1>1. ~CallFails(p) /\ ~PutRule(p) /\ ~FindRecord(p) /\ ~StoreRecord(p) /\ ~DeleteRule(p)
        /\ ~EraseRecord(p) /\ proc[p].pc # "erase"
    BY <1>0 DEF InSection, CallFails, PutRule, FindRecord, StoreRecord, DeleteRule, EraseRecord
  <1>2. UNCHANGED <<rules, record, expired, halved>>
    BY <1>1 DEF ProcStep, AddUpstream, AddHost, DeleteHost, Begin, CopyRules, LookUp, PickPair,
                Finish, RuleStep, TakeLock, Unlock, DropEntry, Killed, stores, history
  <1>3. lock # None => lock' = lock
    BY <1>1 DEF ProcStep, AddUpstream, AddHost, DeleteHost, Begin, CopyRules, LookUp, PickPair,
                Finish, RuleStep, TakeLock, LockFree, Unlock, DropEntry, LeftLock, Killed
  <1> QED BY <1>0, <1>1, <1>2, <1>3

(* A step of the holder enters its section with the lock, and takes what   *)
(* it must know in it.                                                     *)
LEMMA HolderGuarded ==
    ASSUME TypedSection, ~expired, NEW p \in Procs, ProcStep(p)
    PROVE  Guarded(p)'
  <1>0. TypeOK /\ Local(p) /\ Guarded(p)
    BY DEF TypedSection, SectionOK
  <1>1. CASE \/ \E adds \in (SUBSET Destinations) \ {{}} : AddUpstream(p, adds)
             \/ \E h \in Hosts : AddHost(p, h) \/ DeleteHost(p, h)
    <2>1. PICK op, pc, hosts, adds : Begin(p, op, pc, hosts, adds) /\ pc \in {"pick", "copy", "look"}
      BY <1>1 DEF AddUpstream, AddHost, DeleteHost
    <2>2. proc'[p].pc = pc
      BY <1>0, <2>1 DEF Begin, TypeOK, IdleProc
    <2> QED BY <2>1, <2>2 DEF Guarded, InSection
  <1>2. CASE \/ CopyRules(p) \/ LookUp(p) \/ PickPair(p) \/ Finish(p) \/ Killed(p)
             \/ Unlock(p) \/ DropEntry(p)
    <2>1. CASE End(p)
      BY <1>0, <2>1, EndMoves DEF Guarded, InSection
    <2>2. CASE PickPair(p)
      <3>1. proc'[p].pc \in {"pick", "lock"}
        BY <1>0, <2>2 DEF PickPair, TypeOK, ProcType
      <3> QED BY <3>1 DEF Guarded, InSection
    <2>3. ASSUME NEW value, Set(p, "pick", "pairs", value) \/ Set(p, "pick", "pair", value)
          PROVE  Guarded(p)'
      <3>1. proc'[p].pc = "pick"
        BY <1>0, <2>3 DEF Set, TypeOK, ProcType
      <3> QED BY <3>1 DEF Guarded, InSection
    <2>4. CASE Goto(p, "drop")
      <3>1. proc'[p].pc = "drop"
        BY <1>0, <2>4 DEF Goto, TypeOK, ProcType
      <3> QED BY <3>1 DEF Guarded, InSection
    <2> QED BY <1>2, <2>1, <2>2, <2>3, <2>4
            DEF CopyRules, LookUp, Finish, Killed, Unlock, DropEntry, GoOn, Abort
  <1>3. CASE CallFails(p) \/ StoreRecord(p) \/ EraseRecord(p)
    <2>1. proc'[p].pc = "unlock"
      BY <1>0, <1>3 DEF CallFails, StoreRecord, EraseRecord, Leave, TypeOK, ProcType
    <2> QED BY <2>1 DEF Guarded, InSection
  <1>4. CASE TakeLock(p)
    <2>1. CASE End(p)
      BY <1>0, <2>1, EndMoves DEF Guarded, InSection
    <2>2. CASE lock' = p /\ (Goto(p, "delete") \/ Goto(p, "put"))
      <3>1. proc'[p].pc \in {"delete", "put"}
        BY <1>0, <2>2 DEF Goto, TypeOK, ProcType
      <3> QED BY <2>2, <3>1 DEF Guarded
    <2> QED BY <1>4, <2>1, <2>2 DEF TakeLock, Abort
  <1>5. CASE PutRule(p)
    <2>1. Goto(p, "find") /\ lock' = lock /\ rules' = rules \cup {proc[p].pair} /\ InSection(p)
      BY <1>5 DEF PutRule, InSection
    <2>2. proc'[p].pc = "find" /\ proc'[p].pair = proc[p].pair
      BY <1>0, <2>1 DEF Goto, TypeOK, ProcType
    <2> QED BY <1>0, <2>1, <2>2 DEF Guarded
  <1>6. CASE FindRecord(p)
    <2>1. /\ Set(p, "store", "seen", record[proc[p].pair[1]]) /\ proc[p].pc = "find"
          /\ lock' = lock /\ rules' = rules /\ record' = record /\ InSection(p)
      BY <1>6 DEF FindRecord, InSection, stores
    <2>2. /\ proc'[p].pc = "store" /\ proc'[p].pair = proc[p].pair
          /\ proc'[p].seen = record[proc[p].pair[1]]
      BY <1>0, <2>1 DEF Set, TypeOK, ProcType
    <2> QED BY <1>0, <2>1, <2>2 DEF Guarded
  <1>7. CASE DeleteRule(p)
    <2>1. Goto(p, "erase") /\ lock' = lock /\ InSection(p)
      BY <1>7 DEF DeleteRule, InSection
    <2>2. proc'[p].pc = "erase"
      BY <1>0, <2>1 DEF Goto, TypeOK, ProcType
    <2> QED BY <1>0, <2>1, <2>2 DEF Guarded
  <1> QED BY <1>1, <1>2, <1>3, <1>4, <1>5, <1>6, <1>7 DEF ProcStep, RuleStep

LEMMA ExpiredStays ==
    ASSUME NEW p \in Procs, ProcStep(p)
    PROVE  expired' = expired
  BY DEF ProcStep, AddUpstream, AddHost, DeleteHost, Begin, CopyRules, LookUp, PickPair, Finish,
         RuleStep, TakeLock, PutRule, FindRecord, StoreRecord, DeleteRule, EraseRecord, Unlock,
         DropEntry,
         CallFails, Killed, stores, history

LEMMA StepSection ==
    ASSUME TypedSection, NEW p \in Procs, ProcStep(p)
    PROVE  SectionOK'
  <1>0. TypeOK /\ Moves(p)
    BY StepMoves DEF TypedSection
  <1> SUFFICES ASSUME NEW q \in Procs
               PROVE  Local(q)' /\ (~expired' => Guarded(q)')
    BY DEF SectionOK
  <1>1. CASE q = p
    <2>1. Local(q)'
      BY <1>0, <1>1 DEF Moves
    <2>2. ~expired' => Guarded(q)'
      BY <1>1, ExpiredStays, HolderGuarded
    <2> QED BY <2>1, <2>2
  <1>2. CASE q # p
    <2>1. proc'[q] = proc[q] /\ Local(q) /\ (~expired => Guarded(q))
      BY <1>0, <1>2, MovesTyped DEF TypedSection, SectionOK
    <2>2. Local(q)'
      BY <2>1 DEF Local, InSection
    <2>3. ASSUME ~expired', InSection(q)'
          PROVE  Guarded(q)'
      <3>1. ~expired /\ InSection(q) /\ lock = q
        BY <2>1, <2>3, ExpiredStays DEF InSection, Guarded
      <3>2. lock # p /\ lock # None
        BY <1>2, <3>1, AclAssumption
      <3>3. rules' = rules /\ record' = record /\ lock' = lock
        BY <3>1, <3>2, OutsideSteps
      <3> QED BY <2>1, <3>1, <3>3 DEF Guarded, InSection
    <2> QED BY <2>2, <2>3 DEF Guarded
  <1> QED BY <1>1, <1>2

LEMMA ExpirySection ==
    ASSUME TypedSection, LockExpires
    PROVE  SectionOK'
  <1>1. UNCHANGED <<rules, record, proc>> /\ (expired' = TRUE \/ (lock = Gone /\ expired' = expired))
    BY DEF LockExpires, stores
  <1> SUFFICES ASSUME NEW q \in Procs
               PROVE  Local(q)' /\ (~expired' => Guarded(q)')
    BY DEF SectionOK
  <1>2. Local(q) /\ (~expired => Guarded(q))
    BY DEF TypedSection, SectionOK
  <1>3. Local(q)'
    BY <1>1, <1>2 DEF Local, InSection
  <1>4. ASSUME ~expired'
        PROVE  Guarded(q)'
    <2>1. lock = Gone /\ ~expired /\ q # Gone
      BY <1>1, <1>4, AclAssumption
    <2>2. ~InSection(q)
      BY <1>2, <2>1 DEF Guarded
    <2> QED BY <1>1, <2>2 DEF Guarded, InSection
  <1> QED BY <1>3, <1>4

(* Between the lock and its release a process knows what no one else       *)
(* changes, until the lock expires: the strengthening of the invariants.   *)
THEOREM TypedSectionInvariant == Spec => []TypedSection
  <1>1. Init => TypedSection
    <2>1. ASSUME Init
          PROVE  TypeOK
      <3>1. IdleProc \in ProcType
        BY DEF IdleProc, ProcType
      <3>2. proc \in [Procs -> ProcType]
        BY <2>1, <3>1 DEF Init
      <3> QED BY <2>1, <3>2, AclAssumption DEF Init, TypeOK
    <2>2. Init => SectionOK
      BY DEF Init, SectionOK, Local, Guarded, InSection, IdleProc
    <2> QED BY <2>1, <2>2 DEF TypedSection
  <1>2. TypedSection /\ [Next]_vars => TypedSection'
    <2> SUFFICES ASSUME TypedSection, [Next]_vars
                 PROVE  TypedSection'
      OBVIOUS
    <2>1. ASSUME NEW p \in Procs, ProcStep(p)
          PROVE  TypedSection'
      BY <2>1, StepTyped, StepSection DEF TypedSection
    <2>2. CASE LockExpires
      BY <2>2, ExpiryTyped, ExpirySection DEF TypedSection
    <2>3. CASE StrayDrop \/ UNCHANGED vars
      BY <2>3, StrayRests
         DEF TypedSection, TypeOK, SectionOK, Local, Guarded, InSection, Rests, stores, history
    <2> QED BY <2>1, <2>2, <2>3 DEF Next, ProcStep
  <1> QED BY <1>1, <1>2, PTL DEF Spec

(* Every value is one the code gives it, whatever overlaps and fails.      *)
THEOREM TypeCorrect == Spec => []TypeOK
  <1>1. TypedSection => TypeOK
    BY DEF TypedSection
  <1> QED BY <1>1, TypedSectionInvariant, PTL
-----------------------------------------------------------------------------
(* The record *)

(* The two steps that write the record are steps of AccessList. *)
LEMMA RecordSteps ==
    ASSUME TypedSection, ~expired, NEW p \in Procs, ProcStep(p)
    PROVE  \/ record' = record
           \/ EraseRecord(p)
           \/ /\ StoreRecord(p) /\ proc[p].pair \in rules
              /\ record' = [record EXCEPT ![proc[p].pair[1]] = @ \cup {proc[p].pair[2]}]
  <1>0. TypeOK /\ Local(p) /\ Guarded(p)
    BY DEF TypedSection, SectionOK
  <1>1. CASE StoreRecord(p)
    <2>1. proc[p].pair \in rules /\ proc[p].seen = record[proc[p].pair[1]]
      BY <1>0, <1>1 DEF StoreRecord, Guarded, InSection
    <2>2. record' = [record EXCEPT ![proc[p].pair[1]] =
                         record[proc[p].pair[1]] \cup {proc[p].pair[2]}]
      BY <1>1, <2>1 DEF StoreRecord, Stored
    <2> QED BY <1>1, <2>1, <2>2
  <1>2. CASE ~StoreRecord(p) /\ ~EraseRecord(p)
    BY <1>2 DEF ProcStep, AddUpstream, AddHost, DeleteHost, CopyRules, LookUp, PickPair, Finish,
                RuleStep, TakeLock, PutRule, FindRecord, DeleteRule, Unlock, DropEntry,
                CallFails, Killed,
                stores
  <1> QED BY <1>1, <1>2

(* No update of the record is lost: each is the one the request or the     *)
(* task meant, on what is there when it is made.                           *)
THEOREM NoUpdateLost == Spec => KeepsAccessList
  <1>1. TypedSection /\ [Next]_vars => [~expired' => List!ListNext \/ UNCHANGED record]_record
    <2> SUFFICES ASSUME TypedSection, [Next]_vars, ~expired'
                 PROVE  List!ListNext \/ UNCHANGED record
      OBVIOUS
    <2>1. ASSUME NEW p \in Procs, ProcStep(p)
          PROVE  List!ListNext \/ UNCHANGED record
      <3>0. TypeOK /\ Local(p) /\ ~expired
        BY <2>1, ExpiredStays DEF TypedSection, SectionOK
      <3>1. CASE EraseRecord(p)
        <4>1. proc[p].pair[1] \in Hosts
          BY <3>0, <3>1 DEF EraseRecord, Local, InSection, Pairs
        <4> QED BY <3>1, <4>1 DEF EraseRecord, List!ListNext, List!Revoke
      <3>2. CASE /\ StoreRecord(p)
                 /\ record' = [record EXCEPT ![proc[p].pair[1]] = @ \cup {proc[p].pair[2]}]
        <4>1. proc[p].pair[1] \in Hosts /\ proc[p].pair[2] \in Destinations
          BY <3>0, <3>2 DEF StoreRecord, Local, InSection, Pairs
        <4> QED BY <3>2, <4>1 DEF List!ListNext, List!Grant
      <3> QED BY <2>1, <3>0, <3>1, <3>2, RecordSteps
    <2>2. CASE LockExpires
      BY <2>2 DEF LockExpires, stores
    <2>3. CASE StrayDrop \/ UNCHANGED vars
      BY <2>3, StrayRests DEF Rests, stores
    <2> QED BY <2>1, <2>2, <2>3 DEF Next, ProcStep
  <1> QED BY <1>1, TypedSectionInvariant, PTL DEF Spec, KeepsAccessList

-----------------------------------------------------------------------------
(* What the record has, the service permits *)

(* A destination of the record of h that the service need not permit.      *)
Excused(h) == h \in halved \/ \E p \in Procs : proc[p].pc = "erase" /\ proc[p].pair[1] = h

(* An excuse lasts, except the one of p when p moves on. *)
LEMMA ExcuseStays ==
    ASSUME TypeOK, NEW p \in Procs, Moves(p), halved \subseteq halved', NEW h \in Hosts,
           Excused(h), ~(proc[p].pc = "erase" /\ proc[p].pair[1] = h)
    PROVE  Excused(h)'
  <1>1. \A q \in Procs \ {p} : proc'[q] = proc[q]
    BY MovesTyped
  <1> QED BY <1>1 DEF Excused

LEMMA HalvedGrows ==
    ASSUME NEW p \in Procs, ProcStep(p)
    PROVE  halved \subseteq halved'
  BY DEF ProcStep, AddUpstream, AddHost, DeleteHost, Begin, CopyRules, LookUp, PickPair, Finish,
         RuleStep, TakeLock, PutRule, FindRecord, StoreRecord, DeleteRule, EraseRecord, Unlock,
         DropEntry,
         CallFails, Killed, stores, history

LEMMA StepPermitted ==
    ASSUME TypedSection, StoredIsPermitted, NEW p \in Procs, ProcStep(p)
    PROVE  StoredIsPermitted'
  <1>0. TypeOK /\ Local(p) /\ Moves(p) /\ halved \subseteq halved' /\ expired' = expired
    BY StepMoves, HalvedGrows, ExpiredStays DEF TypedSection, SectionOK
  <1> SUFFICES ASSUME ~expired, NEW h \in Hosts, NEW d \in record'[h]
               PROVE  <<h, d>> \in rules' \/ Excused(h)'
    BY <1>0 DEF StoredIsPermitted, Excused
  <1>1. d \in record[h] => <<h, d>> \in rules \/ Excused(h)
    BY DEF StoredIsPermitted, Excused
  (* A rule is deleted by a removal that goes on to the record, or is halved. *)
  <1>2. ASSUME <<h, d>> \in rules
        PROVE  <<h, d>> \in rules' \/ Excused(h)'
    <2>1. CASE DeleteRule(p)
      <3>1. rules' = rules \ {proc[p].pair} /\ Goto(p, "erase")
        BY <2>1 DEF DeleteRule
      <3>2. proc'[p].pc = "erase" /\ proc'[p].pair = proc[p].pair
        BY <1>0, <3>1 DEF Goto, TypeOK, ProcType
      <3> QED BY <1>2, <3>1, <3>2 DEF Excused
    <2>2. CASE CallFails(p)
      <3>1. \/ rules \subseteq rules'
            \/ rules' = rules \ {proc[p].pair} /\ halved' = halved \cup {proc[p].pair[1]}
        BY <2>2 DEF CallFails
      <3> QED BY <1>2, <3>1 DEF Excused
    <2>3. CASE ~DeleteRule(p) /\ ~CallFails(p)
      <3>1. rules \subseteq rules'
        BY <2>3 DEF ProcStep, AddUpstream, AddHost, DeleteHost, CopyRules, LookUp, PickPair,
                    Finish, RuleStep, TakeLock, PutRule, FindRecord, StoreRecord, EraseRecord,
                    Unlock, DropEntry, Killed, stores
      <3> QED BY <1>2, <3>1
    <2> QED BY <2>1, <2>2, <2>3
  (* A removal at the record erases it, or is halved. *)
  <1>3. ASSUME Excused(h), d \in record[h]
        PROVE  Excused(h)'
    <2>1. CASE ~(proc[p].pc = "erase" /\ proc[p].pair[1] = h)
      BY <1>0, <1>3, <2>1, ExcuseStays
    <2>2. CASE proc[p].pc = "erase" /\ proc[p].pair[1] = h
      <3>1. EraseRecord(p) \/ CallFails(p) \/ Killed(p)
        BY <2>2 DEF ProcStep, AddUpstream, AddHost, DeleteHost, Begin, Working, CopyRules, LookUp,
                    PickPair, Finish, RuleStep, TakeLock, PutRule, FindRecord, StoreRecord,
                    DeleteRule, Unlock, DropEntry
      <3>2. ~EraseRecord(p)
        BY <1>0, <2>2 DEF EraseRecord, TypeOK
      <3>3. halved' = halved \cup {h}
        BY <2>2, <3>1, <3>2 DEF CallFails, Killed
      <3> QED BY <3>3 DEF Excused
    <2> QED BY <2>1, <2>2
  (* What is new in the record is the rule its holder asked for. *)
  <1>4. ASSUME d \notin record[h]
        PROVE  <<h, d>> \in rules
    <2>1. ~EraseRecord(p)
      BY <1>0, <1>4 DEF EraseRecord, TypeOK
    <2>2. /\ StoreRecord(p) /\ proc[p].pair \in rules
          /\ record' = [record EXCEPT ![proc[p].pair[1]] = @ \cup {proc[p].pair[2]}]
      BY <1>4, <2>1, RecordSteps
    <2>3. proc[p].pair \in Pairs
      BY <1>0, <2>2 DEF Local, InSection, StoreRecord
    <2>4. h = proc[p].pair[1] /\ d = proc[p].pair[2]
      BY <1>0, <1>4, <2>2, <2>3 DEF TypeOK, Pairs
    <2> QED BY <2>2, <2>3, <2>4 DEF Pairs
  <1> QED BY <1>1, <1>2, <1>3, <1>4

(* add_acl may rely on the record: what it has, the service permits.       *)
THEOREM RecordIsPermitted == Spec => []StoredIsPermitted
  <1>1. Init => StoredIsPermitted
    BY DEF Init, StoredIsPermitted
  <1>2. TypedSection /\ StoredIsPermitted /\ [Next]_vars => StoredIsPermitted'
    <2> SUFFICES ASSUME TypedSection, StoredIsPermitted, [Next]_vars
                 PROVE  StoredIsPermitted'
      OBVIOUS
    <2>1. ASSUME NEW p \in Procs, ProcStep(p)
          PROVE  StoredIsPermitted'
      BY <2>1, StepPermitted
    <2>2. CASE LockExpires
      <3>1. UNCHANGED <<rules, record, proc, halved>> /\ (expired' = TRUE \/ expired' = expired)
        BY <2>2 DEF LockExpires, stores
      <3> QED BY <3>1 DEF StoredIsPermitted
    <2>3. CASE StrayDrop \/ UNCHANGED vars
      BY <2>3, StrayRests DEF StoredIsPermitted, Rests, stores, history
    <2> QED BY <2>1, <2>2, <2>3 DEF Next, ProcStep
  <1> QED BY <1>1, <1>2, TypedSectionInvariant, PTL DEF Spec
-----------------------------------------------------------------------------
(* The machines of a process *)

(* Which machines a process works on: those the balancer had, the one it   *)
(* adds, or the one it removes, which is no longer attached.               *)
OwnMachines(q) ==
    /\ ~Working(q) => proc[q].hosts = {}
    /\ proc[q].pc = "copy" => proc[q].op = "add_host"
    /\ proc[q].pc \in {"look", "delete", "erase"} => proc[q].op = "delete_host"
    /\ proc[q].pc \in {"put", "find", "store"} => proc[q].op # "delete_host"
    /\ Working(q) /\ proc[q].op # "add_upstream" => \E h \in Hosts : proc[q].hosts = {h}
    /\ proc[q].hosts \subseteq used
    /\ \A pair \in proc[q].pairs : pair[1] \in proc[q].hosts
    /\ proc[q].pc = "lock" \/ InSection(q) => proc[q].pair[1] \in proc[q].hosts
    /\ proc[q].op = "delete_host" => proc[q].hosts \cap attached = {}
    /\ proc[q].failed => proc[q].pc \in {"unlock", "drop"}
    /\ proc[q].pc = "drop" => proc[q].op # "delete_host"

OnMachines ==
    /\ \A q \in Procs : OwnMachines(q)
    /\ \A h \in Hosts \ used : record[h] = {}
    /\ halved \subseteq used /\ halved \cap attached = {}

(* What a process is after each kind of step. *)
Starts(p, op, pc, hosts, adds) ==
    /\ proc'[p].pc = pc /\ proc'[p].op = op /\ proc'[p].hosts = hosts
    /\ proc'[p].adds = adds /\ proc'[p].failed = FALSE
    /\ \A pair \in proc'[p].pairs : pair[1] \in hosts
    /\ \A h \in hosts : \A d \in adds : <<h, d>> \in proc'[p].pairs

LEMMA Began ==
    ASSUME TypeOK, NEW p \in Procs, NEW op, NEW pc, NEW hosts, NEW adds,
           Begin(p, op, pc, hosts, adds)
    PROVE  ~Working(p) /\ Starts(p, op, pc, hosts, adds)
  <1>1. proc'[p] = [IdleProc EXCEPT !.pc = pc, !.op = op, !.hosts = hosts, !.adds = adds,
                                    !.pairs = hosts \X adds]
    BY DEF Begin, TypeOK
  <1>2. /\ proc'[p].pc = pc /\ proc'[p].op = op /\ proc'[p].hosts = hosts
        /\ proc'[p].adds = adds /\ proc'[p].pairs = hosts \X adds /\ proc'[p].failed = FALSE
    BY ONLY <1>1 DEF IdleProc
  <1>3. /\ \A pair \in hosts \X adds : pair[1] \in hosts
        /\ \A h \in hosts : \A d \in adds : <<h, d>> \in hosts \X adds
    OBVIOUS
  <1>4. Starts(p, op, pc, hosts, adds)
    BY ONLY <1>2, <1>3 DEF Starts
  <1> QED BY <1>4 DEF Begin

LEMMA Ended ==
    ASSUME TypeOK, NEW p \in Procs, End(p)
    PROVE  /\ proc'[p].pc = "idle" /\ proc'[p].hosts = {} /\ proc'[p].adds = {}
           /\ proc'[p].pairs = {} /\ proc'[p].failed = FALSE
  BY DEF TypeOK, End, IdleProc

LEMMA Went ==
    ASSUME TypeOK, NEW p \in Procs, NEW pc, Goto(p, pc)
    PROVE  /\ proc'[p].pc = pc /\ proc'[p].op = proc[p].op /\ proc'[p].hosts = proc[p].hosts
           /\ proc'[p].adds = proc[p].adds /\ proc'[p].pairs = proc[p].pairs
           /\ proc'[p].pair = proc[p].pair /\ proc'[p].failed = proc[p].failed
  BY DEF TypeOK, ProcType, Goto

LEMMA SetPairs ==
    ASSUME TypeOK, NEW p \in Procs, NEW pairs, Set(p, "pick", "pairs", pairs)
    PROVE  /\ proc'[p].pc = "pick" /\ proc'[p].op = proc[p].op
           /\ proc'[p].hosts = proc[p].hosts /\ proc'[p].adds = proc[p].adds
           /\ proc'[p].pairs = pairs /\ proc'[p].failed = proc[p].failed
  BY DEF TypeOK, ProcType, Set

LEMMA SetSeen ==
    ASSUME TypeOK, NEW p \in Procs, NEW seen, Set(p, "store", "seen", seen)
    PROVE  /\ proc'[p].pc = "store" /\ proc'[p].op = proc[p].op
           /\ proc'[p].hosts = proc[p].hosts /\ proc'[p].adds = proc[p].adds
           /\ proc'[p].pairs = proc[p].pairs /\ proc'[p].pair = proc[p].pair
           /\ proc'[p].failed = proc[p].failed
  BY DEF TypeOK, ProcType, Set

LEMMA SetPair ==
    ASSUME TypeOK, NEW p \in Procs, Set(p, "pick", "pair", <<>>)
    PROVE  /\ proc'[p].pc = "pick" /\ proc'[p].op = proc[p].op
           /\ proc'[p].hosts = proc[p].hosts /\ proc'[p].adds = proc[p].adds
           /\ proc'[p].pairs = proc[p].pairs /\ proc'[p].failed = proc[p].failed
  BY DEF TypeOK, ProcType, Set

LEMMA Left ==
    ASSUME TypeOK, NEW p \in Procs, NEW failed \in BOOLEAN, Leave(p, failed)
    PROVE  /\ proc'[p].pc = "unlock" /\ proc'[p].op = proc[p].op
           /\ proc'[p].hosts = proc[p].hosts /\ proc'[p].adds = proc[p].adds
           /\ proc'[p].pairs = proc[p].pairs /\ proc'[p].failed = failed
  BY DEF TypeOK, ProcType, Leave

(* The next pair is left out, or is the one to work on. *)
LEMMA Picked ==
    ASSUME TypeOK, NEW p \in Procs, PickPair(p)
    PROVE  /\ proc'[p].op = proc[p].op /\ proc'[p].hosts = proc[p].hosts
           /\ proc'[p].adds = proc[p].adds /\ proc'[p].failed = proc[p].failed
           /\ \E pair \in proc[p].pairs :
                 /\ proc'[p].pairs = proc[p].pairs \ {pair}
                 /\ \/ proc'[p].pc = "pick" /\ NothingToDo(p, pair)
                    \/ proc'[p].pc = "lock" /\ proc'[p].pair = pair
  <1>1. PICK pair \in proc[p].pairs :
            LET rest == [proc[p] EXCEPT !.pairs = @ \ {pair}]
            IN  proc' = [proc EXCEPT ![p] = IF NothingToDo(p, pair) THEN rest
                                            ELSE [rest EXCEPT !.pc = "lock", !.pair = pair]]
    BY DEF PickPair
  <1>2. CASE NothingToDo(p, pair)
    <2>1. proc'[p] = [proc[p] EXCEPT !.pairs = @ \ {pair}] /\ proc[p].pc = "pick"
      BY <1>1, <1>2 DEF TypeOK, PickPair
    <2>2. /\ proc'[p].op = proc[p].op /\ proc'[p].hosts = proc[p].hosts
          /\ proc'[p].adds = proc[p].adds /\ proc'[p].failed = proc[p].failed
          /\ proc'[p].pairs = proc[p].pairs \ {pair} /\ proc'[p].pc = "pick"
      BY <2>1 DEF TypeOK, ProcType
    <2> QED BY <1>1, <1>2, <2>2
  <1>3. CASE ~NothingToDo(p, pair)
    <2>1. proc'[p] = [[proc[p] EXCEPT !.pairs = @ \ {pair}] EXCEPT !.pc = "lock", !.pair = pair]
      BY <1>1, <1>3 DEF TypeOK
    <2>2. /\ proc'[p].op = proc[p].op /\ proc'[p].hosts = proc[p].hosts
          /\ proc'[p].adds = proc[p].adds /\ proc'[p].failed = proc[p].failed
          /\ proc'[p].pairs = proc[p].pairs \ {pair} /\ proc'[p].pc = "lock"
          /\ proc'[p].pair = pair
      BY <2>1 DEF TypeOK, ProcType
    <2> QED BY <1>1, <2>2
  <1> QED BY <1>2, <1>3

(* The machines that were stay so, and those that are gone do not return. *)
LEMMA MachinesStay ==
    ASSUME TypeOK, NEW p \in Procs, ProcStep(p)
    PROVE  /\ used \subseteq used'
           /\ \A h \in used : h \in attached' => h \in attached
           /\ UNCHANGED <<attached, used>> \/ \E h \in Hosts : AddHost(p, h) \/ DeleteHost(p, h)
  <1>1. CASE \E h \in Hosts : AddHost(p, h) \/ DeleteHost(p, h)
    BY <1>1 DEF AddHost, DeleteHost
  <1>2. CASE ~\E h \in Hosts : AddHost(p, h) \/ DeleteHost(p, h)
    <2>1. UNCHANGED <<attached, used>>
      BY <1>2 DEF ProcStep, AddUpstream, CopyRules, LookUp, PickPair, Finish, RuleStep, TakeLock,
                  PutRule, FindRecord, StoreRecord, DeleteRule, EraseRecord, Unlock, DropEntry,
                  CallFails,
                  Killed, stores
    <2> QED BY <2>1
  <1> QED BY <1>1, <1>2

(* A process that is done has no machine. *)
LEMMA EndedOwn ==
    ASSUME TypeOK, NEW p \in Procs, End(p)
    PROVE  OwnMachines(p)'
  BY Ended DEF OwnMachines, Working, InSection

(* A process that goes on keeps its machines. *)
LEMMA OnwardOwn ==
    ASSUME NEW p \in Procs, OwnMachines(p), Working(p), UNCHANGED <<attached, used>>,
           proc'[p].op = proc[p].op, proc'[p].hosts = proc[p].hosts,
           proc'[p].pc \in {"pick", "lock", "put", "find", "store", "delete", "erase", "unlock",
                            "drop"},
           proc'[p].pc \in {"delete", "erase"} => proc[p].op = "delete_host",
           proc'[p].pc \in {"put", "find", "store", "drop"} => proc[p].op # "delete_host",
           \A pair \in proc'[p].pairs : pair[1] \in proc[p].hosts,
           proc'[p].pc \notin {"pick", "unlock", "drop"} => proc'[p].pair[1] \in proc[p].hosts,
           proc'[p].failed => proc'[p].pc \in {"unlock", "drop"}
    PROVE  OwnMachines(p)'
  BY DEF OwnMachines, Working, InSection

LEMMA StepOwn ==
    ASSUME TypedSection, OnMachines, NEW p \in Procs, ProcStep(p)
    PROVE  OwnMachines(p)'
  <1>0. TypeOK /\ Local(p) /\ OwnMachines(p)
    BY DEF TypedSection, SectionOK, OnMachines
  <1>1. CASE \E adds \in (SUBSET Destinations) \ {{}} : AddUpstream(p, adds)
    <2>1. PICK adds \in SUBSET Destinations :
              Begin(p, "add_upstream", "pick", attached, adds) /\ UNCHANGED stores
      BY <1>1 DEF AddUpstream
    <2>2. Starts(p, "add_upstream", "pick", attached, adds)
      BY <1>0, <2>1, Began
    <2>3. attached \subseteq used'
      BY <1>0, <2>1 DEF TypeOK, stores
    <2> QED BY ONLY <2>2, <2>3 DEF Starts, OwnMachines, Working, InSection
  <1>2. ASSUME NEW h \in Hosts, AddHost(p, h)
        PROVE  OwnMachines(p)'
    <2>1. Begin(p, "add_host", "copy", {h}, {}) /\ used' = used \cup {h}
      BY <1>2 DEF AddHost
    <2>2. Starts(p, "add_host", "copy", {h}, {})
      BY <1>0, <2>1, Began
    <2> QED BY ONLY <2>1, <2>2, h \in Hosts DEF Starts, OwnMachines, Working, InSection
  <1>3. ASSUME NEW h \in Hosts, DeleteHost(p, h)
        PROVE  OwnMachines(p)'
    <2>1. Begin(p, "delete_host", "look", {h}, {}) /\ attached' = attached \ {h} /\ h \in used'
      BY <1>0, <1>3 DEF DeleteHost, TypeOK
    <2>2. Starts(p, "delete_host", "look", {h}, {})
      BY <1>0, <2>1, Began
    <2> QED BY ONLY <2>1, <2>2, h \in Hosts DEF Starts, OwnMachines, Working, InSection
  <1>4. ASSUME End(p)
        PROVE  OwnMachines(p)'
    BY <1>0, <1>4, EndedOwn
  <1>5. CASE CopyRules(p) /\ ~End(p)
    <2>1. PICK source : Set(p, "pick", "pairs", proc[p].hosts \X record[source])
      BY <1>5 DEF CopyRules
    <2>2. Working(p) /\ UNCHANGED <<attached, used>> /\ ~proc[p].failed
      BY <1>0, <1>5 DEF CopyRules, Working, stores, OwnMachines
    <2>3. /\ proc'[p].pc = "pick" /\ proc'[p].op = proc[p].op /\ proc'[p].hosts = proc[p].hosts
          /\ proc'[p].pairs = proc[p].hosts \X record[source]
          /\ proc'[p].failed = proc[p].failed
      BY <1>0, <2>1, SetPairs
    <2> QED BY ONLY <1>0, <2>2, <2>3, OnwardOwn
  <1>6. CASE LookUp(p) /\ ~End(p)
    <2>0. proc[p].hosts # {}
      BY <1>0, <1>6 DEF Local, LookUp
    <2>1. PICK h \in proc[p].hosts : Set(p, "pick", "pairs", {h} \X record[h])
      BY <1>6, <2>0 DEF LookUp
    <2>2. Working(p) /\ UNCHANGED <<attached, used>> /\ ~proc[p].failed
      BY <1>0, <1>6 DEF LookUp, Working, stores, OwnMachines
    <2>3. /\ proc'[p].pc = "pick" /\ proc'[p].op = proc[p].op /\ proc'[p].hosts = proc[p].hosts
          /\ proc'[p].pairs = {h} \X record[h]
          /\ proc'[p].failed = proc[p].failed
      BY <1>0, <2>1, SetPairs
    <2> QED BY ONLY <1>0, <2>1, <2>2, <2>3, OnwardOwn
  <1>7. CASE PickPair(p)
    <2>1. Working(p) /\ UNCHANGED <<attached, used>> /\ ~proc[p].failed
      BY <1>0, <1>7 DEF PickPair, Working, stores, OwnMachines
    <2>2. PICK pair \in proc[p].pairs :
              /\ proc'[p].pairs = proc[p].pairs \ {pair}
              /\ proc'[p].pc = "pick" \/ (proc'[p].pc = "lock" /\ proc'[p].pair = pair)
      BY <1>0, <1>7, Picked
    <2>3. /\ proc'[p].op = proc[p].op /\ proc'[p].hosts = proc[p].hosts
          /\ proc'[p].failed = proc[p].failed
      BY <1>0, <1>7, Picked
    <2>4. \A x \in proc[p].pairs : x[1] \in proc[p].hosts
      BY <1>0 DEF OwnMachines
    <2>5. /\ \A x \in proc'[p].pairs : x[1] \in proc[p].hosts
          /\ proc'[p].pc # "pick" => proc'[p].pair[1] \in proc[p].hosts
      BY <2>2, <2>4
    <2> QED BY ONLY <1>0, <2>1, <2>2, <2>3, <2>5, OnwardOwn
  <1>8. CASE RuleStep(p) /\ ~End(p)
    <2>1. /\ Working(p) /\ UNCHANGED <<attached, used>>
          /\ \A x \in proc[p].pairs : x[1] \in proc[p].hosts
      BY <1>0, <1>8 DEF OwnMachines, RuleStep, TakeLock, PutRule, FindRecord, StoreRecord,
                        DeleteRule, EraseRecord, Unlock, DropEntry, Working, stores
    <2>2. ASSUME NEW pc, Goto(p, pc), proc[p].pc # "unlock",
                 pc \in {"put", "find", "delete", "erase"},
                 proc[p].pc = "lock" \/ InSection(p),
                 pc \in {"delete", "erase"} => proc[p].op = "delete_host",
                 pc \in {"put", "find"} => proc[p].op # "delete_host"
          PROVE  OwnMachines(p)'
      <3>1. /\ proc'[p].pc = pc /\ proc'[p].op = proc[p].op /\ proc'[p].hosts = proc[p].hosts
            /\ proc'[p].pairs = proc[p].pairs
            /\ proc'[p].pair = proc[p].pair /\ proc'[p].failed = proc[p].failed
        BY <1>0, <2>2, Went
      <3>2. ~proc[p].failed /\ proc[p].pair[1] \in proc[p].hosts
        BY <1>0, <2>2 DEF OwnMachines, InSection
      <3> QED BY ONLY <1>0, <2>1, <2>2, <3>1, <3>2, OnwardOwn
    <2>3. CASE TakeLock(p)
      <3>1. /\ proc[p].pc = "lock"
            /\ Goto(p, IF proc[p].op = "delete_host" THEN "delete" ELSE "put")
        BY <1>8, <2>3 DEF TakeLock, Abort
      <3> QED BY <2>2, <3>1
    <2>4. CASE PutRule(p)
      BY <1>0, <2>2, <2>4 DEF PutRule, OwnMachines, InSection
    <2>5. CASE FindRecord(p)
      <3>1. Set(p, "store", "seen", record[proc[p].pair[1]]) /\ proc[p].pc = "find"
        BY <2>5 DEF FindRecord
      <3>2. /\ proc'[p].pc = "store" /\ proc'[p].op = proc[p].op
            /\ proc'[p].hosts = proc[p].hosts /\ proc'[p].pairs = proc[p].pairs
            /\ proc'[p].pair = proc[p].pair /\ proc'[p].failed = proc[p].failed
        BY <1>0, <3>1, SetSeen
      <3>3. ~proc[p].failed /\ proc[p].pair[1] \in proc[p].hosts /\ proc[p].op # "delete_host"
        BY <1>0, <3>1 DEF OwnMachines, InSection
      <3> QED BY ONLY <1>0, <2>1, <3>2, <3>3, OnwardOwn
    <2>6. CASE StoreRecord(p) \/ EraseRecord(p)
      <3>1. Leave(p, FALSE)
        BY <2>6 DEF StoreRecord, EraseRecord
      <3>2. /\ proc'[p].pc = "unlock" /\ proc'[p].op = proc[p].op
            /\ proc'[p].hosts = proc[p].hosts /\ proc'[p].pairs = proc[p].pairs
        BY <1>0, <3>1, Left
      <3> QED BY ONLY <1>0, <2>1, <3>2, OnwardOwn
    <2>7. CASE DeleteRule(p)
      BY <1>0, <2>2, <2>7 DEF DeleteRule, OwnMachines, InSection
    <2>8. CASE (Unlock(p) \/ DropEntry(p)) /\ Set(p, "pick", "pair", <<>>) /\ ~proc[p].failed
      <3>1. /\ proc'[p].pc = "pick" /\ proc'[p].op = proc[p].op
            /\ proc'[p].hosts = proc[p].hosts /\ proc'[p].pairs = proc[p].pairs
            /\ proc'[p].failed = proc[p].failed
        BY <1>0, <2>8, SetPair
      <3> QED BY ONLY <1>0, <2>1, <2>8, <3>1, OnwardOwn
    <2>9. CASE Unlock(p) /\ Goto(p, "drop") /\ Shares(p)
      <3>1. /\ proc'[p].pc = "drop" /\ proc'[p].op = proc[p].op
            /\ proc'[p].hosts = proc[p].hosts /\ proc'[p].pairs = proc[p].pairs
        BY <1>0, <2>9, Went
      <3>2. proc[p].op # "delete_host"
        BY <2>9 DEF Shares
      <3> QED BY ONLY <1>0, <2>1, <3>1, <3>2, OnwardOwn
    <2>10. Unlock(p) \/ DropEntry(p) =>
               \/ Set(p, "pick", "pair", <<>>) /\ ~proc[p].failed
               \/ Unlock(p) /\ Goto(p, "drop") /\ Shares(p)
      BY <1>8 DEF Unlock, DropEntry, GoOn, Abort
    <2> QED BY <1>8, <2>3, <2>4, <2>5, <2>6, <2>7, <2>8, <2>9, <2>10 DEF RuleStep
  <1>9. CASE CallFails(p)
    <2>1. /\ Leave(p, TRUE) /\ Working(p) /\ UNCHANGED <<attached, used>>
          /\ \A x \in proc[p].pairs : x[1] \in proc[p].hosts
      BY <1>0, <1>9 DEF OwnMachines, CallFails, Working, InSection
    <2>2. /\ proc'[p].pc = "unlock" /\ proc'[p].op = proc[p].op
          /\ proc'[p].hosts = proc[p].hosts /\ proc'[p].pairs = proc[p].pairs
      BY <1>0, <2>1, Left
    <2> QED BY ONLY <1>0, <2>1, <2>2, OnwardOwn
  <1> QED BY <1>1, <1>2, <1>3, <1>4, <1>5, <1>6, <1>7, <1>8, <1>9
          DEF ProcStep, Finish, Killed, Abort

LEMMA RecordWrites ==
    ASSUME NEW p \in Procs, ProcStep(p)
    PROVE  record' = record \/ StoreRecord(p) \/ EraseRecord(p)
  BY DEF ProcStep, AddUpstream, AddHost, DeleteHost, CopyRules, LookUp, PickPair, Finish, RuleStep,
         TakeLock, PutRule, FindRecord, DeleteRule, Unlock, DropEntry, CallFails, Killed, stores

(* A record is written to for a machine of the process. *)
LEMMA StepRecords ==
    ASSUME TypedSection, OnMachines, NEW p \in Procs, ProcStep(p),
           NEW h \in Hosts \ used'
    PROVE  record'[h] = {}
  <1>0. TypeOK /\ OwnMachines(p) /\ h \notin used /\ record[h] = {}
    BY MachinesStay DEF TypedSection, OnMachines
  <1>1. CASE StoreRecord(p)
    <2>1. proc[p].pair[1] # h
      BY <1>0, <1>1 DEF StoreRecord, OwnMachines, InSection
    <2> QED BY <1>0, <1>1, <2>1 DEF StoreRecord, TypeOK
  <1>2. CASE EraseRecord(p)
    BY <1>0, <1>2 DEF EraseRecord, TypeOK
  <1> QED BY <1>0, <1>1, <1>2, RecordWrites

(* A removal that ends halfway is one of a machine that is gone. *)
LEMMA StepHalved ==
    ASSUME TypedSection, OnMachines, NEW p \in Procs, ProcStep(p)
    PROVE  halved' \subseteq used' /\ halved' \cap attached' = {}
  <1>0. TypeOK /\ OwnMachines(p) /\ halved \subseteq used /\ halved \cap attached = {}
    BY DEF TypedSection, OnMachines
  <1>1. \/ halved' = halved
        \/ /\ halved' = halved \cup {proc[p].pair[1]} /\ proc[p].pc \in {"delete", "erase"}
           /\ CallFails(p) \/ Killed(p)
    BY DEF ProcStep, AddUpstream, AddHost, DeleteHost, Begin, CopyRules, LookUp, PickPair, Finish,
           RuleStep, TakeLock, PutRule, FindRecord, StoreRecord, DeleteRule, EraseRecord, Unlock,
           DropEntry,
           CallFails, Killed, stores, history
  <1>2. CASE halved' = halved
    BY <1>0, <1>2, MachinesStay
  <1>3. CASE /\ halved' = halved \cup {proc[p].pair[1]} /\ proc[p].pc \in {"delete", "erase"}
             /\ CallFails(p) \/ Killed(p)
    <2>1. proc[p].pair[1] \in used \ attached
      BY <1>0, <1>3 DEF OwnMachines, InSection
    <2>2. UNCHANGED <<attached, used>>
      BY <1>3 DEF CallFails, Killed, stores
    <2> QED BY <1>0, <1>3, <2>1, <2>2
  <1> QED BY <1>1, <1>2, <1>3

LEMMA StepMachines ==
    ASSUME TypedSection, OnMachines, NEW p \in Procs, ProcStep(p)
    PROVE  OnMachines'
  <1>1. ASSUME NEW q \in Procs
        PROVE  OwnMachines(q)'
    <2>1. CASE q = p
      BY <2>1, StepOwn
    <2>2. CASE q # p
      <3>1. proc'[q] = proc[q]
        BY <2>2, StepMoves, MovesTyped DEF TypedSection
      <3>2. used \subseteq used' /\ \A h \in used : h \in attached' => h \in attached
        BY MachinesStay DEF TypedSection
      <3>3. OwnMachines(q)
        BY DEF OnMachines
      <3>4. /\ proc[q].hosts \subseteq used'
            /\ proc[q].op = "delete_host" => proc[q].hosts \cap attached' = {}
        BY <3>2, <3>3 DEF OwnMachines
      <3> QED BY ONLY <3>1, <3>3, <3>4 DEF OwnMachines, Working, InSection
    <2> QED BY <2>1, <2>2
  <1> QED BY <1>1, StepRecords, StepHalved DEF OnMachines
-----------------------------------------------------------------------------
(* Other work *)

(* The history knows of work that was not alone. *)
Exclusive(op, q) == \A r \in Procs \ {q} : Working(q) /\ Working(r) => proc[q].op # op

Alone ==
    /\ ~crossed => \A q \in Procs : Exclusive("delete_host", q)
    /\ ~disturbed => \A q \in Procs : Exclusive("add_host", q)

LEMMA StepOp ==
    ASSUME TypeOK, NEW p \in Procs, ProcStep(p)
    PROVE  \/ \E op, pc, hosts, adds :
                 Begin(p, op, pc, hosts, adds)
           \/ /\ Working(p)' => Working(p) /\ proc'[p].op = proc[p].op
              /\ crossed' = crossed /\ (disturbed => disturbed')
  <1>1. CASE \/ \E adds \in (SUBSET Destinations) \ {{}} : AddUpstream(p, adds)
             \/ \E h \in Hosts : AddHost(p, h) \/ DeleteHost(p, h)
    BY <1>1 DEF AddUpstream, AddHost, DeleteHost
  <1>2. CASE CopyRules(p) \/ LookUp(p) \/ PickPair(p) \/ Finish(p) \/ RuleStep(p)
             \/ CallFails(p) \/ Killed(p)
    <2>1. crossed' = crossed /\ (disturbed => disturbed')
      <3>1. crossed' = crossed
        BY <1>2 DEF CopyRules, LookUp, PickPair, Finish, RuleStep, TakeLock, PutRule, FindRecord,
                    StoreRecord, DeleteRule, EraseRecord, Unlock, DropEntry, CallFails, Killed,
                    history
      <3>2. CASE Abort(p)
        BY <3>1, <3>2 DEF Abort
      <3>3. CASE CopyRules(p)
        BY <3>1, <3>3 DEF CopyRules
      <3>4. CASE ~CopyRules(p) /\ ~Abort(p)
        <4>1. disturbed' = disturbed
          BY <1>2, <3>4 DEF LookUp, PickPair, Finish, RuleStep, TakeLock, PutRule, FindRecord,
                            StoreRecord, DeleteRule, EraseRecord, Unlock, DropEntry, GoOn,
                            CallFails, Killed, history
        <4> QED BY <3>1, <4>1
      <3> QED BY <3>2, <3>3, <3>4
    <2>2. Working(p)
      BY <1>2 DEF CopyRules, LookUp, PickPair, Finish, RuleStep, TakeLock, PutRule, FindRecord,
                  StoreRecord, DeleteRule, EraseRecord, Unlock, DropEntry, CallFails, Killed,
                  InSection,
                  Working
    <2>3. Working(p)' => proc'[p].op = proc[p].op
      <3>1. CASE End(p)
        BY <3>1, Ended DEF Working
      <3>2. CASE PickPair(p)
        BY <3>2, Picked
      <3>3. CASE ~End(p) /\ ~PickPair(p)
        <4>1. \/ \E pc : Goto(p, pc)
              \/ \E pairs : Set(p, "pick", "pairs", pairs)
              \/ \E seen : Set(p, "store", "seen", seen)
              \/ Set(p, "pick", "pair", <<>>) \/ Leave(p, FALSE) \/ Leave(p, TRUE)
          BY <1>2, <3>3 DEF CopyRules, LookUp, Finish, RuleStep, TakeLock, PutRule, FindRecord,
                            StoreRecord, DeleteRule, EraseRecord, Unlock, DropEntry, GoOn,
                            CallFails, Killed, Abort
        <4> QED BY <4>1, Went, SetPairs, SetSeen, SetPair, Left
      <3> QED BY <3>1, <3>2, <3>3
    <2> QED BY <2>1, <2>2, <2>3
  <1> QED BY <1>1, <1>2 DEF ProcStep

LEMMA StepAlone ==
    ASSUME TypedSection, Alone, NEW p \in Procs, ProcStep(p)
    PROVE  Alone'
  <1>0. TypeOK /\ \A q \in Procs \ {p} : proc'[q] = proc[q]
    BY StepMoves, MovesTyped DEF TypedSection
  <1>1. CASE \E op, pc, hosts, adds :
                 Begin(p, op, pc, hosts, adds)
    <2>1. PICK op, pc, hosts, adds :
                 Begin(p, op, pc, hosts, adds)
      BY <1>1
    <2>2. proc'[p].op = op
      BY <1>0, <2>1, Began DEF Starts
    <2>3. /\ ~crossed' =>
                ~crossed /\ \A q \in Procs : Working(q) => "delete_host" \notin {op, proc[q].op}
          /\ ~disturbed' =>
                ~disturbed /\ \A q \in Procs : Working(q) => "add_host" \notin {op, proc[q].op}
      BY <2>1 DEF Begin
    <2> QED BY <1>0, <2>2, <2>3 DEF Alone, Exclusive, Working
  <1>2. CASE /\ Working(p)' => Working(p) /\ proc'[p].op = proc[p].op
             /\ crossed' = crossed /\ (disturbed => disturbed')
    BY <1>0, <1>2 DEF Alone, Exclusive, Working
  <1> QED BY <1>0, <1>1, <1>2, StepOp

(* Until something fails the lock is held by who works under it, or was    *)
(* left by a request that did not find its entry; who works under it has   *)
(* it.                                                                     *)
Holds(q) == InSection(q) \/ proc[q].pc = "unlock"

NoFault ==
    faults = 0 =>
        /\ ~expired /\ halved = {}
        /\ lock # None => lock = Gone \/ \E q \in Procs : lock = q /\ Holds(q)
        /\ \A q \in Procs : ~proc[q].failed /\ (Holds(q) => lock = q)

LEMMA StepNoFault ==
    ASSUME TypedSection, NoFault, NEW p \in Procs, ProcStep(p)
    PROVE  NoFault'
  <1> SUFFICES ASSUME faults' = 0
               PROVE  NoFault'
    BY DEF NoFault
  <1>0. TypeOK /\ \A q \in Procs \ {p} : proc'[q] = proc[q]
    BY StepMoves, MovesTyped DEF TypedSection
  <1>1. ~CallFails(p) /\ ~Killed(p)
    <2>1. faults + 1 # 0
      BY <1>0 DEF TypeOK
    <2> QED BY <2>1 DEF CallFails, Killed
  <1>2. faults = 0 /\ halved' = halved
    BY <1>1 DEF ProcStep, AddUpstream, AddHost, DeleteHost, Begin, CopyRules, LookUp, PickPair,
           Finish, RuleStep, TakeLock, PutRule, FindRecord, StoreRecord, DeleteRule, EraseRecord,
           Unlock, DropEntry, stores, history
  <1>3. /\ ~expired /\ halved = {}
        /\ lock # None => lock = Gone \/ \E q \in Procs : lock = q /\ Holds(q)
        /\ \A q \in Procs : ~proc[q].failed /\ (Holds(q) => lock = q)
    BY <1>2 DEF NoFault
  <1>4. /\ proc'[p].failed = FALSE
        /\ \/ lock' = lock /\ (Holds(p)' <=> Holds(p))
           \/ lock = None /\ lock' = p /\ Holds(p)'
           \/ lock = p /\ lock' \in {None, Gone} /\ ~Holds(p)'
    <2>0. proc[p].failed = FALSE
      BY <1>0, <1>3 DEF TypeOK, ProcType
    <2>1. CASE \/ \E adds \in (SUBSET Destinations) \ {{}} : AddUpstream(p, adds)
               \/ \E h \in Hosts : AddHost(p, h) \/ DeleteHost(p, h)
      <3>1. PICK op, pc, hosts, adds :
                Begin(p, op, pc, hosts, adds) /\ pc \in {"pick", "copy", "look"}
        BY <2>1 DEF AddUpstream, AddHost, DeleteHost
      <3>2. ~Working(p) /\ Starts(p, op, pc, hosts, adds) /\ lock' = lock
        BY <1>0, <3>1, Began DEF Begin
      <3> QED BY ONLY <3>1, <3>2 DEF Starts, Working, Holds, InSection
    <2>2. CASE (CopyRules(p) \/ LookUp(p) \/ PickPair(p) \/ Finish(p)) /\ ~End(p)
      <3>1. lock' = lock /\ proc[p].pc \in {"copy", "look", "pick"}
        BY <2>2 DEF CopyRules, LookUp, PickPair, Finish
      <3>2. proc'[p].pc \in {"pick", "lock"} /\ proc'[p].failed = proc[p].failed
        <4>1. CASE PickPair(p)
          BY <1>0, <4>1, Picked
        <4>2. CASE ~PickPair(p)
          <5>1. PICK pairs : Set(p, "pick", "pairs", pairs)
            BY <2>2, <4>2 DEF CopyRules, LookUp, Finish
          <5> QED BY <1>0, <5>1, SetPairs
        <4> QED BY <4>1, <4>2
      <3> QED BY ONLY <2>0, <3>1, <3>2 DEF Holds, InSection
    <2>3. CASE (CopyRules(p) \/ LookUp(p) \/ PickPair(p) \/ Finish(p)) /\ End(p)
      <3>1. lock' = lock /\ proc[p].pc \in {"copy", "look", "pick"}
        BY <2>3 DEF CopyRules, LookUp, PickPair, Finish
      <3>2. proc'[p].pc = "idle" /\ proc'[p].failed = FALSE
        BY <1>0, <2>3, Ended
      <3> QED BY ONLY <3>1, <3>2 DEF Holds, InSection
    <2>4. CASE TakeLock(p)
      <3>1. CASE End(p) /\ lock' = lock
        <4>1. proc'[p].pc = "idle" /\ proc'[p].failed = FALSE /\ proc[p].pc = "lock"
          BY <1>0, <2>4, <3>1, Ended DEF TakeLock
        <4> QED BY ONLY <3>1, <4>1 DEF Holds, InSection
      <3>2. CASE /\ lock = None /\ lock' = p
                 /\ Goto(p, IF proc[p].op = "delete_host" THEN "delete" ELSE "put")
        <4>1. proc'[p].pc \in {"delete", "put"} /\ proc'[p].failed = proc[p].failed
          BY <1>0, <3>2, Went
        <4> QED BY ONLY <2>0, <3>2, <4>1 DEF Holds, InSection
      <3> QED BY <2>4, <3>1, <3>2 DEF TakeLock, LockFree, Abort
    <2>5. CASE PutRule(p) \/ FindRecord(p) \/ StoreRecord(p) \/ DeleteRule(p) \/ EraseRecord(p)
      <3>1. lock' = lock /\ Holds(p)
        BY <2>5 DEF PutRule, FindRecord, StoreRecord, DeleteRule, EraseRecord, Holds, InSection
      <3>2. proc'[p].pc \in {"find", "store", "erase", "unlock"} /\ proc'[p].failed = proc[p].failed
        <4>1. CASE FindRecord(p)
          BY <1>0, <4>1, SetSeen DEF FindRecord
        <4>2. CASE PutRule(p) \/ DeleteRule(p)
          <5>1. Goto(p, "find") \/ Goto(p, "erase")
            BY <4>2 DEF PutRule, DeleteRule
          <5> QED BY <1>0, <5>1, Went
        <4>3. CASE StoreRecord(p) \/ EraseRecord(p)
          <5>1. Leave(p, FALSE)
            BY <4>3 DEF StoreRecord, EraseRecord
          <5> QED BY <1>0, <2>0, <5>1, Left
        <4> QED BY <2>5, <4>1, <4>2, <4>3
      <3> QED BY ONLY <2>0, <3>1, <3>2 DEF Holds, InSection
    <2>6. ASSUME End(p) \/ Set(p, "pick", "pair", <<>>) \/ Goto(p, "drop")
          PROVE  proc'[p].pc \in {"idle", "pick", "drop"} /\ proc'[p].failed = FALSE
      BY <1>0, <2>0, <2>6, Ended, SetPair, Went
    <2>7. CASE Unlock(p)
      <3>1. lock = p /\ lock' \in {None, Gone}
        BY <1>3, <2>7 DEF Unlock, LeftLock, Holds
      <3>2. proc'[p].pc \in {"idle", "pick", "drop"} /\ proc'[p].failed = FALSE
        BY <2>6, <2>7 DEF Unlock, GoOn, Abort
      <3> QED BY ONLY <3>1, <3>2 DEF Holds, InSection
    <2>8. CASE DropEntry(p)
      <3>1. lock' = lock /\ proc[p].pc = "drop"
        BY <2>8 DEF DropEntry
      <3>2. proc'[p].pc \in {"idle", "pick", "drop"} /\ proc'[p].failed = FALSE
        BY <2>6, <2>8 DEF DropEntry, GoOn, Abort
      <3> QED BY ONLY <3>1, <3>2 DEF Holds, InSection
    <2> QED BY <1>1, <2>1, <2>2, <2>3, <2>4, <2>5, <2>7, <2>8 DEF ProcStep, RuleStep
  <1>5. \A q \in Procs \ {p} : ~proc'[q].failed /\ (Holds(q)' <=> Holds(q))
    BY <1>0, <1>3 DEF Holds, InSection
  <1>6. lock' # None => lock' = Gone \/ \E q \in Procs : lock' = q /\ Holds(q)'
    BY <1>3, <1>4, <1>5, AclAssumption
  <1>7. \A q \in Procs : ~proc'[q].failed /\ (Holds(q)' => lock' = q)
    BY <1>3, <1>4, <1>5, AclAssumption
  <1>8. ~expired' /\ halved' = {}
    BY <1>2, <1>3, ExpiredStays
  <1> QED BY <1>6, <1>7, <1>8 DEF NoFault

(* What happened to nothing before it may go wrong. *)
LEMMA StillClear ==
    ASSUME TypeOK, NEW p \in Procs, ProcStep(p), ~crossed', faults' = 0
    PROVE  ~crossed /\ faults = 0 /\ ~CallFails(p) /\ ~Killed(p)
  <1>1. ~CallFails(p) /\ ~Killed(p)
    <2>1. faults + 1 # 0
      BY DEF TypeOK
    <2> QED BY <2>1 DEF CallFails, Killed
  <1>2. faults = 0
    BY <1>1 DEF ProcStep, AddUpstream, AddHost, DeleteHost, Begin, CopyRules, LookUp, PickPair,
           Finish, RuleStep, TakeLock, PutRule, FindRecord, StoreRecord, DeleteRule, EraseRecord,
           Unlock, DropEntry
  <1>3. ~crossed
    <2>1. CASE \E op, pc, hosts, adds : Begin(p, op, pc, hosts, adds)
      BY <2>1 DEF Begin
    <2>2. CASE crossed' = crossed
      BY <2>2
    <2> QED BY <2>1, <2>2, StepOp
  <1> QED BY <1>1, <1>2, <1>3

(* A removal that overlaps nothing never meets a lock that was left. *)
Removing(q) == Working(q) /\ proc[q].op = "delete_host"

LockForRemoval == ~crossed /\ faults = 0 => \A q \in Procs : Removing(q) => lock # Gone

(* Nobody works beside a removal. *)
LEMMA RemovesAlone ==
    ASSUME Alone, ~crossed, NEW p \in Procs, Removing(p)
    PROVE  \A q \in Procs \ {p} : ~Working(q)
  BY DEF Alone, Exclusive, Removing

LEMMA StepForRemoval ==
    ASSUME TypedSection, Alone, LockForRemoval, NEW p \in Procs, ProcStep(p)
    PROVE  LockForRemoval'
  <1> SUFFICES ASSUME ~crossed', faults' = 0, NEW q \in Procs, Removing(q)'
               PROVE  lock' # Gone
    BY DEF LockForRemoval
  <1>0. TypeOK /\ \A r \in Procs \ {p} : proc'[r] = proc[r]
    BY StepMoves, MovesTyped DEF TypedSection
  <1>1. ~crossed /\ faults = 0 /\ ~CallFails(p) /\ ~Killed(p)
    BY <1>0, StillClear
  <1>2. CASE \E op, pc, hosts, adds : Begin(p, op, pc, hosts, adds)
    <2>1. PICK op, pc, hosts, adds : Begin(p, op, pc, hosts, adds)
      BY <1>2
    <2>2. CASE q = p
      <3>1. op = "delete_host"
        BY <1>0, <2>1, <2>2, Began DEF Starts, Removing
      <3> QED BY <2>1, <3>1 DEF Begin
    <2>3. CASE q # p
      <3>1. Removing(q)
        BY <1>0, <2>3 DEF Removing, Working
      <3> QED BY <1>1, <2>1, <3>1 DEF LockForRemoval, Begin
    <2> QED BY <2>2, <2>3
  <1>3. CASE Working(p)' => Working(p) /\ proc'[p].op = proc[p].op
    <2>1. Removing(q)
      BY <1>0, <1>3 DEF Removing, Working
    <2>2. lock # Gone
      BY <1>1, <2>1 DEF LockForRemoval
    (* A lock is left by a request, and there is none. *)
    <2>3. CASE Unlock(p)
      <3>1. q = p
        BY <1>1, <2>1, <2>3, RemovesAlone DEF Unlock, Working
      <3>2. ~Shares(p)
        BY <2>1, <3>1 DEF Shares, Removing
      <3> QED BY <2>2, <2>3, <3>2, AclAssumption DEF Unlock
    <2>4. CASE ~Unlock(p)
      <3>1. lock' = lock \/ lock' = p
        BY <1>1, <2>4 DEF ProcStep, AddUpstream, AddHost, DeleteHost, Begin, CopyRules, LookUp,
                          PickPair, Finish, RuleStep, TakeLock, PutRule, FindRecord, StoreRecord,
                          DeleteRule, EraseRecord, DropEntry
      <3> QED BY <2>2, <3>1, AclAssumption
    <2> QED BY <2>3, <2>4
  <1> QED BY <1>0, <1>2, <1>3, StepOp

LEMMA ExpiryOverlap ==
    ASSUME TypedSection, OnMachines, Alone, NoFault, LockForRemoval, LockExpires
    PROVE  OnMachines' /\ Alone' /\ NoFault' /\ LockForRemoval'
  <1>1. UNCHANGED <<attached, used, record, proc, crossed, disturbed, halved>>
    BY DEF LockExpires, stores
  <1>2. OnMachines'
    BY <1>1 DEF OnMachines, OwnMachines, Working, InSection
  <1>3. Alone'
    BY <1>1 DEF Alone, Exclusive, Working
  <1>4. NoFault'
    <2> SUFFICES ASSUME faults' = 0
                 PROVE  NoFault'
      BY DEF NoFault
    <2>1. lock = Gone /\ faults = 0 /\ lock' = None /\ UNCHANGED <<proc, halved, expired>>
      BY DEF LockExpires, TypedSection, TypeOK
    <2>2. \A q \in Procs : ~proc[q].failed /\ ~Holds(q)
      BY <2>1, AclAssumption DEF NoFault
    <2> QED BY <2>1, <2>2 DEF NoFault, Holds, InSection
  <1>5. LockForRemoval'
    <2>1. lock' = None
      BY DEF LockExpires
    <2> QED BY <2>1, AclAssumption DEF LockForRemoval
  <1> QED BY <1>2, <1>3, <1>4, <1>5

(* What every process may rely on, whatever overlaps and fails. *)
Overlap ==
    TypedSection /\ StoredIsPermitted /\ OnMachines /\ Alone /\ NoFault /\ LockForRemoval

THEOREM OverlapInvariant == Spec => []Overlap
  <1>1. Init => OnMachines /\ Alone /\ NoFault /\ LockForRemoval
    <2>1. Init => OnMachines
      BY DEF Init, OnMachines, OwnMachines, Working, InSection, IdleProc
    <2>2. Init => Alone
      BY DEF Init, Alone, Exclusive, Working, IdleProc
    <2>3. Init => NoFault
      BY DEF Init, NoFault, Holds, InSection, IdleProc
    <2>4. Init => LockForRemoval
      BY AclAssumption DEF Init, LockForRemoval
    <2> QED BY <2>1, <2>2, <2>3, <2>4
  <1>2. TypedSection /\ OnMachines /\ Alone /\ NoFault /\ LockForRemoval /\ [Next]_vars
            => (OnMachines /\ Alone /\ NoFault /\ LockForRemoval)'
    <2> SUFFICES ASSUME TypedSection, OnMachines, Alone, NoFault, LockForRemoval, [Next]_vars
                 PROVE  OnMachines' /\ Alone' /\ NoFault' /\ LockForRemoval'
      OBVIOUS
    <2>1. ASSUME NEW p \in Procs, ProcStep(p)
          PROVE  OnMachines' /\ Alone' /\ NoFault' /\ LockForRemoval'
      BY <2>1, StepMachines, StepAlone, StepNoFault, StepForRemoval
    <2>2. CASE LockExpires
      BY <2>2, ExpiryOverlap
    <2>3. CASE StrayDrop \/ UNCHANGED vars
      <3>1. UNCHANGED <<attached, used, record, proc, lock, faults, crossed, disturbed, halved,
                        expired>>
        BY <2>3, StrayRests DEF Rests, stores, history
      <3>2. OnMachines'
        BY <3>1 DEF OnMachines, OwnMachines, Working, InSection
      <3>3. Alone'
        BY <3>1 DEF Alone, Exclusive, Working
      <3>4. NoFault'
        BY <3>1 DEF NoFault, Holds, InSection
      <3>5. LockForRemoval'
        BY <3>1 DEF LockForRemoval, Removing, Working
      <3> QED BY <3>2, <3>3, <3>4, <3>5
    <2> QED BY <2>1, <2>2, <2>3 DEF Next, ProcStep
  <1> QED BY <1>1, <1>2, TypedSectionInvariant, RecordIsPermitted, PTL DEF Spec, Overlap
-----------------------------------------------------------------------------
(* No rule is forgotten *)

Storing(h, d) == \E q \in Procs : proc[q].pc \in {"find", "store"} /\ proc[q].pair = <<h, d>>
Dropping(h) == \E q \in Procs : Removing(q) /\ proc[q].pc # "look" /\ h \in proc[q].hosts

ToDelete(q, pair) ==
    pair \in proc[q].pairs \/ (proc[q].pc \in {"lock", "delete"} /\ proc[q].pair = pair)

(* A rule is on record, or about to be, or its machine is about to lose it. *)
RulesKnown ==
    \A h \in Hosts : \A d \in Destinations :
        <<h, d>> \in rules => d \in record[h] \/ Storing(h, d) \/ Dropping(h)

(* A removal has before it every rule its machine still has. *)
RemovalsMeet ==
    \A q \in Procs : Removing(q) /\ proc[q].pc # "look" =>
        \A h \in proc[q].hosts : \A d \in Destinations :
            <<h, d>> \in rules => ToDelete(q, <<h, d>>)

RecordsOfAttached ==
    \A h \in Hosts \ attached :
        record[h] # {} => \E q \in Procs : Removing(q) /\ h \in proc[q].hosts

OthersAttached == \A q \in Procs : proc[q].op # "delete_host" => proc[q].hosts \subseteq attached

Traced ==
    ~crossed /\ faults = 0 => RulesKnown /\ RemovalsMeet /\ RecordsOfAttached /\ OthersAttached

(* A step of a process that removes nothing, and writes to neither side. *)
LEMMA OtherTraced ==
    ASSUME RulesKnown, RemovalsMeet, RecordsOfAttached, OthersAttached, NEW p \in Procs,
           \A q \in Procs \ {p} : proc'[q] = proc[q], UNCHANGED <<rules, record>>,
           attached \subseteq attached', ~Removing(p), ~Removing(p)',
           proc[p].pc \in {"find", "store"} =>
               proc'[p].pc \in {"find", "store"} /\ proc'[p].pair = proc[p].pair,
           proc'[p].op # "delete_host" => proc'[p].hosts \subseteq attached'
    PROVE  RulesKnown' /\ RemovalsMeet' /\ RecordsOfAttached' /\ OthersAttached'
  <1>1. \A q \in Procs : /\ Removing(q)' <=> Removing(q)
                         /\ Removing(q) => proc'[q] = proc[q]
    BY DEF Removing, Working
  <1>2. RulesKnown'
    <2>1. \A h \in Hosts, d \in Destinations : Storing(h, d) => Storing(h, d)'
      BY DEF Storing
    <2>2. \A h \in Hosts : Dropping(h) => Dropping(h)'
      BY <1>1 DEF Dropping
    <2> QED BY <2>1, <2>2 DEF RulesKnown
  <1>3. RemovalsMeet'
    BY <1>1 DEF RemovalsMeet, ToDelete
  <1>4. RecordsOfAttached'
    BY <1>1 DEF RecordsOfAttached
  <1>5. OthersAttached'
    BY DEF OthersAttached
  <1> QED BY <1>2, <1>3, <1>4, <1>5

(* A removal that goes on, alone, and changes what its machine has. *)
LEMMA RemovalTraced ==
    ASSUME RulesKnown, RecordsOfAttached, NEW p \in Procs, OnMachines,
           \A q \in Procs \ {p} : proc'[q] = proc[q] /\ ~Working(q), Removing(p), Removing(p)',
           attached' = attached, proc'[p].pc # "look", proc'[p].hosts = proc[p].hosts,
           rules' \subseteq rules, \A h \in Hosts \ proc[p].hosts : record'[h] = record[h],
           \A h \in proc[p].hosts : \A d \in Destinations :
               <<h, d>> \in rules' => ToDelete(p, <<h, d>>)'
    PROVE  RulesKnown' /\ RemovalsMeet' /\ RecordsOfAttached' /\ OthersAttached'
  <1>1. \A q \in Procs \ {p} : ~Removing(q) /\ ~Removing(q)' /\ proc'[q].hosts = {}
    BY DEF Removing, Working, OnMachines, OwnMachines
  <1>2. \A h \in Hosts, d \in Destinations : ~Storing(h, d)
    BY DEF Storing, Removing, Working, OnMachines, OwnMachines
  <1>3. RulesKnown'
    <2> SUFFICES ASSUME NEW h \in Hosts, NEW d \in Destinations, <<h, d>> \in rules'
                 PROVE  d \in record'[h] \/ Dropping(h)'
      BY DEF RulesKnown
    <2>1. CASE h \in proc[p].hosts
      BY <2>1 DEF Dropping
    <2>2. CASE h \notin proc[p].hosts
      <3>1. ~Dropping(h)
        BY <1>1, <2>2 DEF Dropping
      <3>2. d \in record[h]
        BY <1>2, <3>1 DEF RulesKnown
      <3> QED BY <2>2, <3>2
    <2> QED BY <2>1, <2>2
  <1>4. RemovalsMeet'
    BY <1>1 DEF RemovalsMeet
  <1>5. RecordsOfAttached'
    BY <1>1 DEF RecordsOfAttached
  <1>6. OthersAttached'
    BY <1>1 DEF OthersAttached, Removing
  <1> QED BY <1>3, <1>4, <1>5, <1>6

(* A removal that ends, alone, when its machine has nothing left. *)
LEMMA RemovedTraced ==
    ASSUME RulesKnown, RecordsOfAttached, NEW p \in Procs, OnMachines,
           \A q \in Procs \ {p} : proc'[q] = proc[q] /\ ~Working(q), Removing(p),
           UNCHANGED <<attached, rules, record>>, ~Working(p)', proc'[p].hosts = {},
           \A h \in proc[p].hosts : record[h] = {},
           proc[p].pc # "look" =>
               \A h \in proc[p].hosts : \A d \in Destinations : <<h, d>> \notin rules
    PROVE  RulesKnown' /\ RemovalsMeet' /\ RecordsOfAttached' /\ OthersAttached'
  <1>1. \A q \in Procs \ {p} : ~Removing(q) /\ ~Removing(q)' /\ proc'[q].hosts = {}
    BY DEF Removing, Working, OnMachines, OwnMachines
  <1>2. \A h \in Hosts, d \in Destinations : ~Storing(h, d)
    BY DEF Storing, Removing, Working, OnMachines, OwnMachines
  <1>3. RulesKnown'
    <2> SUFFICES ASSUME NEW h \in Hosts, NEW d \in Destinations, <<h, d>> \in rules
                 PROVE  d \in record[h]
      BY DEF RulesKnown
    <2>1. ~Dropping(h)
      BY <1>1 DEF Dropping
    <2> QED BY <1>2, <2>1 DEF RulesKnown
  <1>4. RemovalsMeet'
    BY <1>1 DEF RemovalsMeet, Removing
  <1>5. RecordsOfAttached'
    BY <1>1 DEF RecordsOfAttached
  <1>6. OthersAttached'
    BY <1>1 DEF OthersAttached
  <1> QED BY <1>3, <1>4, <1>5, <1>6

TracedNow == RulesKnown /\ RemovalsMeet /\ RecordsOfAttached /\ OthersAttached

LEMMA BeginTraced ==
    ASSUME Overlap, TracedNow, ~crossed', NEW p \in Procs,
           \/ \E adds \in (SUBSET Destinations) \ {{}} : AddUpstream(p, adds)
           \/ \E h \in Hosts : AddHost(p, h) \/ DeleteHost(p, h)
    PROVE  TracedNow'
  <1>0. TypeOK /\ OnMachines /\ \A q \in Procs \ {p} : proc'[q] = proc[q]
    BY StepMoves, MovesTyped DEF Overlap, TypedSection, ProcStep
  <1>1. ASSUME NEW adds, AddUpstream(p, adds)
        PROVE  TracedNow'
    <2>1. Begin(p, "add_upstream", "pick", attached, adds) /\ UNCHANGED <<rules, record, attached>>
      BY <1>1 DEF AddUpstream, stores
    <2>2. ~Working(p) /\ Starts(p, "add_upstream", "pick", attached, adds)
      BY <1>0, <2>1, Began
    <2>3. /\ ~Removing(p) /\ ~Removing(p)' /\ proc[p].pc \notin {"find", "store"}
          /\ proc'[p].hosts = attached
      BY ONLY <2>2 DEF Starts, Removing, Working
    <2> QED BY ONLY <1>0, <2>1, <2>3, TracedNow, p \in Procs, OtherTraced DEF TracedNow
  <1>2. ASSUME NEW h \in Hosts, AddHost(p, h)
        PROVE  TracedNow'
    <2>1. /\ Begin(p, "add_host", "copy", {h}, {}) /\ UNCHANGED <<rules, record>>
          /\ attached' = attached \cup {h}
      BY <1>2 DEF AddHost
    <2>2. ~Working(p) /\ Starts(p, "add_host", "copy", {h}, {})
      BY <1>0, <2>1, Began
    <2>3. /\ ~Removing(p) /\ ~Removing(p)' /\ proc[p].pc \notin {"find", "store"}
          /\ proc'[p].hosts = {h}
      BY ONLY <2>2 DEF Starts, Removing, Working
    <2> QED BY ONLY <1>0, <2>1, <2>3, TracedNow, p \in Procs, OtherTraced DEF TracedNow
  (* A removal begins when nothing else is under way. *)
  <1>3. ASSUME NEW h \in Hosts, DeleteHost(p, h)
        PROVE  TracedNow'
    <2>1. /\ Begin(p, "delete_host", "look", {h}, {}) /\ UNCHANGED <<rules, record>>
          /\ attached' = attached \ {h}
      BY <1>3 DEF DeleteHost
    <2>2. ~Working(p) /\ Starts(p, "delete_host", "look", {h}, {})
      BY <1>0, <2>1, Began
    <2>3. /\ proc'[p].pc = "look" /\ proc'[p].op = "delete_host" /\ proc'[p].hosts = {h}
          /\ Removing(p)'
      BY ONLY <2>2 DEF Starts, Removing, Working
    <2>4. \A q \in Procs : ~Working(q)
      BY <2>1 DEF Begin
    <2>5. /\ \A q \in Procs \ {p} : ~Removing(q)' /\ proc'[q].hosts = {}
          /\ \A q \in Procs : ~Removing(q) /\ proc[q].pc \notin {"find", "store"}
      BY <1>0, <2>4 DEF OnMachines, OwnMachines, Working, Removing
    <2>6. RulesKnown'
      BY <2>1, <2>5 DEF TracedNow, RulesKnown, Storing, Dropping
    <2>7. RemovalsMeet'
      BY <2>3, <2>5 DEF RemovalsMeet
    <2>8. RecordsOfAttached'
      BY <2>1, <2>3, <2>5 DEF TracedNow, RecordsOfAttached
    <2>9. OthersAttached'
      BY <2>3, <2>5 DEF OthersAttached
    <2> QED BY <2>6, <2>7, <2>8, <2>9 DEF TracedNow
  <1> QED BY <1>1, <1>2, <1>3

LEMMA LookUpTraced ==
    ASSUME Overlap, TracedNow, ~crossed, NEW p \in Procs, LookUp(p)
    PROVE  TracedNow'
  <1>0. /\ TypeOK /\ Local(p) /\ OnMachines /\ OwnMachines(p) /\ Alone
        /\ \A q \in Procs \ {p} : proc'[q] = proc[q]
    BY StepMoves, MovesTyped DEF Overlap, TypedSection, SectionOK, ProcStep, OnMachines
  <1>1. /\ proc[p].pc = "look" /\ Removing(p) /\ UNCHANGED <<attached, rules, record>>
    BY <1>0 DEF LookUp, OwnMachines, Removing, Working, stores
  <1>2. \A q \in Procs \ {p} : proc'[q] = proc[q] /\ ~Working(q)
    BY <1>0, <1>1, RemovesAlone
  <1>3. PICK h \in Hosts : proc[p].hosts = {h}
    BY <1>0, <1>1 DEF OwnMachines, Removing
  <1>4. IF record[h] = {} THEN End(p) ELSE Set(p, "pick", "pairs", {h} \X record[h])
    <2>1. h = CHOOSE x \in proc[p].hosts : TRUE
      BY <1>3
    <2> QED BY <2>1 DEF LookUp
  <1>5. CASE record[h] = {}
    <2>1. proc'[p].pc = "idle" /\ proc'[p].hosts = {} /\ ~Working(p)'
      BY <1>0, <1>4, <1>5, Ended DEF Working
    <2> QED BY ONLY <1>0, <1>1, <1>2, <1>3, <1>5, <2>1, TracedNow, p \in Procs, RemovedTraced
            DEF TracedNow
  <1>6. CASE record[h] # {}
    <2>1. /\ proc'[p].pc = "pick" /\ proc'[p].op = proc[p].op /\ proc'[p].hosts = proc[p].hosts
          /\ \A d \in record[h] : <<h, d>> \in proc'[p].pairs
      <3>1. PICK pairs : pairs = {h} \X record[h]
        OBVIOUS
      <3>2. Set(p, "pick", "pairs", pairs)
        BY <1>4, <1>6, <3>1
      <3>3. /\ proc'[p].pc = "pick" /\ proc'[p].op = proc[p].op /\ proc'[p].hosts = proc[p].hosts
            /\ proc'[p].pairs = pairs
        BY <1>0, <3>2, SetPairs
      <3>4. \A d \in record[h] : <<h, d>> \in pairs
        BY ONLY <3>1
      <3> QED BY <3>3, <3>4
    <2>2. Removing(p)'
      BY <1>1, <2>1 DEF Removing, Working
    (* Beside it there is nobody to have a rule that is not on record. *)
    <2>3. \A d \in Destinations : <<h, d>> \in rules => d \in record[h]
      <3>1. \A q \in Procs : proc[q].pc \notin {"find", "store"}
        BY <1>1, <1>2 DEF Working
      <3>2. \A q \in Procs : Removing(q) => proc[q].pc = "look"
        BY <1>1, <1>2 DEF Removing
      <3> QED BY <3>1, <3>2 DEF TracedNow, RulesKnown, Storing, Dropping
    <2>4. \A x \in proc[p].hosts : \A d \in Destinations :
              <<x, d>> \in rules' => ToDelete(p, <<x, d>>)'
      BY <1>1, <1>3, <2>1, <2>3 DEF ToDelete
    <2>5. /\ rules' \subseteq rules /\ \A x \in Hosts \ proc[p].hosts : record'[x] = record[x]
          /\ proc'[p].pc # "look" /\ attached' = attached
      BY <1>1, <2>1
    <2> QED BY ONLY <1>0, <1>1, <1>2, <2>1, <2>2, <2>4, <2>5, TracedNow, p \in Procs,
                    RemovalTraced DEF TracedNow
  <1> QED BY <1>5, <1>6

LEMMA CopyTraced ==
    ASSUME Overlap, TracedNow, NEW p \in Procs, CopyRules(p)
    PROVE  TracedNow'
  <1>0. /\ TypeOK /\ OwnMachines(p) /\ \A q \in Procs \ {p} : proc'[q] = proc[q]
    BY StepMoves, MovesTyped DEF Overlap, TypedSection, ProcStep, OnMachines
  <1>1. /\ proc[p].pc = "copy" /\ proc[p].op = "add_host" /\ ~Removing(p)
        /\ UNCHANGED <<attached, rules, record>>
    BY <1>0 DEF CopyRules, OwnMachines, Removing, stores
  <1>2. proc[p].hosts \subseteq attached
    BY <1>1 DEF TracedNow, OthersAttached
  <1>3. ~Removing(p)' /\ proc'[p].hosts \subseteq attached
    <2>1. CASE End(p)
      BY <1>0, <2>1, Ended DEF Removing, Working
    <2>2. CASE ~End(p)
      <3>1. PICK pairs : Set(p, "pick", "pairs", pairs)
        BY <2>2 DEF CopyRules
      <3> QED BY <1>0, <1>1, <1>2, <3>1, SetPairs DEF Removing
    <2> QED BY <2>1, <2>2
  <1> QED BY ONLY <1>0, <1>1, <1>3, TracedNow, p \in Procs, OtherTraced DEF TracedNow

(* The next pair of a removal is at hand, or the service has no such rule. *)
LEMMA PickTraced ==
    ASSUME Overlap, TracedNow, ~crossed, NEW p \in Procs, PickPair(p)
    PROVE  TracedNow'
  <1>0. /\ TypeOK /\ OnMachines /\ Alone /\ \A q \in Procs \ {p} : proc'[q] = proc[q]
    BY StepMoves, MovesTyped DEF Overlap, TypedSection, ProcStep
  <1>1. proc[p].pc = "pick" /\ UNCHANGED <<attached, rules, record>>
    BY DEF PickPair, stores
  <1>2. PICK pair \in proc[p].pairs :
            /\ proc'[p].pairs = proc[p].pairs \ {pair}
            /\ \/ proc'[p].pc = "pick" /\ NothingToDo(p, pair)
               \/ proc'[p].pc = "lock" /\ proc'[p].pair = pair
    BY <1>0, Picked
  <1>3. proc'[p].op = proc[p].op /\ proc'[p].hosts = proc[p].hosts
    BY <1>0, Picked
  <1>4. Removing(p)' <=> Removing(p)
    BY <1>1, <1>2, <1>3 DEF Removing, Working
  <1>5. CASE Removing(p)
    <2>1. \A q \in Procs \ {p} : proc'[q] = proc[q] /\ ~Working(q)
      BY <1>0, <1>5, RemovesAlone
    <2>2. pair \notin rules \/ (proc'[p].pc = "lock" /\ proc'[p].pair = pair)
      BY <1>2, <1>5 DEF NothingToDo, Removing
    <2>3. \A h \in proc[p].hosts : \A d \in Destinations :
              <<h, d>> \in rules => <<h, d>> \in proc[p].pairs
      BY <1>1, <1>5 DEF TracedNow, RemovalsMeet, ToDelete
    <2>4. \A h \in proc[p].hosts : \A d \in Destinations :
              <<h, d>> \in rules' => ToDelete(p, <<h, d>>)'
      BY <1>1, <1>2, <2>2, <2>3 DEF ToDelete
    <2>5. /\ rules' \subseteq rules /\ \A x \in Hosts \ proc[p].hosts : record'[x] = record[x]
          /\ proc'[p].pc # "look" /\ attached' = attached
      BY <1>1, <1>2
    <2> QED BY ONLY <1>0, <1>3, <1>4, <1>5, <2>1, <2>4, <2>5, TracedNow, p \in Procs,
                    RemovalTraced DEF TracedNow
  <1>6. CASE ~Removing(p)
    <2>1. proc'[p].op # "delete_host" => proc'[p].hosts \subseteq attached
      BY <1>3 DEF TracedNow, OthersAttached
    <2> QED BY ONLY <1>0, <1>1, <1>4, <1>6, <2>1, TracedNow, p \in Procs, OtherTraced
            DEF TracedNow
  <1> QED BY <1>5, <1>6

(* At the end of a removal its machine has neither rules nor a record. *)
LEMMA FinishTraced ==
    ASSUME Overlap, TracedNow, ~crossed, faults = 0, NEW p \in Procs, Finish(p)
    PROVE  TracedNow'
  <1>0. /\ TypeOK /\ OnMachines /\ OwnMachines(p) /\ Alone /\ NoFault /\ StoredIsPermitted
        /\ \A q \in Procs \ {p} : proc'[q] = proc[q]
    BY StepMoves, MovesTyped DEF Overlap, TypedSection, ProcStep, OnMachines
  <1>1. /\ proc[p].pc = "pick" /\ proc[p].pairs = {} /\ UNCHANGED <<attached, rules, record>>
        /\ proc'[p].pc = "idle" /\ proc'[p].hosts = {}
    BY <1>0, Ended DEF Finish
  <1>2. ~Working(p)' /\ ~Removing(p)'
    BY <1>1 DEF Working, Removing
  <1>3. CASE Removing(p)
    <2>1. \A q \in Procs \ {p} : proc'[q] = proc[q] /\ ~Working(q)
      BY <1>0, <1>3, RemovesAlone
    <2>2. \A h \in proc[p].hosts : \A d \in Destinations : <<h, d>> \notin rules
      BY <1>1, <1>3 DEF TracedNow, RemovalsMeet, ToDelete
    <2>3. \A h \in proc[p].hosts : record[h] = {}
      <3>1. \A q \in Procs : proc[q].pc # "erase"
        BY <1>1, <2>1 DEF Working
      <3>2. \A h \in Hosts : \A d \in record[h] : <<h, d>> \in rules
        BY <1>0, <3>1 DEF StoredIsPermitted, NoFault
      <3>3. proc[p].hosts \subseteq Hosts /\ \A h \in Hosts : record[h] \subseteq Destinations
        BY <1>0 DEF TypeOK, ProcType
      <3> QED BY <2>2, <3>2, <3>3
    <2> QED BY ONLY <1>0, <1>1, <1>2, <1>3, <2>1, <2>2, <2>3, TracedNow, p \in Procs,
                    RemovedTraced DEF TracedNow
  <1>4. CASE ~Removing(p)
    <2>1. proc'[p].hosts \subseteq attached
      BY <1>1
    <2> QED BY ONLY <1>0, <1>1, <1>2, <1>4, <2>1, TracedNow, p \in Procs, OtherTraced
            DEF TracedNow
  <1> QED BY <1>3, <1>4

(* A removal that is alone finds the lock free; an addition may not. *)
LEMMA TakeTraced ==
    ASSUME Overlap, TracedNow, ~crossed, faults = 0, NEW p \in Procs, TakeLock(p)
    PROVE  TracedNow'
  <1>0. /\ TypeOK /\ OnMachines /\ OwnMachines(p) /\ Alone /\ NoFault /\ LockForRemoval
        /\ \A q \in Procs \ {p} : proc'[q] = proc[q]
    BY StepMoves, MovesTyped DEF Overlap, TypedSection, ProcStep, OnMachines, RuleStep
  <1>1. proc[p].pc = "lock" /\ UNCHANGED <<attached, rules, record>>
    BY DEF TakeLock, stores
  <1>2. CASE Removing(p)
    <2>1. \A q \in Procs \ {p} : proc'[q] = proc[q] /\ ~Working(q)
      BY <1>0, <1>2, RemovesAlone
    <2>2. lock = None
      <3>1. \A q \in Procs : ~Holds(q)
        BY <1>1, <2>1 DEF Holds, InSection, Working
      <3>2. lock # Gone
        BY <1>0, <1>2 DEF LockForRemoval
      <3> QED BY <1>0, <3>1, <3>2 DEF NoFault
    <2>3. Goto(p, "delete")
      BY <1>2, <2>2 DEF TakeLock, LockFree, Removing
    <2>4. /\ proc'[p].pc = "delete" /\ proc'[p].op = proc[p].op /\ proc'[p].hosts = proc[p].hosts
          /\ proc'[p].pairs = proc[p].pairs /\ proc'[p].pair = proc[p].pair
      BY <1>0, <2>3, Went
    <2>5. Removing(p)'
      BY <1>2, <2>4 DEF Removing, Working
    <2>6. \A h \in proc[p].hosts : \A d \in Destinations :
              <<h, d>> \in rules' => ToDelete(p, <<h, d>>)'
      BY <1>1, <1>2, <2>4 DEF TracedNow, RemovalsMeet, ToDelete
    <2>7. /\ rules' \subseteq rules /\ \A x \in Hosts \ proc[p].hosts : record'[x] = record[x]
          /\ proc'[p].pc # "look" /\ attached' = attached
      BY <1>1, <2>4
    <2> QED BY ONLY <1>0, <1>2, <2>1, <2>4, <2>5, <2>6, <2>7, TracedNow, p \in Procs,
                    RemovalTraced DEF TracedNow
  <1>3. CASE ~Removing(p)
    <2>1. proc[p].op # "delete_host" /\ proc[p].hosts \subseteq attached
      BY <1>1, <1>3 DEF Removing, Working, TracedNow, OthersAttached
    <2>2. ~Removing(p)' /\ proc'[p].hosts \subseteq attached
      <3>1. CASE End(p)
        BY <1>0, <3>1, Ended DEF Removing, Working
      <3>2. CASE ~End(p)
        <4>1. PICK pc : Goto(p, pc)
          BY <3>2 DEF TakeLock, Abort
        <4> QED BY <1>0, <2>1, <4>1, Went DEF Removing
      <3> QED BY <3>1, <3>2
    <2> QED BY ONLY <1>0, <1>1, <1>3, <2>2, TracedNow, p \in Procs, OtherTraced DEF TracedNow
  <1> QED BY <1>2, <1>3

(* Nobody removes while a rule is added. *)
LEMMA AddsAlone ==
    ASSUME Overlap, ~crossed, NEW p \in Procs, proc[p].pc \in {"put", "find", "store"}
    PROVE  \A q \in Procs : ~Removing(q)
  <1>1. Working(p) /\ ~Removing(p)
    BY DEF Overlap, OnMachines, OwnMachines, Working, Removing
  <1> QED BY <1>1, RemovesAlone DEF Overlap

LEMMA PutTraced ==
    ASSUME Overlap, TracedNow, ~crossed, NEW p \in Procs, PutRule(p)
    PROVE  TracedNow'
  <1>0. /\ TypeOK /\ OwnMachines(p) /\ \A q \in Procs \ {p} : proc'[q] = proc[q]
    BY StepMoves, MovesTyped DEF Overlap, TypedSection, ProcStep, RuleStep, OnMachines
  <1>1. /\ proc[p].pc = "put" /\ UNCHANGED <<attached, record>> /\ Goto(p, "find")
        /\ rules' = rules \cup {proc[p].pair}
    BY DEF PutRule
  <1>2. /\ proc'[p].pc = "find" /\ proc'[p].op = proc[p].op /\ proc'[p].hosts = proc[p].hosts
        /\ proc'[p].pair = proc[p].pair
    BY <1>0, <1>1, Went
  <1>3. \A q \in Procs : ~Removing(q) /\ ~Removing(q)'
    <2>1. \A q \in Procs : ~Removing(q)
      BY <1>1, AddsAlone
    <2> QED BY <1>0, <1>1, <1>2, <2>1 DEF Removing, Working
  <1>4. RulesKnown'
    <2> SUFFICES ASSUME NEW h \in Hosts, NEW d \in Destinations, <<h, d>> \in rules'
                 PROVE  d \in record[h] \/ Storing(h, d)'
      BY <1>1 DEF RulesKnown
    <2>1. CASE proc[p].pair = <<h, d>>
      BY <1>2, <2>1 DEF Storing
    <2>2. CASE proc[p].pair # <<h, d>>
      <3>1. d \in record[h] \/ Storing(h, d)
        BY <1>1, <1>3, <2>2 DEF TracedNow, RulesKnown, Dropping
      <3> QED BY <1>0, <1>1, <3>1 DEF Storing
    <2> QED BY <2>1, <2>2
  <1>5. RemovalsMeet'
    BY <1>3 DEF RemovalsMeet
  <1>6. RecordsOfAttached'
    BY <1>1, <1>3 DEF TracedNow, RecordsOfAttached
  <1>7. OthersAttached'
    BY <1>0, <1>1, <1>2 DEF TracedNow, OthersAttached
  <1> QED BY <1>4, <1>5, <1>6, <1>7 DEF TracedNow

LEMMA FindTraced ==
    ASSUME Overlap, TracedNow, ~crossed, NEW p \in Procs, FindRecord(p)
    PROVE  TracedNow'
  <1>0. /\ TypeOK /\ OwnMachines(p) /\ \A q \in Procs \ {p} : proc'[q] = proc[q]
    BY StepMoves, MovesTyped DEF Overlap, TypedSection, ProcStep, RuleStep, OnMachines
  <1>1. /\ proc[p].pc = "find" /\ UNCHANGED <<attached, rules, record>>
        /\ Set(p, "store", "seen", record[proc[p].pair[1]])
    BY DEF FindRecord, stores
  <1>2. /\ proc'[p].pc = "store" /\ proc'[p].op = proc[p].op /\ proc'[p].hosts = proc[p].hosts
        /\ proc'[p].pair = proc[p].pair
    BY <1>0, <1>1, SetSeen
  <1>3. ~Removing(p) /\ ~Removing(p)'
    BY <1>1, <1>2, AddsAlone DEF Removing, Working
  <1>4. proc'[p].op # "delete_host" => proc'[p].hosts \subseteq attached
    BY <1>2 DEF TracedNow, OthersAttached
  <1> QED BY ONLY <1>0, <1>1, <1>2, <1>3, <1>4, TracedNow, p \in Procs, OtherTraced DEF TracedNow

LEMMA StoreTraced ==
    ASSUME Overlap, TracedNow, ~crossed, faults = 0, NEW p \in Procs, StoreRecord(p)
    PROVE  TracedNow'
  <1>0. /\ TypedSection /\ TypeOK /\ OwnMachines(p) /\ \A q \in Procs \ {p} : proc'[q] = proc[q]
        /\ Local(p) /\ ~expired
    BY StepMoves, MovesTyped
       DEF Overlap, TypedSection, SectionOK, ProcStep, RuleStep, OnMachines, NoFault
  <1>1. /\ proc[p].pc = "store" /\ UNCHANGED <<attached, rules>> /\ Leave(p, FALSE)
        /\ proc[p].pair \in Pairs /\ proc[p].pair[1] \in proc[p].hosts
        /\ proc[p].op # "delete_host"
    BY <1>0 DEF StoreRecord, Local, OwnMachines, InSection
  <1>2. /\ proc'[p].pc = "unlock" /\ proc'[p].op = proc[p].op /\ proc'[p].hosts = proc[p].hosts
    BY <1>0, <1>1, Left
  <1>3. \A q \in Procs : ~Removing(q) /\ ~Removing(q)'
    <2>1. \A q \in Procs : ~Removing(q)
      BY <1>1, AddsAlone
    <2> QED BY <1>0, <1>1, <1>2, <2>1 DEF Removing, Working
  <1>4. /\ proc[p].pair[1] \in Hosts /\ proc[p].pair[1] \in attached
        /\ proc[p].pair = <<proc[p].pair[1], proc[p].pair[2]>>
    BY <1>1 DEF TracedNow, OthersAttached, Pairs
  <1>5. record' = [record EXCEPT ![proc[p].pair[1]] = @ \cup {proc[p].pair[2]}]
    <2>1. ProcStep(p)
      BY DEF ProcStep, RuleStep
    <2>2. ~EraseRecord(p)
      BY <1>1 DEF EraseRecord
    <2>3. /\ record' = [record EXCEPT ![proc[p].pair[1]] = Stored(proc[p].seen, proc[p].pair[2])]
          /\ proc[p].seen = record[proc[p].pair[1]]
      BY <1>0, <1>1 DEF StoreRecord, TypedSection, SectionOK, Guarded, InSection
    <2> QED BY <2>3 DEF Stored
  <1>6. /\ \A h \in Hosts : record[h] \subseteq record'[h]
        /\ proc[p].pair[2] \in record'[proc[p].pair[1]]
        /\ \A h \in Hosts \ attached : record'[h] = record[h]
    BY <1>0, <1>4, <1>5 DEF TypeOK
  <1>7. RulesKnown'
    <2> SUFFICES ASSUME NEW h \in Hosts, NEW d \in Destinations, <<h, d>> \in rules
                 PROVE  d \in record'[h] \/ Storing(h, d)'
      BY <1>1 DEF RulesKnown
    <2>1. CASE proc[p].pair = <<h, d>>
      BY <1>6, <2>1
    <2>2. CASE proc[p].pair # <<h, d>>
      <3>1. d \in record[h] \/ Storing(h, d)
        BY <1>3 DEF TracedNow, RulesKnown, Dropping
      <3>2. Storing(h, d) => Storing(h, d)'
        BY <1>0, <2>2 DEF Storing
      <3> QED BY <1>6, <3>1, <3>2
    <2> QED BY <2>1, <2>2
  <1>8. RemovalsMeet'
    BY <1>3 DEF RemovalsMeet
  <1>9. RecordsOfAttached'
    BY <1>1, <1>3, <1>6 DEF TracedNow, RecordsOfAttached
  <1>10. OthersAttached'
    BY <1>0, <1>1, <1>2 DEF TracedNow, OthersAttached
  <1> QED BY <1>7, <1>8, <1>9, <1>10 DEF TracedNow

(* A removal takes one rule back and then the record of all of them: the   *)
(* others are still before it.                                             *)
LEMMA DropTraced ==
    ASSUME Overlap, TracedNow, ~crossed, NEW p \in Procs, DeleteRule(p) \/ EraseRecord(p)
    PROVE  TracedNow'
  <1>0. /\ TypeOK /\ OnMachines /\ OwnMachines(p) /\ Alone
        /\ \A q \in Procs \ {p} : proc'[q] = proc[q]
    BY StepMoves, MovesTyped DEF Overlap, TypedSection, ProcStep, OnMachines, RuleStep
  <1>1. proc[p].pc \in {"delete", "erase"} /\ attached' = attached /\ Removing(p)
        /\ proc[p].pair[1] \in proc[p].hosts
    BY <1>0 DEF DeleteRule, EraseRecord, OwnMachines, Removing, Working, InSection
  <1>2. \A q \in Procs \ {p} : proc'[q] = proc[q] /\ ~Working(q)
    BY <1>0, <1>1, RemovesAlone
  <1>3. Goto(p, "erase") \/ Leave(p, FALSE)
    BY DEF DeleteRule, EraseRecord
  <1>4. /\ proc'[p].pc \in {"erase", "unlock"} /\ proc'[p].op = proc[p].op
        /\ proc'[p].hosts = proc[p].hosts /\ proc'[p].pairs = proc[p].pairs
    BY <1>0, <1>3, Went, Left
  <1>5. Removing(p)' /\ proc'[p].pc # "look"
    BY <1>1, <1>4 DEF Removing, Working
  <1>6. rules' \subseteq rules /\ (proc[p].pc = "delete" => proc[p].pair \notin rules')
    BY DEF DeleteRule, EraseRecord
  <1>7. \A h \in Hosts \ proc[p].hosts : record'[h] = record[h]
    BY <1>0, <1>1 DEF DeleteRule, EraseRecord, TypeOK
  <1>8. \A h \in proc[p].hosts : \A d \in Destinations : <<h, d>> \in rules => ToDelete(p, <<h, d>>)
    BY <1>1 DEF TracedNow, RemovalsMeet
  <1>9. \A h \in proc[p].hosts : \A d \in Destinations :
            <<h, d>> \in rules' => ToDelete(p, <<h, d>>)'
    BY <1>1, <1>4, <1>6, <1>8 DEF ToDelete
  <1> QED BY ONLY <1>0, <1>1, <1>2, <1>4, <1>5, <1>6, <1>7, <1>9, TracedNow, p \in Procs,
                  RemovalTraced DEF TracedNow

(* A removal goes on to its next rule; a request may end in LockError. *)
LEMMA UnlockTraced ==
    ASSUME Overlap, TracedNow, ~crossed, faults = 0, NEW p \in Procs, Unlock(p) \/ DropEntry(p)
    PROVE  TracedNow'
  <1>0. /\ TypeOK /\ OnMachines /\ OwnMachines(p) /\ Alone /\ NoFault
        /\ \A q \in Procs \ {p} : proc'[q] = proc[q]
    BY StepMoves, MovesTyped DEF Overlap, TypedSection, ProcStep, OnMachines, RuleStep
  <1>1. proc[p].pc \in {"unlock", "drop"} /\ UNCHANGED <<attached, rules, record>>
    BY DEF Unlock, DropEntry, stores
  <1>2. \/ Set(p, "pick", "pair", <<>>)
        \/ ~Removing(p) /\ (End(p) \/ Goto(p, "drop"))
    BY <1>0, <1>1 DEF Unlock, DropEntry, GoOn, Abort, NoFault, Holds, Shares, OwnMachines, Removing
  <1>3. CASE Removing(p)
    <2>0. /\ proc'[p].pc = "pick" /\ proc'[p].op = proc[p].op /\ proc'[p].hosts = proc[p].hosts
          /\ proc'[p].pairs = proc[p].pairs
      BY <1>0, <1>2, <1>3, SetPair
    <2>1. \A q \in Procs \ {p} : proc'[q] = proc[q] /\ ~Working(q)
      BY <1>0, <1>3, RemovesAlone
    <2>2. \A h \in proc[p].hosts : \A d \in Destinations :
              <<h, d>> \in rules' => ToDelete(p, <<h, d>>)'
      BY <1>1, <1>3, <2>0 DEF TracedNow, RemovalsMeet, ToDelete
    <2>3. /\ rules' \subseteq rules /\ \A x \in Hosts \ proc[p].hosts : record'[x] = record[x]
          /\ proc'[p].pc # "look" /\ attached' = attached
      BY <1>1, <2>0
    <2>4. Removing(p)'
      BY <1>3, <2>0 DEF Removing, Working
    <2> QED BY ONLY <1>0, <1>3, <2>0, <2>1, <2>2, <2>3, <2>4, TracedNow, p \in Procs,
                    RemovalTraced DEF TracedNow
  <1>4. CASE ~Removing(p)
    <2>1. proc[p].op # "delete_host" /\ proc[p].hosts \subseteq attached
      BY <1>1, <1>4 DEF Removing, Working, TracedNow, OthersAttached
    <2>2. ~Removing(p)' /\ (proc'[p].op # "delete_host" => proc'[p].hosts \subseteq attached)
      BY <1>0, <1>2, <2>1, Ended, Went, SetPair DEF Removing, Working
    <2> QED BY ONLY <1>0, <1>1, <1>4, <2>2, TracedNow, p \in Procs, OtherTraced DEF TracedNow
  <1> QED BY <1>3, <1>4

(* The steps of requests and tasks, while no removal overlaps and nothing fails. *)
LEMMA StepTraced ==
    ASSUME Overlap, Traced, NEW p \in Procs, ProcStep(p)
    PROVE  Traced'
  <1> SUFFICES ASSUME ~crossed', faults' = 0
               PROVE  TracedNow'
    BY DEF Traced, TracedNow
  <1>0. TypeOK
    BY DEF Overlap, TypedSection
  <1>1. ~crossed /\ faults = 0 /\ ~CallFails(p) /\ ~Killed(p)
    BY <1>0, StillClear
  <1>2. TracedNow
    BY <1>1 DEF Traced, TracedNow
  <1> QED BY <1>1, <1>2, BeginTraced, CopyTraced, LookUpTraced, PickTraced,
             FinishTraced, TakeTraced, PutTraced, FindTraced, StoreTraced, DropTraced,
             UnlockTraced DEF ProcStep, RuleStep

(* When nothing is under way every rule is on record, and no machine that  *)
(* is gone has one: by an invariant on the pairs each removal has before   *)
(* it, of which the record says nothing any more.                          *)
THEOREM EveryRuleTraced == Spec => []NoRuleForgotten
  <1>1. Init => Traced
    <2>1. Init => RulesKnown
      BY DEF Init, RulesKnown
    <2>2. Init => RemovalsMeet
      BY DEF Init, RemovalsMeet
    <2>3. Init => RecordsOfAttached
      BY DEF Init, RecordsOfAttached
    <2>4. Init => OthersAttached
      BY DEF Init, OthersAttached, IdleProc
    <2> QED BY <2>1, <2>2, <2>3, <2>4 DEF Traced
  <1>2. Overlap /\ Traced /\ [Next]_vars => Traced'
    <2> SUFFICES ASSUME Overlap, Traced, [Next]_vars
                 PROVE  Traced'
      OBVIOUS
    <2>1. ASSUME NEW p \in Procs, ProcStep(p)
          PROVE  Traced'
      BY <2>1, StepTraced
    <2>2. CASE LockExpires
      <3>1. UNCHANGED <<attached, rules, record, proc, crossed>> /\ (faults' = 0 => faults = 0)
        BY <2>2 DEF LockExpires, stores, Overlap, TypedSection, TypeOK
      <3> QED BY <3>1 DEF Traced, RulesKnown, RemovalsMeet, RecordsOfAttached, OthersAttached,
                          Storing, Dropping, ToDelete, Removing, Working
    <2>3. CASE StrayDrop \/ UNCHANGED vars
      <3>1. UNCHANGED <<attached, rules, record, proc, crossed, faults>>
        BY <2>3, StrayRests DEF Rests, stores, history
      <3> QED BY <3>1 DEF Traced, RulesKnown, RemovalsMeet, RecordsOfAttached, OthersAttached,
                          Storing, Dropping, ToDelete, Removing, Working
    <2> QED BY <2>1, <2>2, <2>3 DEF Next, ProcStep
  <1>3. Overlap /\ Traced => NoRuleForgotten
    <2> SUFFICES ASSUME Overlap, Traced, ~crossed, faults = 0, \A p \in Procs : ~Working(p)
                 PROVE  /\ rules = {pair \in Pairs : pair[2] \in record[pair[1]]}
                        /\ \A h \in Hosts \ attached : record[h] = {}
      BY DEF NoRuleForgotten
    <2>1. TypeOK /\ RulesKnown /\ RecordsOfAttached /\ NoFault /\ StoredIsPermitted
      BY DEF Overlap, TypedSection, Traced
    <2>2. \A h \in Hosts, d \in Destinations : <<h, d>> \in rules => d \in record[h]
      BY <2>1 DEF RulesKnown, Storing, Dropping, Removing, Working
    <2>3. \A h \in Hosts : \A d \in record[h] : <<h, d>> \in rules
      BY <2>1 DEF StoredIsPermitted, NoFault, Working
    <2>4. \A pair \in Pairs : pair \in rules <=> pair[2] \in record[pair[1]]
      <3> TAKE pair \in Pairs
      <3>1. pair[1] \in Hosts /\ pair[2] \in Destinations /\ pair = <<pair[1], pair[2]>>
        BY DEF Pairs
      <3> QED BY <2>2, <2>3, <3>1
    <2>5. rules = {pair \in Pairs : pair[2] \in record[pair[1]]}
      BY <2>1, <2>4 DEF TypeOK
    <2>6. \A h \in Hosts \ attached : record[h] = {}
      BY <2>1 DEF RecordsOfAttached, Removing
    <2> QED BY <2>5, <2>6
  <1> QED BY <1>1, <1>2, <1>3, OverlapInvariant, PTL DEF Spec
-----------------------------------------------------------------------------
(* The machines reach the servers *)

Adding(q) == Working(q) /\ proc[q].op = "add_host"

ToAdd(q, pair) ==
    \/ pair \in proc[q].pairs
    \/ proc[q].pc \in {"lock", "put", "find", "store"} /\ proc[q].pair = pair

ServersKnown ==
    \A h \in attached : \A d \in servers :
        d \in record[h] \/ \E q \in Procs : Adding(q) /\ h \in proc[q].hosts

(* A request has before it, or done, each new server for every machine.    *)
UpstreamsMeet ==
    \A q \in Procs : Working(q) /\ proc[q].op = "add_upstream" =>
        /\ attached \subseteq proc[q].hosts
        /\ ~proc[q].failed =>
               \A h \in attached : \A d \in proc[q].adds : d \in record[h] \/ ToAdd(q, <<h, d>>)

(* A task has before it, or done, every server for its machine, once it    *)
(* has copied the rules of another machine, which there is.                *)
AdditionsMeet ==
    \A q \in Procs : Adding(q) =>
        /\ proc[q].hosts \subseteq attached
        /\ proc[q].pc = "copy" =>
               attached \ proc[q].hosts # {} /\ \A h \in proc[q].hosts : record[h] = {}
        /\ proc[q].pc # "copy" /\ ~proc[q].failed =>
               \A h \in proc[q].hosts : \A d \in servers : d \in record[h] \/ ToAdd(q, <<h, d>>)

(* There is a machine, and only requests add servers. *)
Background ==
    /\ attached # {}
    /\ \A q \in Procs : Working(q) /\ proc[q].op # "add_upstream" => proc[q].adds = {}

KnownNow == ServersKnown /\ UpstreamsMeet /\ AdditionsMeet /\ Background

Known == ~disturbed /\ ~emptied /\ ~expired => KnownNow

(* Nobody works beside the addition of a machine. *)
LEMMA AddingAlone ==
    ASSUME Alone, ~disturbed, NEW p \in Procs, Working(p)
    PROVE  \A q \in Procs \ {p} : ~Adding(q)
  BY DEF Alone, Exclusive, Adding

(* What is on record for an attached machine stays on record. *)
LEMMA AttachedKeep ==
    ASSUME Overlap, ~expired, NEW p \in Procs, ProcStep(p)
    PROVE  \A h \in attached : record[h] \subseteq record'[h]
  <1>0. TypedSection /\ TypeOK /\ Local(p) /\ OwnMachines(p)
    BY DEF Overlap, TypedSection, SectionOK, OnMachines
  <1> SUFFICES ASSUME NEW h \in attached
               PROVE  record[h] \subseteq record'[h]
    OBVIOUS
  <1>1. h \in Hosts
    BY <1>0 DEF TypeOK
  <1>2. CASE EraseRecord(p)
    <2>1. proc[p].pair[1] # h
      BY <1>0, <1>2 DEF EraseRecord, OwnMachines, InSection
    <2> QED BY <1>0, <1>1, <1>2, <2>1 DEF EraseRecord, TypeOK
  <1>3. CASE record' = [record EXCEPT ![proc[p].pair[1]] = @ \cup {proc[p].pair[2]}]
    BY <1>0, <1>1, <1>3 DEF TypeOK
  <1> QED BY <1>0, <1>2, <1>3, RecordSteps

(* A process that goes on, with what it still has to add. *)
LEMMA OnwardKnown ==
    ASSUME KnownNow, NEW p \in Procs, \A q \in Procs \ {p} : proc'[q] = proc[q] /\ ~Adding(q),
           UNCHANGED <<attached, servers>>, \A h \in attached : record[h] \subseteq record'[h],
           Working(p), Working(p)', proc'[p].pc # "copy", proc'[p].op = proc[p].op,
           proc'[p].hosts = proc[p].hosts, proc'[p].adds = proc[p].adds,
           proc[p].op = "add_upstream" /\ ~proc'[p].failed =>
               \A h \in attached : \A d \in proc[p].adds : d \in record'[h] \/ ToAdd(p, <<h, d>>)',
           proc[p].op = "add_host" /\ ~proc'[p].failed =>
               \A h \in proc[p].hosts : \A d \in servers : d \in record'[h] \/ ToAdd(p, <<h, d>>)'
    PROVE  KnownNow'
  <1>1. \A q \in Procs : Adding(q)' <=> Adding(q)
    BY DEF Adding, Working
  <1>2. ServersKnown'
    BY <1>1 DEF KnownNow, ServersKnown, Adding
  <1>3. UpstreamsMeet'
    <2> SUFFICES ASSUME NEW q \in Procs, Working(q)', proc'[q].op = "add_upstream"
                 PROVE  /\ attached \subseteq proc'[q].hosts
                        /\ ~proc'[q].failed =>
                               \A h \in attached : \A d \in proc'[q].adds :
                                   d \in record'[h] \/ ToAdd(q, <<h, d>>)'
      BY DEF UpstreamsMeet
    <2>1. CASE q = p
      BY <2>1 DEF KnownNow, UpstreamsMeet
    <2>2. CASE q # p
      <3>1. Working(q) /\ proc[q].op = "add_upstream" /\ \A x : ToAdd(q, x)' <=> ToAdd(q, x)
        BY <2>2 DEF Working, ToAdd
      <3> QED BY <2>2, <3>1 DEF KnownNow, UpstreamsMeet
    <2> QED BY <2>1, <2>2
  <1>4. AdditionsMeet'
    <2>1. \A q \in Procs : Adding(q)' => q = p
      BY <1>1
    <2> QED BY <1>1, <2>1 DEF KnownNow, AdditionsMeet, Adding
  <1>5. Background'
    BY DEF KnownNow, Background, Working
  <1> QED BY <1>2, <1>3, <1>4, <1>5 DEF KnownNow

(* A process that ends, once its servers are known to every machine. *)
LEMMA EndedKnown ==
    ASSUME KnownNow, NEW p \in Procs, \A q \in Procs \ {p} : proc'[q] = proc[q] /\ ~Adding(q),
           UNCHANGED <<attached, record>>, ~Working(p)',
           \A h \in attached : \A d \in servers' : d \in record[h]
    PROVE  KnownNow'
  <1>1. \A q \in Procs : ~Adding(q)'
    BY DEF Adding, Working
  <1>2. ServersKnown'
    BY <1>1 DEF ServersKnown
  <1>3. UpstreamsMeet'
    <2> SUFFICES ASSUME NEW q \in Procs, Working(q)', proc'[q].op = "add_upstream"
                 PROVE  /\ attached \subseteq proc'[q].hosts
                        /\ ~proc'[q].failed =>
                               \A h \in attached : \A d \in proc'[q].adds :
                                   d \in record[h] \/ ToAdd(q, <<h, d>>)'
      BY DEF UpstreamsMeet
    <2>1. q # p
      OBVIOUS
    <2>2. Working(q) /\ proc'[q] = proc[q] /\ \A x : ToAdd(q, x)' <=> ToAdd(q, x)
      BY <2>1 DEF Working, ToAdd
    <2> QED BY <2>2 DEF KnownNow, UpstreamsMeet
  <1>4. AdditionsMeet'
    BY <1>1 DEF AdditionsMeet
  <1>5. Background'
    BY DEF KnownNow, Background, Working
  <1> QED BY <1>2, <1>3, <1>4, <1>5 DEF KnownNow

LEMMA BeginKnown ==
    ASSUME Overlap, KnownNow, ~disturbed', ~emptied', NEW p \in Procs,
           \/ \E adds \in (SUBSET Destinations) \ {{}} : AddUpstream(p, adds)
           \/ \E h \in Hosts : AddHost(p, h) \/ DeleteHost(p, h)
    PROVE  KnownNow'
  <1>0. TypeOK /\ OnMachines /\ \A q \in Procs \ {p} : proc'[q] = proc[q]
    BY StepMoves, MovesTyped DEF Overlap, TypedSection, ProcStep
  <1>1. ASSUME NEW adds, AddUpstream(p, adds)
        PROVE  KnownNow'
    <2>1. Begin(p, "add_upstream", "pick", attached, adds)
          /\ UNCHANGED <<attached, servers, record>>
      BY <1>1 DEF AddUpstream, stores
    <2>2. ~Working(p) /\ Starts(p, "add_upstream", "pick", attached, adds)
      BY <1>0, <2>1, Began
    <2>3. /\ proc'[p].op = "add_upstream" /\ proc'[p].hosts = attached /\ proc'[p].adds = adds
          /\ \A h \in attached : \A d \in adds : ToAdd(p, <<h, d>>)'
          /\ ~Adding(p) /\ ~Adding(p)'
      BY ONLY <2>2 DEF Starts, ToAdd, Adding
    <2>4. \A q \in Procs \ {p} : /\ Adding(q)' <=> Adding(q)
                                 /\ Working(q)' <=> Working(q)
                                 /\ \A x : ToAdd(q, x)' <=> ToAdd(q, x)
      BY <1>0 DEF Adding, Working, ToAdd
    <2>5. ServersKnown'
      BY <1>0, <2>1, <2>3, <2>4 DEF KnownNow, ServersKnown
    <2>6. UpstreamsMeet'
      BY <1>0, <2>1, <2>3, <2>4 DEF KnownNow, UpstreamsMeet
    <2>7. AdditionsMeet'
      BY <1>0, <2>1, <2>3, <2>4 DEF KnownNow, AdditionsMeet
    <2>8. Background'
      BY <1>0, <2>1, <2>3, <2>4 DEF KnownNow, Background
    <2> QED BY <2>5, <2>6, <2>7, <2>8 DEF KnownNow
  (* A machine is added when nothing else is under way. *)
  <1>2. ASSUME NEW h \in Hosts, AddHost(p, h)
        PROVE  KnownNow'
    <2>1. /\ Begin(p, "add_host", "copy", {h}, {}) /\ UNCHANGED <<servers, record>>
          /\ attached' = attached \cup {h} /\ h \notin used
      BY <1>2 DEF AddHost
    <2>2. ~Working(p) /\ Starts(p, "add_host", "copy", {h}, {})
      BY <1>0, <2>1, Began
    <2>3. /\ proc'[p].op = "add_host" /\ proc'[p].hosts = {h} /\ proc'[p].adds = {}
          /\ proc'[p].pc = "copy" /\ Adding(p)'
      BY ONLY <2>2 DEF Starts, Adding, Working
    <2>4. \A q \in Procs : ~Working(q)
      BY <2>1 DEF Begin
    <2>5. /\ \A q \in Procs : ~Adding(q)
          /\ \A q \in Procs \ {p} : ~Working(q)' /\ ~Adding(q)'
      BY <1>0, <2>4 DEF Adding, Working
    <2>6. record[h] = {} /\ h \notin attached
      BY <1>0, <2>1 DEF OnMachines, TypeOK
    <2>7. ServersKnown'
      BY <2>1, <2>3, <2>5 DEF KnownNow, ServersKnown
    <2>8. UpstreamsMeet'
      BY <2>3, <2>5 DEF UpstreamsMeet
    <2>9. AdditionsMeet'
      BY <2>1, <2>3, <2>5, <2>6 DEF KnownNow, Background, AdditionsMeet
    <2>10. Background'
      BY <2>1, <2>3, <2>5 DEF KnownNow, Background
    <2> QED BY <2>7, <2>8, <2>9, <2>10 DEF KnownNow
  <1>3. ASSUME NEW h \in Hosts, DeleteHost(p, h)
        PROVE  KnownNow'
    <2>1. /\ Begin(p, "delete_host", "look", {h}, {}) /\ UNCHANGED <<servers, record>>
          /\ attached' = attached \ {h} /\ attached' # {}
      BY <1>3 DEF DeleteHost
    <2>2. ~Working(p) /\ Starts(p, "delete_host", "look", {h}, {})
      BY <1>0, <2>1, Began
    <2>3. proc'[p].op = "delete_host" /\ proc'[p].adds = {} /\ ~Adding(p) /\ ~Adding(p)'
      BY ONLY <2>2 DEF Starts, Adding
    <2>4. \A q \in Procs : ~Adding(q) /\ ~Adding(q)'
      <3>1. \A q \in Procs : Working(q) => proc[q].op # "add_host"
        BY <2>1 DEF Begin
      <3> QED BY <1>0, <2>3, <3>1 DEF Adding, Working
    <2>5. \A q \in Procs \ {p} : /\ Working(q)' <=> Working(q)
                                 /\ \A x : ToAdd(q, x)' <=> ToAdd(q, x)
      BY <1>0 DEF Working, ToAdd
    <2>6. ServersKnown'
      BY <2>1, <2>4 DEF KnownNow, ServersKnown
    <2>7. UpstreamsMeet'
      BY <1>0, <2>1, <2>3, <2>5 DEF KnownNow, UpstreamsMeet
    <2>8. AdditionsMeet'
      BY <2>4 DEF AdditionsMeet
    <2>9. Background'
      BY <1>0, <2>1, <2>3, <2>5 DEF KnownNow, Background
    <2> QED BY <2>6, <2>7, <2>8, <2>9 DEF KnownNow
  <1> QED BY <1>1, <1>2, <1>3

(* The rules copied are those of a machine that has one for every server. *)
LEMMA CopyKnown ==
    ASSUME Overlap, KnownNow, ~disturbed, ~disturbed', NEW p \in Procs, CopyRules(p)
    PROVE  KnownNow'
  <1>0. /\ TypeOK /\ OwnMachines(p) /\ Alone /\ \A q \in Procs \ {p} : proc'[q] = proc[q]
    BY StepMoves, MovesTyped DEF Overlap, TypedSection, ProcStep, OnMachines
  <1>1. /\ proc[p].pc = "copy" /\ proc[p].op = "add_host" /\ Adding(p) /\ Working(p)
        /\ UNCHANGED <<attached, servers, record>>
    BY <1>0 DEF CopyRules, OwnMachines, Adding, Working, stores
  <1>2. \A q \in Procs \ {p} : proc'[q] = proc[q] /\ ~Adding(q)
    BY <1>0, <1>1, AddingAlone
  <1>3. \A h \in attached \ proc[p].hosts : \A d \in servers : d \in record[h]
    BY <1>2 DEF KnownNow, ServersKnown
  <1>4. /\ attached \ proc[p].hosts # {} /\ \A h \in proc[p].hosts : record[h] = {}
        /\ proc[p].hosts \subseteq attached
    BY <1>1 DEF KnownNow, AdditionsMeet
  <1>5. CASE {h \in Hosts : record[h] # {}} = {}
    <2>1. servers = {}
      <3>1. PICK h \in attached \ proc[p].hosts : TRUE
        BY <1>4
      <3>2. h \in Hosts
        BY <1>0 DEF TypeOK
      <3> QED BY <1>3, <1>5, <3>1, <3>2
    <2>2. ~Working(p)'
      BY <1>0, <1>5, Ended DEF CopyRules, Working
    <2> QED BY ONLY <1>1, <1>2, <2>1, <2>2, KnownNow, p \in Procs, EndedKnown
  <1>6. ASSUME NEW source \in Hosts, record[source] # {}, source \in attached,
               Set(p, "pick", "pairs", proc[p].hosts \X record[source])
        PROVE  KnownNow'
    <2>1. PICK pairs : pairs = proc[p].hosts \X record[source]
      OBVIOUS
    <2>2. \A h \in proc[p].hosts : \A d \in servers : <<h, d>> \in pairs
      <3>1. \A d \in servers : d \in record[source]
        BY <1>3, <1>4, <1>6
      <3> QED BY ONLY <2>1, <3>1
    <2>3. Set(p, "pick", "pairs", pairs)
      BY <1>6, <2>1
    <2>4. /\ proc'[p].pc = "pick" /\ proc'[p].op = proc[p].op /\ proc'[p].hosts = proc[p].hosts
          /\ proc'[p].adds = proc[p].adds /\ proc'[p].pairs = pairs
      BY <1>0, <2>3, SetPairs
    <2>5. \A h \in proc[p].hosts : \A d \in servers : ToAdd(p, <<h, d>>)'
      BY <2>2, <2>4 DEF ToAdd
    <2>6. Working(p)' /\ proc[p].op # "add_upstream"
      BY <1>1, <2>4 DEF Working
    <2> QED BY ONLY <1>1, <1>2, <2>4, <2>5, <2>6, KnownNow, p \in Procs, OnwardKnown
  <1>7. CASE {h \in Hosts : record[h] # {}} # {}
    <2>1. PICK source \in {h \in Hosts : record[h] # {}} :
              /\ Set(p, "pick", "pairs", proc[p].hosts \X record[source])
              /\ disturbed' = (disturbed \/ source \notin attached)
      BY <1>7 DEF CopyRules
    <2>2. source \in attached
      BY <2>1
    <2> QED BY <1>6, <2>1, <2>2
  <1> QED BY <1>5, <1>7

(* A process that goes on and drops no pair before it is on record. *)
LEMMA StillKnown ==
    ASSUME KnownNow, NEW p \in Procs, \A q \in Procs \ {p} : proc'[q] = proc[q] /\ ~Adding(q),
           UNCHANGED <<attached, servers>>, \A h \in attached : record[h] \subseteq record'[h],
           Working(p), Working(p)', proc[p].pc # "copy", proc'[p].pc # "copy",
           proc'[p].op = proc[p].op, proc'[p].hosts = proc[p].hosts, proc'[p].adds = proc[p].adds,
           proc'[p].failed = TRUE \/ proc'[p].failed = proc[p].failed,
           proc[p].op # "delete_host" /\ ~proc'[p].failed =>
               \A h \in attached : \A d : ToAdd(p, <<h, d>>) => d \in record'[h] \/ ToAdd(p, <<h, d>>)'
    PROVE  KnownNow'
  <1>1. ASSUME proc[p].op = "add_upstream", ~proc'[p].failed
        PROVE  \A h \in attached : \A d \in proc[p].adds : d \in record'[h] \/ ToAdd(p, <<h, d>>)'
    <2>1. \A h \in attached : \A d \in proc[p].adds : d \in record[h] \/ ToAdd(p, <<h, d>>)
      BY <1>1 DEF KnownNow, UpstreamsMeet
    <2> QED BY <1>1, <2>1
  <1>2. ASSUME proc[p].op = "add_host", ~proc'[p].failed
        PROVE  \A h \in proc[p].hosts : \A d \in servers : d \in record'[h] \/ ToAdd(p, <<h, d>>)'
    <2>1. /\ \A h \in proc[p].hosts : \A d \in servers : d \in record[h] \/ ToAdd(p, <<h, d>>)
          /\ proc[p].hosts \subseteq attached
      BY <1>2 DEF KnownNow, AdditionsMeet, Adding
    <2> QED BY <1>2, <2>1
  <1> QED BY <1>1, <1>2, OnwardKnown

(* What the steps of a process at work have in common. *)
AtWork(p) ==
    /\ TypedSection /\ TypeOK /\ Local(p) /\ OwnMachines(p) /\ Working(p)
    /\ \A q \in Procs \ {p} : proc'[q] = proc[q] /\ ~Adding(q)
    /\ \A h \in attached : record[h] \subseteq record'[h]

LEMMA WorkAlone ==
    ASSUME Overlap, ~disturbed, ~expired, NEW p \in Procs, ProcStep(p), Working(p)
    PROVE  AtWork(p)
  <1>1. TypedSection /\ TypeOK /\ Local(p) /\ OwnMachines(p) /\ Alone
    BY DEF Overlap, TypedSection, SectionOK, OnMachines
  <1>2. \A q \in Procs \ {p} : proc'[q] = proc[q]
    BY <1>1, StepMoves, MovesTyped
  <1>3. \A q \in Procs \ {p} : ~Adding(q)
    BY <1>1, AddingAlone
  <1> QED BY <1>1, <1>2, <1>3, AttachedKeep DEF AtWork

LEMMA LookUpKnown ==
    ASSUME NEW p \in Procs, AtWork(p), KnownNow, LookUp(p)
    PROVE  KnownNow'
  <1>1. /\ proc[p].pc = "look" /\ proc[p].op = "delete_host" /\ ~Adding(p)
        /\ UNCHANGED <<attached, servers, record>>
    BY DEF AtWork, LookUp, OwnMachines, Adding, stores
  <1>2. CASE End(p)
    <2>1. ~Working(p)'
      BY <1>2, Ended DEF AtWork, Working
    <2>2. \A h \in attached : \A d \in servers : d \in record[h]
      BY <1>1 DEF AtWork, KnownNow, ServersKnown
    <2> QED BY ONLY AtWork(p), <1>1, <2>1, <2>2, KnownNow, p \in Procs, EndedKnown DEF AtWork
  <1>3. CASE ~End(p)
    <2>1. PICK pairs : Set(p, "pick", "pairs", pairs)
      BY <1>3 DEF LookUp
    <2>2. /\ proc'[p].pc = "pick" /\ proc'[p].op = proc[p].op /\ proc'[p].hosts = proc[p].hosts
          /\ proc'[p].adds = proc[p].adds /\ proc'[p].failed = proc[p].failed
      BY <2>1, SetPairs DEF AtWork
    <2>3. Working(p)'
      BY <2>2 DEF Working
    <2> QED BY ONLY AtWork(p), <1>1, <2>2, <2>3, KnownNow, p \in Procs, StillKnown DEF AtWork
  <1> QED BY <1>2, <1>3

LEMMA PickKnown ==
    ASSUME NEW p \in Procs, AtWork(p), KnownNow, PickPair(p)
    PROVE  KnownNow'
  <1>1. proc[p].pc = "pick" /\ UNCHANGED <<attached, servers, record>>
    BY DEF PickPair, stores
  <1>2. PICK pair \in proc[p].pairs :
            /\ proc'[p].pairs = proc[p].pairs \ {pair}
            /\ \/ proc'[p].pc = "pick" /\ NothingToDo(p, pair)
               \/ proc'[p].pc = "lock" /\ proc'[p].pair = pair
    BY Picked DEF AtWork
  <1>3. /\ proc'[p].op = proc[p].op /\ proc'[p].hosts = proc[p].hosts
        /\ proc'[p].adds = proc[p].adds /\ proc'[p].failed = proc[p].failed
    BY Picked DEF AtWork
  <1>4. ASSUME proc[p].op # "delete_host", NEW h \in attached, NEW d, ToAdd(p, <<h, d>>)
        PROVE  d \in record[h] \/ ToAdd(p, <<h, d>>)'
    <2>1. <<h, d>> \in proc[p].pairs
      BY <1>1, <1>4 DEF ToAdd
    <2>2. CASE pair = <<h, d>>
      <3>1. NothingToDo(p, pair) => d \in record[h]
        BY <1>4, <2>2 DEF NothingToDo
      <3> QED BY <1>2, <2>2, <3>1 DEF ToAdd
    <2>3. CASE pair # <<h, d>>
      BY <1>2, <2>1, <2>3 DEF ToAdd
    <2> QED BY <2>2, <2>3
  <1>5. Working(p)' /\ proc'[p].pc # "copy"
    BY <1>2 DEF Working
  <1> QED BY ONLY AtWork(p), <1>1, <1>3, <1>4, <1>5, KnownNow, p \in Procs, StillKnown DEF AtWork

(* At its end a request has every pair on record, and a task too. *)
LEMMA FinishKnown ==
    ASSUME NEW p \in Procs, AtWork(p), KnownNow, Finish(p)
    PROVE  KnownNow'
  <1>1. /\ proc[p].pc = "pick" /\ proc[p].pairs = {} /\ ~proc[p].failed
        /\ UNCHANGED <<attached, record>> /\ servers' = servers \cup proc[p].adds
    BY DEF AtWork, OwnMachines, Finish
  <1>2. ~Working(p)'
    BY Ended DEF AtWork, Finish, Working
  <1>3. \A pair : ~ToAdd(p, pair)
    BY <1>1 DEF ToAdd
  <1>4. \A h \in attached : \A d \in servers : d \in record[h]
    <2>1. Adding(p) => \A h \in proc[p].hosts : \A d \in servers : d \in record[h]
      BY <1>1, <1>3 DEF KnownNow, AdditionsMeet
    <2> QED BY <2>1 DEF AtWork, KnownNow, ServersKnown
  <1>5. \A h \in attached : \A d \in proc[p].adds : d \in record[h]
    <2>1. CASE proc[p].op = "add_upstream"
      BY <1>1, <1>3, <2>1 DEF AtWork, KnownNow, UpstreamsMeet
    <2>2. CASE proc[p].op # "add_upstream"
      BY <2>2 DEF AtWork, KnownNow, Background
    <2> QED BY <2>1, <2>2
  <1> QED BY ONLY AtWork(p), <1>1, <1>2, <1>4, <1>5, KnownNow, p \in Procs, EndedKnown DEF AtWork

(* A request or task that is aborted, but not the addition of a machine. *)
LEMMA AbortKnown ==
    ASSUME NEW p \in Procs, AtWork(p), KnownNow, ~disturbed', Abort(p),
           UNCHANGED <<attached, servers, record>>
    PROVE  KnownNow'
  <1>1. ~Adding(p)
    BY DEF Abort, Adding
  <1>2. ~Working(p)'
    BY Ended DEF AtWork, Abort, Working
  <1>3. \A h \in attached : \A d \in servers : d \in record[h]
    BY <1>1 DEF AtWork, KnownNow, ServersKnown
  <1> QED BY ONLY AtWork(p), <1>2, <1>3, KnownNow, p \in Procs, EndedKnown,
                  UNCHANGED <<attached, servers, record>> DEF AtWork

(* A rule that is added: its pair is at hand until it is on record. *)
LEMMA RuleKnown ==
    ASSUME NEW p \in Procs, AtWork(p), KnownNow, ~disturbed', RuleStep(p)
    PROVE  KnownNow'
  <1>0. UNCHANGED <<attached, servers>>
    BY DEF RuleStep, TakeLock, PutRule, FindRecord, StoreRecord, DeleteRule, EraseRecord, Unlock,
           DropEntry,
           stores
  <1>1. ASSUME NEW pc \in {"put", "find", "delete", "erase"}, Goto(p, pc),
               proc[p].pc \in {"lock", "put", "delete"},
               proc[p].op # "delete_host" => pc \in {"put", "find"}
        PROVE  KnownNow'
    <2>1. /\ proc'[p].pc = pc /\ proc'[p].op = proc[p].op /\ proc'[p].hosts = proc[p].hosts
          /\ proc'[p].adds = proc[p].adds /\ proc'[p].pairs = proc[p].pairs
          /\ proc'[p].pair = proc[p].pair /\ proc'[p].failed = proc[p].failed
      BY <1>1, Went DEF AtWork
    <2>2. Working(p)' /\ proc[p].pc # "copy" /\ proc'[p].pc # "copy"
      BY <1>1, <2>1 DEF Working
    <2>3. ASSUME proc[p].op # "delete_host", NEW h \in attached, NEW d, ToAdd(p, <<h, d>>)
          PROVE  d \in record'[h] \/ ToAdd(p, <<h, d>>)'
      BY <1>1, <2>1, <2>3 DEF ToAdd
    <2> QED BY ONLY AtWork(p), <1>0, <2>1, <2>2, <2>3, KnownNow, p \in Procs, StillKnown DEF AtWork
  <1>2. CASE TakeLock(p)
    <2>1. CASE Abort(p)
      BY <1>2, <2>1, AbortKnown DEF TakeLock, stores
    <2>2. CASE ~Abort(p)
      <3>1. proc[p].pc = "lock" /\ Goto(p, IF proc[p].op = "delete_host" THEN "delete" ELSE "put")
        BY <1>2, <2>2 DEF TakeLock
      <3> QED BY <1>1, <3>1
    <2> QED BY <2>1, <2>2
  <1>3. CASE PutRule(p)
    BY <1>1, <1>3 DEF PutRule
  <1>4. CASE FindRecord(p)
    <2>1. Set(p, "store", "seen", record[proc[p].pair[1]]) /\ proc[p].pc = "find"
      BY <1>4 DEF FindRecord
    <2>2. /\ proc'[p].pc = "store" /\ proc'[p].op = proc[p].op /\ proc'[p].hosts = proc[p].hosts
          /\ proc'[p].adds = proc[p].adds /\ proc'[p].pairs = proc[p].pairs
          /\ proc'[p].pair = proc[p].pair /\ proc'[p].failed = proc[p].failed
      BY <2>1, SetSeen DEF AtWork
    <2>3. Working(p)' /\ proc[p].pc # "copy" /\ proc'[p].pc # "copy"
      BY <2>1, <2>2 DEF Working
    <2>4. \A h \in attached : \A d : ToAdd(p, <<h, d>>) => ToAdd(p, <<h, d>>)'
      BY <2>2 DEF ToAdd
    <2> QED BY ONLY AtWork(p), <1>0, <2>2, <2>3, <2>4, KnownNow, p \in Procs, StillKnown DEF AtWork
  <1>5. CASE StoreRecord(p) \/ EraseRecord(p)
    <2>1. Leave(p, FALSE) /\ proc[p].pc \in {"store", "erase"}
      BY <1>5 DEF StoreRecord, EraseRecord
    <2>2. /\ proc'[p].pc = "unlock" /\ proc'[p].op = proc[p].op /\ proc'[p].hosts = proc[p].hosts
          /\ proc'[p].adds = proc[p].adds /\ proc'[p].pairs = proc[p].pairs
          /\ proc'[p].failed = FALSE /\ proc[p].failed = FALSE
      BY <2>1, Left DEF AtWork, OwnMachines, TypeOK, ProcType
    <2>3. Working(p)' /\ proc[p].pc # "copy" /\ proc'[p].pc # "copy"
      BY <2>1, <2>2 DEF Working
    <2>4. ASSUME proc[p].op # "delete_host", NEW h \in attached, NEW d, ToAdd(p, <<h, d>>)
          PROVE  d \in record'[h] \/ ToAdd(p, <<h, d>>)'
      <3>1. CASE <<h, d>> \in proc[p].pairs
        BY <2>2, <3>1 DEF ToAdd
      <3>2. CASE proc[p].pair = <<h, d>>
        <4>1. StoreRecord(p) /\ h \in Hosts
          BY <1>5, <2>4 DEF AtWork, OwnMachines, EraseRecord, TypeOK
        <4>2. record' = [record EXCEPT ![h] = proc[p].seen \cup {d}]
          BY <3>2, <4>1 DEF StoreRecord, Stored
        <4> QED BY <4>1, <4>2 DEF AtWork, TypeOK
      <3> QED BY <2>4, <3>1, <3>2 DEF ToAdd
    <2> QED BY ONLY AtWork(p), <1>0, <2>2, <2>3, <2>4, KnownNow, p \in Procs, StillKnown DEF AtWork
  <1>6. CASE DeleteRule(p)
    <2>1. proc[p].pc = "delete" /\ proc[p].op = "delete_host" /\ Goto(p, "erase")
      BY <1>6 DEF DeleteRule, AtWork, OwnMachines
    <2> QED BY <1>1, <2>1
  <1>7. CASE Unlock(p) \/ DropEntry(p)
    <2>1. CASE Abort(p)
      BY <1>7, <2>1, AbortKnown DEF Unlock, DropEntry, stores
    <2>2. CASE ~Abort(p)
      <3>1. /\ Set(p, "pick", "pair", <<>>) \/ Goto(p, "drop")
            /\ proc[p].pc \in {"unlock", "drop"}
        BY <1>7, <2>2 DEF Unlock, DropEntry, GoOn
      <3>2. /\ proc'[p].pc \in {"pick", "drop"} /\ proc'[p].op = proc[p].op
            /\ proc'[p].hosts = proc[p].hosts /\ proc'[p].adds = proc[p].adds
            /\ proc'[p].pairs = proc[p].pairs /\ proc'[p].failed = proc[p].failed
        BY <3>1, SetPair, Went DEF AtWork
      <3>3. Working(p)' /\ proc[p].pc # "copy" /\ proc'[p].pc # "copy"
        BY <3>1, <3>2 DEF Working
      <3>4. \A h \in attached : \A d : ToAdd(p, <<h, d>>) => ToAdd(p, <<h, d>>)'
        BY <3>1, <3>2 DEF ToAdd
      <3> QED BY ONLY AtWork(p), <1>0, <3>2, <3>3, <3>4, KnownNow, p \in Procs, StillKnown
              DEF AtWork
    <2> QED BY <2>1, <2>2
  <1> QED BY <1>2, <1>3, <1>4, <1>5, <1>6, <1>7 DEF RuleStep

(* A process whose call failed adds nothing any more. *)
LEMMA FailKnown ==
    ASSUME NEW p \in Procs, AtWork(p), KnownNow, CallFails(p)
    PROVE  KnownNow'
  <1>1. /\ Leave(p, TRUE) /\ UNCHANGED <<attached, servers, record>>
        /\ proc[p].pc # "copy"
    BY DEF CallFails, InSection
  <1>2. /\ proc'[p].pc = "unlock" /\ proc'[p].op = proc[p].op /\ proc'[p].hosts = proc[p].hosts
        /\ proc'[p].adds = proc[p].adds /\ proc'[p].failed = TRUE
    BY <1>1, Left DEF AtWork
  <1>3. Working(p)'
    BY <1>2 DEF Working
  <1> QED BY ONLY AtWork(p), <1>1, <1>2, <1>3, KnownNow, p \in Procs, StillKnown DEF AtWork

LEMMA EmptiedStays ==
    ASSUME NEW p \in Procs, ProcStep(p), ~emptied'
    PROVE  ~emptied
  <1>1. CASE \E h \in Hosts : DeleteHost(p, h)
    BY <1>1 DEF DeleteHost
  <1>2. CASE emptied' = emptied
    BY <1>2
  <1> QED BY <1>1, <1>2
          DEF ProcStep, AddUpstream, AddHost, CopyRules, LookUp, PickPair, Finish, RuleStep,
              TakeLock, PutRule, FindRecord, StoreRecord, DeleteRule, EraseRecord, Unlock,
              DropEntry,
              CallFails, Killed, history

LEMMA StepKnown ==
    ASSUME Overlap, Known, NEW p \in Procs, ProcStep(p)
    PROVE  Known'
  <1> SUFFICES ASSUME ~disturbed', ~emptied', ~expired'
               PROVE  KnownNow'
    BY DEF Known
  <1>1. ~emptied /\ ~expired
    BY EmptiedStays, ExpiredStays
  <1>2. ~disturbed
    <2>1. CASE \E op, pc, hosts, adds : Begin(p, op, pc, hosts, adds)
      BY <2>1 DEF Begin
    <2>2. CASE disturbed => disturbed'
      BY <2>2
    <2> QED BY <2>1, <2>2, StepOp DEF Overlap, TypedSection
  <1>3. KnownNow
    BY <1>1, <1>2 DEF Known
  <1>4. CASE \/ \E adds \in (SUBSET Destinations) \ {{}} : AddUpstream(p, adds)
             \/ \E h \in Hosts : AddHost(p, h) \/ DeleteHost(p, h)
    BY <1>3, <1>4, BeginKnown
  <1>5. CASE CopyRules(p)
    BY <1>2, <1>3, <1>5, CopyKnown
  <1>6. CASE LookUp(p) \/ PickPair(p) \/ Finish(p) \/ RuleStep(p) \/ CallFails(p) \/ Killed(p)
    <2>1. Working(p)
      BY <1>6 DEF LookUp, PickPair, Finish, RuleStep, TakeLock, PutRule, FindRecord, StoreRecord,
                  DeleteRule, EraseRecord, Unlock, DropEntry, CallFails, Killed, InSection, Working
    <2>2. AtWork(p)
      BY <1>1, <1>2, <2>1, WorkAlone
    <2>3. CASE Killed(p)
      BY <1>3, <2>2, <2>3, AbortKnown DEF Killed, stores
    <2> QED BY <1>3, <1>6, <2>2, <2>3, LookUpKnown, PickKnown, FinishKnown, RuleKnown, FailKnown
  <1> QED BY <1>4, <1>5, <1>6 DEF ProcStep

(* Every machine may reach every server: what an attached machine has on   *)
(* record is what the service permits it, and every server is on record    *)
(* or among the pairs some process has before it.                          *)
THEOREM EveryServerReachable == Spec => []ServersReachable
  <1>1. Init => Known
    <2>1. Init => ServersKnown
      BY DEF Init, ServersKnown
    <2>2. Init => UpstreamsMeet
      BY DEF Init, UpstreamsMeet, Working, IdleProc
    <2>3. Init => AdditionsMeet
      BY DEF Init, AdditionsMeet, Adding, Working, IdleProc
    <2>4. Init => Background
      BY DEF Init, Background, Working, IdleProc
    <2> QED BY <2>1, <2>2, <2>3, <2>4 DEF Known, KnownNow
  <1>2. Overlap /\ Known /\ [Next]_vars => Known'
    <2> SUFFICES ASSUME Overlap, Known, [Next]_vars
                 PROVE  Known'
      OBVIOUS
    <2>1. ASSUME NEW p \in Procs, ProcStep(p)
          PROVE  Known'
      BY <2>1, StepKnown
    <2>2. ASSUME UNCHANGED <<attached, servers, record, proc, disturbed, emptied>>,
                 ~expired' => ~expired
          PROVE  Known'
      BY <2>2 DEF Known, KnownNow, ServersKnown, UpstreamsMeet, AdditionsMeet, Background, ToAdd,
                  Adding, Working
    <2>3. CASE LockExpires
      <3>1. UNCHANGED <<attached, servers, record, proc, disturbed, emptied>>
        BY <2>3 DEF LockExpires, stores
      <3>2. ~expired' => ~expired
        BY <2>3 DEF LockExpires
      <3> QED BY <2>2, <3>1, <3>2
    <2>4. CASE StrayDrop \/ UNCHANGED vars
      BY <2>2, <2>4, StrayRests DEF Rests, stores, history
    <2> QED BY <2>1, <2>3, <2>4 DEF Next, ProcStep
  <1>3. Overlap /\ Known => ServersReachable
    <2> SUFFICES ASSUME Overlap, Known, ~disturbed, ~emptied, ~expired,
                        NEW h \in attached, NEW d \in servers
                 PROVE  \/ <<h, d>> \in rules
                        \/ \E p \in Procs : proc[p].op = "add_host" /\ h \in proc[p].hosts
      BY DEF ServersReachable
    <2>1. TypeOK /\ StoredIsPermitted /\ OnMachines
      BY DEF Overlap, TypedSection
    <2>2. CASE d \in record[h]
      <3>1. h \in Hosts \ halved
        BY <2>1 DEF TypeOK, OnMachines
      <3>2. \A p \in Procs : ~(proc[p].pc = "erase" /\ proc[p].pair[1] = h)
        BY <2>1 DEF OnMachines, OwnMachines, InSection
      <3> QED BY <2>1, <2>2, <3>1, <3>2 DEF StoredIsPermitted
    <2>3. CASE \E q \in Procs : Adding(q) /\ h \in proc[q].hosts
      BY <2>3 DEF Adding
    <2> QED BY <2>2, <2>3 DEF Known, KnownNow, ServersKnown
  <1> QED BY <1>1, <1>2, <1>3, OverlapInvariant, PTL DEF Spec
=============================================================================
