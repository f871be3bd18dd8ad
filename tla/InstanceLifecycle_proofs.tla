---------------------- MODULE InstanceLifecycle_proofs ----------------------
(***************************************************************************)
(* Theorems about InstanceLifecycle, for every set of names, teams,        *)
(* requests, workers, load balancers and machines and every bound.         *)
(***************************************************************************)
EXTENDS InstanceLifecycle, FiniteSetTheorems, SequenceTheorems, TLAPS

-----------------------------------------------------------------------------
(* Lemmas about the lists the stores keep *)

(* Removing position i keeps the other elements in their order. *)
LEMMA RemoveAtProperties ==
    ASSUME NEW S, NEW s \in Seq(S), NEW i \in 1..Len(s)
    PROVE  /\ RemoveAt(s, i) \in Seq(S)
           /\ Len(RemoveAt(s, i)) = Len(s) - 1
           /\ \A j \in 1..(Len(s) - 1) :
                 RemoveAt(s, i)[j] = IF j < i THEN s[j] ELSE s[j+1]
<1> DEFINE a == SubSeq(s, 1, i-1)
           b == SubSeq(s, i+1, Len(s))
<1>1. Len(s) \in Nat /\ \A j \in 1..Len(s) : s[j] \in S
  OBVIOUS
<1>2. /\ a \in Seq(S) /\ Len(a) = i - 1
      /\ \A j \in 1..(i-1) : a[j] = s[j]
  <2>1. /\ a \in Seq(S) /\ Len(a) = (IF 1 <= i-1 THEN (i-1) - 1 + 1 ELSE 0)
        /\ \A j \in 1..((i-1) - 1 + 1) : a[j] = s[1 + j - 1]
    <3>1. \A j \in 1..(i-1) : s[j] \in S
      BY <1>1
    <3>2. 1 \in Int /\ i-1 \in Int
      BY <1>1
    <3> QED
      BY <3>1, <3>2, SubSeqProperties
  <2> QED
    BY <1>1, <2>1
<1>3. /\ b \in Seq(S) /\ Len(b) = Len(s) - i
      /\ \A j \in 1..(Len(s) - i) : b[j] = s[i + j]
  <2>1. /\ b \in Seq(S)
        /\ Len(b) = (IF i+1 <= Len(s) THEN Len(s) - (i+1) + 1 ELSE 0)
        /\ \A j \in 1..(Len(s) - (i+1) + 1) : b[j] = s[(i+1) + j - 1]
    <3>1. \A j \in (i+1)..Len(s) : s[j] \in S
      BY <1>1
    <3>2. i+1 \in Int /\ Len(s) \in Int
      BY <1>1
    <3> QED
      BY <3>1, <3>2, SubSeqProperties
  <2> QED
    BY <1>1, <2>1
<1>4. RemoveAt(s, i) = a \o b
  BY DEF RemoveAt
<1>5. /\ a \o b \in Seq(S)
      /\ Len(a \o b) = Len(a) + Len(b)
      /\ \A j \in 1..(Len(a) + Len(b)) :
            (a \o b)[j] = IF j <= Len(a) THEN a[j] ELSE b[j - Len(a)]
  BY <1>2, <1>3, ConcatProperties
<1> HIDE DEF a, b
<1>6. ASSUME NEW j \in 1..(Len(s) - 1)
      PROVE  RemoveAt(s, i)[j] = IF j < i THEN s[j] ELSE s[j+1]
  <2>1. CASE j < i
    BY <1>1, <1>2, <1>3, <1>4, <1>5, <2>1
  <2>2. CASE ~(j < i)
    <3>1. j - Len(a) \in 1..(Len(s) - i) /\ i + (j - Len(a)) = j + 1
      BY <1>1, <1>2, <2>2
    <3>2. b[j - Len(a)] = s[j + 1]
      BY <1>3, <3>1
    <3> QED
      BY <1>1, <1>2, <1>3, <1>4, <1>5, <2>2, <3>2
  <2> QED
    BY <2>1, <2>2
<1> QED
  BY <1>1, <1>2, <1>3, <1>4, <1>5, <1>6

(* What Pull leaves: a list of the same type, not longer, and still        *)
(* without duplicates, that holds exactly the other elements.              *)
LEMMA PullProperties ==
    ASSUME NEW S, NEW s \in Seq(S), NEW e
    PROVE  /\ Pull(s, e) \in Seq(S)
           /\ Len(Pull(s, e)) <= Len(s)
           /\ IsInjective(s) => /\ IsInjective(Pull(s, e))
                                /\ ToSet(Pull(s, e)) = ToSet(s) \ {e}
<1>0. Len(s) \in Nat /\ DOMAIN s = 1..Len(s)
  OBVIOUS
<1>1. CASE Contains(s, e)
  <2> DEFINE i == CHOOSE j \in 1..Len(s) : s[j] = e
             p == Pull(s, e)
  <2>1. i \in 1..Len(s) /\ s[i] = e
    BY <1>1 DEF Contains
  <2>2. p = RemoveAt(s, i)
    BY <1>1, Zenon DEF Pull
  <2> HIDE DEF i, p
  <2>3. /\ p \in Seq(S) /\ Len(p) = Len(s) - 1 /\ DOMAIN p = 1..(Len(s) - 1)
        /\ \A j \in 1..(Len(s) - 1) : p[j] = IF j < i THEN s[j] ELSE s[j+1]
    <3>1. /\ RemoveAt(s, i) \in Seq(S)
          /\ Len(RemoveAt(s, i)) = Len(s) - 1
          /\ \A j \in 1..(Len(s) - 1) :
                RemoveAt(s, i)[j] = IF j < i THEN s[j] ELSE s[j+1]
      BY <2>1, RemoveAtProperties
    <3> QED
      BY <2>2, <3>1
  <2>4. ASSUME IsInjective(s)
        PROVE  IsInjective(p) /\ ToSet(p) = ToSet(s) \ {e}
    <3>1. \A j, k \in 1..Len(s) : s[j] = s[k] => j = k
      BY <1>0, <2>4 DEF IsInjective
    <3>2. IsInjective(p)
      BY <1>0, <2>1, <2>3, <3>1 DEF IsInjective
    <3>3. ASSUME NEW j \in 1..(Len(s) - 1)
          PROVE  p[j] \in ToSet(s) \ {e}
      <4>1. PICK k \in 1..Len(s) : p[j] = s[k] /\ k # i
        BY <1>0, <2>1, <2>3
      <4>2. s[k] # e
        BY <2>1, <3>1, <4>1
      <4> QED
        BY <1>0, <4>1, <4>2 DEF ToSet
    <3>4. ASSUME NEW j \in 1..Len(s), s[j] # e
          PROVE  \E k \in 1..(Len(s) - 1) : p[k] = s[j]
      <4>1. CASE j < i
        <5>1. j \in 1..(Len(s) - 1) /\ p[j] = s[j]
          BY <1>0, <2>1, <2>3, <4>1
        <5> QED
          BY <5>1
      <4>2. CASE j > i
        <5>1. /\ j - 1 \in 1..(Len(s) - 1) /\ ~(j - 1 < i) /\ (j - 1) + 1 = j
          BY <1>0, <2>1, <4>2
        <5>2. p[j - 1] = s[j]
          BY <2>3, <5>1
        <5> QED
          BY <5>1, <5>2
      <4> QED
        BY <1>0, <2>1, <3>4, <4>1, <4>2
    <3>5. \A x \in ToSet(p) : x \in ToSet(s) \ {e}
      BY <2>3, <3>3 DEF ToSet
    <3>6. \A x \in ToSet(s) \ {e} : x \in ToSet(p)
      BY SMTT(30), <1>0, <2>3, <3>4 DEF ToSet
    <3> QED
      BY <3>2, <3>5, <3>6
  <2> QED
    BY <1>0, <2>3, <2>4 DEF p
<1>2. CASE ~Contains(s, e)
  BY <1>0, <1>2 DEF Pull, Contains, ToSet
<1> QED
  BY <1>1, <1>2

(* What $addToSet leaves: the list with the name, once. *)
LEMMA AddToSetProperties ==
    ASSUME NEW S, NEW s \in Seq(S), NEW e \in S
    PROVE  /\ AddToSet(s, e) \in Seq(S)
           /\ Len(AddToSet(s, e)) <= Len(s) + 1
           /\ ToSet(AddToSet(s, e)) = ToSet(s) \cup {e}
           /\ IsInjective(s) => IsInjective(AddToSet(s, e))
<1>0. Len(s) \in Nat /\ DOMAIN s = 1..Len(s)
  OBVIOUS
<1>1. CASE Contains(s, e)
  BY <1>0, <1>1 DEF AddToSet, Contains, ToSet
<1>2. CASE ~Contains(s, e)
  <2> DEFINE a == Append(s, e)
  <2>1. /\ a \in Seq(S) /\ Len(a) = Len(s) + 1 /\ DOMAIN a = 1..(Len(s) + 1)
        /\ \A j \in 1..Len(s) : a[j] = s[j]
        /\ a[Len(s) + 1] = e
    BY <1>0
  <2>2. AddToSet(s, e) = a
    BY <1>2 DEF AddToSet
  <2> HIDE DEF a
  <2>3. \A j \in 1..(Len(s) + 1) : j \in 1..Len(s) \/ j = Len(s) + 1
    BY <1>0
  <2>4. ToSet(a) = ToSet(s) \cup {e}
    BY <1>0, <2>1, <2>3 DEF ToSet
  <2>5. IsInjective(s) => IsInjective(a)
    BY <1>0, <1>2, <2>1, <2>3 DEF IsInjective, Contains
  <2> QED
    BY <1>0, <2>1, <2>2, <2>4, <2>5
<1> QED
  BY <1>1, <1>2

(* A list holds no more different elements than it is long. *)
LEMMA ToSetCardinality ==
    ASSUME NEW S, NEW s \in Seq(S)
    PROVE  /\ IsFiniteSet(ToSet(s))
           /\ Cardinality(ToSet(s)) \in Nat
           /\ Cardinality(ToSet(s)) <= Len(s)
<1>1. Len(s) \in Nat /\ DOMAIN s = 1..Len(s)
  OBVIOUS
<1>2. s \in Surjection(1..Len(s), ToSet(s))
  BY <1>1 DEF Surjection, ToSet
<1>3. IsFiniteSet(1..Len(s)) /\ Cardinality(1..Len(s)) = Len(s)
  BY <1>1, FS_Interval
<1>4. IsFiniteSet(ToSet(s)) /\ Cardinality(ToSet(s)) <= Cardinality(1..Len(s))
  BY <1>2, <1>3, FS_Surjection
<1> QED
  BY <1>3, <1>4, FS_CardinalityType
-----------------------------------------------------------------------------
(* Type correctness *)

TypeInv == TypeOK /\ RecordsOK

LEMMA InitTypeInv == Init => TypeInv
  BY ConstantsAssumption DEF Init, TypeInv, TypeOK, RecordsOK, ReqRecordOK, WkRecordOK,
     IdleReq, IdleWk, ReqType, WkType, ReqPcs, AddPcs, DeletePcs, TailPcs,
     RollbackPcs, FinallyPcs, TaskType

(* A request that continues with a well-formed record, or ends, keeps them so. *)
LEMMA ReqGoto ==
    ASSUME TypeInv, NEW r \in Requests, NEW pc \in ReqPcs \ {"idle", "increment_quota"},
           req[r].pc # "idle",
           req[r].op = "update" => pc \in {"find_lb", "find_metadata", "store_metadata"},
           Goto(r, pc)
    PROVE  req' \in [Requests -> ReqType] /\ \A q \in Requests : ReqRecordOK(req'[q])
<1>1. req[r] \in ReqType /\ ReqRecordOK(req[r])
  BY DEF TypeInv, TypeOK, RecordsOK
<1> DEFINE next == [req[r] EXCEPT !.pc = pc]
<1>2. next \in ReqType
  BY <1>1 DEF ReqType
<1>3. ReqRecordOK(next)
  BY <1>1 DEF ReqRecordOK, ReqType
<1>4. req' = [req EXCEPT ![r] = next]
  BY DEF Goto
<1> HIDE DEF next
<1> QED
  BY <1>2, <1>3, <1>4 DEF TypeInv, TypeOK, RecordsOK

LEMMA ReqReturn ==
    ASSUME TypeInv, NEW r \in Requests, Return(r)
    PROVE  req' \in [Requests -> ReqType] /\ \A q \in Requests : ReqRecordOK(req'[q])
<1>1. IdleReq \in ReqType /\ ReqRecordOK(IdleReq)
  BY DEF IdleReq, ReqType, ReqPcs, ReqRecordOK
<1> QED
  BY <1>1 DEF TypeInv, TypeOK, RecordsOK, Return

(* Each call of a request keeps the types. *)
LEMMA RequestStepTypes ==
    ASSUME TypeInv, NEW r \in Requests, RequestStep(r)
    PROVE  TypeInv'
<1> USE DEF quotaVars, storeVars, cloudVars, boundVars
<1>0. req[r] \in ReqType /\ ReqRecordOK(req[r])
  BY DEF TypeInv, TypeOK, RecordsOK
<1>1. CASE IncrementQuota(r)
  <2>1. req[r].name \in Names /\ req[r].team \in Teams
    BY <1>0, <1>1 DEF IncrementQuota, At, ReqRecordOK
  <2>2. used' \in [Teams -> Seq(Names)]
    <3>1. used \in [Teams -> Seq(Names)]
      BY DEF TypeInv, TypeOK
    <3>2. Billed(r) \in Seq(Names)
      BY <2>1, <3>1, AddToSetProperties DEF Billed
    <3> QED
      BY <1>1, <3>1, <3>2 DEF IncrementQuota
  <2>3. req' \in [Requests -> ReqType] /\ \A q \in Requests : ReqRecordOK(req'[q])
    <3>1. CASE Goto(r, "find_lb")
      BY <1>0, <1>1, <3>1, ReqGoto DEF IncrementQuota, At, ReqRecordOK, ReqPcs
    <3> QED
      BY <1>1, <3>1, ReqReturn DEF IncrementQuota
  <2> QED
    BY <1>1, <2>2, <2>3 DEF IncrementQuota, TypeInv, TypeOK, RecordsOK
<1>2. CASE FindLB(r)
  <2>1. req' \in [Requests -> ReqType] /\ \A q \in Requests : ReqRecordOK(req'[q])
    BY <1>0, <1>2, ReqGoto, ReqReturn DEF FindLB, At, ReqRecordOK, ReqPcs
  <2> QED
    BY <1>2, <2>1 DEF FindLB, TypeInv, TypeOK, RecordsOK
<1>3. CASE CreateTask(r)
  <2>1. req' \in [Requests -> ReqType] /\ \A q \in Requests : ReqRecordOK(req'[q])
    BY <1>0, <1>3, ReqGoto, ReqReturn DEF CreateTask, At, ReqRecordOK, ReqPcs
  <2> QED
    BY <1>3, <2>1 DEF CreateTask, TypeInv, TypeOK, RecordsOK
<1>4. CASE WriteHealthcheck(r)
  <2>1. req' \in [Requests -> ReqType] /\ \A q \in Requests : ReqRecordOK(req'[q])
    BY <1>0, <1>4, ReqGoto DEF WriteHealthcheck, At, ReqRecordOK, ReqPcs
  <2> QED
    BY <1>0, <1>4, <2>1 DEF WriteHealthcheck, At, ReqRecordOK, TypeInv, TypeOK, RecordsOK
<1>5. CASE FindMetadata(r)
  <2>1. req' \in [Requests -> ReqType] /\ \A q \in Requests : ReqRecordOK(req'[q])
    BY <1>0, <1>5, ReqGoto, ReqReturn DEF FindMetadata, At, ReqRecordOK, ReqPcs
  <2> QED
    BY <1>5, <2>1 DEF FindMetadata, TypeInv, TypeOK, RecordsOK
<1>6. CASE StoreMetadata(r)
  <2>1. req' \in [Requests -> ReqType] /\ \A q \in Requests : ReqRecordOK(req'[q])
    BY <1>0, <1>6, ReqGoto, ReqReturn DEF StoreMetadata, At, ReqRecordOK, ReqPcs
  <2> QED
    BY <1>0, <1>6, <2>1 DEF StoreMetadata, At, ReqRecordOK, TypeInv, TypeOK, RecordsOK
<1>7. CASE DecrementQuota(r)
  <2>1. req' \in [Requests -> ReqType] /\ \A q \in Requests : ReqRecordOK(req'[q])
    BY <1>0, <1>7, ReqGoto DEF DecrementQuota, At, ReqRecordOK, ReqPcs
  <2>2. used' \in [Teams -> Seq(Names)]
    BY <1>7, PullProperties DEF DecrementQuota, Unbilled, TypeInv, TypeOK
  <2> QED
    BY <1>7, <2>1, <2>2 DEF DecrementQuota, TypeInv, TypeOK, RecordsOK
<1>8. CASE RemoveTask(r)
  <2>1. req' \in [Requests -> ReqType] /\ \A q \in Requests : ReqRecordOK(req'[q])
    BY <1>0, <1>8, ReqGoto DEF RemoveTask, At, ReqRecordOK, ReqPcs
  <2> QED
    BY <1>8, <2>1 DEF RemoveTask, TypeInv, TypeOK, RecordsOK
<1>9. CASE RemoveMetadata(r)
  <2>1. req' \in [Requests -> ReqType] /\ \A q \in Requests : ReqRecordOK(req'[q])
    BY <1>0, <1>9, ReqGoto DEF RemoveMetadata, At, ReqRecordOK, ReqPcs
  <2> QED
    BY <1>9, <2>1 DEF RemoveMetadata, TypeInv, TypeOK, RecordsOK
<1>10. CASE Delay(r)
  <2>1. req' \in [Requests -> ReqType] /\ \A q \in Requests : ReqRecordOK(req'[q])
    BY <1>0, <1>10, ReqGoto, ReqReturn DEF Delay, At, ReqRecordOK, ReqPcs
  <2>2. [kind |-> req[r].op, name |-> req[r].name, qty |-> req[r].qty] \in TaskType
    BY <1>0, <1>10 DEF Delay, At, ReqRecordOK, ReqType, TaskType
  <2>3. queue' \in Seq(TaskType)
    BY <1>10, <2>2, AppendProperties DEF Delay, TypeInv, TypeOK
  <2> QED
    BY <1>10, <2>1, <2>3 DEF Delay, TypeInv, TypeOK, RecordsOK
<1>11. CASE UpdateTask(r)
  <2>1. req' \in [Requests -> ReqType] /\ \A q \in Requests : ReqRecordOK(req'[q])
    BY <1>11, ReqReturn DEF UpdateTask
  <2> QED
    BY <1>11, <2>1 DEF UpdateTask, TypeInv, TypeOK, RecordsOK
<1> QED
  BY <1>1, <1>2, <1>3, <1>4, <1>5, <1>6, <1>7, <1>8, <1>9, <1>10, <1>11
     DEF RequestStep

(* The first read of a request, and a request that dies, keep the types. *)
LEMMA RequestBoundaryTypes ==
    ASSUME TypeInv, NEW r \in Requests, NEW n \in Names,
           \/ \E t \in Teams : NewInstance(r, n, t)
           \/ RemoveInstance(r, n)
           \/ \E q \in Quantities : ScaleInstance(r, n, q)
           \/ UpdateInstance(r, n)
    PROVE  TypeInv'
<1> USE DEF quotaVars, storeVars, cloudVars, boundVars
<1>0. /\ used \in [Teams -> Seq(Names)] /\ ops \in Nat
      /\ taskDoc \in [Names -> {"none", "created", "queued"}]
  BY DEF TypeInv, TypeOK
<1>i. IdleReq \in ReqType
  BY DEF IdleReq, ReqType, ReqPcs
<1>1. ASSUME NEW first \in ReqType, ReqRecordOK(first), Begin(r, first),
             taskDoc' \in [Names -> {"none", "created", "queued"}]
      PROVE  TypeInv'
  <2>1. req' \in [Requests -> ReqType] /\ \A q \in Requests : ReqRecordOK(req'[q])
    BY <1>1 DEF Begin, TypeInv, TypeOK, RecordsOK
  <2>2. ops' \in Nat
    BY <1>0, <1>1 DEF Begin
  <2> QED
    BY <1>1, <2>1, <2>2 DEF Begin, TypeInv, TypeOK, RecordsOK
<1>2. ASSUME NEW t \in Teams, NewInstance(r, n, t)
      PROVE  TypeInv'
  <2> DEFINE first == [IdleReq EXCEPT !.pc = "increment_quota", !.op = "new",
                          !.name = n, !.team = t, !.prev = used[t]]
  <2>1. first \in ReqType /\ ReqRecordOK(first)
    BY <1>0, <1>i DEF ReqType, ReqPcs, ReqRecordOK
  <2> QED
    BY <1>0, <1>1, <1>2, <2>1 DEF NewInstance
<1>3. CASE RemoveInstance(r, n)
  <2> DEFINE first == [IdleReq EXCEPT !.pc = "decrement_quota", !.op = "remove",
                          !.name = n]
  <2>1. first \in ReqType /\ ReqRecordOK(first)
    BY <1>i DEF ReqType, ReqPcs, ReqRecordOK
  <2> QED
    BY <1>0, <1>1, <1>3, <2>1 DEF RemoveInstance
<1>4. ASSUME NEW q \in Quantities, ScaleInstance(r, n, q)
      PROVE  TypeInv'
  <2> DEFINE first == [IdleReq EXCEPT !.pc = "create_task", !.op = "scale",
                          !.name = n, !.qty = q]
  <2>1. first \in ReqType /\ ReqRecordOK(first)
    BY <1>i, ConstantsAssumption DEF ReqType, ReqPcs, ReqRecordOK
  <2> QED
    BY <1>0, <1>1, <1>4, <2>1 DEF ScaleInstance
<1>5. CASE UpdateInstance(r, n)
  <2> DEFINE first == [IdleReq EXCEPT !.pc = "find_lb", !.op = "update", !.name = n]
  <2>1. first \in ReqType /\ ReqRecordOK(first)
    BY <1>i DEF ReqType, ReqPcs, ReqRecordOK
  <2> QED
    BY <1>0, <1>1, <1>5, <2>1 DEF UpdateInstance
<1> QED
  BY <1>2, <1>3, <1>4, <1>5

LEMMA RequestRaisesTypes ==
    ASSUME TypeInv, NEW r \in Requests, RequestRaises(r)
    PROVE  TypeInv'
<1>1. req' \in [Requests -> ReqType] /\ \A q \in Requests : ReqRecordOK(req'[q])
  BY ReqReturn DEF RequestRaises
<1> QED
  BY <1>1 DEF RequestRaises, quotaVars, storeVars, cloudVars, TypeInv, TypeOK, RecordsOK

LEMMA SetTeamQuotaTypes ==
    ASSUME TypeInv, NEW t \in Teams, NEW q \in QuotaValues, SetTeamQuota(t, q)
    PROVE  TypeInv'
<1>1. q \in Nat
  BY ConstantsAssumption
<1>2. quota' \in [Teams -> Nat] /\ granted' \in [Teams -> Nat]
  BY <1>1 DEF SetTeamQuota, TypeInv, TypeOK
<1> QED
  BY <1>2 DEF SetTeamQuota, storeVars, cloudVars, boundVars, TypeInv, TypeOK, RecordsOK

(* The records a task moves through are well formed. *)
GoodWk(t) == t \in WkType /\ WkRecordOK(t)

LEMMA IdleWkGood == GoodWk(IdleWk)
<1>1. <<>> \in Seq(Hosts)
  OBVIOUS
<1> QED
  BY <1>1 DEF GoodWk, IdleWk, WkType, WkRecordOK, DeletePcs

LEMMA WkSet ==
    ASSUME TypeInv, NEW w \in Workers, NEW t, GoodWk(t), Set(w, t)
    PROVE  wk' \in [Workers -> WkType] /\ \A v \in Workers : WkRecordOK(wk'[v])
  BY DEF TypeInv, TypeOK, RecordsOK, GoodWk, Set

LEMMA NextDeleteGood ==
    ASSUME NEW t \in WkType, t.name \in Names, t.lb \in LBs,
           NEW done \in {"destroy_instance", "scale_finally"}
    PROVE  GoodWk(NextDelete(t, done))
<1>1. CASE t.todo = <<>>
  BY <1>1 DEF NextDelete, GoodWk, WkType, WkRecordOK, AddPcs, DeletePcs, TailPcs,
              FinallyPcs
<1>2. CASE t.todo # <<>>
  <2>1. t.todo \in Seq(Hosts)
    BY DEF WkType
  <2>2. Head(t.todo) \in Hosts /\ Tail(t.todo) \in Seq(Hosts)
    BY <1>2, <2>1, HeadTailProperties
  <2> QED
    BY <1>2, <2>2 DEF NextDelete, GoodWk, WkType, WkRecordOK, DeletePcs
<1> QED
  BY <1>1, <1>2

LEMMA RollbackHostGood ==
    ASSUME NEW t \in WkType, t.name \in Names, t.lb \in LBs
    PROVE  GoodWk(RollbackHost(t))
  BY DEF RollbackHost, GoodWk, WkType, WkRecordOK, DeletePcs, RollbackPcs

LEMMA LeaveRunGood ==
    ASSUME NEW t \in WkType, t.name \in Names
    PROVE  GoodWk(LeaveRun(t))
<1>1. CASE t.kind = "scale"
  BY <1>1 DEF LeaveRun, GoodWk, WkType, WkRecordOK, DeletePcs, FinallyPcs
<1> QED
  BY <1>1, IdleWkGood DEF LeaveRun

LEMMA HandlerGood ==
    ASSUME NEW t, GoodWk(t), t.pc # "idle"
    PROVE  GoodWk(Handler(t))
<1>0. t \in WkType /\ WkRecordOK(t) /\ t.name \in Names
  BY DEF GoodWk, WkRecordOK
<1>1. CASE t.pc \in AddPcs
  <2> DEFINE failed == [t EXCEPT !.error = TRUE]
  <2>1. failed \in WkType /\ failed.name \in Names
    BY <1>0 DEF WkType
  <2>2. CASE ~Rollback \/ t.lb = Nothing
    <3>1. t.kind = "scale" => t.lb \in LBs
      BY <1>0, <1>1 DEF WkRecordOK, AddPcs
    <3>2. GoodWk([failed EXCEPT !.pc = "add_finally"])
      BY <1>0, <3>1 DEF GoodWk, WkType, WkRecordOK, DeletePcs, FinallyPcs
    <3>3. Handler(t) = [failed EXCEPT !.pc = "add_finally"]
      BY <1>1, <2>2 DEF Handler, AddPcs, DeletePcs
    <3> QED
      BY <3>2, <3>3
  <2>3. CASE ~(~Rollback \/ t.lb = Nothing)
    <3>1. failed.lb \in LBs
      BY <1>0, <2>3 DEF WkType
    <3>2. GoodWk([failed EXCEPT !.pc = "rollback_lb"])
      BY <1>0, <3>1 DEF GoodWk, WkType, WkRecordOK, DeletePcs, RollbackPcs
    <3>3. GoodWk(RollbackHost(failed))
      BY <2>1, <3>1, RollbackHostGood
    <3>4. Handler(t) = IF t.fresh THEN [failed EXCEPT !.pc = "rollback_lb"]
                                  ELSE RollbackHost(failed)
      BY <1>1, <2>3 DEF Handler, AddPcs, DeletePcs
    <3> QED
      BY <3>2, <3>3, <3>4
  <2> QED
    BY <2>2, <2>3
<1>2. CASE t.pc = "rollback_lb"
  <2>1. t.lb \in LBs
    BY <1>0, <1>2 DEF WkRecordOK
  <2>2. GoodWk(RollbackHost(t))
    BY <1>0, <2>1, RollbackHostGood
  <2>3. Handler(t) = RollbackHost(t)
    BY <1>2 DEF Handler, AddPcs, DeletePcs
  <2> QED
    BY <2>2, <2>3
<1>3. CASE t.pc = "rollback_hc"
  <2>1. GoodWk([t EXCEPT !.pc = "add_finally"])
    BY <1>0, <1>3 DEF GoodWk, WkType, WkRecordOK, DeletePcs, FinallyPcs
  <2>2. Handler(t) = [t EXCEPT !.pc = "add_finally"]
    BY <1>3 DEF Handler, AddPcs, DeletePcs
  <2> QED
    BY <2>1, <2>2
<1>4. CASE t.pc \in DeletePcs
  <2>1. GoodWk([t EXCEPT !.pc = "delete_finally", !.error = TRUE])
    BY <1>0, <1>4 DEF GoodWk, WkType, WkRecordOK, DeletePcs, FinallyPcs
  <2>2. Handler(t) = [t EXCEPT !.pc = "delete_finally", !.error = TRUE]
    BY <1>4 DEF Handler, AddPcs, DeletePcs
  <2> QED
    BY <2>1, <2>2
<1>5. CASE t.pc \notin AddPcs \cup DeletePcs \cup {"rollback_lb", "rollback_hc"}
  <2>1. GoodWk(LeaveRun(t))
    BY <1>0, LeaveRunGood
  <2>2. Handler(t) = LeaveRun(t)
    BY <1>5 DEF Handler
  <2> QED
    BY <2>1, <2>2
<1> QED
  BY <1>1, <1>2, <1>3, <1>4, <1>5

(* Each call of a task keeps the types: it moves the worker to a good      *)
(* record (WkSet) and writes well-typed values to the one store it calls.  *)
LEMMA WorkerStepTypes ==
    ASSUME TypeInv, NEW w \in Workers, WorkerStep(w)
    PROVE  TypeInv'
<1> USE DEF quotaVars, storeVars, cloudVars, boundVars
<1> DEFINE WkOK == wk' \in [Workers -> WkType] /\ \A v \in Workers : WkRecordOK(wk'[v])
<1>0. wk[w] \in WkType /\ WkRecordOK(wk[w])
  BY DEF TypeInv, TypeOK, RecordsOK
<1>e. ASSUME NEW pc, Enter(w, pc), GoodWk([wk[w] EXCEPT !.pc = pc])
      PROVE  WkOK
  <2>1. Set(w, [wk[w] EXCEPT !.pc = pc])
    BY <1>e DEF Enter, Set
  <2> QED
    BY <1>e, <2>1, WkSet
<1>1. CASE TakeTask(w)
  <2> DEFINE m == Head(queue)
             next == [IdleWk EXCEPT !.kind = m.kind, !.name = m.name, !.qty = m.qty,
                         !.pc = IF m.kind = "new" THEN "create_lb" ELSE "find_lb",
                         !.adds = IF m.kind = "new" THEN 1 ELSE 0]
  <2>1. queue \in Seq(TaskType) /\ queue # <<>>
    BY <1>1 DEF TakeTask, TypeInv, TypeOK
  <2>2. m \in TaskType /\ Tail(queue) \in Seq(TaskType)
    BY <2>1, HeadTailProperties
  <2>3. IdleWk \in WkType
    BY IdleWkGood DEF GoodWk
  <2>4. GoodWk(next)
    <3> HIDE DEF m
    <3>1. /\ m.kind \in {"new", "remove", "scale"}
          /\ m.name \in Names /\ m.qty \in Nat
      BY <2>2 DEF TaskType
    <3>2. next \in WkType
      <4>1. CASE m.kind = "new"
        BY <2>3, <3>1, <4>1 DEF WkType, AddPcs
      <4>2. CASE m.kind # "new"
        BY ZenonT(60), <2>3, <3>1, <4>2 DEF WkType
      <4> QED
        BY <4>1, <4>2
    <3>3. WkRecordOK(next)
      <4>1. /\ next.pc = (IF m.kind = "new" THEN "create_lb" ELSE "find_lb")
            /\ next.kind = m.kind /\ next.name = m.name
        BY <2>3 DEF WkType
      <4> HIDE DEF next
      <4> QED
        BY <3>1, <4>1 DEF WkRecordOK, DeletePcs
    <3> QED
      BY <3>2, <3>3 DEF GoodWk
  <2>5. WkOK
    <3>1. Set(w, next)
      BY <1>1 DEF TakeTask
    <3> QED
      BY <2>4, <3>1, WkSet
  <2> QED
    BY <1>1, <2>2, <2>5 DEF TakeTask, TypeInv, TypeOK, RecordsOK
<1>2. CASE TaskFindLB(w)
  <2> PICK l \in LBsOf(wk[w].name) :
          LET hosts == attached[l]
              found == [wk[w] EXCEPT !.lb = l, !.empty = (hosts = <<>>)]
              extra == Len(hosts) - wk[w].qty
          IN  CASE found.kind = "remove" ->
                     Set(w, NextDelete([found EXCEPT !.todo = hosts], "destroy_instance"))
                [] found.kind = "scale" /\ extra < 0 ->
                     Set(w, [found EXCEPT !.pc = "create_host", !.adds = -extra])
                [] OTHER ->
                     Set(w, NextDelete([found EXCEPT !.todo = SubSeq(hosts, 1, extra)],
                                       "scale_finally"))
    BY <1>2 DEF TaskFindLB
  <2> DEFINE hosts == attached[l]
             found == [wk[w] EXCEPT !.lb = l, !.empty = (hosts = <<>>)]
             extra == Len(hosts) - wk[w].qty
  <2>1. l \in LBs /\ hosts \in Seq(Hosts)
    BY DEF LBsOf, TypeInv, TypeOK
  <2>2. wk[w].name \in Names
    BY <1>0, <1>2 DEF TaskFindLB, In, WkRecordOK
  <2>3. found \in WkType /\ found.name \in Names /\ found.lb = l
    BY <1>0, <2>1, <2>2 DEF WkType
  <2>4. extra \in Int /\ extra <= Len(hosts) /\ Len(hosts) \in Nat
    BY <1>0, <2>1 DEF WkType
  <2> HIDE DEF found, extra, hosts
  <2>5. GoodWk(NextDelete([found EXCEPT !.todo = hosts], "destroy_instance"))
    <3>1. /\ [found EXCEPT !.todo = hosts] \in WkType
          /\ [found EXCEPT !.todo = hosts].name \in Names
          /\ [found EXCEPT !.todo = hosts].lb \in LBs
      BY <2>1, <2>3 DEF WkType
    <3> QED
      BY <3>1, NextDeleteGood
  <2>6. ASSUME extra < 0
        PROVE  GoodWk([found EXCEPT !.pc = "create_host", !.adds = -extra])
    <3>1. -extra \in Nat
      BY <2>4, <2>6
    <3> QED
      BY <2>1, <2>3, <3>1 DEF GoodWk, WkType, WkRecordOK, AddPcs, DeletePcs
  <2>7. GoodWk(NextDelete([found EXCEPT !.todo = SubSeq(hosts, 1, extra)], "scale_finally"))
    <3>1. SubSeq(hosts, 1, extra) \in Seq(Hosts)
      <4>1. \A i \in 1..extra : hosts[i] \in Hosts
        BY <2>1, <2>4
      <4> QED
        BY <2>4, <4>1, SubSeqProperties
    <3>2. /\ [found EXCEPT !.todo = SubSeq(hosts, 1, extra)] \in WkType
          /\ [found EXCEPT !.todo = SubSeq(hosts, 1, extra)].name \in Names
          /\ [found EXCEPT !.todo = SubSeq(hosts, 1, extra)].lb \in LBs
      BY <2>1, <2>3, <3>1 DEF WkType
    <3> QED
      BY <3>2, NextDeleteGood
  <2>8. WkOK
    <3>1. \/ Set(w, NextDelete([found EXCEPT !.todo = hosts], "destroy_instance"))
          \/ extra < 0 /\ Set(w, [found EXCEPT !.pc = "create_host", !.adds = -extra])
          \/ Set(w, NextDelete([found EXCEPT !.todo = SubSeq(hosts, 1, extra)],
                               "scale_finally"))
      BY DEF found, extra, hosts
    <3> QED
      BY <2>5, <2>6, <2>7, <3>1, WkSet
  <2> QED
    BY <1>2, <2>8 DEF TaskFindLB, TypeInv, TypeOK, RecordsOK
<1>3. CASE CreateLB(w)
  <2> PICK l \in LBsOf("unused") :
          /\ lbOf' = [lbOf EXCEPT ![l] = wk[w].name]
          /\ Set(w, [wk[w] EXCEPT !.pc = "create_hc", !.lb = l, !.fresh = TRUE,
                                  !.empty = TRUE])
    BY <1>3 DEF CreateLB
  <2>1. l \in LBs
    BY DEF LBsOf
  <2>2. wk[w].name \in Names
    BY <1>0, <1>3 DEF CreateLB, In, WkRecordOK
  <2>3. GoodWk([wk[w] EXCEPT !.pc = "create_hc", !.lb = l, !.fresh = TRUE, !.empty = TRUE])
    BY <1>0, <2>1, <2>2 DEF GoodWk, WkType, WkRecordOK, AddPcs, DeletePcs
  <2>4. WkOK
    BY <2>3, WkSet
  <2> QED
    BY <1>3, <2>2, <2>4 DEF CreateLB, TypeInv, TypeOK, RecordsOK
<1>4. CASE CreateHC(w)
  <2>1. wk[w].name \in Names
    BY <1>0, <1>4 DEF CreateHC, In, WkRecordOK
  <2>2. GoodWk([wk[w] EXCEPT !.pc = "create_host"])
    BY <1>0, <1>4 DEF CreateHC, In, GoodWk, WkType, WkRecordOK, AddPcs, DeletePcs
  <2>3. WkOK
    BY <1>4, <1>e, <2>2 DEF CreateHC
  <2> QED
    BY <1>4, <2>1, <2>3 DEF CreateHC, TypeInv, TypeOK, RecordsOK
<1>5. CASE CreateHost(w)
  <2> PICK h \in Hosts :
          /\ hostOf' = [hostOf EXCEPT ![h] = wk[w].name]
          /\ Set(w, [wk[w] EXCEPT !.pc = "add_host", !.host = h])
    BY <1>5 DEF CreateHost
  <2>1. wk[w].name \in Names
    BY <1>0, <1>5 DEF CreateHost, In, WkRecordOK
  <2>2. GoodWk([wk[w] EXCEPT !.pc = "add_host", !.host = h])
    BY <1>0, <1>5 DEF CreateHost, In, GoodWk, WkType, WkRecordOK, AddPcs, DeletePcs
  <2>3. WkOK
    BY <2>2, WkSet
  <2> QED
    BY <1>5, <2>1, <2>3 DEF CreateHost, TypeInv, TypeOK, RecordsOK
<1>6. CASE AddHost(w)
  <2>1. wk[w].lb \in LBs /\ wk[w].host \in Hosts
    BY <1>0, <1>6 DEF AddHost, In, WkRecordOK
  <2>2. GoodWk([wk[w] EXCEPT !.pc = "wait_healthcheck"])
    BY <1>0, <1>6 DEF AddHost, In, GoodWk, WkType, WkRecordOK, AddPcs, DeletePcs
  <2>3. WkOK
    BY <1>6, <1>e, <2>2 DEF AddHost
  <2>4. attached' \in [LBs -> Seq(Hosts)]
    <3>1. Append(attached[wk[w].lb], wk[w].host) \in Seq(Hosts)
      BY <2>1 DEF TypeInv, TypeOK
    <3> QED
      BY <1>6, <3>1 DEF AddHost, TypeInv, TypeOK
  <2> QED
    BY <1>6, <2>3, <2>4 DEF AddHost, TypeInv, TypeOK, RecordsOK
<1>7. CASE WaitHealthcheck(w)
  <2>1. GoodWk([wk[w] EXCEPT !.pc = "add_url"])
    BY <1>0, <1>7 DEF WaitHealthcheck, In, GoodWk, WkType, WkRecordOK, AddPcs, DeletePcs
  <2>2. WkOK
    BY <1>7, <1>e, <2>1 DEF WaitHealthcheck
  <2> QED
    BY <1>7, <2>2 DEF WaitHealthcheck, TypeInv, TypeOK, RecordsOK
<1>8. CASE AddURL(w)
  <2>1. wk[w].host \in Hosts
    BY <1>0, <1>8 DEF AddURL, In, WkRecordOK
  <2>2. GoodWk([wk[w] EXCEPT !.pc = "add_finally"])
    BY <1>0, <1>8 DEF AddURL, In, GoodWk, WkType, WkRecordOK, FinallyPcs, DeletePcs
  <2>3. WkOK
    BY <1>8, <1>e, <2>2 DEF AddURL
  <2>4. urls' \in [Names -> SUBSET Hosts]
    BY <1>8, <2>1 DEF AddURL, TypeInv, TypeOK
  <2> QED
    BY <1>8, <2>3, <2>4 DEF AddURL, TypeInv, TypeOK, RecordsOK
<1>9. CASE AddFinally(w)
  <2> DEFINE t == wk[w]
             more == [t EXCEPT !.pc = "create_host", !.adds = @ - 1, !.host = Nothing]
             last == [t EXCEPT !.pc = "scale_finally"]
  <2>1. t.name \in Names
    BY <1>0, <1>9 DEF AddFinally, In, WkRecordOK
  <2>2. ASSUME MoreHosts(t)
        PROVE  GoodWk(more)
    <3>1. t.adds - 1 \in Nat /\ t.lb \in LBs
      BY <1>0, <1>9, <2>2 DEF AddFinally, In, MoreHosts, WkType, WkRecordOK
    <3> QED
      BY <1>0, <2>1, <3>1 DEF GoodWk, WkType, WkRecordOK, AddPcs, DeletePcs
  <2>3. GoodWk(last)
    BY <1>0, <2>1 DEF GoodWk, WkType, WkRecordOK, FinallyPcs, DeletePcs
  <2>4. Set(w, IdleWk) \/ (MoreHosts(t) /\ Set(w, more)) \/ Set(w, last)
    BY <1>9 DEF AddFinally
  <2> HIDE DEF more, last
  <2>5. WkOK
    BY <2>2, <2>3, <2>4, IdleWkGood, WkSet
  <2> QED
    BY <1>9, <2>1, <2>5 DEF AddFinally, TypeInv, TypeOK, RecordsOK
<1>10. CASE DestroyHost(w)
  <2>1. WkOK
    <3>1. GoodWk([wk[w] EXCEPT !.pc = "remove_url"])
      BY <1>0, <1>10 DEF DestroyHost, In, GoodWk, WkType, WkRecordOK, DeletePcs
    <3>2. GoodWk([wk[w] EXCEPT !.pc = "remove_host"])
      BY <1>0, <1>10 DEF DestroyHost, In, GoodWk, WkType, WkRecordOK, DeletePcs
    <3> QED
      BY <1>10, <1>e, <3>1, <3>2 DEF DestroyHost
  <2> QED
    BY <1>10, <2>1 DEF DestroyHost, TypeInv, TypeOK, RecordsOK
<1>11. CASE RemoveHost(w)
  <2>1. wk[w].lb \in LBs
    BY <1>0, <1>11 DEF RemoveHost, In, WkRecordOK
  <2>2. GoodWk([wk[w] EXCEPT !.pc = "remove_url"])
    BY <1>0, <1>11 DEF RemoveHost, In, GoodWk, WkType, WkRecordOK, DeletePcs
  <2>3. WkOK
    BY <1>11, <1>e, <2>2 DEF RemoveHost
  <2>4. attached' \in [LBs -> Seq(Hosts)]
    <3>1. Pull(attached[wk[w].lb], wk[w].host) \in Seq(Hosts)
      BY <2>1, PullProperties DEF TypeInv, TypeOK
    <3> QED
      BY <1>11, <3>1 DEF RemoveHost, TypeInv, TypeOK
  <2> QED
    BY <1>11, <2>3, <2>4 DEF RemoveHost, TypeInv, TypeOK, RecordsOK
<1>12. CASE RemoveURL(w)
  <2>1. GoodWk([wk[w] EXCEPT !.pc = "delete_finally"])
    BY <1>0, <1>12 DEF RemoveURL, In, GoodWk, WkType, WkRecordOK, FinallyPcs, DeletePcs
  <2>2. WkOK
    BY <1>12, <1>e, <2>1 DEF RemoveURL
  <2>3. urls' \in [Names -> SUBSET Hosts]
    BY <1>12 DEF RemoveURL, TypeInv, TypeOK
  <2> QED
    BY <1>12, <2>2, <2>3 DEF RemoveURL, TypeInv, TypeOK, RecordsOK
<1>13. CASE DeleteFinally(w)
  <2> DEFINE t == wk[w]
             after == IF t.kind = "scale" THEN "scale_finally" ELSE "destroy_instance"
  <2>1. t.name \in Names /\ t.lb \in LBs
    BY <1>0, <1>13 DEF DeleteFinally, In, WkRecordOK
  <2>2. GoodWk([t EXCEPT !.pc = "rollback_hc"])
    BY <1>0, <2>1 DEF GoodWk, WkType, WkRecordOK, RollbackPcs, DeletePcs
  <2>3. GoodWk(LeaveRun(t))
    BY <1>0, <2>1, LeaveRunGood
  <2>4. GoodWk(NextDelete(t, after))
    BY <1>0, <2>1, NextDeleteGood
  <2>5. \/ Set(w, [t EXCEPT !.pc = "rollback_hc"])
        \/ Set(w, LeaveRun(t))
        \/ Set(w, NextDelete(t, after))
    BY <1>13 DEF DeleteFinally
  <2>6. WkOK
    BY <2>2, <2>3, <2>4, <2>5, WkSet
  <2> QED
    BY <1>13, <2>6 DEF DeleteFinally, TypeInv, TypeOK, RecordsOK
<1>14. CASE ScaleFinally(w)
  <2>1. WkOK
    BY <1>14, IdleWkGood, WkSet DEF ScaleFinally
  <2> QED
    BY <1>14, <2>1 DEF ScaleFinally, TypeInv, TypeOK, RecordsOK
<1>15. CASE DestroyInstance(w)
  <2>1. WkOK
    <3>1. GoodWk([wk[w] EXCEPT !.pc = "destroy_hc"])
      BY <1>0, <1>15 DEF DestroyInstance, In, GoodWk, WkType, WkRecordOK, TailPcs, DeletePcs
    <3>2. GoodWk([wk[w] EXCEPT !.pc = "destroy_lb"])
      BY <1>0, <1>15 DEF DestroyInstance, In, GoodWk, WkType, WkRecordOK, TailPcs, DeletePcs
    <3> QED
      BY <1>15, <1>e, <3>1, <3>2 DEF DestroyInstance
  <2> QED
    BY <1>15, <2>1 DEF DestroyInstance, TypeInv, TypeOK, RecordsOK
<1>16. CASE DestroyLB(w)
  <2>1. wk[w].name \in Names /\ wk[w].lb \in LBs
    BY <1>0, <1>16 DEF DestroyLB, In, WkRecordOK
  <2>2. GoodWk([wk[w] EXCEPT !.pc = "destroy_hc"])
    BY <1>0, <2>1 DEF GoodWk, WkType, WkRecordOK, TailPcs, DeletePcs
  <2>3. GoodWk(RollbackHost(wk[w]))
    BY <1>0, <2>1, RollbackHostGood
  <2>4. WkOK
    BY <1>16, <1>e, <2>2, <2>3, WkSet DEF DestroyLB
  <2>5. attached' \in [LBs -> Seq(Hosts)]
    <3>1. <<>> \in Seq(Hosts)
      OBVIOUS
    <3> QED
      BY <1>16, <3>1 DEF DestroyLB, TypeInv, TypeOK
  <2> QED
    BY <1>16, <2>4, <2>5 DEF DestroyLB, TypeInv, TypeOK, RecordsOK
<1>17. CASE DestroyHC(w)
  <2>1. wk[w].name \in Names
    BY <1>0, <1>17 DEF DestroyHC, In, WkRecordOK
  <2>2. In(w, "rollback_hc") => GoodWk([wk[w] EXCEPT !.pc = "add_finally"])
    BY <1>0, <2>1 DEF In, GoodWk, WkType, WkRecordOK, FinallyPcs, DeletePcs
  <2>3. WkOK
    BY <1>17, <1>e, <2>2, IdleWkGood, WkSet DEF DestroyHC
  <2>4. hcs' \in SUBSET Names /\ urls' \in [Names -> SUBSET Hosts]
    BY <1>17 DEF DestroyHC, TypeInv, TypeOK
  <2> QED
    BY <1>17, <2>3, <2>4 DEF DestroyHC, TypeInv, TypeOK, RecordsOK
<1>18. CASE TaskRaises(w)
  <2>1. wk[w].pc # "idle"
    BY <1>18 DEF TaskRaises, MustRaise
  <2>2. WkOK
    BY <1>0, <1>18, <2>1, HandlerGood, WkSet DEF TaskRaises, GoodWk
  <2> QED
    BY <1>18, <2>2 DEF TaskRaises, TypeInv, TypeOK, RecordsOK
<1> QED
  BY <1>1, <1>2, <1>3, <1>4, <1>5, <1>6, <1>7, <1>8, <1>9, <1>10, <1>11, <1>12,
     <1>13, <1>14, <1>15, <1>16, <1>17, <1>18
     DEF WorkerStep, AddHostStep, DeleteHostStep

(* So do a failing call, which takes the task to its handler, and a crash. *)
LEMMA WorkerFaultTypes ==
    ASSUME TypeInv, NEW w \in Workers, CallFails(w) \/ Crash(w)
    PROVE  TypeInv'
<1>0. wk[w] \in WkType /\ WkRecordOK(wk[w])
  BY DEF TypeInv, TypeOK, RecordsOK
<1>1. CASE CallFails(w)
  <2>1. GoodWk(Handler(wk[w]))
    BY <1>0, <1>1, HandlerGood DEF CallFails, GoodWk
  <2>2. wk' \in [Workers -> WkType] /\ \A v \in Workers : WkRecordOK(wk'[v])
    BY <1>1, <2>1, WkSet DEF CallFails
  <2> QED
    BY <1>1, <2>2 DEF CallFails, quotaVars, storeVars, cloudVars, TypeInv, TypeOK, RecordsOK
<1>2. CASE Crash(w)
  <2>1. wk' \in [Workers -> WkType] /\ \A v \in Workers : WkRecordOK(wk'[v])
    BY <1>2, IdleWkGood, WkSet DEF Crash
  <2> QED
    BY <1>2, <2>1 DEF Crash, quotaVars, storeVars, cloudVars, TypeInv, TypeOK, RecordsOK
<1> QED
  BY <1>1, <1>2

LEMMA StepTypes == TypeInv /\ [Next]_vars => TypeInv'
<1> SUFFICES ASSUME TypeInv, [Next]_vars PROVE TypeInv'
  OBVIOUS
<1>1. CASE UNCHANGED vars
  BY <1>1 DEF vars, quotaVars, storeVars, cloudVars, boundVars, TypeInv, TypeOK,
     RecordsOK
<1>2. CASE Next
  BY <1>2, SetTeamQuotaTypes, RequestBoundaryTypes, RequestStepTypes,
     RequestRaisesTypes, WorkerStepTypes, WorkerFaultTypes DEF Next
<1> QED
  BY <1>1, <1>2

(* Every store, queue, request and task record keeps its type, and a       *)
(* request or task holds the name, LB and host its next call needs,        *)
(* whatever the clients do and whatever fails (manager.py, tasks.py).      *)
THEOREM TypeCorrect == Spec => []TypeOK
<1>1. Init => TypeInv
  BY InitTypeInv
<1>2. TypeInv /\ [Next]_vars => TypeInv'
  BY StepTypes
<1>3. TypeInv => TypeOK
  BY DEF TypeInv
<1> QED
  BY <1>1, <1>2, <1>3, PTL DEF Spec
-----------------------------------------------------------------------------
(***************************************************************************)
(* The team quota.  QuotaNeverExceeded alone is not inductive: the step    *)
(* that writes the bill no longer looks at the quota.  What makes it safe  *)
(* is what the request read: its list was shorter than a quota the team    *)
(* had at that time, hence shorter than the largest it ever had, and the   *)
(* write happens only if the bill is still that list.                      *)
(***************************************************************************)

(* A bill is a set kept as a list, and fits the largest quota granted. *)
BillsOK ==
    \A t \in Teams : /\ quota[t] <= granted[t]
                     /\ Len(used[t]) <= granted[t]
                     /\ IsInjective(used[t])

(* The list a creation compares with had room under some quota. *)
ReadsOK ==
    \A r \in Requests :
        req[r].pc = "increment_quota" => Len(req[r].prev) < granted[req[r].team]

QuotaInv == TypeInv /\ BillsOK /\ ReadsOK

LEMMA InitQuotaInv == Init => QuotaInv
  BY InitTypeInv, ConstantsAssumption DEF Init, QuotaInv, BillsOK, ReadsOK, IdleReq,
     IsInjective

(* A request that does not begin a creation reads nothing new. *)
LEMMA ReadsKept ==
    ASSUME QuotaInv, NEW r \in Requests, granted' = granted,
           \/ \E pc \in ReqPcs \ {"increment_quota"} : Goto(r, pc)
           \/ Return(r)
    PROVE  ReadsOK'
<1>1. req \in [Requests -> ReqType] /\ ReadsOK
  BY DEF QuotaInv, TypeInv, TypeOK
<1>2. \A q \in Requests : req'[q] = req[q] \/ req'[q].pc # "increment_quota"
  BY <1>1 DEF Goto, Return, IdleReq, ReqType
<1> QED
  BY <1>1, <1>2 DEF ReadsOK

(* Every step keeps the quota invariant. *)
LEMMA StepQuotaInv == QuotaInv /\ [Next]_vars => QuotaInv'
<1> SUFFICES ASSUME QuotaInv, [Next]_vars PROVE QuotaInv'
  OBVIOUS
<1> USE DEF quotaVars
<1>0. /\ TypeInv /\ BillsOK /\ ReadsOK
      /\ used \in [Teams -> Seq(Names)] /\ quota \in [Teams -> Nat]
      /\ granted \in [Teams -> Nat] /\ req \in [Requests -> ReqType]
  BY DEF QuotaInv, TypeInv, TypeOK
<1>1. TypeInv'
  BY <1>0, StepTypes
<1>2. IdleReq \in ReqType /\ IdleReq.prev = <<>>
  BY DEF IdleReq, ReqType, ReqPcs
<1>3. CASE UNCHANGED <<quotaVars, req>>
  BY <1>0, <1>1, <1>3 DEF QuotaInv, BillsOK, ReadsOK
<1>4. ASSUME NEW t \in Teams, NEW q \in QuotaValues, SetTeamQuota(t, q)
      PROVE  QuotaInv'
  <2>1. q \in Nat
    BY ConstantsAssumption
  <2>2. \A u \in Teams : granted'[u] \in Nat /\ granted[u] <= granted'[u]
    BY <1>0, <1>4, <2>1 DEF SetTeamQuota
  <2>3. BillsOK'
    <3>1. ASSUME NEW u \in Teams
          PROVE  quota'[u] <= granted'[u] /\ Len(used[u]) <= granted'[u]
      <4>1. Len(used[u]) \in Nat /\ quota[u] <= granted[u] /\ Len(used[u]) <= granted[u]
        BY <1>0 DEF BillsOK
      <4> QED
        BY <1>0, <1>4, <2>1, <2>2, <4>1 DEF SetTeamQuota
    <3> QED
      BY <1>0, <1>4, <3>1 DEF SetTeamQuota, BillsOK
  <2>4. ReadsOK'
    <3>1. ASSUME NEW r \in Requests, req[r].pc = "increment_quota"
          PROVE  Len(req[r].prev) < granted'[req[r].team]
      <4>1. req[r].team \in Teams /\ Len(req[r].prev) \in Nat
        BY <1>0, <3>1 DEF TypeInv, RecordsOK, ReqRecordOK, ReqType
      <4> QED
        BY <1>0, <2>2, <3>1, <4>1 DEF ReadsOK
    <3> QED
      BY <1>4, <3>1 DEF SetTeamQuota, ReadsOK
  <2> QED
    BY <1>1, <2>3, <2>4 DEF QuotaInv
<1>5. ASSUME NEW r \in Requests, NEW n \in Names, NEW t \in Teams, NewInstance(r, n, t)
      PROVE  QuotaInv'
  <2> DEFINE first == [IdleReq EXCEPT !.pc = "increment_quota", !.op = "new",
                          !.name = n, !.team = t, !.prev = used[t]]
  <2>1. /\ req' = [req EXCEPT ![r] = first] /\ UNCHANGED quotaVars
        /\ Len(used[t]) < quota[t]
    BY <1>5 DEF NewInstance, Begin
  <2>2. first.team = t /\ first.prev = used[t]
    BY <1>2 DEF ReqType
  <2>3. Len(first.prev) < granted[first.team]
    BY <1>0, <2>1, <2>2 DEF BillsOK
  <2> HIDE DEF first
  <2>4. ReadsOK'
    BY <1>0, <2>1, <2>3 DEF ReadsOK
  <2> QED
    BY <1>0, <1>1, <2>1, <2>4 DEF QuotaInv, BillsOK
<1>6. ASSUME NEW r \in Requests, NEW n \in Names,
             \/ RemoveInstance(r, n)
             \/ \E q \in Quantities : ScaleInstance(r, n, q)
             \/ UpdateInstance(r, n)
      PROVE  QuotaInv'
  <2>1. ASSUME NEW first, Begin(r, first), first.pc # "increment_quota"
        PROVE  QuotaInv'
    <3>1. /\ req' = [req EXCEPT ![r] = first] /\ UNCHANGED quotaVars
      BY <2>1 DEF Begin
    <3>2. ReadsOK'
      BY <1>0, <2>1, <3>1 DEF ReadsOK
    <3> QED
      BY <1>0, <1>1, <3>1, <3>2 DEF QuotaInv, BillsOK
  <2>2. CASE RemoveInstance(r, n)
    BY <1>2, <2>1, <2>2 DEF RemoveInstance, ReqType
  <2>3. CASE \E q \in Quantities : ScaleInstance(r, n, q)
    BY <1>2, <2>1, <2>3 DEF ScaleInstance, ReqType
  <2>4. CASE UpdateInstance(r, n)
    BY <1>2, <2>1, <2>4 DEF UpdateInstance, ReqType
  <2> QED
    BY <1>6, <2>2, <2>3, <2>4
<1>7. ASSUME NEW r \in Requests, IncrementQuota(r)
      PROVE  QuotaInv'
  <2> DEFINE t == req[r].team
  <2>1. t \in Teams /\ req[r].name \in Names /\ Len(req[r].prev) < granted[t]
    BY <1>0, <1>7 DEF IncrementQuota, At, TypeInv, RecordsOK, ReqRecordOK, ReadsOK
  <2>2. ReadsOK'
    BY <1>7, ReadsKept DEF IncrementQuota, ReqPcs
  <2>3. CASE BillUnchanged(r)
    <3>1. /\ Billed(r) \in Seq(Names)
          /\ Len(Billed(r)) <= Len(used[t]) + 1
          /\ IsInjective(Billed(r))
      BY <1>0, <2>1, AddToSetProperties DEF Billed, BillsOK
    <3>2. Len(Billed(r)) <= granted[t]
      <4>1. Len(used[t]) < granted[t]
        BY <2>1, <2>3 DEF BillUnchanged
      <4>2. Len(used[t]) \in Nat /\ granted[t] \in Nat /\ Len(Billed(r)) \in Nat
        BY <1>0, <2>1, <3>1
      <4> QED
        BY <3>1, <4>1, <4>2
    <3>3. used' = [used EXCEPT ![t] = Billed(r)] /\ UNCHANGED <<quota, granted>>
      BY <1>7, <2>3 DEF IncrementQuota
    <3>4. BillsOK'
      BY <1>0, <2>1, <3>1, <3>2, <3>3 DEF BillsOK
    <3> QED
      BY <1>1, <2>2, <3>4 DEF QuotaInv
  <2>4. CASE ~BillUnchanged(r)
    BY <1>0, <1>1, <1>7, <2>2, <2>4 DEF IncrementQuota, QuotaInv, BillsOK
  <2> QED
    BY <2>3, <2>4
<1>8. ASSUME NEW r \in Requests, DecrementQuota(r)
      PROVE  QuotaInv'
  <2>1. ReadsOK'
    BY <1>8, ReadsKept DEF DecrementQuota, ReqPcs
  <2>2. ASSUME NEW t \in Teams
        PROVE  Len(used'[t]) <= granted[t] /\ IsInjective(used'[t])
    <3>1. used'[t] = Pull(used[t], req[r].name)
      BY <1>8 DEF DecrementQuota, Unbilled
    <3>2. /\ Pull(used[t], req[r].name) \in Seq(Names)
          /\ Len(Pull(used[t], req[r].name)) <= Len(used[t])
          /\ IsInjective(Pull(used[t], req[r].name))
      BY <1>0, PullProperties DEF BillsOK
    <3>3. /\ Len(used[t]) \in Nat /\ Len(used'[t]) \in Nat /\ granted[t] \in Nat
          /\ Len(used[t]) <= granted[t]
      BY <1>0, <3>1, <3>2 DEF BillsOK
    <3> QED
      BY <3>1, <3>2, <3>3
  <2> QED
    BY <1>0, <1>1, <1>8, <2>1, <2>2 DEF DecrementQuota, QuotaInv, BillsOK
<1>9. ASSUME NEW r \in Requests,
             \/ FindLB(r) \/ CreateTask(r) \/ WriteHealthcheck(r) \/ FindMetadata(r)
             \/ StoreMetadata(r) \/ RemoveTask(r) \/ RemoveMetadata(r) \/ Delay(r)
             \/ UpdateTask(r) \/ RequestRaises(r)
      PROVE  QuotaInv'
  <2>1. UNCHANGED quotaVars
    BY <1>9 DEF FindLB, CreateTask, WriteHealthcheck, FindMetadata, StoreMetadata,
       RemoveTask, RemoveMetadata, Delay, UpdateTask, RequestRaises
  <2>2. \/ \E pc \in ReqPcs \ {"increment_quota"} : Goto(r, pc)
        \/ Return(r)
    BY <1>9 DEF FindLB, CreateTask, WriteHealthcheck, FindMetadata, StoreMetadata,
       RemoveTask, RemoveMetadata, Delay, UpdateTask, RequestRaises, ReqPcs
  <2>3. ReadsOK'
    BY <2>1, <2>2, ReadsKept
  <2> QED
    BY <1>0, <1>1, <2>1, <2>3 DEF QuotaInv, BillsOK
<1>10. ASSUME NEW w \in Workers, WorkerStep(w) \/ CallFails(w) \/ Crash(w)
       PROVE  UNCHANGED <<quotaVars, req>>
  BY <1>10 DEF WorkerStep, AddHostStep, DeleteHostStep, TakeTask, TaskFindLB, CreateLB,
     CreateHC, CreateHost, AddHost, WaitHealthcheck, AddURL, AddFinally, DestroyHost,
     RemoveHost, RemoveURL, DeleteFinally, ScaleFinally, DestroyInstance, DestroyLB,
     DestroyHC, TaskRaises, CallFails, Crash
<1>11. CASE UNCHANGED vars
  BY <1>3, <1>11 DEF vars
<1>12. CASE Next
  BY <1>3, <1>4, <1>5, <1>6, <1>7, <1>8, <1>9, <1>10, <1>12 DEF Next, RequestStep
<1> QED
  BY <1>11, <1>12

(* No interleaving of new_instance, remove_instance and set_team_quota     *)
(* bills a team for more instances than the largest quota it ever had      *)
(* (storage.py increment_quota, decrement_quota).                          *)
THEOREM QuotaSafe == Spec => []QuotaNeverExceeded
<1>1. Init => QuotaInv
  BY InitQuotaInv
<1>2. QuotaInv /\ [Next]_vars => QuotaInv'
  BY StepQuotaInv
<1>3. QuotaInv => QuotaNeverExceeded
  BY DEF QuotaInv, BillsOK, QuotaNeverExceeded
<1> QED
  BY <1>1, <1>2, <1>3, PTL DEF Spec
-----------------------------------------------------------------------------
(* The storage calls implement the quota ledger *)

Charges == [t \in Teams |-> ToSet(used[t])]

(* A step that touches neither the bills nor the grants stutters in the ledger, *)
(* and so does one that only lowers a quota or bills a name a second time.      *)
LEMMA StepImplementsLedger ==
    QuotaInv /\ [Next]_vars => [Ledger!Next]_(Ledger!ledgerVars)
<1> SUFFICES ASSUME QuotaInv, [Next]_vars
             PROVE  Ledger!Next \/ UNCHANGED <<Charges, granted>>
  BY DEF Ledger!ledgerVars, Charges
<1> USE DEF quotaVars
<1>0. /\ TypeInv /\ BillsOK /\ ReadsOK
      /\ used \in [Teams -> Seq(Names)] /\ quota \in [Teams -> Nat]
      /\ granted \in [Teams -> Nat] /\ req \in [Requests -> ReqType]
  BY DEF QuotaInv, TypeInv, TypeOK
<1>1. ASSUME UNCHANGED <<used, granted>>
      PROVE  UNCHANGED <<Charges, granted>>
  BY <1>1 DEF Charges
<1>2. ASSUME NEW t \in Teams, NEW q \in QuotaValues, SetTeamQuota(t, q)
      PROVE  Ledger!Next \/ UNCHANGED <<used, granted>>
  <2>1. q \in Nat
    BY ConstantsAssumption
  <2>2. CASE q > granted[t]
    <3>1. granted' = [granted EXCEPT ![t] = q] /\ UNCHANGED used
      BY <1>2, <2>2 DEF SetTeamQuota
    <3>2. granted'[t] = q
      BY <1>0, <3>1
    <3>3. Ledger!Grant(t)
      BY <2>2, <3>1, <3>2 DEF Ledger!Grant
    <3> QED
      BY <3>3 DEF Ledger!Next
  <2>3. CASE ~(q > granted[t])
    BY <1>0, <1>2, <2>3 DEF SetTeamQuota
  <2> QED
    BY <2>2, <2>3
<1>3. ASSUME NEW r \in Requests, IncrementQuota(r)
      PROVE  Ledger!Next \/ UNCHANGED <<used, granted>>
  <2> DEFINE t == req[r].team
             n == req[r].name
  <2>1. t \in Teams /\ n \in Names /\ Len(req[r].prev) < granted[t]
    BY <1>0, <1>3 DEF IncrementQuota, At, TypeInv, RecordsOK, ReqRecordOK, ReadsOK
  <2> HIDE DEF t, n
  <2>2. CASE BillUnchanged(r) /\ ~Contains(used[t], n)
    <3>1. used' = [used EXCEPT ![t] = AddToSet(used[t], n)] /\ UNCHANGED granted
      BY <1>3, <2>2 DEF IncrementQuota, Billed, t, n
    <3>2. n \notin ToSet(used[t])
      BY <1>0, <2>1, <2>2 DEF Contains, ToSet
    <3>3. Cardinality(ToSet(used[t])) < granted[t]
      <4>1. Len(used[t]) < granted[t]
        BY <2>1, <2>2 DEF BillUnchanged, t
      <4>2. /\ Cardinality(ToSet(used[t])) \in Nat
            /\ Cardinality(ToSet(used[t])) <= Len(used[t])
        BY <1>0, <2>1, ToSetCardinality
      <4>3. Len(used[t]) \in Nat /\ granted[t] \in Nat
        BY <1>0, <2>1
      <4> QED
        BY <4>1, <4>2, <4>3
    <3>4. Charges' = [Charges EXCEPT ![t] = @ \cup {n}]
      <4>1. ToSet(AddToSet(used[t], n)) = ToSet(used[t]) \cup {n}
        BY <1>0, <2>1, AddToSetProperties
      <4> QED
        BY <1>0, <2>1, <3>1, <4>1 DEF Charges
    <3>5. Ledger!Charge(t, n)
      <4>1. Ledger!Cardinality(ToSet(used[t])) = Cardinality(ToSet(used[t]))
        BY DEF Ledger!Cardinality, Cardinality
      <4> QED
        BY <2>1, <3>1, <3>2, <3>3, <3>4, <4>1 DEF Ledger!Charge, Charges
    <3> QED
      BY <2>1, <3>5 DEF Ledger!Next
  <2>3. CASE ~(BillUnchanged(r) /\ ~Contains(used[t], n))
    BY <1>0, <1>3, <2>3 DEF IncrementQuota, Billed, AddToSet, t, n
  <2> QED
    BY <2>2, <2>3
<1>4. ASSUME NEW r \in Requests, DecrementQuota(r)
      PROVE  Ledger!Next
  <2> DEFINE n == req[r].name
  <2>1. n \in Names
    BY <1>0, <1>4 DEF DecrementQuota, At, TypeInv, RecordsOK, ReqRecordOK
  <2> HIDE DEF n
  <2>2. used' = [t \in Teams |-> Pull(used[t], n)] /\ UNCHANGED granted
    BY <1>4 DEF DecrementQuota, Unbilled, n
  <2>3. \A t \in Teams : ToSet(Pull(used[t], n)) = ToSet(used[t]) \ {n}
    BY <1>0, PullProperties DEF BillsOK
  <2>4. Charges' = [t \in Teams |-> Charges[t] \ {n}]
    BY <2>2, <2>3 DEF Charges
  <2>5. Ledger!Release(n)
    BY <2>2, <2>4 DEF Ledger!Release, Charges
  <2> QED
    BY <2>1, <2>5 DEF Ledger!Next
<1>5. ASSUME NEW r \in Requests, NEW n \in Names,
             \/ \E t \in Teams : NewInstance(r, n, t)
             \/ RemoveInstance(r, n)
             \/ \E q \in Quantities : ScaleInstance(r, n, q)
             \/ UpdateInstance(r, n)
      PROVE  UNCHANGED <<used, granted>>
  BY <1>5 DEF NewInstance, RemoveInstance, ScaleInstance, UpdateInstance, Begin
<1>6. ASSUME NEW r \in Requests,
             \/ FindLB(r) \/ CreateTask(r) \/ WriteHealthcheck(r) \/ FindMetadata(r)
             \/ StoreMetadata(r) \/ RemoveTask(r) \/ RemoveMetadata(r) \/ Delay(r)
             \/ UpdateTask(r) \/ RequestRaises(r)
      PROVE  UNCHANGED <<used, granted>>
  BY <1>6 DEF FindLB, CreateTask, WriteHealthcheck, FindMetadata, StoreMetadata,
     RemoveTask, RemoveMetadata, Delay, UpdateTask, RequestRaises
<1>7. ASSUME NEW w \in Workers, WorkerStep(w) \/ CallFails(w) \/ Crash(w)
      PROVE  UNCHANGED <<used, granted>>
  BY <1>7 DEF WorkerStep, AddHostStep, DeleteHostStep, TakeTask, TaskFindLB, CreateLB,
     CreateHC, CreateHost, AddHost, WaitHealthcheck, AddURL, AddFinally, DestroyHost,
     RemoveHost, RemoveURL, DeleteFinally, ScaleFinally, DestroyInstance, DestroyLB,
     DestroyHC, TaskRaises, CallFails, Crash
<1>8. CASE UNCHANGED vars
  BY <1>1, <1>8 DEF vars
<1>9. CASE Next
  BY <1>1, <1>2, <1>3, <1>4, <1>5, <1>6, <1>7, <1>9 DEF Next, RequestStep
<1> QED
  BY <1>8, <1>9

(* The team documents implement the ledger of QuotaLedger: a charge is one *)
(* atomic step under the granted quota although new_instance reads, checks *)
(* and writes in separate calls (manager.py, storage.py).                  *)
THEOREM ImplementsLedger == Spec => LedgerSpec
<1>1. Init => Ledger!Init
  <2>1. ToSet(<<>>) = {}
    BY DEF ToSet
  <2> QED
    BY <2>1 DEF Init, Ledger!Init
<1>2. Init => QuotaInv
  BY InitQuotaInv
<1>3. QuotaInv /\ [Next]_vars => QuotaInv'
  BY StepQuotaInv
<1>4. QuotaInv /\ [Next]_vars => [Ledger!Next]_(Ledger!ledgerVars)
  BY StepImplementsLedger
<1> QED
  BY <1>1, <1>2, <1>3, <1>4, PTL DEF Spec, LedgerSpec, Ledger!Spec
-----------------------------------------------------------------------------
(***************************************************************************)
(* One piece of work on an instance at a time.  A client that waits until  *)
(* all work on an instance is over makes its requests and tasks a line: a  *)
(* request hands over to its task when it enqueues it, the queue to the    *)
(* worker that takes it.  Only the request's last call, the update of the  *)
(* task document, overlaps its task.                                       *)
(***************************************************************************)

Waits == Client \in {"patient", "orderly"}

OneRequest ==
    \A r, s \in Requests :
        req[r].pc # "idle" /\ req[s].pc # "idle" /\ req[r].name = req[s].name => r = s

RequestBeforeTask ==
    \A r \in Requests :
        req[r].pc \notin {"idle", "update_task"} =>
            /\ \A i \in DOMAIN queue : queue[i].name # req[r].name
            /\ \A w \in Workers : wk[w].pc # "idle" => wk[w].name # req[r].name

OneQueued == \A i, j \in DOMAIN queue : queue[i].name = queue[j].name => i = j

QueuedBeforeTaken ==
    \A i \in DOMAIN queue, w \in Workers :
        wk[w].pc # "idle" => wk[w].name # queue[i].name

OneTask ==
    \A v, w \in Workers :
        wk[v].pc # "idle" /\ wk[w].pc # "idle" /\ wk[v].name = wk[w].name => v = w

Serial ==
    /\ OneRequest /\ RequestBeforeTask
    /\ OneQueued /\ QueuedBeforeTaken /\ OneTask

(* A creation that has looked for its LB, until it makes one, finds none.  *)
Creating == {"create_task", "write_healthcheck", "store_metadata", "delay"}

FreshRequest ==
    \A r \in Requests :
        req[r].op = "new" /\ req[r].pc \in Creating =>
            \A l \in LBs : lbOf[l] # req[r].name

FreshQueued ==
    \A i \in DOMAIN queue :
        queue[i].kind = "new" => \A l \in LBs : lbOf[l] # queue[i].name

FreshTask ==
    \A w \in Workers :
        wk[w].pc = "create_lb" => \A l \in LBs : lbOf[l] # wk[w].name

OneLB ==
    \A l, m \in LBs : lbOf[l] \in Names /\ lbOf[l] = lbOf[m] => l = m

FreshInv == FreshRequest /\ FreshQueued /\ FreshTask /\ OneLB

(* The calls each kind of request makes.                                   *)
OnPath(q) ==
    /\ q.op = "none" => q.pc = "idle"
    /\ q.op = "new" => q.pc \in {"increment_quota", "find_lb", "create_task",
                                 "write_healthcheck", "store_metadata", "delay",
                                 "update_task"}
    /\ q.op = "remove" => q.pc \in {"decrement_quota", "remove_task",
                                    "remove_metadata", "delay"}
    /\ q.op = "scale" => q.pc \in {"create_task", "find_metadata",
                                   "store_metadata", "delay", "update_task"}
    /\ q.op = "update" => q.pc \in {"find_lb", "find_metadata", "store_metadata"}

OnPaths == \A r \in Requests : OnPath(req[r])

LBInv == TypeInv /\ OnPaths /\ Serial /\ FreshInv

(* What a request's record may become, other than by Delay.                *)
MovedReq(q, p) ==
    \/ q = IdleReq
    \/ /\ q.pc # "idle" /\ q.name = p.name /\ q.op = p.op
       /\ p.pc # "update_task" /\ q.pc # "update_task"
       /\ q.op = "new" /\ q.pc \in Creating =>
             p.pc \in Creating \/ LBsOf(p.name) = {}

LEMMA ReqWrites ==
    ASSUME TypeInv, NEW r \in Requests, NEW pc \in ReqPcs
    PROVE  /\ Goto(r, pc) => \E q : /\ req' = [req EXCEPT ![r] = q]
                                    /\ q.pc = pc
                                    /\ q.name = req[r].name /\ q.op = req[r].op
           /\ Return(r) => \E q : req' = [req EXCEPT ![r] = q] /\ q = IdleReq
<1>1. req[r] \in ReqType
  BY DEF TypeInv, TypeOK
<1>2. ASSUME Goto(r, pc)
      PROVE  \E q : /\ req' = [req EXCEPT ![r] = q] /\ q.pc = pc
                    /\ q.name = req[r].name /\ q.op = req[r].op
  <2>1. PICK q : q = [req[r] EXCEPT !.pc = pc]
    OBVIOUS
  <2>2. q.pc = pc /\ q.name = req[r].name /\ q.op = req[r].op
    BY <1>1, <2>1 DEF ReqType
  <2>3. req' = [req EXCEPT ![r] = q]
    BY <1>2, <2>1 DEF Goto
  <2> QED
    BY <2>2, <2>3
<1>3. ASSUME Return(r)
      PROVE  \E q : req' = [req EXCEPT ![r] = q] /\ q = IdleReq
  BY <1>3 DEF Return
<1> QED
  BY <1>2, <1>3

LEMMA RequestMoves ==
    ASSUME TypeInv, OnPaths, NEW r \in Requests,
           RequestStep(r) \/ RequestRaises(r), ~Delay(r)
    PROVE  /\ UNCHANGED <<queue, wk, lbOf>>
           /\ req[r].pc # "idle"
           /\ \E q : /\ req' = [req EXCEPT ![r] = q]
                     /\ MovedReq(q, req[r]) /\ OnPath(q)
<1> USE DEF quotaVars, storeVars, cloudVars, boundVars
<1>0. req[r] \in ReqType /\ ReqRecordOK(req[r])
  BY DEF TypeInv, TypeOK, RecordsOK
<1>p. OnPath(req[r])
  BY DEF OnPaths
<1>g. ASSUME NEW pc \in ReqPcs \ {"idle", "update_task"}, Goto(r, pc),
             req[r].pc # "update_task",
             \A q : q.pc = pc /\ q.op = req[r].op => OnPath(q),
             req[r].op = "new" /\ pc \in Creating =>
                 req[r].pc \in Creating \/ LBsOf(req[r].name) = {}
      PROVE  \E q : req' = [req EXCEPT ![r] = q] /\ MovedReq(q, req[r]) /\ OnPath(q)
  <2>1. PICK q : /\ req' = [req EXCEPT ![r] = q] /\ q.pc = pc
                 /\ q.name = req[r].name /\ q.op = req[r].op
    BY <1>g, ReqWrites
  <2>2. MovedReq(q, req[r]) /\ OnPath(q)
    BY <1>g, <2>1 DEF MovedReq
  <2> QED
    BY <2>1, <2>2
<1>r. ASSUME Return(r)
      PROVE  \E q : req' = [req EXCEPT ![r] = q] /\ MovedReq(q, req[r]) /\ OnPath(q)
  <2>1. "idle" \in ReqPcs
    BY DEF ReqPcs
  <2>2. PICK q : req' = [req EXCEPT ![r] = q] /\ q = IdleReq
    BY <1>r, <2>1, ReqWrites
  <2>3. IdleReq.op = "none" /\ IdleReq.pc = "idle"
    BY DEF IdleReq
  <2>4. MovedReq(q, req[r]) /\ OnPath(q)
    BY <2>2, <2>3, Zenon DEF MovedReq, OnPath
  <2> QED
    BY <2>2, <2>4
<1>1. CASE IncrementQuota(r)
  BY <1>0, <1>p, <1>1, <1>g, <1>r DEF IncrementQuota, At, ReqPcs, Creating, OnPath, ReqRecordOK
<1>2. CASE FindLB(r)
  <2>1. CASE req[r].op = "new" /\ ~InstanceFound(r)
    BY <1>0, <1>p, <1>2, <2>1, <1>g DEF FindLB, At, ReqPcs, Creating, OnPath, ReqRecordOK,
       InstanceFound
  <2>2. CASE req[r].op = "update" /\ InstanceFound(r)
    BY <1>0, <1>p, <1>2, <2>2, <1>g DEF FindLB, At, ReqPcs, Creating, OnPath, ReqRecordOK
  <2> QED
    BY <1>2, <2>1, <2>2, <1>r DEF FindLB, At
<1>3. CASE CreateTask(r)
  BY <1>0, <1>p, <1>3, <1>g, <1>r DEF CreateTask, At, ReqPcs, Creating, OnPath, ReqRecordOK
<1>4. CASE WriteHealthcheck(r)
  BY <1>0, <1>p, <1>4, <1>g, <1>r DEF WriteHealthcheck, At, ReqPcs, Creating, OnPath, ReqRecordOK
<1>5. CASE FindMetadata(r)
  <2>1. CASE req[r].op = "scale"
    BY <1>0, <1>p, <1>5, <2>1, <1>g DEF FindMetadata, At, ReqPcs, Creating, OnPath, ReqRecordOK
  <2>2. CASE req[r].op = "update" /\ req[r].name \in metadata
    BY <1>0, <1>p, <1>5, <2>2, <1>g DEF FindMetadata, At, ReqPcs, Creating, OnPath, ReqRecordOK
  <2> QED
    BY <1>5, <2>1, <2>2, <1>r DEF FindMetadata, At
<1>6. CASE StoreMetadata(r)
  BY <1>0, <1>p, <1>6, <1>g, <1>r DEF StoreMetadata, At, ReqPcs, Creating, OnPath, ReqRecordOK
<1>7. CASE DecrementQuota(r)
  BY <1>0, <1>p, <1>7, <1>g, <1>r DEF DecrementQuota, At, ReqPcs, Creating, OnPath, ReqRecordOK
<1>8. CASE RemoveTask(r)
  BY <1>0, <1>p, <1>8, <1>g, <1>r DEF RemoveTask, At, ReqPcs, Creating, OnPath, ReqRecordOK
<1>9. CASE RemoveMetadata(r)
  BY <1>0, <1>p, <1>9, <1>g, <1>r DEF RemoveMetadata, At, ReqPcs, Creating, OnPath, ReqRecordOK
<1>10. CASE UpdateTask(r)
  BY <1>10, <1>r DEF UpdateTask, At
<1>11. CASE RequestRaises(r)
  BY <1>11, <1>r DEF RequestRaises, At
<1> QED
  BY <1>1, <1>2, <1>3, <1>4, <1>5, <1>6, <1>7, <1>8, <1>9, <1>10, <1>11 DEF RequestStep

(* What a task's record may become, once it is taken. *)
MovedTask(t, p) ==
    \/ t = IdleWk
    \/ t.pc \notin {"idle", "create_lb"} /\ t.name = p.name

LEMMA NextDeleteMoves ==
    ASSUME NEW t \in WkType, NEW done \in {"destroy_instance", "scale_finally"}
    PROVE  MovedTask(NextDelete(t, done), t)
<1>1. CASE t.todo = <<>>
  BY <1>1 DEF NextDelete, WkType, MovedTask
<1>2. CASE t.todo # <<>>
  BY <1>2 DEF NextDelete, WkType, MovedTask
<1> QED
  BY <1>1, <1>2

LEMMA RollbackHostMoves ==
    ASSUME NEW t \in WkType
    PROVE  MovedTask(RollbackHost(t), t)
  BY DEF RollbackHost, WkType, MovedTask

LEMMA LeaveRunMoves ==
    ASSUME NEW t \in WkType
    PROVE  MovedTask(LeaveRun(t), t)
  BY DEF LeaveRun, WkType, MovedTask

LEMMA HandlerMoves ==
    ASSUME NEW t \in WkType, t.pc # "idle"
    PROVE  MovedTask(Handler(t), t)
<1> DEFINE failed == [t EXCEPT !.error = TRUE]
<1>1. failed \in WkType /\ failed.name = t.name
  BY DEF WkType
<1>2. CASE t.pc \in AddPcs
  <2>0. Handler(t) = IF ~Rollback \/ t.lb = Nothing THEN [failed EXCEPT !.pc = "add_finally"]
                     ELSE IF t.fresh THEN [failed EXCEPT !.pc = "rollback_lb"]
                     ELSE RollbackHost(failed)
    BY <1>2 DEF Handler, AddPcs, DeletePcs
  <2>1. MovedTask([failed EXCEPT !.pc = "add_finally"], t)
    BY <1>1 DEF MovedTask, WkType
  <2>2. MovedTask([failed EXCEPT !.pc = "rollback_lb"], t)
    BY <1>1 DEF MovedTask, WkType
  <2>3. MovedTask(RollbackHost(failed), t)
    <3>1. MovedTask(RollbackHost(failed), failed)
      BY <1>1, RollbackHostMoves
    <3> QED
      BY <1>1, <3>1, Zenon DEF MovedTask
  <2> HIDE DEF failed
  <2> QED
    BY <2>0, <2>1, <2>2, <2>3
<1>3. CASE t.pc = "rollback_lb"
  <2>1. Handler(t) = RollbackHost(t)
    BY <1>3 DEF Handler, AddPcs, DeletePcs
  <2> QED
    BY <2>1, RollbackHostMoves
<1>4. CASE t.pc = "rollback_hc"
  BY <1>4 DEF Handler, AddPcs, MovedTask, WkType
<1>5. CASE t.pc \in DeletePcs
  BY <1>5 DEF Handler, AddPcs, DeletePcs, MovedTask, WkType
<1>6. CASE t.pc \notin AddPcs \cup DeletePcs \cup {"rollback_lb", "rollback_hc"}
  BY <1>6, LeaveRunMoves DEF Handler
<1> QED
  BY <1>2, <1>3, <1>4, <1>5, <1>6

LEMMA WorkerMoves ==
    ASSUME TypeInv, NEW w \in Workers,
           WorkerStep(w) \/ CallFails(w) \/ Crash(w), ~TakeTask(w)
    PROVE  /\ UNCHANGED <<req, queue>>
           /\ wk[w].pc # "idle"
           /\ \E t : wk' = [wk EXCEPT ![w] = t] /\ MovedTask(t, wk[w])
           /\ \/ UNCHANGED lbOf
              \/ \E l \in LBs : lbOf' = [lbOf EXCEPT ![l] = "destroyed"]
              \/ /\ wk[w].pc = "create_lb"
                 /\ \E l \in LBs : lbOf' = [lbOf EXCEPT ![l] = wk[w].name]
<1> USE DEF quotaVars, storeVars, cloudVars, boundVars
<1>0. wk[w] \in WkType /\ WkRecordOK(wk[w])
  BY DEF TypeInv, TypeOK, RecordsOK
<1> DEFINE Moved == \E t : wk' = [wk EXCEPT ![w] = t] /\ MovedTask(t, wk[w])
<1>e. ASSUME NEW pc, pc \notin {"idle", "create_lb"}, Enter(w, pc)
      PROVE  Moved
  <2>1. PICK t : t = [wk[w] EXCEPT !.pc = pc]
    OBVIOUS
  <2>2. MovedTask(t, wk[w])
    BY <1>0, <1>e, <2>1 DEF MovedTask, WkType
  <2> QED
    BY <1>e, <2>1, <2>2 DEF Enter
<1>s. ASSUME NEW t, Set(w, t), MovedTask(t, wk[w])
      PROVE  Moved
  BY <1>s DEF Set
<1>f. wk[w].pc # "idle" => MovedTask(Handler(wk[w]), wk[w])
  BY <1>0, HandlerMoves
<1>2. CASE TaskFindLB(w)
  <2> PICK l \in LBsOf(wk[w].name) :
          LET hosts == attached[l]
              found == [wk[w] EXCEPT !.lb = l, !.empty = (hosts = <<>>)]
              extra == Len(hosts) - wk[w].qty
          IN  CASE found.kind = "remove" ->
                     Set(w, NextDelete([found EXCEPT !.todo = hosts], "destroy_instance"))
                [] found.kind = "scale" /\ extra < 0 ->
                     Set(w, [found EXCEPT !.pc = "create_host", !.adds = -extra])
                [] OTHER ->
                     Set(w, NextDelete([found EXCEPT !.todo = SubSeq(hosts, 1, extra)],
                                       "scale_finally"))
    BY <1>2 DEF TaskFindLB
  <2> DEFINE hosts == attached[l]
             found == [wk[w] EXCEPT !.lb = l, !.empty = (hosts = <<>>)]
             extra == Len(hosts) - wk[w].qty
  <2>1. Moved
    <3>0. l \in LBs /\ hosts \in Seq(Hosts) /\ wk[w].qty \in Nat
      BY <1>0 DEF LBsOf, TypeInv, TypeOK, WkType
    <3>1. found \in WkType /\ found.name = wk[w].name
      BY ZenonT(60), <1>0, <3>0 DEF WkType
    <3>e. extra \in Int /\ extra <= Len(hosts) /\ Len(hosts) \in Nat
      BY <3>0
    <3> HIDE DEF found, extra, hosts
    <3>2. MovedTask(NextDelete([found EXCEPT !.todo = hosts], "destroy_instance"), wk[w])
      <4>1. PICK t : t = [found EXCEPT !.todo = hosts]
        OBVIOUS
      <4>2. t \in WkType /\ t.name = wk[w].name
        BY <3>0, <3>1, <4>1 DEF WkType
      <4>3. MovedTask(NextDelete(t, "destroy_instance"), t)
        BY <4>2, NextDeleteMoves
      <4> QED
        BY <4>1, <4>2, <4>3, Zenon DEF MovedTask
    <3>3. MovedTask([found EXCEPT !.pc = "create_host", !.adds = -extra], wk[w])
      BY <3>1 DEF MovedTask, WkType
    <3>4. MovedTask(NextDelete([found EXCEPT !.todo = SubSeq(hosts, 1, extra)],
                               "scale_finally"), wk[w])
      <4>0. SubSeq(hosts, 1, extra) \in Seq(Hosts)
        <5>1. \A i \in 1..extra : hosts[i] \in Hosts
          BY <3>0, <3>e
        <5> QED
          BY <3>e, <5>1, SubSeqProperties
      <4>1. PICK t : t = [found EXCEPT !.todo = SubSeq(hosts, 1, extra)]
        OBVIOUS
      <4>2. t \in WkType /\ t.name = wk[w].name
        BY <3>1, <4>0, <4>1 DEF WkType
      <4>3. MovedTask(NextDelete(t, "scale_finally"), t)
        BY <4>2, NextDeleteMoves
      <4> QED
        BY <4>1, <4>2, <4>3, Zenon DEF MovedTask
    <3>5. \/ Set(w, NextDelete([found EXCEPT !.todo = hosts], "destroy_instance"))
          \/ extra < 0 /\ Set(w, [found EXCEPT !.pc = "create_host", !.adds = -extra])
          \/ Set(w, NextDelete([found EXCEPT !.todo = SubSeq(hosts, 1, extra)],
                               "scale_finally"))
      BY DEF found, extra, hosts
    <3> QED
      BY <3>2, <3>3, <3>4, <3>5, <1>s
  <2> QED
    BY <1>2, <2>1 DEF TaskFindLB, In
<1>3. CASE CreateLB(w)
  <2>1. PICK l \in LBsOf("unused") :
          /\ lbOf' = [lbOf EXCEPT ![l] = wk[w].name]
          /\ Set(w, [wk[w] EXCEPT !.pc = "create_hc", !.lb = l, !.fresh = TRUE,
                                  !.empty = TRUE])
    BY <1>3 DEF CreateLB
  <2>2. MovedTask([wk[w] EXCEPT !.pc = "create_hc", !.lb = l, !.fresh = TRUE,
                                  !.empty = TRUE], wk[w])
    BY <1>0 DEF MovedTask, WkType
  <2> QED
    BY <1>3, <1>s, <2>1, <2>2 DEF CreateLB, In, LBsOf
<1>4. CASE CreateHC(w)
  BY <1>4, <1>e DEF CreateHC, In
<1>5. CASE CreateHost(w)
  <2>1. PICK h \in Hosts : Set(w, [wk[w] EXCEPT !.pc = "add_host", !.host = h])
    BY <1>5 DEF CreateHost
  <2>2. MovedTask([wk[w] EXCEPT !.pc = "add_host", !.host = h], wk[w])
    BY <1>0 DEF MovedTask, WkType
  <2> QED
    BY <1>5, <1>s, <2>1, <2>2 DEF CreateHost, In
<1>6. CASE AddHost(w)
  BY <1>6, <1>e DEF AddHost, In
<1>7. CASE WaitHealthcheck(w)
  BY <1>7, <1>e DEF WaitHealthcheck, In
<1>8. CASE AddURL(w)
  BY <1>8, <1>e DEF AddURL, In
<1>9. CASE AddFinally(w)
  <2>1. CASE wk[w].kind = "new"
    BY <1>9, <2>1, <1>s DEF AddFinally, In, MovedTask
  <2>2. CASE wk[w].kind # "new" /\ MoreHosts(wk[w])
    <3>1. MovedTask([wk[w] EXCEPT !.pc = "create_host", !.adds = @ - 1, !.host = Nothing],
                    wk[w])
      BY <1>0 DEF MovedTask, WkType
    <3> QED
      BY <1>9, <2>2, <3>1, <1>s DEF AddFinally, In
  <2>3. CASE wk[w].kind # "new" /\ ~MoreHosts(wk[w])
    <3>1. MovedTask([wk[w] EXCEPT !.pc = "scale_finally"], wk[w])
      BY <1>0 DEF MovedTask, WkType
    <3> QED
      BY <1>9, <2>3, <3>1, <1>s DEF AddFinally, In
  <2> QED
    BY <2>1, <2>2, <2>3
<1>10. CASE DestroyHost(w)
  BY <1>10, <1>e DEF DestroyHost, In
<1>11. CASE RemoveHost(w)
  BY <1>11, <1>e DEF RemoveHost, In
<1>12. CASE RemoveURL(w)
  BY <1>12, <1>e DEF RemoveURL, In
<1>13. CASE DeleteFinally(w)
  <2>1. CASE wk[w].rolling
    <3>1. MovedTask([wk[w] EXCEPT !.pc = "rollback_hc"], wk[w])
      BY <1>0 DEF MovedTask, WkType
    <3> QED
      BY <1>13, <2>1, <3>1, <1>s DEF DeleteFinally, In
  <2>2. CASE ~wk[w].rolling /\ wk[w].error
    BY <1>0, <1>13, <2>2, <1>s, LeaveRunMoves DEF DeleteFinally, In
  <2>3. CASE ~wk[w].rolling /\ ~wk[w].error
    BY <1>0, <1>13, <2>3, <1>s, NextDeleteMoves DEF DeleteFinally, In
  <2> QED
    BY <2>1, <2>2, <2>3
<1>14. CASE ScaleFinally(w)
  BY <1>14, <1>s DEF ScaleFinally, In, MovedTask
<1>15. CASE DestroyInstance(w)
  BY <1>15, <1>e DEF DestroyInstance, In
<1>16. CASE DestroyLB(w)
  <2>1. wk[w].lb \in LBs /\ wk[w].pc # "idle"
    BY <1>0, <1>16 DEF DestroyLB, In, WkRecordOK
  <2>2. Moved
    <3>1. CASE In(w, "destroy_lb")
      BY <1>16, <3>1, <1>e DEF DestroyLB
    <3>2. CASE ~In(w, "destroy_lb")
      BY <1>0, <1>16, <3>2, <1>s, RollbackHostMoves DEF DestroyLB
    <3> QED
      BY <3>1, <3>2
  <2> QED
    BY <1>16, <2>1, <2>2 DEF DestroyLB
<1>17. CASE DestroyHC(w)
  <2>1. Moved
    <3>1. CASE In(w, "destroy_hc")
      BY <1>17, <3>1, <1>s DEF DestroyHC, MovedTask
    <3>2. CASE ~In(w, "destroy_hc")
      BY <1>17, <3>2, <1>e DEF DestroyHC
    <3> QED
      BY <3>1, <3>2
  <2> QED
    BY <1>17, <2>1 DEF DestroyHC, In
<1>18. CASE TaskRaises(w)
  <2>1. wk[w].pc # "idle"
    BY <1>18 DEF TaskRaises, MustRaise
  <2> QED
    BY <1>18, <2>1, <1>f, <1>s DEF TaskRaises
<1>19. CASE CallFails(w)
  BY <1>19, <1>f, <1>s DEF CallFails
<1>20. CASE Crash(w)
  BY <1>20, <1>s DEF Crash, In, MovedTask
<1> QED
  BY <1>2, <1>3, <1>4, <1>5, <1>6, <1>7, <1>8, <1>9, <1>10, <1>11, <1>12, <1>13,
     <1>14, <1>15, <1>16, <1>17, <1>18, <1>19, <1>20
     DEF WorkerStep, AddHostStep, DeleteHostStep

(* A request that begins, from whatever its first read found.              *)
LEMMA RequestBegins ==
    ASSUME TypeInv, NEW r \in Requests, NEW n \in Names,
           \/ \E t \in Teams : NewInstance(r, n, t)
           \/ RemoveInstance(r, n)
           \/ \E q \in Quantities : ScaleInstance(r, n, q)
           \/ UpdateInstance(r, n)
    PROVE  /\ UNCHANGED <<queue, wk, lbOf>>
           /\ req[r].pc = "idle"
           /\ Waits => Quiet(n)
           /\ \E q : /\ req' = [req EXCEPT ![r] = q]
                     /\ q.name = n /\ q.pc \notin {"idle", "update_task"} /\ OnPath(q)
                     /\ q.op = "new" => q.pc \notin Creating
<1> USE DEF quotaVars, storeVars, cloudVars, boundVars
<1> DEFINE Begun(first) ==
        /\ first.name = n /\ first.pc \notin {"idle", "update_task"} /\ OnPath(first)
        /\ first.op = "new" => first.pc \notin Creating
<1>1. ASSUME NEW first, Begin(r, first), Begun(first)
      PROVE  /\ UNCHANGED <<queue, wk, lbOf>>
             /\ req[r].pc = "idle"
             /\ Waits => Quiet(n)
             /\ \E q : req' = [req EXCEPT ![r] = q] /\ Begun(q)
  BY <1>1 DEF Begin, MayIssue, Waits
<1>2. ASSUME NEW t \in Teams, NewInstance(r, n, t)
      PROVE  \E first : Begin(r, first) /\ Begun(first)
  <2>1. PICK first : first = [IdleReq EXCEPT !.pc = "increment_quota", !.op = "new",
                                !.name = n, !.team = t, !.prev = used[t]]
    OBVIOUS
  <2>2. first.pc = "increment_quota" /\ first.op = "new" /\ first.name = n
    BY <2>1 DEF IdleReq
  <2> QED
    BY <1>2, <2>1, <2>2 DEF NewInstance, OnPath, Creating
<1>3. ASSUME RemoveInstance(r, n)
      PROVE  \E first : Begin(r, first) /\ Begun(first)
  <2>1. PICK first : first = [IdleReq EXCEPT !.pc = "decrement_quota", !.op = "remove",
                                !.name = n]
    OBVIOUS
  <2>2. first.pc = "decrement_quota" /\ first.op = "remove" /\ first.name = n
    BY <2>1 DEF IdleReq
  <2> QED
    BY <1>3, <2>1, <2>2 DEF RemoveInstance, OnPath, Creating
<1>4. ASSUME NEW m \in Quantities, ScaleInstance(r, n, m)
      PROVE  \E first : Begin(r, first) /\ Begun(first)
  <2>1. PICK first : first = [IdleReq EXCEPT !.pc = "create_task", !.op = "scale",
                                !.name = n, !.qty = m]
    OBVIOUS
  <2>2. first.pc = "create_task" /\ first.op = "scale" /\ first.name = n
    BY <2>1 DEF IdleReq
  <2> QED
    BY <1>4, <2>1, <2>2 DEF ScaleInstance, OnPath, Creating
<1>5. ASSUME UpdateInstance(r, n)
      PROVE  \E first : Begin(r, first) /\ Begun(first)
  <2>1. PICK first : first = [IdleReq EXCEPT !.pc = "find_lb", !.op = "update", !.name = n]
    OBVIOUS
  <2>2. first.pc = "find_lb" /\ first.op = "update" /\ first.name = n
    BY <2>1 DEF IdleReq
  <2> QED
    BY <1>5, <2>1, <2>2 DEF UpdateInstance, OnPath, Creating
<1> HIDE DEF Begun
<1>6. \E first : Begin(r, first) /\ Begun(first)
  BY <1>2, <1>3, <1>4, <1>5
<1> QED
  BY <1>1, <1>6 DEF Begun

LEMMA InitLBInv == Init => LBInv
<1> SUFFICES ASSUME Init PROVE LBInv
  OBVIOUS
<1>1. TypeInv
  BY InitTypeInv
<1>2. /\ \A r \in Requests : req[r].pc = "idle" /\ req[r].op = "none"
      /\ \A w \in Workers : wk[w].pc = "idle"
      /\ DOMAIN queue = {}
      /\ \A l \in LBs : lbOf[l] \notin Names
  BY ConstantsAssumption DEF Init, IdleReq, IdleWk
<1>3. OnPaths
  BY <1>2 DEF OnPaths, OnPath
<1>4. Serial
  BY <1>2 DEF Serial, OneRequest, RequestBeforeTask, OneQueued, QueuedBeforeTaken, OneTask
<1>5. FreshInv
  BY <1>2 DEF FreshInv, FreshRequest, FreshQueued, FreshTask, OneLB
<1> QED
  BY <1>1, <1>3, <1>4, <1>5 DEF LBInv

SerialInv == OnPaths /\ Serial /\ FreshInv

LEMMA BeginKeepsSerial ==
    ASSUME Waits, TypeInv, SerialInv, NEW r \in Requests, NEW n \in Names,
           \/ \E t \in Teams : NewInstance(r, n, t)
           \/ RemoveInstance(r, n)
           \/ \E q \in Quantities : ScaleInstance(r, n, q)
           \/ UpdateInstance(r, n)
    PROVE  SerialInv'
<1>0. /\ UNCHANGED <<queue, wk, lbOf>>
      /\ req[r].pc = "idle"
      /\ Waits => Quiet(n)
      /\ \E q : /\ req' = [req EXCEPT ![r] = q]
                /\ q.name = n /\ q.pc \notin {"idle", "update_task"} /\ OnPath(q)
                /\ q.op = "new" => q.pc \notin Creating
  BY RequestBegins, Zenon
<1>1. UNCHANGED <<queue, wk, lbOf>> /\ req[r].pc = "idle" /\ Quiet(n)
  BY <1>0
<1>2. PICK q : /\ req' = [req EXCEPT ![r] = q]
               /\ q.name = n /\ q.pc \notin {"idle", "update_task"} /\ OnPath(q)
               /\ q.op = "new" => q.pc \notin Creating
  BY <1>0
<1>3. req'[r] = q /\ \A s \in Requests \ {r} : req'[s] = req[s]
  BY <1>2 DEF TypeInv, TypeOK
<1>4. OnPaths'
  BY <1>2, <1>3 DEF SerialInv, OnPaths
<1>5. Serial'
  <2>1. OneRequest'
    BY <1>1, <1>2, <1>3 DEF SerialInv, Serial, OneRequest, Quiet, InRequest
  <2>2. RequestBeforeTask'
    BY <1>1, <1>2, <1>3 DEF SerialInv, Serial, RequestBeforeTask, Quiet, InTask
  <2>3. (OneQueued /\ QueuedBeforeTaken /\ OneTask)'
    BY <1>1 DEF SerialInv, Serial, OneQueued, QueuedBeforeTaken, OneTask
  <2> QED
    BY <2>1, <2>2, <2>3 DEF Serial
<1>6. FreshInv'
  <2>1. FreshRequest'
    BY <1>1, <1>2, <1>3 DEF SerialInv, FreshInv, FreshRequest
  <2>2. (FreshQueued /\ FreshTask /\ OneLB)'
    BY <1>1 DEF SerialInv, FreshInv, FreshQueued, FreshTask, OneLB
  <2> QED
    BY <2>1, <2>2 DEF FreshInv
<1> QED
  BY <1>4, <1>5, <1>6 DEF SerialInv

LEMMA RequestKeepsSerial ==
    ASSUME TypeInv, SerialInv, NEW r \in Requests,
           RequestStep(r) \/ RequestRaises(r), ~Delay(r)
    PROVE  SerialInv'
<1>1. /\ UNCHANGED <<queue, wk, lbOf>> /\ req[r].pc # "idle"
      /\ \E q : /\ req' = [req EXCEPT ![r] = q]
                /\ MovedReq(q, req[r]) /\ OnPath(q)
  BY RequestMoves DEF SerialInv
<1>2. PICK q : /\ req' = [req EXCEPT ![r] = q]
               /\ MovedReq(q, req[r]) /\ OnPath(q)
  BY <1>1
<1>3. req'[r] = q /\ \A s \in Requests \ {r} : req'[s] = req[s]
  BY <1>2 DEF TypeInv, TypeOK
<1>4. \/ q.pc = "idle" /\ q.op = "none"
      \/ /\ q.pc # "idle" /\ q.name = req[r].name /\ q.op = req[r].op
         /\ req[r].pc # "update_task" /\ q.pc # "update_task"
         /\ q.op = "new" /\ q.pc \in Creating =>
               req[r].pc \in Creating \/ LBsOf(req[r].name) = {}
  <2>1. IdleReq.pc = "idle" /\ IdleReq.op = "none"
    BY DEF IdleReq
  <2> QED
    BY <1>2, <2>1, Zenon DEF MovedReq
<1>5. OnPaths'
  BY <1>2, <1>3 DEF SerialInv, OnPaths
<1>6. Serial'
  <2>1. OneRequest'
    BY <1>1, <1>3, <1>4 DEF SerialInv, Serial, OneRequest
  <2>2. RequestBeforeTask'
    BY <1>1, <1>3, <1>4 DEF SerialInv, Serial, RequestBeforeTask
  <2>3. (OneQueued /\ QueuedBeforeTaken /\ OneTask)'
    BY <1>1 DEF SerialInv, Serial, OneQueued, QueuedBeforeTaken, OneTask
  <2> QED
    BY <2>1, <2>2, <2>3 DEF Serial
<1>7. FreshInv'
  <2>1. FreshRequest'
    BY <1>1, <1>3, <1>4 DEF SerialInv, FreshInv, FreshRequest, LBsOf
  <2>2. (FreshQueued /\ FreshTask /\ OneLB)'
    BY <1>1 DEF SerialInv, FreshInv, FreshQueued, FreshTask, OneLB
  <2> QED
    BY <2>1, <2>2 DEF FreshInv
<1> QED
  BY <1>5, <1>6, <1>7 DEF SerialInv

LEMMA DelayKeepsSerial ==
    ASSUME TypeInv, SerialInv, NEW r \in Requests, Delay(r)
    PROVE  SerialInv'
<1> DEFINE m == [kind |-> req[r].op, name |-> req[r].name, qty |-> req[r].qty]
<1>1. /\ queue' = Append(queue, m) /\ req[r].pc = "delay"
      /\ UNCHANGED <<wk, lbOf>>
      /\ req[r] \in ReqType /\ OnPath(req[r])
  BY DEF Delay, At, storeVars, cloudVars, TypeInv, TypeOK, SerialInv, OnPaths
<1>2. m.kind = req[r].op /\ m.name = req[r].name
  OBVIOUS
<1>3. \E q : /\ req' = [req EXCEPT ![r] = q]
             /\ \/ q.pc = "idle" /\ q.op = "none"
                \/ q.pc = "update_task" /\ q.name = req[r].name /\ q.op = req[r].op
  <2>1. IdleReq.pc = "idle" /\ IdleReq.op = "none"
    BY DEF IdleReq
  <2>2. "update_task" \in ReqPcs
    BY DEF ReqPcs
  <2> QED
    BY <2>1, <2>2, ReqWrites DEF Delay
<1>4. PICK q : /\ req' = [req EXCEPT ![r] = q]
               /\ \/ q.pc = "idle" /\ q.op = "none"
                  \/ q.pc = "update_task" /\ q.name = req[r].name /\ q.op = req[r].op
  BY <1>3
<1>5. req'[r] = q /\ \A s \in Requests \ {r} : req'[s] = req[s]
  BY <1>4 DEF TypeInv, TypeOK
<1>6. queue \in Seq(TaskType) /\ DOMAIN queue = 1..Len(queue) /\ Len(queue) \in Nat
  BY DEF TypeInv, TypeOK
<1> HIDE DEF m
<1>7. /\ DOMAIN queue' = 1..(Len(queue) + 1)
      /\ \A i \in DOMAIN queue' : \/ i \in DOMAIN queue /\ queue'[i] = queue[i]
                                  \/ i = Len(queue) + 1 /\ queue'[i] = m
  BY <1>1, <1>6
<1>8. OnPaths'
  <2>1. q.op # "none" => req[r].op \in {"new", "scale"}
    <3>1. q.op # "none" => req[r].op # "remove"
      <4>1. IdleReq.op = "none"
        BY DEF IdleReq
      <4>2. req[r].op = "remove" => req' = [req EXCEPT ![r] = IdleReq]
        BY DEF Delay, Return
      <4>3. req[r].op = "remove" => req'[r] = IdleReq
        BY <4>2 DEF TypeInv, TypeOK
      <4> QED
        BY <1>5, <4>1, <4>3
    <3> QED
      BY <1>1, <1>4, <3>1 DEF OnPath, ReqType
  <2>2. req[r].op # "none"
    BY <1>1 DEF OnPath
  <2>3. OnPath(q)
    BY <1>4, <2>1, <2>2 DEF OnPath
  <2> QED
    BY <1>5, <2>3 DEF SerialInv, OnPaths
<1>9. Serial'
  <2>1. OneRequest'
    BY <1>1, <1>4, <1>5 DEF SerialInv, Serial, OneRequest
  <2>2. RequestBeforeTask'
    <3>1. ASSUME NEW s \in Requests, req'[s].pc \notin {"idle", "update_task"}
          PROVE  /\ s # r /\ req'[s] = req[s] /\ req[s].name # m.name
      BY <1>1, <1>2, <1>4, <1>5, <3>1 DEF SerialInv, Serial, OneRequest
    <3> QED
      BY <1>1, <1>7, <3>1 DEF SerialInv, Serial, RequestBeforeTask
  <2>3. OneQueued'
    <3>1. \A i \in DOMAIN queue : queue[i].name # m.name
      BY <1>1, <1>2 DEF SerialInv, Serial, RequestBeforeTask
    <3> QED
      BY <1>7, <3>1 DEF SerialInv, Serial, OneQueued
  <2>4. QueuedBeforeTaken'
    <3>1. \A w \in Workers : wk[w].pc # "idle" => wk[w].name # m.name
      BY <1>1, <1>2 DEF SerialInv, Serial, RequestBeforeTask
    <3> QED
      BY <1>1, <1>7, <3>1 DEF SerialInv, Serial, QueuedBeforeTaken
  <2>5. OneTask'
    BY <1>1 DEF SerialInv, Serial, OneTask
  <2> QED
    BY <2>1, <2>2, <2>3, <2>4, <2>5 DEF Serial
<1>10. FreshInv'
  <2>1. FreshRequest'
    BY <1>1, <1>4, <1>5 DEF SerialInv, FreshInv, FreshRequest, Creating
  <2>2. FreshQueued'
    <3>1. m.kind = "new" => \A l \in LBs : lbOf[l] # m.name
      BY <1>1, <1>2 DEF SerialInv, FreshInv, FreshRequest, Creating
    <3> QED
      BY <1>1, <1>7, <3>1 DEF SerialInv, FreshInv, FreshQueued
  <2>3. (FreshTask /\ OneLB)'
    BY <1>1 DEF SerialInv, FreshInv, FreshTask, OneLB
  <2> QED
    BY <2>1, <2>2, <2>3 DEF FreshInv
<1> QED
  BY <1>8, <1>9, <1>10 DEF SerialInv

LEMMA TakeKeepsSerial ==
    ASSUME TypeInv, SerialInv, NEW w \in Workers, TakeTask(w)
    PROVE  SerialInv'
<1> DEFINE m == Head(queue)
<1>1. queue \in Seq(TaskType) /\ queue # <<>>
  BY DEF TakeTask, TypeInv, TypeOK
<1>2. /\ m = queue[1] /\ 1 \in DOMAIN queue /\ DOMAIN queue = 1..Len(queue)
      /\ Len(queue) \in Nat
      /\ DOMAIN Tail(queue) = 1..(Len(queue) - 1)
      /\ \A i \in 1..(Len(queue) - 1) : Tail(queue)[i] = queue[i + 1]
  BY <1>1
<1>3. \E t : /\ wk' = [wk EXCEPT ![w] = t]
             /\ t.name = m.name /\ t.pc # "idle"
             /\ t.pc = "create_lb" => m.kind = "new"
  <2>1. PICK t : t = [IdleWk EXCEPT !.kind = m.kind, !.name = m.name, !.qty = m.qty,
                         !.pc = IF m.kind = "new" THEN "create_lb" ELSE "find_lb",
                         !.adds = IF m.kind = "new" THEN 1 ELSE 0]
    OBVIOUS
  <2>2. t.name = m.name /\ t.pc = (IF m.kind = "new" THEN "create_lb" ELSE "find_lb")
    BY <2>1 DEF IdleWk
  <2>3. wk' = [wk EXCEPT ![w] = t]
    BY <2>1 DEF TakeTask, Set
  <2> QED
    BY <2>2, <2>3
<1>4. PICK t : /\ wk' = [wk EXCEPT ![w] = t]
               /\ t.name = m.name /\ t.pc # "idle"
               /\ t.pc = "create_lb" => m.kind = "new"
  BY <1>3
<1>5. wk'[w] = t /\ \A v \in Workers \ {w} : wk'[v] = wk[v]
  BY <1>4 DEF TypeInv, TypeOK
<1>6. queue' = Tail(queue) /\ UNCHANGED <<req, lbOf>>
  BY DEF TakeTask, cloudVars
<1> HIDE DEF m
<1>7. \A i \in DOMAIN queue' : /\ i + 1 \in DOMAIN queue /\ i + 1 # 1
                               /\ queue'[i] = queue[i + 1]
  BY <1>2, <1>6
<1>8. OnPaths'
  BY <1>6 DEF SerialInv, OnPaths
<1>9. Serial'
  <2>1. OneRequest'
    BY <1>6 DEF SerialInv, Serial, OneRequest
  <2>2. RequestBeforeTask'
    BY <1>2, <1>4, <1>5, <1>6, <1>7 DEF SerialInv, Serial, RequestBeforeTask
  <2>3. OneQueued'
    <3>1. ASSUME NEW i \in DOMAIN queue', NEW j \in DOMAIN queue',
                 queue'[i].name = queue'[j].name
          PROVE  i = j
      <4>1. i + 1 = j + 1
        BY <1>7, <3>1 DEF SerialInv, Serial, OneQueued
      <4> QED
        BY <1>2, <1>6, <4>1
    <3> QED
      BY <3>1 DEF OneQueued
  <2>4. QueuedBeforeTaken'
    <3>1. ASSUME NEW i \in DOMAIN queue', NEW v \in Workers, wk'[v].pc # "idle"
          PROVE  wk'[v].name # queue'[i].name
      <4>1. CASE v = w
        BY <1>2, <1>4, <1>5, <1>7, <4>1 DEF SerialInv, Serial, OneQueued
      <4>2. CASE v # w
        BY <1>5, <1>7, <3>1, <4>2 DEF SerialInv, Serial, QueuedBeforeTaken
      <4> QED
        BY <4>1, <4>2
    <3> QED
      BY <3>1 DEF QueuedBeforeTaken
  <2>5. OneTask'
    <3>1. \A v \in Workers : wk[v].pc # "idle" => wk[v].name # t.name
      BY <1>2, <1>4 DEF SerialInv, Serial, QueuedBeforeTaken
    <3> QED
      BY <1>5, <3>1 DEF SerialInv, Serial, OneTask
  <2> QED
    BY <2>1, <2>2, <2>3, <2>4, <2>5 DEF Serial
<1>10. FreshInv'
  <2>1. FreshRequest'
    BY <1>6 DEF SerialInv, FreshInv, FreshRequest
  <2>2. FreshQueued'
    BY <1>6, <1>7 DEF SerialInv, FreshInv, FreshQueued
  <2>3. FreshTask'
    BY <1>2, <1>4, <1>5, <1>6 DEF SerialInv, FreshInv, FreshQueued, FreshTask
  <2>4. OneLB'
    BY <1>6 DEF SerialInv, FreshInv, OneLB
  <2> QED
    BY <2>1, <2>2, <2>3, <2>4 DEF FreshInv
<1> QED
  BY <1>8, <1>9, <1>10 DEF SerialInv

LEMMA WorkerKeepsSerial ==
    ASSUME TypeInv, SerialInv, NEW w \in Workers,
           WorkerStep(w) \/ CallFails(w) \/ Crash(w), ~TakeTask(w)
    PROVE  SerialInv'
<1>1. /\ UNCHANGED <<req, queue>> /\ wk[w].pc # "idle"
      /\ \E t : wk' = [wk EXCEPT ![w] = t] /\ MovedTask(t, wk[w])
  BY WorkerMoves
<1>2. \/ UNCHANGED lbOf
      \/ \E l \in LBs : lbOf' = [lbOf EXCEPT ![l] = "destroyed"]
      \/ /\ wk[w].pc = "create_lb"
         /\ \E l \in LBs : lbOf' = [lbOf EXCEPT ![l] = wk[w].name]
  BY WorkerMoves
<1>3. PICK t : wk' = [wk EXCEPT ![w] = t] /\ MovedTask(t, wk[w])
  BY <1>1
<1>4. wk'[w] = t /\ \A v \in Workers \ {w} : wk'[v] = wk[v]
  BY <1>3 DEF TypeInv, TypeOK
<1>5. t.pc = "idle" \/ (t.pc \notin {"idle", "create_lb"} /\ t.name = wk[w].name)
  <2>1. IdleWk.pc = "idle"
    BY DEF IdleWk
  <2> QED
    BY <1>3, <2>1, Zenon DEF MovedTask
<1>6. OnPaths'
  BY <1>1 DEF SerialInv, OnPaths
<1>7. Serial'
  <2>1. (OneRequest /\ OneQueued)'
    BY <1>1 DEF SerialInv, Serial, OneRequest, OneQueued
  <2>2. RequestBeforeTask'
    BY <1>1, <1>4, <1>5 DEF SerialInv, Serial, RequestBeforeTask
  <2>3. QueuedBeforeTaken'
    BY <1>1, <1>4, <1>5 DEF SerialInv, Serial, QueuedBeforeTaken
  <2>4. OneTask'
    BY <1>1, <1>4, <1>5 DEF SerialInv, Serial, OneTask
  <2> QED
    BY <2>1, <2>2, <2>3, <2>4 DEF Serial
<1>8. wk[w].name \in Names
  BY <1>1 DEF TypeInv, RecordsOK, WkRecordOK
<1>9. lbOf \in [LBs -> Names \cup {"unused", "destroyed"}]
  BY DEF TypeInv, TypeOK
<1>10. \A l \in LBs : lbOf'[l] \in Names =>
          \/ lbOf'[l] = lbOf[l]
          \/ wk[w].pc = "create_lb" /\ lbOf'[l] = wk[w].name
  BY <1>2, <1>9, ConstantsAssumption
<1>11. FreshInv'
  <2>1. FreshRequest'
    <3>1. ASSUME NEW r \in Requests, req[r].op = "new", req[r].pc \in Creating,
                 NEW l \in LBs, lbOf'[l] = req[r].name
          PROVE  FALSE
      <4>1. req[r].name \in Names /\ req[r].name # wk[w].name
        BY <1>1, <3>1 DEF SerialInv, Serial, RequestBeforeTask, Creating, TypeInv,
           RecordsOK, ReqRecordOK
      <4>2. lbOf[l] = req[r].name
        BY <1>10, <3>1, <4>1
      <4> QED
        BY <3>1, <4>2 DEF SerialInv, FreshInv, FreshRequest
    <3> QED
      BY <1>1, <3>1 DEF FreshRequest
  <2>2. FreshQueued'
    <3>1. ASSUME NEW i \in DOMAIN queue, queue[i].kind = "new",
                 NEW l \in LBs, lbOf'[l] = queue[i].name
          PROVE  FALSE
      <4>1. queue[i].name \in Names
        <5>1. queue \in Seq(TaskType)
          BY DEF TypeInv, TypeOK
        <5>2. queue[i] \in TaskType
          BY <5>1
        <5> QED
          BY <5>2 DEF TaskType
      <4>2. queue[i].name # wk[w].name
        BY <1>1 DEF SerialInv, Serial, QueuedBeforeTaken
      <4>3. lbOf[l] = queue[i].name
        BY <1>10, <3>1, <4>1, <4>2
      <4> QED
        BY <3>1, <4>3 DEF SerialInv, FreshInv, FreshQueued
    <3> QED
      BY <1>1, <3>1 DEF FreshQueued
  <2>3. FreshTask'
    <3>1. ASSUME NEW v \in Workers, wk'[v].pc = "create_lb",
                 NEW l \in LBs, lbOf'[l] = wk'[v].name
          PROVE  FALSE
      <4>1. v # w /\ wk'[v] = wk[v]
        BY <1>4, <1>5, <3>1
      <4>2. wk[v].name \in Names
        BY <3>1, <4>1 DEF TypeInv, RecordsOK, WkRecordOK
      <4>3. wk[v].name # wk[w].name
        BY <1>1, <3>1, <4>1 DEF SerialInv, Serial, OneTask
      <4>4. lbOf[l] = wk[v].name
        BY <1>10, <3>1, <4>1, <4>2, <4>3
      <4> QED
        BY <3>1, <4>1, <4>4 DEF SerialInv, FreshInv, FreshTask
    <3> QED
      BY <3>1 DEF FreshTask
  <2>4. OneLB'
    <3>1. CASE wk[w].pc # "create_lb"
      BY <1>10, <3>1 DEF SerialInv, FreshInv, OneLB
    <3>2. CASE wk[w].pc = "create_lb"
      <4>1. \A l \in LBs : lbOf[l] # wk[w].name
        BY <3>2 DEF SerialInv, FreshInv, FreshTask
      <4>2. CASE \E l \in LBs : lbOf' = [lbOf EXCEPT ![l] = wk[w].name]
        BY <1>9, <4>1, <4>2 DEF SerialInv, FreshInv, OneLB
      <4>3. CASE ~(\E l \in LBs : lbOf' = [lbOf EXCEPT ![l] = wk[w].name])
        <5>1. \A l \in LBs : lbOf'[l] \in Names => lbOf'[l] = lbOf[l]
          BY <1>2, <1>9, <4>3, ConstantsAssumption
        <5> QED
          BY <5>1 DEF SerialInv, FreshInv, OneLB
      <4> QED
        BY <4>2, <4>3
    <3> QED
      BY <3>1, <3>2
  <2> QED
    BY <2>1, <2>2, <2>3, <2>4 DEF FreshInv
<1> QED
  BY <1>6, <1>7, <1>11 DEF SerialInv

LEMMA StepSerialInv == Waits /\ TypeInv /\ SerialInv /\ [Next]_vars => SerialInv'
<1> SUFFICES ASSUME Waits, TypeInv, SerialInv, [Next]_vars PROVE SerialInv'
  OBVIOUS
<1>1. ASSUME UNCHANGED <<req, queue, wk, lbOf>> PROVE SerialInv'
  BY <1>1 DEF SerialInv, OnPaths, Serial, OneRequest, RequestBeforeTask, OneQueued,
     QueuedBeforeTaken, OneTask, FreshInv, FreshRequest, FreshQueued, FreshTask, OneLB
<1>2. CASE UNCHANGED vars
  BY <1>1, <1>2 DEF vars, cloudVars
<1>3. ASSUME NEW t \in Teams, NEW q \in QuotaValues, SetTeamQuota(t, q)
      PROVE  SerialInv'
  BY <1>1, <1>3 DEF SetTeamQuota, cloudVars
<1>4. ASSUME NEW r \in Requests, RequestStep(r) \/ RequestRaises(r)
      PROVE  SerialInv'
  BY <1>4, RequestKeepsSerial, DelayKeepsSerial
<1>5. ASSUME NEW w \in Workers, WorkerStep(w) \/ CallFails(w) \/ Crash(w)
      PROVE  SerialInv'
  BY <1>5, WorkerKeepsSerial, TakeKeepsSerial
<1>6. ASSUME NEW r \in Requests, NEW n \in Names,
             \/ \E t \in Teams : NewInstance(r, n, t)
             \/ RemoveInstance(r, n)
             \/ \E q \in Quantities : ScaleInstance(r, n, q)
             \/ UpdateInstance(r, n)
      PROVE  SerialInv'
  BY <1>6, BeginKeepsSerial
<1> QED
  BY <1>2, <1>3, <1>4, <1>5, <1>6 DEF Next

(* A patient client never gets a second LB for an instance: new_instance   *)
(* looks for one first, and from then until the worker makes one nothing   *)
(* else works on the instance (manager.py, tasks.py), whatever calls fail  *)
(* and whatever dies.                                                      *)
THEOREM InstancesUnique ==
    ASSUME Client \in {"patient", "orderly"}
    PROVE  Spec => []AtMostOneLB
<1>1. Init => TypeInv /\ SerialInv
  BY InitLBInv DEF LBInv, SerialInv
<1>2. TypeInv /\ SerialInv /\ [Next]_vars => (TypeInv /\ SerialInv)'
  BY StepTypes, StepSerialInv DEF Waits
<1>3. TypeInv /\ SerialInv => AtMostOneLB
  <2> SUFFICES ASSUME SerialInv, NEW n \in Names
               PROVE  Cardinality(LBsOf(n)) <= 1
    BY DEF AtMostOneLB
  <2>1. CASE LBsOf(n) = {}
    BY <2>1, FS_EmptySet
  <2>2. CASE LBsOf(n) # {}
    <3>1. PICK l : l \in LBsOf(n)
      BY <2>2
    <3>2. LBsOf(n) = {l}
      BY <3>1 DEF LBsOf, SerialInv, FreshInv, OneLB
    <3> QED
      BY <3>2, FS_Singleton
  <2> QED
    BY <2>1, <2>2
<1> QED
  BY <1>1, <1>2, <1>3, PTL DEF Spec
-----------------------------------------------------------------------------
(***************************************************************************)
(* The paths of the tasks, and whose load balancers and machines they      *)
(* touch: a task acts on an LB of its own instance, and a machine that is  *)
(* about to be attached is attached nowhere yet.                           *)
(***************************************************************************)

TaskOnPath(t) ==
    /\ t.kind = "none" <=> t.pc = "idle"
    /\ t.kind = "none" => t.lb = Nothing
    /\ t.kind = "new" =>
          /\ t.pc \notin {"find_lb", "scale_finally"} \cup TailPcs
          /\ t.pc \in DeletePcs \cup {"delete_finally"} => t.rolling
          /\ t.lb # Nothing => t.fresh
    /\ t.kind # "new" => ~t.fresh /\ t.pc \notin {"create_lb", "create_hc", "rollback_lb"}
    /\ t.kind = "remove" => /\ t.pc \notin AddPcs \cup RollbackPcs
                                           \cup {"add_finally", "scale_finally"}
                            /\ ~t.rolling
    /\ t.kind = "scale" => t.pc \notin TailPcs
    /\ t.pc \in {"find_lb", "create_lb"} => t.lb = Nothing /\ ~t.error
    /\ t.rolling \/ t.pc \in RollbackPcs => t.error

TasksOnPath == \A w \in Workers : TaskOnPath(wk[w])

Owned ==
    \A w \in Workers :
        wk[w].lb \in LBs => lbOf[wk[w].lb] \in {wk[w].name, "destroyed"}

AttachedOnce ==
    /\ \A l \in LBs : IsInjective(attached[l])
    /\ \A l \in LBs : \A h \in ToSet(attached[l]) : hostOf[h] # "unused"
    /\ \A w \in Workers :
          wk[w].pc = "add_host" =>
              /\ hostOf[wk[w].host] # "unused"
              /\ \A l \in LBs : wk[w].host \notin ToSet(attached[l])
    /\ \A v, w \in Workers :
          wk[v].pc = "add_host" /\ wk[w].pc = "add_host" /\ wk[v].host = wk[w].host
              => v = w

FleetInv == TasksOnPath /\ Owned /\ AttachedOnce

(* What a task that goes on keeps of its record. *)
SameTask(t, p) ==
    /\ t.name = p.name /\ t.kind = p.kind /\ t.qty = p.qty
    /\ t.pc \notin {"idle", "find_lb", "create_lb", "add_host"}
    /\ p.error => t.error

GoesOn(t, p) == SameTask(t, p) /\ TaskOnPath(t) /\ t.lb = p.lb

LEMMA NextDeleteGoesOn ==
    ASSUME NEW t \in WkType, ~t.rolling, ~t.fresh,
           NEW done \in {"destroy_instance", "scale_finally"},
           t.kind = IF done = "scale_finally" THEN "scale" ELSE "remove"
    PROVE  GoesOn(NextDelete(t, done), t)
<1>1. CASE t.todo = <<>>
  <2>1. PICK s : s = [t EXCEPT !.pc = done, !.host = Nothing]
    OBVIOUS
  <2>2. /\ s.pc = done /\ s.name = t.name /\ s.kind = t.kind /\ s.qty = t.qty /\ s.lb = t.lb
        /\ s.fresh = t.fresh /\ s.rolling = t.rolling /\ s.error = t.error
    BY <2>1 DEF WkType
  <2>3. NextDelete(t, done) = s
    BY <1>1, <2>1 DEF NextDelete
  <2>4. GoesOn(s, t)
    BY <2>2 DEF GoesOn, SameTask, TaskOnPath, TailPcs, AddPcs, RollbackPcs
  <2> QED
    BY <2>3, <2>4
<1>2. CASE t.todo # <<>>
  <2>1. PICK s : s = [t EXCEPT !.pc = "destroy_host", !.host = Head(t.todo),
                               !.todo = Tail(t.todo)]
    OBVIOUS
  <2>2. /\ s.pc = "destroy_host" /\ s.name = t.name /\ s.kind = t.kind /\ s.qty = t.qty
        /\ s.lb = t.lb
        /\ s.fresh = t.fresh /\ s.rolling = t.rolling /\ s.error = t.error
    BY <2>1 DEF WkType
  <2>3. NextDelete(t, done) = s
    BY <1>2, <2>1 DEF NextDelete
  <2>4. GoesOn(s, t)
    BY <2>2 DEF GoesOn, SameTask, TaskOnPath, TailPcs, AddPcs, RollbackPcs
  <2> QED
    BY <2>3, <2>4
<1> QED
  BY <1>1, <1>2

LEMMA RollbackHostGoesOn ==
    ASSUME NEW t \in WkType, TaskOnPath(t), t.error, t.kind \in {"new", "scale"}
    PROVE  GoesOn(RollbackHost(t), t)
<1>1. CASE t.host = Nothing
  <2>1. PICK s : s = [t EXCEPT !.pc = "rollback_hc"]
    OBVIOUS
  <2>2. /\ s.pc = "rollback_hc" /\ s.name = t.name /\ s.kind = t.kind /\ s.qty = t.qty
        /\ s.lb = t.lb
        /\ s.fresh = t.fresh /\ s.rolling = t.rolling /\ s.error = t.error
    BY <2>1 DEF WkType
  <2>3. RollbackHost(t) = s
    BY <1>1, <2>1 DEF RollbackHost
  <2>4. GoesOn(s, t)
    BY <2>2 DEF GoesOn, SameTask, TaskOnPath, TailPcs, AddPcs, RollbackPcs, DeletePcs
  <2> QED
    BY <2>3, <2>4
<1>2. CASE t.host # Nothing
  <2>1. PICK s : s = [t EXCEPT !.pc = "destroy_host", !.rolling = TRUE]
    OBVIOUS
  <2>2. /\ s.pc = "destroy_host" /\ s.name = t.name /\ s.kind = t.kind /\ s.qty = t.qty
        /\ s.lb = t.lb
        /\ s.fresh = t.fresh /\ s.rolling = TRUE /\ s.error = t.error
    BY <2>1 DEF WkType
  <2>3. RollbackHost(t) = s
    BY <1>2, <2>1 DEF RollbackHost
  <2>4. GoesOn(s, t)
    BY <2>2 DEF GoesOn, SameTask, TaskOnPath, TailPcs, AddPcs, RollbackPcs, DeletePcs
  <2> QED
    BY <2>3, <2>4
<1> QED
  BY <1>1, <1>2

LEMMA LeaveRunGoesOn ==
    ASSUME NEW t \in WkType, TaskOnPath(t), t.pc # "idle"
    PROVE  LeaveRun(t) = IdleWk \/ (GoesOn(LeaveRun(t), t) /\ LeaveRun(t).error)
<1>1. CASE t.kind = "scale"
  <2>1. PICK s : s = [t EXCEPT !.pc = "scale_finally", !.error = TRUE]
    OBVIOUS
  <2>2. /\ s.pc = "scale_finally" /\ s.name = t.name /\ s.kind = t.kind /\ s.qty = t.qty
        /\ s.lb = t.lb
        /\ s.fresh = t.fresh /\ s.rolling = t.rolling /\ s.error = TRUE
    BY <2>1 DEF WkType
  <2>3. LeaveRun(t) = s
    BY <1>1, <2>1 DEF LeaveRun
  <2>4. GoesOn(s, t)
    BY <1>1, <2>2 DEF GoesOn, SameTask, TaskOnPath, TailPcs, AddPcs, RollbackPcs, DeletePcs
  <2> QED
    BY <2>2, <2>3, <2>4
<1>2. CASE t.kind # "scale"
  BY <1>2 DEF LeaveRun
<1> QED
  BY <1>1, <1>2

(* The handler of an exception: of a scale task it leaves the error mark.  *)
LEMMA HandlerGoesOn ==
    ASSUME NEW t \in WkType, TaskOnPath(t), t.pc \notin FinallyPcs \cup {"idle"}
    PROVE  \/ Handler(t) = IdleWk
           \/ GoesOn(Handler(t), t) /\ Handler(t).error
<1>0. t.kind = "none" => t.pc = "idle"
  BY DEF TaskOnPath
<1>1. CASE t.pc \in AddPcs
  <2>1. PICK f : f = [t EXCEPT !.error = TRUE]
    OBVIOUS
  <2>2. /\ f \in WkType /\ f.error /\ f.pc = t.pc /\ f.name = t.name /\ f.kind = t.kind
        /\ f.qty = t.qty /\ f.lb = t.lb /\ f.fresh = t.fresh
        /\ f.rolling = t.rolling /\ f.host = t.host
    BY <2>1 DEF WkType
  <2>3. t.kind \in {"new", "scale"}
    BY <1>1 DEF TaskOnPath, WkType, AddPcs
  <2>4. CASE ~Rollback \/ t.lb = Nothing
    <3>1. PICK s : s = [f EXCEPT !.pc = "add_finally"]
      OBVIOUS
    <3>2. /\ s.pc = "add_finally" /\ s.name = t.name /\ s.kind = t.kind /\ s.qty = t.qty
          /\ s.lb = t.lb
          /\ s.fresh = t.fresh /\ s.rolling = t.rolling /\ s.error
      BY <2>2, <3>1 DEF WkType
    <3>3. Handler(t) = s
      BY <1>1, <2>1, <2>4, <3>1 DEF Handler, AddPcs, DeletePcs
    <3>4. GoesOn(s, t)
      BY <2>3, <3>2 DEF GoesOn, SameTask, TaskOnPath, TailPcs, AddPcs, RollbackPcs, DeletePcs
    <3> QED
      BY <3>2, <3>3, <3>4
  <2>5. CASE ~(~Rollback \/ t.lb = Nothing) /\ t.fresh
    <3>1. PICK s : s = [f EXCEPT !.pc = "rollback_lb"]
      OBVIOUS
    <3>2. /\ s.pc = "rollback_lb" /\ s.name = t.name /\ s.kind = t.kind /\ s.qty = t.qty
          /\ s.lb = t.lb
          /\ s.fresh = t.fresh /\ s.rolling = t.rolling /\ s.error
      BY <2>2, <3>1 DEF WkType
    <3>3. Handler(t) = s
      BY <1>1, <2>1, <2>5, <3>1 DEF Handler, AddPcs, DeletePcs
    <3>4. GoesOn(s, t)
      BY <2>3, <2>5, <3>2 DEF GoesOn, SameTask, TaskOnPath, TailPcs, AddPcs, RollbackPcs,
         DeletePcs
    <3> QED
      BY <3>2, <3>3, <3>4
  <2>6. CASE ~(~Rollback \/ t.lb = Nothing) /\ ~t.fresh
    <3>1. Handler(t) = RollbackHost(f)
      BY <1>1, <2>1, <2>6 DEF Handler, AddPcs, DeletePcs
    <3>2. t.pc # "create_lb"
      BY <2>6 DEF TaskOnPath
    <3>3. TaskOnPath(f)
      BY <1>1, <2>2, <2>3, <3>2 DEF TaskOnPath, TailPcs, AddPcs, RollbackPcs, DeletePcs
    <3>4. GoesOn(RollbackHost(f), f)
      BY <2>2, <2>3, <3>3, RollbackHostGoesOn
    <3>5. GoesOn(RollbackHost(f), t)
      BY <2>2, <3>4 DEF GoesOn, SameTask
    <3> QED
      BY <2>2, <3>1, <3>4, <3>5 DEF GoesOn, SameTask
  <2> QED
    BY <2>4, <2>5, <2>6
<1>2. CASE t.pc = "rollback_lb"
  <2>1. Handler(t) = RollbackHost(t)
    BY <1>2 DEF Handler, AddPcs, DeletePcs
  <2>2. t.error /\ t.kind \in {"new", "scale"}
    BY <1>2 DEF TaskOnPath, RollbackPcs, WkType
  <2>3. GoesOn(RollbackHost(t), t)
    BY <2>2, RollbackHostGoesOn
  <2> QED
    BY <2>1, <2>2, <2>3 DEF GoesOn, SameTask
<1>3. CASE t.pc = "rollback_hc"
  <2>1. PICK s : s = [t EXCEPT !.pc = "add_finally"]
    OBVIOUS
  <2>2. /\ s.pc = "add_finally" /\ s.name = t.name /\ s.kind = t.kind /\ s.qty = t.qty
        /\ s.lb = t.lb
        /\ s.fresh = t.fresh /\ s.rolling = t.rolling /\ s.error = t.error
    BY <2>1 DEF WkType
  <2>3. Handler(t) = s
    BY <1>3, <2>1 DEF Handler, AddPcs, DeletePcs
  <2>4. GoesOn(s, t)
    BY <1>0, <1>3, <2>2 DEF GoesOn, SameTask, TaskOnPath, TailPcs, AddPcs, RollbackPcs, DeletePcs
  <2> QED
    BY <1>3, <2>2, <2>3, <2>4 DEF TaskOnPath, RollbackPcs
<1>4. CASE t.pc \in DeletePcs
  <2>1. PICK s : s = [t EXCEPT !.pc = "delete_finally", !.error = TRUE]
    OBVIOUS
  <2>2. /\ s.pc = "delete_finally" /\ s.name = t.name /\ s.kind = t.kind /\ s.qty = t.qty
        /\ s.lb = t.lb
        /\ s.fresh = t.fresh /\ s.rolling = t.rolling /\ s.error = TRUE
    BY <2>1 DEF WkType
  <2>3. Handler(t) = s
    BY <1>4, <2>1 DEF Handler, AddPcs, DeletePcs
  <2>4. GoesOn(s, t)
    BY <1>0, <1>4, <2>2 DEF GoesOn, SameTask, TaskOnPath, TailPcs, AddPcs, RollbackPcs, DeletePcs
  <2> QED
    BY <2>2, <2>3, <2>4
<1>5. CASE t.pc \notin AddPcs \cup DeletePcs \cup {"rollback_lb", "rollback_hc"}
  <2>1. Handler(t) = LeaveRun(t)
    BY <1>5 DEF Handler
  <2> QED
    BY <2>1, LeaveRunGoesOn
<1> QED
  BY <1>1, <1>2, <1>3, <1>4, <1>5

(* The record after Enter: only the program counter moves. *)
Only(t, p, pc) ==
    /\ t.pc = pc /\ t.kind = p.kind /\ t.name = p.name /\ t.qty = p.qty
    /\ t.lb = p.lb /\ t.fresh = p.fresh /\ t.empty = p.empty /\ t.host = p.host
    /\ t.adds = p.adds /\ t.todo = p.todo /\ t.rolling = p.rolling
    /\ t.error = p.error

LEMMA EnterOnly ==
    ASSUME TypeInv, NEW w \in Workers, NEW pc, Enter(w, pc)
    PROVE  \E t : wk' = [wk EXCEPT ![w] = t] /\ Only(t, wk[w], pc)
<1>1. wk[w] \in WkType
  BY DEF TypeInv, TypeOK
<1>2. PICK t : t = [wk[w] EXCEPT !.pc = pc]
  OBVIOUS
<1>3. Only(t, wk[w], pc)
  BY <1>1, <1>2 DEF Only, WkType
<1>4. wk' = [wk EXCEPT ![w] = t]
  BY <1>2 DEF Enter
<1> QED
  BY <1>3, <1>4

(* What a step of a task after it was taken does to its record.            *)
AddedMachine(t, p) ==
    /\ p.pc = "create_host" /\ t.pc = "add_host"
    /\ TaskOnPath(t) /\ t.lb = p.lb /\ t.name = p.name
    /\ t.kind = p.kind /\ t.qty = p.qty
    /\ p.error => t.error
    /\ t.host \in Hosts /\ hostOf[t.host] = "unused"
    /\ hostOf' = [hostOf EXCEPT ![t.host] = p.name]
    /\ UNCHANGED <<attached, lbOf>>

FoundLB(t, p) ==
    /\ p.pc \in {"find_lb", "create_lb"} /\ SameTask(t, p) /\ TaskOnPath(t)
    /\ t.lb \in LBs /\ lbOf'[t.lb] = p.name

TaskGoesOn(t, p) ==
    \/ t = IdleWk
    \/ GoesOn(t, p)
    \/ FoundLB(t, p)
    \/ AddedMachine(t, p)

LEMMA WorkerGoesOn ==
    ASSUME TypeInv, TasksOnPath, NEW w \in Workers,
           WorkerStep(w) \/ CallFails(w) \/ Crash(w), ~TakeTask(w)
    PROVE  \E t : wk' = [wk EXCEPT ![w] = t] /\ TaskGoesOn(t, wk[w])
<1> USE DEF quotaVars, storeVars, cloudVars, boundVars
<1>0. wk[w] \in WkType /\ WkRecordOK(wk[w]) /\ TaskOnPath(wk[w])
  BY DEF TypeInv, TypeOK, RecordsOK, TasksOnPath
<1> DEFINE Moved == \E t : wk' = [wk EXCEPT ![w] = t] /\ TaskGoesOn(t, wk[w])
<1>s. ASSUME NEW t, Set(w, t), TaskGoesOn(t, wk[w])
      PROVE  Moved
  BY <1>s DEF Set
<1>e. ASSUME NEW pc, Enter(w, pc),
             \A t : Only(t, wk[w], pc) => GoesOn(t, wk[w])
      PROVE  Moved
  <2>1. PICK t : wk' = [wk EXCEPT ![w] = t] /\ Only(t, wk[w], pc)
    BY <1>e, EnterOnly
  <2> QED
    BY <1>e, <2>1 DEF TaskGoesOn
<1>f. wk[w].pc \notin FinallyPcs \cup {"idle"} => TaskGoesOn(Handler(wk[w]), wk[w])
  BY <1>0, HandlerGoesOn DEF TaskGoesOn

<1>2. CASE TaskFindLB(w)
  <2> PICK l \in LBsOf(wk[w].name) :
          LET hosts == attached[l]
              found == [wk[w] EXCEPT !.lb = l, !.empty = (hosts = <<>>)]
              extra == Len(hosts) - wk[w].qty
          IN  CASE found.kind = "remove" ->
                     Set(w, NextDelete([found EXCEPT !.todo = hosts], "destroy_instance"))
                [] found.kind = "scale" /\ extra < 0 ->
                     Set(w, [found EXCEPT !.pc = "create_host", !.adds = -extra])
                [] OTHER ->
                     Set(w, NextDelete([found EXCEPT !.todo = SubSeq(hosts, 1, extra)],
                                       "scale_finally"))
    BY <1>2 DEF TaskFindLB
  <2> DEFINE hosts == attached[l]
             found == [wk[w] EXCEPT !.lb = l, !.empty = (hosts = <<>>)]
             extra == Len(hosts) - wk[w].qty
  <2>1. /\ l \in LBs /\ lbOf[l] = wk[w].name /\ hosts \in Seq(Hosts) /\ wk[w].qty \in Nat
        /\ UNCHANGED lbOf /\ wk[w].pc = "find_lb"
    BY <1>0, <1>2 DEF LBsOf, TypeInv, TypeOK, WkType, TaskFindLB, In
  <2>2. /\ found \in WkType /\ found.name = wk[w].name /\ found.pc = "find_lb"
        /\ found.kind = wk[w].kind /\ found.qty = wk[w].qty /\ found.lb = l
        /\ found.fresh = wk[w].fresh /\ found.rolling = wk[w].rolling
        /\ found.error = wk[w].error
    BY ZenonT(60), <1>0, <2>1 DEF WkType
  <2>3. extra \in Int /\ extra <= Len(hosts) /\ Len(hosts) \in Nat
    BY <2>1
  <2>4. wk[w].kind \in {"remove", "scale"} /\ ~wk[w].error /\ ~wk[w].rolling
        /\ ~wk[w].fresh
    BY <1>0, <2>1 DEF TaskOnPath, WkType
  <2> HIDE DEF found, extra, hosts
  <2>5. ASSUME NEW t \in WkType, t.kind = wk[w].kind, t.name = wk[w].name,
               t.qty = wk[w].qty, t.lb = l, ~t.fresh, ~t.rolling,
               NEW done \in {"destroy_instance", "scale_finally"},
               t.kind = IF done = "scale_finally" THEN "scale" ELSE "remove"
        PROVE  TaskGoesOn(NextDelete(t, done), wk[w])
    <3>1. GoesOn(NextDelete(t, done), t)
      BY <2>5, NextDeleteGoesOn
    <3>2. FoundLB(NextDelete(t, done), wk[w])
      BY <2>1, <2>4, <2>5, <3>1 DEF GoesOn, SameTask, FoundLB
    <3> QED
      BY <3>2 DEF TaskGoesOn
  <2>6. ASSUME wk[w].kind = "remove"
        PROVE  TaskGoesOn(NextDelete([found EXCEPT !.todo = hosts], "destroy_instance"), wk[w])
    <3>1. PICK t : t = [found EXCEPT !.todo = hosts]
      OBVIOUS
    <3>2. /\ t \in WkType /\ t.kind = wk[w].kind /\ t.name = wk[w].name
          /\ t.qty = wk[w].qty /\ t.lb = l /\ ~t.fresh /\ ~t.rolling
      BY <2>1, <2>2, <2>4, <3>1 DEF WkType
    <3> QED
      BY <2>5, <2>6, <3>1, <3>2
  <2>7. ASSUME wk[w].kind = "scale", extra >= 0
        PROVE  TaskGoesOn(NextDelete([found EXCEPT !.todo = SubSeq(hosts, 1, extra)],
                                     "scale_finally"), wk[w])
    <3>0. SubSeq(hosts, 1, extra) \in Seq(Hosts)
      <4>1. \A i \in 1..extra : hosts[i] \in Hosts
        BY <2>1, <2>3
      <4> QED
        BY <2>3, <4>1, SubSeqProperties
    <3>1. PICK t : t = [found EXCEPT !.todo = SubSeq(hosts, 1, extra)]
      OBVIOUS
    <3>2. /\ t \in WkType /\ t.kind = wk[w].kind /\ t.name = wk[w].name
          /\ t.qty = wk[w].qty /\ t.lb = l /\ ~t.fresh /\ ~t.rolling
      BY <2>1, <2>2, <2>4, <3>0, <3>1 DEF WkType
    <3> QED
      BY <2>5, <2>7, <3>1, <3>2
  <2>8. ASSUME wk[w].kind = "scale", extra < 0
        PROVE  TaskGoesOn([found EXCEPT !.pc = "create_host", !.adds = -extra], wk[w])
    <3>1. PICK t : t = [found EXCEPT !.pc = "create_host", !.adds = -extra]
      OBVIOUS
    <3>2. /\ t.pc = "create_host" /\ t.kind = "scale" /\ t.name = wk[w].name
          /\ t.qty = wk[w].qty /\ t.lb = l /\ ~t.fresh /\ ~t.rolling
      BY <2>1, <2>2, <2>4, <2>8, <3>1 DEF WkType
    <3>3. FoundLB(t, wk[w])
      BY <2>1, <2>4, <2>8, <3>2 DEF FoundLB, SameTask, TaskOnPath, TailPcs, RollbackPcs
    <3> QED
      BY <3>1, <3>3 DEF TaskGoesOn
  <2>9. \/ wk[w].kind = "remove"
           /\ Set(w, NextDelete([found EXCEPT !.todo = hosts], "destroy_instance"))
        \/ wk[w].kind = "scale" /\ extra < 0
           /\ Set(w, [found EXCEPT !.pc = "create_host", !.adds = -extra])
        \/ wk[w].kind = "scale" /\ extra >= 0
           /\ Set(w, NextDelete([found EXCEPT !.todo = SubSeq(hosts, 1, extra)],
                                "scale_finally"))
    <3>1. CASE ~(extra < 0)
      BY <2>2, <2>3, <2>4, <3>1 DEF found, extra, hosts
    <3>2. CASE extra < 0
      BY <2>2, <2>4, <3>2 DEF found, extra, hosts
    <3> QED
      BY <3>1, <3>2
  <2> QED
    BY <1>s, <2>6, <2>7, <2>8, <2>9
<1>3. CASE CreateLB(w)
  <2>1. PICK l \in LBsOf("unused") :
          /\ lbOf' = [lbOf EXCEPT ![l] = wk[w].name]
          /\ Set(w, [wk[w] EXCEPT !.pc = "create_hc", !.lb = l, !.fresh = TRUE,
                                  !.empty = TRUE])
    BY <1>3 DEF CreateLB
  <2>2. l \in LBs /\ lbOf'[l] = wk[w].name /\ wk[w].pc = "create_lb" /\ wk[w].kind = "new"
    BY <1>0, <1>3, <2>1 DEF LBsOf, CreateLB, In, WkRecordOK, TypeInv, TypeOK
  <2>3. PICK t : t = [wk[w] EXCEPT !.pc = "create_hc", !.lb = l, !.fresh = TRUE,
                                  !.empty = TRUE]
    OBVIOUS
  <2>4. /\ t.pc = "create_hc" /\ t.kind = wk[w].kind /\ t.name = wk[w].name
        /\ t.qty = wk[w].qty /\ t.lb = l /\ t.fresh /\ t.rolling = wk[w].rolling
        /\ t.error = wk[w].error
    BY <1>0, <2>2, <2>3 DEF WkType
  <2>5. FoundLB(t, wk[w])
    BY <1>0, <2>2, <2>4 DEF FoundLB, SameTask, TaskOnPath, TailPcs, DeletePcs, RollbackPcs
  <2> QED
    BY <1>s, <2>1, <2>3, <2>5 DEF TaskGoesOn
<1>4. CASE CreateHC(w)
  <2>1. \A t : Only(t, wk[w], "create_host") => GoesOn(t, wk[w])
    BY <1>0, <1>4 DEF CreateHC, In, Only, GoesOn, SameTask, TaskOnPath, TailPcs, DeletePcs,
       AddPcs, RollbackPcs
  <2> QED
    BY <1>4, <1>e, <2>1 DEF CreateHC
<1>5. CASE CreateHost(w)
  <2>1. PICK h \in Hosts : /\ hostOf[h] = "unused"
                           /\ hostOf' = [hostOf EXCEPT ![h] = wk[w].name]
                           /\ Set(w, [wk[w] EXCEPT !.pc = "add_host", !.host = h])
    BY <1>5 DEF CreateHost
  <2>2. PICK t : t = [wk[w] EXCEPT !.pc = "add_host", !.host = h]
    OBVIOUS
  <2>3. /\ t.pc = "add_host" /\ t.kind = wk[w].kind /\ t.name = wk[w].name
        /\ t.qty = wk[w].qty /\ t.lb = wk[w].lb /\ t.fresh = wk[w].fresh
        /\ t.rolling = wk[w].rolling /\ t.error = wk[w].error /\ t.host = h
    BY <1>0, <2>1, <2>2 DEF WkType
  <2>4. wk[w].pc = "create_host" /\ UNCHANGED <<attached, lbOf>>
    BY <1>5 DEF CreateHost, In
  <2>5. TaskOnPath(t)
    BY <1>0, <2>3, <2>4 DEF TaskOnPath, TailPcs, DeletePcs, AddPcs, RollbackPcs
  <2>6. AddedMachine(t, wk[w])
    BY <2>1, <2>3, <2>4, <2>5 DEF AddedMachine
  <2> QED
    BY <1>s, <2>1, <2>2, <2>6 DEF TaskGoesOn
<1>6. CASE AddHost(w)
  <2>1. \A t : Only(t, wk[w], "wait_healthcheck") => GoesOn(t, wk[w])
    BY <1>0, <1>6 DEF AddHost, In, Only, GoesOn, SameTask, TaskOnPath, TailPcs, DeletePcs,
       AddPcs, RollbackPcs
  <2> QED
    BY <1>6, <1>e, <2>1 DEF AddHost
<1>7. CASE WaitHealthcheck(w)
  <2>1. \A t : Only(t, wk[w], "add_url") => GoesOn(t, wk[w])
    BY <1>0, <1>7 DEF WaitHealthcheck, In, Only, GoesOn, SameTask, TaskOnPath, TailPcs,
       DeletePcs, AddPcs, RollbackPcs
  <2> QED
    BY <1>7, <1>e, <2>1 DEF WaitHealthcheck
<1>8. CASE AddURL(w)
  <2>1. \A t : Only(t, wk[w], "add_finally") => GoesOn(t, wk[w])
    BY <1>0, <1>8 DEF AddURL, In, Only, GoesOn, SameTask, TaskOnPath, TailPcs, DeletePcs,
       AddPcs, RollbackPcs
  <2> QED
    BY <1>8, <1>e, <2>1 DEF AddURL
<1>9. CASE AddFinally(w)
  <2>0. wk[w].pc = "add_finally"
    BY <1>9 DEF AddFinally, In
  <2>1. CASE wk[w].kind = "new"
    BY <1>9, <2>1, <1>s DEF AddFinally, TaskGoesOn
  <2>2. CASE wk[w].kind # "new" /\ MoreHosts(wk[w])
    <3>1. PICK t : t = [wk[w] EXCEPT !.pc = "create_host", !.adds = @ - 1, !.host = Nothing]
      OBVIOUS
    <3>2. /\ t.pc = "create_host" /\ t.kind = wk[w].kind /\ t.name = wk[w].name
          /\ t.qty = wk[w].qty /\ t.lb = wk[w].lb /\ t.fresh = wk[w].fresh
          /\ t.rolling = wk[w].rolling /\ t.error = wk[w].error
      BY <1>0, <3>1 DEF WkType
    <3>3. GoesOn(t, wk[w])
      BY <1>0, <2>0, <2>2, <3>2 DEF GoesOn, SameTask, TaskOnPath, TailPcs, DeletePcs, AddPcs,
         RollbackPcs
    <3> QED
      BY <1>9, <1>s, <2>2, <3>1, <3>3 DEF AddFinally, TaskGoesOn
  <2>3. CASE wk[w].kind # "new" /\ ~MoreHosts(wk[w])
    <3>1. PICK t : t = [wk[w] EXCEPT !.pc = "scale_finally"]
      OBVIOUS
    <3>2. /\ t.pc = "scale_finally" /\ t.kind = wk[w].kind /\ t.name = wk[w].name
          /\ t.qty = wk[w].qty /\ t.lb = wk[w].lb /\ t.fresh = wk[w].fresh
          /\ t.rolling = wk[w].rolling /\ t.error = wk[w].error
      BY <1>0, <3>1 DEF WkType
    <3>3. GoesOn(t, wk[w])
      BY <1>0, <2>0, <2>3, <3>2 DEF GoesOn, SameTask, TaskOnPath, TailPcs, DeletePcs, AddPcs,
         RollbackPcs
    <3> QED
      BY <1>9, <1>s, <2>3, <3>1, <3>3 DEF AddFinally, TaskGoesOn
  <2> QED
    BY <2>1, <2>2, <2>3
<1>10. CASE DestroyHost(w)
  <2>0. wk[w].pc = "destroy_host"
    BY <1>10 DEF DestroyHost, In
  <2>1. \A pc \in {"remove_url", "remove_host"} :
          \A t : Only(t, wk[w], pc) => GoesOn(t, wk[w])
    BY <1>0, <2>0 DEF Only, GoesOn, SameTask, TaskOnPath, TailPcs, DeletePcs,
       AddPcs, RollbackPcs
  <2> QED
    BY <1>10, <1>e, <2>1 DEF DestroyHost
<1>11. CASE RemoveHost(w)
  <2>1. \A t : Only(t, wk[w], "remove_url") => GoesOn(t, wk[w])
    BY <1>0, <1>11 DEF RemoveHost, In, Only, GoesOn, SameTask, TaskOnPath, TailPcs, DeletePcs,
       AddPcs, RollbackPcs
  <2> QED
    BY <1>11, <1>e, <2>1 DEF RemoveHost
<1>12. CASE RemoveURL(w)
  <2>1. \A t : Only(t, wk[w], "delete_finally") => GoesOn(t, wk[w])
    BY <1>0, <1>12 DEF RemoveURL, In, Only, GoesOn, SameTask, TaskOnPath, TailPcs, DeletePcs,
       AddPcs, RollbackPcs
  <2> QED
    BY <1>12, <1>e, <2>1 DEF RemoveURL
<1>13. CASE DeleteFinally(w)
  <2>0. wk[w].pc = "delete_finally"
    BY <1>13 DEF DeleteFinally, In
  <2>1. CASE wk[w].rolling
    <3>1. PICK t : t = [wk[w] EXCEPT !.pc = "rollback_hc"]
      OBVIOUS
    <3>2. Only(t, wk[w], "rollback_hc")
      BY <1>0, <3>1 DEF Only, WkType
    <3>3. GoesOn(t, wk[w])
      BY <1>0, <2>0, <2>1, <3>2 DEF Only, GoesOn, SameTask, TaskOnPath, TailPcs, DeletePcs,
         AddPcs, RollbackPcs
    <3> QED
      BY <1>13, <1>s, <2>1, <3>1, <3>3 DEF DeleteFinally, TaskGoesOn
  <2>2. CASE ~wk[w].rolling /\ wk[w].error
    <3>1. TaskGoesOn(LeaveRun(wk[w]), wk[w])
      BY <1>0, <2>0, LeaveRunGoesOn DEF TaskGoesOn
    <3> QED
      BY <1>13, <1>s, <2>2, <3>1 DEF DeleteFinally
  <2>3. CASE ~wk[w].rolling /\ ~wk[w].error
    <3>1. wk[w].kind \in {"remove", "scale"} /\ ~wk[w].fresh
      BY <1>0, <2>0, <2>3 DEF TaskOnPath, WkType
    <3>2. PICK done : done = IF wk[w].kind = "scale" THEN "scale_finally"
                                                     ELSE "destroy_instance"
      OBVIOUS
    <3>3. GoesOn(NextDelete(wk[w], done), wk[w])
      BY <1>0, <2>3, <3>1, <3>2, NextDeleteGoesOn
    <3>4. Set(w, NextDelete(wk[w], done))
      BY <1>13, <2>3, <3>2 DEF DeleteFinally
    <3> QED
      BY <1>s, <3>3, <3>4 DEF TaskGoesOn
  <2> QED
    BY <2>1, <2>2, <2>3
<1>14. CASE ScaleFinally(w)
  BY <1>14, <1>s DEF ScaleFinally, TaskGoesOn
<1>15. CASE DestroyInstance(w)
  <2>0. wk[w].pc = "destroy_instance"
    BY <1>15 DEF DestroyInstance, In
  <2>1. \A pc \in {"destroy_hc", "destroy_lb"} :
          \A t : Only(t, wk[w], pc) => GoesOn(t, wk[w])
    BY <1>0, <2>0 DEF Only, GoesOn, SameTask, TaskOnPath, TailPcs, DeletePcs,
       AddPcs, RollbackPcs
  <2> QED
    BY <1>15, <1>e, <2>1 DEF DestroyInstance
<1>16. CASE DestroyLB(w)
  <2>1. CASE In(w, "destroy_lb")
    <3>1. \A t : Only(t, wk[w], "destroy_hc") => GoesOn(t, wk[w])
      BY <1>0, <2>1 DEF In, Only, GoesOn, SameTask, TaskOnPath, TailPcs, DeletePcs,
         AddPcs, RollbackPcs
    <3> QED
      BY <1>16, <2>1, <1>e, <3>1 DEF DestroyLB
  <2>2. CASE ~In(w, "destroy_lb")
    <3>1. wk[w].error /\ wk[w].kind \in {"new", "scale"}
      BY <1>0, <1>16, <2>2 DEF DestroyLB, In, TaskOnPath, RollbackPcs, WkType
    <3>2. GoesOn(RollbackHost(wk[w]), wk[w])
      BY <1>0, <3>1, RollbackHostGoesOn
    <3> QED
      BY <1>16, <2>2, <1>s, <3>2 DEF DestroyLB, TaskGoesOn
  <2> QED
    BY <2>1, <2>2
<1>17. CASE DestroyHC(w)
  <2>1. CASE In(w, "destroy_hc")
    BY <1>17, <2>1, <1>s DEF DestroyHC, TaskGoesOn
  <2>2. CASE ~In(w, "destroy_hc")
    <3>1. \A t : Only(t, wk[w], "add_finally") => GoesOn(t, wk[w])
      BY <1>0, <1>17, <2>2 DEF DestroyHC, In, Only, GoesOn, SameTask, TaskOnPath, TailPcs,
         DeletePcs, AddPcs, RollbackPcs
    <3> QED
      BY <1>17, <2>2, <1>e, <3>1 DEF DestroyHC
  <2> QED
    BY <2>1, <2>2
<1>18. CASE TaskRaises(w)
  <2>1. wk[w].pc \notin FinallyPcs \cup {"idle"}
    BY <1>18 DEF TaskRaises, MustRaise, FinallyPcs
  <2> QED
    BY <1>18, <2>1, <1>f, <1>s DEF TaskRaises
<1>19. CASE CallFails(w)
  BY <1>19, <1>f, <1>s DEF CallFails
<1>20. CASE Crash(w)
  BY <1>20, <1>s DEF Crash, TaskGoesOn
<1> QED
  BY <1>2, <1>3, <1>4, <1>5, <1>6, <1>7, <1>8, <1>9, <1>10, <1>11, <1>12, <1>13,
     <1>14, <1>15, <1>16, <1>17, <1>18, <1>19, <1>20
     DEF WorkerStep, AddHostStep, DeleteHostStep

(* The calls of a task that change load balancers or machines. *)
CloudStep(w) ==
    \/ CreateLB(w) \/ CreateHost(w) \/ AddHost(w)
    \/ DestroyHost(w) \/ RemoveHost(w) \/ DestroyLB(w)

LEMMA CloudSteps ==
    ASSUME NEW w \in Workers, WorkerStep(w) \/ CallFails(w) \/ Crash(w)
    PROVE  CloudStep(w) \/ UNCHANGED <<lbOf, attached, hostOf>>
  BY DEF WorkerStep, AddHostStep, DeleteHostStep, CloudStep, TakeTask, TaskFindLB, CreateHC,
     WaitHealthcheck, AddURL, AddFinally, RemoveURL, DeleteFinally, ScaleFinally,
     DestroyInstance, DestroyHC, TaskRaises, CallFails, Crash, cloudVars

(* A removed host leaves the list; the others stay, each still once.       *)
LEMMA ToSetAppend ==
    ASSUME NEW S, NEW s \in Seq(S), NEW e \in S
    PROVE  /\ Append(s, e) \in Seq(S)
           /\ Len(Append(s, e)) = Len(s) + 1
           /\ ToSet(Append(s, e)) = ToSet(s) \cup {e}
           /\ IsInjective(s) /\ e \notin ToSet(s) => IsInjective(Append(s, e))
<1>0. Len(s) \in Nat /\ DOMAIN s = 1..Len(s)
  OBVIOUS
<1>1. PICK a : a = Append(s, e)
  OBVIOUS
<1>2. /\ a \in Seq(S) /\ Len(a) = Len(s) + 1 /\ DOMAIN a = 1..(Len(s) + 1)
      /\ \A j \in 1..Len(s) : a[j] = s[j]
      /\ a[Len(s) + 1] = e
  BY <1>0, <1>1
<1>3. \A j \in 1..(Len(s) + 1) : j \in 1..Len(s) \/ j = Len(s) + 1
  BY <1>0
<1>4. ToSet(a) = ToSet(s) \cup {e}
  BY <1>0, <1>2, <1>3 DEF ToSet
<1>5. IsInjective(s) /\ e \notin ToSet(s) => IsInjective(a)
  BY <1>0, <1>2, <1>3 DEF IsInjective, ToSet
<1> QED
  BY <1>1, <1>2, <1>4, <1>5

LEMMA PullLength ==
    ASSUME NEW S, NEW s \in Seq(S), NEW e
    PROVE  Len(Pull(s, e)) = IF e \in ToSet(s) THEN Len(s) - 1 ELSE Len(s)
<1>0. Len(s) \in Nat /\ DOMAIN s = 1..Len(s)
  OBVIOUS
<1>1. Contains(s, e) <=> e \in ToSet(s)
  BY <1>0 DEF Contains, ToSet
<1>2. CASE Contains(s, e)
  <2>1. PICK i : i = CHOOSE j \in 1..Len(s) : s[j] = e
    OBVIOUS
  <2>2. i \in 1..Len(s)
    BY <1>2, <2>1 DEF Contains
  <2>3. Pull(s, e) = RemoveAt(s, i)
    BY <1>2, <2>1, Zenon DEF Pull
  <2>4. Len(RemoveAt(s, i)) = Len(s) - 1
    BY <2>2, RemoveAtProperties
  <2> QED
    BY <1>1, <1>2, <2>3, <2>4
<1>3. CASE ~Contains(s, e)
  BY <1>1, <1>3 DEF Pull
<1> QED
  BY <1>2, <1>3

LEMMA InitFleet == Init => FleetInv
<1> SUFFICES ASSUME Init PROVE FleetInv
  OBVIOUS
<1>1. \A w \in Workers : wk[w] = IdleWk
  BY DEF Init
<1>2. /\ IdleWk.pc = "idle" /\ IdleWk.kind = "none" /\ IdleWk.lb = Nothing
      /\ IdleWk.fresh = FALSE /\ IdleWk.rolling = FALSE /\ IdleWk.error = FALSE
  BY DEF IdleWk
<1>3. TasksOnPath
  BY <1>1, <1>2 DEF TasksOnPath, TaskOnPath, RollbackPcs
<1>4. Owned
  BY <1>1, <1>2, ConstantsAssumption DEF Owned
<1>5. AttachedOnce
  <2>1. \A l \in LBs : attached[l] = <<>>
    BY DEF Init
  <2>2. IsInjective(<<>>) /\ ToSet(<<>>) = {}
    BY DEF IsInjective, ToSet
  <2> QED
    BY <1>1, <1>2, <2>1, <2>2 DEF AttachedOnce
<1> QED
  BY <1>3, <1>4, <1>5 DEF FleetInv

(* Taking a task: it has no LB and no machine yet. *)
TakenTask(t, m) ==
    /\ t.kind = m.kind /\ t.name = m.name /\ t.qty = m.qty
    /\ t.pc = IF m.kind = "new" THEN "create_lb" ELSE "find_lb"
    /\ t.lb = Nothing /\ t.host = Nothing /\ t.todo = <<>> /\ ~t.fresh /\ ~t.empty
    /\ ~t.rolling /\ ~t.error

LEMMA TakeTaskTakes ==
    ASSUME TypeInv, NEW w \in Workers, TakeTask(w)
    PROVE  /\ UNCHANGED <<quotaVars, storeVars, cloudVars, req>>
           /\ \E t : /\ wk' = [wk EXCEPT ![w] = t] /\ TakenTask(t, queue[1])
                     /\ TaskOnPath(t)
           /\ queue # <<>> /\ queue[1] \in TaskType
<1>1. queue \in Seq(TaskType) /\ queue # <<>>
  BY DEF TakeTask, TypeInv, TypeOK
<1>2. Head(queue) = queue[1] /\ queue[1] \in TaskType
  BY <1>1
<1>3. PICK m : m = queue[1]
  OBVIOUS
<1>4. PICK t : t = [IdleWk EXCEPT !.kind = m.kind, !.name = m.name, !.qty = m.qty,
                         !.pc = IF m.kind = "new" THEN "create_lb" ELSE "find_lb",
                         !.adds = IF m.kind = "new" THEN 1 ELSE 0]
  OBVIOUS
<1>5. TakenTask(t, m)
  BY <1>4 DEF IdleWk, TakenTask
<1>6. m.kind \in {"new", "remove", "scale"}
  BY <1>2, <1>3 DEF TaskType
<1>7. TaskOnPath(t)
  BY <1>5, <1>6 DEF TakenTask, TaskOnPath, TailPcs, AddPcs, RollbackPcs, DeletePcs
<1>8. wk' = [wk EXCEPT ![w] = t]
  BY <1>2, <1>3, <1>4 DEF TakeTask, Set
<1> QED
  BY <1>1, <1>2, <1>3, <1>5, <1>7, <1>8 DEF TakeTask

LEMMA WorkerKeepsFleet ==
    ASSUME TypeInv, FleetInv, NEW w \in Workers,
           WorkerStep(w) \/ CallFails(w) \/ Crash(w), ~TakeTask(w)
    PROVE  FleetInv'
<1>1. PICK t : wk' = [wk EXCEPT ![w] = t] /\ TaskGoesOn(t, wk[w])
  BY WorkerGoesOn DEF FleetInv
<1>2. wk'[w] = t /\ \A v \in Workers \ {w} : wk'[v] = wk[v]
  BY <1>1 DEF TypeInv, TypeOK
<1>3. IdleWk.pc = "idle" /\ IdleWk.kind = "none" /\ IdleWk.lb = Nothing /\ Nothing \notin LBs
      /\ ~IdleWk.fresh /\ ~IdleWk.rolling /\ ~IdleWk.error
  BY ConstantsAssumption DEF IdleWk
<1>4. TaskOnPath(t)
  <2>1. TaskOnPath(IdleWk)
    BY <1>3 DEF TaskOnPath, RollbackPcs
  <2> QED
    BY <1>1, <2>1 DEF TaskGoesOn, GoesOn, FoundLB, AddedMachine
<1>5. TasksOnPath'
  BY <1>2, <1>4 DEF TasksOnPath, FleetInv
<1>6. \A v \in Workers : wk[v].lb \in LBs => wk[v].name \in Names
  <2>1. \A v \in Workers : wk[v].lb \in LBs => wk[v].pc # "idle"
    BY <1>3 DEF FleetInv, TasksOnPath, TaskOnPath
  <2> QED
    BY <2>1 DEF TypeInv, RecordsOK, WkRecordOK
<1>7. lbOf \in [LBs -> Names \cup {"unused", "destroyed"}]
  BY DEF TypeInv, TypeOK
<1>8. attached \in [LBs -> Seq(Hosts)] /\ hostOf \in [Hosts -> Names \cup {"unused", "destroyed"}]
  BY DEF TypeInv, TypeOK
<1>9. \/ t.lb \notin LBs
      \/ t.lb = wk[w].lb /\ t.name = wk[w].name
      \/ t.lb \in LBs /\ t.name = wk[w].name /\ lbOf'[t.lb] = wk[w].name
  BY <1>1, <1>3 DEF TaskGoesOn, GoesOn, FoundLB, AddedMachine, SameTask
<1>10. Owned'
  <2>1. ASSUME NEW v \in Workers, wk[v].lb \in LBs
        PROVE  lbOf'[wk[v].lb] \in {wk[v].name, "destroyed"}
    <3>1. lbOf[wk[v].lb] \in {wk[v].name, "destroyed"} /\ wk[v].name \in Names
      BY <1>6, <2>1 DEF FleetInv, Owned
    <3>2. lbOf[wk[v].lb] # "unused"
      BY <3>1, ConstantsAssumption
    <3>3. CASE CreateLB(w)
      BY <1>7, <2>1, <3>1, <3>2, <3>3 DEF CreateLB, LBsOf
    <3>4. CASE DestroyLB(w)
      BY <1>7, <2>1, <3>1, <3>4 DEF DestroyLB
    <3>5. CASE ~CreateLB(w) /\ ~DestroyLB(w)
      BY <3>1, <3>5, CloudSteps DEF CloudStep, CreateHost, AddHost, DestroyHost, RemoveHost
    <3> QED
      BY <3>3, <3>4, <3>5
  <2> QED
    BY <1>2, <1>9, <2>1 DEF Owned
<1>11. t.pc = "add_host" => AddedMachine(t, wk[w])
  BY <1>1, <1>3 DEF TaskGoesOn, GoesOn, FoundLB, SameTask
<1>12. AttachedOnce'
  <2> USE DEF FleetInv
  <2>1. CASE CreateHost(w)
    <3>1. UNCHANGED attached /\ wk[w].pc = "create_host"
      BY <2>1 DEF CreateHost, In
    <3>2. PICK h \in Hosts : /\ hostOf[h] = "unused"
                             /\ hostOf' = [hostOf EXCEPT ![h] = wk[w].name]
      BY <2>1 DEF CreateHost
    <3>3. wk[w].name \in Names /\ wk[w].name # "unused"
      BY <3>1, ConstantsAssumption DEF TypeInv, RecordsOK, WkRecordOK
    <3>4. \A g \in Hosts : hostOf[g] # "unused" => hostOf'[g] # "unused" /\ g # h
      BY <1>8, <3>2, <3>3
    <3>5. \A l \in LBs : ToSet(attached[l]) \subseteq Hosts
      <4>1. \A l \in LBs : attached[l] \in Seq(Hosts)
        BY <1>8
      <4> QED
        BY <4>1 DEF ToSet
    <3>6. \A v \in Workers \ {w} : wk[v].pc = "add_host" => wk[v].host \in Hosts
      BY DEF TypeInv, RecordsOK, WkRecordOK
    <3>7. t.pc = "add_host" => /\ t.host \in Hosts /\ hostOf[t.host] = "unused"
                               /\ hostOf'[t.host] # "unused"
      BY <1>8, <1>11, <3>3 DEF AddedMachine
    <3> QED
      BY <1>2, <3>1, <3>4, <3>5, <3>6, <3>7 DEF AttachedOnce
  <2>2. CASE AddHost(w)
    <3>1. /\ UNCHANGED hostOf /\ wk[w].pc = "add_host"
          /\ attached' = [attached EXCEPT ![wk[w].lb] = Append(@, wk[w].host)]
      BY <2>2 DEF AddHost, In
    <3>2. wk[w].lb \in LBs /\ wk[w].host \in Hosts
      BY <3>1 DEF TypeInv, RecordsOK, WkRecordOK
    <3>3. t.pc # "add_host"
      BY <1>11, <3>1 DEF AddedMachine
    <3>4. PICK a : a = Append(attached[wk[w].lb], wk[w].host)
      OBVIOUS
    <3>5. /\ ToSet(a) = ToSet(attached[wk[w].lb]) \cup {wk[w].host}
          /\ IsInjective(a)
      <4>1. attached[wk[w].lb] \in Seq(Hosts)
        BY <1>8, <3>2
      <4>2. IsInjective(attached[wk[w].lb]) /\ wk[w].host \notin ToSet(attached[wk[w].lb])
        BY <3>1, <3>2 DEF AttachedOnce
      <4> QED
        BY <3>2, <3>4, <4>1, <4>2, ToSetAppend
    <3>6. attached' = [attached EXCEPT ![wk[w].lb] = a]
      BY <3>1, <3>4
    <3>7. \A l \in LBs : attached'[l] = IF l = wk[w].lb THEN a ELSE attached[l]
      BY <1>8, <3>2, <3>6
    <3> QED
      BY <1>2, <3>1, <3>2, <3>3, <3>5, <3>7 DEF AttachedOnce
  <2>3. CASE RemoveHost(w)
    <3>1. /\ UNCHANGED hostOf /\ wk[w].pc = "remove_host"
          /\ attached' = [attached EXCEPT ![wk[w].lb] = Pull(@, wk[w].host)]
      BY <2>3 DEF RemoveHost, In
    <3>2. wk[w].lb \in LBs
      BY <3>1 DEF TypeInv, RecordsOK, WkRecordOK
    <3>3. t.pc # "add_host"
      BY <1>11, <3>1 DEF AddedMachine
    <3>4. PICK a : a = Pull(attached[wk[w].lb], wk[w].host)
      OBVIOUS
    <3>5. ToSet(a) \subseteq ToSet(attached[wk[w].lb]) /\ IsInjective(a)
      <4>1. attached[wk[w].lb] \in Seq(Hosts) /\ IsInjective(attached[wk[w].lb])
        BY <1>8, <3>2 DEF AttachedOnce
      <4> QED
        BY <3>4, <4>1, PullProperties
    <3>6. attached' = [attached EXCEPT ![wk[w].lb] = a]
      BY <3>1, <3>4
    <3>7. \A l \in LBs : attached'[l] = IF l = wk[w].lb THEN a ELSE attached[l]
      BY <1>8, <3>2, <3>6
    <3> QED
      BY <1>2, <3>1, <3>2, <3>3, <3>5, <3>7 DEF AttachedOnce
  <2>4. CASE DestroyLB(w)
    <3>1. /\ UNCHANGED hostOf /\ wk[w].pc \in {"destroy_lb", "rollback_lb"}
          /\ attached' = [attached EXCEPT ![wk[w].lb] = <<>>]
      BY <2>4 DEF DestroyLB, In
    <3>3. t.pc # "add_host"
      BY <1>11, <3>1 DEF AddedMachine
    <3>4. \A l \in LBs : attached'[l] \in {attached[l], <<>>}
      BY <1>8, <3>1
    <3>5. IsInjective(<<>>) /\ ToSet(<<>>) = {}
      BY DEF IsInjective, ToSet
    <3> QED
      BY <1>2, <3>1, <3>3, <3>4, <3>5 DEF AttachedOnce
  <2>5. CASE DestroyHost(w)
    <3>1. /\ UNCHANGED attached /\ wk[w].pc = "destroy_host"
          /\ hostOf' = [hostOf EXCEPT ![wk[w].host] = "destroyed"]
      BY <2>5 DEF DestroyHost, In
    <3>3. t.pc # "add_host"
      BY <1>11, <3>1 DEF AddedMachine
    <3>4. \A g \in Hosts : hostOf'[g] = "unused" => hostOf[g] = "unused"
      BY <1>8, <3>1
    <3>5. \A l \in LBs : ToSet(attached[l]) \subseteq Hosts
      <4>1. \A l \in LBs : attached[l] \in Seq(Hosts)
        BY <1>8
      <4> QED
        BY <4>1 DEF ToSet
    <3>6. \A v \in Workers \ {w} : wk[v].pc = "add_host" => wk[v].host \in Hosts
      BY DEF TypeInv, RecordsOK, WkRecordOK
    <3> QED
      BY <1>2, <3>1, <3>3, <3>4, <3>5, <3>6 DEF AttachedOnce
  <2>6. CASE UNCHANGED <<attached, hostOf>> /\ ~CreateHost(w)
    <3>1. t.pc # "add_host"
      <4>1. CASE t.pc = "add_host"
        <5>1. AddedMachine(t, wk[w])
          BY <1>11, <4>1
        <5>2. hostOf[t.host] = "unused" /\ hostOf'[t.host] = wk[w].name /\ wk[w].name \in Names
          BY <1>8, <5>1 DEF AddedMachine, TypeInv, RecordsOK, WkRecordOK
        <5> QED
          BY <2>6, <5>2, ConstantsAssumption
      <4> QED
        BY <4>1
    <3> QED
      BY <1>2, <2>6, <3>1 DEF AttachedOnce
  <2> QED
    BY <2>1, <2>2, <2>3, <2>4, <2>5, <2>6, CloudSteps DEF CloudStep, CreateLB
<1> QED
  BY <1>5, <1>10, <1>12 DEF FleetInv

LEMMA TakeKeepsFleet ==
    ASSUME TypeInv, FleetInv, NEW w \in Workers, TakeTask(w)
    PROVE  FleetInv'
<1>1. PICK t : wk' = [wk EXCEPT ![w] = t] /\ TakenTask(t, queue[1]) /\ TaskOnPath(t)
  BY TakeTaskTakes
<1>2. wk'[w] = t /\ \A v \in Workers \ {w} : wk'[v] = wk[v]
  BY <1>1 DEF TypeInv, TypeOK
<1>3. UNCHANGED <<lbOf, attached, hostOf>>
  BY TakeTaskTakes DEF cloudVars
<1>4. t.lb = Nothing /\ t.pc # "add_host" /\ Nothing \notin LBs
  BY <1>1, ConstantsAssumption DEF TakenTask
<1> QED
  BY <1>1, <1>2, <1>3, <1>4 DEF FleetInv, TasksOnPath, Owned, AttachedOnce

LEMMA StepFleet == TypeInv /\ FleetInv /\ [Next]_vars => FleetInv'
<1> SUFFICES ASSUME TypeInv, FleetInv, [Next]_vars PROVE FleetInv'
  OBVIOUS
<1>1. ASSUME UNCHANGED <<wk, lbOf, attached, hostOf>> PROVE FleetInv'
  BY <1>1 DEF FleetInv, TasksOnPath, Owned, AttachedOnce
<1>2. CASE UNCHANGED vars
  BY <1>1, <1>2 DEF vars, cloudVars
<1>3. ASSUME NEW t \in Teams, NEW q \in QuotaValues, SetTeamQuota(t, q)
      PROVE  FleetInv'
  BY <1>1, <1>3 DEF SetTeamQuota, cloudVars
<1>4. ASSUME NEW r \in Requests, RequestStep(r) \/ RequestRaises(r)
      PROVE  FleetInv'
  BY <1>1, <1>4 DEF RequestStep, RequestRaises, IncrementQuota, FindLB, CreateTask,
     WriteHealthcheck, FindMetadata, StoreMetadata, DecrementQuota, RemoveTask,
     RemoveMetadata, Delay, UpdateTask, cloudVars
<1>5. ASSUME NEW w \in Workers, WorkerStep(w) \/ CallFails(w) \/ Crash(w)
      PROVE  FleetInv'
  BY <1>5, WorkerKeepsFleet, TakeKeepsFleet
<1>6. ASSUME NEW r \in Requests, NEW n \in Names,
             \/ \E t \in Teams : NewInstance(r, n, t)
             \/ RemoveInstance(r, n)
             \/ \E q \in Quantities : ScaleInstance(r, n, q)
             \/ UpdateInstance(r, n)
      PROVE  FleetInv'
  BY <1>1, <1>6 DEF NewInstance, RemoveInstance, ScaleInstance, UpdateInstance, Begin,
     cloudVars
<1> QED
  BY <1>2, <1>3, <1>4, <1>5, <1>6 DEF Next

(* A step of a task leaves the load balancers of other instances alone.    *)
LEMMA OtherLBs ==
    ASSUME TypeInv, FleetInv, NEW w \in Workers,
           WorkerStep(w) \/ CallFails(w) \/ Crash(w),
           NEW n \in Names, wk[w].pc # "idle" => n # wk[w].name, NEW l \in LBs
    PROVE  /\ lbOf'[l] = n <=> lbOf[l] = n
           /\ lbOf[l] = n => attached'[l] = attached[l]
<1>1. lbOf \in [LBs -> Names \cup {"unused", "destroyed"}] /\ n \notin {"unused", "destroyed"}
      /\ attached \in [LBs -> Seq(Hosts)]
  BY ConstantsAssumption DEF TypeInv, TypeOK
<1>2. ASSUME wk[w].pc \in {"add_host", "remove_host", "destroy_lb", "rollback_lb"},
             lbOf[wk[w].lb] # "destroyed"
      PROVE  wk[w].lb \in LBs /\ lbOf[wk[w].lb] = wk[w].name /\ n # wk[w].name
  <2>1. wk[w].lb \in LBs
    BY <1>2 DEF TypeInv, RecordsOK, WkRecordOK
  <2> QED
    BY <1>2, <2>1 DEF FleetInv, Owned
<1>3. CASE CreateLB(w)
  BY <1>1, <1>3 DEF CreateLB, LBsOf, In
<1>4. CASE AddHost(w)
  BY <1>1, <1>2, <1>4 DEF AddHost, In
<1>5. CASE RemoveHost(w)
  BY <1>1, <1>2, <1>5 DEF RemoveHost, In
<1>6. CASE DestroyLB(w)
  BY <1>1, <1>2, <1>6 DEF DestroyLB, In
<1>7. CASE UNCHANGED <<lbOf, attached>>
  BY <1>7
<1> QED
  BY <1>3, <1>4, <1>5, <1>6, <1>7, CloudSteps DEF CloudStep, CreateHost, DestroyHost

-----------------------------------------------------------------------------
(***************************************************************************)
(* What a scale task that met no error still has to do: the hosts behind   *)
(* the LB and those still to add, or to delete, make the quantity.         *)
(***************************************************************************)

ScaleOn(t, a, owner) ==
    /\ t.lb \in LBs /\ owner = t.name
    /\ t.pc \in {"create_host", "add_host"} => t.adds >= 1 /\ Len(a) + t.adds = t.qty
    /\ t.pc \in {"wait_healthcheck", "add_url", "add_finally"} =>
          t.adds >= 1 /\ Len(a) + t.adds = t.qty + 1
    /\ t.pc \in DeletePcs \cup {"delete_finally"} =>
          IsInjective(t.todo) /\ ToSet(t.todo) \subseteq ToSet(a)
    /\ t.pc \in {"destroy_host", "remove_host"} =>
          /\ Len(a) = t.qty + Len(t.todo) + 1
          /\ t.host \in ToSet(a) \ ToSet(t.todo)
    /\ t.pc \in {"remove_url", "delete_finally"} => Len(a) = t.qty + Len(t.todo)
    /\ t.pc = "scale_finally" => Len(a) = t.qty

ScaleInv ==
    \A w \in Workers :
        wk[w].kind = "scale" /\ ~wk[w].error /\ wk[w].pc # "find_lb" =>
            ScaleOn(wk[w], attached[wk[w].lb], lbOf[wk[w].lb])

LEMMA InjectiveTail ==
    ASSUME NEW S, NEW s \in Seq(S), s # <<>>, IsInjective(s)
    PROVE  /\ Tail(s) \in Seq(S) /\ IsInjective(Tail(s)) /\ Len(Tail(s)) = Len(s) - 1
           /\ ToSet(Tail(s)) = ToSet(s) \ {Head(s)} /\ Head(s) \in ToSet(s)
<1>0. Len(s) \in Nat /\ DOMAIN s = 1..Len(s) /\ Len(s) >= 1
  OBVIOUS
<1>1. PICK t : t = Tail(s)
  OBVIOUS
<1>2. /\ t \in Seq(S) /\ Len(t) = Len(s) - 1 /\ DOMAIN t = 1..(Len(s) - 1)
      /\ \A i \in 1..(Len(s) - 1) : t[i] = s[i + 1]
      /\ Head(s) = s[1]
  BY <1>0, <1>1
<1>3. \A i, j \in 1..Len(s) : s[i] = s[j] => i = j
  BY <1>0 DEF IsInjective
<1>4. IsInjective(t)
  BY <1>0, <1>2, <1>3 DEF IsInjective
<1>5. \A i \in 1..Len(s) : i = 1 \/ (i - 1 \in 1..(Len(s) - 1) /\ (i - 1) + 1 = i)
  BY <1>0
<1>6. \A i \in 1..(Len(s) - 1) : i + 1 \in 1..Len(s) /\ i + 1 # 1
  BY <1>0
<1>7. ToSet(t) \subseteq ToSet(s) \ {s[1]}
  BY <1>0, <1>2, <1>3, <1>6 DEF ToSet
<1>8. ToSet(s) \ {s[1]} \subseteq ToSet(t)
  <2>1. ASSUME NEW i \in 1..Len(s), s[i] # s[1]
        PROVE  s[i] \in ToSet(t)
    <3>1. i - 1 \in 1..(Len(s) - 1) /\ t[i - 1] = s[i]
      BY <1>2, <1>5, <2>1
    <3> QED
      BY <1>2, <3>1 DEF ToSet
  <2> QED
    BY <1>0, <2>1 DEF ToSet
<1>9. s[1] \in ToSet(s)
  BY <1>0 DEF ToSet
<1> QED
  BY <1>1, <1>2, <1>4, <1>7, <1>8, <1>9

LEMMA InjectivePrefix ==
    ASSUME NEW S, NEW s \in Seq(S), IsInjective(s), NEW k \in 0..Len(s)
    PROVE  /\ SubSeq(s, 1, k) \in Seq(S) /\ Len(SubSeq(s, 1, k)) = k
           /\ IsInjective(SubSeq(s, 1, k)) /\ ToSet(SubSeq(s, 1, k)) \subseteq ToSet(s)
<1>0. Len(s) \in Nat /\ DOMAIN s = 1..Len(s) /\ k \in Int
  OBVIOUS
<1>1. PICK t : t = SubSeq(s, 1, k)
  OBVIOUS
<1>2. /\ t \in Seq(S) /\ Len(t) = k /\ \A i \in 1..k : t[i] = s[i]
  <2>1. \A i \in 1..k : s[i] \in S
    BY <1>0
  <2>2. /\ SubSeq(s, 1, k) \in Seq(S)
        /\ Len(SubSeq(s, 1, k)) = IF 1 <= k THEN k - 1 + 1 ELSE 0
        /\ \A i \in 1..(k - 1 + 1) : SubSeq(s, 1, k)[i] = s[1 + i - 1]
    BY <1>0, <2>1, SubSeqProperties
  <2> QED
    BY <1>0, <1>1, <2>2
<1>3. DOMAIN t = 1..k /\ \A i \in 1..k : i \in 1..Len(s)
  BY <1>0, <1>2
<1> QED
  BY <1>0, <1>1, <1>2, <1>3 DEF IsInjective, ToSet

LEMMA NextDeleteScale ==
    ASSUME NEW t \in WkType, NEW a \in Seq(Hosts), NEW owner,
           t.lb \in LBs, owner = t.name,
           IsInjective(t.todo), ToSet(t.todo) \subseteq ToSet(a),
           Len(a) = t.qty + Len(t.todo)
    PROVE  ScaleOn(NextDelete(t, "scale_finally"), a, owner)
<1>0. t.todo \in Seq(Hosts) /\ t.qty \in Nat /\ Len(a) \in Nat /\ Len(t.todo) \in Nat
  BY DEF WkType
<1>1. CASE t.todo = <<>>
  <2>1. PICK s : s = [t EXCEPT !.pc = "scale_finally", !.host = Nothing]
    OBVIOUS
  <2>2. s.pc = "scale_finally" /\ s.name = t.name /\ s.qty = t.qty /\ s.lb = t.lb
    BY <2>1 DEF WkType
  <2>3. NextDelete(t, "scale_finally") = s
    BY <1>1, <2>1 DEF NextDelete
  <2>4. Len(a) = t.qty
    BY <1>0, <1>1
  <2> QED
    BY <2>2, <2>3, <2>4 DEF ScaleOn, DeletePcs
<1>2. CASE t.todo # <<>>
  <2>1. PICK s : s = [t EXCEPT !.pc = "destroy_host", !.host = Head(t.todo),
                               !.todo = Tail(t.todo)]
    OBVIOUS
  <2>2. /\ s.pc = "destroy_host" /\ s.name = t.name /\ s.qty = t.qty
        /\ s.lb = t.lb /\ s.host = Head(t.todo) /\ s.todo = Tail(t.todo)
    BY <2>1 DEF WkType
  <2>3. NextDelete(t, "scale_finally") = s
    BY <1>2, <2>1 DEF NextDelete
  <2>4. /\ s.todo \in Seq(Hosts) /\ IsInjective(s.todo) /\ Len(s.todo) = Len(t.todo) - 1
        /\ ToSet(s.todo) = ToSet(t.todo) \ {s.host} /\ s.host \in ToSet(t.todo)
    BY <1>0, <1>2, <2>2, InjectiveTail
  <2>5. Len(a) = t.qty + Len(s.todo) + 1
    BY <1>0, <2>4
  <2> QED
    BY <2>2, <2>3, <2>4, <2>5 DEF ScaleOn
<1> QED
  BY <1>1, <1>2

(* A failing or raising scale task is marked.                              *)
LEMMA FailureMarks ==
    ASSUME TypeInv, TasksOnPath, NEW w \in Workers,
           TaskRaises(w) \/ CallFails(w) \/ Crash(w)
    PROVE  \E t : wk' = [wk EXCEPT ![w] = t] /\ (t = IdleWk \/ t.error)
<1>0. wk[w] \in WkType /\ TaskOnPath(wk[w])
  BY DEF TypeInv, TypeOK, TasksOnPath
<1>1. CASE TaskRaises(w) \/ CallFails(w)
  <2>1. wk[w].pc \notin FinallyPcs \cup {"idle"}
    BY <1>1 DEF TaskRaises, CallFails, MustRaise, FinallyPcs
  <2>2. Handler(wk[w]) = IdleWk \/ Handler(wk[w]).error
    BY <1>0, <2>1, HandlerGoesOn
  <2>3. wk' = [wk EXCEPT ![w] = Handler(wk[w])]
    BY <1>1 DEF TaskRaises, CallFails, Set
  <2> QED
    BY <2>2, <2>3
<1>2. CASE Crash(w)
  BY <1>2 DEF Crash, Set
<1> QED
  BY <1>1, <1>2

LEMMA AddsMissing ==
    ASSUME NEW n \in Nat, NEW q \in Nat, NEW extra \in Int, n - extra = q, extra < 0
    PROVE  -extra \in Nat /\ -extra >= 1 /\ n + (-extra) = q
OBVIOUS

LEMMA OneAdded ==
    ASSUME NEW n \in Nat, NEW q \in Nat, NEW a \in Nat, n + a = q + 1, a > 1
    PROVE  a - 1 \in Nat /\ a - 1 >= 1 /\ n + (a - 1) = q
OBVIOUS

LEMMA TaskKeepsScale ==
    ASSUME TypeInv, FleetInv, ScaleInv, NEW w \in Workers,
           WorkerStep(w) \/ CallFails(w) \/ Crash(w), ~TakeTask(w),
           wk'[w].kind = "scale", ~wk'[w].error, wk'[w].pc # "find_lb"
    PROVE  ScaleOn(wk'[w], attached'[wk'[w].lb], lbOf'[wk'[w].lb])
<1> USE DEF cloudVars
<1>0. wk[w] \in WkType /\ WkRecordOK(wk[w]) /\ TaskOnPath(wk[w])
      /\ wk \in [Workers -> WkType] /\ attached \in [LBs -> Seq(Hosts)]
  BY DEF TypeInv, TypeOK, RecordsOK, FleetInv, TasksOnPath
<1>i. IdleWk.kind = "none"
  BY DEF IdleWk
<1>1. PICK t : wk' = [wk EXCEPT ![w] = t] /\ TaskGoesOn(t, wk[w])
  BY WorkerGoesOn DEF FleetInv
<1>2. wk'[w] = t
  BY <1>0, <1>1
<1>3. /\ t.kind = wk[w].kind /\ t.name = wk[w].name /\ t.qty = wk[w].qty
      /\ wk[w].error => t.error
      /\ TaskOnPath(t)
  <2>1. t # IdleWk
    BY <1>2, <1>i
  <2>2. GoesOn(t, wk[w]) \/ FoundLB(t, wk[w]) \/ AddedMachine(t, wk[w])
    BY <1>1, <2>1 DEF TaskGoesOn
  <2>3. CASE GoesOn(t, wk[w])
    <3>1. SameTask(t, wk[w]) /\ TaskOnPath(t)
      BY <2>3 DEF GoesOn
    <3>2. wk[w].error => t.error
      BY <2>3 DEF GoesOn, SameTask
    <3> QED
      BY <3>1, <3>2 DEF SameTask
  <2>4. CASE FoundLB(t, wk[w])
    BY <2>4 DEF FoundLB, SameTask
  <2>5. CASE AddedMachine(t, wk[w])
    BY <2>5 DEF AddedMachine
  <2> QED
    BY <2>2, <2>3, <2>4, <2>5
<1>4. wk[w].kind = "scale" /\ ~wk[w].error /\ ~wk[w].rolling /\ ~wk[w].fresh
      /\ wk[w].pc \notin TailPcs \cup {"create_lb", "create_hc", "rollback_lb"} \cup RollbackPcs
  BY <1>0, <1>2, <1>3 DEF TaskOnPath
<1>5. ASSUME NEW pc, Enter(w, pc)
      PROVE  Only(t, wk[w], pc)
  <2>1. PICK u : wk' = [wk EXCEPT ![w] = u] /\ Only(u, wk[w], pc)
    BY <1>5, EnterOnly
  <2> QED
    BY <1>0, <1>2, <2>1
<1>6. wk[w].pc # "find_lb" => ScaleOn(wk[w], attached[wk[w].lb], lbOf[wk[w].lb])
  BY <1>4 DEF ScaleInv
<1>7. ASSUME NEW s, Set(w, s)
      PROVE  t = s
  BY <1>0, <1>2, <1>7 DEF Set
<1>9. wk[w].lb \in LBs =>
        attached[wk[w].lb] \in Seq(Hosts) /\ Len(attached[wk[w].lb]) \in Nat
  BY <1>0
<1>10. wk[w].qty \in Nat /\ wk[w].adds \in Nat /\ wk[w].todo \in Seq(Hosts)
       /\ Len(wk[w].todo) \in Nat
  BY <1>0 DEF WkType
<1>11. CASE TaskFindLB(w)
  <2> PICK l \in LBsOf(wk[w].name) :
          LET hosts == attached[l]
              found == [wk[w] EXCEPT !.lb = l, !.empty = (hosts = <<>>)]
              extra == Len(hosts) - wk[w].qty
          IN  CASE found.kind = "remove" ->
                     Set(w, NextDelete([found EXCEPT !.todo = hosts], "destroy_instance"))
                [] found.kind = "scale" /\ extra < 0 ->
                     Set(w, [found EXCEPT !.pc = "create_host", !.adds = -extra])
                [] OTHER ->
                     Set(w, NextDelete([found EXCEPT !.todo = SubSeq(hosts, 1, extra)],
                                       "scale_finally"))
    BY <1>11 DEF TaskFindLB
  <2> DEFINE hosts == attached[l]
             found == [wk[w] EXCEPT !.lb = l, !.empty = (hosts = <<>>)]
             extra == Len(hosts) - wk[w].qty
  <2>1. /\ l \in LBs /\ lbOf[l] = wk[w].name /\ hosts \in Seq(Hosts)
        /\ UNCHANGED <<lbOf, attached>>
    BY <1>0, <1>11 DEF LBsOf, TaskFindLB
  <2>2. /\ found \in WkType /\ found.name = wk[w].name /\ found.kind = "scale"
        /\ found.qty = wk[w].qty /\ found.lb = l
    BY <1>0, <1>4, <2>1 DEF WkType
  <2>3. extra \in Int /\ extra <= Len(hosts) /\ Len(hosts) \in Nat
        /\ Len(hosts) - extra = wk[w].qty /\ extra + wk[w].qty = Len(hosts)
    BY <1>10, <2>1
  <2>4. IsInjective(hosts)
    BY <2>1 DEF FleetInv, AttachedOnce
  <2>5. CASE extra < 0
    <3>1. t = [found EXCEPT !.pc = "create_host", !.adds = -extra]
      BY <1>7, <2>2, <2>5
    <3> HIDE DEF found, extra
    <3>2. PICK k : k = -extra
      OBVIOUS
    <3>3. t.pc = "create_host" /\ t.adds = k /\ t.lb = l
      <4>1. t = [found EXCEPT !.pc = "create_host", !.adds = k]
        BY <3>1, <3>2
      <4> QED
        BY <2>2, <4>1 DEF WkType
    <3>4. k >= 1 /\ Len(hosts) + k = wk[w].qty
      BY <1>10, <2>3, <2>5, <3>2, AddsMissing
    <3>5. t.adds >= 1 /\ Len(attached'[t.lb]) + t.adds = t.qty
      BY <1>3, <2>1, <3>3, <3>4
    <3> QED
      BY <1>2, <1>3, <2>1, <3>3, <3>5 DEF ScaleOn, DeletePcs
  <2>6. CASE ~(extra < 0)
    <3>1. t = NextDelete([found EXCEPT !.todo = SubSeq(hosts, 1, extra)], "scale_finally")
      BY <1>7, <2>2, <2>6
    <3> HIDE DEF found, extra, hosts
    <3>2. extra \in 0..Len(hosts)
      BY <2>3, <2>6
    <3>3. PICK todo : todo = SubSeq(hosts, 1, extra)
      OBVIOUS
    <3>4. /\ todo \in Seq(Hosts) /\ Len(todo) = extra
          /\ IsInjective(todo) /\ ToSet(todo) \subseteq ToSet(hosts)
      BY <2>1, <2>4, <3>2, <3>3, InjectivePrefix
    <3>5. PICK u : u = [found EXCEPT !.todo = todo]
      OBVIOUS
    <3>6. u \in WkType /\ u.name = wk[w].name /\ u.qty = wk[w].qty /\ u.lb = l
          /\ u.todo = todo
      BY <2>2, <3>4, <3>5 DEF WkType
    <3>7. ScaleOn(NextDelete(u, "scale_finally"), hosts, lbOf[l])
      <4>1. Len(hosts) = u.qty + Len(u.todo)
        BY <1>10, <2>3, <3>4, <3>6
      <4> QED
        BY <2>1, <3>4, <3>6, <4>1, NextDeleteScale
    <3>8. t = NextDelete(u, "scale_finally")
      BY <3>1, <3>3, <3>5
    <3>9. t.lb = l
      BY <3>6, <3>8 DEF NextDelete, WkType
    <3> QED
      BY <1>2, <2>1, <3>7, <3>8, <3>9 DEF hosts
  <2> QED
    BY <2>5, <2>6
<1>12. CASE CreateHost(w)
  <2>1. PICK h \in Hosts : Set(w, [wk[w] EXCEPT !.pc = "add_host", !.host = h])
    BY <1>12 DEF CreateHost
  <2>2. t = [wk[w] EXCEPT !.pc = "add_host", !.host = h]
    BY <1>7, <2>1
  <2>3. t.pc = "add_host" /\ t.lb = wk[w].lb /\ t.adds = wk[w].adds
    BY <1>0, <2>2 DEF WkType
  <2>4. wk[w].pc = "create_host" /\ UNCHANGED <<lbOf, attached>>
    BY <1>12 DEF CreateHost, In
  <2> QED
    BY <1>2, <1>3, <1>6, <2>3, <2>4 DEF ScaleOn, DeletePcs
<1>13. CASE AddHost(w)
  <2>1. Only(t, wk[w], "wait_healthcheck")
    BY <1>5, <1>13 DEF AddHost
  <2>2. wk[w].pc = "add_host" /\ UNCHANGED lbOf /\ wk[w].host \in Hosts
        /\ attached' = [attached EXCEPT ![wk[w].lb] = Append(@, wk[w].host)]
    BY <1>0, <1>13 DEF AddHost, In, WkRecordOK
  <2>3. ScaleOn(wk[w], attached[wk[w].lb], lbOf[wk[w].lb]) /\ wk[w].lb \in LBs
    BY <1>6, <2>2 DEF ScaleOn
  <2>4. Len(Append(attached[wk[w].lb], wk[w].host)) = Len(attached[wk[w].lb]) + 1
    BY <1>9, <2>2, <2>3
  <2>5. Len(attached'[t.lb]) = Len(attached[wk[w].lb]) + 1
    BY <1>0, <2>1, <2>2, <2>3, <2>4 DEF Only
  <2>6. wk[w].adds >= 1 /\ Len(attached[wk[w].lb]) + wk[w].adds = wk[w].qty
    BY <2>2, <2>3 DEF ScaleOn
  <2>7. t.adds >= 1 /\ Len(attached'[t.lb]) + t.adds = t.qty + 1
    <3>1. PICK n : n = Len(attached[wk[w].lb])
      OBVIOUS
    <3>2. n \in Nat
      BY <1>9, <2>3, <3>1
    <3>3. Len(attached'[t.lb]) = n + 1 /\ n + wk[w].adds = wk[w].qty /\ wk[w].adds >= 1
      BY <2>5, <2>6, <3>1
    <3>4. t.adds = wk[w].adds /\ t.qty = wk[w].qty
      BY <2>1 DEF Only
    <3> QED
      BY SMTT(30), <1>10, <3>2, <3>3, <3>4
  <2>8. t.lb \in LBs /\ lbOf'[t.lb] = t.name /\ t.pc = "wait_healthcheck"
    BY <2>1, <2>2, <2>3 DEF Only, ScaleOn
  <2> QED
    BY <1>2, <2>7, <2>8 DEF ScaleOn, DeletePcs
<1>14. CASE WaitHealthcheck(w)
  BY <1>2, <1>5, <1>6, <1>14 DEF WaitHealthcheck, In, ScaleOn, DeletePcs, Only
<1>15. CASE AddURL(w)
  BY <1>2, <1>5, <1>6, <1>15 DEF AddURL, In, ScaleOn, DeletePcs, Only
<1>16. CASE AddFinally(w)
  <2>1. wk[w].pc = "add_finally" /\ UNCHANGED <<lbOf, attached>>
    BY <1>16 DEF AddFinally, In
  <2>2. CASE MoreHosts(wk[w])
    <3>1. t = [wk[w] EXCEPT !.pc = "create_host", !.adds = @ - 1, !.host = Nothing]
      BY <1>4, <1>7, <1>16, <2>2 DEF AddFinally
    <3>2. t.pc = "create_host" /\ t.adds = wk[w].adds - 1 /\ t.lb = wk[w].lb
      BY <1>0, <3>1 DEF WkType
    <3>3. wk[w].adds > 1
      BY <2>2 DEF MoreHosts
    <3>4. /\ wk[w].lb \in LBs /\ lbOf[wk[w].lb] = wk[w].name
          /\ Len(attached[wk[w].lb]) + wk[w].adds = wk[w].qty + 1
      BY <1>6, <2>1 DEF ScaleOn
    <3>5. PICK a, n, q : a = wk[w].adds /\ n = Len(attached[wk[w].lb]) /\ q = wk[w].qty
      OBVIOUS
    <3>6. a - 1 >= 1 /\ n + (a - 1) = q
      <4>1. a \in Nat /\ n \in Nat /\ q \in Nat /\ n + a = q + 1 /\ a > 1
        BY <1>9, <1>10, <3>3, <3>4, <3>5
      <4> QED
        BY <4>1, OneAdded
    <3>7. t.adds >= 1 /\ Len(attached'[t.lb]) + t.adds = t.qty
      BY <1>3, <2>1, <3>2, <3>5, <3>6
    <3> QED
      BY <1>2, <1>3, <2>1, <3>2, <3>4, <3>7 DEF ScaleOn, DeletePcs
  <2>3. CASE ~MoreHosts(wk[w])
    <3>1. t = [wk[w] EXCEPT !.pc = "scale_finally"]
      BY <1>4, <1>7, <1>16, <2>3 DEF AddFinally
    <3>2. t.pc = "scale_finally" /\ t.lb = wk[w].lb
      BY <1>0, <3>1 DEF WkType
    <3>3. ~(wk[w].adds > 1)
      BY <1>4, <2>3 DEF MoreHosts
    <3>4. /\ wk[w].lb \in LBs /\ lbOf[wk[w].lb] = wk[w].name /\ wk[w].adds >= 1
          /\ Len(attached[wk[w].lb]) + wk[w].adds = wk[w].qty + 1
      BY <1>6, <2>1 DEF ScaleOn
    <3>5. wk[w].adds = 1
      BY <1>10, <3>3, <3>4
    <3>6. Len(attached[wk[w].lb]) = wk[w].qty
      BY <1>9, <1>10, <3>4, <3>5
    <3>7. Len(attached'[t.lb]) = t.qty
      BY <1>3, <2>1, <3>2, <3>6
    <3> QED
      BY <1>2, <1>3, <2>1, <3>2, <3>4, <3>7 DEF ScaleOn, DeletePcs
  <2> QED
    BY <2>2, <2>3
<1>17. CASE DestroyHost(w)
  <2>1. Only(t, wk[w], "remove_host")
    BY <1>4, <1>5, <1>17 DEF DestroyHost
  <2>2. wk[w].pc = "destroy_host" /\ UNCHANGED <<lbOf, attached>>
    BY <1>17 DEF DestroyHost, In
  <2> QED
    BY <1>2, <1>6, <2>1, <2>2 DEF ScaleOn, DeletePcs, Only
<1>18. CASE RemoveHost(w)
  <2>1. Only(t, wk[w], "remove_url")
    BY <1>5, <1>18 DEF RemoveHost
  <2>2. wk[w].pc = "remove_host" /\ UNCHANGED lbOf
        /\ attached' = [attached EXCEPT ![wk[w].lb] = Pull(@, wk[w].host)]
    BY <1>18 DEF RemoveHost, In
  <2>3. ScaleOn(wk[w], attached[wk[w].lb], lbOf[wk[w].lb]) /\ wk[w].lb \in LBs
    BY <1>6, <2>2 DEF ScaleOn
  <2>4. wk[w].host \in ToSet(attached[wk[w].lb]) \ ToSet(wk[w].todo)
        /\ ToSet(wk[w].todo) \subseteq ToSet(attached[wk[w].lb])
        /\ Len(attached[wk[w].lb]) = wk[w].qty + Len(wk[w].todo) + 1
        /\ IsInjective(wk[w].todo)
    BY <2>2, <2>3 DEF ScaleOn, DeletePcs
  <2>5. IsInjective(attached[wk[w].lb])
    BY <2>3 DEF FleetInv, AttachedOnce
  <2>6. attached'[t.lb] = Pull(attached[wk[w].lb], wk[w].host)
    BY <1>0, <2>1, <2>2, <2>3 DEF Only
  <2>7. Len(attached'[t.lb]) = Len(attached[wk[w].lb]) - 1
    BY <1>9, <2>3, <2>4, <2>6, PullLength
  <2>8. ToSet(attached'[t.lb]) = ToSet(attached[wk[w].lb]) \ {wk[w].host}
    BY <1>9, <2>3, <2>5, <2>6, PullProperties
  <2>9. /\ Len(attached'[t.lb]) = t.qty + Len(t.todo)
        /\ ToSet(t.todo) \subseteq ToSet(attached'[t.lb]) /\ IsInjective(t.todo)
    BY <1>9, <1>10, <2>1, <2>3, <2>4, <2>7, <2>8 DEF Only
  <2> QED
    BY <1>2, <2>1, <2>2, <2>3, <2>9 DEF ScaleOn, DeletePcs, Only
<1>19. CASE RemoveURL(w)
  <2>1. Only(t, wk[w], "delete_finally")
    BY <1>5, <1>19 DEF RemoveURL
  <2>2. wk[w].pc = "remove_url" /\ UNCHANGED <<lbOf, attached>>
    BY <1>19 DEF RemoveURL, In
  <2> QED
    BY <1>2, <1>6, <2>1, <2>2 DEF ScaleOn, DeletePcs, Only
<1>20. CASE DeleteFinally(w)
  <2>1. wk[w].pc = "delete_finally" /\ UNCHANGED <<lbOf, attached>>
    BY <1>20 DEF DeleteFinally, In
  <2>2. t = NextDelete(wk[w], "scale_finally")
    BY <1>4, <1>7, <1>20 DEF DeleteFinally
  <2>3. /\ wk[w].lb \in LBs /\ lbOf[wk[w].lb] = wk[w].name
        /\ IsInjective(wk[w].todo) /\ ToSet(wk[w].todo) \subseteq ToSet(attached[wk[w].lb])
        /\ Len(attached[wk[w].lb]) = wk[w].qty + Len(wk[w].todo)
    BY <1>6, <2>1 DEF ScaleOn
  <2>4. ScaleOn(t, attached[wk[w].lb], lbOf[wk[w].lb])
    BY <1>0, <1>9, <2>2, <2>3, NextDeleteScale
  <2>5. t.lb = wk[w].lb
    BY <1>1, <1>2, <1>i, <2>1 DEF TaskGoesOn, GoesOn, FoundLB, AddedMachine
  <2> QED
    BY <1>2, <2>1, <2>4, <2>5
<1>21. CASE ScaleFinally(w)
  BY <1>2, <1>7, <1>i, <1>21 DEF ScaleFinally
<1>22. CASE TaskRaises(w) \/ CallFails(w) \/ Crash(w)
  <2>1. PICK u : wk' = [wk EXCEPT ![w] = u] /\ (u = IdleWk \/ u.error)
    BY <1>22, FailureMarks DEF FleetInv
  <2> QED
    BY <1>0, <1>i, <2>1
<1>23. CASE CreateLB(w) \/ CreateHC(w) \/ DestroyInstance(w) \/ DestroyLB(w) \/ DestroyHC(w)
  BY <1>4, <1>23 DEF CreateLB, CreateHC, DestroyInstance, DestroyLB, DestroyHC, In, TailPcs,
     RollbackPcs
<1> QED
  BY <1>11, <1>12, <1>13, <1>14, <1>15, <1>16, <1>17, <1>18, <1>19, <1>20, <1>21, <1>22,
     <1>23 DEF WorkerStep, AddHostStep, DeleteHostStep

LEMMA OthersKeepScale ==
    ASSUME TypeInv, SerialInv, FleetInv, ScaleInv, NEW w \in Workers,
           WorkerStep(w) \/ CallFails(w) \/ Crash(w),
           NEW v \in Workers, v # w, wk'[v] = wk[v],
           wk[v].kind = "scale", ~wk[v].error, wk[v].pc # "find_lb"
    PROVE  ScaleOn(wk[v], attached'[wk[v].lb], lbOf'[wk[v].lb])
<1>1. wk[v].pc # "idle" /\ wk[v].name \in Names
  <2>1. wk[v].pc # "idle"
    BY DEF FleetInv, TasksOnPath, TaskOnPath
  <2> QED
    BY <2>1 DEF TypeInv, RecordsOK, WkRecordOK
<1>2. wk[w].pc # "idle" => wk[v].name # wk[w].name
  BY <1>1 DEF SerialInv, Serial, OneTask
<1>3. ScaleOn(wk[v], attached[wk[v].lb], lbOf[wk[v].lb])
  BY DEF ScaleInv
<1>4. wk[v].lb \in LBs /\ lbOf[wk[v].lb] = wk[v].name
  BY <1>3 DEF ScaleOn
<1>5. attached'[wk[v].lb] = attached[wk[v].lb] /\ lbOf'[wk[v].lb] = lbOf[wk[v].lb]
  BY <1>1, <1>2, <1>4, OtherLBs
<1> QED
  BY <1>3, <1>5

LEMMA TakeIsNew ==
    ASSUME TypeInv, NEW w \in Workers, TakeTask(w)
    PROVE  /\ wk'[w].kind = "scale" => wk'[w].pc = "find_lb"
           /\ \A v \in Workers \ {w} : wk'[v] = wk[v]
<1>1. PICK m : m = Head(queue)
  OBVIOUS
<1>2. PICK t : t = [IdleWk EXCEPT !.kind = m.kind, !.name = m.name, !.qty = m.qty,
                     !.pc = IF m.kind = "new" THEN "create_lb" ELSE "find_lb",
                     !.adds = IF m.kind = "new" THEN 1 ELSE 0]
  OBVIOUS
<1>3. t.kind = m.kind /\ (m.kind # "new" => t.pc = "find_lb")
  BY <1>2 DEF IdleWk
<1>4. wk' = [wk EXCEPT ![w] = t]
  BY <1>1, <1>2 DEF TakeTask, Set
<1>5. wk'[w] = t /\ \A v \in Workers \ {w} : wk'[v] = wk[v]
  BY <1>4 DEF TypeInv, TypeOK
<1> QED
  BY <1>3, <1>5

LEMMA WorkerKeepsScale ==
    ASSUME TypeInv, SerialInv, FleetInv, ScaleInv, NEW w \in Workers,
           WorkerStep(w) \/ CallFails(w) \/ Crash(w)
    PROVE  ScaleInv'
<1>1. \A v \in Workers \ {w} : wk'[v] = wk[v]
  <2>1. CASE TakeTask(w)
    BY <2>1, TakeIsNew
  <2>2. CASE ~TakeTask(w)
    <3>1. PICK t : wk' = [wk EXCEPT ![w] = t]
      BY <2>2, WorkerGoesOn DEF FleetInv
    <3> QED
      BY <3>1 DEF TypeInv, TypeOK
  <2> QED
    BY <2>1, <2>2
<1>2. ASSUME NEW v \in Workers, wk'[v].kind = "scale", ~wk'[v].error, wk'[v].pc # "find_lb"
      PROVE  ScaleOn(wk'[v], attached'[wk'[v].lb], lbOf'[wk'[v].lb])
  <2>1. CASE v # w
    BY <1>1, <1>2, <2>1, OthersKeepScale
  <2>2. CASE v = w
    <3>1. ~TakeTask(w)
      BY <1>2, <2>2, TakeIsNew
    <3> QED
      BY <1>2, <2>2, <3>1, TaskKeepsScale
  <2> QED
    BY <2>1, <2>2
<1> QED
  BY <1>2 DEF ScaleInv

LEMMA StepScaleInv == TypeInv /\ SerialInv /\ FleetInv /\ ScaleInv /\ [Next]_vars => ScaleInv'
<1> SUFFICES ASSUME TypeInv, SerialInv, FleetInv, ScaleInv, [Next]_vars PROVE ScaleInv'
  OBVIOUS
<1>1. ASSUME UNCHANGED <<wk, lbOf, attached>> PROVE ScaleInv'
  BY <1>1 DEF ScaleInv
<1>2. CASE UNCHANGED vars
  BY <1>1, <1>2 DEF vars, cloudVars
<1>3. ASSUME NEW t \in Teams, NEW q \in QuotaValues, SetTeamQuota(t, q)
      PROVE  ScaleInv'
  BY <1>1, <1>3 DEF SetTeamQuota, cloudVars
<1>4. ASSUME NEW r \in Requests, RequestStep(r) \/ RequestRaises(r)
      PROVE  ScaleInv'
  BY <1>1, <1>4 DEF RequestStep, RequestRaises, IncrementQuota, FindLB, CreateTask,
     WriteHealthcheck, FindMetadata, StoreMetadata, DecrementQuota, RemoveTask,
     RemoveMetadata, Delay, UpdateTask, cloudVars
<1>5. ASSUME NEW w \in Workers, WorkerStep(w) \/ CallFails(w) \/ Crash(w)
      PROVE  ScaleInv'
  BY <1>5, WorkerKeepsScale
<1>6. ASSUME NEW r \in Requests, NEW n \in Names,
             \/ \E t \in Teams : NewInstance(r, n, t)
             \/ RemoveInstance(r, n)
             \/ \E q \in Quantities : ScaleInstance(r, n, q)
             \/ UpdateInstance(r, n)
      PROVE  ScaleInv'
  BY <1>1, <1>6 DEF NewInstance, RemoveInstance, ScaleInstance, UpdateInstance, Begin,
     cloudVars
<1> QED
  BY <1>2, <1>3, <1>4, <1>5, <1>6 DEF Next

(* A scale task of a patient client that ends without an error leaves the  *)
(* number of hosts it was asked for (ScaleInstanceTask, tasks.py): while   *)
(* it runs nothing else adds hosts to its LB or takes any off it, and the  *)
(* hosts it has still to add, or to delete, make up the difference.  Calls *)
(* that failed and workers that died before it do not matter.              *)
THEOREM ScalesExactly ==
    ASSUME Client \in {"patient", "orderly"}
    PROVE  Spec => []ScaleReachesQuantity
<1> DEFINE IInv == TypeInv /\ SerialInv /\ FleetInv /\ ScaleInv
<1>1. Init => IInv
  <2>1. Init => ScaleInv
    BY DEF Init, ScaleInv, IdleWk
  <2> QED
    BY <2>1, InitLBInv, InitFleet DEF LBInv, SerialInv
<1>2. IInv /\ [Next]_vars => IInv'
  BY StepTypes, StepSerialInv, StepFleet, StepScaleInv DEF Waits
<1>3. IInv => ScaleReachesQuantity
  <2> SUFFICES ASSUME IInv, NEW w \in Workers, In(w, "scale_finally"), ~wk[w].error
               PROVE  Len(attached[wk[w].lb]) = wk[w].qty
    BY DEF ScaleReachesQuantity
  <2>1. wk[w].pc = "scale_finally" /\ TaskOnPath(wk[w])
    BY DEF In, FleetInv, TasksOnPath
  <2>2. wk[w] \in WkType
    BY DEF TypeInv, TypeOK
  <2>3. wk[w].kind = "scale"
    BY <2>1, <2>2 DEF TaskOnPath, WkType
  <2> QED
    BY <2>1, <2>3 DEF ScaleInv, ScaleOn
<1> HIDE DEF IInv
<1> QED
  BY <1>1, <1>2, <1>3, PTL DEF Spec
-----------------------------------------------------------------------------
(***************************************************************************)
(* No stranded machine.  A machine of an instance is behind its LB or in   *)
(* the hands of the task that attaches it, or of the rollback that destroys*)
(* it.  Before an LB is destroyed nothing is behind it but the machine the *)
(* task holds.                                                             *)
(***************************************************************************)

(* What an addition knows of its LB, its machine and the health check.     *)
AddsOn(t, behind, owner, hc, ofHost, failed) ==
    /\ t.pc \in {"create_hc", "create_host", "add_host", "wait_healthcheck", "add_url",
                 "rollback_lb"} => owner[t.lb] = t.name
    /\ t.pc = "add_finally" /\ ~t.error => owner[t.lb] = t.name
    /\ t.kind = "new" =>
          /\ t.pc \in {"create_hc", "create_host"} =>
                ToSet(behind[t.lb]) = {} /\ t.host = Nothing
          /\ t.pc = "add_host" => ToSet(behind[t.lb]) = {}
          /\ t.pc \in {"wait_healthcheck", "add_url", "rollback_lb"} =>
                ToSet(behind[t.lb]) \subseteq {t.host}
          /\ t.pc \in {"create_host", "add_host", "wait_healthcheck", "add_url"} =>
                t.name \in hc
    /\ t.pc \in {"add_host", "wait_healthcheck", "add_url"} =>
          ofHost[t.host] \in {t.name, "destroyed"}
    /\ t.pc = "rollback_lb" /\ t.host \in Hosts =>
          /\ ofHost[t.host] \in {t.name, "destroyed"}
          /\ ofHost[t.host] = t.name => failed >= 1

(* What a deletion knows of its LB: which hosts are still behind it.       *)
DeletesOn(t, behind, owner, ofHost) ==
    /\ t.pc = "remove_host" => ofHost[t.host] = "destroyed"
    /\ t.kind = "remove" =>
          /\ t.pc \in {"destroy_host", "remove_host"} =>
                /\ owner[t.lb] = t.name
                /\ ToSet(behind[t.lb]) \subseteq ToSet(t.todo) \cup {t.host}
          /\ t.pc \in {"remove_url", "delete_finally"} /\ ~t.error =>
                /\ owner[t.lb] = t.name
                /\ ToSet(behind[t.lb]) \subseteq ToSet(t.todo)
    /\ t.pc \in {"destroy_instance", "destroy_lb"} =>
          owner[t.lb] = t.name /\ ToSet(behind[t.lb]) = {}

HoldsOn(t, behind, owner, hc, ofHost, failed) ==
    /\ t.pc = "create_lb" => t.host = Nothing
    /\ t.lb \in LBs =>
          /\ AddsOn(t, behind, owner, hc, ofHost, failed)
          /\ DeletesOn(t, behind, owner, ofHost)

HeldTasks ==
    /\ \A w \in Workers : HoldsOn(wk[w], attached, lbOf, hcs, hostOf, faults)
    /\ \A l \in LBs : lbOf[l] = "unused" => attached[l] = <<>>

AtHand(t, h, failed) ==
    /\ t.host = h
    /\ \/ t.pc = "add_host"
       \/ t.pc \in {"rollback_lb", "destroy_host"} /\ t.error /\ failed >= 1

Behind(n, h) == \E l \in LBs : lbOf[l] = n /\ h \in ToSet(attached[l])

Kept ==
    faults <= 1 /\ crashes = 0 =>
        \A h \in Hosts : hostOf[h] \in Names =>
            \/ Behind(hostOf[h], h)
            \/ \E w \in Workers : wk[w].name = hostOf[h] /\ AtHand(wk[w], h, faults)

(* What a step of a task does to machines and health checks.               *)
LEMMA MachinesMove ==
    ASSUME TypeInv, NEW w \in Workers, WorkerStep(w) \/ CallFails(w) \/ Crash(w)
    PROVE  /\ \A h \in Hosts :
                /\ hostOf[h] = "destroyed" => hostOf'[h] = "destroyed"
                /\ hostOf[h] \in Names => hostOf'[h] \in {hostOf[h], "destroyed"}
           /\ \A n \in Names :
                (wk[w].pc # "idle" => n # wk[w].name) => (n \in hcs' <=> n \in hcs)
           /\ faults' \in Nat /\ faults' >= faults
<1> USE DEF quotaVars, storeVars, cloudVars, boundVars
<1>0. /\ hostOf \in [Hosts -> Names \cup {"unused", "destroyed"}] /\ faults \in Nat
      /\ "unused" \notin Names
  BY ConstantsAssumption DEF TypeInv, TypeOK
<1>1. CASE CreateHost(w)
  BY <1>0, <1>1 DEF CreateHost
<1>2. CASE DestroyHost(w)
  BY <1>0, <1>2 DEF DestroyHost
<1>3. CASE CreateHC(w) \/ DestroyHC(w)
  BY <1>0, <1>3 DEF CreateHC, DestroyHC, In
<1>4. CASE CallFails(w)
  BY <1>0, <1>4 DEF CallFails
<1>5. CASE UNCHANGED <<hostOf, hcs, faults>>
  BY <1>0, <1>5
<1> QED
  BY <1>1, <1>2, <1>3, <1>4, <1>5 DEF WorkerStep, AddHostStep, DeleteHostStep, TakeTask,
     TaskFindLB, CreateLB, AddHost, WaitHealthcheck, AddURL, AddFinally, RemoveHost, RemoveURL,
     DeleteFinally, ScaleFinally, DestroyInstance, DestroyLB, TaskRaises, Crash

LEMMA OthersKeepHeld ==
    ASSUME TypeInv, SerialInv, FleetInv, HeldTasks, NEW w \in Workers,
           WorkerStep(w) \/ CallFails(w) \/ Crash(w),
           NEW v \in Workers, v # w, wk'[v] = wk[v]
    PROVE  HoldsOn(wk'[v], attached', lbOf', hcs', hostOf', faults')
<1> SUFFICES ASSUME wk[v].lb \in LBs
             PROVE  /\ AddsOn(wk[v], attached', lbOf', hcs', hostOf', faults')
                    /\ DeletesOn(wk[v], attached', lbOf', hostOf')
  BY DEF HoldsOn, HeldTasks
<1>1. wk[v].pc # "idle" /\ wk[v].name \in Names /\ wk[v].name \notin {"unused", "destroyed"}
  <2>1. wk[v].pc # "idle"
    BY ConstantsAssumption DEF FleetInv, TasksOnPath, TaskOnPath
  <2> QED
    BY <2>1, ConstantsAssumption DEF TypeInv, RecordsOK, WkRecordOK
<1>2. wk[w].pc # "idle" => wk[v].name # wk[w].name
  BY <1>1 DEF SerialInv, Serial, OneTask
<1>3. /\ AddsOn(wk[v], attached, lbOf, hcs, hostOf, faults)
      /\ DeletesOn(wk[v], attached, lbOf, hostOf)
  BY DEF HeldTasks, HoldsOn
<1>4. lbOf[wk[v].lb] = wk[v].name =>
        lbOf'[wk[v].lb] = wk[v].name /\ attached'[wk[v].lb] = attached[wk[v].lb]
  BY <1>1, <1>2, OtherLBs
<1>5. /\ \A h \in Hosts :
           /\ hostOf[h] = "destroyed" => hostOf'[h] = "destroyed"
           /\ hostOf[h] = wk[v].name => hostOf'[h] \in {wk[v].name, "destroyed"}
      /\ wk[v].name \in hcs' <=> wk[v].name \in hcs
      /\ faults >= 1 => faults' >= 1
  BY <1>1, <1>2, MachinesMove DEF TypeInv, TypeOK
<1>6. wk[v].pc \in {"add_host", "wait_healthcheck", "add_url", "remove_host"} =>
        wk[v].host \in Hosts
  BY DEF TypeInv, RecordsOK, WkRecordOK, DeletePcs
<1>7. hostOf[wk[v].host] = "destroyed" /\ wk[v].host \in Hosts =>
        hostOf'[wk[v].host] = "destroyed"
  BY <1>5
<1>8. AddsOn(wk[v], attached', lbOf', hcs', hostOf', faults')
  BY <1>1, <1>3, <1>4, <1>5, <1>6 DEF AddsOn
<1>9. DeletesOn(wk[v], attached', lbOf', hostOf')
  BY <1>3, <1>4, <1>6, <1>7 DEF DeletesOn
<1> QED
  BY <1>8, <1>9

(* Nothing is asked of a task at these program counters.                   *)
Loose == {"idle", "find_lb", "scale_finally", "rollback_hc", "destroy_hc"}

LEMMA LooseHolds ==
    ASSUME NEW t, NEW behind, NEW owner, NEW hc, NEW ofHost, NEW failed,
           \/ t.pc \in Loose
           \/ t.kind # "remove" /\ t.pc \in {"destroy_host", "remove_url", "delete_finally"}
           \/ t.pc \in {"add_finally", "delete_finally"} /\ t.error
    PROVE  HoldsOn(t, behind, owner, hc, ofHost, failed)
BY DEF HoldsOn, AddsOn, DeletesOn, Loose

(* Where an exception takes a task that holds a machine.                   *)
LEMMA HandlerHolds ==
    ASSUME NEW t \in WkType, TaskOnPath(t), WkRecordOK(t), t.lb \in LBs,
           NEW behind, NEW owner, NEW hc, NEW ofHost, NEW failed, NEW failedThen \in Nat,
           AddsOn(t, behind, owner, hc, ofHost, failed),
           \/ failedThen >= 1
           \/ t.kind # "new"
           \/ ~(/\ t.pc \in {"add_host", "wait_healthcheck", "add_url"}
                /\ ofHost[t.host] = t.name)
    PROVE  HoldsOn(Handler(t), behind, owner, hc, ofHost, failedThen)
<1>1. t.lb # Nothing
  BY ConstantsAssumption
<1>2. CASE t.pc \in AddPcs
  <2> PICK failed1 : failed1 = [t EXCEPT !.error = TRUE]
    OBVIOUS
  <2>1. /\ failed1 \in WkType /\ failed1.pc = t.pc /\ failed1.kind = t.kind
        /\ failed1.name = t.name /\ failed1.lb = t.lb /\ failed1.host = t.host
        /\ failed1.fresh = t.fresh /\ failed1.error
    BY DEF WkType
  <2>2. t.kind # "remove"
    BY <1>2 DEF TaskOnPath
  <2>3. CASE ~Rollback
    <3>1. Handler(t) = [failed1 EXCEPT !.pc = "add_finally"]
      BY <1>2, <2>3 DEF Handler, AddPcs, DeletePcs
    <3>2. Handler(t).pc = "add_finally" /\ Handler(t).error
      BY <2>1, <3>1 DEF WkType
    <3> QED
      BY <3>2, LooseHolds
  <2>4. CASE Rollback /\ ~t.fresh
    <3>1. Handler(t) = RollbackHost(failed1)
      BY <1>1, <1>2, <2>1, <2>4 DEF Handler, AddPcs, DeletePcs
    <3>2. Handler(t).pc \in {"rollback_hc", "destroy_host"} /\ Handler(t).kind = t.kind
      BY <2>1, <3>1 DEF RollbackHost, WkType
    <3> QED
      BY <2>2, <3>2, LooseHolds DEF Loose
  <2>5. CASE Rollback /\ t.fresh
    <3>1. PICK u : u = [failed1 EXCEPT !.pc = "rollback_lb"]
      OBVIOUS
    <3>2. Handler(t) = u
      BY <1>1, <1>2, <2>1, <2>5, <3>1 DEF Handler, AddPcs, DeletePcs
    <3>3. u.pc = "rollback_lb" /\ u.kind = t.kind /\ u.name = t.name /\ u.lb = t.lb
          /\ u.host = t.host
      BY <2>1, <3>1 DEF WkType
    <3>4. t.kind = "new" /\ t.pc # "create_lb"
      BY <1>1, <1>2, <2>2, <2>5 DEF TaskOnPath, WkType
    <3>5. \/ t.pc \in {"create_hc", "create_host"}
          \/ t.pc \in {"add_host", "wait_healthcheck", "add_url"}
      BY <1>2, <3>4 DEF AddPcs
    <3>6. owner[t.lb] = t.name
          /\ (t.pc \in {"create_hc", "create_host"} =>
                 ToSet(behind[t.lb]) = {} /\ t.host \notin Hosts)
          /\ (t.pc \in {"add_host", "wait_healthcheck", "add_url"} =>
                 /\ ToSet(behind[t.lb]) \subseteq {t.host}
                 /\ ofHost[t.host] \in {t.name, "destroyed"})
      BY <3>4, <3>5, ConstantsAssumption DEF AddsOn
    <3>7. AddsOn(u, behind, owner, hc, ofHost, failedThen)
      BY <3>3, <3>4, <3>5, <3>6 DEF AddsOn
    <3>8. DeletesOn(u, behind, owner, ofHost)
      BY <3>3 DEF DeletesOn
    <3> QED
      BY <3>2, <3>3, <3>7, <3>8 DEF HoldsOn
  <2> QED
    BY <2>3, <2>4, <2>5 DEF WkType
<1>3. CASE t.pc = "rollback_lb"
  <2>1. Handler(t) = RollbackHost(t)
    BY <1>3 DEF Handler, AddPcs, DeletePcs
  <2>2. Handler(t).pc \in {"rollback_hc", "destroy_host"} /\ Handler(t).kind = t.kind
    BY <2>1 DEF RollbackHost, WkType
  <2>3. t.kind # "remove"
    BY <1>3 DEF TaskOnPath, RollbackPcs
  <2> QED
    BY <2>2, <2>3, LooseHolds DEF Loose
<1>4. CASE t.pc = "rollback_hc"
  <2>1. Handler(t) = [t EXCEPT !.pc = "add_finally"]
    BY <1>4 DEF Handler, AddPcs, DeletePcs
  <2>2. Handler(t).pc = "add_finally" /\ Handler(t).error
    BY <1>4, <2>1 DEF TaskOnPath, RollbackPcs, WkType
  <2> QED
    BY <2>2, LooseHolds
<1>5. CASE t.pc \in DeletePcs
  <2>1. Handler(t) = [t EXCEPT !.pc = "delete_finally", !.error = TRUE]
    BY <1>5 DEF Handler, AddPcs, DeletePcs
  <2>2. Handler(t).pc = "delete_finally" /\ Handler(t).error
    BY <2>1 DEF WkType
  <2> QED
    BY <2>2, LooseHolds
<1>6. CASE t.pc \notin AddPcs \cup DeletePcs \cup RollbackPcs
  <2>1. Handler(t) = LeaveRun(t)
    BY <1>6 DEF Handler, AddPcs, DeletePcs, RollbackPcs
  <2>2. Handler(t).pc \in {"scale_finally", "idle"}
    BY <2>1 DEF LeaveRun, WkType, IdleWk
  <2> QED
    BY <2>2, LooseHolds DEF Loose
<1> QED
  BY <1>2, <1>3, <1>4, <1>5, <1>6 DEF RollbackPcs

LEMMA HeadAndTail ==
    ASSUME NEW S, NEW s \in Seq(S), s # <<>>
    PROVE  ToSet(s) = {Head(s)} \cup ToSet(Tail(s))
<1>0. Len(s) \in Nat /\ DOMAIN s = 1..Len(s) /\ Len(s) >= 1 /\ Head(s) = s[1]
  OBVIOUS
<1>1. PICK t : t = Tail(s)
  OBVIOUS
<1>2. DOMAIN t = 1..(Len(s) - 1) /\ \A i \in 1..(Len(s) - 1) : t[i] = s[i + 1]
  BY <1>0, <1>1
<1>3. ASSUME NEW i \in 1..Len(s), i # 1 PROVE s[i] \in ToSet(t)
  <2>1. i - 1 \in 1..(Len(s) - 1) /\ (i - 1) + 1 = i
    BY <1>0, <1>3
  <2>2. t[i - 1] = s[i]
    BY <1>2, <2>1
  <2> QED
    BY <1>2, <2>1, <2>2 DEF ToSet
<1>4. \A i \in 1..(Len(s) - 1) : t[i] \in ToSet(s)
  BY <1>0, <1>2 DEF ToSet
<1> QED
  BY <1>0, <1>1, <1>2, <1>3, <1>4 DEF ToSet

LEMMA NextDeleteHolds ==
    ASSUME NEW t \in WkType, t.lb \in LBs, t.kind \in {"scale", "remove"},
           NEW behind, NEW owner, NEW hc, NEW ofHost, NEW failed,
           t.kind = "remove" => owner[t.lb] = t.name /\ ToSet(behind[t.lb]) \subseteq ToSet(t.todo)
    PROVE  HoldsOn(NextDelete(t, IF t.kind = "scale" THEN "scale_finally" ELSE "destroy_instance"),
                   behind, owner, hc, ofHost, failed)
<1> DEFINE done == IF t.kind = "scale" THEN "scale_finally" ELSE "destroy_instance"
<1>0. t.todo \in Seq(Hosts)
  BY DEF WkType
<1>1. CASE t.todo = <<>>
  <2>1. PICK s : s = [t EXCEPT !.pc = done, !.host = Nothing]
    OBVIOUS
  <2>2. s.pc = done /\ s.kind = t.kind /\ s.name = t.name /\ s.lb = t.lb
    BY <2>1 DEF WkType
  <2>3. NextDelete(t, done) = s
    BY <1>1, <2>1 DEF NextDelete
  <2>4. ToSet(t.todo) = {}
    BY <1>1 DEF ToSet
  <2>5. AddsOn(s, behind, owner, hc, ofHost, failed) /\ DeletesOn(s, behind, owner, ofHost)
    BY <2>2, <2>4 DEF AddsOn, DeletesOn
  <2> QED
    BY <2>2, <2>3, <2>5 DEF HoldsOn
<1>2. CASE t.todo # <<>>
  <2>1. PICK s : s = [t EXCEPT !.pc = "destroy_host", !.host = Head(t.todo),
                               !.todo = Tail(t.todo)]
    OBVIOUS
  <2>2. /\ s.pc = "destroy_host" /\ s.kind = t.kind /\ s.name = t.name /\ s.lb = t.lb
        /\ s.host = Head(t.todo) /\ s.todo = Tail(t.todo)
    BY <2>1 DEF WkType
  <2>3. NextDelete(t, done) = s
    BY <1>2, <2>1 DEF NextDelete
  <2>4. ToSet(t.todo) \subseteq ToSet(Tail(t.todo)) \cup {Head(t.todo)}
    BY <1>0, <1>2, HeadAndTail
  <2>5. AddsOn(s, behind, owner, hc, ofHost, failed)
    BY <2>2 DEF AddsOn
  <2>6. DeletesOn(s, behind, owner, ofHost)
    BY <2>2, <2>4 DEF DeletesOn
  <2> QED
    BY <2>2, <2>3, <2>5, <2>6 DEF HoldsOn
<1> QED
  BY <1>1, <1>2

LEMMA TaskKeepsHeld ==
    ASSUME TypeInv, FleetInv, HeldTasks, NEW w \in Workers,
           WorkerStep(w) \/ CallFails(w) \/ Crash(w), ~TakeTask(w)
    PROVE  HoldsOn(wk'[w], attached', lbOf', hcs', hostOf', faults')
<1> USE DEF quotaVars, storeVars, cloudVars, boundVars
<1>0. /\ wk[w] \in WkType /\ WkRecordOK(wk[w]) /\ TaskOnPath(wk[w])
      /\ wk \in [Workers -> WkType] /\ attached \in [LBs -> Seq(Hosts)]
      /\ lbOf \in [LBs -> Names \cup {"unused", "destroyed"}]
      /\ hostOf \in [Hosts -> Names \cup {"unused", "destroyed"}]
      /\ faults \in Nat
  BY DEF TypeInv, TypeOK, RecordsOK, FleetInv, TasksOnPath
<1>1. ASSUME NEW s, Set(w, s) PROVE wk'[w] = s
  BY <1>0, <1>1 DEF Set
<1>2. ASSUME NEW pc, Enter(w, pc) PROVE Only(wk'[w], wk[w], pc)
  <2>1. PICK u : wk' = [wk EXCEPT ![w] = u] /\ Only(u, wk[w], pc)
    BY <1>2, EnterOnly
  <2> QED
    BY <1>0, <2>1
<1>3. wk[w].lb \in LBs => /\ AddsOn(wk[w], attached, lbOf, hcs, hostOf, faults)
                         /\ DeletesOn(wk[w], attached, lbOf, hostOf)
  BY DEF HeldTasks, HoldsOn
<1>4. ASSUME NEW pc \in Loose, Enter(w, pc)
      PROVE  HoldsOn(wk'[w], attached', lbOf', hcs', hostOf', faults')
  BY <1>2, <1>4, LooseHolds DEF Only
<1>5. ToSet(<<>>) = {}
  BY DEF ToSet
<1>11. CASE TaskFindLB(w)
  <2> PICK l \in LBsOf(wk[w].name) :
          LET hosts == attached[l]
              found == [wk[w] EXCEPT !.lb = l, !.empty = (hosts = <<>>)]
              extra == Len(hosts) - wk[w].qty
          IN  CASE found.kind = "remove" ->
                     Set(w, NextDelete([found EXCEPT !.todo = hosts], "destroy_instance"))
                [] found.kind = "scale" /\ extra < 0 ->
                     Set(w, [found EXCEPT !.pc = "create_host", !.adds = -extra])
                [] OTHER ->
                     Set(w, NextDelete([found EXCEPT !.todo = SubSeq(hosts, 1, extra)],
                                       "scale_finally"))
    BY <1>11 DEF TaskFindLB
  <2> DEFINE hosts == attached[l]
             found == [wk[w] EXCEPT !.lb = l, !.empty = (hosts = <<>>)]
             extra == Len(hosts) - wk[w].qty
  <2>1. /\ l \in LBs /\ lbOf[l] = wk[w].name /\ hosts \in Seq(Hosts)
        /\ UNCHANGED <<lbOf, attached, hostOf>> /\ wk[w].pc = "find_lb"
    BY <1>0, <1>11 DEF LBsOf, TaskFindLB, In
  <2>2. /\ found \in WkType /\ found.name = wk[w].name /\ found.kind = wk[w].kind
        /\ found.lb = l
    BY ZenonT(60), <1>0, <2>1 DEF WkType
  <2>3. wk[w].kind \in {"scale", "remove"}
    BY <1>0, <2>1 DEF TaskOnPath, WkType
  <2>4. CASE wk[w].kind = "remove"
    <3>1. wk'[w] = NextDelete([found EXCEPT !.todo = hosts], "destroy_instance")
      BY <1>1, <2>2, <2>4
    <3>2. PICK u : u = [found EXCEPT !.todo = hosts]
      OBVIOUS
    <3> HIDE DEF found
    <3>3. u \in WkType /\ u.kind = "remove" /\ u.name = wk[w].name /\ u.lb = l /\ u.todo = hosts
      BY <2>1, <2>2, <2>4, <3>2 DEF WkType
    <3>4. HoldsOn(NextDelete(u, "destroy_instance"), attached', lbOf', hcs', hostOf', faults')
      BY <2>1, <3>3, NextDeleteHolds
    <3> QED
      BY <3>1, <3>2, <3>4
  <2>5. CASE wk[w].kind = "scale" /\ extra < 0
    <3>1. wk'[w] = [found EXCEPT !.pc = "create_host", !.adds = -extra]
      BY <1>1, <2>2, <2>5
    <3> HIDE DEF found, extra
    <3>2. wk'[w].pc = "create_host" /\ wk'[w].kind = "scale" /\ wk'[w].lb = l
          /\ wk'[w].name = wk[w].name
      BY <2>2, <2>5, <3>1 DEF WkType
    <3> QED
      BY <2>1, <3>2 DEF HoldsOn, AddsOn, DeletesOn
  <2>6. CASE wk[w].kind = "scale" /\ ~(extra < 0)
    <3>1. wk'[w] = NextDelete([found EXCEPT !.todo = SubSeq(hosts, 1, extra)], "scale_finally")
      BY <1>1, <2>2, <2>6
    <3>e. extra \in 0..Len(hosts) /\ Len(hosts) \in Nat
      BY <1>0, <2>1, <2>6 DEF WkType
    <3> HIDE DEF found, extra, hosts
    <3>2. PICK todo : todo = SubSeq(hosts, 1, extra)
      OBVIOUS
    <3>3. todo \in Seq(Hosts)
      BY <2>1, <3>e, <3>2
    <3>4. PICK u : u = [found EXCEPT !.todo = todo]
      OBVIOUS
    <3>5. u \in WkType /\ u.kind = "scale" /\ u.lb = l
      BY <2>2, <2>6, <3>3, <3>4 DEF WkType
    <3>6. HoldsOn(NextDelete(u, "scale_finally"), attached', lbOf', hcs', hostOf', faults')
      BY <2>1, <3>5, NextDeleteHolds
    <3> QED
      BY <3>1, <3>2, <3>4, <3>6
  <2> QED
    BY <2>3, <2>4, <2>5, <2>6
<1>12. CASE CreateLB(w)
  <2> PICK l \in LBsOf("unused") :
          /\ lbOf' = [lbOf EXCEPT ![l] = wk[w].name]
          /\ Set(w, [wk[w] EXCEPT !.pc = "create_hc", !.lb = l, !.fresh = TRUE, !.empty = TRUE])
    BY <1>12 DEF CreateLB
  <2>1. l \in LBs /\ attached[l] = <<>> /\ lbOf'[l] = wk[w].name /\ UNCHANGED attached
    BY <1>0, <1>12 DEF CreateLB, LBsOf, HeldTasks
  <2>2. wk[w].pc = "create_lb" /\ wk[w].host = Nothing
    BY <1>12 DEF CreateLB, In, HeldTasks, HoldsOn
  <2>3. wk'[w] = [wk[w] EXCEPT !.pc = "create_hc", !.lb = l, !.fresh = TRUE, !.empty = TRUE]
    BY <1>1
  <2>4. wk'[w].pc = "create_hc" /\ wk'[w].lb = l /\ wk'[w].host = Nothing
        /\ wk'[w].name = wk[w].name
    BY <1>0, <2>2, <2>3 DEF WkType
  <2>5. ToSet(attached'[l]) = {}
    BY <1>5, <2>1
  <2> QED
    BY <2>1, <2>4, <2>5 DEF HoldsOn, AddsOn, DeletesOn
<1>13. CASE CreateHC(w)
  <2>1. Only(wk'[w], wk[w], "create_host")
    BY <1>2, <1>13 DEF CreateHC
  <2>2. /\ wk[w].pc = "create_hc" /\ UNCHANGED <<attached, lbOf, hostOf>>
        /\ wk[w].name \in hcs'
    BY <1>13 DEF CreateHC, In
  <2> QED
    BY <1>3, <2>1, <2>2 DEF HoldsOn, AddsOn, DeletesOn, Only
<1>14. CASE CreateHost(w)
  <2>1. PICK h \in Hosts : /\ hostOf' = [hostOf EXCEPT ![h] = wk[w].name]
                           /\ Set(w, [wk[w] EXCEPT !.pc = "add_host", !.host = h])
    BY <1>14 DEF CreateHost
  <2>2. wk'[w] = [wk[w] EXCEPT !.pc = "add_host", !.host = h]
    BY <1>1, <2>1
  <2>3. wk'[w].pc = "add_host" /\ wk'[w].lb = wk[w].lb /\ wk'[w].host = h
        /\ wk'[w].name = wk[w].name /\ wk'[w].kind = wk[w].kind
    BY <1>0, <2>2 DEF WkType
  <2>4. wk[w].pc = "create_host" /\ UNCHANGED <<attached, lbOf, hcs>> /\ hostOf'[h] = wk[w].name
    BY <1>0, <1>14, <2>1 DEF CreateHost, In
  <2> QED
    BY <1>3, <2>3, <2>4 DEF HoldsOn, AddsOn, DeletesOn
<1>15. CASE AddHost(w)
  <2>1. Only(wk'[w], wk[w], "wait_healthcheck")
    BY <1>2, <1>15 DEF AddHost
  <2>2. /\ wk[w].pc = "add_host" /\ UNCHANGED <<lbOf, hostOf, hcs>>
        /\ attached' = [attached EXCEPT ![wk[w].lb] = Append(@, wk[w].host)]
        /\ wk[w].lb \in LBs /\ wk[w].host \in Hosts
    BY <1>0, <1>15 DEF AddHost, In, WkRecordOK
  <2>3. ToSet(attached'[wk[w].lb]) = ToSet(attached[wk[w].lb]) \cup {wk[w].host}
    BY <1>0, <2>2, ToSetAppend
  <2> QED
    BY <1>3, <2>1, <2>2, <2>3 DEF HoldsOn, AddsOn, DeletesOn, Only
<1>16. CASE WaitHealthcheck(w)
  <2>1. Only(wk'[w], wk[w], "add_url")
    BY <1>2, <1>16 DEF WaitHealthcheck
  <2>2. wk[w].pc = "wait_healthcheck" /\ UNCHANGED <<attached, lbOf, hostOf, hcs>>
    BY <1>16 DEF WaitHealthcheck, In
  <2> QED
    BY <1>3, <2>1, <2>2 DEF HoldsOn, AddsOn, DeletesOn, Only
<1>17. CASE AddURL(w)
  <2>1. Only(wk'[w], wk[w], "add_finally")
    BY <1>2, <1>17 DEF AddURL
  <2>2. wk[w].pc = "add_url" /\ UNCHANGED <<attached, lbOf, hostOf, hcs>>
    BY <1>17 DEF AddURL, In
  <2> QED
    BY <1>3, <2>1, <2>2 DEF HoldsOn, AddsOn, DeletesOn, Only
<1>18. CASE AddFinally(w)
  <2>1. wk[w].pc = "add_finally" /\ UNCHANGED <<attached, lbOf, hostOf, hcs>>
    BY <1>18 DEF AddFinally, In
  <2>2. CASE wk[w].kind = "new"
    <3>1. wk'[w] = IdleWk
      BY <1>1, <1>18, <2>2 DEF AddFinally
    <3> QED
      BY <3>1, LooseHolds DEF Loose, IdleWk
  <2>3. CASE wk[w].kind # "new" /\ MoreHosts(wk[w])
    <3>1. wk'[w] = [wk[w] EXCEPT !.pc = "create_host", !.adds = @ - 1, !.host = Nothing]
      BY <1>1, <1>18, <2>3 DEF AddFinally
    <3>2. wk'[w].pc = "create_host" /\ wk'[w].kind = wk[w].kind /\ wk'[w].lb = wk[w].lb
          /\ wk'[w].name = wk[w].name
      BY <1>0, <3>1 DEF WkType
    <3>3. ~wk[w].error /\ wk[w].kind = "scale"
      BY <2>3 DEF MoreHosts
    <3> QED
      BY <1>3, <2>1, <3>2, <3>3 DEF HoldsOn, AddsOn, DeletesOn
  <2>4. CASE wk[w].kind # "new" /\ ~MoreHosts(wk[w])
    <3>1. wk'[w] = [wk[w] EXCEPT !.pc = "scale_finally"]
      BY <1>1, <1>18, <2>4 DEF AddFinally
    <3>2. wk'[w].pc = "scale_finally"
      BY <1>0, <3>1 DEF WkType
    <3> QED
      BY <3>2, LooseHolds DEF Loose
  <2> QED
    BY <2>2, <2>3, <2>4
<1>19. CASE DestroyHost(w)
  <2>1. PICK pc : /\ pc = IF wk[w].rolling /\ wk[w].fresh THEN "remove_url" ELSE "remove_host"
                  /\ Only(wk'[w], wk[w], pc)
    BY <1>2, <1>19 DEF DestroyHost
  <2>2. /\ wk[w].pc = "destroy_host" /\ UNCHANGED <<attached, lbOf>> /\ wk[w].host \in Hosts
        /\ wk[w].lb \in LBs /\ hostOf'[wk[w].host] = "destroyed"
    BY <1>0, <1>19 DEF DestroyHost, In, WkRecordOK, DeletePcs
  <2>3. CASE wk[w].rolling /\ wk[w].fresh
    <3>1. wk[w].kind # "remove"
      BY <1>0, <2>3 DEF TaskOnPath
    <3> QED
      BY <2>1, <2>3, <3>1, LooseHolds DEF Only
  <2>4. CASE ~(wk[w].rolling /\ wk[w].fresh)
    BY <1>3, <2>1, <2>2, <2>4 DEF HoldsOn, AddsOn, DeletesOn, Only
  <2> QED
    BY <2>3, <2>4
<1>20. CASE RemoveHost(w)
  <2>1. Only(wk'[w], wk[w], "remove_url")
    BY <1>2, <1>20 DEF RemoveHost
  <2>2. /\ wk[w].pc = "remove_host" /\ UNCHANGED <<lbOf, hostOf, hcs>>
        /\ attached' = [attached EXCEPT ![wk[w].lb] = Pull(@, wk[w].host)]
        /\ wk[w].lb \in LBs
    BY <1>0, <1>20 DEF RemoveHost, In, WkRecordOK, DeletePcs
  <2>3. IsInjective(attached[wk[w].lb])
    BY <2>2 DEF FleetInv, AttachedOnce
  <2>4. ToSet(attached'[wk[w].lb]) = ToSet(attached[wk[w].lb]) \ {wk[w].host}
    BY <1>0, <2>2, <2>3, PullProperties
  <2> QED
    BY <1>3, <2>1, <2>2, <2>4 DEF HoldsOn, AddsOn, DeletesOn, Only
<1>21. CASE RemoveURL(w)
  <2>1. Only(wk'[w], wk[w], "delete_finally")
    BY <1>2, <1>21 DEF RemoveURL
  <2>2. wk[w].pc = "remove_url" /\ UNCHANGED <<attached, lbOf, hostOf, hcs>>
    BY <1>21 DEF RemoveURL, In
  <2>3. wk[w].kind = "remove" => ~wk[w].rolling
    BY <1>0 DEF TaskOnPath
  <2> QED
    BY <1>3, <2>1, <2>2, <2>3 DEF HoldsOn, AddsOn, DeletesOn, Only
<1>22. CASE DeleteFinally(w)
  <2>1. wk[w].pc = "delete_finally" /\ UNCHANGED <<attached, lbOf, hostOf, hcs>>
        /\ wk[w].lb \in LBs
    BY <1>0, <1>22 DEF DeleteFinally, In, WkRecordOK
  <2>2. CASE wk[w].rolling
    <3>1. wk'[w] = [wk[w] EXCEPT !.pc = "rollback_hc"]
      BY <1>1, <1>22, <2>2 DEF DeleteFinally
    <3>2. wk'[w].pc = "rollback_hc"
      BY <1>0, <3>1 DEF WkType
    <3> QED
      BY <3>2, LooseHolds DEF Loose
  <2>3. CASE ~wk[w].rolling /\ wk[w].error
    <3>1. wk'[w] = LeaveRun(wk[w])
      BY <1>1, <1>22, <2>3 DEF DeleteFinally
    <3>2. wk'[w].pc \in {"scale_finally", "idle"}
      BY <1>0, <3>1 DEF LeaveRun, WkType, IdleWk
    <3> QED
      BY <3>2, LooseHolds DEF Loose
  <2>4. CASE ~wk[w].rolling /\ ~wk[w].error
    <3>1. wk'[w] = NextDelete(wk[w], IF wk[w].kind = "scale" THEN "scale_finally"
                                                           ELSE "destroy_instance")
      BY <1>1, <1>22, <2>4 DEF DeleteFinally
    <3>2. wk[w].kind \in {"scale", "remove"}
      BY <1>0, <2>1, <2>4 DEF TaskOnPath, WkType
    <3>3. wk[w].kind = "remove" =>
            /\ lbOf'[wk[w].lb] = wk[w].name
            /\ ToSet(attached'[wk[w].lb]) \subseteq ToSet(wk[w].todo)
      BY <1>3, <2>1, <2>4 DEF DeletesOn
    <3> QED
      BY <1>0, <2>1, <3>1, <3>2, <3>3, NextDeleteHolds
  <2> QED
    BY <2>2, <2>3, <2>4
<1>23. CASE ScaleFinally(w) \/ Crash(w)
  <2>1. wk'[w] = IdleWk
    BY <1>1, <1>23 DEF ScaleFinally, Crash
  <2> QED
    BY <2>1, LooseHolds DEF Loose, IdleWk
<1>24. CASE DestroyInstance(w)
  <2>1. PICK pc : /\ pc = IF RetainLB THEN "destroy_hc" ELSE "destroy_lb"
                  /\ Only(wk'[w], wk[w], pc)
    BY <1>2, <1>24 DEF DestroyInstance
  <2>2. wk[w].pc = "destroy_instance" /\ UNCHANGED <<attached, lbOf, hostOf, hcs>>
    BY <1>24 DEF DestroyInstance, In
  <2> QED
    BY <1>3, <2>1, <2>2 DEF HoldsOn, AddsOn, DeletesOn, Only
<1>25. CASE DestroyLB(w)
  <2>1. CASE In(w, "destroy_lb")
    BY <1>4, <1>25, <2>1 DEF DestroyLB, Loose
  <2>2. CASE In(w, "rollback_lb") /\ ~In(w, "destroy_lb")
    <3>1. wk'[w] = RollbackHost(wk[w])
      BY <1>1, <1>25, <2>2 DEF DestroyLB
    <3>2. wk'[w].pc \in {"rollback_hc", "destroy_host"} /\ wk'[w].kind = wk[w].kind
      BY <1>0, <3>1 DEF RollbackHost, WkType
    <3>3. wk[w].kind # "remove"
      BY <1>0, <2>2 DEF TaskOnPath, In, RollbackPcs
    <3> QED
      BY <3>2, <3>3, LooseHolds DEF Loose
  <2> QED
    BY <1>25, <2>1, <2>2 DEF DestroyLB
<1>26. CASE DestroyHC(w)
  <2>1. CASE In(w, "destroy_hc")
    <3>1. wk'[w] = IdleWk
      BY <1>1, <1>26, <2>1 DEF DestroyHC
    <3> QED
      BY <3>1, LooseHolds DEF Loose, IdleWk
  <2>2. CASE In(w, "rollback_hc") /\ ~In(w, "destroy_hc")
    <3>1. Only(wk'[w], wk[w], "add_finally")
      BY <1>2, <1>26, <2>2 DEF DestroyHC
    <3>2. wk[w].error
      BY <1>0, <2>2 DEF TaskOnPath, In, RollbackPcs
    <3> QED
      BY <3>1, <3>2, LooseHolds DEF Only
  <2> QED
    BY <1>26, <2>1, <2>2 DEF DestroyHC
<1>27. CASE TaskRaises(w) \/ CallFails(w)
  <2>1. /\ wk'[w] = Handler(wk[w]) /\ wk[w].pc \notin FinallyPcs \cup {"idle"}
        /\ UNCHANGED <<attached, lbOf, hostOf, hcs>> /\ faults' \in Nat
    BY <1>0, <1>1, <1>27 DEF TaskRaises, CallFails, MustRaise, FinallyPcs
  <2>2. CASE wk[w].lb \in LBs
    <3>1. CASE CallFails(w)
      <4>1. faults' >= 1
        BY <1>0, <3>1 DEF CallFails
      <4> QED
        BY <1>0, <1>3, <2>1, <2>2, <4>1, HandlerHolds
    <3>2. CASE TaskRaises(w)
      <4>1. ASSUME wk[w].kind = "new", hostOf[wk[w].host] = wk[w].name,
                   wk[w].pc \in {"add_host", "wait_healthcheck", "add_url"}
            PROVE  FALSE
        <5>1. wk[w].name \in Names /\ wk[w].name # "destroyed"
          BY <1>0, <4>1, ConstantsAssumption DEF WkRecordOK
        <5>2. lbOf[wk[w].lb] = wk[w].name /\ wk[w].name \in hcs
          BY <1>3, <2>2, <4>1 DEF AddsOn
        <5> QED
          BY <3>2, <4>1, <5>1, <5>2 DEF TaskRaises, MustRaise
      <4> QED
        BY <1>0, <1>3, <2>1, <2>2, <4>1, HandlerHolds
    <3> QED
      BY <1>27, <3>1, <3>2
  <2>3. CASE wk[w].lb \notin LBs
    <3>1. wk'[w] = IdleWk \/ GoesOn(wk'[w], wk[w])
      BY <1>0, <2>1, HandlerGoesOn
    <3> QED
      BY <2>3, <3>1, ConstantsAssumption DEF GoesOn, SameTask, HoldsOn, IdleWk
  <2> QED
    BY <2>2, <2>3
<1> QED
  BY <1>11, <1>12, <1>13, <1>14, <1>15, <1>16, <1>17, <1>18, <1>19, <1>20, <1>21, <1>22,
     <1>23, <1>24, <1>25, <1>26, <1>27 DEF WorkerStep, AddHostStep, DeleteHostStep

LEMMA StepHeldTasks == TypeInv /\ SerialInv /\ FleetInv /\ HeldTasks /\ [Next]_vars => HeldTasks'
<1> SUFFICES ASSUME TypeInv, SerialInv, FleetInv, HeldTasks, [Next]_vars PROVE HeldTasks'
  OBVIOUS
<1>1. ASSUME UNCHANGED <<wk, lbOf, attached, hostOf, hcs, faults>> PROVE HeldTasks'
  BY <1>1 DEF HeldTasks
<1>2. CASE UNCHANGED vars
  BY <1>1, <1>2 DEF vars, cloudVars, storeVars, boundVars
<1>3. ASSUME NEW t \in Teams, NEW q \in QuotaValues, SetTeamQuota(t, q)
      PROVE  HeldTasks'
  BY <1>1, <1>3 DEF SetTeamQuota, cloudVars, storeVars, boundVars
<1>4. ASSUME NEW r \in Requests, RequestStep(r) \/ RequestRaises(r)
      PROVE  HeldTasks'
  BY <1>1, <1>4 DEF RequestStep, RequestRaises, IncrementQuota, FindLB, CreateTask,
     WriteHealthcheck, FindMetadata, StoreMetadata, DecrementQuota, RemoveTask,
     RemoveMetadata, Delay, UpdateTask, cloudVars, storeVars, boundVars
<1>5. ASSUME NEW w \in Workers, WorkerStep(w) \/ CallFails(w) \/ Crash(w)
      PROVE  HeldTasks'
  <2>1. \A v \in Workers \ {w} : wk'[v] = wk[v]
    <3>1. CASE TakeTask(w)
      BY <3>1, TakeIsNew
    <3>2. CASE ~TakeTask(w)
      <4>1. PICK t : wk' = [wk EXCEPT ![w] = t]
        BY <1>5, <3>2, WorkerGoesOn DEF FleetInv
      <4> QED
        BY <4>1 DEF TypeInv, TypeOK
    <3> QED
      BY <3>1, <3>2
  <2>2. ASSUME NEW v \in Workers, v # w
        PROVE  HoldsOn(wk'[v], attached', lbOf', hcs', hostOf', faults')
    BY <1>5, <2>1, <2>2, OthersKeepHeld
  <2>3. HoldsOn(wk'[w], attached', lbOf', hcs', hostOf', faults')
    <3>1. CASE TakeTask(w)
      <4>1. PICK t : wk' = [wk EXCEPT ![w] = t] /\ TakenTask(t, queue[1])
        BY <3>1, TakeTaskTakes
      <4>2. wk'[w] = t
        BY <4>1 DEF TypeInv, TypeOK
      <4> QED
        BY <4>1, <4>2, ConstantsAssumption DEF TakenTask, HoldsOn
    <3>2. CASE ~TakeTask(w)
      BY <1>5, <3>2, TaskKeepsHeld
    <3> QED
      BY <3>1, <3>2
  <2>4. ASSUME NEW l \in LBs, lbOf'[l] = "unused"
        PROVE  attached'[l] = <<>>
    <3>1. /\ lbOf \in [LBs -> Names \cup {"unused", "destroyed"}]
          /\ attached \in [LBs -> Seq(Hosts)]
      BY DEF TypeInv, TypeOK
    <3>2. wk[w].lb \in LBs => lbOf[wk[w].lb] # "unused"
      <4> SUFFICES ASSUME wk[w].lb \in LBs PROVE lbOf[wk[w].lb] # "unused"
        OBVIOUS
      <4>1. wk[w].name \in Names
        BY ConstantsAssumption DEF FleetInv, TasksOnPath, TaskOnPath, TypeInv, RecordsOK,
           WkRecordOK
      <4> QED
        BY <4>1, ConstantsAssumption DEF FleetInv, Owned
    <3>3. wk[w].pc \in {"add_host", "remove_host", "destroy_lb", "rollback_lb"} =>
            wk[w].lb \in LBs
      BY DEF TypeInv, RecordsOK, WkRecordOK
    <3>4. lbOf[l] = "unused" => attached[l] = <<>>
      BY DEF HeldTasks
    <3>5. CASE CreateLB(w)
      <4>1. wk[w].name \in Names
        BY <3>5 DEF CreateLB, In, TypeInv, RecordsOK, WkRecordOK
      <4> QED
        BY <2>4, <3>1, <3>4, <3>5, <4>1, ConstantsAssumption DEF CreateLB
    <3>6. CASE AddHost(w) \/ RemoveHost(w)
      BY <2>4, <3>1, <3>2, <3>3, <3>4, <3>6 DEF AddHost, RemoveHost, In
    <3>7. CASE DestroyLB(w)
      BY <2>4, <3>1, <3>2, <3>3, <3>4, <3>7 DEF DestroyLB, In
    <3>8. CASE UNCHANGED <<lbOf, attached>>
      BY <2>4, <3>4, <3>8
    <3> QED
      BY <1>5, <3>5, <3>6, <3>7, <3>8, CloudSteps DEF CloudStep, CreateHost, DestroyHost
  <2> QED
    BY <2>2, <2>3, <2>4 DEF HeldTasks
<1>6. ASSUME NEW r \in Requests, NEW n \in Names,
             \/ \E t \in Teams : NewInstance(r, n, t)
             \/ RemoveInstance(r, n)
             \/ \E q \in Quantities : ScaleInstance(r, n, q)
             \/ UpdateInstance(r, n)
      PROVE  HeldTasks'
  BY <1>1, <1>6 DEF NewInstance, RemoveInstance, ScaleInstance, UpdateInstance, Begin,
     cloudVars, storeVars, boundVars
<1> QED
  BY <1>2, <1>3, <1>4, <1>5, <1>6 DEF Next

(* A machine is behind an LB of its instance, or a task has it in hand.    *)
Safe(n, h) ==
    \/ Behind(n, h)
    \/ \E w \in Workers : wk[w].name = n /\ AtHand(wk[w], h, faults)

LEMMA RollbackTakesHost ==
    ASSUME NEW t \in WkType, NEW f \in Nat, t.host \in Hosts, t.error, f >= 1
    PROVE  AtHand(RollbackHost(t), t.host, f) /\ RollbackHost(t).name = t.name
<1>1. PICK s : s = [t EXCEPT !.pc = "destroy_host", !.rolling = TRUE]
  OBVIOUS
<1>2. s.pc = "destroy_host" /\ s.host = t.host /\ s.error = t.error /\ s.name = t.name
  BY <1>1 DEF WkType
<1>3. RollbackHost(t) = s
  BY <1>1, ConstantsAssumption DEF RollbackHost
<1> QED
  BY <1>2, <1>3 DEF AtHand

LEMMA BehindStaysSafe ==
    ASSUME TypeInv, FleetInv, HeldTasks, NEW w \in Workers,
           WorkerStep(w) \/ CallFails(w) \/ Crash(w),
           NEW n \in Names, NEW h \in Hosts, hostOf[h] = n, Behind(n, h)
    PROVE  Safe(n, h)'
<1>0. /\ wk \in [Workers -> WkType] /\ wk[w] \in WkType /\ WkRecordOK(wk[w])
      /\ TaskOnPath(wk[w])
      /\ attached \in [LBs -> Seq(Hosts)] /\ lbOf \in [LBs -> Names \cup {"unused", "destroyed"}]
      /\ n \notin {"unused", "destroyed"} /\ faults \in Nat
      /\ wk[w].lb \in LBs => lbOf[wk[w].lb] \in {wk[w].name, "destroyed"}
  BY ConstantsAssumption
     DEF TypeInv, TypeOK, RecordsOK, FleetInv, TasksOnPath, Owned
<1>1. PICK l \in LBs : lbOf[l] = n /\ h \in ToSet(attached[l])
  BY DEF Behind
<1>2. ASSUME lbOf'[l] = n, h \in ToSet(attached'[l]) PROVE Safe(n, h)'
  BY <1>2 DEF Safe, Behind
<1>3. CASE CreateLB(w)
  BY <1>0, <1>1, <1>2, <1>3 DEF CreateLB, LBsOf
<1>4. CASE AddHost(w)
  <2>1. wk[w].lb \in LBs /\ wk[w].host \in Hosts /\ UNCHANGED lbOf
        /\ attached' = [attached EXCEPT ![wk[w].lb] = Append(@, wk[w].host)]
    BY <1>0, <1>4 DEF AddHost, In, WkRecordOK
  <2>2. ToSet(Append(attached[wk[w].lb], wk[w].host)) = ToSet(attached[wk[w].lb]) \cup {wk[w].host}
    BY <1>0, <2>1, ToSetAppend
  <2> QED
    BY <1>0, <1>1, <1>2, <2>1, <2>2
<1>5. CASE RemoveHost(w)
  <2>1. wk[w].pc = "remove_host" /\ wk[w].lb \in LBs /\ wk[w].host \in Hosts /\ UNCHANGED lbOf
        /\ attached' = [attached EXCEPT ![wk[w].lb] = Pull(@, wk[w].host)]
    BY <1>0, <1>5 DEF RemoveHost, In, WkRecordOK, DeletePcs
  <2>2. h # wk[w].host
    BY <1>0, <2>1 DEF HeldTasks, HoldsOn, DeletesOn
  <2>3. ToSet(Pull(attached[wk[w].lb], wk[w].host)) = ToSet(attached[wk[w].lb]) \ {wk[w].host}
    <3>1. IsInjective(attached[wk[w].lb])
      BY <2>1 DEF FleetInv, AttachedOnce
    <3> QED
      BY <1>0, <2>1, <3>1, PullProperties
  <2> QED
    BY <1>0, <1>1, <1>2, <2>1, <2>2, <2>3
<1>6. CASE DestroyLB(w)
  <2>1. /\ wk[w].pc \in {"destroy_lb", "rollback_lb"} /\ wk[w].lb \in LBs
        /\ lbOf[wk[w].lb] = wk[w].name
        /\ lbOf' = [lbOf EXCEPT ![wk[w].lb] = "destroyed"]
        /\ attached' = [attached EXCEPT ![wk[w].lb] = <<>>]
        /\ faults' = faults
    BY <1>0, <1>6 DEF DestroyLB, In, WkRecordOK, boundVars
  <2>2. CASE l # wk[w].lb
    BY <1>0, <1>1, <1>2, <2>1, <2>2
  <2>3. CASE l = wk[w].lb /\ wk[w].pc = "destroy_lb"
    BY <1>1, <2>3 DEF HeldTasks, HoldsOn, DeletesOn
  <2>4. CASE l = wk[w].lb /\ wk[w].pc = "rollback_lb"
    <3>1. wk[w].kind = "new" /\ wk[w].error /\ wk[w].name = n
      BY <1>0, <1>1, <2>1, <2>4 DEF TaskOnPath, RollbackPcs
    <3>2. AddsOn(wk[w], attached, lbOf, hcs, hostOf, faults)
      BY <2>1 DEF HeldTasks, HoldsOn
    <3>3. wk[w].host = h /\ faults >= 1
      BY <1>1, <2>4, <3>1, <3>2 DEF AddsOn
    <3>4. wk'[w] = RollbackHost(wk[w])
      BY <1>0, <1>6, <2>4 DEF DestroyLB, In, Set
    <3>5. AtHand(wk'[w], h, faults') /\ wk'[w].name = n
      BY <1>0, <2>1, <3>1, <3>3, <3>4, RollbackTakesHost
    <3> QED
      BY <3>5 DEF Safe
  <2> QED
    BY <2>1, <2>2, <2>3, <2>4
<1>7. CASE UNCHANGED <<lbOf, attached>>
  BY <1>1, <1>2, <1>7
<1> QED
  BY <1>3, <1>4, <1>5, <1>6, <1>7, CloudSteps DEF CloudStep, CreateHost, DestroyHost

LEMMA AtHandStaysSafe ==
    ASSUME Rollback = TRUE, TypeInv, FleetInv, HeldTasks, NEW w \in Workers,
           WorkerStep(w) \/ CallFails(w) \/ Crash(w),
           NEW n \in Names, NEW h \in Hosts, hostOf[h] = n, hostOf'[h] = n,
           wk[w].name = n, AtHand(wk[w], h, faults), faults' <= 1, crashes' = 0
    PROVE  Safe(n, h)'
<1>0. /\ wk \in [Workers -> WkType] /\ wk[w] \in WkType /\ WkRecordOK(wk[w])
      /\ TaskOnPath(wk[w])
      /\ attached \in [LBs -> Seq(Hosts)] /\ lbOf \in [LBs -> Names \cup {"unused", "destroyed"}]
      /\ hostOf \in [Hosts -> Names \cup {"unused", "destroyed"}]
      /\ n \notin {"unused", "destroyed"} /\ faults \in Nat /\ crashes \in Nat
  BY ConstantsAssumption
     DEF TypeInv, TypeOK, RecordsOK, FleetInv, TasksOnPath
<1>1. wk[w].host = h /\ wk[w].pc \in {"add_host", "rollback_lb", "destroy_host"}
      /\ wk[w].lb \in LBs
  BY <1>0 DEF AtHand, WkRecordOK, DeletePcs
<1>2. /\ AddsOn(wk[w], attached, lbOf, hcs, hostOf, faults)
  BY <1>1 DEF HeldTasks, HoldsOn
<1>3. ~Crash(w)
  BY <1>0 DEF Crash
<1>4. CASE wk[w].pc = "add_host"
  <2>1. lbOf[wk[w].lb] = n
    BY <1>2, <1>4 DEF AddsOn
  <2>2. CASE AddHost(w)
    <3>1. ToSet(Append(attached[wk[w].lb], h)) = ToSet(attached[wk[w].lb]) \cup {h}
      BY <1>0, <1>1, ToSetAppend
    <3>2. UNCHANGED lbOf /\ attached'[wk[w].lb] = Append(attached[wk[w].lb], h)
      BY <1>0, <1>1, <2>2 DEF AddHost
    <3>3. Behind(n, h)'
      BY <1>1, <2>1, <3>1, <3>2 DEF Behind
    <3> QED
      BY <3>3 DEF Safe
  <2>3. CASE CallFails(w)
    <3>1. faults' \in Nat /\ faults' >= 1 /\ wk'[w] = Handler(wk[w])
      BY <1>0, <2>3 DEF CallFails, Set
    <3>2. PICK f : f = [wk[w] EXCEPT !.error = TRUE]
      OBVIOUS
    <3>3. f \in WkType /\ f.error /\ f.host = h /\ f.name = n /\ f.fresh = wk[w].fresh
      BY <1>0, <1>1, <3>2 DEF WkType
    <3>4. wk[w].lb # Nothing
      BY <1>1, ConstantsAssumption
    <3>5. Handler(wk[w]) = IF wk[w].fresh THEN [f EXCEPT !.pc = "rollback_lb"]
                                          ELSE RollbackHost(f)
      BY <1>4, <3>2, <3>4 DEF Handler, AddPcs, DeletePcs
    <3>6. CASE wk[w].fresh
      <4>1. PICK s : s = [f EXCEPT !.pc = "rollback_lb"]
        OBVIOUS
      <4>2. s.pc = "rollback_lb" /\ s.host = h /\ s.error /\ s.name = n
        BY <3>3, <4>1 DEF WkType
      <4>3. wk'[w].name = n /\ AtHand(wk'[w], h, faults')
        BY <3>1, <3>5, <3>6, <4>1, <4>2 DEF AtHand
      <4> QED
        BY <4>3 DEF Safe
    <3>7. CASE ~wk[w].fresh
      <4>1. wk'[w].name = n /\ AtHand(wk'[w], h, faults')
        BY <3>1, <3>3, <3>5, <3>7, RollbackTakesHost
      <4> QED
        BY <4>1 DEF Safe
    <3> QED
      BY <3>6, <3>7
  <2>4. ~TaskRaises(w)
    BY <1>0, <1>4, <2>1 DEF TaskRaises, MustRaise
  <2> QED
    BY <1>3, <1>4, <2>2, <2>3, <2>4 DEF WorkerStep, AddHostStep, DeleteHostStep, TakeTask,
       TaskFindLB, CreateLB, CreateHC, CreateHost, WaitHealthcheck, AddURL, AddFinally,
       DestroyHost, RemoveHost, RemoveURL, DeleteFinally, ScaleFinally, DestroyInstance,
       DestroyLB, DestroyHC, In
<1>5. CASE wk[w].pc = "rollback_lb"
  <2>1. wk[w].error /\ faults >= 1
    BY <1>5 DEF AtHand
  <2>2. ~CallFails(w)
    BY <1>0, <2>1 DEF CallFails
  <2>3. ASSUME TaskRaises(w) \/ DestroyLB(w)
        PROVE  Safe(n, h)'
    <3>1. wk'[w] = RollbackHost(wk[w]) /\ faults' = faults
      <4>1. CASE TaskRaises(w)
        <5>1. Handler(wk[w]) = RollbackHost(wk[w])
          BY <1>5 DEF Handler, AddPcs, DeletePcs
        <5> QED
          BY <1>0, <4>1, <5>1 DEF TaskRaises, Set, boundVars
      <4>2. CASE DestroyLB(w)
        BY <1>0, <1>5, <4>2 DEF DestroyLB, In, Set, boundVars
      <4> QED
        BY <2>3, <4>1, <4>2
    <3>2. wk'[w].name = n /\ AtHand(wk'[w], h, faults')
      BY <1>0, <1>1, <2>1, <3>1, RollbackTakesHost
    <3> QED
      BY <3>2 DEF Safe
  <2> QED
    BY <1>3, <1>5, <2>2, <2>3 DEF WorkerStep, AddHostStep, DeleteHostStep, TakeTask,
       TaskFindLB, CreateLB, CreateHC, CreateHost, AddHost, WaitHealthcheck, AddURL, AddFinally,
       DestroyHost, RemoveHost, RemoveURL, DeleteFinally, ScaleFinally, DestroyInstance,
       DestroyHC, In
<1>6. CASE wk[w].pc = "destroy_host"
  <2>1. faults >= 1
    BY <1>6 DEF AtHand
  <2>2. ~CallFails(w)
    BY <1>0, <2>1 DEF CallFails
  <2>3. ~TaskRaises(w)
    BY <1>0, <1>1, <1>6 DEF TaskRaises, MustRaise
  <2>4. ~DestroyHost(w)
    BY <1>0, <1>1 DEF DestroyHost
  <2> QED
    BY <1>3, <1>6, <2>2, <2>3, <2>4 DEF WorkerStep, AddHostStep, DeleteHostStep, TakeTask,
       TaskFindLB, CreateLB, CreateHC, CreateHost, AddHost, WaitHealthcheck, AddURL, AddFinally,
       RemoveHost, RemoveURL, DeleteFinally, ScaleFinally, DestroyInstance,
       DestroyLB, DestroyHC, In
<1> QED
  BY <1>1, <1>4, <1>5, <1>6

LEMMA WorkerKeepsKept ==
    ASSUME Rollback = TRUE, TypeInv, FleetInv, HeldTasks, Kept, NEW w \in Workers,
           WorkerStep(w) \/ CallFails(w) \/ Crash(w)
    PROVE  Kept'
<1> SUFFICES ASSUME faults' <= 1, crashes' = 0, NEW h \in Hosts, NEW n \in Names,
                    hostOf'[h] = n
             PROVE  Safe(n, h)'
  BY DEF Kept, Safe
<1>1. /\ faults \in Nat /\ faults' \in Nat /\ faults <= faults' /\ faults <= 1 /\ crashes = 0
  <2>1. faults \in Nat /\ crashes \in Nat
    BY DEF TypeInv, TypeOK
  <2>2. crashes' \in {crashes, crashes + 1}
    BY DEF WorkerStep, AddHostStep, DeleteHostStep, TakeTask,
       TaskFindLB, CreateLB, CreateHC, CreateHost, AddHost, WaitHealthcheck, AddURL, AddFinally,
       DestroyHost, RemoveHost, RemoveURL, DeleteFinally, ScaleFinally, DestroyInstance,
       DestroyLB, DestroyHC, TaskRaises, CallFails, Crash, boundVars
  <2>3. faults' \in Nat /\ faults' >= faults
    BY MachinesMove
  <2> QED
    BY <2>1, <2>2, <2>3
<1>2. CASE hostOf[h] = n
  <2>1. Safe(n, h)
    BY <1>1, <1>2 DEF Kept, Safe
  <2>2. CASE Behind(n, h)
    BY <1>2, <2>2, BehindStaysSafe
  <2>3. CASE ~Behind(n, h)
    <3>1. PICK v \in Workers : wk[v].name = n /\ AtHand(wk[v], h, faults)
      BY <2>1, <2>3 DEF Safe
    <3>2. CASE v = w
      BY <1>2, <3>1, <3>2, AtHandStaysSafe
    <3>3. CASE v # w
      <4>1. wk'[v] = wk[v]
        <5>1. CASE TakeTask(w)
          BY <3>3, <5>1, TakeIsNew
        <5>2. CASE ~TakeTask(w)
          <6>1. PICK t : wk' = [wk EXCEPT ![w] = t]
            BY <5>2, WorkerGoesOn DEF FleetInv
          <6> QED
            BY <3>3, <6>1 DEF TypeInv, TypeOK
        <5> QED
          BY <5>1, <5>2
      <4>2. AtHand(wk'[v], h, faults') /\ wk'[v].name = n
        BY <1>1, <3>1, <4>1 DEF AtHand
      <4> QED
        BY <4>2 DEF Safe
    <3> QED
      BY <3>2, <3>3
  <2> QED
    BY <2>2, <2>3
<1>3. CASE hostOf[h] # n
  <2>0. hostOf \in [Hosts -> Names \cup {"unused", "destroyed"}] /\ wk \in [Workers -> WkType]
        /\ n # "destroyed"
    BY ConstantsAssumption DEF TypeInv, TypeOK
  <2>1. CASE CreateHost(w)
    <3>1. PICK g \in Hosts : /\ hostOf' = [hostOf EXCEPT ![g] = wk[w].name]
                             /\ Set(w, [wk[w] EXCEPT !.pc = "add_host", !.host = g])
      BY <2>1 DEF CreateHost
    <3>2. g = h /\ wk[w].name = n
      BY <1>3, <2>0, <3>1
    <3>3. wk'[w] = [wk[w] EXCEPT !.pc = "add_host", !.host = h]
      BY <2>0, <3>1, <3>2 DEF Set
    <3>4. wk'[w].name = n /\ wk'[w].pc = "add_host" /\ wk'[w].host = h
      BY <2>0, <3>2, <3>3 DEF WkType
    <3> QED
      BY <3>4 DEF Safe, AtHand
  <2>2. CASE DestroyHost(w)
    BY <1>3, <2>0, <2>2 DEF DestroyHost
  <2>3. CASE UNCHANGED hostOf
    BY <1>3, <2>3
  <2> QED
    BY <2>1, <2>2, <2>3, CloudSteps DEF CloudStep, CreateLB, AddHost, RemoveHost, DestroyLB
<1> QED
  BY <1>2, <1>3

LEMMA StepKept ==
    Rollback = TRUE /\ TypeInv /\ FleetInv /\ HeldTasks /\ Kept /\ [Next]_vars => Kept'
<1> SUFFICES ASSUME Rollback = TRUE, TypeInv, FleetInv, HeldTasks, Kept, [Next]_vars
             PROVE  Kept'
  OBVIOUS
<1>1. ASSUME UNCHANGED <<wk, lbOf, attached, hostOf, faults, crashes>> PROVE Kept'
  BY <1>1 DEF Kept, Behind
<1>2. CASE UNCHANGED vars
  BY <1>1, <1>2 DEF vars, cloudVars, boundVars
<1>3. ASSUME NEW t \in Teams, NEW q \in QuotaValues, SetTeamQuota(t, q)
      PROVE  Kept'
  BY <1>1, <1>3 DEF SetTeamQuota, cloudVars, boundVars
<1>4. ASSUME NEW r \in Requests, RequestStep(r) \/ RequestRaises(r)
      PROVE  Kept'
  BY <1>1, <1>4 DEF RequestStep, RequestRaises, IncrementQuota, FindLB, CreateTask,
     WriteHealthcheck, FindMetadata, StoreMetadata, DecrementQuota, RemoveTask,
     RemoveMetadata, Delay, UpdateTask, cloudVars, boundVars
<1>5. ASSUME NEW w \in Workers, WorkerStep(w) \/ CallFails(w) \/ Crash(w)
      PROVE  Kept'
  BY <1>5, WorkerKeepsKept
<1>6. ASSUME NEW r \in Requests, NEW n \in Names,
             \/ \E t \in Teams : NewInstance(r, n, t)
             \/ RemoveInstance(r, n)
             \/ \E q \in Quantities : ScaleInstance(r, n, q)
             \/ UpdateInstance(r, n)
      PROVE  Kept'
  BY <1>1, <1>6 DEF NewInstance, RemoveInstance, ScaleInstance, UpdateInstance, Begin,
     cloudVars, boundVars
<1> QED
  BY <1>2, <1>3, <1>4, <1>5, <1>6 DEF Next

(* NoOrphanMachine, for clients that wait until all work on the instance   *)
(* is over and with rollback configured: with at most one failed call and  *)
(* no killed worker, every machine of an instance nobody works on is       *)
(* behind its LB (_add_host and _delete_host, tasks.py).                   *)
THEOREM StrandsNothing ==
    ASSUME Client \in {"patient", "orderly"}, Rollback = TRUE
    PROVE  Spec => []NoOrphanMachine
<1> DEFINE IInv == TypeInv /\ SerialInv /\ FleetInv /\ HeldTasks /\ Kept
<1>1. Init => IInv
  <2>1. Init => HeldTasks
    BY ConstantsAssumption DEF Init, HeldTasks, HoldsOn, IdleWk
  <2>2. Init => Kept
    BY ConstantsAssumption DEF Init, Kept
  <2> QED
    BY <2>1, <2>2, InitLBInv, InitFleet DEF LBInv, SerialInv
<1>2. IInv /\ [Next]_vars => IInv'
  BY StepTypes, StepSerialInv, StepFleet, StepHeldTasks, StepKept DEF Waits
<1>3. IInv => NoOrphanMachine
  <2> SUFFICES ASSUME IInv, NEW n \in Names, Quiet(n), faults <= 1, crashes = 0,
                      NEW h \in Hosts, hostOf[h] = n
               PROVE  \E l \in LBsOf(n) : Contains(attached[l], h)
    BY DEF NoOrphanMachine
  <2>1. attached \in [LBs -> Seq(Hosts)]
    BY DEF TypeInv, TypeOK
  <2>2. Behind(n, h)
    <3>1. ASSUME NEW w \in Workers, wk[w].name = n, AtHand(wk[w], h, faults) PROVE FALSE
      BY <3>1 DEF AtHand, Quiet, InTask
    <3> QED
      BY <3>1 DEF Kept
  <2>3. PICK l \in LBs : lbOf[l] = n /\ h \in ToSet(attached[l])
    BY <2>2 DEF Behind
  <2>4. Contains(attached[l], h)
    BY <2>1, <2>3 DEF Contains, ToSet
  <2> QED
    BY <2>3, <2>4 DEF LBsOf
<1> HIDE DEF IInv
<1> QED
  BY <1>1, <1>2, <1>3, PTL DEF Spec
-----------------------------------------------------------------------------
(***************************************************************************)
(* Agreement of the stores.  As long as nothing has failed, the work of an *)
(* orderly client takes an instance through a fixed line of stages: which  *)
(* stores have it, and which machines are where, at each call of its       *)
(* requests and tasks.                                                     *)
(***************************************************************************)

Calm == reqFaults = 0 /\ faults = 0 /\ crashes = 0

BehindOf(n, owner, behind) ==
    {h \in Hosts : \E l \in LBs : owner[l] = n /\ h \in ToSet(behind[l])}

(* What the stores and the cloud have of instance n. *)
Stores == {"bill", "metadata", "keys", "check"}

Shelf(n) ==
    [in |-> {x \in Stores : CASE x = "bill" -> Charged(n)
                              [] x = "metadata" -> n \in metadata
                              [] x = "keys" -> n \in kv
                              [] OTHER -> n \in hcs},
     urls |-> urls[n], machines |-> {h \in Hosts : hostOf[h] = n},
     behind |-> BehindOf(n, lbOf, attached), lbs |-> LBsOf(n)]

(* The stores in S have the instance; it has no LB and no machine.         *)
Planned(s, S) ==
    s.in = S /\ s.lbs = {} /\ s.urls = {} /\ s.machines = {} /\ s.behind = {}
Absent(s) == Planned(s, {})

(* It has an LB, and all its machines are behind it and in the check.      *)
Even(s, S) == s.in = S /\ s.lbs # {} /\ s.urls = s.behind /\ s.machines = s.behind
Whole(s) == Even(s, Stores)

(* Where the instance is when a request about it makes its next call.      *)
ReqStage(q, s) ==
    /\ q.op = "new" =>
          /\ q.pc = "increment_quota" => Whole(s) \/ Absent(s)
          /\ q.pc = "find_lb" => Whole(s) \/ Planned(s, {"bill"})
          /\ q.pc \in {"create_task", "write_healthcheck"} => Planned(s, {"bill"})
          /\ q.pc = "store_metadata" => Planned(s, {"bill", "keys"})
          /\ q.pc = "delay" => Planned(s, {"bill", "keys", "metadata"})
    /\ q.op = "remove" =>
          /\ q.pc = "decrement_quota" => Whole(s) \/ Absent(s)
          /\ q.pc \in {"remove_task", "remove_metadata"} =>
                Even(s, Stores \ {"bill"}) \/ Absent(s)
          /\ q.pc = "delay" => Even(s, {"keys", "check"}) \/ Absent(s)
    /\ q.op = "scale" => Whole(s)
    /\ q.op = "update" => Whole(s) \/ (Absent(s) /\ q.pc # "store_metadata")

(* When its task starts.                                                   *)
StartStage(kind, s) ==
    /\ kind = "new" => Planned(s, {"bill", "keys", "metadata"})
    /\ kind = "remove" => Even(s, {"keys", "check"}) \/ Absent(s)
    /\ kind = "scale" => Whole(s)

(* While machines are added to the one LB.                                 *)
AddStage(t, s) ==
    /\ s.lbs = {t.lb}
    /\ s.in = IF t.pc = "create_hc" THEN Stores \ {"check"} ELSE Stores
    /\ t.pc = "create_hc" => s.urls = {}
    /\ t.pc \in {"create_hc", "create_host", "add_finally"} =>
          s.urls = s.behind /\ s.machines = s.behind
    /\ t.pc = "add_host" => s.urls = s.behind /\ s.machines = s.behind \cup {t.host}
    /\ t.pc \in {"wait_healthcheck", "add_url"} =>
          s.behind = s.urls \cup {t.host} /\ s.machines = s.behind

(* While they are deleted: the one in hand and those after it.             *)
DeleteStage(t, s) ==
    /\ s.lbs = {t.lb}
    /\ s.in = IF t.kind = "remove" THEN {"keys", "check"} ELSE Stores
    /\ IsInjective(t.todo) /\ ToSet(t.todo) \subseteq s.behind \ {t.host}
    /\ t.kind = "remove" => s.behind \ {t.host} \subseteq ToSet(t.todo)
    /\ t.pc = "destroy_host" =>
          s.urls = s.behind /\ s.machines = s.behind /\ t.host \in s.behind
    /\ t.pc = "remove_host" =>
          s.urls = s.behind /\ s.machines = s.behind \ {t.host} /\ t.host \in s.behind
    /\ t.pc = "remove_url" =>
          /\ s.urls = s.behind \cup {t.host} /\ s.machines = s.behind
          /\ t.host \notin s.behind
    /\ t.pc = "delete_finally" =>
          s.urls = s.behind /\ s.machines = s.behind /\ t.host \notin s.behind

(* When a task about it makes its next call.                               *)
TaskStage(t, s) ==
    /\ ~t.error
    /\ t.pc \in {"find_lb", "create_lb"} => StartStage(t.kind, s)
    /\ t.pc \in {"create_hc", "create_host", "add_host", "wait_healthcheck", "add_url",
                 "add_finally"} => AddStage(t, s)
    /\ t.pc \in DeletePcs \cup {"delete_finally"} => DeleteStage(t, s)
    /\ t.pc = "scale_finally" => Whole(s)
    /\ t.pc \in {"destroy_instance", "destroy_lb"} =>
          /\ s.lbs = {t.lb} /\ s.behind = {}
          /\ Even(s, IF t.pc = "destroy_lb" THEN {"check"} ELSE {"keys", "check"})
    /\ t.pc = "destroy_hc" => Planned(s, {"check"})

(* Who may have created the task document of an instance.                  *)
HoldsDoc(q) ==
    \/ q.op = "remove" /\ q.pc \in {"decrement_quota", "remove_task"}
    \/ q.op \in {"new", "scale"} /\ q.pc \in {"write_healthcheck", "find_metadata",
                                              "store_metadata", "delay"}

(* No request but one that has enqueued its task, and no task.             *)
Rested(n) ==
    /\ \A r \in Requests : req[r].name = n => req[r].pc \in {"idle", "update_task"}
    /\ ~InTask(n)

Staged(n) ==
    /\ \A r \in Requests :
          req[r].name = n /\ req[r].pc \notin {"idle", "update_task"} =>
              ReqStage(req[r], Shelf(n))
    /\ \A i \in DOMAIN queue : queue[i].name = n => StartStage(queue[i].kind, Shelf(n))
    /\ \A w \in Workers :
          wk[w].pc # "idle" /\ wk[w].name = n => TaskStage(wk[w], Shelf(n))
    /\ Rested(n) => Whole(Shelf(n)) \/ Absent(Shelf(n))

Documented(n) ==
    taskDoc[n] # "none" =>
        \/ \E r \in Requests : req[r].name = n /\ HoldsDoc(req[r])
        \/ \E i \in DOMAIN queue : queue[i].name = n /\ queue[i].kind # "remove"
        \/ \E w \in Workers :
              wk[w].name = n /\ wk[w].pc # "idle" /\ wk[w].kind # "remove"

(* hm has an LB and a machine for every task that is about to ask for one. *)
Supplied ==
    \A w \in Workers :
        /\ In(w, "create_lb") => LBsOf("unused") # {}
        /\ In(w, "create_host") => \E h \in Hosts : hostOf[h] = "unused"

AllStaged == \A n \in Names : Staged(n) /\ Documented(n)
StoreInv == Calm => AllStaged

-----------------------------------------------------------------------------
LEMMA ContainsToSet ==
    ASSUME NEW S, NEW s \in Seq(S), NEW e
    PROVE  Contains(s, e) <=> e \in ToSet(s)
<1>1. DOMAIN s = 1..Len(s)
  OBVIOUS
<1> QED
  BY <1>1 DEF Contains, ToSet

(* Which fields of the shelf which variables are behind.                   *)
LEMMA ShelfFrame ==
    ASSUME NEW n
    PROVE  /\ Shelf(n).in \subseteq Stores
           /\ "bill" \in Shelf(n).in <=> Charged(n)
           /\ "metadata" \in Shelf(n).in <=> n \in metadata
           /\ "keys" \in Shelf(n).in <=> n \in kv
           /\ "check" \in Shelf(n).in <=> n \in hcs
           /\ Shelf(n).urls = urls[n]
           /\ Shelf(n).machines = {h \in Hosts : hostOf[h] = n}
           /\ Shelf(n).behind = BehindOf(n, lbOf, attached)
           /\ Shelf(n).lbs = {l \in LBs : lbOf[l] = n}
BY DEF Shelf, LBsOf, Stores

LEMMA ShelfFrameNext ==
    ASSUME NEW n
    PROVE  /\ Shelf(n)'.in \subseteq Stores
           /\ "bill" \in Shelf(n)'.in <=> Charged(n)'
           /\ "metadata" \in Shelf(n)'.in <=> n \in metadata'
           /\ "keys" \in Shelf(n)'.in <=> n \in kv'
           /\ "check" \in Shelf(n)'.in <=> n \in hcs'
           /\ Shelf(n)'.urls = urls'[n]
           /\ Shelf(n)'.machines = {h \in Hosts : hostOf'[h] = n}
           /\ Shelf(n)'.behind = BehindOf(n, lbOf', attached')
           /\ Shelf(n)'.lbs = {l \in LBs : lbOf'[l] = n}
BY DEF Shelf, LBsOf, Stores

OnlyLB(n, owner, l) == {k \in LBs : owner[k] = n} = {l}

LEMMA BehindOne ==
    ASSUME NEW n, NEW owner, NEW behind \in [LBs -> Seq(Hosts)], NEW l \in LBs,
           OnlyLB(n, owner, l)
    PROVE  BehindOf(n, owner, behind) = ToSet(behind[l])
<1>1. ToSet(behind[l]) \subseteq Hosts
  BY DEF ToSet
<1>2. \A k \in LBs : owner[k] = n <=> k = l
  BY DEF OnlyLB
<1> QED
  BY <1>1, <1>2 DEF BehindOf

LEMMA BehindNone ==
    ASSUME NEW n, NEW owner, NEW behind, \A k \in LBs : owner[k] # n
    PROVE  BehindOf(n, owner, behind) = {}
BY DEF BehindOf

(* Two shelves are the same if their fields are.                           *)
SameShelf(n) ==
    /\ Charged(n)' <=> Charged(n)
    /\ n \in metadata' <=> n \in metadata
    /\ n \in kv' <=> n \in kv
    /\ n \in hcs' <=> n \in hcs
    /\ urls'[n] = urls[n]
    /\ \A h \in Hosts : hostOf'[h] = n <=> hostOf[h] = n
    /\ \A l \in LBs : lbOf'[l] = n <=> lbOf[l] = n
    /\ \A l \in LBs : lbOf[l] = n => attached'[l] = attached[l]

LEMMA ShelfSame ==
    ASSUME NEW n, SameShelf(n)
    PROVE  Shelf(n)' = Shelf(n)
<1>1. {x \in Stores : CASE x = "bill" -> Charged(n)'
                        [] x = "metadata" -> n \in metadata'
                        [] x = "keys" -> n \in kv'
                        [] OTHER -> n \in hcs'}
      = {x \in Stores : CASE x = "bill" -> Charged(n)
                          [] x = "metadata" -> n \in metadata
                          [] x = "keys" -> n \in kv
                          [] OTHER -> n \in hcs}
  BY DEF SameShelf, Stores
<1>2. {h \in Hosts : hostOf'[h] = n} = {h \in Hosts : hostOf[h] = n}
  BY DEF SameShelf
<1>3. LBsOf(n)' = LBsOf(n)
  BY DEF SameShelf, LBsOf
<1>4. BehindOf(n, lbOf', attached') = BehindOf(n, lbOf, attached)
  BY DEF SameShelf, BehindOf
<1>5. urls'[n] = urls[n]
  BY DEF SameShelf
<1> QED
  BY <1>1, <1>2, <1>3, <1>4, <1>5 DEF Shelf

LEMMA BillAdds ==
    ASSUME NEW bills \in [Teams -> Seq(Names)], NEW t \in Teams, NEW n \in Names
    PROVE  /\ AddToSet(bills[t], n) \in Seq(Names)
           /\ ToSet(AddToSet(bills[t], n)) = ToSet(bills[t]) \cup {n}
<1>1. bills[t] \in Seq(Names)
  OBVIOUS
<1> QED
  BY <1>1, AddToSetProperties

LEMMA BillsOfOthers ==
    ASSUME TypeInv, BillsOK, NEW r \in Requests, RequestStep(r), NEW n \in Names,
           n # req[r].name
    PROVE  Charged(n)' <=> Charged(n)
<1>0. used \in [Teams -> Seq(Names)] /\ req[r] \in ReqType /\ ReqRecordOK(req[r])
  BY DEF TypeInv, TypeOK, RecordsOK
<1>1. CASE UNCHANGED used
  BY <1>1 DEF Charged
<1>2. CASE IncrementQuota(r) /\ ~UNCHANGED used
  <2> PICK t : t = req[r].team
    OBVIOUS
  <2>a. req[r].pc = "increment_quota" /\ used' = [used EXCEPT ![req[r].team] = Billed(r)]
    BY <1>2 DEF IncrementQuota, At
  <2>1. t \in Teams /\ used' = [used EXCEPT ![t] = AddToSet(used[t], req[r].name)]
    BY <1>0, <2>a DEF Billed, ReqRecordOK
  <2>2. req[r].name \in Names
    BY <1>0, <1>2 DEF IncrementQuota, At, ReqRecordOK
  <2>3. /\ AddToSet(used[t], req[r].name) \in Seq(Names)
        /\ ToSet(AddToSet(used[t], req[r].name)) = ToSet(used[t]) \cup {req[r].name}
    BY ZenonT(60), <1>0, <2>1, <2>2, BillAdds
  <2>4. \A u \in Teams : Contains(used'[u], n) <=> Contains(used[u], n)
    <3> SUFFICES ASSUME NEW u \in Teams
                 PROVE  Contains(used'[u], n) <=> Contains(used[u], n)
      OBVIOUS
    <3>1. CASE u = t
      BY <1>0, <2>1, <2>3, <3>1, ContainsToSet
    <3>2. CASE u # t
      BY <1>0, <2>1, <3>2
    <3> QED
      BY <3>1, <3>2
  <2> QED
    BY <2>4 DEF Charged
<1>3. CASE DecrementQuota(r)
  <2>1. used' = [t \in Teams |-> Pull(used[t], req[r].name)]
    BY <1>3 DEF DecrementQuota, Unbilled
  <2>2. \A u \in Teams : Contains(used'[u], n) <=> Contains(used[u], n)
    <3> SUFFICES ASSUME NEW u \in Teams
                 PROVE  Contains(used'[u], n) <=> Contains(used[u], n)
      OBVIOUS
    <3>1. /\ Pull(used[u], req[r].name) \in Seq(Names)
          /\ ToSet(Pull(used[u], req[r].name)) = ToSet(used[u]) \ {req[r].name}
      BY <1>0, PullProperties DEF BillsOK
    <3> QED
      BY <1>0, <2>1, <3>1, ContainsToSet
  <2> QED
    BY <2>2 DEF Charged
<1> QED
  BY <1>1, <1>2, <1>3 DEF RequestStep, FindLB, CreateTask, WriteHealthcheck, FindMetadata,
     StoreMetadata, RemoveTask, RemoveMetadata, Delay, UpdateTask, quotaVars

(* A step of a request leaves the other instances alone.                   *)
LEMMA RequestElsewhere ==
    ASSUME TypeInv, BillsOK, NEW r \in Requests, RequestStep(r), NEW n \in Names,
           n # req[r].name
    PROVE  Shelf(n)' = Shelf(n) /\ taskDoc'[n] = taskDoc[n]
<1>0. /\ taskDoc \in [Names -> {"none", "created", "queued"}]
      /\ n \notin {req[r].name}
  BY DEF TypeInv, TypeOK
<1>1. Charged(n)' <=> Charged(n)
  BY BillsOfOthers
<1>2. /\ UNCHANGED <<hcs, urls, cloudVars>>
      /\ n \in metadata' <=> n \in metadata
      /\ n \in kv' <=> n \in kv
      /\ taskDoc'[n] = taskDoc[n]
  BY <1>0 DEF RequestStep, IncrementQuota, FindLB, CreateTask, WriteHealthcheck, FindMetadata,
     StoreMetadata, DecrementQuota, RemoveTask, RemoveMetadata, Delay, UpdateTask, storeVars
<1>3. SameShelf(n)
  BY <1>1, <1>2 DEF SameShelf, cloudVars
<1> QED
  BY <1>2, <1>3, ShelfSame

(* A step of a task leaves the other instances alone.                      *)
LEMMA TaskElsewhere ==
    ASSUME TypeInv, FleetInv, NEW w \in Workers, WorkerStep(w) \/ CallFails(w) \/ Crash(w),
           wk[w].pc = "destroy_host" => hostOf[wk[w].host] = wk[w].name,
           NEW n \in Names, wk[w].pc # "idle" => n # wk[w].name
    PROVE  Shelf(n)' = Shelf(n) /\ taskDoc'[n] = taskDoc[n]
<1> USE DEF quotaVars, storeVars, cloudVars, boundVars
<1>0. /\ taskDoc \in [Names -> {"none", "created", "queued"}]
      /\ urls \in [Names -> SUBSET Hosts]
      /\ hostOf \in [Hosts -> Names \cup {"unused", "destroyed"}]
      /\ n \notin {"unused", "destroyed"}
  BY ConstantsAssumption DEF TypeInv, TypeOK
<1>1. /\ UNCHANGED <<used, metadata>>
      /\ n \in kv' <=> n \in kv
      /\ n \in hcs' <=> n \in hcs
      /\ urls'[n] = urls[n]
      /\ taskDoc'[n] = taskDoc[n]
  BY <1>0 DEF WorkerStep, AddHostStep, DeleteHostStep, TakeTask, TaskFindLB, CreateLB, CreateHC,
     CreateHost, AddHost, WaitHealthcheck, AddURL, AddFinally, DestroyHost, RemoveHost,
     RemoveURL, DeleteFinally, ScaleFinally, DestroyInstance, DestroyLB, DestroyHC,
     TaskRaises, CallFails, Crash, In
<1>2. \A h \in Hosts : hostOf'[h] = n <=> hostOf[h] = n
  <2>1. CASE CreateHost(w)
    BY <1>0, <2>1 DEF CreateHost, In
  <2>2. CASE DestroyHost(w)
    BY <1>0, <2>2 DEF DestroyHost, In
  <2>3. CASE UNCHANGED hostOf
    BY <2>3
  <2> QED
    BY <2>1, <2>2, <2>3, CloudSteps DEF CloudStep, CreateLB, AddHost, RemoveHost, DestroyLB
<1>3. \A l \in LBs : /\ lbOf'[l] = n <=> lbOf[l] = n
                     /\ lbOf[l] = n => attached'[l] = attached[l]
  BY OtherLBs
<1>4. Charged(n)' <=> Charged(n)
  BY <1>1 DEF Charged
<1>5. SameShelf(n)
  BY <1>1, <1>2, <1>3, <1>4, Zenon DEF SameShelf
<1> QED
  BY <1>1, <1>5, ShelfSame

(* A name put on the bill of a team is charged.                            *)
LEMMA BillGains ==
    ASSUME NEW bills \in [Teams -> Seq(Names)], NEW t \in Teams, NEW n \in Names,
           NEW after, after = [bills EXCEPT ![t] = AddToSet(bills[t], n)]
    PROVE  Contains(after[t], n)
<1>1. after[t] = AddToSet(bills[t], n)
  OBVIOUS
<1>2. AddToSet(bills[t], n) \in Seq(Names) /\ n \in ToSet(AddToSet(bills[t], n))
  <2>1. bills[t] \in Seq(Names)
    OBVIOUS
  <2> QED
    BY <2>1, AddToSetProperties
<1> QED
  BY <1>1, <1>2, ContainsToSet

(* A request touches only which stores have its instance.                  *)
LEMMA RequestShelf ==
    ASSUME NEW r \in Requests, RequestStep(r), NEW n
    PROVE  /\ Shelf(n)'.urls = Shelf(n).urls /\ Shelf(n)'.machines = Shelf(n).machines
           /\ Shelf(n)'.behind = Shelf(n).behind /\ Shelf(n)'.lbs = Shelf(n).lbs
           /\ "check" \in Shelf(n)'.in <=> "check" \in Shelf(n).in
<1>1. UNCHANGED <<hcs, urls, lbOf, attached, hostOf>>
  BY DEF RequestStep, IncrementQuota, FindLB, CreateTask, WriteHealthcheck, FindMetadata,
     StoreMetadata, DecrementQuota, RemoveTask, RemoveMetadata, Delay, UpdateTask, storeVars,
     cloudVars
<1>3. Shelf(n)'.urls = Shelf(n).urls
  BY <1>1 DEF Shelf
<1>4. Shelf(n)'.machines = Shelf(n).machines
  BY <1>1 DEF Shelf
<1>5. Shelf(n)'.behind = Shelf(n).behind
  BY <1>1 DEF Shelf, BehindOf
<1>6. Shelf(n)'.lbs = Shelf(n).lbs
  BY <1>1 DEF Shelf, LBsOf
<1>7. "check" \in Shelf(n)'.in <=> "check" \in Shelf(n).in
  <2>1. "check" \in Shelf(n)'.in <=> n \in hcs'
    BY ShelfFrameNext
  <2>2. "check" \in Shelf(n).in <=> n \in hcs
    BY ShelfFrame
  <2> QED
    BY <1>1, <2>1, <2>2
<1> QED
  BY <1>3, <1>4, <1>5, <1>6, <1>7

(* Where a step takes a request about n: from p to q, leaving the shelf u. *)
RequestGoesTo(q, p, n, u) ==
    /\ q.pc = "idle" =>
          /\ q.name = Nothing
          /\ p.pc \notin {"update_task", "delay"} => Whole(u) \/ Absent(u)
    /\ q.pc # "idle" => q.name = n /\ q.op = p.op
    /\ q.pc = "update_task" => p.pc = "delay" /\ p.op # "remove"
    /\ q.pc \notin {"idle", "update_task"} => ReqStage(q, u) /\ p.pc # "update_task"
    /\ p.pc = "delay" => StartStage(p.op, u)

LEMMA RequestStages ==
    ASSUME TypeInv, BillsOK, NEW r \in Requests, OnPath(req[r]), RequestStep(r),
           NEW n, n = req[r].name,
           req[r].pc # "update_task" => ReqStage(req[r], Shelf(n)),
           req[r].pc = "create_task" => taskDoc[n] = "none"
    PROVE  RequestGoesTo(req'[r], req[r], n, Shelf(n)')
<1> USE DEF quotaVars, storeVars, cloudVars, boundVars
<1>0. /\ req \in [Requests -> ReqType] /\ req[r] \in ReqType /\ ReqRecordOK(req[r])
      /\ used \in [Teams -> Seq(Names)]
      /\ req[r].op \in {"none", "new", "remove", "scale", "update"}
  BY DEF TypeInv, TypeOK, RecordsOK, ReqType
<1> PICK s : s = Shelf(n)
  OBVIOUS
<1> PICK u : u = Shelf(n)'
  OBVIOUS
<1>s. /\ s.in \subseteq Stores
      /\ "bill" \in s.in <=> Charged(n)
      /\ "metadata" \in s.in <=> n \in metadata
      /\ "keys" \in s.in <=> n \in kv
      /\ s.lbs = LBsOf(n)
  BY ShelfFrame DEF LBsOf
<1>u. /\ u.in \subseteq Stores
      /\ "bill" \in u.in <=> Charged(n)'
      /\ "metadata" \in u.in <=> n \in metadata'
      /\ "keys" \in u.in <=> n \in kv'
      /\ u.urls = s.urls /\ u.machines = s.machines /\ u.behind = s.behind /\ u.lbs = s.lbs
      /\ "check" \in u.in <=> "check" \in s.in
  BY ShelfFrameNext, RequestShelf
<1>q. ASSUME NEW T, u.in = T
      PROVE  \A S : /\ Even(s, S) => Even(u, T)
                    /\ Planned(s, S) => Planned(u, T)
  BY <1>u, <1>q DEF Even, Planned
<1>same. ASSUME UNCHANGED <<used, metadata, kv>>
         PROVE  u.in = s.in /\ \A S : (Even(s, S) => Even(u, S)) /\ (Planned(s, S) => Planned(u, S))
  <2>1. Charged(n)' <=> Charged(n)
    BY <1>same DEF Charged
  <2>2. u.in = s.in
    BY <1>same, <1>s, <1>u, <2>1 DEF Stores
  <2> QED
    BY <1>q, <2>2 DEF Even, Planned
<1>g. ASSUME NEW pc, Goto(r, pc)
      PROVE  req'[r].pc = pc /\ req'[r].op = req[r].op /\ req'[r].name = n
  <2>1. req'[r] = [req[r] EXCEPT !.pc = pc]
    BY <1>0, <1>g DEF Goto
  <2> QED
    BY <1>0, <2>1 DEF ReqType
<1>r. ASSUME Return(r)
      PROVE  req'[r].pc = "idle" /\ req'[r].name = Nothing
  <2>1. req'[r] = IdleReq
    BY <1>0, <1>r DEF Return
  <2> QED
    BY <2>1 DEF IdleReq
<1>p. req[r].pc # "update_task" => ReqStage(req[r], s)
  OBVIOUS
<1> SUFFICES RequestGoesTo(req'[r], req[r], n, u)
  OBVIOUS
<1>on. ASSUME NEW op, req[r].op = op, req'[r].op = op, req'[r].name = n, ReqStage(req'[r], u),
              req'[r].pc \notin {"idle", "update_task"},
              req[r].pc \notin {"update_task", "delay"}
       PROVE  RequestGoesTo(req'[r], req[r], n, u)
  BY <1>on DEF RequestGoesTo
<1>back. ASSUME Return(r), Whole(u) \/ Absent(u), req[r].pc \notin {"update_task", "delay"}
         PROVE  RequestGoesTo(req'[r], req[r], n, u)
  BY <1>r, <1>back DEF RequestGoesTo
<1>1. CASE IncrementQuota(r)
  <2>1. req[r].pc = "increment_quota" /\ req[r].op = "new" /\ UNCHANGED <<metadata, kv>>
    BY <1>0, <1>1 DEF IncrementQuota, At, OnPath
  <2>2. Whole(s) \/ Absent(s)
    BY <1>p, <2>1 DEF ReqStage
  <2>3. CASE BillUnchanged(r)
    <3>1. req'[r].pc = "find_lb" /\ req'[r].op = "new" /\ req'[r].name = n
      BY <1>1, <1>g, <2>1, <2>3 DEF IncrementQuota
    <3> PICK t : t = req[r].team
      OBVIOUS
    <3>2. t \in Teams /\ n \in Names /\ used' = [used EXCEPT ![t] = AddToSet(used[t], n)]
      <4>1. used' = [used EXCEPT ![req[r].team] = Billed(r)]
        BY <1>1, <2>3 DEF IncrementQuota
      <4> QED
        BY <1>0, <2>1, <4>1 DEF Billed, ReqRecordOK
    <3>3. Charged(n)'
      <4> QED
        BY <1>0, <3>2, BillGains DEF Charged
    <3>4. u.in = s.in \cup {"bill"}
      BY <1>s, <1>u, <2>1, <3>3 DEF Stores
    <3>5. Whole(s) => Whole(u)
      <4>1. Whole(s) => u.in = Stores
        BY <3>4 DEF Whole, Even, Stores
      <4> QED
        BY <1>q, <4>1 DEF Whole
    <3>6. Absent(s) => Planned(u, {"bill"})
      <4>1. Absent(s) => u.in = {"bill"}
        BY <3>4 DEF Absent, Planned
      <4> QED
        BY <1>q, <4>1 DEF Absent
    <3>7. ReqStage(req'[r], u)
      BY <2>2, <3>1, <3>5, <3>6 DEF ReqStage
    <3> QED
      BY <1>on, <2>1, <3>1, <3>7
  <2>4. CASE ~BillUnchanged(r)
    <3>1. UNCHANGED used /\ Return(r)
      BY <1>1, <2>4 DEF IncrementQuota
    <3>2. Whole(u) \/ Absent(u)
      BY <1>same, <2>1, <2>2, <3>1 DEF Whole, Absent
    <3> QED
      BY <1>back, <2>1, <3>1, <3>2
  <2> QED
    BY <2>3, <2>4
<1>2. CASE FindLB(r)
  <2>1. req[r].pc = "find_lb" /\ req[r].op \in {"new", "update"} /\ UNCHANGED <<used, metadata, kv>>
    BY <1>0, <1>2 DEF FindLB, At, OnPath
  <2>2. CASE req[r].op = "new"
    <3>1. Whole(s) \/ Planned(s, {"bill"})
      BY <1>p, <2>1, <2>2 DEF ReqStage
    <3>2. CASE Whole(s)
      <4>1. InstanceFound(r)
        BY <1>s, <3>2 DEF Whole, Even, InstanceFound
      <4>2. Return(r)
        BY <1>2, <2>2, <4>1 DEF FindLB
      <4> QED
        BY <1>back, <1>same, <2>1, <3>2, <4>2 DEF Whole
    <3>3. CASE Planned(s, {"bill"})
      <4>1. ~InstanceFound(r)
        BY <1>s, <3>3 DEF Planned, InstanceFound
      <4>2. Goto(r, "create_task")
        BY <1>2, <2>2, <4>1 DEF FindLB
      <4>3. Planned(u, {"bill"})
        BY <1>same, <2>1, <3>3
      <4>4. req'[r].pc = "create_task" /\ req'[r].op = "new" /\ req'[r].name = n
        BY <1>g, <2>2, <4>2
      <4>5. ReqStage(req'[r], u)
        BY <4>3, <4>4 DEF ReqStage
      <4> QED
        BY <1>on, <2>1, <2>2, <4>4, <4>5
    <3> QED
      BY <3>1, <3>2, <3>3
  <2>3. CASE req[r].op = "update"
    <3>1. Whole(s) \/ Absent(s)
      BY <1>p, <2>1, <2>3 DEF ReqStage
    <3>2. Whole(u) \/ Absent(u)
      BY <1>same, <2>1, <3>1 DEF Whole, Absent
    <3>3. Goto(r, "find_metadata") \/ Return(r)
      BY <1>2, <2>3 DEF FindLB
    <3>4. CASE Goto(r, "find_metadata")
      <4>1. req'[r].pc = "find_metadata" /\ req'[r].op = "update" /\ req'[r].name = n
        BY <1>g, <2>3, <3>4
      <4>2. ReqStage(req'[r], u)
        BY <3>2, <4>1 DEF ReqStage
      <4> QED
        BY <1>on, <2>1, <2>3, <4>1, <4>2
    <3>5. CASE Return(r)
      BY <1>back, <2>1, <3>2, <3>5
    <3> QED
      BY <3>3, <3>4, <3>5
  <2> QED
    BY <2>1, <2>2, <2>3
<1>3. CASE CreateTask(r)
  <2>1. /\ req[r].pc = "create_task" /\ req[r].op \in {"new", "scale"}
        /\ UNCHANGED <<used, metadata, kv>>
    BY <1>0, <1>3 DEF CreateTask, At, OnPath
  <2>2. Goto(r, IF req[r].op = "new" THEN "write_healthcheck" ELSE "find_metadata")
    BY <1>3, <2>1 DEF CreateTask
  <2>3. CASE req[r].op = "new"
    <3>1. req'[r].pc = "write_healthcheck" /\ req'[r].op = "new" /\ req'[r].name = n
      BY <1>g, <2>2, <2>3
    <3>2. Planned(u, {"bill"})
      BY <1>p, <1>same, <2>1, <2>3 DEF ReqStage
    <3>3. ReqStage(req'[r], u)
      BY <3>1, <3>2 DEF ReqStage
    <3> QED
      BY <1>on, <2>1, <2>3, <3>1, <3>3
  <2>4. CASE req[r].op = "scale"
    <3>1. req'[r].pc = "find_metadata" /\ req'[r].op = "scale" /\ req'[r].name = n
      BY <1>g, <2>2, <2>4
    <3>2. Whole(u)
      BY <1>p, <1>same, <2>1, <2>4 DEF ReqStage, Whole
    <3>3. ReqStage(req'[r], u)
      BY <3>1, <3>2 DEF ReqStage
    <3> QED
      BY <1>on, <2>1, <2>4, <3>1, <3>3
  <2> QED
    BY <2>1, <2>3, <2>4
<1>4. CASE WriteHealthcheck(r)
  <2>1. req[r].pc = "write_healthcheck" /\ req[r].op = "new" /\ UNCHANGED <<used, metadata>>
        /\ n \in kv' /\ Goto(r, "store_metadata")
    BY <1>0, <1>4 DEF WriteHealthcheck, At, OnPath
  <2>2. Charged(n)' <=> Charged(n)
    BY <2>1 DEF Charged
  <2>3. u.in = s.in \cup {"keys"}
    BY <1>s, <1>u, <2>1, <2>2 DEF Stores
  <2>4. Planned(s, {"bill"})
    BY <1>p, <2>1 DEF ReqStage
  <2>5. Planned(u, {"bill", "keys"})
    <3>1. u.in = {"bill", "keys"}
      BY <2>3, <2>4 DEF Planned
    <3> QED
      BY <1>q, <2>4, <3>1
  <2>6. req'[r].pc = "store_metadata" /\ req'[r].op = "new" /\ req'[r].name = n
    BY <1>g, <2>1
  <2>7. ReqStage(req'[r], u)
    BY <2>5, <2>6 DEF ReqStage
  <2> QED
    BY <1>on, <2>1, <2>6, <2>7
<1>5. CASE FindMetadata(r)
  <2>1. req[r].pc = "find_metadata" /\ req[r].op \in {"scale", "update"}
        /\ UNCHANGED <<used, metadata, kv>>
    BY <1>0, <1>5 DEF FindMetadata, At, OnPath
  <2>2. CASE req[r].op = "scale"
    <3>1. PICK pc : pc \in {"delay", "store_metadata"} /\ Goto(r, pc)
      BY <1>5, <2>2 DEF FindMetadata
    <3>2. req'[r].pc = pc /\ req'[r].op = "scale" /\ req'[r].name = n
      BY <1>g, <2>2, <3>1
    <3>3. Whole(u)
      BY <1>p, <1>same, <2>1, <2>2 DEF ReqStage, Whole
    <3>4. ReqStage(req'[r], u)
      BY <3>2, <3>3 DEF ReqStage
    <3> QED
      BY <1>on, <2>1, <2>2, <3>1, <3>2, <3>4
  <2>3. CASE req[r].op = "update"
    <3>1. Whole(s) \/ Absent(s)
      BY <1>p, <2>1, <2>3 DEF ReqStage
    <3>2. Whole(u) \/ Absent(u)
      BY <1>same, <2>1, <3>1 DEF Whole, Absent
    <3>3. CASE n \in metadata
      <4>1. Whole(u)
        BY <1>s, <1>same, <2>1, <3>1, <3>3 DEF Whole, Absent, Planned
      <4>2. req'[r].pc = "store_metadata" /\ req'[r].op = "update" /\ req'[r].name = n
        <5>1. Goto(r, "store_metadata")
          BY <1>5, <2>3, <3>3 DEF FindMetadata
        <5> QED
          BY <1>g, <2>3, <5>1
      <4>3. ReqStage(req'[r], u)
        BY <4>1, <4>2 DEF ReqStage
      <4> QED
        BY <1>on, <2>1, <2>3, <4>2, <4>3
    <3>4. CASE n \notin metadata
      <4>1. Return(r)
        BY <1>5, <2>3, <3>4 DEF FindMetadata
      <4> QED
        BY <1>back, <2>1, <3>2, <4>1
    <3> QED
      BY <3>3, <3>4
  <2> QED
    BY <2>1, <2>2, <2>3
<1>6. CASE StoreMetadata(r)
  <2>1. req[r].pc = "store_metadata" /\ req[r].op \in {"new", "scale", "update"}
        /\ UNCHANGED <<used, kv>> /\ n \in metadata'
    BY <1>0, <1>6 DEF StoreMetadata, At, OnPath
  <2>2. Charged(n)' <=> Charged(n)
    BY <2>1 DEF Charged
  <2>3. u.in = s.in \cup {"metadata"}
    BY <1>s, <1>u, <2>1, <2>2 DEF Stores
  <2>4. Whole(s) => Whole(u)
    <3>1. Whole(s) => u.in = Stores
      BY <2>3 DEF Whole, Even, Stores
    <3> QED
      BY <1>q, <3>1 DEF Whole
  <2>5. CASE req[r].op = "new"
    <3>1. Planned(s, {"bill", "keys"})
      BY <1>p, <2>1, <2>5 DEF ReqStage
    <3>2. Planned(u, {"bill", "keys", "metadata"})
      <4>1. u.in = {"bill", "keys", "metadata"}
        BY <2>3, <3>1 DEF Planned
      <4> QED
        BY <1>q, <3>1, <4>1
    <3>3. req'[r].pc = "delay" /\ req'[r].op = "new" /\ req'[r].name = n
      <4>1. Goto(r, "delay")
        BY <1>6, <2>5 DEF StoreMetadata
      <4> QED
        BY <1>g, <2>5, <4>1
    <3>4. ReqStage(req'[r], u)
      BY <3>2, <3>3 DEF ReqStage
    <3> QED
      BY <1>on, <2>1, <2>5, <3>3, <3>4
  <2>6. CASE req[r].op = "scale"
    <3>1. Whole(u)
      BY <1>p, <2>1, <2>4, <2>6 DEF ReqStage
    <3>2. req'[r].pc = "delay" /\ req'[r].op = "scale" /\ req'[r].name = n
      <4>1. Goto(r, "delay")
        BY <1>6, <2>6 DEF StoreMetadata
      <4> QED
        BY <1>g, <2>6, <4>1
    <3>3. ReqStage(req'[r], u)
      BY <3>1, <3>2 DEF ReqStage
    <3> QED
      BY <1>on, <2>1, <2>6, <3>2, <3>3
  <2>7. CASE req[r].op = "update"
    <3>1. Whole(u)
      BY <1>p, <2>1, <2>4, <2>7 DEF ReqStage
    <3>2. Return(r)
      BY <1>6, <2>7 DEF StoreMetadata
    <3> QED
      BY <1>back, <2>1, <3>1, <3>2
  <2> QED
    BY <2>1, <2>5, <2>6, <2>7
<1>7. CASE DecrementQuota(r)
  <2>1. req[r].pc = "decrement_quota" /\ req[r].op = "remove" /\ UNCHANGED <<metadata, kv>>
        /\ Goto(r, "remove_task") /\ used' = [t \in Teams |-> Pull(used[t], n)]
    BY <1>0, <1>7 DEF DecrementQuota, At, OnPath, Unbilled
  <2>2. ~Charged(n)'
    <3>1. ASSUME NEW t \in Teams PROVE ~Contains(used'[t], n)
      <4>1. used'[t] = Pull(used[t], n) /\ used[t] \in Seq(Names) /\ IsInjective(used[t])
        BY <1>0, <2>1 DEF BillsOK
      <4>2. Pull(used[t], n) \in Seq(Names) /\ n \notin ToSet(Pull(used[t], n))
        BY <4>1, PullProperties
      <4> QED
        BY <4>1, <4>2, ContainsToSet
    <3> QED
      BY <3>1 DEF Charged
  <2>3. u.in = s.in \ {"bill"}
    BY <1>s, <1>u, <2>1, <2>2 DEF Stores
  <2>4. Whole(s) => Even(u, Stores \ {"bill"})
    <3>1. Whole(s) => u.in = Stores \ {"bill"}
      BY <2>3 DEF Whole, Even
    <3> QED
      BY <1>q, <3>1 DEF Whole
  <2>5. Absent(s) => Absent(u)
    <3>1. Absent(s) => u.in = {}
      BY <2>3 DEF Absent, Planned
    <3> QED
      BY <1>q, <3>1 DEF Absent
  <2>6. req'[r].pc = "remove_task" /\ req'[r].op = "remove" /\ req'[r].name = n
    BY <1>g, <2>1
  <2>7. ReqStage(req'[r], u)
    BY <1>p, <2>1, <2>4, <2>5, <2>6 DEF ReqStage
  <2> QED
    BY <1>on, <2>1, <2>6, <2>7
<1>8. CASE RemoveTask(r)
  <2>1. req[r].pc = "remove_task" /\ req[r].op = "remove" /\ UNCHANGED <<used, metadata, kv>>
        /\ Goto(r, "remove_metadata")
    BY <1>0, <1>8 DEF RemoveTask, At, OnPath
  <2>2. req'[r].pc = "remove_metadata" /\ req'[r].op = "remove" /\ req'[r].name = n
    BY <1>g, <2>1
  <2>3. Even(s, Stores \ {"bill"}) \/ Absent(s)
    BY <1>p, <2>1 DEF ReqStage
  <2>4. Even(u, Stores \ {"bill"}) \/ Absent(u)
    BY <1>same, <2>1, <2>3 DEF Absent
  <2>5. ReqStage(req'[r], u)
    BY <2>2, <2>4 DEF ReqStage
  <2> QED
    BY <1>on, <2>1, <2>2, <2>5
<1>9. CASE RemoveMetadata(r)
  <2>1. req[r].pc = "remove_metadata" /\ req[r].op = "remove" /\ UNCHANGED <<used, kv>>
        /\ n \notin metadata' /\ Goto(r, "delay")
    BY <1>0, <1>9 DEF RemoveMetadata, At, OnPath
  <2>2. Charged(n)' <=> Charged(n)
    BY <2>1 DEF Charged
  <2>3. u.in = s.in \ {"metadata"}
    BY <1>s, <1>u, <2>1, <2>2 DEF Stores
  <2>4. Even(s, Stores \ {"bill"}) => Even(u, {"keys", "check"})
    <3>1. Even(s, Stores \ {"bill"}) => u.in = {"keys", "check"}
      BY <2>3 DEF Even, Stores
    <3> QED
      BY <1>q, <3>1
  <2>5. Absent(s) => Absent(u)
    <3>1. Absent(s) => u.in = {}
      BY <2>3 DEF Absent, Planned
    <3> QED
      BY <1>q, <3>1 DEF Absent
  <2>6. req'[r].pc = "delay" /\ req'[r].op = "remove" /\ req'[r].name = n
    BY <1>g, <2>1
  <2>7. ReqStage(req'[r], u)
    BY <1>p, <2>1, <2>4, <2>5, <2>6 DEF ReqStage
  <2> QED
    BY <1>on, <2>1, <2>6, <2>7
<1>10. CASE Delay(r)
  <2>1. req[r].pc = "delay" /\ UNCHANGED <<used, metadata, kv>>
    BY <1>10 DEF Delay, At
  <2>2. StartStage(req[r].op, s)
    BY <1>p, <2>1 DEF ReqStage, StartStage
  <2>3. StartStage(req[r].op, u)
    BY <1>same, <2>1, <2>2 DEF StartStage, Whole, Absent
  <2>4. CASE req[r].op = "remove"
    <3>1. Return(r)
      BY <1>10, <2>4 DEF Delay
    <3> QED
      BY <1>r, <2>1, <2>3, <3>1 DEF RequestGoesTo
  <2>5. CASE req[r].op # "remove"
    <3>1. Goto(r, "update_task")
      BY <1>10, <2>5 DEF Delay
    <3>2. req'[r].pc = "update_task" /\ req'[r].name = n /\ req'[r].op = req[r].op
      BY <1>g, <3>1
    <3> QED
      BY <2>1, <2>3, <2>5, <3>2 DEF RequestGoesTo
  <2> QED
    BY <2>4, <2>5
<1>11. CASE UpdateTask(r)
  <2>1. req[r].pc = "update_task" /\ Return(r)
    BY <1>11 DEF UpdateTask, At
  <2> QED
    BY <1>r, <2>1 DEF RequestGoesTo
<1> QED
  BY <1>1, <1>2, <1>3, <1>4, <1>5, <1>6, <1>7, <1>8, <1>9, <1>10, <1>11 DEF RequestStep

(* Where a task goes that has no host left to delete.                      *)
Ends(done, kind) ==
    \/ kind = "scale" /\ done = "scale_finally"
    \/ kind = "remove" /\ done = "destroy_instance"

(* What a task must know of the hosts it has still to delete.              *)
CanDelete(t, s) ==
    /\ t.kind \in {"scale", "remove"} /\ ~t.error
    /\ s.lbs = {t.lb} /\ IsInjective(t.todo) /\ ToSet(t.todo) \subseteq s.behind
    /\ t.kind = "remove" => s.behind \subseteq ToSet(t.todo) /\ Even(s, {"keys", "check"})
    /\ t.kind = "scale" => Whole(s)

(* The stage of a task that has looked for the next host to delete.        *)
LEMMA NextDeleteStage ==
    ASSUME NEW t \in WkType, NEW s, CanDelete(t, s), NEW done, Ends(done, t.kind)
    PROVE  TaskStage(NextDelete(t, done), s)
<1>0. t.todo \in Seq(Hosts)
  BY DEF WkType
<1> USE DEF Ends, CanDelete
<1>1. CASE t.todo = <<>>
  <2>1. PICK v : v = [t EXCEPT !.pc = done, !.host = Nothing]
    OBVIOUS
  <2>2. v.pc = done /\ v.kind = t.kind /\ v.lb = t.lb /\ ~v.error
    BY <2>1 DEF WkType
  <2>3. NextDelete(t, done) = v
    BY <1>1, <2>1 DEF NextDelete
  <2>4. ToSet(t.todo) = {}
    BY <1>1 DEF ToSet
  <2> SUFFICES TaskStage(v, s)
    BY <2>3
  <2>5. CASE t.kind = "scale"
    <3>1. v.pc = "scale_finally" /\ Whole(s)
      BY <2>2, <2>5 DEF Whole, Even
    <3> QED
      BY <2>2, <3>1 DEF TaskStage, DeletePcs
  <2>6. CASE t.kind = "remove"
    <3>1. v.pc = "destroy_instance" /\ Even(s, {"keys", "check"}) /\ s.behind = {}
      BY <2>2, <2>4, <2>6 DEF Even
    <3> QED
      BY <2>2, <3>1 DEF TaskStage, DeletePcs
  <2> QED
    BY <2>5, <2>6
<1>2. CASE t.todo # <<>>
  <2>1. PICK v : v = [t EXCEPT !.pc = "destroy_host", !.host = Head(t.todo),
                               !.todo = Tail(t.todo)]
    OBVIOUS
  <2>2. /\ v.pc = "destroy_host" /\ v.kind = t.kind /\ v.lb = t.lb /\ ~v.error
        /\ v.host = Head(t.todo) /\ v.todo = Tail(t.todo)
    BY <2>1 DEF WkType
  <2>3. NextDelete(t, done) = v
    BY <1>2, <2>1 DEF NextDelete
  <2>4. /\ IsInjective(v.todo) /\ v.host \in ToSet(t.todo)
        /\ ToSet(v.todo) = ToSet(t.todo) \ {v.host}
    BY <1>0, <1>2, <2>2, InjectiveTail
  <2>5. DeleteStage(v, s)
    BY <2>2, <2>4 DEF DeleteStage, Even, Whole
  <2> QED
    BY <2>2, <2>3, <2>5 DEF TaskStage
<1> QED
  BY <1>1, <1>2

(* The instance of a task is taken where its stage says, until it rests.   *)
TaskGoesTo(v, t, n, u) ==
    /\ v.pc = "idle" => Whole(u) \/ Absent(u)
    /\ v.pc # "idle" => v.name = n /\ v.kind = t.kind /\ TaskStage(v, u)

(* A calm task finds what each of its calls needs.                         *)
LEMMA NothingMissing ==
    ASSUME TypeInv, FleetInv, Supplied,
           NEW w \in Workers, TaskRaises(w), NEW n, n = wk[w].name,
           TaskStage(wk[w], Shelf(n))
    PROVE  wk[w].pc = "find_lb" /\ wk[w].kind = "remove" /\ Absent(Shelf(n))
<1>0. /\ wk[w] \in WkType /\ WkRecordOK(wk[w]) /\ TaskOnPath(wk[w])
      /\ hostOf \in [Hosts -> Names \cup {"unused", "destroyed"}]
      /\ lbOf \in [LBs -> Names \cup {"unused", "destroyed"}]
  BY DEF TypeInv, TypeOK, RecordsOK, FleetInv, TasksOnPath
<1>1. MustRaise(w) /\ wk[w].pc # "idle" /\ n \in Names /\ "destroyed" \notin Names
  <2>1. MustRaise(w)
    BY DEF TaskRaises
  <2>2. wk[w].pc # "idle"
    BY <2>1 DEF MustRaise
  <2> QED
    BY <1>0, <2>1, <2>2, ConstantsAssumption DEF WkRecordOK
<1> PICK t : t = wk[w]
  OBVIOUS
<1> PICK s : s = Shelf(n)
  OBVIOUS
<1>s. /\ s.machines = {h \in Hosts : hostOf[h] = n} /\ s.lbs = {l \in LBs : lbOf[l] = n}
      /\ s.urls = urls[n]
      /\ "check" \in s.in <=> n \in hcs
  BY ShelfFrame
<1>2. CASE t.pc = "find_lb"
  <2>1. LBsOf(n) = {}
    BY <1>1, <1>2 DEF MustRaise
  <2>2. StartStage(t.kind, s) /\ t.kind \in {"scale", "remove"}
    BY <1>0, <1>2 DEF TaskStage, TaskOnPath, WkType
  <2> QED
    BY <1>2, <1>s, <2>1, <2>2 DEF StartStage, Whole, Even, LBsOf
<1>3. CASE t.pc = "create_lb"
  BY <1>1, <1>3 DEF MustRaise, Supplied, In
<1>4. CASE t.pc = "create_host"
  BY <1>1, <1>4 DEF MustRaise, Supplied, In
<1>5. CASE t.pc \in {"wait_healthcheck", "destroy_host"}
  <2>1. hostOf[t.host] = "destroyed"
    BY <1>1, <1>5 DEF MustRaise
  <2>2. t.host \in s.machines
    BY <1>5 DEF TaskStage, AddStage, DeleteStage, DeletePcs
  <2> QED
    BY <1>1, <1>s, <2>1, <2>2
<1>6. CASE t.pc \in {"add_host", "remove_host", "destroy_lb"}
  <2>1. lbOf[t.lb] = "destroyed"
    BY <1>1, <1>6 DEF MustRaise
  <2>2. t.lb \in s.lbs
    BY <1>6 DEF TaskStage, AddStage, DeleteStage, DeletePcs
  <2> QED
    BY <1>1, <1>s, <2>1, <2>2
<1>7. CASE t.pc = "add_url"
  <2>1. n \notin hcs
    BY <1>1, <1>7 DEF MustRaise
  <2>2. "check" \in s.in
    BY <1>7 DEF TaskStage, AddStage, Stores
  <2> QED
    BY <1>s, <2>1, <2>2
<1>8. CASE t.pc = "remove_url"
  <2>1. n \notin hcs \/ t.host \notin urls[n]
    BY <1>1, <1>8 DEF MustRaise
  <2>2. "check" \in s.in /\ t.host \in s.urls
    BY <1>8 DEF TaskStage, DeleteStage, DeletePcs, Stores
  <2> QED
    BY <1>s, <2>1, <2>2
<1>9. CASE t.pc = "rollback_lb"
  BY <1>0, <1>9 DEF TaskStage, TaskOnPath, RollbackPcs
<1> QED
  BY <1>1, <1>2, <1>3, <1>4, <1>5, <1>6, <1>7, <1>8, <1>9 DEF MustRaise

(* The task with the hosts to delete, at the first of them.                *)
LEMMA StartDeleting ==
    ASSUME NEW g \in WkType, ~g.fresh, ~g.rolling, NEW s, CanDelete(g, s),
           NEW done, Ends(done, g.kind), NEW v, v = NextDelete(g, done)
    PROVE  v.pc # "idle" /\ v.name = g.name /\ v.kind = g.kind /\ TaskStage(v, s)
<1>1. TaskStage(NextDelete(g, done), s)
  BY NextDeleteStage
<1>2. /\ done \in {"destroy_instance", "scale_finally"}
      /\ g.kind = IF done = "scale_finally" THEN "scale" ELSE "remove"
  BY DEF Ends
<1>3. GoesOn(NextDelete(g, done), g)
  BY <1>2, NextDeleteGoesOn
<1> QED
  BY <1>1, <1>3 DEF GoesOn, SameTask

LEMMA WithTodo ==
    ASSUME NEW f \in WkType, NEW todo \in Seq(Hosts), NEW g, g = [f EXCEPT !.todo = todo]
    PROVE  /\ g \in WkType /\ g.name = f.name /\ g.kind = f.kind /\ g.lb = f.lb
           /\ g.todo = todo /\ g.fresh = f.fresh /\ g.rolling = f.rolling
           /\ g.error = f.error
BY DEF WkType

(* Finding the LB: the instance stays as it is, the task knows its hosts.  *)
LEMMA FindLBStage ==
    ASSUME TypeInv, SerialInv, FleetInv, NEW w \in Workers, TaskFindLB(w),
           NEW n, n = wk[w].name, TaskStage(wk[w], Shelf(n))
    PROVE  TaskGoesTo(wk'[w], wk[w], n, Shelf(n)) /\ wk'[w].pc # "idle"
<1>0. /\ wk \in [Workers -> WkType] /\ wk[w] \in WkType
      /\ WkRecordOK(wk[w]) /\ TaskOnPath(wk[w])
      /\ attached \in [LBs -> Seq(Hosts)] /\ wk[w].pc = "find_lb"
  BY DEF TypeInv, TypeOK, RecordsOK, FleetInv, TasksOnPath, TaskFindLB, In
<1>l. PICK l \in LBsOf(wk[w].name) :
        LET hosts == attached[l]
            found == [wk[w] EXCEPT !.lb = l, !.empty = (hosts = <<>>)]
            extra == Len(hosts) - wk[w].qty
        IN  CASE found.kind = "remove" ->
                   Set(w, NextDelete([found EXCEPT !.todo = hosts], "destroy_instance"))
              [] found.kind = "scale" /\ extra < 0 ->
                   Set(w, [found EXCEPT !.pc = "create_host", !.adds = -extra])
              [] OTHER ->
                   Set(w, NextDelete([found EXCEPT !.todo = SubSeq(hosts, 1, extra)],
                                     "scale_finally"))
  BY DEF TaskFindLB
<1>t. PICK t : t = wk[w]
  OBVIOUS
<1>s. PICK s : s = Shelf(n)
  OBVIOUS
<1>h. PICK hosts : hosts = attached[l]
  OBVIOUS
<1>f. PICK found : found = [t EXCEPT !.lb = l, !.empty = (hosts = <<>>)]
  OBVIOUS
<1>x. PICK extra : extra = Len(hosts) - t.qty
  OBVIOUS
<1>1. /\ l \in LBs /\ lbOf[l] = n /\ hosts \in Seq(Hosts) /\ t.qty \in Nat
      /\ n \in Names /\ IsInjective(hosts)
  BY <1>0, <1>t, <1>h DEF LBsOf, WkType, WkRecordOK, FleetInv, AttachedOnce
<1>2. extra \in Int /\ extra <= Len(hosts) /\ Len(hosts) \in Nat
  BY <1>1, <1>x
<1>3. /\ found \in WkType /\ found.name = n /\ found.kind = t.kind
      /\ found.lb = l /\ ~found.fresh /\ ~found.rolling /\ ~found.error
      /\ t.kind \in {"scale", "remove"}
  BY ZenonT(60), <1>0, <1>1, <1>t, <1>f DEF WkType, TaskOnPath
<1>4. s.lbs = {l} /\ s.behind = ToSet(hosts)
  <2>1. OnlyLB(n, lbOf, l)
    BY <1>1 DEF SerialInv, FreshInv, OneLB, OnlyLB
  <2>2. BehindOf(n, lbOf, attached) = ToSet(hosts)
    BY <1>0, <1>1, <1>h, <2>1, BehindOne
  <2> QED
    BY <1>s, <2>1, <2>2, ShelfFrame DEF OnlyLB
<1>5. StartStage(t.kind, s)
  BY <1>0, <1>t, <1>s DEF TaskStage
<1>6. ASSUME NEW v, Set(w, v), v.pc # "idle", v.name = n, v.kind = t.kind, TaskStage(v, s)
      PROVE  TaskGoesTo(wk'[w], wk[w], n, Shelf(n)) /\ wk'[w].pc # "idle"
  <2>1. wk'[w] = v
    BY <1>0, <1>6 DEF Set
  <2> QED
    BY <1>6, <1>t, <1>s, <2>1 DEF TaskGoesTo
<1>7. ASSUME NEW todo \in Seq(Hosts), IsInjective(todo), ToSet(todo) \subseteq ToSet(hosts),
             t.kind = "remove" => todo = hosts,
             NEW done, Ends(done, t.kind),
             NEW g, g = [found EXCEPT !.todo = todo], Set(w, NextDelete(g, done))
      PROVE  TaskGoesTo(wk'[w], wk[w], n, Shelf(n)) /\ wk'[w].pc # "idle"
  <2>1. /\ g \in WkType /\ g.name = n /\ g.kind = t.kind
        /\ g.lb = l /\ g.todo = todo /\ ~g.fresh /\ ~g.rolling /\ ~g.error
    BY <1>3, <1>7, WithTodo
  <2>2. /\ t.kind = "remove" => Even(s, {"keys", "check"})
        /\ t.kind = "scale" => Whole(s)
    BY <1>4, <1>5 DEF StartStage, Absent, Planned
  <2>3. CanDelete(g, s)
    BY <1>3, <1>4, <1>7, <2>1, <2>2 DEF CanDelete
  <2> PICK v : v = NextDelete(g, done)
    OBVIOUS
  <2>4. v.pc # "idle" /\ v.name = n /\ v.kind = t.kind /\ TaskStage(v, s)
    <3>1. Ends(done, g.kind)
      BY <1>7, <2>1
    <3> QED
      BY <2>1, <2>3, <3>1, StartDeleting
  <2>5. Set(w, v)
    BY <1>7
  <2> QED
    BY <1>6, <2>4, <2>5
<1>8. CASE t.kind = "remove"
  <2>1. Set(w, NextDelete([found EXCEPT !.todo = hosts], "destroy_instance"))
    BY <1>3, <1>8, <1>l, <1>t, <1>h, <1>f, <1>x
  <2> QED
    BY <1>1, <1>7, <1>8, <2>1 DEF Ends
<1>9. CASE t.kind = "scale" /\ extra < 0
  <2> PICK v : v = [found EXCEPT !.pc = "create_host", !.adds = -extra]
    OBVIOUS
  <2>1. Set(w, v)
    BY <1>3, <1>9, <1>l, <1>t, <1>h, <1>f, <1>x
  <2>2. v.pc = "create_host" /\ v.name = n /\ v.kind = t.kind /\ v.lb = l /\ ~v.error
    BY <1>3 DEF WkType
  <2>3. Whole(s)
    BY <1>5, <1>9 DEF StartStage
  <2>4. AddStage(v, s)
    BY <1>4, <2>2, <2>3 DEF AddStage, Whole, Even
  <2>5. TaskStage(v, s)
    BY <2>2, <2>4 DEF TaskStage, DeletePcs
  <2> QED
    BY <1>6, <2>1, <2>2, <2>5
<1>10. CASE t.kind = "scale" /\ ~(extra < 0)
  <2>1. Set(w, NextDelete([found EXCEPT !.todo = SubSeq(hosts, 1, extra)], "scale_finally"))
    BY <1>3, <1>10, <1>l, <1>t, <1>h, <1>f, <1>x
  <2>2. extra \in 0..Len(hosts)
    BY <1>2, <1>10
  <2>3. /\ SubSeq(hosts, 1, extra) \in Seq(Hosts) /\ IsInjective(SubSeq(hosts, 1, extra))
        /\ ToSet(SubSeq(hosts, 1, extra)) \subseteq ToSet(hosts)
    BY <1>1, <2>2, InjectivePrefix
  <2> QED
    BY <1>7, <1>10, <2>1, <2>3 DEF Ends
<1> QED
  BY <1>3, <1>8, <1>9, <1>10

(* Which fields of the shelf a step may change, by what it leaves alone.   *)
LEMMA ShelfParts ==
    ASSUME NEW n
    PROVE  /\ UNCHANGED <<used, metadata, kv, hcs>> => Shelf(n)'.in = Shelf(n).in
           /\ UNCHANGED urls => Shelf(n)'.urls = Shelf(n).urls
           /\ UNCHANGED hostOf => Shelf(n)'.machines = Shelf(n).machines
           /\ UNCHANGED <<lbOf, attached>> => Shelf(n)'.behind = Shelf(n).behind
           /\ UNCHANGED lbOf => Shelf(n)'.lbs = Shelf(n).lbs
<1>1. ASSUME UNCHANGED <<used, metadata, kv, hcs>> PROVE Shelf(n)'.in = Shelf(n).in
  BY <1>1 DEF Shelf, Charged
<1>2. ASSUME UNCHANGED urls PROVE Shelf(n)'.urls = Shelf(n).urls
  BY <1>2 DEF Shelf
<1>3. ASSUME UNCHANGED hostOf PROVE Shelf(n)'.machines = Shelf(n).machines
  BY <1>3 DEF Shelf
<1>4. ASSUME UNCHANGED <<lbOf, attached>> PROVE Shelf(n)'.behind = Shelf(n).behind
  BY <1>4 DEF Shelf, BehindOf
<1>5. ASSUME UNCHANGED lbOf PROVE Shelf(n)'.lbs = Shelf(n).lbs
  BY <1>5 DEF Shelf, LBsOf
<1> QED
  BY <1>1, <1>2, <1>3, <1>4, <1>5

(* The stores of the instance after a task has changed its keys or check.  *)
LEMMA ShelfStores ==
    ASSUME NEW n, UNCHANGED <<used, metadata>>
    PROVE  /\ UNCHANGED kv /\ n \in hcs' => Shelf(n)'.in = Shelf(n).in \cup {"check"}
           /\ UNCHANGED kv /\ n \notin hcs' => Shelf(n)'.in = Shelf(n).in \ {"check"}
           /\ UNCHANGED hcs /\ n \notin kv' => Shelf(n)'.in = Shelf(n).in \ {"keys"}
<1>1. Charged(n)' <=> Charged(n)
  BY DEF Charged
<1> QED
  BY <1>1, ShelfFrame, ShelfFrameNext DEF Stores

LEMMA AddingStages ==
    ASSUME TypeInv, FleetInv, HeldTasks, NEW w \in Workers,
           AddHostStep(w), NEW n, n = wk[w].name, TaskStage(wk[w], Shelf(n))
    PROVE  TaskGoesTo(wk'[w], wk[w], n, Shelf(n)')
<1> USE DEF quotaVars, storeVars, cloudVars, boundVars
<1>0. /\ wk \in [Workers -> WkType] /\ wk[w] \in WkType
      /\ WkRecordOK(wk[w]) /\ TaskOnPath(wk[w])
      /\ attached \in [LBs -> Seq(Hosts)] /\ urls \in [Names -> SUBSET Hosts]
      /\ lbOf \in [LBs -> Names \cup {"unused", "destroyed"}]
      /\ hostOf \in [Hosts -> Names \cup {"unused", "destroyed"}]
  BY DEF TypeInv, TypeOK, RecordsOK, FleetInv, TasksOnPath
<1>n. n \in Names /\ n \notin {"unused", "destroyed"} /\ wk[w].pc # "idle"
  <2>1. wk[w].pc # "idle"
    BY DEF AddHostStep, CreateLB, CreateHC, CreateHost, AddHost, WaitHealthcheck, AddURL,
       AddFinally, In
  <2> QED
    BY <1>0, <2>1, ConstantsAssumption DEF WkRecordOK
<1>t. PICK t : t = wk[w]
  OBVIOUS
<1>s. PICK s : s = Shelf(n)
  OBVIOUS
<1>u. PICK u : u = Shelf(n)'
  OBVIOUS
<1>p. TaskStage(t, s)
  BY <1>t, <1>s
<1>on. ASSUME NEW v, v = wk'[w], v.pc # "idle", v.name = n, v.kind = t.kind, TaskStage(v, u)
       PROVE  TaskGoesTo(wk'[w], wk[w], n, Shelf(n)')
  BY <1>on, <1>t, <1>u DEF TaskGoesTo
<1>e. ASSUME NEW pc, Enter(w, pc)
      PROVE  \E v : v = wk'[w] /\ Only(v, t, pc)
  <2>1. PICK v : wk' = [wk EXCEPT ![w] = v] /\ Only(v, wk[w], pc)
    BY <1>e, EnterOnly
  <2>2. wk'[w] = v
    BY <1>0, <2>1
  <2> QED
    BY <1>t, <2>1, <2>2
<1>d. ASSUME NEW v, Set(w, v)
      PROVE  wk'[w] = v
  BY <1>0, <1>d DEF Set
<1>f. /\ s.urls = urls[n] /\ s.machines = {h \in Hosts : hostOf[h] = n}
      /\ s.behind = BehindOf(n, lbOf, attached) /\ s.lbs = {l \in LBs : lbOf[l] = n}
  BY <1>s, ShelfFrame
<1>g. /\ u.urls = urls'[n] /\ u.machines = {h \in Hosts : hostOf'[h] = n}
      /\ u.behind = BehindOf(n, lbOf', attached') /\ u.lbs = {l \in LBs : lbOf'[l] = n}
  BY <1>u, ShelfFrameNext
<1>k. /\ UNCHANGED <<used, metadata, kv, hcs>> => u.in = s.in
      /\ UNCHANGED urls => u.urls = s.urls
      /\ UNCHANGED hostOf => u.machines = s.machines
      /\ UNCHANGED <<lbOf, attached>> => u.behind = s.behind
      /\ UNCHANGED lbOf => u.lbs = s.lbs
  BY <1>s, <1>u, ShelfParts
<1>1. CASE CreateLB(w)
  <2>1. PICK l \in LBsOf("unused") :
            /\ lbOf' = [lbOf EXCEPT ![l] = wk[w].name]
            /\ Set(w, [wk[w] EXCEPT !.pc = "create_hc", !.lb = l, !.fresh = TRUE,
                                    !.empty = TRUE])
    BY <1>1 DEF CreateLB
  <2>v. PICK v : v = [wk[w] EXCEPT !.pc = "create_hc", !.lb = l, !.fresh = TRUE,
                                   !.empty = TRUE]
    OBVIOUS
  <2>2. /\ wk'[w] = v /\ v.pc = "create_hc" /\ v.name = n /\ v.kind = t.kind /\ v.lb = l
        /\ v.error = t.error
    BY <1>0, <1>d, <1>t, <2>1, <2>v DEF WkType
  <2>3. t.pc = "create_lb" /\ t.kind = "new" /\ l \in LBs /\ lbOf[l] = "unused"
        /\ UNCHANGED <<used, metadata, kv, hcs, urls, attached, hostOf>>
    BY <1>0, <1>1, <1>t DEF CreateLB, In, WkRecordOK, LBsOf
  <2>4. Planned(s, {"bill", "keys", "metadata"}) /\ ~t.error
    BY <1>p, <2>3 DEF TaskStage, StartStage
  <2>5. u.lbs = {l}
    <3>1. \A k \in LBs : lbOf[k] # n
      BY <1>f, <2>4 DEF Planned
    <3> QED
      BY <1>0, <1>g, <2>1, <2>3, <3>1
  <2>6. u.behind = {}
    <3>1. attached[l] = <<>>
      BY <2>3 DEF HeldTasks
    <3>2. ToSet(attached[l]) = {}
      BY <3>1 DEF ToSet
    <3>3. BehindOf(n, lbOf', attached) = ToSet(attached[l])
      <4>1. OnlyLB(n, lbOf', l)
        BY <1>g, <2>5 DEF OnlyLB
      <4> QED
        BY <1>0, <2>3, <4>1, BehindOne
    <3>4. attached' = attached
      BY <2>3
    <3> QED
      BY <1>g, <3>2, <3>3, <3>4
  <2>7. u.in = {"bill", "keys", "metadata"} /\ u.urls = {} /\ u.machines = {}
    BY <1>k, <2>3, <2>4 DEF Planned
  <2>8. AddStage(v, u)
    BY <2>2, <2>5, <2>6, <2>7 DEF AddStage, Stores
  <2>9. TaskStage(v, u)
    BY <2>2, <2>4, <2>8 DEF TaskStage, DeletePcs
  <2> QED
    BY <1>on, <2>2, <2>9
<1>2. CASE CreateHC(w)
  <2>1. PICK v : v = wk'[w] /\ Only(v, t, "create_host")
    BY <1>2, <1>e DEF CreateHC
  <2>2. t.pc = "create_hc" /\ n \in hcs' /\ urls' = [urls EXCEPT ![n] = {}]
        /\ UNCHANGED <<used, metadata, kv, lbOf, attached, hostOf>>
    BY <1>2, <1>t DEF CreateHC, In
  <2>3. AddStage(t, s) /\ ~t.error
    BY <1>p, <2>2 DEF TaskStage
  <2>4. u.in = s.in \cup {"check"}
    BY <1>s, <1>u, <2>2, ShelfStores
  <2>5. u.urls = {}
    BY <1>0, <1>g, <1>n, <2>2
  <2>6. u.machines = s.machines /\ u.behind = s.behind /\ u.lbs = s.lbs
    BY <1>k, <2>2
  <2>7. AddStage(v, u)
    BY <2>1, <2>2, <2>3, <2>4, <2>5, <2>6 DEF AddStage, Only, Stores
  <2>8. TaskStage(v, u)
    BY <2>1, <2>3, <2>7 DEF TaskStage, DeletePcs, Only
  <2> QED
    BY <1>on, <1>t, <2>1, <2>8 DEF Only
<1>3. CASE CreateHost(w)
  <2>1. PICK h \in Hosts :
            /\ hostOf[h] = "unused"
            /\ hostOf' = [hostOf EXCEPT ![h] = wk[w].name]
            /\ Set(w, [wk[w] EXCEPT !.pc = "add_host", !.host = h])
    BY <1>3 DEF CreateHost
  <2>v. PICK v : v = [wk[w] EXCEPT !.pc = "add_host", !.host = h]
    OBVIOUS
  <2>2. /\ wk'[w] = v /\ v.pc = "add_host" /\ v.name = n /\ v.kind = t.kind /\ v.lb = t.lb
        /\ v.error = t.error /\ v.host = h
    BY <1>0, <1>d, <1>t, <2>1, <2>v DEF WkType
  <2>3. t.pc = "create_host"
        /\ UNCHANGED <<used, metadata, kv, hcs, urls, attached, lbOf>>
    BY <1>3, <1>t DEF CreateHost, In
  <2>4. AddStage(t, s) /\ ~t.error
    BY <1>p, <2>3 DEF TaskStage
  <2>5. u.machines = s.machines \cup {h}
    BY <1>0, <1>f, <1>g, <1>n, <2>1
  <2>6. u.in = s.in /\ u.urls = s.urls /\ u.behind = s.behind /\ u.lbs = s.lbs
    BY <1>k, <2>3
  <2>7. AddStage(v, u)
    BY <2>2, <2>3, <2>4, <2>5, <2>6 DEF AddStage
  <2>8. TaskStage(v, u)
    BY <2>2, <2>4, <2>7 DEF TaskStage, DeletePcs
  <2> QED
    BY <1>on, <2>2, <2>8
<1>4. CASE AddHost(w)
  <2>1. PICK v : v = wk'[w] /\ Only(v, t, "wait_healthcheck")
    BY <1>4, <1>e DEF AddHost
  <2>2. t.pc = "add_host" /\ t.lb \in LBs /\ t.host \in Hosts
        /\ attached' = [attached EXCEPT ![t.lb] = Append(attached[t.lb], t.host)]
        /\ UNCHANGED <<used, metadata, kv, hcs, urls, lbOf, hostOf>>
    BY <1>0, <1>4, <1>t DEF AddHost, In, WkRecordOK
  <2>3. AddStage(t, s) /\ ~t.error
    BY <1>p, <2>2 DEF TaskStage
  <2>4. u.in = s.in /\ u.urls = s.urls /\ u.machines = s.machines /\ u.lbs = s.lbs
    BY <1>k, <2>2
  <2>5. u.behind = s.behind \cup {t.host}
    <3>1. OnlyLB(n, lbOf, t.lb)
      BY <1>f, <2>3 DEF AddStage, OnlyLB
    <3>2. s.behind = ToSet(attached[t.lb])
      <4>1. attached \in [LBs -> Seq(Hosts)] /\ t.lb \in LBs
        BY <1>0, <2>2
      <4>2. BehindOf(n, lbOf, attached) = ToSet(attached[t.lb])
        BY <3>1, <4>1, BehindOne
      <4> QED
        BY <1>f, <4>2
    <3>3. /\ attached[t.lb] \in Seq(Hosts)
          /\ Append(attached[t.lb], t.host) \in Seq(Hosts)
          /\ ToSet(Append(attached[t.lb], t.host)) = ToSet(attached[t.lb]) \cup {t.host}
      <4>1. attached[t.lb] \in Seq(Hosts)
        BY <1>0, <2>2
      <4> QED
        BY <2>2, <4>1, ToSetAppend
    <3>4. /\ attached' \in [LBs -> Seq(Hosts)]
          /\ attached'[t.lb] = Append(attached[t.lb], t.host)
      BY <1>0, <2>2, <3>3
    <3>5. BehindOf(n, lbOf, attached') = ToSet(attached'[t.lb])
      <4>1. attached' \in [LBs -> Seq(Hosts)] /\ t.lb \in LBs
        BY <2>2, <3>4
      <4> QED
        BY <3>1, <4>1, BehindOne
    <3>6. lbOf' = lbOf
      BY <2>2
    <3> QED
      BY <1>g, <3>2, <3>3, <3>4, <3>5, <3>6
  <2>6. AddStage(v, u)
    BY <2>1, <2>2, <2>3, <2>4, <2>5 DEF AddStage, Only
  <2>7. TaskStage(v, u)
    BY <2>1, <2>3, <2>6 DEF TaskStage, DeletePcs, Only
  <2> QED
    BY <1>on, <1>t, <2>1, <2>7 DEF Only
<1>5. CASE WaitHealthcheck(w)
  <2>1. PICK v : v = wk'[w] /\ Only(v, t, "add_url")
    BY <1>5, <1>e DEF WaitHealthcheck
  <2>2. t.pc = "wait_healthcheck"
        /\ UNCHANGED <<used, metadata, kv, hcs, urls, lbOf, attached, hostOf>>
    BY <1>5, <1>t DEF WaitHealthcheck, In
  <2>3. AddStage(t, s) /\ ~t.error
    BY <1>p, <2>2 DEF TaskStage
  <2>4. /\ u.in = s.in /\ u.urls = s.urls /\ u.machines = s.machines /\ u.lbs = s.lbs
        /\ u.behind = s.behind
    BY <1>k, <2>2
  <2>5. AddStage(v, u)
    BY <2>1, <2>2, <2>3, <2>4 DEF AddStage, Only
  <2>6. TaskStage(v, u)
    BY <2>1, <2>3, <2>5 DEF TaskStage, DeletePcs, Only
  <2> QED
    BY <1>on, <1>t, <2>1, <2>6 DEF Only
<1>6. CASE AddURL(w)
  <2>1. PICK v : v = wk'[w] /\ Only(v, t, "add_finally")
    BY <1>6, <1>e DEF AddURL
  <2>2. t.pc = "add_url" /\ urls' = [urls EXCEPT ![n] = urls[n] \cup {t.host}]
        /\ UNCHANGED <<used, metadata, kv, hcs, lbOf, attached, hostOf>>
    BY <1>6, <1>t DEF AddURL, In
  <2>3. AddStage(t, s) /\ ~t.error
    BY <1>p, <2>2 DEF TaskStage
  <2>4. u.in = s.in /\ u.machines = s.machines /\ u.lbs = s.lbs /\ u.behind = s.behind
    BY <1>k, <2>2
  <2>5. u.urls = s.urls \cup {t.host}
    BY <1>0, <1>f, <1>g, <1>n, <2>2
  <2>6. AddStage(v, u)
    BY <2>1, <2>2, <2>3, <2>4, <2>5 DEF AddStage, Only
  <2>7. TaskStage(v, u)
    BY <2>1, <2>3, <2>6 DEF TaskStage, DeletePcs, Only
  <2> QED
    BY <1>on, <1>t, <2>1, <2>7 DEF Only
<1>7. CASE AddFinally(w)
  <2>1. t.pc = "add_finally" /\ UNCHANGED <<used, metadata, kv, hcs, urls, lbOf, attached, hostOf>>
    BY <1>7, <1>t DEF AddFinally, In
  <2>2. AddStage(t, s) /\ ~t.error
    BY <1>p, <2>1 DEF TaskStage
  <2>3. /\ u.in = s.in /\ u.urls = s.urls /\ u.machines = s.machines /\ u.lbs = s.lbs
        /\ u.behind = s.behind
    BY <1>k, <2>1
  <2>4. Whole(u)
    BY <2>1, <2>2, <2>3 DEF AddStage, Whole, Even
  <2>5. CASE t.kind = "new"
    <3>1. wk'[w] = IdleWk
      <4>1. Set(w, IdleWk)
        BY <1>7, <1>t, <2>5 DEF AddFinally
      <4> QED
        BY <1>d, <4>1
    <3> QED
      BY <1>u, <2>4, <3>1 DEF TaskGoesTo, IdleWk
  <2>6. CASE t.kind # "new" /\ MoreHosts(t)
    <3>v. PICK v : v = [t EXCEPT !.pc = "create_host", !.adds = @ - 1, !.host = Nothing]
      OBVIOUS
    <3>1. Set(w, v)
      BY <1>7, <1>t, <2>6, <3>v DEF AddFinally
    <3>2. /\ v = wk'[w] /\ v.pc = "create_host" /\ v.name = n /\ v.kind = t.kind
          /\ v.lb = t.lb /\ v.error = t.error
      BY <1>0, <1>d, <1>t, <3>1, <3>v DEF WkType
    <3>3. AddStage(v, u)
      BY <2>1, <2>2, <2>3, <3>2 DEF AddStage
    <3>4. TaskStage(v, u)
      BY <2>2, <3>2, <3>3 DEF TaskStage, DeletePcs
    <3> QED
      BY <1>on, <3>2, <3>4
  <2>7. CASE t.kind # "new" /\ ~MoreHosts(t)
    <3>v. PICK v : v = [t EXCEPT !.pc = "scale_finally"]
      OBVIOUS
    <3>1. Set(w, v)
      BY <1>7, <1>t, <2>7, <3>v DEF AddFinally
    <3>2. /\ v = wk'[w] /\ v.pc = "scale_finally" /\ v.name = n /\ v.kind = t.kind
          /\ v.error = t.error
      BY <1>0, <1>d, <1>t, <3>1, <3>v DEF WkType
    <3>3. TaskStage(v, u)
      BY <2>2, <2>4, <3>2 DEF TaskStage, DeletePcs
    <3> QED
      BY <1>on, <3>2, <3>3
  <2> QED
    BY <2>5, <2>6, <2>7
<1> QED
  BY <1>1, <1>2, <1>3, <1>4, <1>5, <1>6, <1>7 DEF AddHostStep

(* Deleting machines, and the instance after the last of them.             *)
LEMMA DeletingStages ==
    ASSUME TypeInv, FleetInv, RetainLB = FALSE, NEW w \in Workers,
           DeleteHostStep(w) \/ ScaleFinally(w) \/ DestroyInstance(w) \/ DestroyLB(w)
               \/ DestroyHC(w),
           NEW n, n = wk[w].name, TaskStage(wk[w], Shelf(n))
    PROVE  TaskGoesTo(wk'[w], wk[w], n, Shelf(n)')
<1> USE DEF quotaVars, storeVars, cloudVars, boundVars
<1>0. /\ wk \in [Workers -> WkType] /\ wk[w] \in WkType
      /\ WkRecordOK(wk[w]) /\ TaskOnPath(wk[w])
      /\ attached \in [LBs -> Seq(Hosts)] /\ urls \in [Names -> SUBSET Hosts]
      /\ lbOf \in [LBs -> Names \cup {"unused", "destroyed"}]
      /\ hostOf \in [Hosts -> Names \cup {"unused", "destroyed"}]
  BY DEF TypeInv, TypeOK, RecordsOK, FleetInv, TasksOnPath
<1>n. n \in Names /\ n \notin {"unused", "destroyed"} /\ wk[w].pc # "idle"
  <2>1. wk[w].pc # "idle"
    BY DEF DeleteHostStep, DestroyHost, RemoveHost, RemoveURL, DeleteFinally, ScaleFinally,
       DestroyInstance, DestroyLB, DestroyHC, In
  <2> QED
    BY <1>0, <2>1, ConstantsAssumption DEF WkRecordOK
<1>t. PICK t : t = wk[w]
  OBVIOUS
<1>s. PICK s : s = Shelf(n)
  OBVIOUS
<1>u. PICK u : u = Shelf(n)'
  OBVIOUS
<1>p. TaskStage(t, s)
  BY <1>t, <1>s
<1>on. ASSUME NEW v, v = wk'[w], v.pc # "idle", v.name = n, v.kind = t.kind, TaskStage(v, u)
       PROVE  TaskGoesTo(wk'[w], wk[w], n, Shelf(n)')
  BY <1>on, <1>t, <1>u DEF TaskGoesTo
<1>e. ASSUME NEW pc, Enter(w, pc)
      PROVE  \E v : v = wk'[w] /\ Only(v, t, pc)
  <2>1. PICK v : wk' = [wk EXCEPT ![w] = v] /\ Only(v, wk[w], pc)
    BY <1>e, EnterOnly
  <2>2. wk'[w] = v
    BY <1>0, <2>1
  <2> QED
    BY <1>t, <2>1, <2>2
<1>d. ASSUME NEW v, Set(w, v)
      PROVE  wk'[w] = v
  BY <1>0, <1>d DEF Set
<1>f. /\ s.urls = urls[n] /\ s.machines = {h \in Hosts : hostOf[h] = n}
      /\ s.behind = BehindOf(n, lbOf, attached) /\ s.lbs = {l \in LBs : lbOf[l] = n}
  BY <1>s, ShelfFrame
<1>g. /\ u.urls = urls'[n] /\ u.machines = {h \in Hosts : hostOf'[h] = n}
      /\ u.behind = BehindOf(n, lbOf', attached') /\ u.lbs = {l \in LBs : lbOf'[l] = n}
  BY <1>u, ShelfFrameNext
<1>k. /\ UNCHANGED <<used, metadata, kv, hcs>> => u.in = s.in
      /\ UNCHANGED urls => u.urls = s.urls
      /\ UNCHANGED hostOf => u.machines = s.machines
      /\ UNCHANGED <<lbOf, attached>> => u.behind = s.behind
      /\ UNCHANGED lbOf => u.lbs = s.lbs
  BY <1>s, <1>u, ShelfParts
<1>1. CASE DestroyHost(w)
  <2>1. t.pc = "destroy_host" /\ hostOf' = [hostOf EXCEPT ![t.host] = "destroyed"]
        /\ UNCHANGED <<used, metadata, kv, hcs, urls, lbOf, attached>>
    BY <1>1, <1>t DEF DestroyHost, In
  <2>2. DeleteStage(t, s) /\ ~t.error
    BY <1>p, <2>1 DEF TaskStage, DeletePcs
  <2>3. Enter(w, "remove_host")
    <3>1. ~t.rolling
      BY <1>0, <1>t, <2>2 DEF TaskOnPath
    <3> QED
      BY <1>1, <1>t, <3>1 DEF DestroyHost
  <2>4. PICK v : v = wk'[w] /\ Only(v, t, "remove_host")
    BY <1>e, <2>3
  <2>5. u.in = s.in /\ u.urls = s.urls /\ u.behind = s.behind /\ u.lbs = s.lbs
    BY <1>k, <2>1
  <2>6. u.machines = s.machines \ {t.host}
    BY <1>0, <1>f, <1>g, <1>n, <2>1
  <2>7. DeleteStage(v, u)
    BY <2>1, <2>2, <2>4, <2>5, <2>6 DEF DeleteStage, Only
  <2>8. TaskStage(v, u)
    BY <2>2, <2>4, <2>7 DEF TaskStage, Only
  <2> QED
    BY <1>on, <1>t, <2>4, <2>8 DEF Only
<1>2. CASE RemoveHost(w)
  <2>1. t.pc = "remove_host" /\ t.lb \in LBs
        /\ attached' = [attached EXCEPT ![t.lb] = Pull(attached[t.lb], t.host)]
        /\ UNCHANGED <<used, metadata, kv, hcs, urls, lbOf, hostOf>>
    BY <1>0, <1>2, <1>t DEF RemoveHost, In, WkRecordOK
  <2>2. DeleteStage(t, s) /\ ~t.error
    BY <1>p, <2>1 DEF TaskStage, DeletePcs
  <2>3. PICK v : v = wk'[w] /\ Only(v, t, "remove_url")
    BY <1>2, <1>e DEF RemoveHost
  <2>4. u.in = s.in /\ u.urls = s.urls /\ u.machines = s.machines /\ u.lbs = s.lbs
    BY <1>k, <2>1
  <2>5. u.behind = s.behind \ {t.host}
    <3>1. OnlyLB(n, lbOf, t.lb)
      BY <1>f, <2>2 DEF DeleteStage, OnlyLB
    <3>2. s.behind = ToSet(attached[t.lb])
      <4>1. attached \in [LBs -> Seq(Hosts)] /\ t.lb \in LBs
        BY <1>0, <2>1
      <4>2. BehindOf(n, lbOf, attached) = ToSet(attached[t.lb])
        BY <3>1, <4>1, BehindOne
      <4> QED
        BY <1>f, <4>2
    <3>3. /\ attached[t.lb] \in Seq(Hosts) /\ IsInjective(attached[t.lb])
          /\ Pull(attached[t.lb], t.host) \in Seq(Hosts)
          /\ ToSet(Pull(attached[t.lb], t.host)) = ToSet(attached[t.lb]) \ {t.host}
      <4>1. attached[t.lb] \in Seq(Hosts) /\ IsInjective(attached[t.lb])
        BY <1>0, <2>1 DEF FleetInv, AttachedOnce
      <4> QED
        BY <4>1, PullProperties
    <3>4. /\ attached' \in [LBs -> Seq(Hosts)]
          /\ attached'[t.lb] = Pull(attached[t.lb], t.host)
      BY <1>0, <2>1, <3>3
    <3>5. BehindOf(n, lbOf, attached') = ToSet(attached'[t.lb])
      <4>1. attached' \in [LBs -> Seq(Hosts)] /\ t.lb \in LBs
        BY <2>1, <3>4
      <4> QED
        BY <3>1, <4>1, BehindOne
    <3>6. lbOf' = lbOf
      BY <2>1
    <3> QED
      BY <1>g, <3>2, <3>3, <3>4, <3>5, <3>6
  <2>6. DeleteStage(v, u)
    BY <2>1, <2>2, <2>3, <2>4, <2>5 DEF DeleteStage, Only
  <2>7. TaskStage(v, u)
    BY <2>2, <2>3, <2>6 DEF TaskStage, DeletePcs, Only
  <2> QED
    BY <1>on, <1>t, <2>3, <2>7 DEF Only
<1>3. CASE RemoveURL(w)
  <2>1. t.pc = "remove_url" /\ urls' = [urls EXCEPT ![n] = urls[n] \ {t.host}]
        /\ UNCHANGED <<used, metadata, kv, hcs, lbOf, attached, hostOf>>
    BY <1>3, <1>t DEF RemoveURL, In
  <2>2. DeleteStage(t, s) /\ ~t.error
    BY <1>p, <2>1 DEF TaskStage, DeletePcs
  <2>3. PICK v : v = wk'[w] /\ Only(v, t, "delete_finally")
    BY <1>3, <1>e DEF RemoveURL
  <2>4. u.in = s.in /\ u.behind = s.behind /\ u.machines = s.machines /\ u.lbs = s.lbs
    BY <1>k, <2>1
  <2>5. u.urls = s.urls \ {t.host}
    BY <1>0, <1>f, <1>g, <1>n, <2>1
  <2>6. DeleteStage(v, u)
    BY <2>1, <2>2, <2>3, <2>4, <2>5 DEF DeleteStage, Only
  <2>7. TaskStage(v, u)
    BY <2>2, <2>3, <2>6 DEF TaskStage, DeletePcs, Only
  <2> QED
    BY <1>on, <1>t, <2>3, <2>7 DEF Only
<1>4. CASE DeleteFinally(w)
  <2>1. /\ t.pc = "delete_finally"
        /\ UNCHANGED <<used, metadata, kv, hcs, urls, lbOf, attached, hostOf>>
    BY <1>4, <1>t DEF DeleteFinally, In
  <2>2. DeleteStage(t, s) /\ ~t.error
    BY <1>p, <2>1 DEF TaskStage
  <2>3. /\ u.in = s.in /\ u.urls = s.urls /\ u.machines = s.machines /\ u.lbs = s.lbs
        /\ u.behind = s.behind
    BY <1>k, <2>1
  <2>4. ~t.rolling /\ ~t.fresh /\ t.kind \in {"scale", "remove"} /\ t \in WkType
    BY <1>0, <1>t, <2>1, <2>2 DEF TaskOnPath, WkType
  <2>5. CanDelete(t, u)
    BY <2>1, <2>2, <2>3, <2>4 DEF CanDelete, DeleteStage, Even, Whole
  <2>d. PICK done : done = IF t.kind = "scale" THEN "scale_finally" ELSE "destroy_instance"
    OBVIOUS
  <2>v. PICK v : v = NextDelete(t, done)
    OBVIOUS
  <2>6. Ends(done, t.kind)
    BY <2>4, <2>d DEF Ends
  <2>7. v.pc # "idle" /\ v.name = t.name /\ v.kind = t.kind /\ TaskStage(v, u)
    BY <2>4, <2>5, <2>6, <2>v, StartDeleting
  <2>8. Set(w, v)
    BY <1>4, <1>t, <2>2, <2>4, <2>d, <2>v DEF DeleteFinally
  <2>9. wk'[w] = v
    BY <1>d, <2>8
  <2> QED
    BY <1>on, <1>t, <2>7, <2>9
<1>5. CASE ScaleFinally(w)
  <2>1. /\ t.pc = "scale_finally"
        /\ UNCHANGED <<used, metadata, kv, hcs, urls, lbOf, attached, hostOf>>
    BY <1>5, <1>t DEF ScaleFinally, In
  <2>2. /\ u.in = s.in /\ u.urls = s.urls /\ u.machines = s.machines /\ u.lbs = s.lbs
        /\ u.behind = s.behind
    BY <1>k, <2>1
  <2>3. Whole(u)
    BY <1>p, <2>1, <2>2 DEF TaskStage, Whole, Even
  <2>4. wk'[w] = IdleWk
    BY <1>5, <1>d DEF ScaleFinally
  <2> QED
    BY <1>u, <2>3, <2>4 DEF TaskGoesTo, IdleWk
<1>6. CASE DestroyInstance(w)
  <2>1. t.pc = "destroy_instance" /\ n \notin kv' /\ Enter(w, "destroy_lb")
        /\ UNCHANGED <<used, metadata, hcs, urls, lbOf, attached, hostOf>>
    BY <1>6, <1>t DEF DestroyInstance, In
  <2>2. PICK v : v = wk'[w] /\ Only(v, t, "destroy_lb")
    BY <1>e, <2>1
  <2>3. s.lbs = {t.lb} /\ s.behind = {} /\ Even(s, {"keys", "check"}) /\ ~t.error
    BY <1>p, <2>1 DEF TaskStage
  <2>4. u.in = s.in \ {"keys"}
    BY <1>s, <1>u, <2>1, ShelfStores
  <2>5. /\ u.urls = s.urls /\ u.machines = s.machines /\ u.lbs = s.lbs
        /\ u.behind = s.behind
    BY <1>k, <2>1
  <2>6. u.lbs = {v.lb} /\ u.behind = {} /\ Even(u, {"check"})
    BY <2>2, <2>3, <2>4, <2>5 DEF Even, Only
  <2>7. TaskStage(v, u)
    BY <2>2, <2>3, <2>6 DEF TaskStage, DeletePcs, Only
  <2> QED
    BY <1>on, <1>t, <2>2, <2>7 DEF Only
<1>7. CASE DestroyLB(w)
  <2>1. t.pc \in {"destroy_lb", "rollback_lb"} /\ lbOf' = [lbOf EXCEPT ![t.lb] = "destroyed"]
        /\ UNCHANGED <<used, metadata, kv, hcs, urls, hostOf>>
    BY <1>7, <1>t DEF DestroyLB, In
  <2>2. t.pc = "destroy_lb"
    BY <1>0, <1>p, <1>t, <2>1 DEF TaskStage, TaskOnPath, RollbackPcs
  <2>3. PICK v : v = wk'[w] /\ Only(v, t, "destroy_hc")
    BY <1>7, <1>e, <1>t, <2>2 DEF DestroyLB, In
  <2>4. s.lbs = {t.lb} /\ s.behind = {} /\ Even(s, {"check"}) /\ ~t.error
    BY <1>p, <2>2 DEF TaskStage
  <2>5. u.in = s.in /\ u.urls = s.urls /\ u.machines = s.machines
    BY <1>k, <2>1
  <2>6. \A k \in LBs : lbOf'[k] # n
    BY <1>0, <1>f, <1>n, <2>1, <2>4
  <2>7. u.lbs = {} /\ u.behind = {}
    BY <1>g, <2>6, BehindNone
  <2>8. Planned(u, {"check"})
    BY <2>4, <2>5, <2>7 DEF Even, Planned
  <2>9. TaskStage(v, u)
    BY <2>3, <2>4, <2>8 DEF TaskStage, DeletePcs, Only
  <2> QED
    BY <1>on, <1>t, <2>3, <2>9 DEF Only
<1>8. CASE DestroyHC(w)
  <2>1. t.pc \in {"destroy_hc", "rollback_hc"}
        /\ UNCHANGED <<used, metadata, kv, lbOf, attached, hostOf>>
    BY <1>8, <1>t DEF DestroyHC, In
  <2>2. t.pc = "destroy_hc"
    BY <1>0, <1>p, <1>t, <2>1 DEF TaskStage, TaskOnPath, RollbackPcs
  <2>3. n \notin hcs' /\ urls' = [urls EXCEPT ![n] = {}] /\ wk'[w] = IdleWk
    BY <1>8, <1>d, <1>t, <2>2 DEF DestroyHC, DestroysHC, In
  <2>4. Planned(s, {"check"})
    BY <1>p, <2>2 DEF TaskStage
  <2>5. u.in = s.in \ {"check"}
    BY <1>s, <1>u, <2>1, <2>3, ShelfStores
  <2>6. u.urls = {}
    BY <1>0, <1>g, <1>n, <2>3
  <2>7. u.machines = s.machines /\ u.lbs = s.lbs /\ u.behind = s.behind
    BY <1>k, <2>1
  <2>8. Absent(u)
    BY <2>4, <2>5, <2>6, <2>7 DEF Absent, Planned
  <2> QED
    BY <1>u, <2>3, <2>8 DEF TaskGoesTo, IdleWk
<1> QED
  BY <1>1, <1>2, <1>3, <1>4, <1>5, <1>6, <1>7, <1>8 DEF DeleteHostStep

LEMMA TaskStages ==
    ASSUME TypeInv, SerialInv, FleetInv, HeldTasks, Supplied, RetainLB = FALSE,
           NEW w \in Workers, WorkerStep(w), ~TakeTask(w),
           NEW n, n = wk[w].name, TaskStage(wk[w], Shelf(n))
    PROVE  TaskGoesTo(wk'[w], wk[w], n, Shelf(n)')
<1> USE DEF quotaVars, storeVars, cloudVars, boundVars
<1>1. CASE TaskFindLB(w)
  <2>1. SameShelf(n)
    BY <1>1 DEF TaskFindLB, SameShelf, Charged
  <2>2. Shelf(n)' = Shelf(n)
    BY <2>1, ShelfSame
  <2>3. TaskGoesTo(wk'[w], wk[w], n, Shelf(n))
    BY <1>1, FindLBStage
  <2> QED
    BY <2>2, <2>3
<1>2. CASE TaskRaises(w)
  <2>1. SameShelf(n)
    BY <1>2 DEF TaskRaises, SameShelf, Charged
  <2>2. Shelf(n)' = Shelf(n)
    BY <2>1, ShelfSame
  <2>3. wk[w].pc = "find_lb" /\ wk[w].kind = "remove" /\ Absent(Shelf(n))
    BY <1>2, NothingMissing
  <2>4. Handler(wk[w]) = IdleWk
    BY <2>3 DEF Handler, LeaveRun, AddPcs, DeletePcs
  <2>5. wk'[w] = IdleWk
    BY <1>2, <2>4 DEF TaskRaises, Set, TypeInv, TypeOK
  <2>6. wk'[w].pc = "idle"
    BY <2>5 DEF IdleWk
  <2> QED
    BY <2>2, <2>3, <2>6 DEF TaskGoesTo
<1>3. CASE AddHostStep(w)
  BY <1>3, AddingStages
<1>4. CASE DeleteHostStep(w) \/ ScaleFinally(w) \/ DestroyInstance(w) \/ DestroyLB(w)
               \/ DestroyHC(w)
  BY <1>4, DeletingStages
<1> QED
  BY <1>1, <1>2, <1>3, <1>4 DEF WorkerStep

(* A task that is over has removed the task document, or was a removal.    *)
LEMMA TaskFrees ==
    ASSUME TypeInv, SerialInv, FleetInv, Supplied,
           NEW w \in Workers, WorkerStep(w), ~TakeTask(w),
           NEW n, n = wk[w].name, TaskStage(wk[w], Shelf(n)), wk'[w].pc = "idle"
    PROVE  wk[w].kind = "remove" \/ taskDoc'[n] = "none"
<1>0. /\ wk \in [Workers -> WkType] /\ wk[w] \in WkType /\ TaskOnPath(wk[w])
      /\ WkRecordOK(wk[w]) /\ ~wk[w].error
      /\ taskDoc \in [Names -> {"none", "created", "queued"}]
  BY DEF TypeInv, TypeOK, RecordsOK, FleetInv, TasksOnPath, TaskStage
<1>1. ASSUME NEW pc, pc # "idle", Enter(w, pc) PROVE FALSE
  <2>1. PICK v : wk' = [wk EXCEPT ![w] = v] /\ Only(v, wk[w], pc)
    BY <1>1, EnterOnly
  <2> QED
    BY <1>0, <1>1, <2>1 DEF Only
<1>2. ASSUME NEW v, v.pc # "idle", Set(w, v) PROVE FALSE
  BY <1>0, <1>2 DEF Set
<1>3. CASE AddFinally(w) \/ ScaleFinally(w) \/ DeleteFinally(w)
  <2>1. wk[w].pc # "idle" /\ taskDoc' = [taskDoc EXCEPT ![n] = "none"]
    BY <1>3 DEF AddFinally, ScaleFinally, DeleteFinally, In
  <2> QED
    BY <1>0, <2>1 DEF WkRecordOK
<1>4. CASE DestroyHC(w)
  <2>1. wk[w].pc \in {"destroy_hc", "rollback_hc"}
    BY <1>4 DEF DestroyHC, In
  <2> QED
    BY <1>0, <2>1 DEF TaskOnPath, RollbackPcs, TailPcs, WkType
<1>5. CASE TaskRaises(w)
  BY <1>5, NothingMissing
<1>6. CASE TaskFindLB(w)
  BY <1>6, FindLBStage
<1>7. CASE CreateLB(w)
  <2>1. PICK l \in LBs : Set(w, [wk[w] EXCEPT !.pc = "create_hc", !.lb = l, !.fresh = TRUE,
                                              !.empty = TRUE])
    BY <1>7 DEF CreateLB, LBsOf
  <2>2. PICK v : v = [wk[w] EXCEPT !.pc = "create_hc", !.lb = l, !.fresh = TRUE,
                                   !.empty = TRUE]
    OBVIOUS
  <2>3. v.pc = "create_hc"
    BY <1>0, <2>2 DEF WkType
  <2> QED
    BY <1>2, <2>1, <2>2, <2>3
<1>8. CASE CreateHost(w)
  <2>1. PICK h \in Hosts : Set(w, [wk[w] EXCEPT !.pc = "add_host", !.host = h])
    BY <1>8 DEF CreateHost
  <2>2. PICK v : v = [wk[w] EXCEPT !.pc = "add_host", !.host = h]
    OBVIOUS
  <2>3. v.pc = "add_host"
    BY <1>0, <2>2 DEF WkType
  <2> QED
    BY <1>2, <2>1, <2>2, <2>3
<1>9. CASE CreateHC(w) \/ AddHost(w) \/ WaitHealthcheck(w) \/ AddURL(w)
  BY <1>1, <1>9 DEF CreateHC, AddHost, WaitHealthcheck, AddURL
<1>10. CASE DestroyHost(w) \/ RemoveHost(w) \/ RemoveURL(w) \/ DestroyInstance(w)
  BY <1>1, <1>10 DEF DestroyHost, RemoveHost, RemoveURL, DestroyInstance
<1>11. CASE DestroyLB(w)
  <2>1. wk[w].pc # "rollback_lb"
    BY <1>0 DEF TaskOnPath, RollbackPcs
  <2>2. Enter(w, "destroy_hc")
    BY <1>11, <2>1 DEF DestroyLB, In
  <2> QED
    BY <1>1, <2>2
<1> QED
  BY <1>3, <1>4, <1>5, <1>6, <1>7, <1>8, <1>9, <1>10, <1>11 DEF WorkerStep, AddHostStep,
     DeleteHostStep

(* What is at work on instance n stays as it is.                           *)
On(x, n) == x.pc # "idle" /\ x.name = n

SameWork(n) ==
    /\ \A r \in Requests : On(req[r], n) \/ On(req'[r], n) => req'[r] = req[r]
    /\ \A w \in Workers : On(wk[w], n) \/ On(wk'[w], n) => wk'[w] = wk[w]
    /\ \A i \in DOMAIN queue' : queue'[i].name = n =>
          \E j \in DOMAIN queue : queue[j] = queue'[i]
    /\ \A i \in DOMAIN queue : queue[i].name = n =>
          \E j \in DOMAIN queue' : queue'[j] = queue[i]

LEMMA SameWorkStaged ==
    ASSUME NEW n, SameWork(n), Shelf(n)' = Shelf(n), taskDoc'[n] = taskDoc[n],
           Staged(n), Documented(n)
    PROVE  Staged(n)' /\ Documented(n)'
<1>1. PICK s : s = Shelf(n)
  OBVIOUS
<1>2. /\ \A r \in Requests :
            req[r].name = n /\ req[r].pc \notin {"idle", "update_task"} => ReqStage(req[r], s)
      /\ \A i \in DOMAIN queue : queue[i].name = n => StartStage(queue[i].kind, s)
      /\ \A w \in Workers : wk[w].pc # "idle" /\ wk[w].name = n => TaskStage(wk[w], s)
  BY <1>1 DEF Staged
<1>3. \A r \in Requests :
            req'[r].name = n /\ req'[r].pc \notin {"idle", "update_task"} =>
                ReqStage(req'[r], s)
  BY <1>2 DEF SameWork, On
<1>4. \A i \in DOMAIN queue' : queue'[i].name = n => StartStage(queue'[i].kind, s)
  BY <1>2 DEF SameWork
<1>5. \A w \in Workers : wk'[w].pc # "idle" /\ wk'[w].name = n => TaskStage(wk'[w], s)
  BY <1>2 DEF SameWork, On
<1>6. Rested(n)' => Rested(n)
  <2>1. (\A r \in Requests : req'[r].name = n => req'[r].pc \in {"idle", "update_task"})
        => (\A r \in Requests : req[r].name = n => req[r].pc \in {"idle", "update_task"})
    BY DEF SameWork, On
  <2>2. InTask(n) => InTask(n)'
    BY DEF SameWork, On, InTask
  <2> QED
    BY <2>1, <2>2 DEF Rested
<1>7. Rested(n) => Whole(s) \/ Absent(s)
  BY <1>1 DEF Staged
<1>8. Staged(n)'
  BY <1>1, <1>3, <1>4, <1>5, <1>6, <1>7 DEF Staged
<1>9. Documented(n)'
  <2> SUFFICES ASSUME taskDoc[n] # "none"
               PROVE  \/ \E r \in Requests : req'[r].name = n /\ HoldsDoc(req'[r])
                      \/ \E i \in DOMAIN queue' : queue'[i].name = n /\ queue'[i].kind # "remove"
                      \/ \E w \in Workers :
                            wk'[w].name = n /\ wk'[w].pc # "idle" /\ wk'[w].kind # "remove"
    BY DEF Documented
  <2>1. ASSUME NEW r \in Requests, req[r].name = n, HoldsDoc(req[r])
        PROVE  req'[r].name = n /\ HoldsDoc(req'[r])
    <3>1. req[r].pc # "idle"
      BY <2>1 DEF HoldsDoc
    <3>2. req'[r] = req[r]
      BY <2>1, <3>1 DEF SameWork, On
    <3> QED
      BY <2>1, <3>2
  <2>2. ASSUME NEW i \in DOMAIN queue, queue[i].name = n, queue[i].kind # "remove"
        PROVE  \E j \in DOMAIN queue' : queue'[j].name = n /\ queue'[j].kind # "remove"
    BY <2>2 DEF SameWork
  <2>3. ASSUME NEW w \in Workers, wk[w].name = n, wk[w].pc # "idle", wk[w].kind # "remove"
        PROVE  wk'[w].name = n /\ wk'[w].pc # "idle" /\ wk'[w].kind # "remove"
    BY <2>3 DEF SameWork, On
  <2> QED
    BY <2>1, <2>2, <2>3 DEF Documented
<1> QED
  BY <1>8, <1>9

(* All that works on instance n is request r, which has yet to enqueue.    *)
OnlyRequest(r, n) ==
    /\ \A s \in Requests \ {r} : ~On(req'[s], n)
    /\ \A w \in Workers : ~On(wk'[w], n)
    /\ \A i \in DOMAIN queue' : queue'[i].name # n

LEMMA OnlyRequestStaged ==
    ASSUME NEW r \in Requests, NEW n, OnlyRequest(r, n),
           req'[r].pc = "idle" => Whole(Shelf(n)') \/ Absent(Shelf(n)'),
           req'[r].pc # "idle" =>
              /\ req'[r].name = n
              /\ req'[r].pc # "update_task" /\ ReqStage(req'[r], Shelf(n)'),
           taskDoc'[n] = "none" \/ HoldsDoc(req'[r])
    PROVE  Staged(n)' /\ Documented(n)'
<1>1. PICK u : u = Shelf(n)'
  OBVIOUS
<1>2. PICK q : q = req'[r]
  OBVIOUS
<1>3. \A s \in Requests :
          req'[s].name = n /\ req'[s].pc \notin {"idle", "update_task"} => ReqStage(req'[s], u)
  BY <1>1, <1>2 DEF OnlyRequest, On
<1>4. Rested(n)' => Whole(u) \/ Absent(u)
  BY <1>1, <1>2 DEF Rested
<1>5. Staged(n)'
  BY <1>1, <1>3, <1>4 DEF Staged, OnlyRequest, On
<1>6. Documented(n)'
  BY DEF Documented, HoldsDoc
<1> QED
  BY <1>5, <1>6

(* Who has created the task document while a request is under way.         *)
LEMMA RequestDocuments ==
    ASSUME TypeInv, NEW r \in Requests, OnPath(req[r]), RequestStep(r),
           NEW n \in Names, n = req[r].name, req[r].pc # "update_task",
           taskDoc[n] = "none" \/ HoldsDoc(req[r])
    PROVE  \/ taskDoc'[n] = "none" \/ HoldsDoc(req'[r])
           \/ req[r].pc = "delay" /\ req[r].op # "remove"
<1> USE DEF quotaVars, storeVars, cloudVars, boundVars
<1>0. /\ req \in [Requests -> ReqType] /\ req[r] \in ReqType
      /\ taskDoc \in [Names -> {"none", "created", "queued"}]
      /\ req[r].op \in {"none", "new", "remove", "scale", "update"}
  BY DEF TypeInv, TypeOK, ReqType
<1>g. ASSUME NEW pc, Goto(r, pc)
      PROVE  req'[r].pc = pc /\ req'[r].op = req[r].op
  <2>1. req'[r] = [req[r] EXCEPT !.pc = pc]
    BY <1>0, <1>g DEF Goto
  <2> QED
    BY <1>0, <2>1 DEF ReqType
<1>1. CASE taskDoc[n] = "none" /\ UNCHANGED taskDoc
  BY <1>1
<1>2. CASE CreateTask(r)
  <2>1. req[r].pc = "create_task" /\ req[r].op \in {"new", "scale"}
    BY <1>0, <1>2 DEF CreateTask, At, OnPath
  <2>2. taskDoc[n] = "none"
    BY <2>1 DEF HoldsDoc
  <2>3. Goto(r, IF req[r].op = "new" THEN "write_healthcheck" ELSE "find_metadata")
    BY <1>2, <2>2 DEF CreateTask
  <2>4. req'[r].pc \in {"write_healthcheck", "find_metadata"} /\ req'[r].op = req[r].op
    BY <1>g, <2>1, <2>3
  <2> QED
    BY <2>1, <2>4 DEF HoldsDoc
<1>3. CASE WriteHealthcheck(r)
  <2>1. Goto(r, "store_metadata") /\ req[r].op = "new"
    BY <1>0, <1>3 DEF WriteHealthcheck, At, OnPath
  <2> QED
    BY <1>g, <2>1 DEF HoldsDoc
<1>4. CASE FindMetadata(r)
  <2>1. /\ req[r].pc = "find_metadata" /\ req[r].op \in {"scale", "update"}
        /\ UNCHANGED taskDoc
    BY <1>0, <1>4 DEF FindMetadata, At, OnPath
  <2>2. CASE req[r].op = "scale"
    <3>1. Goto(r, IF req[r].name \in metadata THEN "delay" ELSE "store_metadata")
      BY <1>4, <2>2 DEF FindMetadata
    <3>2. req'[r].pc \in {"delay", "store_metadata"} /\ req'[r].op = "scale"
      BY <1>g, <2>2, <3>1
    <3> QED
      BY <3>2 DEF HoldsDoc
  <2>3. CASE req[r].op = "update"
    BY <2>1, <2>3 DEF HoldsDoc
  <2> QED
    BY <2>1, <2>2, <2>3
<1>5. CASE StoreMetadata(r)
  <2>1. /\ req[r].pc = "store_metadata" /\ req[r].op \in {"new", "scale", "update"}
        /\ UNCHANGED taskDoc
    BY <1>0, <1>5 DEF StoreMetadata, At, OnPath
  <2>2. CASE req[r].op = "update"
    BY <2>1, <2>2 DEF HoldsDoc
  <2>3. CASE req[r].op # "update"
    <3>1. Goto(r, "delay")
      BY <1>5, <2>3 DEF StoreMetadata
    <3> QED
      BY <1>g, <2>1, <2>3, <3>1 DEF HoldsDoc
  <2> QED
    BY <2>2, <2>3
<1>6. CASE DecrementQuota(r)
  <2>1. Goto(r, "remove_task") /\ req[r].op = "remove"
    BY <1>0, <1>6 DEF DecrementQuota, At, OnPath
  <2> QED
    BY <1>g, <2>1 DEF HoldsDoc
<1>7. CASE RemoveTask(r)
  BY <1>0, <1>7 DEF RemoveTask
<1>8. CASE Delay(r)
  <2>1. req[r].pc = "delay" /\ UNCHANGED taskDoc
    BY <1>8 DEF Delay, At
  <2> QED
    BY <2>1 DEF HoldsDoc
<1>9. CASE IncrementQuota(r) \/ FindLB(r) \/ RemoveMetadata(r)
  <2>1. /\ req[r].pc \in {"increment_quota", "find_lb", "remove_metadata"}
        /\ UNCHANGED taskDoc
    BY <1>9 DEF IncrementQuota, FindLB, RemoveMetadata, At
  <2> QED
    BY <2>1 DEF HoldsDoc
<1>10. CASE UpdateTask(r)
  BY <1>10 DEF UpdateTask, At
<1> QED
  BY <1>2, <1>3, <1>4, <1>5, <1>6, <1>7, <1>8, <1>9, <1>10 DEF RequestStep

(* Which request acts, and on what: the others and the workers stay, and   *)
(* the queue gets at most its task.                                        *)
LEMMA RequestAlone ==
    ASSUME TypeInv, OnPaths, NEW r \in Requests, RequestStep(r)
    PROVE  /\ req[r].pc # "idle" /\ req[r].name \in Names /\ UNCHANGED wk
           /\ \A s \in Requests \ {r} : req'[s] = req[s]
           /\ req'[r].pc # "idle" => req'[r].name = req[r].name
           /\ \/ ~Delay(r) /\ UNCHANGED queue
              \/ \E m : /\ Delay(r) /\ queue' = Append(queue, m)
                        /\ m.kind = req[r].op /\ m.name = req[r].name
<1> USE DEF quotaVars, storeVars, cloudVars, boundVars
<1>0. /\ req \in [Requests -> ReqType] /\ req[r] \in ReqType /\ ReqRecordOK(req[r])
      /\ IdleReq.pc = "idle"
  BY DEF TypeInv, TypeOK, RecordsOK, IdleReq
<1>1. CASE Delay(r)
  <2>1. PICK m : m = [kind |-> req[r].op, name |-> req[r].name, qty |-> req[r].qty]
    OBVIOUS
  <2>2. queue' = Append(queue, m) /\ m.kind = req[r].op /\ m.name = req[r].name
    BY <1>1, <2>1 DEF Delay
  <2>3. req[r].pc = "delay" /\ UNCHANGED wk
    BY <1>1 DEF Delay, At
  <2>4. \/ req' = [req EXCEPT ![r] = IdleReq]
        \/ req' = [req EXCEPT ![r].pc = "update_task"]
    BY <1>1 DEF Delay, Return, Goto
  <2>5. req'[r].pc # "idle" => req'[r].name = req[r].name
    BY <1>0, <2>4 DEF ReqType
  <2> QED
    BY <1>0, <1>1, <2>2, <2>3, <2>4, <2>5 DEF ReqRecordOK
<1>2. CASE ~Delay(r)
  <2>1. UNCHANGED <<queue, wk>> /\ req[r].pc # "idle"
    BY <1>2, RequestMoves
  <2>2. PICK q : req' = [req EXCEPT ![r] = q] /\ MovedReq(q, req[r])
    BY <1>2, RequestMoves
  <2>3. q.pc # "idle" => q.name = req[r].name
    BY <1>0, <2>2, Zenon DEF MovedReq
  <2> QED
    BY <1>0, <1>2, <2>1, <2>2, <2>3 DEF ReqRecordOK
<1> QED
  BY <1>1, <1>2

(* The update of the task document is all that overlaps the task.          *)
LEMMA UpdateStaged ==
    ASSUME TypeInv, OnPaths, NEW r \in Requests, UpdateTask(r),
           NEW n \in Names, n = req[r].name, Staged(n), Documented(n)
    PROVE  Staged(n)' /\ Documented(n)'
<1> USE DEF quotaVars, storeVars, cloudVars, boundVars
<1>1. /\ req[r].pc = "update_task" /\ UNCHANGED <<queue, wk>> /\ req'[r].pc = "idle"
      /\ \A s \in Requests \ {r} : req'[s] = req[s]
      /\ taskDoc[n] = "none" => taskDoc'[n] = "none"
  BY DEF UpdateTask, At, Return, IdleReq, TypeInv, TypeOK
<1>2. SameShelf(n)
  BY DEF UpdateTask, SameShelf, Charged
<1>3. Shelf(n)' = Shelf(n)
  BY <1>2, ShelfSame
<1>4. PICK s : s = Shelf(n)
  OBVIOUS
<1>5. \A p \in Requests :
          req'[p].name = n /\ req'[p].pc \notin {"idle", "update_task"} =>
              ReqStage(req'[p], s)
  BY <1>1, <1>4 DEF Staged
<1>6. Rested(n)' => Whole(s) \/ Absent(s)
  <2>1. Rested(n)' => Rested(n)
    BY <1>1 DEF Rested, InTask
  <2> QED
    BY <1>4, <2>1 DEF Staged
<1>7. /\ \A i \in DOMAIN queue : queue[i].name = n => StartStage(queue[i].kind, s)
      /\ \A w \in Workers : wk[w].pc # "idle" /\ wk[w].name = n => TaskStage(wk[w], s)
  BY <1>4 DEF Staged
<1>8. Staged(n)'
  BY <1>1, <1>3, <1>4, <1>5, <1>6, <1>7 DEF Staged
<1>9. ~HoldsDoc(req[r])
  BY <1>1 DEF HoldsDoc
<1>10. Documented(n)'
  BY <1>1, <1>9 DEF Documented
<1> QED
  BY <1>8, <1>10

(* The request hands its instance over to the task it enqueues.            *)
LEMMA DelayStaged ==
    ASSUME TypeInv, BillsOK, SerialInv, NEW r \in Requests, Delay(r),
           NEW n \in Names, n = req[r].name, Staged(n), Documented(n)
    PROVE  Staged(n)' /\ Documented(n)'
<1> USE DEF quotaVars, storeVars, cloudVars, boundVars
<1>0. RequestStep(r) /\ req[r].pc = "delay" /\ OnPath(req[r]) /\ UNCHANGED taskDoc
  BY DEF RequestStep, Delay, At, SerialInv, OnPaths
<1>1. /\ UNCHANGED wk
      /\ \A p \in Requests \ {r} : req'[p] = req[p]
      /\ \E m : /\ queue' = Append(queue, m)
                /\ m.kind = req[r].op /\ m.name = n
  BY <1>0, RequestAlone DEF SerialInv
<1>2. PICK m : queue' = Append(queue, m) /\ m.kind = req[r].op /\ m.name = n
  BY <1>1
<1>3. PICK u : u = Shelf(n)'
  OBVIOUS
<1>4. /\ \A p \in Requests \ {r} : ~On(req[p], n)
      /\ \A i \in DOMAIN queue : queue[i].name # n
      /\ \A w \in Workers : ~On(wk[w], n)
  BY <1>0 DEF SerialInv, Serial, OneRequest, RequestBeforeTask, On
<1>5. /\ req[r].pc # "update_task" => ReqStage(req[r], Shelf(n))
      /\ req[r].pc = "create_task" => taskDoc[n] = "none"
  BY <1>0 DEF Staged
<1>6. RequestGoesTo(req'[r], req[r], n, Shelf(n)')
  BY <1>0, <1>5, RequestStages
<1>7. StartStage(m.kind, u) /\ req'[r].pc \in {"idle", "update_task"}
  <2>1. req'[r] = IdleReq \/ req'[r] = [req[r] EXCEPT !.pc = "update_task"]
    BY DEF Delay, Return, Goto, TypeInv, TypeOK
  <2>2. req[r] \in ReqType
    BY DEF TypeInv, TypeOK
  <2>3. req'[r].pc \in {"idle", "update_task"}
    BY <2>1, <2>2 DEF IdleReq, ReqType
  <2> QED
    BY <1>0, <1>2, <1>3, <1>6, <2>3 DEF RequestGoesTo
<1>8. /\ DOMAIN queue = 1..Len(queue) /\ DOMAIN queue' = 1..(Len(queue) + 1)
      /\ Len(queue) \in Nat
      /\ \A i \in DOMAIN queue : queue'[i] = queue[i]
      /\ queue'[Len(queue) + 1] = m
  BY <1>2 DEF TypeInv, TypeOK
<1>9. \A i \in DOMAIN queue' : queue'[i].name = n => StartStage(queue'[i].kind, u)
  BY <1>4, <1>7, <1>8
<1>10. InTask(n)'
  BY <1>2, <1>8 DEF InTask
<1>11. Staged(n)'
  BY <1>1, <1>3, <1>4, <1>7, <1>9, <1>10 DEF Staged, Rested, On
<1>12. Documented(n)'
  <2>1. req[r].op # "remove" =>
            \E i \in DOMAIN queue' : queue'[i].name = n /\ queue'[i].kind # "remove"
    BY <1>2, <1>8
  <2>2. taskDoc[n] # "none" => HoldsDoc(req[r])
    BY <1>4 DEF Documented, HoldsDoc, On
  <2>3. HoldsDoc(req[r]) => req[r].op # "remove"
    BY <1>0 DEF HoldsDoc
  <2> QED
    BY <1>0, <2>1, <2>2, <2>3 DEF Documented
<1> QED
  BY <1>11, <1>12

LEMMA RequestKeepsStaged ==
    ASSUME TypeInv, BillsOK, SerialInv, NEW r \in Requests, RequestStep(r),
           AllStaged, NEW n \in Names
    PROVE  Staged(n)' /\ Documented(n)'
<1>0. Staged(n) /\ Documented(n) /\ OnPaths /\ OnPath(req[r])
  BY DEF AllStaged, SerialInv, OnPaths
<1>1. /\ req[r].pc # "idle" /\ req[r].name \in Names /\ UNCHANGED wk
      /\ \A s \in Requests \ {r} : req'[s] = req[s]
      /\ req'[r].pc # "idle" => req'[r].name = req[r].name
      /\ \/ ~Delay(r) /\ UNCHANGED queue
         \/ \E m : /\ Delay(r) /\ queue' = Append(queue, m)
                   /\ m.kind = req[r].op /\ m.name = req[r].name
  BY <1>0, RequestAlone
<1>2. CASE n # req[r].name
  <2>1. Shelf(n)' = Shelf(n) /\ taskDoc'[n] = taskDoc[n]
    BY <1>2, RequestElsewhere
  <2>2. SameWork(n)
    <3>1. /\ \A i \in DOMAIN queue' : queue'[i].name = n =>
                \E j \in DOMAIN queue : queue[j] = queue'[i]
          /\ \A i \in DOMAIN queue : queue[i].name = n =>
                \E j \in DOMAIN queue' : queue'[j] = queue[i]
      <4>1. CASE UNCHANGED queue
        BY <4>1
      <4>2. ASSUME NEW m, queue' = Append(queue, m), m.name = req[r].name
            PROVE  <3>1!:
        <5>1. /\ DOMAIN queue = 1..Len(queue) /\ DOMAIN queue' = 1..(Len(queue) + 1)
              /\ Len(queue) \in Nat
              /\ \A i \in DOMAIN queue : queue'[i] = queue[i]
              /\ queue'[Len(queue) + 1] = m
          BY <4>2 DEF TypeInv, TypeOK
        <5> QED
          BY <1>2, <4>2, <5>1
      <4> QED
        BY <1>1, <4>1, <4>2
    <3> QED
      BY <1>1, <1>2, <3>1 DEF SameWork, On
  <2> QED
    BY <1>0, <2>1, <2>2, SameWorkStaged
<1>3. CASE n = req[r].name /\ Delay(r)
  BY <1>0, <1>3, DelayStaged
<1>4. CASE n = req[r].name /\ req[r].pc = "update_task"
  <2>1. UpdateTask(r)
    BY <1>4 DEF RequestStep, IncrementQuota, FindLB, CreateTask, WriteHealthcheck,
       FindMetadata, StoreMetadata, DecrementQuota, RemoveTask, RemoveMetadata, Delay, At
  <2> QED
    BY <1>0, <1>4, <2>1, UpdateStaged
<1>5. CASE n = req[r].name /\ ~Delay(r) /\ req[r].pc # "update_task"
  <2>1. /\ \A p \in Requests \ {r} : ~On(req[p], n)
        /\ \A i \in DOMAIN queue : queue[i].name # n
        /\ \A w \in Workers : ~On(wk[w], n)
    BY <1>1, <1>5 DEF SerialInv, Serial, OneRequest, RequestBeforeTask, On
  <2>2. OnlyRequest(r, n)
    BY <1>1, <1>5, <2>1 DEF OnlyRequest, On
  <2>3. taskDoc[n] = "none" \/ HoldsDoc(req[r])
    <3>1. \A p \in Requests : HoldsDoc(req[p]) => req[p].pc # "idle"
      BY DEF HoldsDoc
    <3> QED
      BY <1>0, <2>1, <3>1 DEF Documented, On
  <2>4. /\ req[r].pc # "update_task" => ReqStage(req[r], Shelf(n))
        /\ req[r].pc = "create_task" => taskDoc[n] = "none"
    <3>1. ReqStage(req[r], Shelf(n))
      BY <1>0, <1>1, <1>5 DEF Staged
    <3>2. req[r].pc = "create_task" => ~HoldsDoc(req[r])
      BY DEF HoldsDoc
    <3> QED
      BY <2>3, <3>1, <3>2
  <2>5. RequestGoesTo(req'[r], req[r], n, Shelf(n)')
    BY <1>0, <1>5, <2>4, RequestStages
  <2>6. req[r].pc # "delay"
    BY <1>5 DEF RequestStep, IncrementQuota, FindLB, CreateTask, WriteHealthcheck,
       FindMetadata, StoreMetadata, DecrementQuota, RemoveTask, RemoveMetadata, UpdateTask, At
  <2>7. taskDoc'[n] = "none" \/ HoldsDoc(req'[r])
    BY <1>0, <1>5, <2>3, <2>6, RequestDocuments
  <2>8. /\ req'[r].pc = "idle" => Whole(Shelf(n)') \/ Absent(Shelf(n)')
        /\ req'[r].pc # "idle" =>
              /\ req'[r].name = n
              /\ req'[r].pc # "update_task" /\ ReqStage(req'[r], Shelf(n)')
    BY <1>5, <2>5, <2>6 DEF RequestGoesTo
  <2>9. CASE req'[r].pc # "idle"
    BY <2>2, <2>7, <2>8, <2>9, OnlyRequestStaged
  <2>10. CASE req'[r].pc = "idle"
    BY <2>2, <2>7, <2>8, <2>10, OnlyRequestStaged
  <2> QED
    BY <2>9, <2>10
<1> QED
  BY <1>3, <1>2, <1>4, <1>5

(* An orderly client's request finds its instance whole, or not there.     *)
LEMMA BeginStages ==
    ASSUME Client = "orderly", TypeInv, NEW r \in Requests, NEW n \in Names,
           \/ \E t \in Teams : NewInstance(r, n, t)
           \/ RemoveInstance(r, n)
           \/ \E q \in Quantities : ScaleInstance(r, n, q)
           \/ UpdateInstance(r, n),
           Whole(Shelf(n)) \/ Absent(Shelf(n)), taskDoc[n] = "none"
    PROVE  \E q : /\ req' = [req EXCEPT ![r] = q]
                  /\ q.name = n /\ q.pc \notin {"idle", "update_task"}
                  /\ ReqStage(q, Shelf(n))
                  /\ taskDoc'[n] = "none" \/ HoldsDoc(q)
<1> PICK s : s = Shelf(n)
  OBVIOUS
<1>0. Whole(s) \/ Absent(s)
  OBVIOUS
<1>1. ASSUME NEW q, Begin(r, q), q.name = n, q.pc \notin {"idle", "update_task"},
             ReqStage(q, s), taskDoc'[n] = "none" \/ HoldsDoc(q)
      PROVE  \E p : /\ req' = [req EXCEPT ![r] = p]
                    /\ p.name = n /\ p.pc \notin {"idle", "update_task"}
                    /\ ReqStage(p, s)
                    /\ taskDoc'[n] = "none" \/ HoldsDoc(p)
  BY <1>1 DEF Begin
<1>2. ASSUME NEW t \in Teams, NewInstance(r, n, t)
      PROVE  \E q : /\ Begin(r, q) /\ q.name = n /\ q.pc = "increment_quota" /\ q.op = "new"
                    /\ taskDoc' = taskDoc
  <2>1. PICK q : q = [IdleReq EXCEPT !.pc = "increment_quota", !.op = "new",
                        !.name = n, !.team = t, !.prev = used[t]]
    OBVIOUS
  <2>2. q.name = n /\ q.pc = "increment_quota" /\ q.op = "new"
    BY <2>1 DEF IdleReq
  <2> QED
    BY <1>2, <2>1, <2>2 DEF NewInstance
<1>3. ASSUME RemoveInstance(r, n)
      PROVE  \E q : Begin(r, q) /\ q.name = n /\ q.pc = "decrement_quota" /\ q.op = "remove"
  <2>1. PICK q : q = [IdleReq EXCEPT !.pc = "decrement_quota", !.op = "remove", !.name = n]
    OBVIOUS
  <2>2. q.name = n /\ q.pc = "decrement_quota" /\ q.op = "remove"
    BY <2>1 DEF IdleReq
  <2> QED
    BY <1>3, <2>1, <2>2 DEF RemoveInstance
<1>4. ASSUME NEW a \in Quantities, ScaleInstance(r, n, a)
      PROVE  \E q : /\ Begin(r, q) /\ q.name = n /\ q.pc = "create_task" /\ q.op = "scale"
                    /\ taskDoc' = taskDoc
  <2>1. PICK q : q = [IdleReq EXCEPT !.pc = "create_task", !.op = "scale",
                        !.name = n, !.qty = a]
    OBVIOUS
  <2>2. q.name = n /\ q.pc = "create_task" /\ q.op = "scale"
    BY <2>1 DEF IdleReq
  <2> QED
    BY <1>4, <2>1, <2>2 DEF ScaleInstance
<1>5. ASSUME UpdateInstance(r, n)
      PROVE  \E q : /\ Begin(r, q) /\ q.name = n /\ q.pc = "find_lb" /\ q.op = "update"
                    /\ taskDoc' = taskDoc
  <2>1. PICK q : q = [IdleReq EXCEPT !.pc = "find_lb", !.op = "update", !.name = n]
    OBVIOUS
  <2>2. q.name = n /\ q.pc = "find_lb" /\ q.op = "update"
    BY <2>1 DEF IdleReq
  <2> QED
    BY <1>5, <2>1, <2>2 DEF UpdateInstance
<1>6. ASSUME NEW q, q.op = "new", q.pc = "increment_quota" PROVE ReqStage(q, s)
  BY <1>0, <1>6 DEF ReqStage
<1>7. ASSUME NEW q, q.op = "remove", q.pc = "decrement_quota"
      PROVE  ReqStage(q, s) /\ HoldsDoc(q)
  BY <1>0, <1>7 DEF ReqStage, HoldsDoc
<1>8. ASSUME NEW q, q.op = "scale", Whole(s) PROVE ReqStage(q, s)
  BY <1>8 DEF ReqStage
<1>9. ASSUME NEW q, q.op = "update", q.pc = "find_lb" PROVE ReqStage(q, s)
  BY <1>0, <1>9 DEF ReqStage
<1>10. ASSUME NEW q, Begin(r, q), q.op = "scale", q.name = n PROVE Whole(s)
  <2>1. s.lbs # {}
    BY <1>10, ShelfFrame DEF Begin, MayIssue, LBsOf
  <2> QED
    BY <1>0, <2>1 DEF Absent, Planned
<1>11. CASE \E t \in Teams : NewInstance(r, n, t)
  <2>1. PICK q : /\ Begin(r, q) /\ q.name = n /\ q.pc = "increment_quota" /\ q.op = "new"
                 /\ taskDoc' = taskDoc
    BY <1>2, <1>11
  <2> QED
    BY <1>1, <1>6, <2>1
<1>12. CASE RemoveInstance(r, n)
  <2>1. PICK q : Begin(r, q) /\ q.name = n /\ q.pc = "decrement_quota" /\ q.op = "remove"
    BY <1>3, <1>12
  <2> QED
    BY <1>1, <1>7, <2>1
<1>13. CASE \E a \in Quantities : ScaleInstance(r, n, a)
  <2>1. PICK q : /\ Begin(r, q) /\ q.name = n /\ q.pc = "create_task" /\ q.op = "scale"
                 /\ taskDoc' = taskDoc
    BY <1>4, <1>13
  <2>2. ReqStage(q, s)
    BY <1>8, <1>10, <2>1
  <2> QED
    BY <1>1, <2>1, <2>2
<1>14. CASE UpdateInstance(r, n)
  <2>1. PICK q : /\ Begin(r, q) /\ q.name = n /\ q.pc = "find_lb" /\ q.op = "update"
                 /\ taskDoc' = taskDoc
    BY <1>5, <1>14
  <2> QED
    BY <1>1, <1>9, <2>1
<1> QED
  BY <1>11, <1>12, <1>13, <1>14

LEMMA BeginKeepsStaged ==
    ASSUME Client = "orderly", TypeInv, SerialInv, NEW r \in Requests, NEW n \in Names,
           \/ \E t \in Teams : NewInstance(r, n, t)
           \/ RemoveInstance(r, n)
           \/ \E q \in Quantities : ScaleInstance(r, n, q)
           \/ UpdateInstance(r, n),
           AllStaged, NEW k \in Names
    PROVE  Staged(k)' /\ Documented(k)'
<1>0. /\ req \in [Requests -> ReqType]
      /\ taskDoc \in [Names -> {"none", "created", "queued"}]
      /\ Staged(k) /\ Documented(k) /\ Staged(n) /\ Documented(n)
  BY DEF TypeInv, TypeOK, AllStaged
<1>1. UNCHANGED <<queue, wk>> /\ req[r].pc = "idle" /\ Quiet(n)
  BY RequestBegins DEF Waits
<1>2. /\ UNCHANGED <<used, metadata, kv, hcs, urls, lbOf, attached, hostOf>>
      /\ k # n => taskDoc'[k] = taskDoc[k]
  BY <1>0 DEF NewInstance, RemoveInstance, ScaleInstance, UpdateInstance, Begin, quotaVars,
     cloudVars
<1>3. SameShelf(k)
  BY <1>2 DEF SameShelf, Charged
<1>4. Shelf(k)' = Shelf(k)
  BY <1>3, ShelfSame
<1>5. taskDoc[n] = "none"
  <2>1. \A p \in Requests : HoldsDoc(req[p]) => req[p].pc # "idle"
    BY DEF HoldsDoc
  <2> QED
    BY <1>0, <1>1, <2>1 DEF Documented, Quiet, InRequest, InTask
<1>6. Whole(Shelf(n)) \/ Absent(Shelf(n))
  <2>1. Rested(n)
    BY <1>1 DEF Quiet, InRequest, Rested
  <2> QED
    BY <1>0, <2>1 DEF Staged
<1>7. \E q : /\ req' = [req EXCEPT ![r] = q]
             /\ q.name = n /\ q.pc \notin {"idle", "update_task"}
             /\ ReqStage(q, Shelf(n))
             /\ taskDoc'[n] = "none" \/ HoldsDoc(q)
  BY <1>5, <1>6, BeginStages
<1>8. PICK q : /\ req' = [req EXCEPT ![r] = q]
               /\ q.name = n /\ q.pc \notin {"idle", "update_task"}
               /\ ReqStage(q, Shelf(n))
               /\ taskDoc'[n] = "none" \/ HoldsDoc(q)
  BY <1>7
<1>9. req'[r] = q /\ \A p \in Requests \ {r} : req'[p] = req[p]
  BY <1>0, <1>8
<1>10. CASE k = n
  <2>1. OnlyRequest(r, n)
    BY <1>1, <1>9 DEF OnlyRequest, On, Quiet, InRequest, InTask
  <2>2. /\ req'[r].pc # "idle" /\ req'[r].name = n /\ req'[r].pc # "update_task"
        /\ ReqStage(req'[r], Shelf(n)')
        /\ taskDoc'[n] = "none" \/ HoldsDoc(req'[r])
    BY <1>4, <1>8, <1>9, <1>10
  <2> QED
    BY <1>10, <2>1, <2>2, OnlyRequestStaged
<1>11. CASE k # n
  <2>1. SameWork(k)
    BY <1>1, <1>8, <1>9, <1>11 DEF SameWork, On
  <2> QED
    BY <1>0, <1>2, <1>4, <1>11, <2>1, SameWorkStaged
<1> QED
  BY <1>10, <1>11

(* All that works on instance n is worker w, but for a last update.        *)
OnlyTask(w, n) ==
    /\ \A r \in Requests : On(req'[r], n) => req'[r].pc = "update_task"
    /\ \A v \in Workers \ {w} : ~On(wk'[v], n)
    /\ \A i \in DOMAIN queue' : queue'[i].name # n

LEMMA OnlyTaskStaged ==
    ASSUME NEW w \in Workers, NEW n, OnlyTask(w, n),
           wk'[w].pc = "idle" =>
              /\ Whole(Shelf(n)') \/ Absent(Shelf(n)')
              /\ taskDoc'[n] = "none",
           wk'[w].pc # "idle" =>
              /\ wk'[w].name = n /\ TaskStage(wk'[w], Shelf(n)')
              /\ taskDoc'[n] = "none" \/ wk'[w].kind # "remove"
    PROVE  Staged(n)' /\ Documented(n)'
<1>1. PICK u : u = Shelf(n)'
  OBVIOUS
<1>2. \A v \in Workers : wk'[v].pc # "idle" /\ wk'[v].name = n => TaskStage(wk'[v], u)
  BY <1>1 DEF OnlyTask, On
<1>3. Rested(n)' => Whole(u) \/ Absent(u)
  BY <1>1 DEF Rested, InTask
<1>4. Staged(n)'
  BY <1>1, <1>2, <1>3 DEF Staged, OnlyTask, On
<1>5. Documented(n)'
  BY DEF Documented
<1> QED
  BY <1>4, <1>5

LEMMA TakeKeepsStaged ==
    ASSUME TypeInv, SerialInv, NEW w \in Workers, TakeTask(w), AllStaged, NEW k \in Names
    PROVE  Staged(k)' /\ Documented(k)'
<1>1. /\ UNCHANGED <<quotaVars, storeVars, cloudVars, req>>
      /\ \E t : wk' = [wk EXCEPT ![w] = t] /\ TakenTask(t, queue[1])
      /\ queue # <<>> /\ queue[1] \in TaskType
  BY TakeTaskTakes
<1>2. PICK t : wk' = [wk EXCEPT ![w] = t] /\ TakenTask(t, queue[1])
  BY <1>1
<1>3. PICK n : n = queue[1].name
  OBVIOUS
<1>4. /\ t.name = n /\ t.kind = queue[1].kind /\ ~t.error
      /\ t.pc \in {"create_lb", "find_lb"} /\ n \in Names
  BY <1>1, <1>2, <1>3 DEF TakenTask, TaskType
<1>5. wk'[w] = t /\ wk[w].pc = "idle" /\ \A v \in Workers \ {w} : wk'[v] = wk[v]
  BY <1>2 DEF TypeInv, TypeOK, TakeTask, In
<1>6. /\ queue' = Tail(queue) /\ DOMAIN queue = 1..Len(queue) /\ Len(queue) \in Nat \ {0}
      /\ DOMAIN queue' = 1..(Len(queue) - 1)
      /\ \A i \in 1..(Len(queue) - 1) : queue'[i] = queue[i + 1]
  <2>1. queue \in Seq(TaskType)
    BY DEF TypeInv, TypeOK
  <2> QED
    BY <1>1, <2>1 DEF TakeTask
<1>7. 1 \in DOMAIN queue
  BY <1>6
<1>8. Staged(k) /\ Documented(k) /\ Shelf(k)' = Shelf(k) /\ taskDoc' = taskDoc
  <2>1. SameShelf(k)
    BY <1>1 DEF SameShelf, Charged, quotaVars, storeVars, cloudVars
  <2> QED
    BY <1>1, <2>1, ShelfSame DEF AllStaged, storeVars
<1>9. CASE k # n
  <2>1. /\ \A i \in DOMAIN queue' : queue'[i].name = k =>
              \E j \in DOMAIN queue : queue[j] = queue'[i]
        /\ \A i \in DOMAIN queue : queue[i].name = k =>
              \E j \in DOMAIN queue' : queue'[j] = queue[i]
    <3>1. ASSUME NEW i \in DOMAIN queue'
          PROVE  \E j \in DOMAIN queue : queue[j] = queue'[i]
      <4>1. i + 1 \in DOMAIN queue /\ queue[i + 1] = queue'[i]
        BY <1>6
      <4> QED
        BY <4>1
    <3>2. ASSUME NEW i \in DOMAIN queue, queue[i].name = k
          PROVE  \E j \in DOMAIN queue' : queue'[j] = queue[i]
      <4>1. i # 1
        BY <1>3, <1>9, <3>2
      <4>2. i - 1 \in DOMAIN queue' /\ queue'[i - 1] = queue[i]
        BY <1>6, <4>1
      <4> QED
        BY <4>2
    <3> QED
      BY <3>1, <3>2
  <2>2. SameWork(k)
    BY <1>1, <1>4, <1>5, <1>9, <2>1 DEF SameWork, On
  <2> QED
    BY <1>8, <2>2, SameWorkStaged
<1>10. CASE k = n
  <2>1. /\ \A r \in Requests : On(req[r], n) => req[r].pc = "update_task"
        /\ \A v \in Workers : ~On(wk[v], n)
        /\ \A i \in DOMAIN queue : queue[i].name = n => i = 1
    BY <1>3, <1>7 DEF SerialInv, Serial, RequestBeforeTask, QueuedBeforeTaken, OneQueued, On
  <2>2. \A i \in DOMAIN queue' : queue'[i].name # n
    <3> SUFFICES ASSUME NEW i \in DOMAIN queue', queue'[i].name = n
                 PROVE  FALSE
      OBVIOUS
    <3>1. i + 1 \in DOMAIN queue /\ i + 1 # 1 /\ queue[i + 1] = queue'[i]
      BY <1>6
    <3> QED
      BY <2>1, <3>1
  <2>3. OnlyTask(w, n)
    BY <1>1, <1>5, <2>1, <2>2 DEF OnlyTask
  <2>4. StartStage(t.kind, Shelf(n))
    BY <1>3, <1>4, <1>7, <1>8, <1>10 DEF Staged
  <2>5. TaskStage(t, Shelf(n)')
    BY <1>4, <1>8, <1>10, <2>4 DEF TaskStage, DeletePcs
  <2>6. taskDoc[n] = "none" \/ t.kind # "remove"
    <3>1. \A r \in Requests : HoldsDoc(req[r]) => req[r].pc \notin {"idle", "update_task"}
      BY DEF HoldsDoc
    <3> QED
      BY <1>3, <1>4, <1>8, <1>10, <2>1, <3>1 DEF Documented, On
  <2>7. /\ wk'[w].pc # "idle" /\ wk'[w].name = n /\ TaskStage(wk'[w], Shelf(n)')
        /\ taskDoc'[n] = "none" \/ wk'[w].kind # "remove"
    <3>1. wk'[w].pc # "idle" /\ wk'[w].name = n
      BY <1>4, <1>5
    <3>2. TaskStage(wk'[w], Shelf(n)')
      BY <1>5, <2>5
    <3>3. taskDoc'[n] = "none" \/ wk'[w].kind # "remove"
      BY <1>5, <1>8, <2>6
    <3> QED
      BY <3>1, <3>2, <3>3
  <2> QED
    BY <1>10, <2>3, <2>7, OnlyTaskStaged
<1> QED
  BY <1>9, <1>10

LEMMA WorkerKeepsStaged ==
    ASSUME TypeInv, SerialInv, FleetInv, HeldTasks, Supplied, RetainLB = FALSE,
           NEW w \in Workers, WorkerStep(w), ~TakeTask(w), AllStaged, NEW k \in Names
    PROVE  Staged(k)' /\ Documented(k)'
<1>1. /\ UNCHANGED <<req, queue>> /\ wk[w].pc # "idle"
      /\ \E t : wk' = [wk EXCEPT ![w] = t] /\ MovedTask(t, wk[w])
  BY WorkerMoves
<1>2. PICK n : n = wk[w].name
  OBVIOUS
<1>3. n \in Names /\ \A v \in Workers \ {w} : wk'[v] = wk[v]
  BY <1>1, <1>2 DEF TypeInv, TypeOK, RecordsOK, WkRecordOK
<1>4. TaskStage(wk[w], Shelf(n))
  BY <1>1, <1>2, <1>3 DEF AllStaged, Staged
<1>5. TaskGoesTo(wk'[w], wk[w], n, Shelf(n)')
  BY <1>2, <1>4, TaskStages
<1>6. Staged(k) /\ Documented(k)
  BY DEF AllStaged
<1>7. CASE k # n
  <2>1. wk[w].pc = "destroy_host" => hostOf[wk[w].host] = wk[w].name
    <3> SUFFICES ASSUME wk[w].pc = "destroy_host"
                 PROVE  hostOf[wk[w].host] = wk[w].name
      OBVIOUS
    <3>1. wk[w].host \in Shelf(n).machines
      BY <1>4 DEF TaskStage, DeleteStage, DeletePcs
    <3> QED
      BY <1>2, <3>1, ShelfFrame
  <2>2. Shelf(k)' = Shelf(k) /\ taskDoc'[k] = taskDoc[k]
    BY <1>2, <1>7, <2>1, TaskElsewhere
  <2>3. wk'[w].pc # "idle" => wk'[w].name = n
    BY <1>5 DEF TaskGoesTo
  <2>4. SameWork(k)
    BY <1>1, <1>2, <1>3, <1>7, <2>3 DEF SameWork, On
  <2> QED
    BY <1>6, <2>2, <2>4, SameWorkStaged
<1>8. CASE k = n
  <2>1. /\ \A r \in Requests : On(req[r], n) => req[r].pc = "update_task"
        /\ \A v \in Workers \ {w} : ~On(wk[v], n)
        /\ \A i \in DOMAIN queue : queue[i].name # n
    BY <1>1, <1>2 DEF SerialInv, Serial, RequestBeforeTask, QueuedBeforeTaken, OneTask, On
  <2>2. OnlyTask(w, n)
    BY <1>1, <1>3, <2>1 DEF OnlyTask
  <2>3. taskDoc[n] = "none" \/ wk[w].kind # "remove"
    <3>1. \A r \in Requests : HoldsDoc(req[r]) => req[r].pc \notin {"idle", "update_task"}
      BY DEF HoldsDoc
    <3> QED
      BY <1>6, <1>8, <2>1, <3>1 DEF Documented, On
  <2>4. taskDoc'[n] = taskDoc[n] \/ taskDoc'[n] = "none"
    <3>1. taskDoc \in [Names -> {"none", "created", "queued"}]
      BY DEF TypeInv, TypeOK
    <3> QED
      BY <1>2, <1>3, <3>1 DEF WorkerStep, AddHostStep, DeleteHostStep, TaskFindLB, CreateLB,
         CreateHC, CreateHost, AddHost, WaitHealthcheck, AddURL, AddFinally, DestroyHost,
         RemoveHost, RemoveURL, DeleteFinally, ScaleFinally, DestroyInstance, DestroyLB,
         DestroyHC, TaskRaises, storeVars
  <2>5. CASE wk'[w].pc = "idle"
    <3>1. wk[w].kind = "remove" \/ taskDoc'[n] = "none"
      BY <1>2, <1>4, <2>5, TaskFrees
    <3>2. taskDoc'[n] = "none" /\ (Whole(Shelf(n)') \/ Absent(Shelf(n)'))
      BY <1>5, <2>3, <2>4, <2>5, <3>1 DEF TaskGoesTo
    <3> QED
      BY <1>8, <2>2, <2>5, <3>2, OnlyTaskStaged
  <2>6. CASE wk'[w].pc # "idle"
    <3>1. /\ wk'[w].name = n /\ TaskStage(wk'[w], Shelf(n)')
          /\ taskDoc'[n] = "none" \/ wk'[w].kind # "remove"
      BY <1>5, <2>3, <2>4, <2>6 DEF TaskGoesTo
    <3> QED
      BY <1>8, <2>2, <2>6, <3>1, OnlyTaskStaged
  <2> QED
    BY <2>5, <2>6
<1> QED
  BY <1>7, <1>8

LEMMA InitStores == Init => StoreInv
<1> SUFFICES ASSUME Init PROVE StoreInv
  OBVIOUS
<1>1. ASSUME NEW n \in Names PROVE Staged(n) /\ Documented(n)
  <2>0. n # "unused" /\ n # Nothing
    BY ConstantsAssumption
  <2>1. \A r \in Requests : req[r].pc = "idle" /\ req[r].name = Nothing
    BY DEF Init, IdleReq
  <2>2. (\A w \in Workers : wk[w].pc = "idle") /\ DOMAIN queue = {}
    BY DEF Init, IdleWk
  <2>3. ~Charged(n)
    <3>1. \A t \in Teams : used[t] = <<>>
      BY DEF Init
    <3> QED
      BY <3>1 DEF Charged, Contains
  <2>4. /\ \A l \in LBs : lbOf[l] # n
        /\ \A h \in Hosts : hostOf[h] # n
        /\ urls[n] = {} /\ metadata = {} /\ kv = {} /\ hcs = {} /\ taskDoc[n] = "none"
    BY <2>0 DEF Init
  <2>5. PICK s : s = Shelf(n)
    OBVIOUS
  <2>6. /\ s.in \subseteq Stores
        /\ "bill" \in s.in <=> Charged(n)
        /\ "metadata" \in s.in <=> n \in metadata
        /\ "keys" \in s.in <=> n \in kv
        /\ "check" \in s.in <=> n \in hcs
        /\ s.urls = urls[n]
        /\ s.machines = {h \in Hosts : hostOf[h] = n}
        /\ s.behind = BehindOf(n, lbOf, attached)
        /\ s.lbs = {l \in LBs : lbOf[l] = n}
    BY <2>5, ShelfFrame
  <2>7. s.in = {} /\ s.urls = {} /\ s.machines = {} /\ s.lbs = {}
    BY <2>3, <2>4, <2>6 DEF Stores
  <2>8. s.behind = {}
    BY <2>4, <2>6, BehindNone
  <2>9. Absent(s)
    BY <2>7, <2>8 DEF Absent, Planned
  <2>10. Staged(n)
    BY <2>1, <2>2, <2>5, <2>9 DEF Staged
  <2> QED
    BY <2>4, <2>10 DEF Documented
<1> QED
  BY <1>1 DEF StoreInv, AllStaged

LEMMA StepStoreInv ==
    ASSUME Client = "orderly", RetainLB = FALSE, QuotaInv, SerialInv, FleetInv, HeldTasks,
           Supplied, StoreInv, [Next]_vars
    PROVE  StoreInv'
<1>0. TypeInv /\ BillsOK
  BY DEF QuotaInv
<1> SUFFICES ASSUME Calm', NEW k \in Names PROVE Staged(k)' /\ Documented(k)'
  BY DEF StoreInv, AllStaged
<1>1. Calm /\ (\A r \in Requests : ~RequestRaises(r))
           /\ (\A w \in Workers : ~CallFails(w) /\ ~Crash(w))
  <2>0. reqFaults \in Nat /\ faults \in Nat /\ crashes \in Nat
    BY <1>0 DEF TypeInv, TypeOK
  <2>1. \A r \in Requests : ~RequestRaises(r)
    BY <2>0 DEF RequestRaises, Calm
  <2>2. \A w \in Workers : ~CallFails(w) /\ ~Crash(w)
    BY <2>0 DEF CallFails, Crash, Calm
  <2>3. UNCHANGED <<reqFaults, faults, crashes>> => Calm
    BY DEF Calm
  <2>4. ASSUME NEW t \in Teams, NEW q \in QuotaValues, SetTeamQuota(t, q)
        PROVE  Calm
    BY <2>3, <2>4 DEF SetTeamQuota, boundVars
  <2>5. ASSUME NEW r \in Requests, NEW n \in Names,
               \/ \E t \in Teams : NewInstance(r, n, t)
               \/ RemoveInstance(r, n)
               \/ \E q \in Quantities : ScaleInstance(r, n, q)
               \/ UpdateInstance(r, n)
        PROVE  Calm
    BY <2>3, <2>5 DEF NewInstance, RemoveInstance, ScaleInstance, UpdateInstance, Begin
  <2>6. ASSUME NEW r \in Requests, RequestStep(r)
        PROVE  Calm
    BY <2>3, <2>6 DEF RequestStep, IncrementQuota, FindLB, CreateTask, WriteHealthcheck,
       FindMetadata, StoreMetadata, DecrementQuota, RemoveTask, RemoveMetadata, Delay,
       UpdateTask, boundVars
  <2>7. ASSUME NEW w \in Workers, WorkerStep(w)
        PROVE  Calm
    BY <2>3, <2>7 DEF WorkerStep, AddHostStep, DeleteHostStep, TakeTask, TaskFindLB, CreateLB,
       CreateHC, CreateHost, AddHost, WaitHealthcheck, AddURL, AddFinally, DestroyHost,
       RemoveHost, RemoveURL, DeleteFinally, ScaleFinally, DestroyInstance, DestroyLB,
       DestroyHC, TaskRaises, boundVars
  <2>8. ASSUME UNCHANGED vars PROVE Calm
    <3>1. UNCHANGED <<reqFaults, faults, crashes>>
      BY <2>8 DEF vars, boundVars
    <3> QED
      BY <2>3, <3>1
  <2>9. Calm
    BY <2>1, <2>2, <2>4, <2>5, <2>6, <2>7, <2>8 DEF Next
  <2> QED
    BY <2>1, <2>2, <2>9
<1>2. AllStaged
  BY <1>1 DEF StoreInv
<1>3. ASSUME UNCHANGED <<used, storeVars, cloudVars, req, queue, wk>>
      PROVE  Staged(k)' /\ Documented(k)'
  <2>1. SameShelf(k) /\ taskDoc'[k] = taskDoc[k]
    BY <1>3 DEF SameShelf, Charged, storeVars, cloudVars
  <2>2. Shelf(k)' = Shelf(k)
    BY <2>1, ShelfSame
  <2>3. SameWork(k)
    BY <1>3 DEF SameWork
  <2> QED
    BY <1>2, <2>1, <2>2, <2>3, SameWorkStaged DEF AllStaged
<1>4. CASE UNCHANGED vars
  BY <1>3, <1>4 DEF vars, quotaVars
<1>5. ASSUME NEW t \in Teams, NEW q \in QuotaValues, SetTeamQuota(t, q)
      PROVE  Staged(k)' /\ Documented(k)'
  BY <1>3, <1>5 DEF SetTeamQuota
<1>6. ASSUME NEW r \in Requests, RequestStep(r)
      PROVE  Staged(k)' /\ Documented(k)'
  BY <1>0, <1>2, <1>6, RequestKeepsStaged
<1>7. ASSUME NEW w \in Workers, WorkerStep(w)
      PROVE  Staged(k)' /\ Documented(k)'
  <2>1. CASE TakeTask(w)
    BY <1>0, <1>2, <2>1, TakeKeepsStaged
  <2>2. CASE ~TakeTask(w)
    BY <1>0, <1>2, <1>7, <2>2, WorkerKeepsStaged
  <2> QED
    BY <2>1, <2>2
<1>8. ASSUME NEW r \in Requests, NEW n \in Names,
             \/ \E t \in Teams : NewInstance(r, n, t)
             \/ RemoveInstance(r, n)
             \/ \E q \in Quantities : ScaleInstance(r, n, q)
             \/ UpdateInstance(r, n)
      PROVE  Staged(k)' /\ Documented(k)'
  BY <1>0, <1>2, <1>8, BeginKeepsStaged
<1> QED
  BY <1>1, <1>4, <1>5, <1>6, <1>7, <1>8 DEF Next

(* StoresAgree, for a client that waits until all work on an instance is   *)
(* over and scales only what exists, when a removal takes the LB down with *)
(* the instance: while nothing has failed and hm has what the tasks ask it *)
(* for, the stores and the cloud agree about every instance nobody works   *)
(* on (manager.py, tasks.py).                                              *)
THEOREM StoresStayInStep ==
    ASSUME Client = "orderly", RetainLB = FALSE
    PROVE  Spec /\ []Supplied => []StoresAgree
<1> DEFINE IInv == QuotaInv /\ SerialInv /\ FleetInv /\ HeldTasks /\ StoreInv
<1>1. Init => IInv
  <2>1. Init => HeldTasks
    BY ConstantsAssumption DEF Init, HeldTasks, HoldsOn, IdleWk
  <2> QED
    BY <2>1, InitQuotaInv, InitLBInv, InitFleet, InitStores DEF LBInv, SerialInv
<1>2. IInv /\ Supplied /\ [Next]_vars => IInv'
  <2> SUFFICES ASSUME IInv, Supplied, [Next]_vars PROVE IInv'
    OBVIOUS
  <2>1. TypeInv /\ Waits
    BY DEF QuotaInv, Waits
  <2>2. QuotaInv' /\ SerialInv' /\ FleetInv'
    BY <2>1, StepQuotaInv, StepSerialInv, StepFleet
  <2>3. HeldTasks'
    BY <2>1, StepHeldTasks
  <2>4. StoreInv'
    BY StepStoreInv
  <2> QED
    BY <2>2, <2>3, <2>4
<1>3. IInv => StoresAgree
  <2> SUFFICES ASSUME IInv, NEW n \in Names, Quiet(n), reqFaults + faults + crashes = 0
               PROVE  LET machines == {h \in Hosts : hostOf[h] = n}
                          exists == LBsOf(n) # {}
                      IN  /\ taskDoc[n] = "none"
                          /\ Charged(n) <=> exists
                          /\ n \in metadata <=> exists
                          /\ n \in kv <=> exists
                          /\ n \in hcs <=> exists
                          /\ urls[n] = machines
                          /\ machines = UNION {ToSet(attached[l]) : l \in LBsOf(n)}
    BY DEF StoresAgree
  <2>0. /\ reqFaults \in Nat /\ faults \in Nat /\ crashes \in Nat
        /\ attached \in [LBs -> Seq(Hosts)]
    BY DEF QuotaInv, TypeInv, TypeOK
  <2>1. Staged(n) /\ Documented(n)
    BY <2>0 DEF StoreInv, Calm, AllStaged
  <2>2. Rested(n)
    BY DEF Quiet, InRequest, Rested
  <2>3. PICK s : s = Shelf(n)
    OBVIOUS
  <2>4. Whole(s) \/ Absent(s)
    BY <2>1, <2>2, <2>3 DEF Staged
  <2>5. /\ "bill" \in s.in <=> Charged(n)
        /\ "metadata" \in s.in <=> n \in metadata
        /\ "keys" \in s.in <=> n \in kv
        /\ "check" \in s.in <=> n \in hcs
        /\ s.urls = urls[n]
        /\ s.machines = {h \in Hosts : hostOf[h] = n}
        /\ s.behind = BehindOf(n, lbOf, attached)
        /\ s.lbs = LBsOf(n)
    BY <2>3, ShelfFrame DEF LBsOf
  <2>6. taskDoc[n] = "none"
    <3>1. \A r \in Requests : HoldsDoc(req[r]) => req[r].pc # "idle"
      BY DEF HoldsDoc
    <3> QED
      BY <2>1, <3>1 DEF Documented, Quiet, InRequest, InTask
  <2>7. BehindOf(n, lbOf, attached) = UNION {ToSet(attached[l]) : l \in LBsOf(n)}
    <3>1. \A l \in LBs : ToSet(attached[l]) \subseteq Hosts
      BY <2>0 DEF ToSet
    <3> QED
      BY <3>1 DEF BehindOf, LBsOf
  <2>8. /\ \A x \in Stores : x \in s.in <=> s.lbs # {}
        /\ s.urls = s.machines /\ s.machines = s.behind
    BY <2>4 DEF Whole, Absent, Even, Planned
  <2> QED
    BY <2>5, <2>6, <2>7, <2>8 DEF Stores
<1> HIDE DEF IInv
<1> QED
  BY <1>1, <1>2, <1>3, PTL DEF Spec

(* Only finitely many LBs and machines were ever handed out.               *)
Taken ==
    /\ IsFiniteSet({l \in LBs : lbOf[l] # "unused"})
    /\ IsFiniteSet({h \in Hosts : hostOf[h] # "unused"})

(* One step hands out at most one LB and one machine.                      *)
LEMMA StepTaken == TypeInv /\ Taken /\ [Next]_vars => Taken'
<1> SUFFICES ASSUME TypeInv, Taken, [Next]_vars PROVE Taken'
  OBVIOUS
<1>0. /\ lbOf \in [LBs -> Names \cup {"unused", "destroyed"}]
      /\ hostOf \in [Hosts -> Names \cup {"unused", "destroyed"}]
  BY DEF TypeInv, TypeOK
<1>1. ASSUME NEW S, IsFiniteSet(S), NEW x, NEW T, T \subseteq S \cup {x}
      PROVE  IsFiniteSet(T)
  <2>1. IsFiniteSet(S \cup {x})
    BY <1>1, FS_AddElement
  <2> QED
    BY <1>1, <2>1, FS_Subset
<1>2. CASE UNCHANGED <<lbOf, hostOf>>
  BY <1>2 DEF Taken
<1>3. ASSUME NEW w \in Workers, WorkerStep(w) \/ CallFails(w) \/ Crash(w)
      PROVE  Taken'
  <2>1. PICK l : \A k \in LBs : k # l => lbOf'[k] = lbOf[k]
    <3>1. CASE UNCHANGED lbOf
      BY <3>1
    <3>2. CASE CreateLB(w)
      BY <1>0, <3>2 DEF CreateLB, LBsOf
    <3>3. CASE DestroyLB(w)
      BY <1>0, <3>3 DEF DestroyLB
    <3> QED
      BY <1>3, <3>1, <3>2, <3>3, CloudSteps DEF CloudStep, CreateHost, AddHost, DestroyHost,
         RemoveHost
  <2>2. PICK h : \A k \in Hosts : k # h => hostOf'[k] = hostOf[k]
    <3>1. CASE UNCHANGED hostOf
      BY <3>1
    <3>2. CASE CreateHost(w)
      BY <1>0, <3>2 DEF CreateHost
    <3>3. CASE DestroyHost(w)
      BY <1>0, <3>3 DEF DestroyHost
    <3> QED
      BY <1>3, <3>1, <3>2, <3>3, CloudSteps DEF CloudStep, CreateLB, AddHost, RemoveHost,
         DestroyLB
  <2>3. {k \in LBs : lbOf'[k] # "unused"} \subseteq {k \in LBs : lbOf[k] # "unused"} \cup {l}
    BY <2>1
  <2>4. {k \in Hosts : hostOf'[k] # "unused"}
            \subseteq {k \in Hosts : hostOf[k] # "unused"} \cup {h}
    BY <2>2
  <2> QED
    BY <1>1, <2>3, <2>4 DEF Taken
<1>4. CASE UNCHANGED vars
  BY <1>2, <1>4 DEF vars, cloudVars
<1>5. ASSUME NEW t \in Teams, NEW q \in QuotaValues, SetTeamQuota(t, q)
      PROVE  Taken'
  BY <1>2, <1>5 DEF SetTeamQuota, cloudVars
<1>6. ASSUME NEW r \in Requests, RequestStep(r) \/ RequestRaises(r)
      PROVE  Taken'
  BY <1>2, <1>6 DEF RequestStep, RequestRaises, IncrementQuota, FindLB, CreateTask,
     WriteHealthcheck, FindMetadata, StoreMetadata, DecrementQuota, RemoveTask,
     RemoveMetadata, Delay, UpdateTask, cloudVars
<1>7. ASSUME NEW r \in Requests, NEW n \in Names,
             \/ \E t \in Teams : NewInstance(r, n, t)
             \/ RemoveInstance(r, n)
             \/ \E q \in Quantities : ScaleInstance(r, n, q)
             \/ UpdateInstance(r, n)
      PROVE  Taken'
  BY <1>2, <1>7 DEF NewInstance, RemoveInstance, ScaleInstance, UpdateInstance, Begin,
     cloudVars
<1> QED
  BY <1>3, <1>4, <1>5, <1>6, <1>7 DEF Next

(* The same with clouds that never run out of LBs and machines.            *)
COROLLARY StoresAgreeUnlimited ==
    ASSUME Client = "orderly", RetainLB = FALSE, ~IsFiniteSet(LBs), ~IsFiniteSet(Hosts)
    PROVE  Spec => []StoresAgree
<1>1. Init => TypeInv /\ Taken
  <2> SUFFICES ASSUME Init PROVE Taken
    BY InitTypeInv
  <2>1. {l \in LBs : lbOf[l] # "unused"} = {} /\ {h \in Hosts : hostOf[h] # "unused"} = {}
    BY DEF Init
  <2> QED
    BY <2>1, FS_EmptySet DEF Taken
<1>2. TypeInv /\ Taken /\ [Next]_vars => (TypeInv /\ Taken)'
  BY StepTypes, StepTaken
<1>3. Taken => Supplied
  <2> SUFFICES ASSUME Taken
               PROVE  LBsOf("unused") # {} /\ \E h \in Hosts : hostOf[h] = "unused"
    BY DEF Supplied
  <2>1. ASSUME LBsOf("unused") = {} PROVE FALSE
    <3>1. {l \in LBs : lbOf[l] # "unused"} = LBs
      BY <2>1 DEF LBsOf
    <3> QED
      BY <3>1 DEF Taken
  <2>2. ASSUME \A h \in Hosts : hostOf[h] # "unused" PROVE FALSE
    <3>1. {h \in Hosts : hostOf[h] # "unused"} = Hosts
      BY <2>2
    <3> QED
      BY <3>1 DEF Taken
  <2> QED
    BY <2>1, <2>2
<1>4. Spec /\ []Supplied => []StoresAgree
  BY StoresStayInStep
<1> QED
  BY <1>1, <1>2, <1>3, <1>4, PTL DEF Spec
=============================================================================
