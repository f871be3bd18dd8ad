----------------------- MODULE RouterBackends_proofs -----------------------
(***************************************************************************)
(* Proofs about Bindings, Swap and RouterBackends, for any number of       *)
(* instances, paths, addresses, requests and jobs.                         *)
(***************************************************************************)
EXTENDS RouterBackends, SequenceTheorems, FiniteSetTheorems, TLAPS

-----------------------------------------------------------------------------
(***************************************************************************)
(* Swaps and removals of instances: SwapPaired.                            *)
(***************************************************************************)

Swaps == {"src", "dst", "again", "first", "second"}
Removes == {"doc", "task", "binding", "tree", "lb"}

SwapPlaces(j) ==
    /\ job[j].pc \in Swaps => job[j].src \in Instances /\ job[j].dst \in Instances
    /\ job[j].pc \in Removes => job[j].src \in Instances /\ job[j].dst = None

(* What a job that is clean has read still holds. *)
Alone(j) == \A k \in Jobs \ {j} : Working(k) => Names(j) \cap Names(k) = {}

Knows(j) ==
    LET a == job[j].src
        b == job[j].dst
    IN  /\ job[j].pc \in Swaps => {a, b} \subseteq live
        /\ job[j].pc \in Removes => partner[a] = None
        /\ job[j].pc \in {"dst", "first"} => job[j].seen = partner[a]
        /\ job[j].pc \in {"again", "first"} => Swappable(a, b, partner[a], partner[b])
        /\ job[j].pc = "second" => partner[a] = Written(j, b) /\ partner[b] \in {None, a, b}

JobOK(j) ==
    Working(j) => IF job[j].clean THEN Alone(j) /\ Knows(j) ELSE Names(j) \subseteq mixed

(* A job on the partner of i, but not on i, that will find the pair and    *)
(* leave it, if it has not yet.                                            *)
Harmless(j, i) ==
    /\ job[j].pc \in {"src", "dst"}
    /\ job[j].pc = "dst" /\ job[j].src = partner[i] => job[j].seen = i

(* A job on i has not written yet. *)
Settled(i) == i \notin mixed /\ \A j \in WorkOn(i) : job[j].pc # "second"

Mutual(i) ==
    partner[i] # None =>
        /\ partner[partner[i]] = i
        /\ {i, partner[i]} \subseteq live
        /\ \A j \in WorkOn(partner[i]) : i \in Names(j) \/ Harmless(j, i)

SwapInv ==
    /\ SwapTypeOK
    /\ \A j \in Jobs : SwapPlaces(j) /\ JobOK(j)
    /\ \A i \in Instances : Settled(i) => Mutual(i)

LEMMA NamesOf ==
    ASSUME SwapTypeOK, NEW j \in Jobs, Working(j), SwapPlaces(j)
    PROVE  /\ job[j] \in JobType
           /\ job[j].src \in Instances /\ job[j].src \in Names(j) /\ Names(j) \subseteq Instances
           /\ job[j].pc \in Swaps => job[j].dst \in Instances /\ Names(j) = {job[j].src, job[j].dst}
           /\ job[j].pc \in Removes => Names(j) = {job[j].src}
           /\ job[j].pc \in Swaps \cup Removes
  <1>1. job[j] \in JobType /\ None \notin Instances
    BY SwapAssumption DEF SwapTypeOK
  <1>2. job[j].pc \in Swaps \cup Removes
    BY <1>1 DEF JobType, Working, Swaps, Removes
  <1> QED BY <1>1, <1>2 DEF SwapPlaces, Names

(* Job j goes to state x, and touches nothing but its instances. *)
Proceeds(j, x) ==
    /\ job' = [job EXCEPT ![j] = x] /\ x \in JobType
    /\ \/ x.pc = "idle"
       \/ x.src = job[j].src /\ x.dst = job[j].dst /\ x.clean = job[j].clean
    /\ \A i \in Instances \ Names(j) :
          /\ partner'[i] = partner[i]
          /\ i \in live' <=> i \in live
    /\ mixed \subseteq mixed' \/ (job[j].clean /\ mixed \ Names(j) \subseteq mixed')

LEMMA ProceedsOne ==
    ASSUME SwapTypeOK, NEW j \in Jobs, NEW x, Proceeds(j, x)
    PROVE  /\ job' \in [Jobs -> JobType] /\ job'[j] = x
           /\ \A k \in Jobs \ {j} : job'[k] = job[k]
  BY DEF SwapTypeOK, Proceeds

LEMMA OthersGoOn ==
    ASSUME SwapInv, NEW j \in Jobs, Working(j), NEW x, Proceeds(j, x), NEW k \in Jobs \ {j}
    PROVE  SwapPlaces(k)' /\ JobOK(k)'
  <1>0. /\ SwapTypeOK /\ SwapPlaces(k) /\ JobOK(k) /\ SwapPlaces(j) /\ JobOK(j)
    BY DEF SwapInv
  <1>1. job'[j] = x /\ \A h \in Jobs \ {j} : job'[h] = job[h]
    BY <1>0, ProceedsOne
  <1>2. SwapPlaces(k)'
    BY <1>0, <1>1 DEF SwapPlaces
  <1>3. \A h \in Jobs \ {j} : Names(h)' = Names(h) /\ (Working(h)' <=> Working(h))
    BY <1>1 DEF Names, Working
  <1>4. x.pc = "idle" \/ Names(j)' = Names(j)
    BY <1>1 DEF Proceeds, Names
  <1>5. ASSUME Working(k), job[k].clean
        PROVE  Alone(k)' /\ Knows(k)'
    <2>1. Alone(k) /\ Knows(k)
      BY <1>0, <1>5 DEF JobOK
    <2>2. Alone(k)'
      BY <1>1, <1>3, <1>4, <2>1 DEF Alone, Working
    <2>3. Names(k) \cap Names(j) = {} /\ job[k].src \in Names(k) /\ Names(k) \subseteq Instances
      BY <1>0, <1>5, <2>1, NamesOf DEF Alone
    <2>4. job[k].pc \in Swaps => job[k].dst \in Names(k)
      BY <1>0, <1>5, NamesOf
    <2>5. /\ partner'[job[k].src] = partner[job[k].src]
          /\ job[k].src \in live' <=> job[k].src \in live
          /\ job[k].pc \in Swaps => /\ partner'[job[k].dst] = partner[job[k].dst]
                                    /\ job[k].dst \in live' <=> job[k].dst \in live
      BY <2>3, <2>4 DEF Proceeds
    <2>6. Knows(k)'
      BY <1>1, <2>1, <2>5 DEF Knows, Swaps, Written
    <2> QED BY <2>2, <2>6
  <1>6. ASSUME Working(k), ~job[k].clean
        PROVE  Names(k) \subseteq mixed'
    <2>1. Names(k) \subseteq mixed
      BY <1>0, <1>6 DEF JobOK
    <2>2. job[j].clean => Names(j) \cap Names(k) = {}
      BY <1>0, <1>6 DEF JobOK, Alone
    <2> QED BY <2>1, <2>2 DEF Proceeds
  <1>7. JobOK(k)'
    BY <1>1, <1>3, <1>5, <1>6 DEF JobOK
  <1> QED BY <1>2, <1>7

(* A job past its checks that is at work on the partner of a settled i is  *)
(* at work on i, too.                                                      *)
LEMMA Meets ==
    ASSUME SwapInv, NEW j \in Jobs, Working(j), job[j].pc \notin {"src", "dst"},
           NEW i \in Instances, Settled(i), partner[i] # None, partner[i] \in Names(j)
    PROVE  i \in Names(j)
  <1>1. Mutual(i) /\ j \in WorkOn(partner[i])
    BY DEF SwapInv, WorkOn
  <1> QED BY <1>1 DEF Mutual, Harmless

(* A swap that finds half a pair goes no further. *)
LEMMA Blocked ==
    ASSUME SwapInv, NEW j \in Jobs, job[j].pc = "dst",
           Swappable(job[j].src, job[j].dst, job[j].seen, partner[job[j].dst]),
           NEW i \in Instances, Settled(i), partner[i] # None, partner[i] \in Names(j)
    PROVE  i \in Names(j)
  <1>1. Mutual(i) /\ Working(j) /\ j \in WorkOn(partner[i]) /\ None \notin Instances
    BY SwapAssumption DEF SwapInv, WorkOn, Working
  <1>2. /\ job[j].src \in Instances /\ job[j].dst \in Instances
        /\ Names(j) = {job[j].src, job[j].dst}
    BY <1>1, NamesOf DEF SwapInv, Swaps
  <1> SUFFICES ASSUME i \notin Names(j)
               PROVE  FALSE
    OBVIOUS
  <1>3. partner[partner[i]] = i /\ Harmless(j, i)
    BY <1>1 DEF Mutual
  <1>4. CASE partner[i] = job[j].src
    BY <1>2, <1>3, <1>4, <1>1 DEF Harmless, Swappable
  <1>5. CASE partner[i] = job[j].dst
    BY <1>2, <1>3, <1>5, <1>1 DEF Swappable
  <1> QED BY <1>2, <1>4, <1>5

(* What is left of a pair when j goes on. *)
LEMMA StaysMutual ==
    ASSUME SwapInv, NEW j \in Jobs, Working(j), NEW x, Proceeds(j, x),
           NEW i \in Instances, Settled(i),
           partner'[i] = partner[i],
           partner[i] # None => /\ partner'[partner[i]] = partner[partner[i]]
                                /\ {i, partner[i]} \subseteq live => {i, partner[i]} \subseteq live',
           x.pc # "idle" /\ partner[i] # None /\ partner[i] \in Names(j) =>
               i \in Names(j) \/ Harmless(j, i)'
    PROVE  Mutual(i)'
  <1>0. SwapTypeOK /\ Mutual(i)
    BY DEF SwapInv
  <1>1. job'[j] = x /\ \A h \in Jobs \ {j} : job'[h] = job[h]
    BY <1>0, ProceedsOne
  <1>2. \A h \in Jobs \ {j} : Names(h)' = Names(h) /\ (Working(h)' <=> Working(h))
    BY <1>1 DEF Names, Working
  <1>3. x.pc = "idle" \/ Names(j)' = Names(j)
    BY <1>1 DEF Proceeds, Names
  <1> SUFFICES ASSUME partner[i] # None, NEW k \in WorkOn(partner[i])'
               PROVE  i \in Names(k)' \/ Harmless(k, i)'
    BY <1>0 DEF Mutual
  <1>4. k \in Jobs /\ Working(k)' /\ partner[i] \in Names(k)'
    BY DEF WorkOn
  <1>5. CASE k = j
    BY <1>1, <1>3, <1>4, <1>5 DEF Working
  <1>6. CASE k # j
    <2>1. k \in WorkOn(partner[i])
      BY <1>2, <1>4, <1>6 DEF WorkOn
    <2>2. i \in Names(k) \/ Harmless(k, i)
      BY <1>0, <2>1 DEF Mutual
    <2> QED BY <1>1, <1>2, <1>4, <1>6, <2>2 DEF Harmless
  <1> QED BY <1>5, <1>6

(* An instance that is settled now was settled before, if j is at work on  *)
(* it and has not written, or is not at work on it.                        *)
LEMMA WasSettled ==
    ASSUME SwapInv, NEW j \in Jobs, Working(j), NEW x, Proceeds(j, x),
           NEW i \in Instances, Settled(i)',
           i \in Names(j) => i \notin mixed /\ job[j].pc # "second"
    PROVE  Settled(i)
  <1>0. SwapTypeOK
    BY DEF SwapInv
  <1>1. job'[j] = x /\ \A h \in Jobs \ {j} : job'[h] = job[h]
    BY <1>0, ProceedsOne
  <1>2. \A h \in Jobs \ {j} : Names(h)' = Names(h) /\ (Working(h)' <=> Working(h))
    BY <1>1 DEF Names, Working
  <1>3. i \notin mixed
    BY DEF Settled, Proceeds
  <1>4. ASSUME NEW k \in WorkOn(i)
        PROVE  job[k].pc # "second"
    <2>1. CASE k = j
      BY <2>1 DEF WorkOn
    <2>2. CASE k # j
      <3>1. k \in WorkOn(i)'
        BY <1>2, <2>2 DEF WorkOn
      <3> QED BY <1>1, <2>2, <3>1 DEF Settled, WorkOn
    <2> QED BY <2>1, <2>2
  <1> QED BY <1>3, <1>4 DEF Settled

LEMMA StepKeepsInv ==
    ASSUME SwapInv, NEW j \in Jobs, Working(j), NEW x, Proceeds(j, x),
           SwapTypeOK', SwapPlaces(j)', JobOK(j)',
           \A i \in Instances : Settled(i)' => Mutual(i)'
    PROVE  SwapInv'
  <1>1. \A k \in Jobs \ {j} : SwapPlaces(k)' /\ JobOK(k)'
    BY OthersGoOn
  <1> QED BY <1>1 DEF SwapInv

(* A job that only reads, or works on task documents. *)
LEMMA QuietStep ==
    ASSUME SwapInv, NEW j \in Jobs, Working(j), NEW x \in JobType,
           job' = [job EXCEPT ![j] = x],
           \/ x = Idle
           \/ x.src = job[j].src /\ x.dst = job[j].dst /\ x.clean = job[j].clean,
           UNCHANGED <<live, partner, jobs, deaths, mixed>>, task' \subseteq Instances,
           job[j].pc # "second", x.pc \notin {"idle", "second"} => SwapPlaces(j)' /\ JobOK(j)',
           x.pc # "second",
           \A i \in Instances :
               x.pc # "idle" /\ Settled(i) /\ partner[i] # None /\ partner[i] \in Names(j) =>
                   i \in Names(j) \/ Harmless(j, i)'
    PROVE  SwapInv'
  <1>0. SwapTypeOK
    BY DEF SwapInv
  <1>1. Proceeds(j, x)
    BY DEF Proceeds, Idle
  <1>2. SwapTypeOK'
    BY <1>0, <1>1, ProceedsOne DEF SwapTypeOK
  <1>3. job'[j] = x
    BY <1>0, <1>1, ProceedsOne
  <1>4. SwapPlaces(j)' /\ JobOK(j)'
    BY <1>3 DEF SwapPlaces, JobOK, Working, Swaps, Removes
  <1>5. ASSUME NEW i \in Instances, Settled(i)'
        PROVE  Mutual(i)'
    <2>1. Settled(i)
      <3>1. i \notin mixed
        BY <1>5 DEF Settled
      <3> QED BY <1>1, <1>5, <3>1, WasSettled
    <2> QED BY <1>1, <2>1, StaysMutual
  <1> QED BY <1>1, <1>2, <1>4, <1>5, StepKeepsInv

LEMMA CheckSrcKeeps ==
    ASSUME SwapInv, NEW j \in Jobs, CheckSrc(j)
    PROVE  SwapInv'
  <1>0. SwapTypeOK /\ SwapPlaces(j) /\ JobOK(j) /\ Working(j) /\ None \notin Instances
    BY SwapAssumption DEF SwapInv, CheckSrc, Working
  <1>1. job[j] \in JobType /\ job[j].src \in Instances /\ job[j].dst \in Instances
    BY <1>0, NamesOf DEF CheckSrc, Swaps
  <1>2. PICK x : x = [job[j] EXCEPT !.pc = "dst", !.seen = partner[job[j].src]]
    OBVIOUS
  <1>3. /\ x \in JobType /\ x.src = job[j].src /\ x.dst = job[j].dst
        /\ x.clean = job[j].clean /\ x.pc = "dst" /\ x.seen = partner[job[j].src]
    BY <1>0, <1>1, <1>2 DEF JobType, SwapTypeOK
  <1>4. job' = [job EXCEPT ![j] = x] /\ job'[j] = x /\ \A k \in Jobs \ {j} : job'[k] = job[k]
    BY <1>0, <1>2 DEF CheckSrc, SwapTypeOK
  <1>5. SwapPlaces(j)'
    BY <1>1, <1>3, <1>4 DEF SwapPlaces, Removes
  <1>6. JobOK(j)'
    <2>1. Names(j)' = Names(j) /\ (Alone(j) => Alone(j)')
      BY <1>3, <1>4 DEF Names, Alone, Working
    <2>2. Knows(j) => Knows(j)'
      BY <1>3, <1>4 DEF Knows, CheckSrc, Swaps, Removes
    <2> QED BY <1>0, <1>3, <1>4, <2>1, <2>2 DEF JobOK, CheckSrc, Working
  <1>7. ASSUME NEW i \in Instances, Settled(i), partner[i] # None, partner[i] \in Names(j)
        PROVE  i \in Names(j) \/ Harmless(j, i)'
    <2>1. partner[partner[i]] = i
      BY <1>7 DEF SwapInv, Mutual
    <2> QED BY <1>3, <1>4, <2>1 DEF Harmless, CheckSrc
  <1>8. /\ UNCHANGED <<live, partner, jobs, deaths, mixed>> /\ task' \subseteq Instances
        /\ job[j].pc # "second"
    BY <1>0 DEF CheckSrc, SwapTypeOK
  <1> QED BY <1>0, <1>3, <1>4, <1>5, <1>6, <1>7, <1>8, QuietStep

LEMMA MovesOn ==
    ASSUME SwapTypeOK, NEW j \in Jobs, Working(j), NEW x \in JobType, x.pc # "idle",
           x.src = job[j].src, x.dst = job[j].dst, x.clean = job[j].clean,
           job' = [job EXCEPT ![j] = x]
    PROVE  /\ job'[j] = x /\ \A k \in Jobs \ {j} : job'[k] = job[k]
           /\ Names(j)' = Names(j)
           /\ Alone(j) => Alone(j)'
           /\ Working(j)'
  <1>1. job'[j] = x /\ \A k \in Jobs \ {j} : job'[k] = job[k]
    BY DEF SwapTypeOK
  <1> QED BY <1>1 DEF Names, Alone, Working

(* Goto as a new state. *)
LEMMA GotoIs ==
    ASSUME SwapTypeOK, NEW j \in Jobs, Working(j), NEW pc, Goto(j, pc),
           pc \in {"again", "second", "task", "binding", "tree", "lb"}
    PROVE  \E x \in JobType :
              /\ x.pc = pc /\ x.src = job[j].src /\ x.dst = job[j].dst
              /\ x.clean = job[j].clean /\ x.seen = job[j].seen
              /\ job' = [job EXCEPT ![j] = x]
  <1>1. job[j] \in JobType
    BY DEF SwapTypeOK
  <1>2. PICK x : x = [job[j] EXCEPT !.pc = pc]
    OBVIOUS
  <1>3. /\ x \in JobType /\ x.pc = pc /\ x.src = job[j].src /\ x.dst = job[j].dst
        /\ x.clean = job[j].clean /\ x.seen = job[j].seen
    BY <1>1, <1>2 DEF JobType
  <1>4. job' = [job EXCEPT ![j] = x]
    BY <1>2 DEF Goto, SwapTypeOK
  <1> QED BY <1>3, <1>4

LEMMA GiveUpKeeps ==
    ASSUME SwapInv, NEW j \in Jobs, Working(j), GiveUp(j), job[j].pc # "second",
           UNCHANGED <<live, partner, jobs, deaths>>, task' \subseteq Instances
    PROVE  SwapInv'
  <1>1. Idle \in JobType /\ Idle.pc = "idle"
    BY DEF Idle, JobType
  <1>2. job' = [job EXCEPT ![j] = Idle] /\ UNCHANGED mixed
    BY DEF GiveUp
  <1> QED BY <1>1, <1>2, QuietStep

(* A step past the checks of a swap, or of a removal, that only reads. *)
LEMMA GotoKeeps ==
    ASSUME SwapInv, NEW j \in Jobs, Working(j), NEW pc, Goto(j, pc),
           \/ job[j].pc = "dst" /\ pc = "again"
              /\ Swappable(job[j].src, job[j].dst, job[j].seen, partner[job[j].dst])
           \/ job[j].pc \in Removes /\ pc \in {"task", "binding", "tree", "lb"},
           UNCHANGED <<live, partner, jobs, deaths, mixed>>, task' \subseteq Instances
    PROVE  SwapInv'
  <1>0. SwapTypeOK /\ SwapPlaces(j) /\ JobOK(j) /\ pc \in {"again", "task", "binding", "tree", "lb"}
    BY DEF SwapInv
  <1>1. PICK x \in JobType :
           /\ x.pc = pc /\ x.src = job[j].src /\ x.dst = job[j].dst
           /\ x.clean = job[j].clean /\ x.seen = job[j].seen
           /\ job' = [job EXCEPT ![j] = x]
    BY <1>0, GotoIs
  <1>2. /\ job'[j] = x /\ Names(j)' = Names(j) /\ (Alone(j) => Alone(j)')
    BY <1>0, <1>1, MovesOn
  <1>3. SwapPlaces(j)'
    BY <1>0, <1>1, <1>2 DEF SwapPlaces, Swaps, Removes
  <1>4. Knows(j) => Knows(j)'
    BY <1>1, <1>2 DEF Knows, Swaps, Removes
  <1>5. JobOK(j)'
    BY <1>0, <1>1, <1>2, <1>4 DEF JobOK
  <1>6. ASSUME NEW i \in Instances, Settled(i), partner[i] # None, partner[i] \in Names(j)
        PROVE  i \in Names(j)
    BY <1>6, Meets, Blocked DEF Removes
  <1> QED BY <1>0, <1>1, <1>3, <1>5, <1>6, QuietStep DEF Removes

LEMMA CheckDstKeeps ==
    ASSUME SwapInv, NEW j \in Jobs, CheckDst(j)
    PROVE  SwapInv'
  <1>1. Working(j) /\ job[j].pc = "dst" /\ UNCHANGED <<live, partner, jobs, deaths>>
    BY DEF CheckDst, Working
  <1>2. task' \subseteq Instances
    BY DEF CheckDst, SwapInv, SwapTypeOK
  <1>3. CASE Swappable(job[j].src, job[j].dst, job[j].seen, partner[job[j].dst])
    <2>1. Goto(j, "again") /\ UNCHANGED mixed
      BY <1>3 DEF CheckDst
    <2> QED BY <1>1, <1>2, <1>3, <2>1, GotoKeeps
  <1>4. CASE ~Swappable(job[j].src, job[j].dst, job[j].seen, partner[job[j].dst])
    <2>1. GiveUp(j)
      BY <1>4 DEF CheckDst
    <2> QED BY <1>1, <1>2, <2>1, GiveUpKeeps
  <1> QED BY <1>3, <1>4

LEMMA ReadAgainKeeps ==
    ASSUME SwapInv, NEW j \in Jobs, ReadAgain(j)
    PROVE  SwapInv'
  <1>0. SwapTypeOK /\ SwapPlaces(j) /\ JobOK(j) /\ Working(j) /\ job[j].pc = "again"
    BY DEF SwapInv, ReadAgain, Working
  <1>1. job[j] \in JobType /\ job[j].src \in Instances
    BY <1>0, NamesOf DEF Swaps
  <1>2. PICK x : x = [job[j] EXCEPT !.pc = "first", !.seen = partner[job[j].src]]
    OBVIOUS
  <1>3. /\ x \in JobType /\ x.src = job[j].src /\ x.dst = job[j].dst
        /\ x.clean = job[j].clean /\ x.pc = "first" /\ x.seen = partner[job[j].src]
    BY <1>0, <1>1, <1>2 DEF JobType, SwapTypeOK
  <1>4. job' = [job EXCEPT ![j] = x] /\ UNCHANGED <<live, task, partner, jobs, deaths, mixed>>
    BY <1>0, <1>2 DEF ReadAgain, SwapTypeOK
  <1>5. job'[j] = x /\ Names(j)' = Names(j) /\ (Alone(j) => Alone(j)')
    BY <1>0, <1>3, <1>4, MovesOn
  <1>6. SwapPlaces(j)'
    BY <1>0, <1>3, <1>5 DEF SwapPlaces, Swaps, Removes
  <1>7. Knows(j) => Knows(j)'
    BY <1>0, <1>3, <1>4, <1>5 DEF Knows, Swaps, Removes
  <1>8. JobOK(j)'
    BY <1>0, <1>3, <1>4, <1>5, <1>7 DEF JobOK
  <1>9. ASSUME NEW i \in Instances, Settled(i), partner[i] # None, partner[i] \in Names(j)
        PROVE  i \in Names(j)
    BY <1>0, <1>9, Meets
  <1>10. task' \subseteq Instances
    BY <1>0, <1>4 DEF SwapTypeOK
  <1> QED BY <1>0, <1>3, <1>4, <1>6, <1>8, <1>9, <1>10, QuietStep

LEMMA WriteSrcKeeps ==
    ASSUME SwapInv, NEW j \in Jobs, WriteSrc(j)
    PROVE  SwapInv'
  <1>0. /\ SwapTypeOK /\ SwapPlaces(j) /\ JobOK(j) /\ Working(j) /\ job[j].pc = "first"
        /\ Goto(j, "second") /\ UNCHANGED <<live, task, jobs, deaths, mixed>>
    BY DEF SwapInv, WriteSrc, Working
  <1>1. /\ job[j].src \in Instances /\ job[j].dst \in Instances
        /\ Names(j) = {job[j].src, job[j].dst} /\ Names(j) \subseteq Instances
    BY <1>0, NamesOf DEF Swaps
  <1>2. PICK x \in JobType :
           /\ x.pc = "second" /\ x.src = job[j].src /\ x.dst = job[j].dst
           /\ x.clean = job[j].clean /\ x.seen = job[j].seen
           /\ job' = [job EXCEPT ![j] = x]
    BY <1>0, GotoIs
  <1>3. /\ job'[j] = x /\ Names(j)' = Names(j) /\ (Alone(j) => Alone(j)') /\ Working(j)'
    BY <1>0, <1>2, MovesOn
  <1>4. Written(j, job[j].dst) \in Instances \cup {None}
    BY <1>1 DEF Written
  <1>5. /\ partner' = [partner EXCEPT ![job[j].src] = Written(j, job[j].dst)]
        /\ partner' \in [Instances -> Instances \cup {None}]
        /\ partner'[job[j].src] = Written(j, job[j].dst)
        /\ \A i \in Instances \ {job[j].src} : partner'[i] = partner[i]
    BY <1>0, <1>1, <1>4 DEF WriteSrc, SwapTypeOK
  <1>6. SwapTypeOK'
    BY <1>0, <1>2, <1>5 DEF SwapTypeOK
  <1>7. Proceeds(j, x)
    BY <1>0, <1>1, <1>2, <1>5 DEF Proceeds
  <1>8. SwapPlaces(j)'
    BY <1>0, <1>1, <1>2, <1>3 DEF SwapPlaces, Swaps, Removes
  <1>9. Knows(j) => Knows(j)'
    <2>1. Written(j, job[j].dst)' = Written(j, job[j].dst)
      BY <1>2, <1>3 DEF Written
    <2>2. HAVE Knows(j)
    <2>3. partner'[job[j].dst] \in {None, job[j].src, job[j].dst}
      BY <1>0, <1>1, <1>5, <2>2 DEF Knows, Swappable, Written
    <2> QED BY <1>0, <1>2, <1>3, <1>5, <2>1, <2>2, <2>3 DEF Knows, Swaps, Removes
  <1>10. JobOK(j)'
    BY <1>0, <1>2, <1>3, <1>9 DEF JobOK
  <1>11. ASSUME NEW i \in Instances, Settled(i)'
         PROVE  Mutual(i)'
    <2>1. i \notin Names(j)
      BY <1>2, <1>3, <1>11 DEF Settled, WorkOn
    <2>2. Settled(i)
      BY <1>0, <1>7, <1>11, <2>1, WasSettled
    <2>3. partner[i] # None => partner[i] \notin Names(j) /\ partner[i] \in Instances
      BY <1>0, <2>1, <2>2, Meets DEF SwapTypeOK
    <2> QED BY <1>0, <1>1, <1>5, <1>7, <2>1, <2>2, <2>3, StaysMutual
  <1> QED BY <1>0, <1>6, <1>7, <1>8, <1>10, <1>11, StepKeepsInv

LEMMA IdleOK ==
    ASSUME NEW j \in Jobs, job'[j] = Idle
    PROVE  SwapPlaces(j)' /\ JobOK(j)' /\ ~Working(j)' /\ Idle \in JobType /\ Idle.pc = "idle"
  BY DEF Idle, SwapPlaces, JobOK, Working, Swaps, Removes, JobType

LEMMA WriteDstKeeps ==
    ASSUME SwapInv, NEW j \in Jobs, WriteDst(j)
    PROVE  SwapInv'
  <1>0. /\ SwapTypeOK /\ SwapPlaces(j) /\ JobOK(j) /\ Working(j) /\ job[j].pc = "second"
        /\ UNCHANGED <<live, task, jobs, deaths>>
        /\ job' = [job EXCEPT ![j] = Idle]
        /\ mixed' = IF job[j].clean THEN mixed \ Names(j) ELSE mixed
    BY DEF SwapInv, WriteDst, Working, EndJob
  <1>1. /\ job[j].src \in Instances /\ job[j].dst \in Instances
        /\ Names(j) = {job[j].src, job[j].dst} /\ Names(j) \subseteq Instances
    BY <1>0, NamesOf DEF Swaps
  <1>3. job'[j] = Idle /\ \A k \in Jobs \ {j} : job'[k] = job[k]
    BY <1>0 DEF SwapTypeOK
  <1>4. Written(j, job[j].src) \in Instances \cup {None}
    BY <1>1 DEF Written
  <1>5. /\ partner' \in [Instances -> Instances \cup {None}]
        /\ partner'[job[j].dst] = Written(j, job[j].src)
        /\ \A i \in Instances \ {job[j].dst} : partner'[i] = partner[i]
    BY <1>0, <1>1, <1>4 DEF WriteDst, SwapTypeOK
  <1>6. SwapPlaces(j)' /\ JobOK(j)' /\ ~Working(j)' /\ Idle \in JobType /\ Idle.pc = "idle"
    BY <1>3, IdleOK
  <1>7. SwapTypeOK'
    BY <1>0, <1>5, <1>6 DEF SwapTypeOK
  <1>8. Proceeds(j, Idle)
    BY <1>0, <1>1, <1>5, <1>6 DEF Proceeds
  <1>9. ASSUME NEW i \in Instances, Settled(i)'
        PROVE  Mutual(i)'
    <2>1. CASE i \notin Names(j)
      <3>1. Settled(i)
        BY <1>0, <1>8, <1>9, <2>1, WasSettled
      <3>2. partner[i] # None => partner[i] \notin Names(j) /\ partner[i] \in Instances
        BY <1>0, <2>1, <3>1, Meets DEF SwapTypeOK
      <3> QED BY <1>0, <1>1, <1>5, <1>6, <1>8, <2>1, <3>1, <3>2, StaysMutual
    <2>2. CASE i \in Names(j)
      <3>1. job[j].clean
        BY <1>0, <1>9, <2>2 DEF Settled, JobOK
      <3>2. Alone(j) /\ Knows(j)
        BY <1>0, <3>1 DEF JobOK
      <3>3. /\ {job[j].src, job[j].dst} \subseteq live'
            /\ partner[job[j].src] = Written(j, job[j].dst)
        BY <1>0, <3>2 DEF Knows, Swaps
      <3>4. ASSUME NEW m \in Names(j)
            PROVE  WorkOn(m)' = {}
        <4>1. \A k \in Jobs \ {j} : Working(k) => m \notin Names(k)
          BY <3>2, <3>4 DEF Alone
        <4> QED BY <1>3, <1>6, <4>1 DEF WorkOn, Names, Working
      <3>5. CASE job[j].seen = job[j].dst
        <4>1. partner'[i] = None
          BY <1>1, <1>5, <2>2, <3>3, <3>5 DEF Written
        <4> QED BY <4>1 DEF Mutual
      <3>6. CASE job[j].seen # job[j].dst
        <4>1. partner'[job[j].src] = job[j].dst /\ partner'[job[j].dst] = job[j].src
          BY <1>1, <1>5, <3>3, <3>6 DEF Written
        <4>2. partner'[i] \in Names(j) /\ partner'[partner'[i]] = i /\ {i, partner'[i]} \subseteq live'
          BY <1>1, <2>2, <3>3, <4>1
        <4> QED BY <3>4, <4>2 DEF Mutual
      <3> QED BY <3>5, <3>6
    <2> QED BY <2>1, <2>2
  <1> QED BY <1>0, <1>6, <1>7, <1>8, <1>9, StepKeepsInv

(* A removal works on one instance, which is in no pair if it is clean. *)
LEMMA RemovalOf ==
    ASSUME SwapInv, NEW j \in Jobs, job[j].pc \in Removes
    PROVE  /\ SwapTypeOK /\ SwapPlaces(j) /\ JobOK(j) /\ Working(j)
           /\ job[j].pc \notin {"src", "dst", "again", "first", "second"}
           /\ job[j].src \in Instances /\ job[j].dst = None /\ Names(j) = {job[j].src}
           /\ job[j].clean => partner[job[j].src] = None
           /\ ~job[j].clean => job[j].src \in mixed
  <1>1. SwapTypeOK /\ SwapPlaces(j) /\ JobOK(j) /\ Working(j)
    BY DEF SwapInv, Working, Removes
  <1>2. job[j].src \in Instances /\ job[j].dst = None /\ Names(j) = {job[j].src}
    BY <1>1, NamesOf DEF SwapPlaces
  <1> QED BY <1>1, <1>2 DEF JobOK, Knows, Removes

LEMMA DocumentsKeep ==
    ASSUME SwapInv, NEW j \in Jobs, CreateTaskDoc(j) \/ RemoveTaskDoc(j) \/ RemoveBinding(j)
    PROVE  SwapInv'
  <1>1. job[j].pc \in Removes
    BY DEF CreateTaskDoc, RemoveTaskDoc, RemoveBinding, Removes
  <1>2. Working(j) /\ job[j].src \in Instances /\ job[j].pc # "second" /\ task \subseteq Instances
    BY <1>1, RemovalOf DEF SwapTypeOK
  <1>3. UNCHANGED <<live, partner, jobs, deaths>> /\ task' \subseteq Instances
    BY <1>2 DEF CreateTaskDoc, RemoveTaskDoc, RemoveBinding
  <1>4. \/ GiveUp(j)
        \/ \E pc \in {"task", "binding", "tree"} : Goto(j, pc) /\ UNCHANGED mixed
    BY DEF CreateTaskDoc, RemoveTaskDoc, RemoveBinding
  <1>5. ASSUME NEW pc \in {"task", "binding", "tree"}, Goto(j, pc), UNCHANGED mixed
        PROVE  SwapInv'
    BY <1>1, <1>2, <1>3, <1>5, GotoKeeps
  <1> QED BY <1>2, <1>3, <1>4, <1>5, GiveUpKeeps

LEMMA DestroyTreeKeeps ==
    ASSUME SwapInv, NEW j \in Jobs, DestroyTree(j)
    PROVE  SwapInv'
  <1>0. job[j].pc \in Removes /\ job[j].pc = "tree" /\ UNCHANGED <<live, task, jobs, deaths>>
    BY DEF DestroyTree, Removes
  <1>1. /\ SwapTypeOK /\ SwapPlaces(j) /\ JobOK(j) /\ Working(j) /\ job[j].pc # "second"
        /\ job[j].src \in Instances /\ job[j].dst = None /\ Names(j) = {job[j].src}
        /\ task' \subseteq Instances
    BY <1>0, RemovalOf DEF SwapTypeOK
  <1>2. CASE job[j].src \notin live
    <2>1. GiveUp(j) /\ UNCHANGED partner
      BY <1>2 DEF DestroyTree
    <2> QED BY <1>0, <1>1, <2>1, GiveUpKeeps
  <1>3. CASE job[j].src \in live
    <2>1. /\ Goto(j, "lb") /\ UNCHANGED mixed
          /\ partner' = [partner EXCEPT ![job[j].src] = None]
      BY <1>3 DEF DestroyTree
    <2>2. PICK x \in JobType :
             /\ x.pc = "lb" /\ x.src = job[j].src /\ x.dst = job[j].dst
             /\ x.clean = job[j].clean /\ x.seen = job[j].seen
             /\ job' = [job EXCEPT ![j] = x]
      BY <1>1, <2>1, GotoIs
    <2>3. /\ job'[j] = x /\ Names(j)' = Names(j) /\ (Alone(j) => Alone(j)') /\ Working(j)'
      BY <1>1, <2>2, MovesOn
    <2>4. /\ partner' \in [Instances -> Instances \cup {None}]
          /\ partner'[job[j].src] = None
          /\ \A i \in Instances \ {job[j].src} : partner'[i] = partner[i]
      BY <1>1, <2>1 DEF SwapTypeOK
    <2>5. SwapTypeOK'
      BY <1>0, <1>1, <2>1, <2>2, <2>4 DEF SwapTypeOK
    <2>6. Proceeds(j, x)
      BY <1>0, <1>1, <2>1, <2>2, <2>4 DEF Proceeds
    <2>7. SwapPlaces(j)'
      BY <1>1, <2>2, <2>3 DEF SwapPlaces, Swaps, Removes
    <2>8. Knows(j) => Knows(j)'
      BY <1>0, <2>2, <2>3, <2>4 DEF Knows, Swaps, Removes
    <2>9. JobOK(j)'
      BY <1>1, <2>1, <2>2, <2>3, <2>8 DEF JobOK
    <2>10. ASSUME NEW i \in Instances, Settled(i)'
           PROVE  Mutual(i)'
      <3>1. CASE i = job[j].src
        BY <2>4, <3>1 DEF Mutual
      <3>2. CASE i # job[j].src
        <4>1. i \notin Names(j)
          BY <1>1, <3>2
        <4>2. Settled(i)
          BY <1>1, <2>6, <2>10, <4>1, WasSettled
        <4>3. partner[i] # None => partner[i] \notin Names(j) /\ partner[i] \in Instances
          BY <1>0, <1>1, <4>1, <4>2, Meets DEF SwapTypeOK
        <4> QED BY <1>0, <1>1, <2>4, <2>6, <3>2, <4>2, <4>3, StaysMutual
      <3> QED BY <3>1, <3>2
    <2> QED BY <1>1, <2>5, <2>6, <2>7, <2>9, <2>10, StepKeepsInv
  <1> QED BY <1>2, <1>3

LEMMA DestroyLBKeeps ==
    ASSUME SwapInv, NEW j \in Jobs, DestroyLB(j)
    PROVE  SwapInv'
  <1>0. /\ job[j].pc \in Removes /\ job[j].pc = "lb" /\ UNCHANGED <<task, partner, jobs, deaths>>
        /\ live' = live \ {job[j].src}
        /\ job' = [job EXCEPT ![j] = Idle]
        /\ mixed' = IF job[j].clean THEN mixed \ Names(j) ELSE mixed
    BY DEF DestroyLB, EndJob, Removes
  <1>1. /\ SwapTypeOK /\ Working(j) /\ job[j].pc # "second"
        /\ job[j].src \in Instances /\ Names(j) = {job[j].src}
        /\ job[j].clean => partner[job[j].src] = None
        /\ ~job[j].clean => job[j].src \in mixed
    BY <1>0, RemovalOf
  <1>2. job'[j] = Idle
    BY <1>0, <1>1 DEF SwapTypeOK
  <1>3. SwapPlaces(j)' /\ JobOK(j)' /\ ~Working(j)' /\ Idle \in JobType /\ Idle.pc = "idle"
    BY <1>2, IdleOK
  <1>4. SwapTypeOK'
    BY <1>0, <1>1, <1>3 DEF SwapTypeOK
  <1>5. Proceeds(j, Idle)
    BY <1>0, <1>1, <1>3 DEF Proceeds
  <1>6. ASSUME NEW i \in Instances, Settled(i)'
        PROVE  Mutual(i)'
    <2>1. CASE i = job[j].src
      <3>1. partner'[i] = None
        BY <1>0, <1>1, <1>6, <2>1 DEF Settled
      <3> QED BY <3>1 DEF Mutual
    <2>2. CASE i # job[j].src
      <3>1. i \notin Names(j)
        BY <1>1, <2>2
      <3>2. Settled(i)
        BY <1>1, <1>5, <1>6, <3>1, WasSettled
      <3>3. partner[i] # None => partner[i] \notin Names(j) /\ partner[i] \in Instances
        BY <1>0, <1>1, <3>1, <3>2, Meets DEF SwapTypeOK
      <3> QED BY <1>0, <1>1, <1>3, <1>5, <2>2, <3>2, <3>3, StaysMutual
    <2> QED BY <2>1, <2>2
  <1> QED BY <1>1, <1>3, <1>4, <1>5, <1>6, StepKeepsInv

LEMMA JobDiesKeeps ==
    ASSUME SwapInv, NEW j \in Jobs, JobDies(j)
    PROVE  SwapInv'
  <1>0. /\ SwapTypeOK /\ SwapPlaces(j) /\ Working(j) /\ UNCHANGED <<live, task, partner, jobs>>
        /\ job' = [job EXCEPT ![j] = Idle] /\ mixed' = mixed \cup Names(j)
        /\ deaths' = deaths + 1
    BY DEF SwapInv, JobDies
  <1>1. Names(j) \subseteq Instances
    BY <1>0, NamesOf
  <1>2. job'[j] = Idle
    BY <1>0 DEF SwapTypeOK
  <1>3. SwapPlaces(j)' /\ JobOK(j)' /\ ~Working(j)' /\ Idle \in JobType /\ Idle.pc = "idle"
    BY <1>2, IdleOK
  <1>4. SwapTypeOK'
    BY <1>0, <1>1, <1>3 DEF SwapTypeOK
  <1>5. Proceeds(j, Idle)
    BY <1>0, <1>3 DEF Proceeds
  <1>6. ASSUME NEW i \in Instances, Settled(i)'
        PROVE  Mutual(i)'
    <2>1. i \notin Names(j)
      BY <1>0, <1>6 DEF Settled
    <2>2. Settled(i)
      BY <1>0, <1>5, <1>6, <2>1, WasSettled
    <2> QED BY <1>0, <1>3, <1>5, <2>2, StaysMutual
  <1> QED BY <1>0, <1>3, <1>4, <1>5, <1>6, StepKeepsInv

(* A job begins: its rivals are no longer clean. *)
LEMMA BeginJobKeeps ==
    ASSUME SwapInv, NEW j \in Jobs, NEW pc \in {"src", "doc"},
           NEW a \in Instances, NEW b \in Instances \cup {None}, BeginJob(j, pc, a, b),
           UNCHANGED task,
           pc = "src" => b \in Instances /\ {a, b} \subseteq live,
           pc = "doc" => b = None /\ partner[a] = None
    PROVE  SwapInv'
  <1>0. /\ SwapTypeOK /\ None \notin Instances
        /\ \A k \in Jobs : SwapPlaces(k) /\ JobOK(k)
        /\ \A i \in Instances : Settled(i) => Mutual(i)
    BY SwapAssumption DEF SwapInv
  <1>1. PICK names : names = {a, b} \ {None}
    OBVIOUS
  <1>2. PICK rivals : rivals = UNION {WorkOn(i) : i \in names}
    OBVIOUS
  <1>3. PICK x : x = [pc |-> pc, src |-> a, dst |-> b, seen |-> None, clean |-> rivals = {}]
    OBVIOUS
  <1>4. /\ ~Working(j) /\ jobs' = jobs + 1 /\ UNCHANGED <<live, task, partner, deaths>>
        /\ job' = [k \in Jobs |-> IF k = j THEN x
                                  ELSE [job[k] EXCEPT !.clean = @ /\ k \notin rivals]]
        /\ mixed' = IF rivals = {} THEN mixed
                    ELSE mixed \cup names \cup UNION {Names(k) : k \in rivals}
    BY <1>1, <1>2, <1>3, Zenon DEF BeginJob
  <1>5. /\ x \in JobType /\ x.pc = pc /\ x.src = a /\ x.dst = b /\ x.seen = None
        /\ (x.clean <=> rivals = {})
    BY <1>3 DEF JobType
  <1>6. ASSUME NEW k \in Jobs \ {j}
        PROVE  /\ job'[k] \in JobType
               /\ job'[k].pc = job[k].pc /\ job'[k].src = job[k].src /\ job'[k].dst = job[k].dst
               /\ job'[k].seen = job[k].seen
               /\ job'[k].clean <=> job[k].clean /\ k \notin rivals
               /\ Names(k)' = Names(k) /\ (Working(k)' <=> Working(k))
    <2>1. job[k] \in JobType /\ job'[k] = [job[k] EXCEPT !.clean = @ /\ k \notin rivals]
      BY <1>0, <1>4 DEF SwapTypeOK
    <2> QED BY <2>1 DEF JobType, Names, Working
  <1>7. /\ job'[j] = x /\ Names(j)' = names /\ names \subseteq Instances /\ Working(j)'
    BY <1>0, <1>1, <1>4, <1>5 DEF Names, Working
  <1>8. /\ rivals = {k \in Jobs : Working(k) /\ Names(k) \cap names # {}}
        /\ j \notin rivals
    BY <1>2, <1>4 DEF WorkOn
  <1>9. \A k \in rivals : Names(k) \subseteq Instances
    BY <1>0, <1>8, NamesOf
  <1>10. SwapTypeOK'
    <2>1. job' \in [Jobs -> JobType]
      BY <1>4, <1>5, <1>6
    <2>2. mixed' \subseteq Instances
      BY <1>0, <1>4, <1>7, <1>9 DEF SwapTypeOK
    <2> QED BY <1>0, <1>4, <2>1, <2>2 DEF SwapTypeOK
  <1>11. SwapPlaces(j)' /\ JobOK(j)'
    <2>1. SwapPlaces(j)'
      BY <1>5, <1>7 DEF SwapPlaces, Swaps, Removes
    <2>2. ASSUME rivals = {}
          PROVE  Alone(j)' /\ Knows(j)'
      <3>1. Alone(j)'
        BY <1>6, <1>7, <1>8, <2>2 DEF Alone
      <3>2. Knows(j)'
        BY <1>4, <1>5, <1>7 DEF Knows, Swaps, Removes
      <3> QED BY <3>1, <3>2
    <2>3. ASSUME rivals # {}
          PROVE  Names(j)' \subseteq mixed'
      BY <1>4, <1>7, <2>3
    <2> QED BY <1>5, <1>7, <2>1, <2>2, <2>3 DEF JobOK
  <1>12. ASSUME NEW k \in Jobs \ {j}
         PROVE  SwapPlaces(k)' /\ JobOK(k)'
    <2>1. SwapPlaces(k)'
      BY <1>0, <1>6 DEF SwapPlaces
    <2>2. ASSUME Working(k), job[k].clean, k \notin rivals
          PROVE  Alone(k)' /\ Knows(k)'
      <3>1. Alone(k) /\ Knows(k)
        BY <1>0, <2>2 DEF JobOK
      <3>2. Names(k) \cap names = {}
        BY <1>8, <2>2
      <3>3. Alone(k)'
        BY <1>6, <1>7, <3>1, <3>2 DEF Alone
      <3>4. Knows(k)'
        BY <1>4, <1>6, <3>1 DEF Knows, Written
      <3> QED BY <3>3, <3>4
    <2>3. ASSUME Working(k), ~job[k].clean \/ k \in rivals
          PROVE  Names(k) \subseteq mixed'
      BY <1>0, <1>4, <2>3 DEF JobOK
    <2> QED BY <1>6, <2>1, <2>2, <2>3 DEF JobOK
  <1>13. ASSUME NEW i \in Instances, Settled(i)'
         PROVE  Mutual(i)'
    <2>1. i \notin mixed
      BY <1>4, <1>13 DEF Settled
    <2>2. ASSUME NEW k \in WorkOn(i)
          PROVE  job[k].pc # "second"
      <3>1. k \in Jobs \ {j}
        BY <1>4 DEF WorkOn
      <3>2. k \in WorkOn(i)'
        BY <1>6, <3>1 DEF WorkOn
      <3> QED BY <1>6, <1>13, <3>1, <3>2 DEF Settled
    <2>3. Mutual(i)
      BY <1>0, <2>1, <2>2 DEF Settled
    <2> SUFFICES ASSUME partner[i] # None, NEW k \in WorkOn(partner[i])'
                 PROVE  i \in Names(k)' \/ Harmless(k, i)'
      BY <1>4, <2>3 DEF Mutual
    <2>4. k \in Jobs /\ Working(k)' /\ partner[i] \in Names(k)' /\ partner[partner[i]] = i
      BY <1>4, <2>3 DEF WorkOn, Mutual
    <2>5. CASE k = j
      <3>1. CASE pc = "src"
        BY <1>5, <1>7, <2>5, <3>1 DEF Harmless
      <3>2. CASE pc = "doc"
        <4>1. partner[i] = a
          BY <1>1, <1>7, <2>4, <2>5, <3>2
        <4> QED BY <1>0, <2>4, <3>2, <4>1
      <3> QED BY <3>1, <3>2
    <2>6. CASE k # j
      <3>1. k \in WorkOn(partner[i])
        BY <1>6, <2>4, <2>6 DEF WorkOn
      <3>2. i \in Names(k) \/ Harmless(k, i)
        BY <2>3, <3>1 DEF Mutual
      <3> QED BY <1>4, <1>6, <2>4, <2>6, <3>2 DEF Harmless
    <2> QED BY <2>5, <2>6
  <1> QED BY <1>10, <1>11, <1>12, <1>13 DEF SwapInv

LEMMA BeginSwapKeeps ==
    ASSUME SwapInv, NEW j \in Jobs, NEW a \in Instances, NEW b \in Instances, BeginSwap(j, a, b)
    PROVE  SwapInv'
  <1>1. BeginJob(j, "src", a, b) /\ UNCHANGED task /\ {a, b} \subseteq live
    BY DEF BeginSwap
  <1> QED BY <1>1, BeginJobKeeps

LEMMA BeginRemovalKeeps ==
    ASSUME SwapInv, NEW j \in Jobs, NEW i \in Instances, BeginRemoval(j, i)
    PROVE  SwapInv'
  <1>1. BeginJob(j, "doc", i, None) /\ UNCHANGED task /\ partner[i] = None
    BY DEF BeginRemoval, MayRemove
  <1> QED BY <1>1, BeginJobKeeps

(* A clean swap is about instances that exist, so only removals can be     *)
(* under way on a new one.                                                 *)
LEMMA CreateInstanceKeeps ==
    ASSUME SwapInv, NEW i \in Instances, CreateInstance(i)
    PROVE  SwapInv'
  <1>0. /\ SwapTypeOK
        /\ \A k \in Jobs : SwapPlaces(k) /\ JobOK(k)
        /\ \A m \in Instances : Settled(m) => Mutual(m)
    BY DEF SwapInv
  <1>1. /\ i \notin live /\ live' = live \cup {i} /\ jobs' = jobs + 1
        /\ UNCHANGED <<task, partner, deaths>>
        /\ mixed \subseteq mixed' /\ mixed' \subseteq mixed \cup {i}
        /\ WorkOn(i) # {} => i \in mixed'
        /\ job' = [j \in Jobs |-> [job[j] EXCEPT !.clean = @ /\ j \notin WorkOn(i)]]
    BY DEF CreateInstance
  <1>2. ASSUME NEW k \in Jobs
        PROVE  /\ job'[k] \in JobType
               /\ job'[k].pc = job[k].pc /\ job'[k].src = job[k].src /\ job'[k].dst = job[k].dst
               /\ job'[k].seen = job[k].seen
               /\ job'[k].clean <=> job[k].clean /\ k \notin WorkOn(i)
               /\ Names(k)' = Names(k) /\ (Working(k)' <=> Working(k))
    <2>1. job[k] \in JobType /\ job'[k] = [job[k] EXCEPT !.clean = @ /\ k \notin WorkOn(i)]
      BY <1>0, <1>1 DEF SwapTypeOK
    <2> QED BY <2>1 DEF JobType, Names, Working
  <1>3. SwapTypeOK'
    <2>1. job' \in [Jobs -> JobType]
      BY <1>1, <1>2
    <2> QED BY <1>0, <1>1, <2>1 DEF SwapTypeOK
  <1>4. ASSUME NEW k \in Jobs
        PROVE  SwapPlaces(k)' /\ JobOK(k)'
    <2>1. SwapPlaces(k)'
      BY <1>0, <1>2 DEF SwapPlaces
    <2>2. ASSUME Working(k), job[k].clean, k \notin WorkOn(i)
          PROVE  Alone(k)' /\ Knows(k)'
      <3>1. Alone(k) /\ Knows(k)
        BY <1>0, <2>2 DEF JobOK
      <3>2. Alone(k)'
        BY <1>2, <3>1 DEF Alone
      <3>3. partner' = partner /\ live \subseteq live'
        BY <1>1
      <3>4. Written(k, job[k].dst)' = Written(k, job[k].dst)
        BY <1>2 DEF Written
      <3>5. Knows(k)'
        BY <1>2, <3>1, <3>3, <3>4 DEF Knows, Swaps
      <3> QED BY <3>2, <3>5
    <2>3. ASSUME Working(k), job[k].clean, k \in WorkOn(i)
          PROVE  Names(k) \subseteq mixed'
      <3>1. Knows(k) /\ i \in Names(k)
        BY <1>0, <2>3 DEF JobOK, WorkOn
      <3>2. job[k].pc \notin Swaps
        BY <1>0, <1>1, <2>3, <3>1, NamesOf DEF Knows
      <3>3. Names(k) = {i}
        BY <1>0, <2>3, <3>1, <3>2, NamesOf
      <3> QED BY <1>1, <2>3, <3>3
    <2>4. ASSUME Working(k), ~job[k].clean
          PROVE  Names(k) \subseteq mixed'
      BY <1>0, <1>1, <2>4 DEF JobOK
    <2> QED BY <1>2, <2>1, <2>2, <2>3, <2>4 DEF JobOK
  <1>5. ASSUME NEW m \in Instances, Settled(m)'
        PROVE  Mutual(m)'
    <2>1. \A p : WorkOn(p)' = WorkOn(p)
      BY <1>2 DEF WorkOn
    <2>2. Settled(m)
      BY <1>1, <1>2, <1>5, <2>1 DEF Settled, WorkOn
    <2>3. Mutual(m)
      BY <1>0, <2>2
    <2> QED BY <1>1, <1>2, <2>1, <2>3 DEF Mutual, Harmless, WorkOn
  <1> QED BY <1>3, <1>4, <1>5 DEF SwapInv

LEMMA SwapInvInit ==
    RouterInit => SwapInv
  <1> SUFFICES ASSUME SwapInit
               PROVE  SwapInv
    BY DEF RouterInit
  <1>1. Idle \in JobType /\ Idle.pc = "idle"
    BY DEF Idle, JobType
  <1>2. \A j \in Jobs : job[j] = Idle /\ ~Working(j)
    BY <1>1 DEF SwapInit, Working
  <1>3. SwapTypeOK
    BY <1>1 DEF SwapInit, SwapTypeOK
  <1>4. ASSUME NEW j \in Jobs
        PROVE  SwapPlaces(j) /\ JobOK(j)
    BY <1>1, <1>2 DEF SwapPlaces, JobOK, Swaps, Removes
  <1>5. \A i \in Instances : Mutual(i)
    BY DEF SwapInit, Mutual
  <1> QED BY <1>3, <1>4, <1>5 DEF SwapInv

(* Steps that are about the routes of the backend. *)
LEMMA SwapInvStutter ==
    ASSUME SwapInv, UNCHANGED <<live, task, partner, job, deaths, mixed>>, jobs' \in Nat
    PROVE  SwapInv'
  BY DEF SwapInv, SwapTypeOK, SwapPlaces, JobOK, Alone, Knows, Settled, Mutual, Harmless,
         Working, Names, WorkOn, Written, Swappable

LEMMA SwapInvNext ==
    SwapInv /\ [RouterNext]_backendVars => SwapInv'
  <1> SUFFICES ASSUME SwapInv, [RouterNext]_backendVars
               PROVE  SwapInv'
    OBVIOUS
  <1>0. jobs \in Nat
    BY DEF SwapInv, SwapTypeOK
  <1>1. CASE UNCHANGED swapVars
    BY <1>0, <1>1, SwapInvStutter DEF swapVars
  <1>2. ASSUME NEW r \in Requests, NEW whole, NEW calls, BeginRoutes(r, whole, calls)
        PROVE  SwapInv'
    <2>1. UNCHANGED <<live, task, partner, job, deaths, mixed>> /\ jobs' = jobs + 1
      BY <1>2 DEF BeginRoutes
    <2> QED BY <1>0, <2>1, SwapInvStutter
  <1>3. ASSUME NEW r \in Requests, NEW servers, AddRoutes(r, servers) \/ DeleteRoutes(r, servers)
        PROVE  SwapInv'
    BY <1>2, <1>3 DEF AddRoutes, DeleteRoutes
  <1>4. ASSUME NEW j \in Jobs,
               \/ JobStep(j) \/ RemoveBinding(j) \/ DestroyTree(j) \/ DestroyLB(j)
               \/ Dies(j)
        PROVE  SwapInv'
    BY <1>4, CheckSrcKeeps, CheckDstKeeps, ReadAgainKeeps, WriteSrcKeeps, WriteDstKeeps,
       DocumentsKeep, DestroyTreeKeeps, DestroyLBKeeps, JobDiesKeeps DEF JobStep, Dies
  <1>5. ASSUME NEW j \in Jobs, BackendRemovalStep(j)
        PROVE  SwapInv'
    <2>1. JobStep(j) \/ DestroyLB(j) \/ Dies(j)
      BY <1>5 DEF BackendRemovalStep, JobStep
    <2> QED BY <1>4, <2>1
  <1>6. ASSUME NEW j \in Jobs, OtherJob(j)
        PROVE  SwapInv'
    BY <1>4, <1>6, BeginSwapKeeps, BeginRemovalKeeps DEF OtherJob
  <1>7. ASSUME NEW j \in Jobs,
               BeginBackendRemoval(j) \/ RemoveBackendBinding(j) \/ DestroyBackendTree(j)
        PROVE  SwapInv'
    <2>1. Backend \in Instances
      BY RouterAssumption
    <2> QED BY <1>4, <1>7, <2>1, BeginRemovalKeeps
            DEF BeginBackendRemoval, RemoveBackendBinding, DestroyBackendTree
  <1>8. ASSUME NEW i \in Instances, CreateInstance(i)
        PROVE  SwapInv'
    BY <1>8, CreateInstanceKeeps
  <1>9. CASE UNCHANGED backendVars
    BY <1>1, <1>9 DEF backendVars
  <1>10. CASE \E r \in Requests : RoutesStep(r)
    BY <1>1, <1>10 DEF RoutesStep
  <1> QED BY <1>3, <1>5, <1>6, <1>7, <1>8, <1>9, <1>10 DEF RouterNext

LEMMA SwapInvariant ==
    RouterSpec => []SwapInv
  BY SwapInvInit, SwapInvNext, PTL DEF RouterSpec

(* A swap is mutual and both of its instances exist, for every instance    *)
(* that no job is about and whose last job ran to its end alone: swap and  *)
(* remove_instance of rpaas/manager.py and swap_instances of               *)
(* rpaas/consul_manager.py keep it that way without locking the pair,      *)
(* whatever the jobs on other instances do and however many there are.     *)
THEOREM SwapsPair ==
    RouterSpec => []SwapPaired
  <1>1. SwapInv => SwapPaired
    BY DEF SwapInv, SwapPaired, Settled, Mutual
  <1> QED BY <1>1, SwapInvariant, PTL

-----------------------------------------------------------------------------
(***************************************************************************)
(* Sequences of calls.                                                     *)
(***************************************************************************)

LEMMA Tuples ==
    ASSUME NEW S, NEW a \in S, NEW b \in S, NEW c \in S, NEW d \in S
    PROVE  /\ <<>> \in Seq(S) /\ <<a>> \in Seq(S) /\ <<a, b>> \in Seq(S)
           /\ <<a, b, c>> \in Seq(S) /\ <<a, b, c, d>> \in Seq(S)
  OBVIOUS

LEMMA Three ==
    ASSUME NEW S, NEW s \in Seq(S), Len(s) = 3
    PROVE  s = <<s[1], s[2], s[3]>>
  OBVIOUS

LEMMA Four ==
    ASSUME NEW S, NEW s \in Seq(S), Len(s) = 4
    PROVE  s = <<s[1], s[2], s[3], s[4]>>
  OBVIOUS

LEMMA Joined ==
    ASSUME NEW S, NEW s \in Seq(S), NEW t \in Seq(S)
    PROVE  /\ Len(s) = 0 => s \o t = t
           /\ Len(s) = 1 /\ Len(t) = 2 => s \o t = <<s[1], t[1], t[2]>>
           /\ Len(s) = 2 /\ Len(t) = 1 => s \o t = <<s[1], s[2], t[1]>>
           /\ Len(s) = 2 /\ Len(t) = 2 => s \o t = <<s[1], s[2], t[1], t[2]>>
  <1>0. PICK w : w = s \o t
    OBVIOUS
  <1>1. w \in Seq(S) /\ Len(w) = Len(s) + Len(t)
    BY <1>0, ConcatProperties
  <1>2. \A i \in 1 .. Len(s) + Len(t) :
           w[i] = IF i <= Len(s) THEN s[i] ELSE t[i - Len(s)]
    BY <1>0, ConcatProperties
  <1>3. ASSUME Len(s) = 0
        PROVE  w = t
    <2>1. s = <<>>
      BY <1>3, EmptySeq
    <2> QED BY <1>0, <2>1, ConcatEmptySeq
  <1>4. ASSUME Len(s) = 1, Len(t) = 2
        PROVE  w = <<s[1], t[1], t[2]>>
    <2>1. w[1] = s[1] /\ w[2] = t[1] /\ w[3] = t[2]
      BY <1>2, <1>4
    <2> QED BY <1>1, <1>4, <2>1, Three
  <1>5. ASSUME Len(s) = 2, Len(t) = 1
        PROVE  w = <<s[1], s[2], t[1]>>
    <2>1. w[1] = s[1] /\ w[2] = s[2] /\ w[3] = t[1]
      BY <1>2, <1>5
    <2> QED BY <1>1, <1>5, <2>1, Three
  <1>6. ASSUME Len(s) = 2, Len(t) = 2
        PROVE  w = <<s[1], s[2], t[1], t[2]>>
    <2>1. w[1] = s[1] /\ w[2] = s[2] /\ w[3] = t[1] /\ w[4] = t[2]
      BY <1>2, <1>6
    <2> QED BY <1>1, <1>6, <2>1, Four
  <1> QED BY <1>0, <1>3, <1>4, <1>5, <1>6

LEMMA Join02 ==
    ASSUME NEW a, NEW b
    PROVE  <<>> \o <<a, b>> = <<a, b>>
  <1>1. PICK S, t : S = {a, b} /\ t = <<a, b>>
    OBVIOUS
  <1>2. t \in Seq(S)
    BY <1>1
  <1>3. <<>> \o t = t
    BY <1>2, ConcatEmptySeq
  <1> QED BY <1>1, <1>3

LEMMA Join12 ==
    ASSUME NEW a, NEW b, NEW c
    PROVE  <<a>> \o <<b, c>> = <<a, b, c>>
  <1>1. PICK S, s, t : S = {a, b, c} /\ s = <<a>> /\ t = <<b, c>>
    OBVIOUS
  <1>2. s \in Seq(S) /\ t \in Seq(S) /\ Len(s) = 1 /\ Len(t) = 2
    BY <1>1
  <1>3. s[1] = a /\ t[1] = b /\ t[2] = c
    BY <1>1
  <1>4. s \o t = <<a, b, c>>
    BY <1>2, <1>3, Joined
  <1> QED BY <1>1, <1>4

LEMMA Join21 ==
    ASSUME NEW a, NEW b, NEW c
    PROVE  <<a, b>> \o <<c>> = <<a, b, c>>
  <1>1. PICK S, s, t : S = {a, b, c} /\ s = <<a, b>> /\ t = <<c>>
    OBVIOUS
  <1>2. s \in Seq(S) /\ t \in Seq(S) /\ Len(s) = 2 /\ Len(t) = 1
    BY <1>1
  <1>3. s[1] = a /\ s[2] = b /\ t[1] = c
    BY <1>1
  <1>4. s \o t = <<a, b, c>>
    BY <1>2, <1>3, Joined
  <1> QED BY <1>1, <1>4

LEMMA Join22 ==
    ASSUME NEW a, NEW b, NEW c, NEW d
    PROVE  <<a, b>> \o <<c, d>> = <<a, b, c, d>>
  <1>1. PICK S, s, t : S = {a, b, c, d} /\ s = <<a, b>> /\ t = <<c, d>>
    OBVIOUS
  <1>2. s \in Seq(S) /\ t \in Seq(S) /\ Len(s) = 2 /\ Len(t) = 2
    BY <1>1
  <1>3. s[1] = a /\ s[2] = b /\ t[1] = c /\ t[2] = d
    BY <1>1
  <1>4. s \o t = <<a, b, c, d>>
    BY <1>2, <1>3, Joined
  <1> QED BY <1>1, <1>4

(* What a request may still do: calls about its path, and an app to bind   *)
(* to in every store_binding.                                              *)
CallsOf(p) ==
    {c \in Calls :
        /\ c.call \in {"pull", "push", "put", "delete"} => c.path = p
        /\ c.call \in {"store_binding", "set_app", "list_routes", "find_binding"} => p = Root
        /\ c.call = "store_binding" => c.app # Nothing}

ReqOK(r) ==
    /\ Busy(r) => req[r].path \in Paths
    /\ req[r].todo \in Seq(CallsOf(req[r].path))

TypeInv == TypeOK /\ \A r \in Requests : ReqOK(r)

LEMMA CallTypes ==
    /\ \A p \in Paths, s \in BOOLEAN : Pull(p, s) \in CallsOf(p)
    /\ \A p \in Paths, e \in Entry : Push(p, e) \in CallsOf(p)
    /\ \A a \in AppHosts : StoreBinding(a) \in CallsOf(Root)
    /\ \A a \in AppHosts \cup {Nothing} : SetApp(a) \in CallsOf(Root)
    /\ \A p : \A u \in Addresses, ss \in SUBSET Addresses :
          /\ List("add", u, ss) \in CallsOf(p) /\ List("remove", u, ss) \in CallsOf(p)
          /\ Save(u, ss) \in CallsOf(p)
    /\ \A p \in Paths, l \in Location : Put(p, l) \in CallsOf(p)
    /\ \A p \in Paths : Delete(p) \in CallsOf(p)
    /\ \A p : \A n \in {"parse_none", "ready"} : Plainly(n) \in CallsOf(p)
    /\ \A n \in {"ready", "list_routes", "find_binding"} : Plainly(n) \in CallsOf(Root)
  <1>1. Nothing \notin AppHosts
    BY ConstantsAssumption
  <1> QED BY <1>1 DEF CallsOf, Calls, Pull, Push, StoreBinding, SetApp, List, Save, Put, Delete,
                   Plainly

ReqType ==
    [path : Paths \cup {Nothing}, whole : BOOLEAN, clean : BOOLEAN, todo : Seq(Calls)]

LEMMA CallsTyped ==
    ASSUME NEW p, NEW s \in Seq(CallsOf(p))
    PROVE  s \in Seq(Calls)
  BY DEF CallsOf

LEMMA IdleTyped ==
    IdleReq \in ReqType /\ IdleReq.todo = <<>> /\ \A p : IdleReq.todo \in Seq(CallsOf(p))
  BY DEF IdleReq, ReqType

(* Request r goes to state x, the others stay where they are. *)
LEMMA ReqBecomes ==
    ASSUME TypeInv, NEW r \in Requests, NEW x \in ReqType,
           x.todo \in Seq(CallsOf(x.path)), x.todo # <<>> => x.path \in Paths,
           req' = [req EXCEPT ![r] = x]
    PROVE  /\ req' \in [Requests -> ReqType] /\ req'[r] = x
           /\ \A q \in Requests \ {r} : req'[q] = req[q]
           /\ \A q \in Requests : ReqOK(q)'
  <1>1. req \in [Requests -> ReqType]
    BY DEF TypeInv, TypeOK, ReqType
  <1>2. /\ req' \in [Requests -> ReqType] /\ req'[r] = x
        /\ \A q \in Requests \ {r} : req'[q] = req[q]
    BY <1>1
  <1>3. ASSUME NEW q \in Requests
        PROVE  ReqOK(q)'
    <2>1. CASE q = r
      BY <1>2, <2>1 DEF ReqOK, Busy
    <2>2. CASE q # r
      BY <1>2, <2>2 DEF ReqOK, Busy, TypeInv
    <2> QED BY <2>1, <2>2
  <1> QED BY <1>2, <1>3

LEMMA BusyPending ==
    ASSUME TypeInv, NEW r \in Requests, Busy(r)
    PROVE  /\ req[r] \in ReqType /\ req[r].path \in Paths
           /\ Pending(r) \in CallsOf(req[r].path) /\ Pending(r) \in Calls
           /\ Tail(req[r].todo) \in Seq(CallsOf(req[r].path))
  <1>1. req[r] \in ReqType /\ req[r].path \in Paths /\ req[r].todo \in Seq(CallsOf(req[r].path))
    BY DEF TypeInv, TypeOK, ReqOK, ReqType
  <1>2. /\ Head(req[r].todo) \in CallsOf(req[r].path)
        /\ Tail(req[r].todo) \in Seq(CallsOf(req[r].path))
    BY <1>1, HeadTailProperties DEF Busy
  <1> QED BY <1>1, <1>2 DEF Pending, CallsOf

(* The state a call that returns leaves its request in. *)
AfterReturn(r, rest) ==
    IF rest = <<>> THEN IdleReq ELSE [req[r] EXCEPT !.todo = rest]

LEMMA AfterReturnTyped ==
    ASSUME TypeInv, NEW r \in Requests, Busy(r), NEW rest \in Seq(CallsOf(req[r].path))
    PROVE  \E x \in ReqType :
              /\ x = AfterReturn(r, rest)
              /\ x.todo = rest
              /\ x.todo \in Seq(CallsOf(x.path)) /\ (x.todo # <<>> => x.path \in Paths)
              /\ x.todo # <<>> => /\ x.path = req[r].path /\ x.whole = req[r].whole
                                  /\ x.clean = req[r].clean
  <1>1. req[r] \in ReqType /\ req[r].path \in Paths
    BY BusyPending
  <1>2. rest \in Seq(Calls)
    BY CallsTyped
  <1>3. CASE rest = <<>>
    BY <1>3, IdleTyped DEF AfterReturn
  <1>4. CASE rest # <<>>
    <2>1. PICK x : x = [req[r] EXCEPT !.todo = rest]
      OBVIOUS
    <2>2. /\ x \in ReqType /\ x.todo = rest /\ x.path = req[r].path /\ x.whole = req[r].whole
          /\ x.clean = req[r].clean
      BY <1>1, <1>2, <2>1 DEF ReqType
    <2>3. x = AfterReturn(r, rest)
      BY <1>4, <2>1 DEF AfterReturn
    <2> QED BY <1>1, <2>2, <2>3
  <1> QED BY <1>3, <1>4

(* Request r goes on to the calls t, or is done if there are none. *)
Went(r, t) ==
    /\ req' \in [Requests -> ReqType] /\ \A q \in Requests : ReqOK(q)'
    /\ \A q \in Requests \ {r} : req'[q] = req[q]
    /\ req'[r].todo = t
    /\ t # <<>> => /\ req'[r].path = req[r].path /\ req'[r].whole = req[r].whole
                   /\ req'[r].clean = req[r].clean /\ torn' = torn
    /\ t = <<>> => torn' = IF req[r].whole /\ req[r].clean THEN torn \ {req[r].path} ELSE torn
    /\ UNCHANGED <<faults, overlaps>>

LEMMA Returns ==
    ASSUME TypeInv, NEW r \in Requests, Busy(r),
           NEW more \in Seq(CallsOf(req[r].path)), Return(r, more)
    PROVE  Went(r, more \o Tail(req[r].todo))
  <1>0. PICK rest : rest = more \o Tail(req[r].todo)
    OBVIOUS
  <1>1. rest \in Seq(CallsOf(req[r].path))
    BY <1>0, BusyPending, ConcatProperties
  <1>2. PICK x \in ReqType :
              /\ x = AfterReturn(r, rest)
              /\ x.todo = rest
              /\ x.todo \in Seq(CallsOf(x.path)) /\ (x.todo # <<>> => x.path \in Paths)
              /\ x.todo # <<>> => /\ x.path = req[r].path /\ x.whole = req[r].whole
                                  /\ x.clean = req[r].clean
    BY <1>1, AfterReturnTyped
  <1>3. req' = [req EXCEPT ![r] = x]
    BY <1>0, <1>2, Zenon DEF Return, AfterReturn
  <1>4. /\ req' \in [Requests -> ReqType] /\ req'[r] = x
        /\ \A q \in Requests \ {r} : req'[q] = req[q]
        /\ \A q \in Requests : ReqOK(q)'
    BY <1>2, <1>3, ReqBecomes
  <1>5. /\ torn' = IF rest = <<>> /\ req[r].whole /\ req[r].clean
                   THEN torn \ {req[r].path} ELSE torn
        /\ UNCHANGED <<faults, overlaps>>
    BY <1>0 DEF Return
  <1>6. Went(r, rest)
    BY <1>2, <1>4, <1>5 DEF Went
  <1> QED BY <1>0, <1>6

LEMMA Raises ==
    ASSUME TypeInv, NEW r \in Requests, Raise(r)
    PROVE  /\ req' \in [Requests -> ReqType] /\ \A q \in Requests : ReqOK(q)'
           /\ \A q \in Requests \ {r} : req'[q] = req[q]
           /\ req'[r].todo = <<>>
           /\ torn' = torn \cup {req[r].path}
           /\ UNCHANGED <<app, entries, location, upstream, outspelled, overlaps>>
  <1>1. req' = [req EXCEPT ![r] = IdleReq] /\ torn' = torn \cup {req[r].path}
        /\ UNCHANGED <<app, entries, location, upstream, outspelled, overlaps>>
    BY DEF Raise, docVars, consulVars
  <1>2. /\ req' \in [Requests -> ReqType] /\ req'[r] = IdleReq
        /\ \A q \in Requests \ {r} : req'[q] = req[q]
        /\ \A q \in Requests : ReqOK(q)'
    BY <1>1, IdleTyped, ReqBecomes
  <1> QED BY <1>1, <1>2, IdleTyped

Rivals(p) == {q \in Requests : Busy(q) /\ req[q].path = p}

LEMMA BeginTears ==
    ASSUME NEW r, NEW alone \in BOOLEAN, NEW p, NEW whole, NEW calls,
           BeginAmong(alone, r, p, whole, calls)
    PROVE  /\ torn' = torn \/ torn' = torn \cup {p}
           /\ alone = FALSE \/ Rivals(p) # {} => torn' = torn \cup {p}
  BY DEF BeginAmong, Rivals

(* What is known once a request has begun. *)
Begun(alone, r, p, whole, calls) ==
    /\ ~Busy(r)
    /\ req' \in [Requests -> ReqType] /\ \A q \in Requests : ReqOK(q)'
    /\ req'[r].path = p /\ req'[r].whole = whole /\ req'[r].todo = calls
    /\ req'[r].clean <=> alone = TRUE /\ Rivals(p) = {}
    /\ \A q \in Requests \ {r} :
          /\ req'[q].path = req[q].path /\ req'[q].whole = req[q].whole
          /\ req'[q].todo = req[q].todo
          /\ req'[q].clean <=> req[q].clean /\ q \notin Rivals(p)
    /\ UNCHANGED <<app, entries, location, upstream, outspelled, faults>>
    /\ overlaps' \in {overlaps, overlaps + 1}
    /\ overlaps' = overlaps => \A q \in Requests : ~Busy(q)

LEMMA Begins ==
    ASSUME TypeInv, NEW r \in Requests, NEW alone \in BOOLEAN, NEW p \in Paths,
           NEW whole \in BOOLEAN, NEW calls \in Seq(CallsOf(p)),
           BeginAmong(alone, r, p, whole, calls)
    PROVE  Begun(alone, r, p, whole, calls)
  <1>1. /\ ~Busy(r)
        /\ req' = [q \in Requests |->
                      IF q = r THEN [path |-> p, whole |-> whole,
                                     clean |-> alone /\ Rivals(p) = {}, todo |-> calls]
                      ELSE [req[q] EXCEPT !.clean = @ /\ q \notin Rivals(p)]]
        /\ torn' = IF alone /\ Rivals(p) = {} THEN torn ELSE torn \cup {p}
        /\ IF alone /\ Rivals(p) = {} /\ \A q \in Requests : ~Busy(q)
           THEN UNCHANGED overlaps
           ELSE overlaps < MaxOverlaps /\ overlaps' = overlaps + 1
        /\ UNCHANGED <<app, entries, location, upstream, outspelled, faults>>
    BY DEF BeginAmong, Rivals, docVars, consulVars
  <1>2. calls \in Seq(Calls) /\ overlaps \in Nat
    BY CallsTyped DEF TypeInv, TypeOK
  <1>3. /\ req'[r] \in ReqType
        /\ req'[r].path = p /\ req'[r].whole = whole /\ req'[r].todo = calls
        /\ req'[r].clean <=> alone /\ Rivals(p) = {}
    BY <1>1, <1>2 DEF ReqType
  <1>4. ASSUME NEW q \in Requests \ {r}
        PROVE  /\ req'[q] \in ReqType
               /\ req'[q].path = req[q].path /\ req'[q].whole = req[q].whole
               /\ req'[q].todo = req[q].todo
               /\ req'[q].clean <=> req[q].clean /\ q \notin Rivals(p)
    <2>1. req[q] \in ReqType /\ req'[q] = [req[q] EXCEPT !.clean = @ /\ q \notin Rivals(p)]
      BY <1>1 DEF TypeInv, TypeOK, ReqType
    <2> QED BY <2>1 DEF ReqType
  <1>5. req' \in [Requests -> ReqType]
    BY <1>1, <1>3, <1>4
  <1>6. ASSUME NEW q \in Requests
        PROVE  ReqOK(q)'
    <2>1. CASE q = r
      BY <1>3, <2>1 DEF ReqOK, Busy
    <2>2. CASE q # r
      BY <1>4, <2>2 DEF ReqOK, Busy, TypeInv
    <2> QED BY <2>1, <2>2
  <1>7. /\ overlaps' \in {overlaps, overlaps + 1}
        /\ overlaps' = overlaps => \A q \in Requests : ~Busy(q)
    BY <1>1, <1>2
  <1> QED BY <1>1, <1>3, <1>4, <1>5, <1>6, <1>7 DEF Begun

(* The parameters of a pending call. *)
LEMMA Parameters ==
    ASSUME NEW p, NEW c \in CallsOf(p)
    PROVE  /\ c.call \in {"pull", "push", "put", "delete"} => c.path = p
           /\ c.call = "push" => c.entry \in Entry
           /\ c.call = "store_binding" => p = Root /\ c.app \in AppHosts
           /\ c.call = "set_app" => p = Root /\ c.app \in AppHosts \cup {Nothing}
           /\ c.call \in {"list_routes", "find_binding"} => p = Root
           /\ c.call = "list" => c.upstream \in Addresses /\ c.servers \subseteq Addresses
           /\ c.call = "save" => c.upstream \in Addresses /\ c.servers \subseteq Addresses
           /\ c.call = "put" => c.location \in Location
           /\ c.call \in {"pull", "push", "put", "delete", "store_binding", "set_app", "list",
                          "save", "parse_none", "ready", "list_routes", "find_binding"}
  BY DEF CallsOf, Calls

(* What a call does, by its name. *)
Effect(r) ==
    LET c == Pending(r)
        p == req[r].path
    IN  \/ /\ c.call = "pull" /\ entries[p] = <<>> /\ c.strict
           /\ Raise(r) /\ UNCHANGED faults
        \/ /\ c.call = "pull"
           /\ entries' = [entries EXCEPT ![p] = <<>>]
           /\ Return(r, <<>>)
           /\ UNCHANGED <<app, location, upstream, outspelled>>
        \/ /\ c.call = "push"
           /\ entries' = [entries EXCEPT ![p] = Append(entries[p], c.entry)]
           /\ Return(r, <<>>)
           /\ UNCHANGED <<app, location, upstream, outspelled>>
        \/ /\ c.call = "store_binding"
           /\ app' = c.app
           /\ entries' = [entries EXCEPT ![p] =
                              Append(entries[p], [to |-> c.app, custom |-> FALSE])]
           /\ Return(r, <<>>)
           /\ UNCHANGED <<location, upstream, outspelled>>
        \/ /\ c.call = "set_app"
           /\ app' = c.app
           /\ Return(r, <<>>)
           /\ UNCHANGED <<entries, location, upstream, outspelled>>
        \/ /\ c.call = "list"
           /\ Return(r, <<Save(c.upstream, IF c.change = "add"
                                           THEN upstream[c.upstream] \cup c.servers
                                           ELSE upstream[c.upstream] \ c.servers)>>)
           /\ UNCHANGED <<app, entries, location, upstream, outspelled>>
        \/ /\ c.call = "save"
           /\ upstream' = [upstream EXCEPT ![c.upstream] = c.servers]
           /\ outspelled' = IF c.servers = {} /\ SpeltOtherwise(p, c.upstream)
                            THEN outspelled \cup {c.upstream} ELSE outspelled \ {c.upstream}
           /\ Return(r, <<>>)
           /\ UNCHANGED <<app, entries, location>>
        \/ /\ c.call = "put"
           /\ location' = [location EXCEPT ![p] = c.location]
           /\ Return(r, <<>>)
           /\ UNCHANGED <<app, entries, upstream, outspelled>>
        \/ /\ c.call = "delete"
           /\ location' = [location EXCEPT ![p] = Plain("none")]
           /\ Return(r, <<>>)
           /\ UNCHANGED <<app, entries, upstream, outspelled>>
        \/ c.call = "parse_none" /\ Raise(r) /\ UNCHANGED faults

LEMMA StepEffect ==
    ASSUME TypeInv, NEW r \in Requests, RequestStep(r)
    PROVE  Busy(r) /\ Effect(r)
  <1>1. Busy(r)
    BY DEF RequestStep, DeleteBindingPath, PushPath, StoreApp, SetAppHost, ListUpstream,
           SaveUpstream, PutLocation, RemoveLocation, ParseNone, Calling
  <1>2. Pending(r) \in CallsOf(req[r].path)
    BY <1>1, BusyPending
  <1>3. CASE DeleteBindingPath(r)
    BY <1>2, <1>3, Parameters DEF DeleteBindingPath, Calling, Pulled, Effect, consulVars
  <1>4. CASE PushPath(r)
    BY <1>2, <1>4, Parameters DEF PushPath, Calling, Effect, consulVars
  <1>5. CASE StoreApp(r)
    BY <1>2, <1>5, Parameters DEF StoreApp, Calling, Effect, consulVars
  <1>6. CASE SetAppHost(r)
    BY <1>6 DEF SetAppHost, Calling, Effect, consulVars
  <1>7. CASE ListUpstream(r)
    BY <1>7 DEF ListUpstream, Calling, Effect, consulVars, docVars
  <1>8. CASE SaveUpstream(r)
    BY <1>8 DEF SaveUpstream, Calling, Effect, docVars
  <1>9. CASE PutLocation(r)
    BY <1>2, <1>9, Parameters DEF PutLocation, Calling, Effect, docVars
  <1>10. CASE RemoveLocation(r)
    BY <1>2, <1>10, Parameters DEF RemoveLocation, Calling, Effect, docVars
  <1>11. CASE ParseNone(r)
    BY <1>11 DEF ParseNone, Calling, Effect
  <1> QED BY <1>1, <1>3, <1>4, <1>5, <1>6, <1>7, <1>8, <1>9, <1>10, <1>11 DEF RequestStep

(* What is stored keeps its type. *)
StoresTyped ==
    /\ app \in AppHosts \cup {Nothing}
    /\ entries \in [Paths -> Seq(Entry)]
    /\ location \in [Paths -> Location]
    /\ upstream \in [Addresses -> SUBSET Addresses]
    /\ outspelled \in SUBSET Addresses

LEMMA EffectTyped ==
    ASSUME TypeInv, NEW r \in Requests, Busy(r), Effect(r)
    PROVE  TypeInv'
  <1>1. /\ StoresTyped /\ req[r].path \in Paths /\ Pending(r) \in CallsOf(req[r].path)
        /\ faults \in Nat /\ overlaps \in Nat /\ torn \subseteq Paths
    BY BusyPending DEF TypeInv, TypeOK, StoresTyped
  <1>2. Plain("none") \in Location
    BY DEF Plain, Location
  <1>3. \A a \in AppHosts : [to |-> a, custom |-> FALSE] \in Entry
    BY ConstantsAssumption DEF Entry
  <1>4. \A s \in Seq(Entry), e \in Entry : Append(s, e) \in Seq(Entry)
    BY AppendProperties
  <1>5. PICK ss : ss = IF Pending(r).change = "add"
                       THEN upstream[Pending(r).upstream] \cup Pending(r).servers
                       ELSE upstream[Pending(r).upstream] \ Pending(r).servers
    OBVIOUS
  <1>6. Pending(r).call = "list" =>
            <<Save(Pending(r).upstream, ss)>> \in Seq(CallsOf(req[r].path))
    <2>1. HAVE Pending(r).call = "list"
    <2>2. Pending(r).upstream \in Addresses /\ ss \in SUBSET Addresses
      BY <1>1, <1>5, <2>1, Parameters DEF StoresTyped
    <2>3. Save(Pending(r).upstream, ss) \in CallsOf(req[r].path)
      BY <2>2, CallTypes
    <2> QED BY <2>3
  <1>7. StoresTyped'
    <2> USE <1>1 DEF Effect, StoresTyped, Raise, docVars, consulVars
    <2>1. app' \in AppHosts \cup {Nothing}
      BY Parameters
    <2>2. entries' \in [Paths -> Seq(Entry)]
      <3>1. PICK p, c : p = req[r].path /\ c = Pending(r)
        OBVIOUS
      <3>2. entries[p] \in Seq(Entry) /\ <<>> \in Seq(Entry)
        BY <3>1
      <3>3. c.call = "push" => Append(entries[p], c.entry) \in Seq(Entry)
        BY <1>4, <3>1, <3>2, Parameters
      <3>4. c.call = "store_binding" =>
                Append(entries[p], [to |-> c.app, custom |-> FALSE]) \in Seq(Entry)
        BY <1>3, <1>4, <3>1, <3>2, Parameters
      <3>5. \/ UNCHANGED entries
            \/ \E s \in Seq(Entry) : entries' = [entries EXCEPT ![p] = s]
        BY <3>1, <3>2, <3>3, <3>4
      <3> QED BY <3>5
    <2>3. location' \in [Paths -> Location]
      <3>1. \/ UNCHANGED location
            \/ \E l \in Location : location' = [location EXCEPT ![req[r].path] = l]
        BY <1>2, Parameters
      <3> QED BY <3>1
    <2>4. upstream' \in [Addresses -> SUBSET Addresses]
      BY Parameters
    <2>5. outspelled' \in SUBSET Addresses
      BY Parameters
    <2> QED BY <2>1, <2>2, <2>3, <2>4, <2>5
  <1>8. \/ Raise(r) /\ UNCHANGED faults
        \/ \E more \in Seq(CallsOf(req[r].path)) : Return(r, more)
    <2>1. <<>> \in Seq(CallsOf(req[r].path))
      OBVIOUS
    <2> QED BY <1>5, <1>6, <2>1 DEF Effect
  <1>9. CASE Raise(r) /\ UNCHANGED faults
    <2>1. /\ req' \in [Requests -> ReqType] /\ \A q \in Requests : ReqOK(q)'
    BY <1>9, Raises
    <2>2. torn' \subseteq Paths /\ overlaps' \in Nat /\ faults' \in Nat
      BY <1>1, <1>9, Raises
    <2> QED BY <1>7, <2>1, <2>2 DEF TypeInv, TypeOK, StoresTyped, ReqType
  <1>10. ASSUME NEW more \in Seq(CallsOf(req[r].path)), Return(r, more)
         PROVE  TypeInv'
    <2>1. Went(r, more \o Tail(req[r].todo))
      BY <1>10, Returns
    <2>2. /\ req' \in [Requests -> ReqType] /\ \A q \in Requests : ReqOK(q)'
          /\ torn' \subseteq Paths /\ UNCHANGED <<faults, overlaps>>
      BY <1>1, <2>1 DEF Went
    <2> QED BY <1>1, <1>7, <2>2 DEF TypeInv, TypeOK, StoresTyped, ReqType
  <1> QED BY <1>8, <1>9, <1>10

(* The calls of each request, from its first to its last. *)
BindTodo(a) == <<List("add", Default, {HostOf(a)}), Put(Root, Proxy(a, Default)),
                 Pull(Root, FALSE), StoreBinding(a)>>

RouteTodo(p, to) ==
    IF to \in Contents
    THEN <<Pull(p, FALSE), Push(p, [to |-> to, custom |-> TRUE]), Put(p, Content(to))>>
    ELSE <<Pull(p, FALSE), Push(p, [to |-> to, custom |-> TRUE]),
           List("add", HostOf(to), {HostOf(to)}), Put(p, Proxy(to, HostOf(to)))>>

LEMMA AddressTypes ==
    /\ Root \in Paths /\ Default \in Addresses
    /\ AppHosts \subseteq Addresses /\ Destinations \subseteq Addresses
    /\ \A a \in Addresses : HostOf(a) \in Addresses /\ ServerOf(a) \in Addresses
    /\ Nothing \notin Paths /\ Nothing \notin Addresses /\ Nothing \notin AppHosts
  BY ConstantsAssumption

LEMMA LocationTypes ==
    /\ \A a, u \in Addresses : Proxy(a, u) \in Location
    /\ \A c \in Contents : Content(c) \in Location
    /\ \A k \in {"none", "not_bound"} : Plain(k) \in Location
  BY DEF Proxy, Content, Plain, Location

LEMMA BindTyped ==
    ASSUME NEW a \in AppHosts
    PROVE  /\ WriteProxy(Root, a, Default) \o <<Pull(Root, FALSE), StoreBinding(a)>> = BindTodo(a)
           /\ BindTodo(a) \in Seq(CallsOf(Root))
  <1>1. PICK c1, c2, c3, c4 :
           /\ c1 = List("add", Default, {HostOf(a)}) /\ c2 = Put(Root, Proxy(a, Default))
           /\ c3 = Pull(Root, FALSE) /\ c4 = StoreBinding(a)
    OBVIOUS
  <1>2. {HostOf(a)} \in SUBSET Addresses /\ Proxy(a, Default) \in Location
    BY AddressTypes, LocationTypes
  <1>3. /\ c1 \in CallsOf(Root) /\ c2 \in CallsOf(Root) /\ c3 \in CallsOf(Root)
        /\ c4 \in CallsOf(Root)
    BY <1>1, <1>2, AddressTypes, CallTypes
  <1>4. <<c1, c2>> \o <<c3, c4>> = <<c1, c2, c3, c4>>
    BY Join22
  <1>5. <<c1, c2, c3, c4>> \in Seq(CallsOf(Root))
    BY <1>3
  <1> QED BY <1>1, <1>4, <1>5 DEF WriteProxy, BindTodo

LEMMA UnbindTyped ==
    ASSUME app \in AppHosts \cup {Nothing}
    PROVE  /\ UnbindCalls \in Seq(CallsOf(Root))
           /\ <<SetApp(Nothing)>> \in Seq(CallsOf(Root))
  <1>1. PICK c1, c2, c3, c4 :
           /\ c1 = Pull(Root, TRUE) /\ c2 = SetApp(Nothing)
           /\ c3 = Put(Root, Plain("not_bound")) /\ c4 = TakeAppOut
    OBVIOUS
  <1>2. c1 \in CallsOf(Root) /\ c2 \in CallsOf(Root) /\ c3 \in CallsOf(Root)
    BY <1>1, AddressTypes, LocationTypes, CallTypes
  <1>3. c4 \in CallsOf(Root)
    <2>1. CASE app = Nothing
      BY <1>1, <2>1, CallTypes DEF TakeAppOut
    <2>2. CASE app \in AppHosts
      <3>1. {ServerOf(app)} \in SUBSET Addresses
        BY <2>2, AddressTypes
      <3> QED BY <1>1, <2>2, <3>1, AddressTypes, CallTypes DEF TakeAppOut
    <2> QED BY <2>1, <2>2
  <1>4. <<c1, c2, c3, c4>> \in Seq(CallsOf(Root)) /\ <<c2>> \in Seq(CallsOf(Root))
    BY <1>2, <1>3
  <1> QED BY <1>1, <1>4 DEF UnbindCalls

LEMMA RouteTyped ==
    ASSUME NEW p \in Paths, NEW to \in Destinations \cup Contents,
           NEW write, write = IF to \in Contents THEN <<Put(p, Content(to))>>
                                                 ELSE WriteProxy(p, to, HostOf(to))
    PROVE  /\ <<Pull(p, FALSE), Push(p, [to |-> to, custom |-> TRUE])>> \o write
                  = RouteTodo(p, to)
           /\ RouteTodo(p, to) \in Seq(CallsOf(p))
  <1>1. PICK c1, c2, c3, c4, l :
           /\ c1 = Pull(p, FALSE) /\ c2 = Push(p, [to |-> to, custom |-> TRUE])
           /\ c3 = List("add", HostOf(to), {HostOf(to)})
           /\ l = (IF to \in Contents THEN Content(to) ELSE Proxy(to, HostOf(to)))
           /\ c4 = Put(p, l)
    OBVIOUS
  <1>2. [to |-> to, custom |-> TRUE] \in Entry
    BY AddressTypes DEF Entry
  <1>3. l \in Location
    BY <1>1, AddressTypes, LocationTypes
  <1>4. c1 \in CallsOf(p) /\ c2 \in CallsOf(p) /\ c4 \in CallsOf(p)
    BY <1>1, <1>2, <1>3, CallTypes
  <1>5. CASE to \in Contents
    <2>1. <<c1, c2>> \o <<c4>> = <<c1, c2, c4>>
      BY Join21
    <2>2. <<c1, c2, c4>> \in Seq(CallsOf(p))
      BY <1>4
    <2> QED BY <1>1, <1>5, <2>1, <2>2 DEF RouteTodo
  <1>6. CASE to \notin Contents
    <2>1. {HostOf(to)} \in SUBSET Addresses /\ HostOf(to) \in Addresses
      BY <1>6, AddressTypes
    <2>2. c3 \in CallsOf(p)
      BY <1>1, <2>1, CallTypes
    <2>3. <<c1, c2>> \o <<c3, c4>> = <<c1, c2, c3, c4>>
      BY Join22
    <2>4. <<c1, c2, c3, c4>> \in Seq(CallsOf(p))
      BY <1>4, <2>2
    <2> QED BY <1>1, <1>6, <2>3, <2>4 DEF RouteTodo, WriteProxy
  <1> QED BY <1>5, <1>6

LEMMA DeleteTyped ==
    ASSUME NEW p \in Paths, NEW to \in Addresses \cup Contents, NEW release,
           release = IF to \notin Contents /\ LastReference(to)
                     THEN <<List("remove", to, {ServerOf(to)})>> ELSE <<>>
    PROVE  /\ release \o <<Pull(p, TRUE), Delete(p)>> =
                  IF to \notin Contents /\ LastReference(to)
                  THEN <<List("remove", to, {ServerOf(to)}), Pull(p, TRUE), Delete(p)>>
                  ELSE <<Pull(p, TRUE), Delete(p)>>
           /\ release \o <<Pull(p, TRUE), Delete(p)>> \in Seq(CallsOf(p))
  <1>1. PICK c1, c2, c3 :
           /\ c1 = List("remove", to, {ServerOf(to)})
           /\ c2 = Pull(p, TRUE) /\ c3 = Delete(p)
    OBVIOUS
  <1>2. c2 \in CallsOf(p) /\ c3 \in CallsOf(p)
    BY <1>1, CallTypes
  <1>3. CASE to \notin Contents /\ LastReference(to)
    <2>1. {ServerOf(to)} \in SUBSET Addresses
      BY <1>3, AddressTypes
    <2>2. c1 \in CallsOf(p)
      BY <1>1, <1>3, <2>1, CallTypes
    <2>3. <<c1>> \o <<c2, c3>> = <<c1, c2, c3>>
      BY Join12
    <2>4. <<c1, c2, c3>> \in Seq(CallsOf(p))
      BY <1>2, <2>2
    <2> QED BY <1>1, <1>3, <2>3, <2>4
  <1>4. CASE ~(to \notin Contents /\ LastReference(to))
    <2>1. <<>> \o <<c2, c3>> = <<c2, c3>> /\ <<c2, c3>> \in Seq(CallsOf(p))
      BY <1>2, Join02
    <2> QED BY <1>1, <1>4, <2>1
  <1> QED BY <1>3, <1>4

LEMMA BeginTyped ==
    ASSUME TypeInv, NEW r \in Requests, NEW alone \in BOOLEAN, NEW p \in Paths,
           NEW whole \in BOOLEAN, NEW calls \in Seq(CallsOf(p)),
           BeginAmong(alone, r, p, whole, calls)
    PROVE  TypeInv'
  <1>1. Begun(alone, r, p, whole, calls)
    BY Begins
  <1>2. torn' = torn \/ torn' = torn \cup {p}
    BY BeginTears
  <1> QED BY <1>1, <1>2 DEF Begun, TypeInv, TypeOK, ReqType

LEMMA BindBegins ==
    ASSUME NEW r \in Requests, NEW a \in AppHosts, Bind(r, a)
    PROVE  /\ app = Nothing
           /\ \/ CustomRoot /\ BeginAmong(TRUE, r, Root, FALSE, <<SetApp(a)>>)
              \/ ~CustomRoot /\ BeginAmong(TRUE, r, Root, TRUE, BindTodo(a))
           /\ <<SetApp(a)>> \in Seq(CallsOf(Root)) /\ BindTodo(a) \in Seq(CallsOf(Root))
  <1>1. SetApp(a) \in CallsOf(Root)
    BY CallTypes
  <1>2. <<SetApp(a)>> \in Seq(CallsOf(Root))
    BY <1>1
  <1> QED BY <1>2, BindTyped DEF Bind, Begin

LEMMA UnbindBegins ==
    ASSUME TypeInv, NEW r \in Requests, Unbind(r)
    PROVE  /\ \/ CustomRoot /\ BeginAmong(TRUE, r, Root, FALSE, <<SetApp(Nothing)>>)
              \/ ~CustomRoot /\ BeginAmong(TRUE, r, Root, TRUE, UnbindCalls)
           /\ <<SetApp(Nothing)>> \in Seq(CallsOf(Root)) /\ UnbindCalls \in Seq(CallsOf(Root))
  <1>1. app \in AppHosts \cup {Nothing}
    BY DEF TypeInv, TypeOK
  <1> QED BY <1>1, UnbindTyped DEF Unbind, Begin

LEMMA RouteBegins ==
    ASSUME NEW r \in Requests, NEW p \in Paths, NEW to \in Destinations \cup Contents,
           AddRoute(r, p, to)
    PROVE  /\ BeginAmong(TRUE, r, p, TRUE, RouteTodo(p, to))
           /\ RouteTodo(p, to) \in Seq(CallsOf(p))
  <1>1. PICK write : write = IF to \in Contents THEN <<Put(p, Content(to))>>
                                                ELSE WriteProxy(p, to, HostOf(to))
    OBVIOUS
  <1> QED BY <1>1, RouteTyped DEF AddRoute, Begin

(* A delete_route of p, and what it releases. *)
DeleteTodo(p, to, last) ==
    IF last THEN <<List("remove", to, {ServerOf(to)}), Pull(p, TRUE), Delete(p)>>
            ELSE <<Pull(p, TRUE), Delete(p)>>

LEMMA DeleteBegins ==
    ASSUME TypeInv, NEW r \in Requests, NEW p \in Paths, DeleteRoute(r, p)
    PROVE  /\ p # Root /\ entries[p] # <<>>
           /\ \E to \in Addresses \cup Contents, last \in BOOLEAN :
                 /\ to = Last(entries[p]).to
                 /\ last <=> to \notin Contents /\ LastReference(to)
                 /\ BeginAmong(TRUE, r, p, TRUE, DeleteTodo(p, to, last))
                 /\ DeleteTodo(p, to, last) \in Seq(CallsOf(p))
  <1>1. PICK to : to = Last(entries[p]).to
    OBVIOUS
  <1>2. p # Root /\ entries[p] # <<>> /\ entries[p] \in Seq(Entry)
    BY DEF DeleteRoute, TypeInv, TypeOK
  <1>3. Last(entries[p]) \in Entry
    <2>1. PICK s : s = entries[p]
      OBVIOUS
    <2>2. Len(s) \in 1..Len(s)
      BY <1>2, <2>1, EmptySeq
    <2>3. s[Len(s)] \in Entry
      BY <1>2, <2>1, <2>2, ElementOfSeq
    <2> QED BY <2>1, <2>3 DEF Last
  <1>4. to \in Addresses \cup Contents
    BY <1>1, <1>3 DEF Entry
  <1>5. PICK last \in BOOLEAN : last <=> to \notin Contents /\ LastReference(to)
    OBVIOUS
  <1>6. PICK release : release = IF to \notin Contents /\ LastReference(to)
                                 THEN <<List("remove", to, {ServerOf(to)})>> ELSE <<>>
    OBVIOUS
  <1>7. BeginAmong(TRUE, r, p, TRUE, release \o <<Pull(p, TRUE), Delete(p)>>)
    BY <1>1, <1>6 DEF DeleteRoute, Begin
  <1>8. /\ release \o <<Pull(p, TRUE), Delete(p)>> = DeleteTodo(p, to, last)
        /\ DeleteTodo(p, to, last) \in Seq(CallsOf(p))
    BY <1>4, <1>5, <1>6, DeleteTyped DEF DeleteTodo
  <1> QED BY <1>1, <1>2, <1>4, <1>5, <1>7, <1>8

LEMMA FailsTyped ==
    ASSUME TypeInv, NEW r \in Requests, Busy(r), Raise(r), faults' \in Nat
    PROVE  TypeInv'
  <1>1. /\ req' \in [Requests -> ReqType] /\ \A q \in Requests : ReqOK(q)'
    BY Raises
  <1>2. torn' = torn \cup {req[r].path} /\ UNCHANGED <<app, entries, location, upstream, outspelled, overlaps>>
    BY Raises
  <1>3. req[r].path \in Paths
    BY BusyPending
  <1> QED BY <1>1, <1>2, <1>3 DEF TypeInv, TypeOK, ReqType

LEMMA Swallows ==
    ASSUME TypeInv, NEW r \in Requests, SwallowedFailure(r)
    PROVE  /\ Busy(r) /\ Pending(r).call = "pull" /\ faults < MaxFaults /\ faults' = faults + 1
           /\ req' \in [Requests -> ReqType] /\ \A q \in Requests : ReqOK(q)'
           /\ \A q \in Requests \ {r} : req'[q] = req[q]
           /\ req'[r].path = req[r].path /\ req'[r].todo = Tail(req[r].todo)
           /\ ~req'[r].clean
           /\ torn' = torn \cup {req[r].path}
           /\ UNCHANGED <<app, entries, location, upstream, outspelled, overlaps>>
  <1>1. Busy(r) /\ Pending(r).call = "pull" /\ faults < MaxFaults /\ faults' = faults + 1
    BY DEF SwallowedFailure, Calling
  <1>2. /\ req[r] \in ReqType /\ req[r].path \in Paths
        /\ Tail(req[r].todo) \in Seq(CallsOf(req[r].path))
    BY <1>1, BusyPending
  <1>3. Tail(req[r].todo) \in Seq(Calls)
    BY <1>2, CallsTyped
  <1>4. PICK x : x = [req[r] EXCEPT !.todo = Tail(@), !.clean = FALSE]
    OBVIOUS
  <1>5. x \in ReqType /\ x.path = req[r].path /\ x.todo = Tail(req[r].todo) /\ ~x.clean
    BY <1>2, <1>3, <1>4 DEF ReqType
  <1>6. req \in [Requests -> ReqType]
    BY DEF TypeInv, TypeOK, ReqType
  <1>7. /\ req' = [req EXCEPT ![r] = x] /\ torn' = torn \cup {req[r].path}
        /\ UNCHANGED <<app, entries, location, upstream, outspelled, overlaps>>
    BY <1>4, <1>6 DEF SwallowedFailure, docVars, consulVars
  <1>8. /\ req' \in [Requests -> ReqType] /\ req'[r] = x
        /\ \A q \in Requests \ {r} : req'[q] = req[q]
        /\ \A q \in Requests : ReqOK(q)'
    BY <1>2, <1>5, <1>7, ReqBecomes
  <1> QED BY <1>1, <1>5, <1>7, <1>8

LEMMA SwallowsTyped ==
    ASSUME TypeInv, NEW r \in Requests, SwallowedFailure(r)
    PROVE  TypeInv'
  <1>1. /\ Busy(r) /\ faults' = faults + 1
        /\ req' \in [Requests -> ReqType] /\ \A q \in Requests : ReqOK(q)'
    BY Swallows
  <1>2. torn' = torn \cup {req[r].path} /\ UNCHANGED <<app, entries, location, upstream, outspelled, overlaps>>
    BY Swallows
  <1>3. req[r].path \in Paths
    BY <1>1, BusyPending
  <1> QED BY <1>1, <1>2, <1>3 DEF TypeInv, TypeOK, ReqType

LEMMA TypeInvInit ==
    Init => TypeInv
  <1> SUFFICES ASSUME Init
               PROVE  TypeInv
    OBVIOUS
  <1>1. TypeOK
    BY IdleTyped DEF Init, TypeOK, Plain, Location, ReqType
  <1>2. \A r \in Requests : ReqOK(r)
    BY IdleTyped DEF Init, ReqOK, Busy
  <1> QED BY <1>1, <1>2 DEF TypeInv

LEMMA TypeInvNext ==
    TypeInv /\ [Next]_vars => TypeInv'
  <1> SUFFICES ASSUME TypeInv, [Next]_vars
               PROVE  TypeInv'
    OBVIOUS
  <1>0. Root \in Paths /\ faults \in Nat
    BY AddressTypes DEF TypeInv, TypeOK
  <1>1. ASSUME NEW r \in Requests, NEW a \in AppHosts, Bind(r, a)
        PROVE  TypeInv'
    BY <1>0, <1>1, BindBegins, BeginTyped
  <1>2. ASSUME NEW r \in Requests, Unbind(r)
        PROVE  TypeInv'
    BY <1>0, <1>2, UnbindBegins, BeginTyped
  <1>3. ASSUME NEW r \in Requests, NEW p \in Paths, NEW to \in Destinations \cup Contents,
               AddRoute(r, p, to)
        PROVE  TypeInv'
    BY <1>3, RouteBegins, BeginTyped
  <1>4. ASSUME NEW r \in Requests, NEW p \in Paths, DeleteRoute(r, p)
        PROVE  TypeInv'
    <2>1. PICK to, last :
             /\ BeginAmong(TRUE, r, p, TRUE, DeleteTodo(p, to, last))
             /\ DeleteTodo(p, to, last) \in Seq(CallsOf(p))
      BY <1>4, DeleteBegins
    <2> QED BY <2>1, BeginTyped
  <1>5. ASSUME NEW r \in Requests, RequestStep(r)
        PROVE  TypeInv'
    BY <1>5, StepEffect, EffectTyped
  <1>6. ASSUME NEW r \in Requests, RequestFails(r)
        PROVE  TypeInv'
    BY <1>0, <1>6, FailsTyped DEF RequestFails
  <1>7. ASSUME NEW r \in Requests, SwallowedFailure(r)
        PROVE  TypeInv'
    BY <1>7, SwallowsTyped
  <1>8. CASE UNCHANGED vars
    BY <1>8 DEF vars, TypeInv, TypeOK, ReqOK, Busy
  <1> QED BY <1>1, <1>2, <1>3, <1>4, <1>5, <1>6, <1>7, <1>8 DEF Next

LEMMA TypeInvariant ==
    Spec => []TypeInv
  BY TypeInvInit, TypeInvNext, PTL DEF Spec

(* The binding document, the keys in Consul and the calls every request    *)
(* still has to make keep their types: store_binding is never called       *)
(* without an app, which would push a root path to nowhere.                *)
THEOREM BindingsTyped ==
    Spec => []TypeOK
  <1>1. TypeInv => TypeOK
    BY DEF TypeInv
  <1> QED BY <1>1, TypeInvariant, PTL

-----------------------------------------------------------------------------
(***************************************************************************)
(* The router API: types.                                                  *)
(***************************************************************************)

ServersOf(servers) == {ServerOf(s) : s \in servers}

AddServers(servers) == <<Plainly("ready"), List("add", Upstream, ServersOf(servers))>>

TakeServers(servers) ==
    <<List("remove", Upstream, ServersOf(servers)), Plainly("ready"), Plainly("list_routes")>>

LEMMA UpstreamTypes ==
    /\ Upstream \in AppHosts /\ Upstream \in Addresses /\ Upstream # Nothing
    /\ \A servers \in SUBSET Destinations : ServersOf(servers) \in SUBSET Addresses
  BY RouterAssumption, AddressTypes DEF ServersOf

LEMMA RouterTodos ==
    ASSUME NEW servers \in SUBSET Destinations
    PROVE  /\ BindBackend \in Seq(CallsOf(Root)) /\ AddServers(servers) \in Seq(CallsOf(Root))
           /\ TakeServers(servers) \in Seq(CallsOf(Root))
           /\ BindBackend \o AddServers(servers) \in Seq(CallsOf(Root))
           /\ <<>> \o AddServers(servers) = AddServers(servers)
           /\ <<>> \in Seq(CallsOf(Root))
           /\ <<Plainly("ready"), Plainly("find_binding")>> \in Seq(CallsOf(Root))
  <1>1. PICK c1, c2, c3, c4, c5, c6, c7, c8 :
           /\ c1 = Put(Root, Proxy(Upstream, Upstream)) /\ c2 = Pull(Root, FALSE)
           /\ c3 = StoreBinding(Upstream) /\ c4 = Plainly("ready")
           /\ c5 = List("add", Upstream, ServersOf(servers))
           /\ c6 = List("remove", Upstream, ServersOf(servers))
           /\ c7 = Plainly("list_routes") /\ c8 = Plainly("find_binding")
    OBVIOUS
  <1>2. Proxy(Upstream, Upstream) \in Location
    BY UpstreamTypes, LocationTypes
  <1>3. /\ c1 \in CallsOf(Root) /\ c2 \in CallsOf(Root) /\ c3 \in CallsOf(Root)
        /\ c4 \in CallsOf(Root)
    BY <1>1, <1>2, UpstreamTypes, AddressTypes, CallTypes
  <1>4. c5 \in CallsOf(Root) /\ c6 \in CallsOf(Root)
    BY <1>1, UpstreamTypes, CallTypes
  <1>5. c7 \in CallsOf(Root) /\ c8 \in CallsOf(Root)
    BY <1>1, CallTypes
  <1>6. /\ <<c1, c2, c3>> \in Seq(CallsOf(Root)) /\ <<c4, c5>> \in Seq(CallsOf(Root))
        /\ <<c6, c4, c7>> \in Seq(CallsOf(Root)) /\ <<c4, c8>> \in Seq(CallsOf(Root))
    BY <1>3, <1>4, <1>5
  <1>7. <<c1, c2, c3>> \o <<c4, c5>> \in Seq(CallsOf(Root))
    BY <1>6, ConcatProperties
  <1>8. <<>> \o <<c4, c5>> = <<c4, c5>>
    BY Join02
  <1>9. <<>> \in Seq(CallsOf(Root))
    OBVIOUS
  <1>10. BindBackend = <<c1, c2, c3>> /\ AddServers(servers) = <<c4, c5>>
    BY <1>1 DEF BindBackend, AddServers
  <1>11. TakeServers(servers) = <<c6, c4, c7>>
    BY <1>1 DEF TakeServers
  <1> QED BY <1>1, <1>6, <1>7, <1>8, <1>9, <1>10, <1>11

LEMMA AddRoutesBegins ==
    ASSUME NEW r \in Requests, NEW servers \in SUBSET Destinations, AddRoutes(r, servers)
    PROVE  /\ Found
           /\ \/ /\ app = Upstream
                 /\ BeginAmong(Removals = {}, r, Root, FALSE, AddServers(servers))
              \/ /\ app # Upstream
                 /\ BeginAmong(Removals = {}, r, Root, TRUE, BindBackend \o AddServers(servers))
           /\ UNCHANGED <<live, task, partner, job, deaths, mixed>> /\ jobs' = jobs + 1
  <1>1. CASE app = Upstream
    BY <1>1, RouterTodos DEF AddRoutes, BeginRoutes, AddServers, ServersOf
  <1>2. CASE app # Upstream
    BY <1>2 DEF AddRoutes, BeginRoutes, AddServers, ServersOf
  <1> QED BY <1>1, <1>2

LEMMA DeleteRoutesBegins ==
    ASSUME NEW r \in Requests, NEW servers \in SUBSET Destinations, DeleteRoutes(r, servers)
    PROVE  /\ Found
           /\ BeginAmong(Removals = {}, r, Root, FALSE, TakeServers(servers))
           /\ UNCHANGED <<live, task, partner, job, deaths, mixed>> /\ jobs' = jobs + 1
  BY DEF DeleteRoutes, BeginRoutes, TakeServers, ServersOf

(* The calls that only requests of the router make. *)
RouterCall(r) == Ready(r) \/ ListRoutes(r) \/ FindBinding(r)

TurnsToUnbind(r) ==
    /\ UNCHANGED <<overlaps, torn>>
    /\ \E x \in ReqType :
          /\ x.path = Root /\ x.path = req[r].path /\ x.whole = TRUE
          /\ x.clean = req[r].clean /\ x.todo = UnbindCalls
          /\ req' = [req EXCEPT ![r] = x]

RouterEffect(r) ==
    LET c == Pending(r)
    IN  /\ UNCHANGED <<app, entries, location, upstream, outspelled, faults>>
        /\ \/ c.call = "ready" /\ Raise(r) /\ ~Found
           \/ c.call = "ready" /\ Return(r, <<>>)
           \/ /\ c.call = "list_routes" /\ upstream[Upstream] = {}
              /\ Return(r, <<Plainly("ready"), Plainly("find_binding")>>)
           \/ c.call = "list_routes" /\ upstream[Upstream] # {} /\ Return(r, <<>>)
           \/ /\ c.call = "find_binding" /\ app = Nothing /\ entries[Root] = <<>>
              /\ Return(r, <<>>)
           \/ /\ c.call = "find_binding" /\ ~(app = Nothing /\ entries[Root] = <<>>)
              /\ TurnsToUnbind(r)

LEMMA RouterCallEffect ==
    ASSUME TypeInv, NEW r \in Requests, RouterCall(r)
    PROVE  Busy(r) /\ RouterEffect(r)
  <1>1. Busy(r)
    BY DEF RouterCall, Ready, ListRoutes, FindBinding, Calling
  <1>2. /\ Pending(r) \in CallsOf(req[r].path) /\ req[r] \in ReqType
        /\ app \in AppHosts \cup {Nothing} /\ req \in [Requests -> ReqType]
    BY <1>1, BusyPending DEF TypeInv, TypeOK, ReqType
  <1>3. CASE Ready(r)
    BY <1>3 DEF Ready, Calling, RouterEffect, Raise, Return, docVars, consulVars
  <1>4. CASE ListRoutes(r)
    BY <1>4 DEF ListRoutes, Calling, RouterEffect, Return, docVars, consulVars
  <1>5. CASE FindBinding(r) /\ app = Nothing /\ entries[Root] = <<>>
    BY <1>5 DEF FindBinding, Calling, RouterEffect, Return, docVars, consulVars
  <1>6. CASE FindBinding(r) /\ ~(app = Nothing /\ entries[Root] = <<>>)
    <2>1. Pending(r).call = "find_binding" /\ req[r].path = Root
      BY <1>2, <1>6, Parameters DEF FindBinding, Calling
    <2>2. PICK x : x = [req[r] EXCEPT !.whole = TRUE, !.todo = UnbindCalls]
      OBVIOUS
    <2>3. UnbindCalls \in Seq(CallsOf(Root))
      BY <1>2, UnbindTyped
    <2>4. UnbindCalls \in Seq(Calls)
      BY <2>3, CallsTyped
    <2>5. /\ x \in ReqType /\ x.path = Root /\ x.path = req[r].path /\ x.whole = TRUE
          /\ x.clean = req[r].clean /\ x.todo = UnbindCalls
      BY <1>2, <2>1, <2>2, <2>4 DEF ReqType
    <2>6. req' = [req EXCEPT ![r] = x]
      BY <1>2, <1>6, <2>2 DEF FindBinding
    <2>7. UNCHANGED <<app, entries, location, upstream, outspelled, faults, overlaps, torn>>
      BY <1>6 DEF FindBinding, docVars, consulVars
    <2>8. TurnsToUnbind(r)
      BY <2>5, <2>6, <2>7 DEF TurnsToUnbind
    <2>9. UNCHANGED <<app, entries, location, upstream, outspelled, faults>>
      BY <2>7
    <2>10. ~(app = Nothing /\ entries[Root] = <<>>)
      BY <1>6
    <2> QED BY <1>1, <2>1, <2>8, <2>9, <2>10 DEF RouterEffect
  <1> QED BY <1>1, <1>3, <1>4, <1>5, <1>6 DEF RouterCall

LEMMA RouterEffectTyped ==
    ASSUME TypeInv, NEW r \in Requests, Busy(r), RouterEffect(r)
    PROVE  TypeInv'
  <1>0. /\ UNCHANGED <<app, entries, location, upstream, outspelled, faults>>
        /\ StoresTyped /\ torn \subseteq Paths /\ faults \in Nat /\ overlaps \in Nat
    BY DEF RouterEffect, TypeInv, TypeOK, StoresTyped
  <1>1. Pending(r) \in CallsOf(req[r].path) /\ req[r].path \in Paths
    BY BusyPending
  <1>2. StoresTyped'
    BY <1>0 DEF StoresTyped
  <1>3. CASE Raise(r)
    BY <1>0, <1>3, FailsTyped
  <1>4. ASSUME NEW more \in Seq(CallsOf(req[r].path)), Return(r, more)
        PROVE  TypeInv'
    <2>1. Went(r, more \o Tail(req[r].todo))
      BY <1>4, Returns
    <2>2. /\ req' \in [Requests -> ReqType] /\ \A q \in Requests : ReqOK(q)'
          /\ torn' \subseteq Paths /\ UNCHANGED <<faults, overlaps>>
      BY <1>0, <2>1 DEF Went
    <2> QED BY <1>0, <1>2, <2>2 DEF TypeInv, TypeOK, StoresTyped, ReqType
  <1>5. ASSUME NEW x \in ReqType, x.path = Root, x.todo = UnbindCalls,
               req' = [req EXCEPT ![r] = x], UNCHANGED <<overlaps, torn>>
        PROVE  TypeInv'
    <2>1. x.todo \in Seq(CallsOf(x.path)) /\ x.path \in Paths
      BY <1>0, <1>5, UnbindTyped, AddressTypes DEF StoresTyped
    <2>2. /\ req' \in [Requests -> ReqType] /\ \A q \in Requests : ReqOK(q)'
      BY <1>5, <2>1, ReqBecomes
    <2> QED BY <1>0, <1>2, <1>5, <2>2 DEF TypeInv, TypeOK, StoresTyped, ReqType
  <1>6. /\ <<>> \in Seq(CallsOf(req[r].path))
        /\ Pending(r).call = "list_routes" =>
              <<Plainly("ready"), Plainly("find_binding")>> \in Seq(CallsOf(req[r].path))
    BY <1>1, Parameters, RouterTodos
  <1>7. \/ Raise(r)
        \/ Return(r, <<>>)
        \/ /\ Pending(r).call = "list_routes"
           /\ Return(r, <<Plainly("ready"), Plainly("find_binding")>>)
        \/ TurnsToUnbind(r)
    BY DEF RouterEffect
  <1> QED BY <1>3, <1>4, <1>5, <1>6, <1>7 DEF TurnsToUnbind

(* A removal of the backend only marks requests as no longer clean. *)
LEMMA RemovalMarks ==
    ASSUME TypeInv, req' = [r \in Requests |-> [req[r] EXCEPT !.clean = @ /\ ~Busy(r)]]
    PROVE  /\ req' \in [Requests -> ReqType] /\ \A r \in Requests : ReqOK(r)'
           /\ \A r \in Requests :
                 /\ req'[r].path = req[r].path /\ req'[r].whole = req[r].whole
                 /\ req'[r].todo = req[r].todo /\ (Busy(r)' <=> Busy(r))
                 /\ req'[r].clean <=> req[r].clean /\ ~Busy(r)
  <1>1. ASSUME NEW r \in Requests
        PROVE  /\ req'[r] \in ReqType
               /\ req'[r].path = req[r].path /\ req'[r].whole = req[r].whole
               /\ req'[r].todo = req[r].todo
               /\ req'[r].clean <=> req[r].clean /\ ~Busy(r)
    <2>1. req[r] \in ReqType /\ req'[r] = [req[r] EXCEPT !.clean = @ /\ ~Busy(r)]
      BY DEF TypeInv, TypeOK, ReqType
    <2> QED BY <2>1 DEF ReqType
  <1>2. req' \in [Requests -> ReqType]
    BY <1>1
  <1>3. \A r \in Requests : ReqOK(r)'
    BY <1>1 DEF ReqOK, Busy, TypeInv
  <1> QED BY <1>1, <1>2, <1>3 DEF Busy

LEMMA RemovalTyped ==
    ASSUME TypeInv, NEW j \in Jobs,
           \/ BeginBackendRemoval(j) \/ BackendRemovalStep(j)
           \/ RemoveBackendBinding(j) \/ DestroyBackendTree(j)
    PROVE  TypeInv'
  <1>0. Root \in Paths /\ Plain("none") \in Location
    BY AddressTypes, LocationTypes
  <1>1. CASE BeginBackendRemoval(j)
    <2>1. /\ req' = [r \in Requests |-> [req[r] EXCEPT !.clean = @ /\ ~Busy(r)]]
          /\ torn' = torn \ {Root} \/ torn' = torn \cup {Root}
          /\ UNCHANGED <<app, entries, location, upstream, outspelled, faults, overlaps>>
      BY <1>1 DEF BeginBackendRemoval, docVars, consulVars
    <2>2. /\ req' \in [Requests -> ReqType] /\ \A r \in Requests : ReqOK(r)'
      BY <2>1, RemovalMarks
    <2> QED BY <1>0, <2>1, <2>2 DEF TypeInv, TypeOK, ReqType
  <1>2. CASE BackendRemovalStep(j)
    <2>1. /\ torn' = torn \/ torn' = torn \cup {Root}
          /\ UNCHANGED <<app, entries, location, upstream, outspelled, req, faults, overlaps>>
      BY <1>2 DEF BackendRemovalStep, docVars, consulVars
    <2> QED BY <1>0, <2>1 DEF TypeInv, TypeOK, ReqOK, Busy
  <1>3. CASE RemoveBackendBinding(j)
    <2>1. /\ app' = Nothing /\ entries' = [p \in Paths |-> <<>>]
          /\ UNCHANGED <<location, upstream, outspelled, req, faults, overlaps, torn>>
      BY <1>3 DEF RemoveBackendBinding, consulVars
    <2> QED BY <2>1 DEF TypeInv, TypeOK, ReqOK, Busy
  <1>4. CASE DestroyBackendTree(j)
    <2>1. /\ location' = [p \in Paths |-> Plain("none")] \/ UNCHANGED location
          /\ upstream' = [a \in Addresses |-> {}] \/ UNCHANGED upstream
          /\ outspelled' = {} \/ UNCHANGED outspelled
          /\ torn' = torn \/ torn' = torn \cup {Root}
          /\ UNCHANGED <<app, entries, req, faults, overlaps>>
      BY <1>4 DEF DestroyBackendTree, docVars, consulVars
    <2> QED BY <1>0, <2>1 DEF TypeInv, TypeOK, ReqOK, Busy
  <1> QED BY <1>1, <1>2, <1>3, <1>4

LEMMA TypeInvRouterNext ==
    TypeInv /\ [RouterNext]_backendVars => TypeInv'
  <1> SUFFICES ASSUME TypeInv, [RouterNext]_backendVars
               PROVE  TypeInv'
    OBVIOUS
  <1>0. Root \in Paths /\ faults \in Nat
    BY AddressTypes DEF TypeInv, TypeOK
  <1>1. ASSUME NEW r \in Requests, NEW servers \in SUBSET Destinations, AddRoutes(r, servers)
        PROVE  TypeInv'
    <2>1. PICK alone \in BOOLEAN : alone <=> Removals = {}
      OBVIOUS
    <2>2. PICK whole \in BOOLEAN, calls \in Seq(CallsOf(Root)) :
             BeginAmong(Removals = {}, r, Root, whole, calls)
      BY <1>1, AddRoutesBegins, RouterTodos
    <2> QED BY <1>0, <2>2, BeginTyped
  <1>2. ASSUME NEW r \in Requests, NEW servers \in SUBSET Destinations, DeleteRoutes(r, servers)
        PROVE  TypeInv'
    <2>1. /\ BeginAmong(Removals = {}, r, Root, FALSE, TakeServers(servers))
          /\ TakeServers(servers) \in Seq(CallsOf(Root))
      BY <1>2, DeleteRoutesBegins, RouterTodos
    <2> QED BY <1>0, <2>1, BeginTyped
  <1>3. ASSUME NEW r \in Requests, RoutesStep(r)
        PROVE  TypeInv'
    <2>1. CASE RequestStep(r)
      BY <2>1, StepEffect, EffectTyped
    <2>2. CASE RouterCall(r)
      BY <2>2, RouterCallEffect, RouterEffectTyped
    <2>3. CASE RequestFails(r)
      BY <1>0, <2>3, FailsTyped DEF RequestFails
    <2>4. CASE SwallowedFailure(r)
      BY <2>4, SwallowsTyped
    <2> QED BY <1>3, <2>1, <2>2, <2>3, <2>4 DEF RoutesStep, RouterCall
  <1>4. CASE UNCHANGED vars
    BY <1>4 DEF vars, TypeInv, TypeOK, ReqOK, Busy
  <1> QED BY <1>1, <1>2, <1>3, <1>4, RemovalTyped DEF RouterNext, OtherJob, backendVars

LEMMA RouterTypeInvariant ==
    RouterSpec => [](TypeInv /\ SwapInv)
  <1>1. RouterInit => TypeInv
    BY TypeInvInit DEF RouterInit
  <1>2. RouterSpec => []TypeInv
    BY <1>1, TypeInvRouterNext, PTL DEF RouterSpec
  <1> QED BY <1>2, SwapInvariant, PTL

(* The same for the router API, together with the swaps and removals.      *)
THEOREM RouterTyped ==
    RouterSpec => []RouterTypeOK
  <1>1. TypeInv /\ SwapInv => RouterTypeOK
    BY DEF TypeInv, SwapInv, RouterTypeOK
  <1> QED BY <1>1, RouterTypeInvariant, PTL
-----------------------------------------------------------------------------
(***************************************************************************)
(* A bound backend can be unbound: UnbindStaysPossible.                    *)
(***************************************************************************)

Settles == {"set_app", "store_binding"}

(* A request that empties the root path of the document goes on to set the *)
(* app, or to push a root path, in its next call.                          *)
Shape(s) ==
    \A n \in 1 .. Len(s) :
        /\ s[n].call = "pull" => n < Len(s) /\ s[n + 1].call \in Settles
        /\ s[n].call = "set_app" => s[n].app = Nothing

UnbindInv ==
    /\ \A r \in Requests : Shape(req[r].todo)
    /\ faults = 0 /\ app # Nothing /\ entries[Root] = <<>> =>
           \E r \in Requests : Busy(r) /\ Pending(r).call \in Settles

LEMMA ShapeTail ==
    ASSUME NEW s \in Seq(Calls), s # <<>>, Shape(s)
    PROVE  /\ Shape(Tail(s))
           /\ Head(s).call = "pull" => Tail(s) # <<>> /\ Head(Tail(s)).call \in Settles
           /\ Head(s).call = "set_app" => Head(s).app = Nothing
  <1>1. PICK t : t = Tail(s)
    OBVIOUS
  <1>2. /\ t \in Seq(Calls) /\ Len(t) = Len(s) - 1 /\ \A i \in 1 .. Len(t) : t[i] = s[i + 1]
        /\ Len(s) \in Nat \ {0} /\ Head(s) = s[1]
    BY <1>1, HeadTailProperties, EmptySeq
  <1>3. Shape(t)
    BY <1>2 DEF Shape
  <1>4. Head(s).call = "pull" => t # <<>> /\ Head(t).call \in Settles
    <2>1. HAVE Head(s).call = "pull"
    <2>2. 1 < Len(s) /\ s[2].call \in Settles
      BY <1>2, <2>1 DEF Shape
    <2>3. t[1] = s[2] /\ t # <<>>
      BY <1>2, <2>2, EmptySeq
    <2> QED BY <1>2, <2>2, <2>3
  <1>5. Head(s).call = "set_app" => Head(s).app = Nothing
    BY <1>2 DEF Shape
  <1> QED BY <1>1, <1>3, <1>4, <1>5

LEMMA ShapeJoin ==
    ASSUME NEW s \in Seq(Calls), NEW t \in Seq(Calls), Shape(s), Shape(t)
    PROVE  Shape(s \o t)
  <1>1. PICK w : w = s \o t
    OBVIOUS
  <1>2. /\ Len(w) = Len(s) + Len(t) /\ Len(s) \in Nat /\ Len(t) \in Nat
        /\ \A i \in 1 .. Len(s) + Len(t) : w[i] = IF i <= Len(s) THEN s[i] ELSE t[i - Len(s)]
    BY <1>1, ConcatProperties, LenProperties
  <1>3. ASSUME NEW n \in 1 .. Len(w)
        PROVE  /\ w[n].call = "pull" => n < Len(w) /\ w[n + 1].call \in Settles
               /\ w[n].call = "set_app" => w[n].app = Nothing
    <2>1. CASE n <= Len(s)
      <3>1. w[n] = s[n] /\ (n < Len(s) => w[n + 1] = s[n + 1])
        BY <1>2, <2>1
      <3> QED BY <1>2, <2>1, <3>1 DEF Shape
    <2>2. CASE n > Len(s)
      <3>1. n - Len(s) \in 1 .. Len(t) /\ w[n] = t[n - Len(s)]
        BY <1>2, <2>2
      <3>2. n < Len(w) => w[n + 1] = t[(n - Len(s)) + 1]
        BY <1>2, <2>2
      <3> QED BY <1>2, <3>1, <3>2 DEF Shape
    <2> QED BY <1>2, <2>1, <2>2
  <1> QED BY <1>1, <1>3 DEF Shape

LEMMA Shapes ==
    ASSUME NEW servers
    PROVE  /\ Shape(<<>>)
           /\ \A u, ss : Shape(<<Save(u, ss)>>)
           /\ Shape(<<Plainly("ready"), Plainly("find_binding")>>)
           /\ Shape(AddServers(servers)) /\ Shape(TakeServers(servers))
           /\ Shape(BindBackend) /\ Shape(UnbindCalls)
  <1>1. Shape(<<>>)
    BY DEF Shape
  <1>2. ASSUME NEW u, NEW ss
        PROVE  Shape(<<Save(u, ss)>>)
    BY DEF Shape, Save
  <1>3. Shape(<<Plainly("ready"), Plainly("find_binding")>>)
    BY DEF Shape, Plainly
  <1>4. Shape(AddServers(servers)) /\ Shape(TakeServers(servers))
    BY DEF Shape, AddServers, TakeServers, Plainly, List
  <1>5. Shape(BindBackend)
    BY DEF Shape, BindBackend, Put, Pull, StoreBinding, Settles
  <1>6. Shape(UnbindCalls)
    <2>1. TakeAppOut.call \in {"parse_none", "list"}
      BY DEF TakeAppOut, Plainly, List
    <2> QED BY <2>1 DEF Shape, UnbindCalls, Put, Pull, SetApp, Settles
  <1> QED BY <1>1, <1>2, <1>3, <1>4, <1>5, <1>6

(* Another request goes on as before. *)
LEMMA WitnessStays ==
    ASSUME NEW r \in Requests, \A q \in Requests \ {r} : req'[q].todo = req[q].todo,
           NEW w \in Requests \ {r}, Busy(w), Pending(w).call \in Settles
    PROVE  \E q \in Requests : Busy(q)' /\ Pending(q)'.call \in Settles
  <1>1. Busy(w)' /\ Pending(w)' = Pending(w)
    BY DEF Busy, Pending
  <1> QED BY <1>1

LEMMA UnbindInvEffect ==
    ASSUME TypeInv, UnbindInv, NEW r \in Requests, Busy(r), Effect(r)
    PROVE  UnbindInv'
  <1>0. /\ req[r].todo \in Seq(Calls) /\ Shape(req[r].todo) /\ req[r].todo # <<>>
        /\ Pending(r) = Head(req[r].todo) /\ Root \in Paths /\ req[r].path \in Paths
        /\ Pending(r) \in CallsOf(req[r].path) /\ entries \in [Paths -> Seq(Entry)]
        /\ Tail(req[r].todo) \in Seq(CallsOf(req[r].path))
    BY BusyPending, AddressTypes DEF UnbindInv, Busy, Pending, TypeInv, TypeOK
  <1>1. PICK t : t = Tail(req[r].todo)
    OBVIOUS
  <1>2. /\ Shape(t) /\ t \in Seq(Calls) /\ t \in Seq(CallsOf(req[r].path))
        /\ Pending(r).call = "pull" => t # <<>> /\ Head(t).call \in Settles
        /\ Pending(r).call = "set_app" => Pending(r).app = Nothing
    BY <1>0, <1>1, ShapeTail, CallsTyped
  <1>3. /\ \A q \in Requests \ {r} : req'[q] = req[q]
        /\ Shape(req'[r].todo)
        /\ Pending(r).call = "pull" => Raise(r) \/ req'[r].todo = t
    <2>1. <<>> \in Seq(CallsOf(req[r].path)) /\ <<>> \o t = t
      BY <1>2, ConcatEmptySeq
    <2>2. ASSUME Return(r, <<>>)
          PROVE  req'[r].todo = t /\ \A q \in Requests \ {r} : req'[q] = req[q]
      <3>1. Went(r, <<>> \o Tail(req[r].todo))
        BY <2>1, <2>2, Returns
      <3> QED BY <1>1, <2>1, <3>1 DEF Went
    <2>3. ASSUME Raise(r)
          PROVE  req'[r].todo = <<>> /\ \A q \in Requests \ {r} : req'[q] = req[q]
      BY <2>3, Raises
    <2>4. CASE Pending(r).call = "list"
      <3>1. PICK u, ss : /\ u = Pending(r).upstream
                         /\ ss = IF Pending(r).change = "add"
                                 THEN upstream[Pending(r).upstream] \cup Pending(r).servers
                                 ELSE upstream[Pending(r).upstream] \ Pending(r).servers
        OBVIOUS
      <3>2. PICK c : c = Save(u, ss)
        OBVIOUS
      <3>3. u \in Addresses /\ ss \in SUBSET Addresses
        BY <1>0, <2>4, <3>1, Parameters DEF TypeInv, TypeOK
      <3>4. c \in CallsOf(req[r].path)
        BY <3>2, <3>3, CallTypes
      <3>5. <<c>> \in Seq(CallsOf(req[r].path)) /\ <<c>> \in Seq(Calls) /\ Shape(<<c>>)
        BY <3>2, <3>4, Shapes DEF CallsOf
      <3>6. Return(r, <<c>>)
        BY <2>4, <3>1, <3>2 DEF Effect
      <3>7. /\ req'[r].todo = <<c>> \o t
            /\ \A q \in Requests \ {r} : req'[q] = req[q]
        <4>1. Went(r, <<c>> \o Tail(req[r].todo))
          BY <3>5, <3>6, Returns
        <4> QED BY <1>1, <4>1 DEF Went
      <3>8. Shape(<<c>> \o t)
        BY <1>2, <3>5, ShapeJoin
      <3> QED BY <2>4, <3>7, <3>8
    <2>5. CASE Pending(r).call # "list"
      <3>1. Raise(r) \/ Return(r, <<>>)
        BY <2>5 DEF Effect
      <3> QED BY <1>2, <2>2, <2>3, <3>1, Shapes
    <2> QED BY <2>4, <2>5
  <1>4. \A q \in Requests : Shape(req'[q].todo)
    BY <1>3 DEF UnbindInv
  <1> SUFFICES ASSUME faults' = 0, app' # Nothing, entries'[Root] = <<>>
               PROVE  \E q \in Requests : Busy(q)' /\ Pending(q)'.call \in Settles
    BY <1>4 DEF UnbindInv
  <1>5. UNCHANGED faults
    BY DEF Effect, Return
  <1>6. CASE Pending(r).call = "pull" /\ ~Raise(r)
    <2>1. Busy(r)' /\ Pending(r)'.call \in Settles
      BY <1>2, <1>3, <1>6 DEF Busy, Pending
    <2> QED BY <2>1
  <1>7. CASE Pending(r).call # "pull" \/ Raise(r)
    <2>1. Pending(r).call \notin Settles
      <3>1. Pending(r).call # "set_app"
        BY <1>2, <1>7 DEF Effect, Raise, docVars
      <3>2. ASSUME Pending(r).call = "store_binding"
            PROVE  FALSE
        <4>1. PICK e, s : /\ e = [to |-> Pending(r).app, custom |-> FALSE]
                          /\ s = entries[Root]
          OBVIOUS
        <4>2. /\ req[r].path = Root /\ s \in Seq(Entry)
              /\ Pending(r).app \in AppHosts
          BY <1>0, <3>2, <4>1, Parameters
        <4>5. e \in Entry
          BY <4>1, <4>2, AddressTypes DEF Entry
        <4>3. Append(s, e) # <<>>
          BY <4>2, <4>5, AppendProperties
        <4>4. entries'[Root] = Append(s, e)
          BY <1>0, <3>2, <4>1, <4>2 DEF Effect
        <4> QED BY <4>3, <4>4
      <3> QED BY <3>1, <3>2 DEF Settles
    <2>2. app # Nothing /\ entries[Root] = <<>>
      <3>1. CASE Raise(r)
        BY <3>1, Raises
      <3>2. CASE Pending(r).call = "push" /\ ~Raise(r)
        <4>1. app' = app /\ entries' = [entries EXCEPT ![req[r].path] =
                                            Append(entries[req[r].path], Pending(r).entry)]
          BY <3>2 DEF Effect
        <4>2. req[r].path # Root
          <5>1. Pending(r).entry \in Entry
            BY <1>0, <3>2, Parameters
          <5>3. PICK u : u = entries[req[r].path]
            OBVIOUS
          <5>4. u \in Seq(Entry)
            BY <1>0, <5>3
          <5>2. Append(u, Pending(r).entry) # <<>>
            BY <5>1, <5>4, AppendProperties
          <5> QED BY <1>0, <4>1, <5>2, <5>3
        <4> QED BY <1>0, <4>1, <4>2
      <3>3. CASE Pending(r).call \notin {"push", "pull"} /\ ~Raise(r)
        BY <2>1, <3>3 DEF Effect, Settles
      <3> QED BY <1>7, <3>1, <3>2, <3>3
    <2>3. PICK w \in Requests : Busy(w) /\ Pending(w).call \in Settles
      BY <1>5, <2>2 DEF UnbindInv
    <2>4. w # r
      BY <2>1, <2>3
    <2> QED BY <1>3, <2>3, <2>4, WitnessStays
  <1> QED BY <1>6, <1>7

LEMMA UnbindInvRouterEffect ==
    ASSUME TypeInv, UnbindInv, NEW r \in Requests, Busy(r), RouterEffect(r)
    PROVE  UnbindInv'
  <1>0. /\ req[r].todo \in Seq(Calls) /\ Shape(req[r].todo) /\ req[r].todo # <<>>
        /\ Pending(r) = Head(req[r].todo)
        /\ Pending(r) \in CallsOf(req[r].path)
        /\ Tail(req[r].todo) \in Seq(CallsOf(req[r].path))
    BY BusyPending DEF UnbindInv, Busy, Pending, TypeInv, TypeOK
  <1>1. PICK t : t = Tail(req[r].todo)
    OBVIOUS
  <1>2. Shape(t) /\ t \in Seq(Calls)
    BY <1>0, <1>1, ShapeTail, CallsTyped
  <1>3. ASSUME NEW more \in Seq(CallsOf(req[r].path)), Return(r, more), Shape(more)
        PROVE  /\ \A q \in Requests \ {r} : req'[q] = req[q]
               /\ Shape(req'[r].todo)
    <2>1. Went(r, more \o Tail(req[r].todo))
      BY <1>3, Returns
    <2>2. req'[r].todo = more \o Tail(req[r].todo) /\ \A q \in Requests \ {r} : req'[q] = req[q]
      BY <2>1 DEF Went
    <2>3. more \in Seq(Calls)
      BY CallsTyped
    <2>4. Shape(more \o t)
      BY <1>2, <1>3, <2>3, ShapeJoin
    <2> QED BY <1>1, <2>2, <2>4
  <1>4. /\ <<>> \in Seq(CallsOf(req[r].path))
        /\ Pending(r).call = "list_routes" =>
              <<Plainly("ready"), Plainly("find_binding")>> \in Seq(CallsOf(req[r].path))
    <2>1. Pending(r).call = "list_routes" => req[r].path = Root
      BY <1>0, Parameters
    <2>2. <<Plainly("ready"), Plainly("find_binding")>> \in Seq(CallsOf(Root))
      BY {} \in SUBSET Destinations, RouterTodos
    <2> QED BY <2>1, <2>2
  <1>5. /\ \A q \in Requests \ {r} : req'[q] = req[q]
        /\ Shape(req'[r].todo)
    <2>1. CASE Raise(r)
      BY <2>1, Raises, Shapes
    <2>2. CASE Return(r, <<>>)
      BY <1>3, <1>4, <2>2, Shapes
    <2>3. CASE Pending(r).call = "list_routes"
               /\ Return(r, <<Plainly("ready"), Plainly("find_binding")>>)
      BY <1>3, <1>4, <2>3, Shapes
    <2>4. CASE TurnsToUnbind(r)
      <3>1. PICK x \in ReqType : x.todo = UnbindCalls /\ req' = [req EXCEPT ![r] = x]
        BY <2>4 DEF TurnsToUnbind
      <3>2. req'[r] = x /\ \A q \in Requests \ {r} : req'[q] = req[q]
        BY <3>1 DEF TypeInv, TypeOK
      <3> QED BY <3>1, <3>2, Shapes
    <2> QED BY <2>1, <2>2, <2>3, <2>4 DEF RouterEffect
  <1>6. \A q \in Requests : Shape(req'[q].todo)
    BY <1>5 DEF UnbindInv
  <1> SUFFICES ASSUME faults' = 0, app' # Nothing, entries'[Root] = <<>>
               PROVE  \E q \in Requests : Busy(q)' /\ Pending(q)'.call \in Settles
    BY <1>6 DEF UnbindInv
  <1>9. UNCHANGED <<app, entries, faults>>
    BY DEF RouterEffect
  <1>7. PICK w \in Requests : Busy(w) /\ Pending(w).call \in Settles
    BY <1>9 DEF UnbindInv
  <1>8. w # r
    BY <1>7 DEF RouterEffect, Settles
  <1> QED BY <1>5, <1>7, <1>8, WitnessStays

LEMMA UnbindInvBegin ==
    ASSUME TypeInv, UnbindInv, NEW r \in Requests, NEW alone \in BOOLEAN, NEW whole \in BOOLEAN,
           NEW calls \in Seq(CallsOf(Root)), Shape(calls),
           BeginAmong(alone, r, Root, whole, calls)
    PROVE  UnbindInv'
  <1>0. Root \in Paths
    BY AddressTypes
  <1>1. /\ ~Busy(r) /\ req'[r].todo = calls
        /\ \A q \in Requests \ {r} : req'[q].todo = req[q].todo
        /\ UNCHANGED <<app, entries, faults>>
    <2>1. Begun(alone, r, Root, whole, calls)
      BY <1>0, Begins
    <2> QED BY <2>1 DEF Begun
  <1>2. \A q \in Requests : Shape(req'[q].todo)
    BY <1>1 DEF UnbindInv
  <1> SUFFICES ASSUME faults' = 0, app' # Nothing, entries'[Root] = <<>>
               PROVE  \E q \in Requests : Busy(q)' /\ Pending(q)'.call \in Settles
    BY <1>2 DEF UnbindInv
  <1>3. PICK w \in Requests : Busy(w) /\ Pending(w).call \in Settles
    BY <1>1 DEF UnbindInv
  <1> QED BY <1>1, <1>3, WitnessStays

LEMMA UnbindInvNext ==
    TypeInv /\ UnbindInv /\ [RouterNext]_backendVars => UnbindInv'
  <1> SUFFICES ASSUME TypeInv, UnbindInv, [RouterNext]_backendVars
               PROVE  UnbindInv'
    OBVIOUS
  <1>0. faults \in Nat /\ Root \in Paths
    BY AddressTypes DEF TypeInv, TypeOK
  <1>1. ASSUME NEW r \in Requests, NEW servers \in SUBSET Destinations, AddRoutes(r, servers)
        PROVE  UnbindInv'
    <2>1. /\ Shape(AddServers(servers)) /\ Shape(BindBackend)
          /\ BindBackend \in Seq(CallsOf(Root)) /\ AddServers(servers) \in Seq(CallsOf(Root))
          /\ BindBackend \o AddServers(servers) \in Seq(CallsOf(Root))
      BY Shapes, RouterTodos
    <2>2. BindBackend \in Seq(Calls) /\ AddServers(servers) \in Seq(Calls)
      BY <2>1, CallsTyped
    <2>3. Shape(BindBackend \o AddServers(servers))
      BY <2>1, <2>2, ShapeJoin
    <2>4. PICK whole \in BOOLEAN, calls \in Seq(CallsOf(Root)) :
             BeginAmong(Removals = {}, r, Root, whole, calls) /\ Shape(calls)
      BY <1>1, <2>1, <2>3, AddRoutesBegins
    <2> QED BY <2>4, UnbindInvBegin
  <1>2. ASSUME NEW r \in Requests, NEW servers \in SUBSET Destinations, DeleteRoutes(r, servers)
        PROVE  UnbindInv'
    <2>1. /\ BeginAmong(Removals = {}, r, Root, FALSE, TakeServers(servers))
          /\ TakeServers(servers) \in Seq(CallsOf(Root)) /\ Shape(TakeServers(servers))
      BY <1>2, DeleteRoutesBegins, RouterTodos, Shapes
    <2> QED BY <2>1, UnbindInvBegin
  <1>3. ASSUME NEW r \in Requests, RequestFails(r)
        PROVE  UnbindInv'
    <2>1. /\ faults' = faults + 1
          /\ \A q \in Requests \ {r} : req'[q] = req[q]
          /\ req'[r].todo = <<>>
      BY <1>3, Raises DEF RequestFails
    <2> QED BY <1>0, <2>1, Shapes DEF UnbindInv
  <1>4. ASSUME NEW r \in Requests, SwallowedFailure(r)
        PROVE  UnbindInv'
    <2>1. /\ faults' = faults + 1 /\ Busy(r)
          /\ \A q \in Requests \ {r} : req'[q] = req[q]
          /\ req'[r].todo = Tail(req[r].todo)
      BY <1>4, Swallows
    <2>2. Shape(Tail(req[r].todo))
      BY <2>1, ShapeTail DEF Busy, UnbindInv, TypeInv, TypeOK
    <2> QED BY <1>0, <2>1, <2>2 DEF UnbindInv
  <1>5. ASSUME NEW r \in Requests, RoutesStep(r)
        PROVE  UnbindInv'
    <2>1. CASE RequestStep(r)
      BY <2>1, StepEffect, UnbindInvEffect
    <2>2. CASE RouterCall(r)
      BY <2>2, RouterCallEffect, UnbindInvRouterEffect
    <2> QED BY <1>3, <1>4, <1>5, <2>1, <2>2 DEF RoutesStep, RouterCall
  <1>6. ASSUME NEW j \in Jobs, BeginBackendRemoval(j)
        PROVE  UnbindInv'
    <2>1. /\ req' = [r \in Requests |-> [req[r] EXCEPT !.clean = @ /\ ~Busy(r)]]
          /\ UNCHANGED <<app, entries, faults>>
      BY <1>6 DEF BeginBackendRemoval, docVars
    <2>2. \A r \in Requests : req'[r].todo = req[r].todo /\ (Busy(r)' <=> Busy(r))
      BY <2>1, RemovalMarks
    <2> QED BY <2>1, <2>2 DEF UnbindInv, Pending
  <1>7. ASSUME NEW j \in Jobs, BackendRemovalStep(j) \/ DestroyBackendTree(j)
        PROVE  UnbindInv'
    BY <1>7 DEF BackendRemovalStep, DestroyBackendTree, UnbindInv, docVars, Busy, Pending
  <1>8. ASSUME NEW j \in Jobs, RemoveBackendBinding(j)
        PROVE  UnbindInv'
    BY <1>8 DEF RemoveBackendBinding, UnbindInv
  <1>9. CASE UNCHANGED vars
    BY <1>9 DEF vars, UnbindInv, Busy, Pending
  <1> QED BY <1>1, <1>2, <1>5, <1>6, <1>7, <1>8, <1>9 DEF RouterNext, OtherJob, backendVars

(* A bound backend can always be unbound: a request that takes the root    *)
(* path out of the binding document (bind and unbind, rpaas/manager.py)    *)
(* sets the app or pushes a root path in its next call, so however many    *)
(* requests and removals overlap, the document names no app without a root *)
(* path once they have all returned; only a failed call can leave it so.   *)
THEOREM UnbindPossible ==
    RouterSpec => []UnbindStaysPossible
  <1>1. RouterInit => UnbindInv
    BY IdleTyped, Shapes DEF RouterInit, Init, UnbindInv
  <1>2. TypeInv /\ UnbindInv => UnbindStaysPossible
    BY DEF UnbindInv, UnbindStaysPossible, AtRest
  <1>3. RouterSpec => []UnbindInv
    BY <1>1, RouterTypeInvariant, UnbindInvNext, PTL DEF RouterSpec
  <1> QED BY <1>2, <1>3, RouterTypeInvariant, PTL
-----------------------------------------------------------------------------
(***************************************************************************)
(* Calls one by one.                                                       *)
(***************************************************************************)

LEMMA Join11 ==
    ASSUME NEW a, NEW b
    PROVE  <<a>> \o <<b>> = <<a, b>>
  <1>1. PICK S, s, t, w : S = {a, b} /\ s = <<a>> /\ t = <<b>> /\ w = s \o t
    OBVIOUS
  <1>2. s \in Seq(S) /\ t \in Seq(S) /\ Len(s) = 1 /\ Len(t) = 1 /\ s[1] = a /\ t[1] = b
    BY <1>1
  <1>3. /\ w \in Seq(S) /\ Len(w) = 2
        /\ \A i \in 1 .. Len(s) + Len(t) : w[i] = IF i <= Len(s) THEN s[i] ELSE t[i - Len(s)]
    BY <1>1, <1>2, ConcatProperties
  <1>4. w[1] = a /\ w[2] = b
    BY <1>2, <1>3
  <1>5. w = <<w[1], w[2]>>
    BY <1>3
  <1> QED BY <1>1, <1>4, <1>5

LEMMA Join13 ==
    ASSUME NEW a, NEW b, NEW c, NEW d
    PROVE  <<a>> \o <<b, c, d>> = <<a, b, c, d>>
  <1>1. PICK S, s, t, w : S = {a, b, c, d} /\ s = <<a>> /\ t = <<b, c, d>> /\ w = s \o t
    OBVIOUS
  <1>2. /\ s \in Seq(S) /\ t \in Seq(S) /\ Len(s) = 1 /\ Len(t) = 3 /\ s[1] = a
        /\ t[1] = b /\ t[2] = c /\ t[3] = d
    BY <1>1
  <1>3. /\ w \in Seq(S) /\ Len(w) = 4
        /\ \A i \in 1 .. Len(s) + Len(t) : w[i] = IF i <= Len(s) THEN s[i] ELSE t[i - Len(s)]
    BY <1>1, <1>2, ConcatProperties
  <1>4. w[1] = a /\ w[2] = b /\ w[3] = c /\ w[4] = d
    BY <1>2, <1>3
  <1>5. w = <<w[1], w[2], w[3], w[4]>>
    BY <1>3, Four
  <1> QED BY <1>1, <1>4, <1>5

LEMMA GoesOn ==
    ASSUME TypeInv, NEW r \in Requests, Busy(r), Return(r, <<>>)
    PROVE  Went(r, Tail(req[r].todo))
  <1>1. /\ <<>> \in Seq(CallsOf(req[r].path)) /\ Tail(req[r].todo) \in Seq(CallsOf(req[r].path))
    BY BusyPending
  <1>2. Went(r, <<>> \o Tail(req[r].todo))
    BY <1>1, Returns
  <1>3. <<>> \o Tail(req[r].todo) = Tail(req[r].todo)
    BY <1>1, ConcatEmptySeq
  <1> QED BY <1>2, <1>3

LEMMA GoesOnWith ==
    ASSUME TypeInv, NEW r \in Requests, Busy(r), NEW c \in CallsOf(req[r].path),
           Return(r, <<c>>)
    PROVE  Went(r, <<c>> \o Tail(req[r].todo))
  <1>1. <<c>> \in Seq(CallsOf(req[r].path))
    OBVIOUS
  <1> QED BY <1>1, Returns

Raised(r) ==
    /\ req' \in [Requests -> ReqType] /\ \A q \in Requests : ReqOK(q)'
    /\ \A q \in Requests \ {r} : req'[q] = req[q]
    /\ req'[r].todo = <<>>
    /\ torn' = torn \cup {req[r].path}
    /\ UNCHANGED <<app, entries, location, upstream, outspelled, overlaps>>

LEMMA RaisesUp ==
    ASSUME TypeInv, NEW r \in Requests, Raise(r)
    PROVE  Raised(r)
  BY Raises DEF Raised

LEMMA OnPull ==
    ASSUME TypeInv, NEW r \in Requests, Busy(r), Effect(r), Pending(r).call = "pull"
    PROVE  \/ Pending(r).strict /\ entries[req[r].path] = <<>> /\ Raised(r) /\ UNCHANGED faults
           \/ /\ Went(r, Tail(req[r].todo)) /\ UNCHANGED <<app, location, upstream, outspelled>>
              /\ entries' = [entries EXCEPT ![req[r].path] = <<>>]
  BY GoesOn, RaisesUp DEF Effect

LEMMA OnPush ==
    ASSUME TypeInv, NEW r \in Requests, Busy(r), Effect(r), Pending(r).call = "push"
    PROVE  /\ Went(r, Tail(req[r].todo)) /\ UNCHANGED <<app, location, upstream, outspelled>>
           /\ entries' = [entries EXCEPT ![req[r].path] =
                              Append(entries[req[r].path], Pending(r).entry)]
  BY GoesOn DEF Effect

LEMMA OnStore ==
    ASSUME TypeInv, NEW r \in Requests, Busy(r), Effect(r), Pending(r).call = "store_binding"
    PROVE  /\ Went(r, Tail(req[r].todo)) /\ UNCHANGED <<location, upstream, outspelled>>
           /\ app' = Pending(r).app
           /\ entries' = [entries EXCEPT ![req[r].path] =
                     Append(entries[req[r].path], [to |-> Pending(r).app, custom |-> FALSE])]
  BY GoesOn DEF Effect

LEMMA OnSetApp ==
    ASSUME TypeInv, NEW r \in Requests, Busy(r), Effect(r), Pending(r).call = "set_app"
    PROVE  /\ Went(r, Tail(req[r].todo)) /\ UNCHANGED <<entries, location, upstream, outspelled>>
           /\ app' = Pending(r).app
  BY GoesOn DEF Effect

LEMMA OnPut ==
    ASSUME TypeInv, NEW r \in Requests, Busy(r), Effect(r), Pending(r).call = "put"
    PROVE  /\ Went(r, Tail(req[r].todo)) /\ UNCHANGED <<app, entries, upstream, outspelled>>
           /\ location' = [location EXCEPT ![req[r].path] = Pending(r).location]
  BY GoesOn DEF Effect

LEMMA OnDelete ==
    ASSUME TypeInv, NEW r \in Requests, Busy(r), Effect(r), Pending(r).call = "delete"
    PROVE  /\ Went(r, Tail(req[r].todo)) /\ UNCHANGED <<app, entries, upstream, outspelled>>
           /\ location' = [location EXCEPT ![req[r].path] = Plain("none")]
  BY GoesOn DEF Effect

LEMMA OnSave ==
    ASSUME TypeInv, NEW r \in Requests, Busy(r), Effect(r), Pending(r).call = "save"
    PROVE  /\ Went(r, Tail(req[r].todo)) /\ UNCHANGED <<app, entries, location>>
           /\ upstream' = [upstream EXCEPT ![Pending(r).upstream] = Pending(r).servers]
           /\ outspelled' = IF /\ Pending(r).servers = {}
                               /\ SpeltOtherwise(req[r].path, Pending(r).upstream)
                            THEN outspelled \cup {Pending(r).upstream}
                            ELSE outspelled \ {Pending(r).upstream}
  BY GoesOn DEF Effect

Computed(c) ==
    Save(c.upstream, IF c.change = "add" THEN upstream[c.upstream] \cup c.servers
                                         ELSE upstream[c.upstream] \ c.servers)

LEMMA OnList ==
    ASSUME TypeInv, NEW r \in Requests, Busy(r), Effect(r), Pending(r).call = "list"
    PROVE  /\ UNCHANGED <<app, entries, location, upstream, outspelled>>
           /\ Computed(Pending(r)) \in CallsOf(req[r].path)
           /\ Went(r, <<Computed(Pending(r))>> \o Tail(req[r].todo))
  <1>1. PICK c, ss :
           /\ c = Pending(r)
           /\ ss = IF c.change = "add" THEN upstream[c.upstream] \cup c.servers
                                       ELSE upstream[c.upstream] \ c.servers
    OBVIOUS
  <1>2. c \in CallsOf(req[r].path) /\ upstream \in [Addresses -> SUBSET Addresses]
    BY <1>1, BusyPending DEF TypeInv, TypeOK
  <1>3. c.upstream \in Addresses /\ ss \in SUBSET Addresses
    BY <1>1, <1>2, Parameters
  <1>4. Save(c.upstream, ss) \in CallsOf(req[r].path)
    BY <1>3, CallTypes
  <1>5. Computed(Pending(r)) = Save(c.upstream, ss)
    BY <1>1 DEF Computed
  <1>6. /\ Return(r, <<Save(c.upstream, ss)>>)
        /\ UNCHANGED <<app, entries, location, upstream, outspelled>>
    BY <1>1 DEF Effect
  <1> QED BY <1>4, <1>5, <1>6, GoesOnWith

LEMMA OnParseNone ==
    ASSUME TypeInv, NEW r \in Requests, Busy(r), Effect(r), Pending(r).call = "parse_none"
    PROVE  Raised(r) /\ UNCHANGED faults
  BY RaisesUp DEF Effect

Ups == {"list", "save"}

LEMMA OnUps ==
    ASSUME TypeInv, NEW r \in Requests, Busy(r), Effect(r), Pending(r).call \in Ups
    PROVE  /\ UNCHANGED <<app, entries, location>>
           /\ \/ Went(r, Tail(req[r].todo))
              \/ \E c \in CallsOf(req[r].path) : /\ c.call \in Ups
                                                 /\ Went(r, <<c>> \o Tail(req[r].todo))
  <1>1. CASE Pending(r).call = "save"
    BY <1>1, OnSave
  <1>2. CASE Pending(r).call = "list"
    <2>1. Computed(Pending(r)).call = "save"
      BY DEF Computed, Save
    <2> QED BY <1>2, <2>1, OnList DEF Ups
  <1> QED BY <1>1, <1>2 DEF Ups
-----------------------------------------------------------------------------
(***************************************************************************)
(* The document and the locations agree: RoutesAgree.                      *)
(***************************************************************************)

(* What RoutesAgree says of a path that nothing works on. *)
Agrees(p) ==
    /\ Len(entries[p]) <= 1
    /\ entries[p] = <<>> => /\ location[p].kind \in {"none", "not_bound"}
                            /\ p = Root => app = Nothing
    /\ entries[p] # <<>> => /\ location[p] = Meant(Head(entries[p]))
                            /\ p = Root /\ ~Head(entries[p]).custom =>
                                   app = Head(entries[p]).to

Custom(to) == [to |-> to, custom |-> TRUE]

(* How far an add_route, delete_route, bind or unbind that runs alone has  *)
(* come, by the calls it has left and the entries es and location loc of   *)
(* its path p: what it still relies on at the end is already written.      *)
AddingOf(todo, p, es) ==
    \E to \in Destinations \cup Contents : \E l :
        LET e == Custom(to)
            put == Put(p, Meant(e))
        IN  /\ l.call \in Ups
            /\ \/ todo = <<Pull(p, FALSE), Push(p, e), put>>
               \/ todo = <<Pull(p, FALSE), Push(p, e), l, put>>
               \/ es = <<>> /\ todo = <<Push(p, e), put>>
               \/ es = <<>> /\ todo = <<Push(p, e), l, put>>
               \/ es = <<e>> /\ todo = <<l, put>>
               \/ es = <<e>> /\ todo = <<put>>

RemovingOf(todo, p, es) ==
    \E l :
        /\ l.call \in Ups
        /\ \/ todo = <<l, Pull(p, TRUE), Delete(p)>>
           \/ todo = <<Pull(p, TRUE), Delete(p)>>
           \/ es = <<>> /\ todo = <<Delete(p)>>

BindingOf(todo, es, loc) ==
    \E a \in AppHosts : \E l :
        LET put == Put(Root, Proxy(a, Default))
        IN  /\ l.call \in Ups
            /\ \/ todo = <<l, put, Pull(Root, FALSE), StoreBinding(a)>>
               \/ todo = <<put, Pull(Root, FALSE), StoreBinding(a)>>
               \/ loc = Proxy(a, Default) /\ todo = <<Pull(Root, FALSE), StoreBinding(a)>>
               \/ loc = Proxy(a, Default) /\ es = <<>> /\ todo = <<StoreBinding(a)>>

UnbindingOf(todo, es, loc, a) ==
    \E l :
        LET put == Put(Root, Plain("not_bound"))
        IN  /\ l.call \in Ups \cup {"parse_none"}
            /\ \/ todo = <<Pull(Root, TRUE), SetApp(Nothing), put, l>>
               \/ es = <<>> /\ todo = <<SetApp(Nothing), put, l>>
               \/ es = <<>> /\ a = Nothing /\ todo = <<put, l>>
               \/ es = <<>> /\ a = Nothing /\ loc = Plain("not_bound") /\ todo = <<l>>

(* The app alone is named, while a custom root location stays. *)
Naming(todo) == \E a \in AppHosts \cup {Nothing} : todo = <<SetApp(a)>>

ProgressOf(todo, p, es, loc, a) ==
    \/ AddingOf(todo, p, es)
    \/ p # Root /\ RemovingOf(todo, p, es)
    \/ p = Root /\ BindingOf(todo, es, loc)
    \/ p = Root /\ UnbindingOf(todo, es, loc, a)

Progress(r) ==
    LET p == req[r].path
    IN  IF req[r].whole
        THEN ProgressOf(req[r].todo, p, entries[p], location[p], app)
        ELSE /\ p = Root /\ Naming(req[r].todo)
             /\ Root \notin torn => Agrees(Root) /\ CustomRoot

Sole(r) == \A q \in Requests \ {r} : Busy(q) => req[q].path # req[r].path

InOrder(p) == p \notin torn /\ (\A r \in Requests : Busy(r) => req[r].path # p) => Agrees(p)

RoutesInv ==
    /\ \A r \in Requests :
          Busy(r) => IF req[r].clean THEN Sole(r) /\ Progress(r) ELSE req[r].path \in torn
    /\ \A p \in Paths : InOrder(p)

LEMMA Join10 ==
    ASSUME NEW a
    PROVE  <<a>> \o <<>> = <<a>>
  <1>1. PICK S, s : S = {a} /\ s = <<a>>
    OBVIOUS
  <1>2. s \in Seq(S)
    BY <1>1
  <1>3. s \o <<>> = s
    BY <1>2, ConcatEmptySeq
  <1> QED BY <1>1, <1>3

LEMMA AddingSteps ==
    ASSUME TypeInv, NEW r \in Requests, Busy(r), Effect(r), NEW p \in Paths, p = req[r].path,
           AddingOf(req[r].todo, p, entries[p])
    PROVE  \/ \E t : t # <<>> /\ Went(r, t) /\ AddingOf(t, p, entries'[p])
           \/ Went(r, <<>>) /\ Agrees(p)'
  <1>1. PICK to, l, e, put :
           /\ to \in Destinations \cup Contents
           /\ e = Custom(to) /\ put = Put(p, Meant(e)) /\ l.call \in Ups
           /\ \/ req[r].todo = <<Pull(p, FALSE), Push(p, e), put>>
              \/ req[r].todo = <<Pull(p, FALSE), Push(p, e), l, put>>
              \/ entries[p] = <<>> /\ req[r].todo = <<Push(p, e), put>>
              \/ entries[p] = <<>> /\ req[r].todo = <<Push(p, e), l, put>>
              \/ entries[p] = <<e>> /\ req[r].todo = <<l, put>>
              \/ entries[p] = <<e>> /\ req[r].todo = <<put>>
    BY DEF AddingOf
  <1>2. entries \in [Paths -> Seq(Entry)] /\ location \in [Paths -> Location]
    BY DEF TypeInv, TypeOK
  <1> DEFINE Goal == \E t : t # <<>> /\ Went(r, t) /\ AddingOf(t, p, entries'[p])
  <1>3. CASE req[r].todo = <<Pull(p, FALSE), Push(p, e), put>>
    <2>1. Pending(r).call = "pull" /\ ~Pending(r).strict /\ Tail(req[r].todo) = <<Push(p, e), put>>
      BY <1>3 DEF Pending, Pull
    <2>2. Went(r, <<Push(p, e), put>>) /\ entries' = [entries EXCEPT ![p] = <<>>]
      BY <2>1, OnPull
    <2>3. entries'[p] = <<>>
      BY <1>2, <2>2
    <2>4. AddingOf(<<Push(p, e), put>>, p, entries'[p])
      BY <1>1, <2>3 DEF AddingOf
    <2> QED BY <2>2, <2>4
  <1>4. CASE req[r].todo = <<Pull(p, FALSE), Push(p, e), l, put>>
    <2>1. Pending(r).call = "pull" /\ ~Pending(r).strict
          /\ Tail(req[r].todo) = <<Push(p, e), l, put>>
      BY <1>4 DEF Pending, Pull
    <2>2. Went(r, <<Push(p, e), l, put>>) /\ entries' = [entries EXCEPT ![p] = <<>>]
      BY <2>1, OnPull
    <2>3. entries'[p] = <<>>
      BY <1>2, <2>2
    <2>4. AddingOf(<<Push(p, e), l, put>>, p, entries'[p])
      BY <1>1, <2>3 DEF AddingOf
    <2> QED BY <2>2, <2>4
  <1>5. CASE entries[p] = <<>> /\ req[r].todo = <<Push(p, e), put>>
    <2>1. Pending(r).call = "push" /\ Pending(r).entry = e /\ Tail(req[r].todo) = <<put>>
      BY <1>5 DEF Pending, Push
    <2>2. Went(r, <<put>>) /\ entries' = [entries EXCEPT ![p] = Append(entries[p], e)]
      BY <2>1, OnPush
    <2>3. entries'[p] = <<e>>
      BY <1>2, <1>5, <2>2
    <2>4. AddingOf(<<put>>, p, entries'[p])
      BY <1>1, <2>3 DEF AddingOf
    <2> QED BY <2>2, <2>4
  <1>6. CASE entries[p] = <<>> /\ req[r].todo = <<Push(p, e), l, put>>
    <2>1. Pending(r).call = "push" /\ Pending(r).entry = e /\ Tail(req[r].todo) = <<l, put>>
      BY <1>6 DEF Pending, Push
    <2>2. Went(r, <<l, put>>) /\ entries' = [entries EXCEPT ![p] = Append(entries[p], e)]
      BY <2>1, OnPush
    <2>3. entries'[p] = <<e>>
      BY <1>2, <1>6, <2>2
    <2>4. AddingOf(<<l, put>>, p, entries'[p])
      BY <1>1, <2>3 DEF AddingOf
    <2> QED BY <2>2, <2>4
  <1>7. CASE entries[p] = <<e>> /\ req[r].todo = <<l, put>>
    <2>1. Pending(r).call \in Ups /\ Tail(req[r].todo) = <<put>>
      BY <1>1, <1>7 DEF Pending
    <2>2. /\ entries' = entries
          /\ \/ Went(r, <<put>>)
             \/ \E c : c.call \in Ups /\ Went(r, <<c>> \o <<put>>)
      BY <2>1, OnUps
    <2>3. CASE Went(r, <<put>>)
      <3>1. AddingOf(<<put>>, p, entries'[p])
        BY <1>1, <1>7, <2>2 DEF AddingOf
      <3> QED BY <2>3, <3>1
    <2>4. ASSUME NEW c, c.call \in Ups, Went(r, <<c>> \o <<put>>)
          PROVE  Goal
      <3>1. Went(r, <<c, put>>)
        BY <2>4, Join11
      <3>2. AddingOf(<<c, put>>, p, entries'[p])
        BY <1>1, <1>7, <2>2, <2>4 DEF AddingOf
      <3> QED BY <3>1, <3>2
    <2> QED BY <2>2, <2>3, <2>4
  <1>8. CASE entries[p] = <<e>> /\ req[r].todo = <<put>>
    <2>1. Pending(r).call = "put" /\ Pending(r).location = Meant(e) /\ Tail(req[r].todo) = <<>>
      BY <1>1, <1>8 DEF Pending, Put
    <2>2. /\ Went(r, <<>>) /\ entries' = entries
          /\ location' = [location EXCEPT ![p] = Meant(e)]
      BY <2>1, OnPut
    <2>3. entries'[p] = <<e>> /\ location'[p] = Meant(e)
      BY <1>2, <1>8, <2>2
    <2>4. Len(<<e>>) = 1 /\ <<e>> # <<>> /\ Head(<<e>>) = e /\ e.custom
      BY <1>1 DEF Custom
    <2> QED BY <2>2, <2>3, <2>4 DEF Agrees
  <1> QED BY <1>1, <1>3, <1>4, <1>5, <1>6, <1>7, <1>8

LEMMA RemovingSteps ==
    ASSUME TypeInv, NEW r \in Requests, Busy(r), Effect(r), NEW p \in Paths, p = req[r].path,
           p # Root, RemovingOf(req[r].todo, p, entries[p])
    PROVE  \/ Raised(r)
           \/ \E t : t # <<>> /\ Went(r, t) /\ RemovingOf(t, p, entries'[p])
           \/ Went(r, <<>>) /\ Agrees(p)'
  <1>1. PICK l, c2, c3 :
           /\ l.call \in Ups /\ c2 = Pull(p, TRUE) /\ c3 = Delete(p)
           /\ \/ req[r].todo = <<l, c2, c3>>
              \/ req[r].todo = <<c2, c3>>
              \/ entries[p] = <<>> /\ req[r].todo = <<c3>>
    BY DEF RemovingOf
  <1>2. entries \in [Paths -> Seq(Entry)] /\ location \in [Paths -> Location]
    BY DEF TypeInv, TypeOK
  <1> DEFINE Goal == \E t : t # <<>> /\ Went(r, t) /\ RemovingOf(t, p, entries'[p])
  <1>3. CASE req[r].todo = <<l, c2, c3>>
    <2>0. Pending(r) = l /\ Tail(req[r].todo) = <<c2, c3>>
      BY <1>3 DEF Pending
    <2>1. Pending(r).call \in Ups /\ Tail(req[r].todo) = <<c2, c3>>
      BY <1>1, <2>0
    <2>2. \/ Went(r, <<c2, c3>>)
          \/ \E c : c.call \in Ups /\ Went(r, <<c>> \o <<c2, c3>>)
      BY <2>1, OnUps
    <2>3. CASE Went(r, <<c2, c3>>)
      <3>1. RemovingOf(<<c2, c3>>, p, entries'[p])
        BY <1>1 DEF RemovingOf
      <3> QED BY <2>3, <3>1
    <2>4. ASSUME NEW c, c.call \in Ups, Went(r, <<c>> \o <<c2, c3>>)
          PROVE  Goal
      <3>1. Went(r, <<c, c2, c3>>)
        BY <2>4, Join12
      <3>2. RemovingOf(<<c, c2, c3>>, p, entries'[p])
        BY <1>1, <2>4 DEF RemovingOf
      <3> QED BY <3>1, <3>2
    <2> QED BY <2>2, <2>3, <2>4
  <1>4. CASE req[r].todo = <<c2, c3>>
    <2>1. Pending(r).call = "pull" /\ Tail(req[r].todo) = <<c3>>
      BY <1>1, <1>4 DEF Pending, Pull
    <2>2. \/ Raised(r)
          \/ Went(r, <<c3>>) /\ entries' = [entries EXCEPT ![p] = <<>>]
      BY <2>1, OnPull
    <2>3. entries' = [entries EXCEPT ![p] = <<>>] => RemovingOf(<<c3>>, p, entries'[p])
      BY <1>1, <1>2 DEF RemovingOf
    <2> QED BY <2>2, <2>3
  <1>5. CASE entries[p] = <<>> /\ req[r].todo = <<c3>>
    <2>1. Pending(r).call = "delete" /\ Tail(req[r].todo) = <<>>
      BY <1>1, <1>5 DEF Pending, Delete
    <2>2. /\ Went(r, <<>>) /\ entries' = entries
          /\ location' = [location EXCEPT ![p] = Plain("none")]
      BY <2>1, OnDelete
    <2>3. entries'[p] = <<>> /\ location'[p].kind = "none"
      BY <1>2, <1>5, <2>2 DEF Plain
    <2> QED BY <2>2, <2>3 DEF Agrees
  <1> QED BY <1>1, <1>3, <1>4, <1>5

LEMMA BindingSteps ==
    ASSUME TypeInv, NEW r \in Requests, Busy(r), Effect(r), req[r].path = Root,
           BindingOf(req[r].todo, entries[Root], location[Root])
    PROVE  \/ \E t : t # <<>> /\ Went(r, t) /\ BindingOf(t, entries'[Root], location'[Root])
           \/ Went(r, <<>>) /\ Agrees(Root)'
  <1>1. PICK a, l, c2, c3, c4 :
           /\ a \in AppHosts /\ l.call \in Ups /\ c2 = Put(Root, Proxy(a, Default)) /\ c3 = Pull(Root, FALSE)
           /\ c4 = StoreBinding(a)
           /\ \/ req[r].todo = <<l, c2, c3, c4>>
              \/ req[r].todo = <<c2, c3, c4>>
              \/ location[Root] = Proxy(a, Default) /\ req[r].todo = <<c3, c4>>
              \/ /\ location[Root] = Proxy(a, Default) /\ entries[Root] = <<>>
                 /\ req[r].todo = <<c4>>
    BY DEF BindingOf
  <1>2. /\ entries \in [Paths -> Seq(Entry)] /\ location \in [Paths -> Location]
        /\ Root \in Paths
    BY AddressTypes DEF TypeInv, TypeOK
  <1> DEFINE Goal ==
          \E t : t # <<>> /\ Went(r, t) /\ BindingOf(t, entries'[Root], location'[Root])
  <1>3. CASE req[r].todo = <<l, c2, c3, c4>>
    <2>0. Pending(r) = l /\ Tail(req[r].todo) = <<c2, c3, c4>>
      BY <1>3 DEF Pending
    <2>1. Pending(r).call \in Ups
      BY <1>1, <2>0
    <2>2. \/ Went(r, <<c2, c3, c4>>)
          \/ \E c : c.call \in Ups /\ Went(r, <<c>> \o <<c2, c3, c4>>)
      BY <2>0, <2>1, OnUps
    <2>3. CASE Went(r, <<c2, c3, c4>>)
      <3>1. BindingOf(<<c2, c3, c4>>, entries'[Root], location'[Root])
        BY <1>1 DEF BindingOf
      <3> QED BY <2>3, <3>1
    <2>4. ASSUME NEW c, c.call \in Ups, Went(r, <<c>> \o <<c2, c3, c4>>)
          PROVE  Goal
      <3>1. Went(r, <<c, c2, c3, c4>>)
        BY <2>4, Join13
      <3>2. BindingOf(<<c, c2, c3, c4>>, entries'[Root], location'[Root])
        BY <1>1, <2>4 DEF BindingOf
      <3> QED BY <3>1, <3>2
    <2> QED BY <2>2, <2>3, <2>4
  <1>4. CASE req[r].todo = <<c2, c3, c4>>
    <2>0. Pending(r) = c2 /\ Tail(req[r].todo) = <<c3, c4>>
      BY <1>4 DEF Pending
    <2>1. Pending(r).call = "put" /\ Pending(r).location = Proxy(a, Default)
      BY <1>1, <2>0 DEF Put
    <2>2. /\ Went(r, <<c3, c4>>)
          /\ location' = [location EXCEPT ![Root] = Proxy(a, Default)]
      BY <2>0, <2>1, OnPut
    <2>3. location'[Root] = Proxy(a, Default)
      BY <1>2, <2>2
    <2>4. BindingOf(<<c3, c4>>, entries'[Root], location'[Root])
      BY <1>1, <2>3 DEF BindingOf
    <2> QED BY <2>2, <2>4
  <1>5. CASE location[Root] = Proxy(a, Default) /\ req[r].todo = <<c3, c4>>
    <2>0. Pending(r) = c3 /\ Tail(req[r].todo) = <<c4>>
      BY <1>5 DEF Pending
    <2>1. Pending(r).call = "pull" /\ ~Pending(r).strict
      BY <1>1, <2>0 DEF Pull
    <2>2. Went(r, <<c4>>) /\ entries' = [entries EXCEPT ![Root] = <<>>] /\ location' = location
      BY <2>0, <2>1, OnPull
    <2>3. entries'[Root] = <<>>
      BY <1>2, <2>2
    <2>4. BindingOf(<<c4>>, entries'[Root], location'[Root])
      BY <1>1, <1>5, <2>2, <2>3 DEF BindingOf
    <2> QED BY <2>2, <2>4
  <1>6. CASE /\ location[Root] = Proxy(a, Default) /\ entries[Root] = <<>>
             /\ req[r].todo = <<c4>>
    <2>0. Pending(r) = c4 /\ Tail(req[r].todo) = <<>>
      BY <1>6 DEF Pending
    <2>1. Pending(r).call = "store_binding" /\ Pending(r).app = a
      BY <1>1, <2>0 DEF StoreBinding
    <2>2. PICK e : e = [to |-> a, custom |-> FALSE]
      OBVIOUS
    <2>3. /\ Went(r, <<>>) /\ location' = location /\ app' = a
          /\ entries' = [entries EXCEPT ![Root] = Append(entries[Root], e)]
      BY <2>0, <2>1, <2>2, OnStore
    <2>4. entries'[Root] = <<e>>
      BY <1>2, <1>6, <2>3
    <2>5. Len(<<e>>) = 1 /\ <<e>> # <<>> /\ Head(<<e>>) = e /\ ~e.custom /\ e.to = a
      BY <2>2
    <2>6. Meant(e) = Proxy(a, Default)
      BY <2>5 DEF Meant
    <2> QED BY <1>6, <2>3, <2>4, <2>5, <2>6 DEF Agrees
  <1> QED BY <1>1, <1>3, <1>4, <1>5, <1>6

LEMMA UnbindingSteps ==
    ASSUME TypeInv, NEW r \in Requests, Busy(r), Effect(r), req[r].path = Root,
           UnbindingOf(req[r].todo, entries[Root], location[Root], app)
    PROVE  \/ Raised(r)
           \/ \E t : /\ t # <<>> /\ Went(r, t)
                     /\ UnbindingOf(t, entries'[Root], location'[Root], app')
           \/ Went(r, <<>>) /\ Agrees(Root)'
  <1>1. PICK l, c1, c2, c3 :
           /\ l.call \in Ups \cup {"parse_none"} /\ c1 = Pull(Root, TRUE)
           /\ c2 = SetApp(Nothing) /\ c3 = Put(Root, Plain("not_bound"))
           /\ \/ req[r].todo = <<c1, c2, c3, l>>
              \/ entries[Root] = <<>> /\ req[r].todo = <<c2, c3, l>>
              \/ entries[Root] = <<>> /\ app = Nothing /\ req[r].todo = <<c3, l>>
              \/ /\ entries[Root] = <<>> /\ app = Nothing
                 /\ location[Root] = Plain("not_bound") /\ req[r].todo = <<l>>
    BY DEF UnbindingOf
  <1>2. /\ entries \in [Paths -> Seq(Entry)] /\ location \in [Paths -> Location]
        /\ Root \in Paths
    BY AddressTypes DEF TypeInv, TypeOK
  <1> DEFINE Goal ==
          \E t : t # <<>> /\ Went(r, t) /\ UnbindingOf(t, entries'[Root], location'[Root], app')
  <1>3. CASE req[r].todo = <<c1, c2, c3, l>>
    <2>0. Pending(r) = c1 /\ Tail(req[r].todo) = <<c2, c3, l>>
      BY <1>3 DEF Pending
    <2>1. Pending(r).call = "pull"
      BY <1>1, <2>0 DEF Pull
    <2>2. \/ Raised(r)
          \/ Went(r, <<c2, c3, l>>) /\ entries' = [entries EXCEPT ![Root] = <<>>]
      BY <2>0, <2>1, OnPull
    <2>3. entries' = [entries EXCEPT ![Root] = <<>>] => entries'[Root] = <<>>
      BY <1>2
    <2>4. entries'[Root] = <<>> =>
              UnbindingOf(<<c2, c3, l>>, entries'[Root], location'[Root], app')
      BY <1>1 DEF UnbindingOf
    <2> QED BY <2>2, <2>3, <2>4
  <1>4. CASE entries[Root] = <<>> /\ req[r].todo = <<c2, c3, l>>
    <2>0. Pending(r) = c2 /\ Tail(req[r].todo) = <<c3, l>>
      BY <1>4 DEF Pending
    <2>1. Pending(r).call = "set_app" /\ Pending(r).app = Nothing
      BY <1>1, <2>0 DEF SetApp
    <2>2. Went(r, <<c3, l>>) /\ entries' = entries /\ app' = Nothing
      BY <2>0, <2>1, OnSetApp
    <2>3. UnbindingOf(<<c3, l>>, entries'[Root], location'[Root], app')
      BY <1>1, <1>4, <2>2 DEF UnbindingOf
    <2> QED BY <2>2, <2>3
  <1>5. CASE entries[Root] = <<>> /\ app = Nothing /\ req[r].todo = <<c3, l>>
    <2>0. Pending(r) = c3 /\ Tail(req[r].todo) = <<l>>
      BY <1>5 DEF Pending
    <2>1. Pending(r).call = "put" /\ Pending(r).location = Plain("not_bound")
      BY <1>1, <2>0 DEF Put
    <2>2. /\ Went(r, <<l>>) /\ entries' = entries /\ app' = app
          /\ location' = [location EXCEPT ![Root] = Plain("not_bound")]
      BY <2>0, <2>1, OnPut
    <2>3. location'[Root] = Plain("not_bound")
      BY <1>2, <2>2
    <2>4. UnbindingOf(<<l>>, entries'[Root], location'[Root], app')
      BY <1>1, <1>5, <2>2, <2>3 DEF UnbindingOf
    <2> QED BY <2>2, <2>4
  <1>6. CASE /\ entries[Root] = <<>> /\ app = Nothing /\ location[Root] = Plain("not_bound")
             /\ req[r].todo = <<l>>
    <2>0. Pending(r) = l /\ Tail(req[r].todo) = <<>>
      BY <1>6 DEF Pending
    <2>1. CASE l.call = "parse_none"
      BY <2>0, <2>1, OnParseNone
    <2>2. CASE l.call \in Ups
      <3>1. /\ app' = app /\ entries' = entries /\ location' = location
            /\ \/ Went(r, <<>>)
               \/ \E c : c.call \in Ups /\ Went(r, <<c>> \o <<>>)
        BY <2>0, <2>2, OnUps
      <3>2. Plain("not_bound").kind = "not_bound"
        BY DEF Plain
      <3>3. Agrees(Root)'
        BY <1>6, <3>1, <3>2 DEF Agrees
      <3>4. ASSUME NEW c, c.call \in Ups, Went(r, <<c>> \o <<>>)
            PROVE  Goal
        <4>1. Went(r, <<c>>)
          BY <3>4, Join10
        <4>2. UnbindingOf(<<c>>, entries'[Root], location'[Root], app')
          BY <1>1, <1>6, <3>1, <3>4 DEF UnbindingOf
        <4> QED BY <4>1, <4>2
      <3> QED BY <3>1, <3>3, <3>4
    <2> QED BY <1>1, <2>1, <2>2
  <1> QED BY <1>1, <1>3, <1>4, <1>5, <1>6
-----------------------------------------------------------------------------

LEMMA NamingSteps ==
    ASSUME TypeInv, NEW r \in Requests, Busy(r), Effect(r), req[r].path = Root,
           Naming(req[r].todo), Agrees(Root) /\ CustomRoot
    PROVE  Went(r, <<>>) /\ Agrees(Root)'
  <1>1. PICK a, c1 : c1 = SetApp(a) /\ req[r].todo = <<c1>>
    BY DEF Naming
  <1>2. Pending(r) = c1 /\ Tail(req[r].todo) = <<>>
    BY <1>1 DEF Pending
  <1>3. Pending(r).call = "set_app"
    BY <1>1, <1>2 DEF SetApp
  <1>4. Went(r, <<>>) /\ UNCHANGED <<entries, location, upstream>>
    BY <1>2, <1>3, OnSetApp
  <1>5. PICK s \in Seq(Entry) : s = entries[Root]
    BY AddressTypes DEF TypeInv, TypeOK
  <1>6. PICK i \in DOMAIN s : s[i].custom
    BY <1>5, Zenon DEF CustomRoot, ToSet
  <1>7. Len(s) <= 1
    BY <1>5, Zenon DEF Agrees
  <1>8. s # <<>> /\ Head(s).custom
    <2>1. DOMAIN s = 1 .. Len(s) /\ Len(s) \in Nat
      BY LenProperties
    <2>2. i = 1 /\ Len(s) = 1
      BY <1>6, <1>7, <2>1
    <2>3. s # <<>>
      <3>1. s = <<>> => Len(s) = 0
        BY EmptySeq
      <3> QED BY <2>2, <3>1
    <2>4. Head(s) = s[1]
      BY <2>3
    <2> QED BY <1>6, <2>2, <2>3, <2>4
  <1> QED BY <1>4, <1>5, <1>8 DEF Agrees

(* A request works on its own path alone, and on the app when that is "/". *)
Elsewhere(p) ==
    /\ \A q \in Paths \ {p} : entries'[q] = entries[q] /\ location'[q] = location[q]
    /\ p # Root => app' = app

LEMMA WorksOnItsPath ==
    ASSUME TypeInv, NEW r \in Requests, Busy(r), Effect(r)
    PROVE  Elsewhere(req[r].path)
  <1>1. PICK p, c : p = req[r].path /\ c = Pending(r)
    OBVIOUS
  <1>2. p \in Paths /\ c \in CallsOf(p)
    BY <1>1, BusyPending
  <1>3. c.call \in {"store_binding", "set_app"} => p = Root
    BY <1>2, Parameters
  <1>4. entries \in [Paths -> Seq(Entry)] /\ location \in [Paths -> Location]
    BY DEF TypeInv, TypeOK
  <1>5. /\ \/ UNCHANGED entries
           \/ \E s : entries' = [entries EXCEPT ![p] = s]
        /\ \/ UNCHANGED location
           \/ \E l : location' = [location EXCEPT ![p] = l]
        /\ p # Root => app' = app
    BY <1>1, <1>3 DEF Effect, Raise, docVars, consulVars
  <1> QED BY <1>1, <1>2, <1>4, <1>5 DEF Elsewhere

(* What a request that runs alone does in one call: it gives up, comes one *)
(* step further, or is done and leaves its path in order.                  *)
Turns(r, p) ==
    \/ Raised(r)
    \/ \E t : t # <<>> /\ Went(r, t) /\ Progress(r)'
    \/ Went(r, <<>>) /\ Agrees(p)'
    \/ Went(r, <<>>) /\ ~req[r].whole /\ p \in torn

LEMMA ProgressSteps ==
    ASSUME TypeInv, NEW r \in Requests, Busy(r), Effect(r), NEW p \in Paths, p = req[r].path,
           Progress(r)
    PROVE  Turns(r, p)
  <1>1. ASSUME NEW t, t # <<>>, Went(r, t), req[r].whole,
               ProgressOf(t, p, entries'[p], location'[p], app')
        PROVE  Turns(r, p)
    <2>1. req'[r].todo = t /\ req'[r].path = p /\ req'[r].whole = req[r].whole
      BY <1>1 DEF Went
    <2>2. Progress(r)'
      BY <1>1, <2>1 DEF Progress
    <2> QED BY <1>1, <2>2 DEF Turns
  <1>2. CASE ~req[r].whole
    <2>1. /\ p = Root /\ Naming(req[r].todo)
          /\ Root \notin torn => Agrees(Root) /\ CustomRoot
      BY <1>2 DEF Progress
    <2>2. CASE Root \notin torn
      BY <2>1, <2>2, NamingSteps DEF Turns
    <2>3. CASE Root \in torn
      <3>1. PICK a, c1 : c1 = SetApp(a) /\ req[r].todo = <<c1>>
        BY <2>1 DEF Naming
      <3>2. Pending(r) = c1 /\ Tail(req[r].todo) = <<>>
        BY <3>1 DEF Pending
      <3>3. Pending(r).call = "set_app"
        BY <3>1, <3>2 DEF SetApp
      <3>4. Went(r, <<>>)
        BY <3>2, <3>3, OnSetApp
      <3> QED BY <1>2, <2>1, <2>3, <3>4 DEF Turns
    <2> QED BY <2>2, <2>3
  <1>3. CASE req[r].whole
    <2>0. ProgressOf(req[r].todo, p, entries[p], location[p], app)
      BY <1>3 DEF Progress
    <2>1. CASE AddingOf(req[r].todo, p, entries[p])
      <3>1. \/ \E t : t # <<>> /\ Went(r, t) /\ AddingOf(t, p, entries'[p])
            \/ Went(r, <<>>) /\ Agrees(p)'
        BY <2>1, AddingSteps
      <3>2. ASSUME NEW t, t # <<>>, Went(r, t), AddingOf(t, p, entries'[p])
            PROVE  Turns(r, p)
        BY <1>1, <1>3, <3>2 DEF ProgressOf
      <3> QED BY <3>1, <3>2 DEF Turns
    <2>2. CASE p # Root /\ RemovingOf(req[r].todo, p, entries[p])
      <3>1. \/ Raised(r)
            \/ \E t : t # <<>> /\ Went(r, t) /\ RemovingOf(t, p, entries'[p])
            \/ Went(r, <<>>) /\ Agrees(p)'
        BY <2>2, RemovingSteps
      <3>2. ASSUME NEW t, t # <<>>, Went(r, t), RemovingOf(t, p, entries'[p])
            PROVE  Turns(r, p)
        BY <1>1, <1>3, <2>2, <3>2 DEF ProgressOf
      <3> QED BY <3>1, <3>2 DEF Turns
    <2>3. CASE p = Root /\ BindingOf(req[r].todo, entries[p], location[p])
      <3>1. \/ \E t : t # <<>> /\ Went(r, t) /\ BindingOf(t, entries'[p], location'[p])
            \/ Went(r, <<>>) /\ Agrees(p)'
        BY <2>3, BindingSteps
      <3>2. ASSUME NEW t, t # <<>>, Went(r, t), BindingOf(t, entries'[p], location'[p])
            PROVE  Turns(r, p)
        BY <1>1, <1>3, <2>3, <3>2 DEF ProgressOf
      <3> QED BY <3>1, <3>2 DEF Turns
    <2>4. CASE p = Root /\ UnbindingOf(req[r].todo, entries[p], location[p], app)
      <3>1. \/ Raised(r)
            \/ \E t : t # <<>> /\ Went(r, t) /\ UnbindingOf(t, entries'[p], location'[p], app')
            \/ Went(r, <<>>) /\ Agrees(p)'
        BY <2>4, UnbindingSteps
      <3>2. ASSUME NEW t, t # <<>>, Went(r, t),
                   UnbindingOf(t, entries'[p], location'[p], app')
            PROVE  Turns(r, p)
        BY <1>1, <1>3, <2>4, <3>2 DEF ProgressOf
      <3> QED BY <3>1, <3>2 DEF Turns
    <2> QED BY <2>0, <2>1, <2>2, <2>3, <2>4 DEF ProgressOf
  <1> QED BY <1>2, <1>3
-----------------------------------------------------------------------------

LEMMA EffectGoes ==
    ASSUME TypeInv, NEW r \in Requests, Busy(r), Effect(r)
    PROVE  Raised(r) \/ \E t : Went(r, t)
  <1>1. Pending(r) \in CallsOf(req[r].path)
    BY BusyPending
  <1>2. Pending(r).call \in {"pull", "push", "put", "delete", "store_binding", "set_app", "list",
                             "save", "parse_none", "ready", "list_routes", "find_binding"}
    BY <1>1, Parameters
  <1>3. Pending(r).call \notin {"ready", "list_routes", "find_binding"}
    BY DEF Effect
  <1>4. CASE Pending(r).call = "pull"
    BY <1>4, OnPull
  <1>5. CASE Pending(r).call = "push"
    BY <1>5, OnPush
  <1>6. CASE Pending(r).call = "put"
    BY <1>6, OnPut
  <1>7. CASE Pending(r).call = "delete"
    BY <1>7, OnDelete
  <1>8. CASE Pending(r).call = "store_binding"
    BY <1>8, OnStore
  <1>9. CASE Pending(r).call = "set_app"
    BY <1>9, OnSetApp
  <1>10. CASE Pending(r).call = "list"
    BY <1>10, OnList
  <1>11. CASE Pending(r).call = "save"
    BY <1>11, OnSave
  <1>12. CASE Pending(r).call = "parse_none"
    BY <1>12, OnParseNone
  <1> QED BY <1>2, <1>3, <1>4, <1>5, <1>6, <1>7, <1>8, <1>9, <1>10, <1>11, <1>12

(* A request whose own path nobody touches keeps its place. *)
LEMMA ProgressKept ==
    ASSUME NEW q \in Requests, Progress(q),
           req'[q].path = req[q].path, req'[q].whole = req[q].whole,
           req'[q].todo = req[q].todo,
           entries'[req[q].path] = entries[req[q].path],
           location'[req[q].path] = location[req[q].path], req[q].path = Root => app' = app,
           Root \in torn /\ req[q].path = Root => Root \in torn'
    PROVE  Progress(q)'
  <1>1. PICK p, es, loc : p = req[q].path /\ es = entries[p] /\ loc = location[p]
    OBVIOUS
  <1>2. CASE req[q].whole
    <2>1. ProgressOf(req[q].todo, p, es, loc, app)
      BY <1>1, <1>2 DEF Progress
    <2>2. ProgressOf(req[q].todo, p, es, loc, app')
      BY <1>1, <2>1 DEF ProgressOf
    <2> QED BY <1>1, <1>2, <2>2 DEF Progress
  <1>3. CASE ~req[q].whole
    <2>1. /\ p = Root /\ Naming(req[q].todo)
          /\ Root \notin torn => Agrees(Root) /\ CustomRoot
      BY <1>1, <1>3 DEF Progress
    <2>2. Agrees(Root) /\ CustomRoot => Agrees(Root)' /\ CustomRoot'
      BY <1>1, <2>1 DEF Agrees, CustomRoot
    <2> QED BY <1>1, <1>3, <2>1, <2>2 DEF Progress
  <1> QED BY <1>2, <1>3

LEMMA AgreesKept ==
    ASSUME NEW p \in Paths, Agrees(p), entries'[p] = entries[p], location'[p] = location[p],
           p = Root => app' = app
    PROVE  Agrees(p)'
  BY DEF Agrees

(* Request r moves, and leaves every other path as it was. *)
LEMMA OneMoves ==
    ASSUME RoutesInv, NEW r \in Requests, Busy(r), NEW p \in Paths, p = req[r].path,
           \A q \in Requests \ {r} : req'[q] = req[q] /\ (Busy(q) => req[q].path \in Paths),
           Elsewhere(p),
           \A x \in Paths \ {p} : x \in torn' <=> x \in torn,
           p \in torn /\ p \notin torn' => req[r].clean,
           \/ req'[r].todo = <<>> /\ (p \in torn' \/ Agrees(p)')
           \/ /\ req'[r].todo # <<>> /\ req'[r].path = p
              /\ IF req'[r].clean THEN req[r].clean /\ Progress(r)' ELSE p \in torn'
    PROVE  RoutesInv'
  <1>1. ASSUME NEW q \in Requests, Busy(q)'
        PROVE  (IF req[q].clean THEN Sole(q) /\ Progress(q) ELSE req[q].path \in torn)'
    <2>1. CASE q = r
      <3>1. req'[r].path = p /\ IF req'[r].clean THEN req[r].clean /\ Progress(r)' ELSE p \in torn'
        BY <1>1, <2>1 DEF Busy
      <3>2. req'[r].clean => Sole(r)'
        BY <3>1 DEF RoutesInv, Sole, Busy
      <3> QED BY <2>1, <3>1, <3>2
    <2>2. CASE q # r
      <3>1. req'[q] = req[q] /\ Busy(q) /\ req[q].path \in Paths
        BY <1>1, <2>2 DEF Busy
      <3>2. CASE req[q].clean
        <4>1. Sole(q) /\ Progress(q)
          BY <3>1, <3>2 DEF RoutesInv
        <4>2. req[q].path # p
          BY <2>2, <4>1 DEF Sole
        <4>3. Progress(q)'
          BY <3>1, <4>1, <4>2, ProgressKept DEF Elsewhere
        <4>4. Sole(q)'
          BY <2>2, <3>1, <4>1, <4>2 DEF Sole, Busy
        <4> QED BY <3>1, <3>2, <4>3, <4>4
      <3>3. CASE ~req[q].clean
        <4>1. req[q].path \in torn
          BY <3>1, <3>3 DEF RoutesInv
        <4>2. req[r].clean => req[q].path # p
          BY <2>2, <3>1 DEF RoutesInv, Sole
        <4> QED BY <3>1, <3>3, <4>1, <4>2
      <3> QED BY <3>2, <3>3
    <2> QED BY <2>1, <2>2
  <1>2. ASSUME NEW x \in Paths
        PROVE  InOrder(x)'
    <2>1. CASE x = p
      BY <2>1 DEF InOrder, Busy
    <2>2. CASE x # p
      <3>1. SUFFICES ASSUME x \notin torn', \A q \in Requests : Busy(q)' => req'[q].path # x
                     PROVE  Agrees(x)'
        BY DEF InOrder
      <3>2. \A q \in Requests : Busy(q) => req[q].path # x
        BY <2>2, <3>1 DEF Busy
      <3>3. Agrees(x)
        BY <2>2, <3>1, <3>2 DEF RoutesInv, InOrder
      <3> QED BY <2>2, <3>3, AgreesKept DEF Elsewhere
    <2> QED BY <2>1, <2>2
  <1> QED BY <1>1, <1>2 DEF RoutesInv

LEMMA OthersPaths ==
    ASSUME TypeInv, NEW r \in Requests
    PROVE  \A q \in Requests \ {r} : Busy(q) => req[q].path \in Paths
  BY BusyPending

LEMMA RaisedKeeps ==
    ASSUME TypeInv, RoutesInv, NEW r \in Requests, Busy(r), Raised(r)
    PROVE  RoutesInv'
  <1>1. PICK p \in Paths : p = req[r].path
    BY BusyPending
  <1>2. /\ \A q \in Requests \ {r} : req'[q] = req[q] /\ (Busy(q) => req[q].path \in Paths)
        /\ req'[r].todo = <<>> /\ torn' = torn \cup {p} /\ Elsewhere(p)
    BY <1>1, OthersPaths DEF Raised, Elsewhere
  <1>3. p \in torn' /\ \A x \in Paths \ {p} : x \in torn' <=> x \in torn
    BY <1>2
  <1> QED BY <1>1, <1>2, <1>3, OneMoves

LEMMA EffectKeeps ==
    ASSUME TypeInv, RoutesInv, NEW r \in Requests, Busy(r), Effect(r)
    PROVE  RoutesInv'
  <1>1. PICK p \in Paths : p = req[r].path
    BY BusyPending
  <1>2. Elsewhere(p)
    BY <1>1, WorksOnItsPath
  <1>3. ASSUME NEW t, Went(r, t)
        PROVE  /\ \A q \in Requests \ {r} : req'[q] = req[q] /\ (Busy(q) => req[q].path \in Paths)
               /\ req'[r].todo = t
               /\ \A x \in Paths \ {p} : x \in torn' <=> x \in torn
               /\ p \in torn /\ p \notin torn' => req[r].clean
               /\ t # <<>> => req'[r].path = p /\ req'[r].clean = req[r].clean
    <2>1. \A q \in Requests \ {r} : req'[q] = req[q] /\ (Busy(q) => req[q].path \in Paths)
      BY <1>3, OthersPaths DEF Went
    <2>2. /\ req'[r].todo = t
          /\ t # <<>> => /\ req'[r].path = p /\ req'[r].clean = req[r].clean
                         /\ torn' = torn
          /\ t = <<>> => torn' = IF req[r].whole /\ req[r].clean THEN torn \ {p} ELSE torn
      BY <1>1, <1>3 DEF Went
    <2>3. /\ \A x \in Paths \ {p} : x \in torn' <=> x \in torn
          /\ p \in torn /\ p \notin torn' => req[r].clean
      BY <2>2
    <2> QED BY <2>1, <2>2, <2>3
  <1>4. CASE req[r].clean
    <2>1. Turns(r, p)
      BY <1>1, <1>4, ProgressSteps DEF RoutesInv
    <2>2. CASE Raised(r)
      BY <2>2, RaisedKeeps
    <2>3. ASSUME NEW t, t # <<>>, Went(r, t), Progress(r)'
          PROVE  RoutesInv'
      <3>1. /\ \A q \in Requests \ {r} :
                    req'[q] = req[q] /\ (Busy(q) => req[q].path \in Paths)
            /\ req'[r].todo = t /\ req'[r].path = p /\ req'[r].clean = req[r].clean
            /\ \A x \in Paths \ {p} : x \in torn' <=> x \in torn
        BY <1>3, <2>3, Zenon
      <3>2. p \in torn /\ p \notin torn' => req[r].clean
        BY <1>4
      <3>3. IF req'[r].clean THEN req[r].clean /\ Progress(r)' ELSE p \in torn'
        BY <1>4, <2>3, <3>1
      <3>4. req'[r].todo # <<>>
        BY <2>3, <3>1
      <3> QED BY <1>1, <1>2, <3>1, <3>2, <3>3, <3>4, OneMoves
    <2>4. CASE Went(r, <<>>) /\ Agrees(p)'
      BY <1>1, <1>2, <1>3, <2>4, OneMoves
    <2>5. CASE Went(r, <<>>) /\ ~req[r].whole /\ p \in torn
      <3>1. torn' = torn
        BY <1>1, <2>5 DEF Went
      <3> QED BY <1>1, <1>2, <1>3, <2>5, <3>1, OneMoves
    <2> QED BY <2>1, <2>2, <2>3, <2>4, <2>5 DEF Turns
  <1>5. CASE ~req[r].clean
    <2>1. p \in torn
      BY <1>1, <1>5 DEF RoutesInv
    <2>2. CASE Raised(r)
      BY <2>2, RaisedKeeps
    <2>3. ASSUME NEW t, Went(r, t)
          PROVE  RoutesInv'
      <3>1. p \in torn'
        BY <1>3, <1>5, <2>1, <2>3
      <3> QED BY <1>1, <1>2, <1>3, <1>5, <2>3, <3>1, OneMoves
    <2> QED BY <2>2, <2>3, EffectGoes
  <1> QED BY <1>4, <1>5

LEMMA SwallowKeeps ==
    ASSUME TypeInv, RoutesInv, NEW r \in Requests, SwallowedFailure(r)
    PROVE  RoutesInv'
  <1>1. Busy(r)
    BY Swallows
  <1>2. PICK p \in Paths : p = req[r].path
    BY <1>1, BusyPending
  <1>3. /\ \A q \in Requests \ {r} : req'[q] = req[q] /\ (Busy(q) => req[q].path \in Paths)
        /\ req'[r].path = p /\ ~req'[r].clean /\ torn' = torn \cup {p}
        /\ Elsewhere(p)
    BY <1>2, OthersPaths, Swallows DEF Elsewhere
  <1>4. p \in torn' /\ \A x \in Paths \ {p} : x \in torn' <=> x \in torn
    BY <1>3
  <1> QED BY <1>1, <1>2, <1>3, <1>4, OneMoves

LEMMA BeginKeeps ==
    ASSUME TypeInv, RoutesInv, NEW r \in Requests, NEW p \in Paths, NEW whole \in BOOLEAN,
           NEW calls \in Seq(CallsOf(p)), BeginAmong(TRUE, r, p, whole, calls), calls # <<>>,
           whole => ProgressOf(calls, p, entries[p], location[p], app),
           ~whole => p = Root /\ Naming(calls) /\ CustomRoot
    PROVE  RoutesInv'
  <1>1. /\ ~Busy(r)
        /\ req'[r].path = p /\ req'[r].whole = whole /\ req'[r].todo = calls
        /\ req'[r].clean <=> Rivals(p) = {}
        /\ \A q \in Requests \ {r} :
              /\ req'[q].path = req[q].path /\ req'[q].whole = req[q].whole
              /\ req'[q].todo = req[q].todo
              /\ req'[q].clean <=> req[q].clean /\ q \notin Rivals(p)
        /\ UNCHANGED <<app, entries, location, upstream, faults>>
    <2>1. Begun(TRUE, r, p, whole, calls)
      BY Begins
    <2> QED BY <2>1 DEF Begun
  <1>2. /\ torn' = torn \/ torn' = torn \cup {p}
        /\ Rivals(p) # {} => p \in torn'
    BY DEF BeginAmong, Rivals
  <1>3. torn \subseteq torn' /\ \A x \in Paths \ {p} : x \in torn' <=> x \in torn
    BY <1>2
  <1>4. ASSUME NEW q \in Requests, Busy(q)'
        PROVE  (IF req[q].clean THEN Sole(q) /\ Progress(q) ELSE req[q].path \in torn)'
    <2>1. CASE q = r /\ Rivals(p) # {}
      BY <1>1, <1>2, <2>1
    <2>2. CASE q = r /\ Rivals(p) = {}
      <3>1. \A o \in Requests : Busy(o) => req[o].path # p
        BY <2>2 DEF Rivals
      <3>2. Sole(r)'
        BY <1>1, <3>1 DEF Sole, Busy
      <3>3. CASE whole
        BY <1>1, <2>2, <3>2, <3>3 DEF Progress
      <3>4. CASE ~whole
        <4>1. p \notin torn => Agrees(p)
          BY <3>1 DEF RoutesInv, InOrder
        <4>2. Root \notin torn' => Agrees(Root)' /\ CustomRoot'
          BY <1>1, <1>3, <3>4, <4>1, AgreesKept DEF CustomRoot
        <4>3. Progress(r)'
          BY <1>1, <3>4, <4>2 DEF Progress
        <4> QED BY <1>1, <2>2, <3>2, <4>3
      <3> QED BY <3>3, <3>4
    <2>3. CASE q # r
      <3>1. Busy(q)
        BY <1>1, <1>4, <2>3 DEF Busy
      <3>2. CASE req'[q].clean
        <4>1. Sole(q) /\ Progress(q) /\ req[q].path # p
          BY <1>1, <2>3, <3>1, <3>2 DEF RoutesInv, Rivals
        <4>0. /\ req'[q].path = req[q].path /\ req'[q].whole = req[q].whole
              /\ req'[q].todo = req[q].todo
              /\ entries' = entries /\ location' = location /\ app' = app
              /\ Root \in torn => Root \in torn'
          BY <1>1, <1>3, <2>3
        <4>2. Progress(q)'
          BY <4>0, <4>1, ProgressKept
        <4>3. Sole(q)'
          BY <1>1, <2>3, <4>1 DEF Sole, Busy
        <4> QED BY <3>2, <4>2, <4>3
      <3>3. CASE ~req'[q].clean
        <4>0. req[q].clean => q \in Rivals(p)
          BY <1>1, <2>3, <3>3
        <4>1. req[q].path \in torn \/ (req[q].path = p /\ Rivals(p) # {})
          BY <3>1, <4>0 DEF RoutesInv, Rivals
        <4>2. req[q].path \in torn'
          BY <1>2, <4>1
        <4> QED BY <1>1, <2>3, <3>3, <4>2
      <3> QED BY <3>2, <3>3
    <2> QED BY <2>1, <2>2, <2>3
  <1>5. ASSUME NEW x \in Paths
        PROVE  InOrder(x)'
    <2>1. CASE x = p
      BY <1>1, <2>1 DEF InOrder, Busy
    <2>2. CASE x # p
      <3>1. SUFFICES ASSUME x \notin torn', \A q \in Requests : Busy(q)' => req'[q].path # x
                     PROVE  Agrees(x)'
        BY DEF InOrder
      <3>2. \A q \in Requests : Busy(q) => req[q].path # x
        BY <1>1, <2>2, <3>1 DEF Busy
      <3>3. Agrees(x)
        BY <1>3, <2>2, <3>1, <3>2 DEF RoutesInv, InOrder
      <3> QED BY <1>1, <3>3, AgreesKept
    <2> QED BY <2>1, <2>2
  <1> QED BY <1>4, <1>5 DEF RoutesInv

LEMMA UpsCalls ==
    /\ \A c, u, ss : List(c, u, ss).call \in Ups
    /\ Plainly("parse_none").call = "parse_none"
  BY DEF List, Plainly, Ups

LEMMA BindProgress ==
    ASSUME NEW a \in AppHosts
    PROVE  ProgressOf(BindTodo(a), Root, entries[Root], location[Root], app)
  <1>1. PICK l : l = List("add", Default, {HostOf(a)}) /\ l.call \in Ups
    BY UpsCalls
  <1>2. BindingOf(BindTodo(a), entries[Root], location[Root])
    BY <1>1 DEF BindingOf, BindTodo
  <1> QED BY <1>2 DEF ProgressOf

LEMMA UnbindProgress ==
    ProgressOf(UnbindCalls, Root, entries[Root], location[Root], app)
  <1>1. PICK l : l = TakeAppOut /\ l.call \in Ups \cup {"parse_none"}
    BY UpsCalls DEF TakeAppOut
  <1>2. UnbindingOf(UnbindCalls, entries[Root], location[Root], app)
    BY <1>1 DEF UnbindingOf, UnbindCalls
  <1> QED BY <1>2 DEF ProgressOf

LEMMA RouteProgress ==
    ASSUME NEW p \in Paths, NEW to \in Destinations \cup Contents
    PROVE  ProgressOf(RouteTodo(p, to), p, entries[p], location[p], app)
  <1>1. PICK e, l : e = Custom(to) /\ l = List("add", HostOf(to), {HostOf(to)}) /\ l.call \in Ups
    BY UpsCalls
  <1>2. e.custom /\ e.to = to /\ e = [to |-> to, custom |-> TRUE]
    BY <1>1 DEF Custom
  <1>3. CASE to \in Contents
    <2>1. Meant(e) = Content(to)
      BY <1>2, <1>3 DEF Meant
    <2>2. RouteTodo(p, to) = <<Pull(p, FALSE), Push(p, e), Put(p, Meant(e))>>
      BY <1>2, <1>3, <2>1 DEF RouteTodo
    <2>3. AddingOf(RouteTodo(p, to), p, entries[p])
      BY <1>1, <2>2 DEF AddingOf
    <2> QED BY <2>3 DEF ProgressOf
  <1>4. CASE to \notin Contents
    <2>1. Meant(e) = Proxy(to, HostOf(to))
      BY <1>2, <1>4 DEF Meant
    <2>2. RouteTodo(p, to) = <<Pull(p, FALSE), Push(p, e), l, Put(p, Meant(e))>>
      BY <1>1, <1>2, <1>4, <2>1 DEF RouteTodo
    <2>3. AddingOf(RouteTodo(p, to), p, entries[p])
      BY <1>1, <2>2 DEF AddingOf
    <2> QED BY <2>3 DEF ProgressOf
  <1> QED BY <1>3, <1>4

LEMMA DeleteProgress ==
    ASSUME NEW p \in Paths, p # Root, NEW to, NEW last \in BOOLEAN
    PROVE  ProgressOf(DeleteTodo(p, to, last), p, entries[p], location[p], app)
  <1>1. PICK l : l = List("remove", to, {ServerOf(to)}) /\ l.call \in Ups
    BY UpsCalls
  <1>2. RemovingOf(DeleteTodo(p, to, last), p, entries[p])
    BY <1>1 DEF RemovingOf, DeleteTodo
  <1> QED BY <1>2 DEF ProgressOf
-----------------------------------------------------------------------------

LEMMA RoutesInvInit ==
    Init => RoutesInv
  BY IdleTyped DEF Init, RoutesInv, InOrder, Agrees, Busy, Plain

LEMMA RoutesInvNext ==
    TypeInv /\ RoutesInv /\ [Next]_vars => RoutesInv'
  <1> SUFFICES ASSUME TypeInv, RoutesInv, [Next]_vars
               PROVE  RoutesInv'
    OBVIOUS
  <1>0. Root \in Paths
    BY AddressTypes
  <1>1. ASSUME NEW r \in Requests, NEW a \in AppHosts, Bind(r, a)
        PROVE  RoutesInv'
    <2>1. /\ \/ CustomRoot /\ BeginAmong(TRUE, r, Root, FALSE, <<SetApp(a)>>)
             \/ ~CustomRoot /\ BeginAmong(TRUE, r, Root, TRUE, BindTodo(a))
          /\ <<SetApp(a)>> \in Seq(CallsOf(Root)) /\ BindTodo(a) \in Seq(CallsOf(Root))
      BY <1>1, BindBegins
    <2>2. Naming(<<SetApp(a)>>) /\ <<SetApp(a)>> # <<>>
      BY DEF Naming
    <2>3. BindTodo(a) # <<>> /\ ProgressOf(BindTodo(a), Root, entries[Root], location[Root], app)
      BY BindProgress DEF BindTodo
    <2> QED BY <1>0, <2>1, <2>2, <2>3, BeginKeeps
  <1>2. ASSUME NEW r \in Requests, Unbind(r)
        PROVE  RoutesInv'
    <2>1. /\ \/ CustomRoot /\ BeginAmong(TRUE, r, Root, FALSE, <<SetApp(Nothing)>>)
             \/ ~CustomRoot /\ BeginAmong(TRUE, r, Root, TRUE, UnbindCalls)
          /\ <<SetApp(Nothing)>> \in Seq(CallsOf(Root)) /\ UnbindCalls \in Seq(CallsOf(Root))
      BY <1>2, UnbindBegins
    <2>2. Naming(<<SetApp(Nothing)>>) /\ <<SetApp(Nothing)>> # <<>>
      BY DEF Naming
    <2>3. UnbindCalls # <<>> /\ ProgressOf(UnbindCalls, Root, entries[Root], location[Root], app)
      BY UnbindProgress DEF UnbindCalls
    <2> QED BY <1>0, <2>1, <2>2, <2>3, BeginKeeps
  <1>3. ASSUME NEW r \in Requests, NEW p \in Paths, NEW to \in Destinations \cup Contents,
               AddRoute(r, p, to)
        PROVE  RoutesInv'
    <2>1. /\ BeginAmong(TRUE, r, p, TRUE, RouteTodo(p, to))
          /\ RouteTodo(p, to) \in Seq(CallsOf(p))
      BY <1>3, RouteBegins
    <2>2. RouteTodo(p, to) # <<>>
      BY DEF RouteTodo
    <2> QED BY <2>1, <2>2, RouteProgress, BeginKeeps
  <1>4. ASSUME NEW r \in Requests, NEW p \in Paths, DeleteRoute(r, p)
        PROVE  RoutesInv'
    <2>1. p # Root
      BY <1>4, DeleteBegins
    <2>2. PICK to \in Addresses \cup Contents, last \in BOOLEAN :
             /\ BeginAmong(TRUE, r, p, TRUE, DeleteTodo(p, to, last))
             /\ DeleteTodo(p, to, last) \in Seq(CallsOf(p))
      BY <1>4, DeleteBegins
    <2>3. DeleteTodo(p, to, last) # <<>>
      BY DEF DeleteTodo
    <2> QED BY <2>1, <2>2, <2>3, DeleteProgress, BeginKeeps
  <1>5. ASSUME NEW r \in Requests, RequestStep(r)
        PROVE  RoutesInv'
    BY <1>5, StepEffect, EffectKeeps
  <1>6. ASSUME NEW r \in Requests, RequestFails(r)
        PROVE  RoutesInv'
    BY <1>6, RaisesUp, RaisedKeeps DEF RequestFails
  <1>7. ASSUME NEW r \in Requests, SwallowedFailure(r)
        PROVE  RoutesInv'
    BY <1>7, SwallowKeeps
  <1>8. CASE UNCHANGED vars
    <2>1. /\ \A q \in Requests : Progress(q)' <=> Progress(q)
          /\ \A p \in Paths : Agrees(p)' <=> Agrees(p)
      BY <1>8 DEF vars, docVars, consulVars, Progress, Agrees, CustomRoot
    <2> QED BY <1>8, <2>1 DEF vars, RoutesInv, InOrder, Sole, Busy
  <1> QED BY <1>1, <1>2, <1>3, <1>4, <1>5, <1>6, <1>7, <1>8 DEF Next

LEMMA RoutesInvariant ==
    Spec => [](TypeInv /\ RoutesInv)
  BY TypeInvInit, TypeInvNext, RoutesInvInit, RoutesInvNext, PTL DEF Spec

LEMMA CustomHead ==
    ASSUME TypeInv, Agrees(Root), entries[Root] # <<>>, ~CustomRoot
    PROVE  ~Head(entries[Root]).custom
  <1>1. PICK s \in Seq(Entry) : s = entries[Root]
    BY AddressTypes DEF TypeInv, TypeOK
  <1>2. 1 \in DOMAIN s /\ Head(s) = s[1]
    <2>1. DOMAIN s = 1 .. Len(s) /\ Len(s) \in Nat /\ Len(s) # 0
      BY <1>1, LenProperties, EmptySeq
    <2> QED BY <1>1, <2>1
  <1>3. \A i \in DOMAIN s : ~s[i].custom
    BY <1>1, Zenon DEF CustomRoot, ToSet
  <1> QED BY <1>1, <1>2, <1>3

(* When nothing is under way, the binding document says of every path      *)
(* whose last write ran alone and without failure what the machines serve  *)
(* there, and names the app behind the root.                               *)
THEOREM RoutesAgreeAlways ==
    Spec => []RoutesAgree
  <1>1. TypeInv /\ RoutesInv => RoutesAgree
    <2> SUFFICES ASSUME TypeInv, RoutesInv, \A r \in Requests : ~Busy(r),
                        NEW p \in Paths, p \notin torn
                 PROVE  /\ Len(entries[p]) <= 1
                        /\ IF entries[p] = <<>>
                           THEN /\ location[p].kind \in {"none", "not_bound"}
                                /\ p = Root => app = Nothing
                           ELSE /\ location[p] = Meant(Head(entries[p]))
                                /\ p = Root /\ ~CustomRoot => app = Head(entries[p]).to
      BY DEF RoutesAgree
    <2>1. Agrees(p)
      BY DEF RoutesInv, InOrder
    <2>2. p = Root /\ entries[p] # <<>> /\ ~CustomRoot => ~Head(entries[p]).custom
      BY <2>1, CustomHead
    <2> QED BY <2>1, <2>2 DEF Agrees
  <1> QED BY <1>1, RoutesInvariant, PTL
-----------------------------------------------------------------------------
(***************************************************************************)
(* The app behind "/": BoundToOneApp.                                      *)
(***************************************************************************)

(* What is kept of a path other than "/": destinations of routes.          *)
RouteEntry == {e \in Entry : e.custom /\ e.to \in Destinations \cup Contents}
RouteCalls ==
    {c \in Calls : /\ c.call = "push" => c.entry \in RouteEntry
                   /\ c.call \in Ups => c.upstream # Default}

RouteInv ==
    /\ \A p \in Paths \ {Root} : entries[p] \in Seq(RouteEntry)
    /\ \A r \in Requests : Busy(r) /\ req[r].path # Root => req[r].todo \in Seq(RouteCalls)

(* An app is behind "/", alone; or at most one app is left in the upstream *)
(* and "/" goes elsewhere.                                                 *)
Hosted(a) == upstream[Default] = {HostOf(a)} /\ location[Root] = Proxy(a, Default)
Spared == location[Root].upstream # Default /\ \E h \in Addresses : upstream[Default] \subseteq {h}
Served == Spared \/ \E a \in AppHosts : Hosted(a)

Loose ==
    /\ app = Nothing /\ entries[Root] = <<>>
    /\ upstream[Default] = {} /\ location[Root].upstream # Default
Tied(a) == app = a /\ entries[Root] # <<>> /\ ~CustomRoot /\ Hosted(a)
Fixed == CustomRoot /\ Spared
OneRest == Loose \/ Fixed \/ \E a \in AppHosts : Tied(a)

Aside(l) == l.call \in Ups /\ l.upstream # Default
RoutingRoot(todo) ==
    \E l, e, put :
        /\ Aside(l) /\ e.custom /\ put.call = "put" /\ put.location.upstream # Default
        /\ \/ /\ Served
              /\ \/ todo = <<Pull(Root, FALSE), Push(Root, e), put>>
                 \/ todo = <<Pull(Root, FALSE), Push(Root, e), l, put>>
                 \/ todo = <<Push(Root, e), put>>
                 \/ todo = <<Push(Root, e), l, put>>
           \/ Served /\ CustomRoot /\ (todo = <<l, put>> \/ todo = <<put>>)

BindingRoot(todo) ==
    \E a \in AppHosts :
        LET put == Put(Root, Proxy(a, Default))
            pull == Pull(Root, FALSE)
        IN  \/ /\ Loose
               /\ \/ todo = <<List("add", Default, {HostOf(a)}), put, pull, StoreBinding(a)>>
                  \/ todo = <<Save(Default, {HostOf(a)}), put, pull, StoreBinding(a)>>
            \/ /\ entries[Root] = <<>> /\ location[Root].upstream # Default
               /\ upstream[Default] = {HostOf(a)} /\ todo = <<put, pull, StoreBinding(a)>>
            \/ /\ entries[Root] = <<>> /\ Hosted(a)
               /\ todo = <<pull, StoreBinding(a)>> \/ todo = <<StoreBinding(a)>>

UnbindingRoot(todo) ==
    LET pull == Pull(Root, TRUE)
        put == Put(Root, Plain("not_bound"))
    IN  \/ /\ Loose
           /\ \E l : /\ l.call = "parse_none"
                     /\ \/ todo = <<pull, SetApp(Nothing), put, l>>
                        \/ todo = <<SetApp(Nothing), put, l>>
                        \/ todo = <<put, l>> \/ todo = <<l>>
        \/ \E a \in AppHosts :
              LET take == List("remove", Default, {HostOf(a)})
              IN  \/ Tied(a) /\ todo = <<pull, SetApp(Nothing), put, take>>
                  \/ /\ entries[Root] = <<>> /\ Hosted(a)
                     /\ \/ todo = <<SetApp(Nothing), put, take>>
                        \/ app = Nothing /\ todo = <<put, take>>
                  \/ /\ entries[Root] = <<>> /\ app = Nothing
                     /\ location[Root] = Plain("not_bound")
                     /\ upstream[Default] = {HostOf(a)} /\ todo = <<take>>
        \/ /\ entries[Root] = <<>> /\ app = Nothing /\ location[Root] = Plain("not_bound")
           /\ \E h \in Addresses : upstream[Default] = {h}
           /\ todo = <<Save(Default, {})>>

NamingRoot(todo) == Fixed /\ \E a : todo = <<SetApp(a)>>

OneStage(r) ==
    IF req[r].path # Root THEN OneRest
    ELSE \/ RoutingRoot(req[r].todo) \/ BindingRoot(req[r].todo)
         \/ UnbindingRoot(req[r].todo) \/ NamingRoot(req[r].todo)

OneInv ==
    overlaps = 0 /\ faults = 0 =>
        /\ \A r, q \in Requests : Busy(r) /\ Busy(q) => r = q
        /\ (\A r \in Requests : ~Busy(r)) => OneRest
        /\ \A r \in Requests : Busy(r) => OneStage(r)

LEMMA AsidesStay ==
    ASSUME NEW p \in Paths \ {Root}, NEW to \in Destinations \cup Contents
    PROVE  /\ RouteTodo(p, to) \in Seq(CallsOf(p)) => RouteTodo(p, to) \in Seq(RouteCalls)
           /\ \A last \in BOOLEAN :
                 (last => to \notin Contents) /\ DeleteTodo(p, to, last) \in Seq(CallsOf(p)) =>
                     DeleteTodo(p, to, last) \in Seq(RouteCalls)
  <1>1. PICK e : e = [to |-> to, custom |-> TRUE]
    OBVIOUS
  <1>2. e \in RouteEntry
    BY <1>1, AddressTypes DEF RouteEntry, Entry
  <1>3. to \notin Contents => to \in Addresses /\ HostOf(to) \in Addresses /\ HostOf(to) # Default
    BY AddressTypes, ConstantsAssumption
  <1>4. to \notin Contents => to # Default /\ ServerOf(to) \in Addresses
    BY <1>3, AddressTypes, ConstantsAssumption
  <1>5. /\ Pull(p, FALSE) \in RouteCalls /\ Pull(p, TRUE) \in RouteCalls
        /\ Push(p, e) \in RouteCalls /\ Delete(p) \in RouteCalls
        /\ to \in Contents => Put(p, Content(to)) \in RouteCalls
        /\ to \notin Contents => /\ List("add", HostOf(to), {HostOf(to)}) \in RouteCalls
                                 /\ Put(p, Proxy(to, HostOf(to))) \in RouteCalls
                                 /\ List("remove", to, {ServerOf(to)}) \in RouteCalls
    <2>1. /\ Pull(p, FALSE) \in CallsOf(p) /\ Pull(p, TRUE) \in CallsOf(p)
          /\ Push(p, e) \in CallsOf(p) /\ Delete(p) \in CallsOf(p)
          /\ to \in Contents => Put(p, Content(to)) \in CallsOf(p)
          /\ to \notin Contents => /\ List("add", HostOf(to), {HostOf(to)}) \in CallsOf(p)
                                   /\ Put(p, Proxy(to, HostOf(to))) \in CallsOf(p)
                                   /\ List("remove", to, {ServerOf(to)}) \in CallsOf(p)
      BY <1>2, <1>3, <1>4, CallTypes, LocationTypes DEF RouteEntry
    <2> QED BY <1>2, <1>3, <1>4, <2>1
           DEF CallsOf, RouteCalls, Ups, Pull, Push, Delete, Put, List
  <1>6. RouteTodo(p, to) \in Seq(RouteCalls)
    <2>1. CASE to \in Contents
      <3>1. RouteTodo(p, to) = <<Pull(p, FALSE), Push(p, e), Put(p, Content(to))>>
        BY <1>1, <2>1 DEF RouteTodo
      <3>2. PICK x, y, z \in RouteCalls : RouteTodo(p, to) = <<x, y, z>>
        BY <1>5, <2>1, <3>1
      <3> QED BY <3>2
    <2>2. CASE to \notin Contents
      <3>1. RouteTodo(p, to) = <<Pull(p, FALSE), Push(p, e),
                                 List("add", HostOf(to), {HostOf(to)}), Put(p, Proxy(to, HostOf(to)))>>
        BY <1>1, <2>2 DEF RouteTodo
      <3>2. PICK w, x, y, z \in RouteCalls : RouteTodo(p, to) = <<w, x, y, z>>
        BY <1>5, <2>2, <3>1
      <3> QED BY <3>2
    <2> QED BY <2>1, <2>2
  <1>7. ASSUME NEW last \in BOOLEAN, last => to \notin Contents
        PROVE  DeleteTodo(p, to, last) \in Seq(RouteCalls)
    <2>1. CASE last
      <3>1. DeleteTodo(p, to, last) = <<List("remove", to, {ServerOf(to)}), Pull(p, TRUE), Delete(p)>>
        BY <2>1 DEF DeleteTodo
      <3>2. PICK x, y, z \in RouteCalls : DeleteTodo(p, to, last) = <<x, y, z>>
        BY <1>5, <1>7, <2>1, <3>1
      <3> QED BY <3>2
    <2>2. CASE ~last
      <3>1. DeleteTodo(p, to, last) = <<Pull(p, TRUE), Delete(p)>>
        BY <2>2 DEF DeleteTodo
      <3>2. PICK x, y \in RouteCalls : DeleteTodo(p, to, last) = <<x, y>>
        BY <1>5, <3>1
      <3> QED BY <3>2
    <2> QED BY <2>1, <2>2
  <1> QED BY <1>6, <1>7

LEMMA LastIsRoute ==
    ASSUME RouteInv, NEW p \in Paths \ {Root}, entries[p] # <<>>
    PROVE  Last(entries[p]).to \in Destinations \cup Contents
  <1>1. PICK s \in Seq(RouteEntry) : s = entries[p]
    BY DEF RouteInv
  <1>2. Len(s) \in 1..Len(s)
    BY <1>1, EmptySeq
  <1>3. s[Len(s)] \in RouteEntry
    BY <1>1, <1>2, ElementOfSeq
  <1> QED BY <1>1, <1>3 DEF Last, RouteEntry

LEMMA RouteInvInit ==
    Init => RouteInv
  BY IdleTyped DEF Init, RouteInv, Busy

(* A call of a request elsewhere than at "/" leaves the default upstream.  *)
LEMMA AsideCalls ==
    ASSUME TypeInv, RouteInv, NEW r \in Requests, Busy(r), req[r].path # Root
    PROVE  /\ Pending(r) \in RouteCalls /\ Tail(req[r].todo) \in Seq(RouteCalls)
           /\ Pending(r).call # "store_binding" /\ Pending(r).call # "set_app"
  <1>1. req[r].todo \in Seq(RouteCalls) /\ req[r].todo # <<>>
    BY DEF RouteInv, Busy
  <1>2. Head(req[r].todo) \in RouteCalls /\ Tail(req[r].todo) \in Seq(RouteCalls)
    BY <1>1, HeadTailProperties
  <1>3. Pending(r) \in CallsOf(req[r].path)
    BY BusyPending
  <1> QED BY <1>2, <1>3, Parameters DEF Pending

LEMMA RouteInvEffect ==
    ASSUME TypeInv, RouteInv, NEW r \in Requests, Busy(r), Effect(r)
    PROVE  RouteInv'
  <1>1. PICK p \in Paths : p = req[r].path
    BY BusyPending
  <1>2. PICK c, rest : c = Pending(r) /\ rest = Tail(req[r].todo)
    OBVIOUS
  <1>3. /\ c \in CallsOf(p) /\ entries \in [Paths -> Seq(Entry)]
        /\ p # Root => c \in RouteCalls /\ rest \in Seq(RouteCalls)
    BY <1>1, <1>2, BusyPending, AsideCalls DEF TypeInv, TypeOK
  <1>4. ASSUME NEW t, Went(r, t), p # Root => t \in Seq(RouteCalls)
        PROVE  \A q \in Requests : Busy(q)' /\ req'[q].path # Root =>
                   req'[q].todo \in Seq(RouteCalls)
    BY <1>1, <1>4 DEF Went, RouteInv, Busy
  <1>5. Raised(r) => \A q \in Requests : Busy(q)' /\ req'[q].path # Root =>
                         req'[q].todo \in Seq(RouteCalls)
    BY DEF Raised, RouteInv, Busy
  <1>6. CASE c.call = "list"
    <2>1. PICK x : x = Computed(c)
      OBVIOUS
    <2>2. Went(r, <<x>> \o rest) /\ entries' = entries /\ x \in CallsOf(p)
      BY <1>1, <1>2, <1>6, <2>1, OnList
    <2>3. x.call = "save" /\ x.upstream = c.upstream
      BY <2>1 DEF Computed, Save
    <2>4. p # Root => x \in RouteCalls
      BY <1>3, <1>6, <2>2, <2>3 DEF RouteCalls, Ups, CallsOf
    <2>5. p # Root => <<x>> \in Seq(RouteCalls)
      BY <2>4
    <2>6. p # Root => <<x>> \o rest \in Seq(RouteCalls)
      BY <1>3, <2>5, ConcatProperties
    <2> QED BY <1>4, <2>2, <2>6 DEF RouteInv
  <1>7. CASE c.call = "push"
    <2>1. Went(r, rest) /\ entries' = [entries EXCEPT ![p] = Append(entries[p], c.entry)]
      BY <1>1, <1>2, <1>7, OnPush
    <2>2. p # Root => entries[p] \in Seq(RouteEntry) /\ c.entry \in RouteEntry
      BY <1>3, <1>7 DEF RouteInv, RouteCalls
    <2>3. p # Root => Append(entries[p], c.entry) \in Seq(RouteEntry)
      BY <2>2, AppendProperties
    <2>4. \A q \in Paths \ {Root} : entries'[q] \in Seq(RouteEntry)
      BY <1>3, <2>1, <2>3 DEF RouteInv
    <2> QED BY <1>3, <1>4, <2>1, <2>4 DEF RouteInv
  <1>8. CASE c.call = "pull"
    <2>1. \/ Raised(r)
          \/ Went(r, rest) /\ entries' = [entries EXCEPT ![p] = <<>>]
      BY <1>1, <1>2, <1>8, OnPull
    <2>2. <<>> \in Seq(RouteEntry)
      OBVIOUS
    <2>3. entries' = [entries EXCEPT ![p] = <<>>] =>
              \A q \in Paths \ {Root} : entries'[q] \in Seq(RouteEntry)
      BY <1>3, <2>2 DEF RouteInv
    <2>4. Raised(r) => \A q \in Paths \ {Root} : entries'[q] \in Seq(RouteEntry)
      BY DEF RouteInv, Raised
    <2> QED BY <1>3, <1>4, <1>5, <2>1, <2>3, <2>4 DEF RouteInv
  <1>9. CASE c.call = "store_binding"
    <2>1. p = Root
      BY <1>3, <1>9, Parameters
    <2>2. Went(r, rest) /\ \A q \in Paths \ {Root} : entries'[q] = entries[q]
      BY <1>1, <1>2, <1>3, <1>9, <2>1, OnStore
    <2> QED BY <1>4, <2>1, <2>2 DEF RouteInv
  <1>10. CASE c.call \in {"put", "delete", "save", "set_app"}
    <2>1. Went(r, rest) /\ entries' = entries
      BY <1>2, <1>10, OnPut, OnDelete, OnSave, OnSetApp
    <2> QED BY <1>3, <1>4, <2>1 DEF RouteInv
  <1>11. CASE c.call = "parse_none"
    <2>1. Raised(r) /\ entries' = entries
      BY <1>2, <1>11, OnParseNone DEF Raised
    <2> QED BY <1>5, <2>1 DEF RouteInv
  <1>12. c.call \notin {"ready", "list_routes", "find_binding"}
    BY <1>2 DEF Effect
  <1> QED BY <1>3, <1>6, <1>7, <1>8, <1>9, <1>10, <1>11, <1>12, Parameters

LEMMA RouteInvBegin ==
    ASSUME TypeInv, RouteInv, NEW r \in Requests, NEW p \in Paths, NEW whole \in BOOLEAN,
           NEW calls \in Seq(CallsOf(p)), BeginAmong(TRUE, r, p, whole, calls),
           p # Root => calls \in Seq(RouteCalls)
    PROVE  RouteInv'
  <1>1. Begun(TRUE, r, p, whole, calls)
    BY Begins
  <1> QED BY <1>1 DEF Begun, RouteInv, Busy

LEMMA RouteInvNext ==
    TypeInv /\ RouteInv /\ [Next]_vars => RouteInv'
  <1> SUFFICES ASSUME TypeInv, RouteInv, [Next]_vars
               PROVE  RouteInv'
    OBVIOUS
  <1>0. Root \in Paths
    BY AddressTypes
  <1>1. ASSUME NEW r \in Requests, NEW a \in AppHosts, Bind(r, a)
        PROVE  RouteInv'
    BY <1>0, <1>1, BindBegins, RouteInvBegin
  <1>2. ASSUME NEW r \in Requests, Unbind(r)
        PROVE  RouteInv'
    BY <1>0, <1>2, UnbindBegins, RouteInvBegin
  <1>3. ASSUME NEW r \in Requests, NEW p \in Paths, NEW to \in Destinations \cup Contents,
               AddRoute(r, p, to)
        PROVE  RouteInv'
    <2>1. /\ BeginAmong(TRUE, r, p, TRUE, RouteTodo(p, to))
          /\ RouteTodo(p, to) \in Seq(CallsOf(p))
      BY <1>3, RouteBegins
    <2>2. p # Root => RouteTodo(p, to) \in Seq(RouteCalls)
      BY <2>1, AsidesStay
    <2> QED BY <2>1, <2>2, RouteInvBegin
  <1>4. ASSUME NEW r \in Requests, NEW p \in Paths, DeleteRoute(r, p)
        PROVE  RouteInv'
    <2>1. PICK to \in Addresses \cup Contents, last \in BOOLEAN :
             /\ to = Last(entries[p]).to
             /\ last <=> to \notin Contents /\ LastReference(to)
             /\ BeginAmong(TRUE, r, p, TRUE, DeleteTodo(p, to, last))
             /\ DeleteTodo(p, to, last) \in Seq(CallsOf(p))
      BY <1>4, DeleteBegins
    <2>2. p # Root /\ entries[p] # <<>>
      BY <1>4, DeleteBegins
    <2>3. to \in Destinations \cup Contents
      BY <2>1, <2>2, LastIsRoute
    <2>4. DeleteTodo(p, to, last) \in Seq(RouteCalls)
      BY <2>1, <2>2, <2>3, AsidesStay
    <2> QED BY <2>1, <2>4, RouteInvBegin
  <1>5. ASSUME NEW r \in Requests, RequestStep(r)
        PROVE  RouteInv'
    BY <1>5, StepEffect, RouteInvEffect
  <1>6. ASSUME NEW r \in Requests, RequestFails(r)
        PROVE  RouteInv'
    BY <1>6, RaisesUp DEF RequestFails, Raised, RouteInv, Busy
  <1>7. ASSUME NEW r \in Requests, SwallowedFailure(r)
        PROVE  RouteInv'
    <2>1. /\ Busy(r) /\ \A q \in Requests \ {r} : req'[q] = req[q]
          /\ req'[r].path = req[r].path /\ req'[r].todo = Tail(req[r].todo)
          /\ entries' = entries
      BY <1>7, Swallows
    <2>2. req[r].path # Root => Tail(req[r].todo) \in Seq(RouteCalls)
      BY <2>1, AsideCalls
    <2> QED BY <2>1, <2>2 DEF RouteInv, Busy
  <1>8. CASE UNCHANGED vars
    BY <1>8 DEF vars, docVars, RouteInv, Busy
  <1> QED BY <1>1, <1>2, <1>3, <1>4, <1>5, <1>6, <1>7, <1>8 DEF Next

(* Every app is spelled without a port.                                    *)
AppsWithoutPort == \A a \in AppHosts : a.port = 0

LEMMA PlainServers ==
    ASSUME AppsWithoutPort, NEW a \in AppHosts
    PROVE  ServerOf(a) = HostOf(a) /\ HostOf(a) \in Addresses
  BY AddressTypes DEF AppsWithoutPort, ServerOf, HostOf

LEMMA NoCustom ==
    ASSUME entries[Root] = <<>>
    PROVE  ~CustomRoot
  BY DEF CustomRoot, ToSet

LEMMA OneServed ==
    OneRest => Served
  <1>1. Loose => Spared
    BY AddressTypes DEF Loose, Spared
  <1> QED BY <1>1 DEF OneRest, Served, Tied, Fixed

(* What does not touch "/" and the default upstream changes nothing.       *)
Untouched ==
    /\ UNCHANGED app
    /\ entries'[Root] = entries[Root] /\ location'[Root] = location[Root]
    /\ upstream'[Default] = upstream[Default]

LEMMA UntouchedStays ==
    ASSUME Untouched
    PROVE  /\ OneRest => OneRest'
           /\ Spared => Spared'
           /\ Served => Served'
           /\ CustomRoot => CustomRoot'
  BY DEF Untouched, OneRest, Loose, Fixed, Tied, Hosted, Spared, Served, CustomRoot

LEMMA OnAside ==
    ASSUME TypeInv, NEW r \in Requests, Busy(r), Effect(r), Aside(Pending(r))
    PROVE  /\ UNCHANGED <<app, entries, location>> /\ upstream'[Default] = upstream[Default]
           /\ \/ Went(r, Tail(req[r].todo))
              \/ \E c : Aside(c) /\ Went(r, <<c>> \o Tail(req[r].todo))
  <1>1. upstream \in [Addresses -> SUBSET Addresses] /\ Default \in Addresses
    BY AddressTypes DEF TypeInv, TypeOK
  <1>2. CASE Pending(r).call = "save"
    BY <1>1, <1>2, OnSave DEF Aside
  <1>3. CASE Pending(r).call = "list"
    <2>1. PICK x : x = Computed(Pending(r))
      OBVIOUS
    <2>2. Aside(x)
      BY <2>1 DEF Computed, Save, Aside, Ups
    <2> QED BY <1>3, <2>1, <2>2, OnList
  <1> QED BY <1>2, <1>3 DEF Aside, Ups

LEMMA Appended ==
    ASSUME NEW s \in Seq(Entry), NEW e
    PROVE  e \in ToSet(Append(s, e))
  <1>1. Len(s) \in Nat
    OBVIOUS
  <1>2. Len(s) + 1 \in DOMAIN Append(s, e) /\ Append(s, e)[Len(s) + 1] = e
    BY <1>1
  <1> QED BY <1>2 DEF ToSet

(* A request for "/" goes on, or it is done.                               *)
RootStage(todo) ==
    RoutingRoot(todo) \/ BindingRoot(todo) \/ UnbindingRoot(todo) \/ NamingRoot(todo)

RootGoes(r) ==
    \/ OneRest' /\ (Went(r, <<>>) \/ (Raised(r) /\ UNCHANGED faults))
    \/ \E t : t # <<>> /\ Went(r, t) /\ RootStage(t)'

LEMMA RoutingGoes ==
    ASSUME TypeInv, NEW r \in Requests, Busy(r), Effect(r), req[r].path = Root,
           RoutingRoot(req[r].todo)
    PROVE  RootGoes(r)
  <1>1. PICK l, e, c1, c2, put :
           /\ c1 = Pull(Root, FALSE) /\ c2 = Push(Root, e)
           /\ Aside(l) /\ e.custom /\ put.call = "put" /\ put.location.upstream # Default
           /\ Served
           /\ \/ req[r].todo = <<c1, c2, put>>
              \/ req[r].todo = <<c1, c2, l, put>>
              \/ req[r].todo = <<c2, put>>
              \/ req[r].todo = <<c2, l, put>>
              \/ CustomRoot /\ req[r].todo = <<l, put>>
              \/ CustomRoot /\ req[r].todo = <<put>>
    BY DEF RoutingRoot
  <1>2. /\ entries \in [Paths -> Seq(Entry)] /\ location \in [Paths -> Location]
        /\ upstream \in [Addresses -> SUBSET Addresses] /\ Root \in Paths
    BY AddressTypes DEF TypeInv, TypeOK
  <1>3. UNCHANGED <<location, upstream>> => Served'
    BY <1>1 DEF Served, Spared, Hosted
  <1>4. ASSUME Served', NEW x, Aside(x), NEW t,
               \/ t = <<c2, put>>
               \/ t = <<c2, x, put>>
               \/ CustomRoot' /\ (t = <<put>> \/ t = <<x, put>>)
        PROVE  RoutingRoot(t)' /\ t # <<>>
    <2>1. CASE t = <<c2, put>>
      BY <1>1, <1>4, <2>1 DEF RoutingRoot
    <2>2. CASE t = <<c2, x, put>>
      BY <1>1, <1>4, <2>2 DEF RoutingRoot
    <2>3. CASE CustomRoot' /\ t = <<put>>
      BY <1>1, <1>4, <2>3 DEF RoutingRoot
    <2>4. CASE CustomRoot' /\ t = <<x, put>>
      BY <1>1, <1>4, <2>4 DEF RoutingRoot
    <2> QED BY <1>4, <2>1, <2>2, <2>3, <2>4
  <1>5. ASSUME NEW t, t = <<c2, put>> \/ t = <<c2, l, put>>,
               Pending(r) = c1, Tail(req[r].todo) = t
        PROVE  RootGoes(r)
    <2>1. Pending(r).call = "pull" /\ ~Pending(r).strict
      BY <1>1, <1>5 DEF Pull
    <2>2. Went(r, t) /\ UNCHANGED <<location, upstream>>
      BY <1>5, <2>1, OnPull
    <2>3. RoutingRoot(t)' /\ t # <<>>
      BY <1>1, <1>3, <1>4, <1>5, <2>2
    <2> QED BY <2>2, <2>3 DEF RootGoes, RootStage
  <1>6. ASSUME NEW t, t = <<put>> \/ t = <<l, put>>, Pending(r) = c2, Tail(req[r].todo) = t
        PROVE  RootGoes(r)
    <2>1. Pending(r).call = "push" /\ Pending(r).entry = e
      BY <1>1, <1>6 DEF Push
    <2>2. /\ Went(r, t) /\ UNCHANGED <<location, upstream>>
          /\ entries' = [entries EXCEPT ![Root] = Append(entries[Root], e)]
      BY <1>6, <2>1, OnPush
    <2>3. entries'[Root] = Append(entries[Root], e) /\ entries[Root] \in Seq(Entry)
      BY <1>2, <2>2
    <2>4. e \in ToSet(entries'[Root])
      BY <2>3, Appended
    <2>5. CustomRoot'
      BY <1>1, <2>4 DEF CustomRoot
    <2>6. RoutingRoot(t)' /\ t # <<>>
      BY <1>1, <1>3, <1>4, <1>6, <2>2, <2>5
    <2> QED BY <2>2, <2>6 DEF RootGoes, RootStage
  <1>7. CASE CustomRoot /\ req[r].todo = <<l, put>>
    <2>1. Pending(r) = l /\ Tail(req[r].todo) = <<put>>
      BY <1>7 DEF Pending
    <2>2. /\ UNCHANGED <<app, entries, location>> /\ upstream'[Default] = upstream[Default]
          /\ \/ Went(r, <<put>>)
             \/ \E c : Aside(c) /\ Went(r, <<c>> \o <<put>>)
      BY <1>1, <2>1, OnAside
    <2>6. Untouched
      BY <2>2 DEF Untouched
    <2>3. Served' /\ CustomRoot'
      BY <1>1, <1>7, <2>6, UntouchedStays
    <2>4. CASE Went(r, <<put>>)
      BY <1>1, <1>4, <2>3, <2>4 DEF RootGoes, RootStage
    <2>5. ASSUME NEW c, Aside(c), Went(r, <<c>> \o <<put>>)
          PROVE  RootGoes(r)
      <3>1. Went(r, <<c, put>>)
        BY <2>5, Join11
      <3>2. RoutingRoot(<<c, put>>)' /\ <<c, put>> # <<>>
        BY <1>4, <2>3, <2>5
      <3> QED BY <3>1, <3>2 DEF RootGoes, RootStage
    <2> QED BY <2>2, <2>4, <2>5
  <1>8. CASE CustomRoot /\ req[r].todo = <<put>>
    <2>1. Pending(r) = put /\ Tail(req[r].todo) = <<>>
      BY <1>8 DEF Pending
    <2>2. /\ Went(r, <<>>) /\ UNCHANGED <<app, entries, upstream>>
          /\ location' = [location EXCEPT ![Root] = put.location]
      BY <1>1, <2>1, OnPut
    <2>3. location'[Root].upstream # Default
      BY <1>1, <1>2, <2>2
    <2>4. \E h \in Addresses : upstream[Default] \subseteq {h}
      <3>1. \A a \in AppHosts : HostOf(a) \in Addresses
        BY AddressTypes
      <3> QED BY <1>1, <3>1 DEF Served, Spared, Hosted
    <2>5. Fixed'
      BY <1>8, <2>2, <2>3, <2>4 DEF Fixed, Spared, CustomRoot
    <2> QED BY <2>2, <2>5 DEF RootGoes, OneRest
  <1>9. CASE req[r].todo = <<c1, c2, put>>
    <2>1. Pending(r) = c1 /\ Tail(req[r].todo) = <<c2, put>>
      BY <1>9 DEF Pending
    <2> QED BY <1>5, <2>1
  <1>10. CASE req[r].todo = <<c1, c2, l, put>>
    <2>1. Pending(r) = c1 /\ Tail(req[r].todo) = <<c2, l, put>>
      BY <1>10 DEF Pending
    <2> QED BY <1>5, <2>1
  <1>11. CASE req[r].todo = <<c2, put>>
    <2>1. Pending(r) = c2 /\ Tail(req[r].todo) = <<put>>
      BY <1>11 DEF Pending
    <2> QED BY <1>6, <2>1
  <1>12. CASE req[r].todo = <<c2, l, put>>
    <2>1. Pending(r) = c2 /\ Tail(req[r].todo) = <<l, put>>
      BY <1>12 DEF Pending
    <2> QED BY <1>6, <2>1
  <1> QED BY <1>1, <1>7, <1>8, <1>9, <1>10, <1>11, <1>12

LEMMA BindingGoes ==
    ASSUME TypeInv, NEW r \in Requests, Busy(r), Effect(r), req[r].path = Root,
           BindingRoot(req[r].todo)
    PROVE  RootGoes(r)
  <1>1. PICK a, add, save, put, pull, store :
           /\ a \in AppHosts /\ add = List("add", Default, {HostOf(a)})
           /\ save = Save(Default, {HostOf(a)}) /\ put = Put(Root, Proxy(a, Default))
           /\ pull = Pull(Root, FALSE) /\ store = StoreBinding(a)
           /\ \/ Loose /\ req[r].todo = <<add, put, pull, store>>
              \/ Loose /\ req[r].todo = <<save, put, pull, store>>
              \/ /\ entries[Root] = <<>> /\ location[Root].upstream # Default
                 /\ upstream[Default] = {HostOf(a)} /\ req[r].todo = <<put, pull, store>>
              \/ entries[Root] = <<>> /\ Hosted(a) /\ req[r].todo = <<pull, store>>
              \/ entries[Root] = <<>> /\ Hosted(a) /\ req[r].todo = <<store>>
    BY DEF BindingRoot
  <1>2. /\ entries \in [Paths -> Seq(Entry)] /\ location \in [Paths -> Location]
        /\ upstream \in [Addresses -> SUBSET Addresses] /\ Root \in Paths
        /\ Default \in Addresses
    BY AddressTypes DEF TypeInv, TypeOK
  <1>3. CASE Loose /\ req[r].todo = <<add, put, pull, store>>
    <2>1. Pending(r) = add /\ Tail(req[r].todo) = <<put, pull, store>>
      BY <1>3 DEF Pending
    <2>2. Computed(add) = save /\ add.call = "list"
      BY <1>1, <1>3 DEF Computed, List, Loose
    <2>3. /\ UNCHANGED <<app, entries, location, upstream>>
          /\ Went(r, <<save>> \o <<put, pull, store>>)
      BY <2>1, <2>2, OnList
    <2>4. Went(r, <<save, put, pull, store>>)
      BY <2>3, Join13
    <2>5. Loose'
      BY <1>3, <2>3 DEF Loose
    <2>6. BindingRoot(<<save, put, pull, store>>)'
      BY <1>1, <2>5 DEF BindingRoot
    <2> QED BY <2>4, <2>6 DEF RootGoes, RootStage
  <1>4. CASE Loose /\ req[r].todo = <<save, put, pull, store>>
    <2>1. Pending(r) = save /\ Tail(req[r].todo) = <<put, pull, store>>
      BY <1>4 DEF Pending
    <2>2. save.call = "save" /\ save.upstream = Default /\ save.servers = {HostOf(a)}
      BY <1>1 DEF Save
    <2>3. /\ Went(r, <<put, pull, store>>) /\ UNCHANGED <<app, entries, location>>
          /\ upstream' = [upstream EXCEPT ![Default] = {HostOf(a)}]
      BY <2>1, <2>2, OnSave
    <2>4. /\ entries'[Root] = <<>> /\ location'[Root].upstream # Default
          /\ upstream'[Default] = {HostOf(a)}
      BY <1>2, <1>4, <2>3 DEF Loose
    <2>5. BindingRoot(<<put, pull, store>>)'
      BY <1>1, <2>4 DEF BindingRoot
    <2> QED BY <2>3, <2>5 DEF RootGoes, RootStage
  <1>5. CASE /\ entries[Root] = <<>> /\ location[Root].upstream # Default
             /\ upstream[Default] = {HostOf(a)} /\ req[r].todo = <<put, pull, store>>
    <2>1. Pending(r) = put /\ Tail(req[r].todo) = <<pull, store>>
      BY <1>5 DEF Pending
    <2>2. put.call = "put" /\ put.location = Proxy(a, Default)
      BY <1>1 DEF Put
    <2>3. /\ Went(r, <<pull, store>>) /\ UNCHANGED <<app, entries, upstream>>
          /\ location' = [location EXCEPT ![Root] = Proxy(a, Default)]
      BY <2>1, <2>2, OnPut
    <2>4. entries'[Root] = <<>> /\ Hosted(a)'
      BY <1>2, <1>5, <2>3 DEF Hosted
    <2>5. BindingRoot(<<pull, store>>)'
      BY <1>1, <2>4 DEF BindingRoot
    <2> QED BY <2>3, <2>5 DEF RootGoes, RootStage
  <1>6. CASE entries[Root] = <<>> /\ Hosted(a) /\ req[r].todo = <<pull, store>>
    <2>1. Pending(r) = pull /\ Tail(req[r].todo) = <<store>>
      BY <1>6 DEF Pending
    <2>2. pull.call = "pull" /\ ~pull.strict
      BY <1>1 DEF Pull
    <2>3. /\ Went(r, <<store>>) /\ UNCHANGED <<app, location, upstream>>
          /\ entries' = [entries EXCEPT ![Root] = <<>>]
      BY <2>1, <2>2, OnPull
    <2>4. entries'[Root] = <<>> /\ Hosted(a)'
      BY <1>2, <1>6, <2>3 DEF Hosted
    <2>5. BindingRoot(<<store>>)'
      BY <1>1, <2>4 DEF BindingRoot
    <2> QED BY <2>3, <2>5 DEF RootGoes, RootStage
  <1>7. CASE entries[Root] = <<>> /\ Hosted(a) /\ req[r].todo = <<store>>
    <2>1. Pending(r) = store /\ Tail(req[r].todo) = <<>>
      BY <1>7 DEF Pending
    <2>2. PICK e : e = [to |-> a, custom |-> FALSE]
      OBVIOUS
    <2>3. store.call = "store_binding" /\ store.app = a
      BY <1>1 DEF StoreBinding
    <2>4. /\ Went(r, <<>>) /\ UNCHANGED <<location, upstream>> /\ app' = a
          /\ entries' = [entries EXCEPT ![Root] = Append(entries[Root], e)]
      BY <2>1, <2>2, <2>3, OnStore
    <2>5. entries'[Root] = <<e>>
      BY <1>2, <1>7, <2>4
    <2>6. ToSet(<<e>>) = {e} /\ <<e>> # <<>> /\ ~e.custom
      <3>1. DOMAIN <<e>> = {1} /\ <<e>>[1] = e
        OBVIOUS
      <3> QED BY <2>2, <3>1 DEF ToSet
    <2>7. Tied(a)'
      BY <1>7, <2>4, <2>5, <2>6 DEF Tied, Hosted, CustomRoot
    <2> QED BY <1>1, <2>4, <2>7 DEF RootGoes, OneRest
  <1> QED BY <1>1, <1>3, <1>4, <1>5, <1>6, <1>7

LEMMA UnbindingGoes ==
    ASSUME TypeInv, NEW r \in Requests, Busy(r), Effect(r), req[r].path = Root,
           UnbindingRoot(req[r].todo)
    PROVE  RootGoes(r)
  <1>1. PICK pull, set, put :
           /\ pull = Pull(Root, TRUE) /\ set = SetApp(Nothing)
           /\ put = Put(Root, Plain("not_bound"))
    OBVIOUS
  <1>2. /\ entries \in [Paths -> Seq(Entry)] /\ location \in [Paths -> Location]
        /\ upstream \in [Addresses -> SUBSET Addresses] /\ Root \in Paths
        /\ Default \in Addresses
        /\ \A a \in AppHosts : HostOf(a) \in Addresses
    BY AddressTypes DEF TypeInv, TypeOK
  <1>3. ASSUME Loose, NEW none, none.call = "parse_none",
               \/ req[r].todo = <<pull, set, put, none>> \/ req[r].todo = <<set, put, none>>
               \/ req[r].todo = <<put, none>> \/ req[r].todo = <<none>>
        PROVE  RootGoes(r)
    <2>0. /\ app = Nothing /\ entries[Root] = <<>>
          /\ upstream[Default] = {} /\ location[Root].upstream # Default
      BY <1>3 DEF Loose
    <2>1. ASSUME NEW t, Went(r, t), Loose',
                 \/ t = <<set, put, none>> \/ t = <<put, none>> \/ t = <<none>>
          PROVE  RootGoes(r)
      <3>1. UnbindingRoot(t)'
        <4>1. CASE t = <<set, put, none>>
          BY <1>1, <1>3, <2>1, <4>1 DEF UnbindingRoot
        <4>2. CASE t = <<put, none>>
          BY <1>1, <1>3, <2>1, <4>2 DEF UnbindingRoot
        <4>3. CASE t = <<none>>
          BY <1>1, <1>3, <2>1, <4>3 DEF UnbindingRoot
        <4> QED BY <2>1, <4>1, <4>2, <4>3
      <3>2. t # <<>> /\ Went(r, t)
        <4>1. <<set, put, none>> # <<>> /\ <<put, none>> # <<>> /\ <<none>> # <<>>
          OBVIOUS
        <4> QED BY <2>1, <4>1, Zenon
      <3>3. RootStage(t)'
        BY <3>1 DEF RootStage
      <3> QED BY <3>2, <3>3 DEF RootGoes
    <2>2. Raised(r) /\ UNCHANGED faults => RootGoes(r)
      BY <2>0 DEF RootGoes, Raised, OneRest, Loose
    <2>3. CASE req[r].todo = <<pull, set, put, none>>
      <3>1. Pending(r) = pull /\ Tail(req[r].todo) = <<set, put, none>> /\ pull.call = "pull"
        BY <1>1, <2>3 DEF Pending, Pull
      <3>2. \/ Raised(r) /\ UNCHANGED faults
            \/ /\ Went(r, <<set, put, none>>) /\ UNCHANGED <<app, location, upstream>>
               /\ entries' = [entries EXCEPT ![Root] = <<>>]
        BY <3>1, OnPull
      <3>3. entries' = [entries EXCEPT ![Root] = <<>>] => entries'[Root] = <<>>
        BY <1>2
      <3>4. Went(r, <<set, put, none>>) /\ UNCHANGED <<app, location, upstream>>
            /\ entries'[Root] = <<>> => Loose'
        BY <2>0 DEF Loose
      <3> QED BY <2>1, <2>2, <3>2, <3>3, <3>4
    <2>4. CASE req[r].todo = <<set, put, none>>
      <3>1. Pending(r) = set /\ Tail(req[r].todo) = <<put, none>>
            /\ set.call = "set_app" /\ set.app = Nothing
        BY <1>1, <2>4 DEF Pending, SetApp
      <3>2. /\ Went(r, <<put, none>>) /\ UNCHANGED <<entries, location, upstream>>
            /\ app' = Nothing
        BY <3>1, OnSetApp
      <3> QED BY <2>0, <2>1, <3>2 DEF Loose
    <2>5. CASE req[r].todo = <<put, none>>
      <3>1. Pending(r) = put /\ Tail(req[r].todo) = <<none>>
            /\ put.call = "put" /\ put.location = Plain("not_bound")
        BY <1>1, <2>5 DEF Pending, Put
      <3>2. /\ Went(r, <<none>>) /\ UNCHANGED <<app, entries, upstream>>
            /\ location' = [location EXCEPT ![Root] = Plain("not_bound")]
        BY <3>1, OnPut
      <3>3. location'[Root] = Plain("not_bound") /\ Plain("not_bound").upstream # Default
        BY <1>2, <3>2, AddressTypes DEF Plain
      <3>4. Loose'
        BY <2>0, <3>2, <3>3 DEF Loose
      <3> QED BY <2>1, <3>2, <3>4
    <2>6. CASE req[r].todo = <<none>>
      <3>1. Pending(r) = none
        BY <2>6 DEF Pending
      <3> QED BY <1>3, <2>2, <3>1, OnParseNone
    <2> QED BY <1>3, <2>3, <2>4, <2>5, <2>6
  <1>4. ASSUME NEW a \in AppHosts, NEW take, take = List("remove", Default, {HostOf(a)}),
               \/ Tied(a) /\ req[r].todo = <<pull, set, put, take>>
               \/ entries[Root] = <<>> /\ Hosted(a) /\ req[r].todo = <<set, put, take>>
               \/ /\ entries[Root] = <<>> /\ Hosted(a) /\ app = Nothing
                  /\ req[r].todo = <<put, take>>
               \/ /\ entries[Root] = <<>> /\ app = Nothing
                  /\ location[Root] = Plain("not_bound")
                  /\ upstream[Default] = {HostOf(a)} /\ req[r].todo = <<take>>
        PROVE  RootGoes(r)
    <2>1. CASE Tied(a) /\ req[r].todo = <<pull, set, put, take>>
      <3>1. Pending(r) = pull /\ Tail(req[r].todo) = <<set, put, take>>
        BY <2>1 DEF Pending
      <3>2. pull.call = "pull" /\ entries[Root] # <<>>
        BY <1>1, <2>1 DEF Pull, Tied
      <3>3. /\ Went(r, <<set, put, take>>) /\ UNCHANGED <<app, location, upstream>>
            /\ entries' = [entries EXCEPT ![Root] = <<>>]
        BY <3>1, <3>2, OnPull
      <3>4. entries'[Root] = <<>> /\ Hosted(a)'
        BY <1>2, <2>1, <3>3 DEF Hosted, Tied
      <3>5. UnbindingRoot(<<set, put, take>>)'
        BY <1>1, <1>4, <3>4 DEF UnbindingRoot
      <3> QED BY <3>3, <3>5 DEF RootGoes, RootStage
    <2>2. CASE entries[Root] = <<>> /\ Hosted(a) /\ req[r].todo = <<set, put, take>>
      <3>1. Pending(r) = set /\ Tail(req[r].todo) = <<put, take>>
        BY <2>2 DEF Pending
      <3>2. set.call = "set_app" /\ set.app = Nothing
        BY <1>1 DEF SetApp
      <3>3. Went(r, <<put, take>>) /\ UNCHANGED <<entries, location, upstream>> /\ app' = Nothing
        BY <3>1, <3>2, OnSetApp
      <3>4. entries'[Root] = <<>> /\ Hosted(a)'
        BY <2>2, <3>3 DEF Hosted
      <3>5. UnbindingRoot(<<put, take>>)'
        BY <1>1, <1>4, <3>3, <3>4 DEF UnbindingRoot
      <3> QED BY <3>3, <3>5 DEF RootGoes, RootStage
    <2>3. CASE /\ entries[Root] = <<>> /\ Hosted(a) /\ app = Nothing
               /\ req[r].todo = <<put, take>>
      <3>1. Pending(r) = put /\ Tail(req[r].todo) = <<take>>
        BY <2>3 DEF Pending
      <3>2. put.call = "put" /\ put.location = Plain("not_bound")
        BY <1>1 DEF Put
      <3>3. /\ Went(r, <<take>>) /\ UNCHANGED <<app, entries, upstream>>
            /\ location' = [location EXCEPT ![Root] = Plain("not_bound")]
        BY <3>1, <3>2, OnPut
      <3>4. location'[Root] = Plain("not_bound")
        BY <1>2, <3>3
      <3>5. entries'[Root] = <<>> /\ app' = Nothing /\ upstream'[Default] = {HostOf(a)}
        BY <2>3, <3>3 DEF Hosted
      <3>6. UnbindingRoot(<<take>>)'
        BY <1>1, <1>4, <3>4, <3>5 DEF UnbindingRoot
      <3> QED BY <3>3, <3>6 DEF RootGoes, RootStage
    <2>4. CASE /\ entries[Root] = <<>> /\ app = Nothing
               /\ location[Root] = Plain("not_bound")
               /\ upstream[Default] = {HostOf(a)} /\ req[r].todo = <<take>>
      <3>1. Pending(r) = take /\ Tail(req[r].todo) = <<>>
        BY <2>4 DEF Pending
      <3>2. PICK save : save = Save(Default, {})
        OBVIOUS
      <3>3. Computed(take) = save /\ take.call = "list"
        BY <1>4, <2>4, <3>2 DEF Computed, List
      <3>4. UNCHANGED <<app, entries, location, upstream>> /\ Went(r, <<save>> \o <<>>)
        BY <3>1, <3>3, OnList
      <3>5. Went(r, <<save>>)
        BY <3>4, Join10
      <3>6. UnbindingRoot(<<save>>)'
        BY <1>2, <2>4, <3>2, <3>4 DEF UnbindingRoot
      <3> QED BY <3>5, <3>6 DEF RootGoes, RootStage
    <2> QED BY <1>4, <2>1, <2>2, <2>3, <2>4
  <1>5. ASSUME entries[Root] = <<>>, app = Nothing, location[Root] = Plain("not_bound"),
               req[r].todo = <<Save(Default, {})>>
        PROVE  RootGoes(r)
    <2>1. PICK save : save = Save(Default, {})
      OBVIOUS
    <2>2. Pending(r) = save /\ Tail(req[r].todo) = <<>>
      BY <1>5, <2>1 DEF Pending
    <2>3. save.call = "save" /\ save.upstream = Default /\ save.servers = {}
      BY <2>1 DEF Save
    <2>4. /\ Went(r, <<>>) /\ UNCHANGED <<app, entries, location>>
          /\ upstream' = [upstream EXCEPT ![Default] = {}]
      BY <2>2, <2>3, OnSave
    <2>5. location[Root].upstream # Default
      BY <1>5, AddressTypes DEF Plain
    <2>6. Loose'
      BY <1>2, <1>5, <2>4, <2>5 DEF Loose
    <2> QED BY <2>4, <2>6 DEF RootGoes, OneRest
  <1>6. \/ /\ Loose
           /\ \E none :
                 /\ none.call = "parse_none"
                 /\ \/ req[r].todo = <<pull, set, put, none>>
                    \/ req[r].todo = <<set, put, none>>
                    \/ req[r].todo = <<put, none>> \/ req[r].todo = <<none>>
        \/ \E a \in AppHosts : \E take :
              /\ take = List("remove", Default, {HostOf(a)})
              /\ \/ Tied(a) /\ req[r].todo = <<pull, set, put, take>>
                 \/ entries[Root] = <<>> /\ Hosted(a) /\ req[r].todo = <<set, put, take>>
                 \/ /\ entries[Root] = <<>> /\ Hosted(a) /\ app = Nothing
                    /\ req[r].todo = <<put, take>>
                 \/ /\ entries[Root] = <<>> /\ app = Nothing
                    /\ location[Root] = Plain("not_bound")
                    /\ upstream[Default] = {HostOf(a)} /\ req[r].todo = <<take>>
        \/ /\ entries[Root] = <<>> /\ app = Nothing /\ location[Root] = Plain("not_bound")
           /\ req[r].todo = <<Save(Default, {})>>
    BY <1>1 DEF UnbindingRoot
  <1> QED BY <1>3, <1>4, <1>5, <1>6

LEMMA NamingGoes ==
    ASSUME TypeInv, NEW r \in Requests, Busy(r), Effect(r), req[r].path = Root,
           NamingRoot(req[r].todo)
    PROVE  RootGoes(r)
  <1>1. PICK c, a : c = SetApp(a) /\ req[r].todo = <<c>> /\ Fixed
    BY DEF NamingRoot
  <1>2. Pending(r) = c /\ Tail(req[r].todo) = <<>> /\ c.call = "set_app"
    BY <1>1 DEF Pending, SetApp
  <1>3. Went(r, <<>>) /\ UNCHANGED <<entries, location, upstream>>
    BY <1>2, OnSetApp
  <1>4. Fixed'
    BY <1>1, <1>3 DEF Fixed, Spared, CustomRoot
  <1> QED BY <1>3, <1>4 DEF RootGoes, OneRest

LEMMA AwayGoes ==
    ASSUME TypeInv, RouteInv, NEW r \in Requests, Busy(r), Effect(r), req[r].path # Root
    PROVE  Untouched
  <1>1. PICK p \in Paths : p = req[r].path
    BY BusyPending
  <1>2. Root \in Paths \ {p} /\ Default \in Addresses
    BY <1>1, AddressTypes
  <1>3. Elsewhere(p)
    BY <1>1, WorksOnItsPath
  <1>4. Pending(r) \in RouteCalls /\ Pending(r) \in CallsOf(p)
    BY <1>1, BusyPending, AsideCalls
  <1>5. upstream \in [Addresses -> SUBSET Addresses]
    BY DEF TypeInv, TypeOK
  <1>6. upstream'[Default] = upstream[Default]
    <2>1. CASE Pending(r).call = "save"
      BY <1>2, <1>4, <1>5, <2>1, OnSave DEF RouteCalls, Ups
    <2>2. CASE Pending(r).call # "save"
      BY <2>2, <1>4, Parameters, OnPull, OnPush, OnPut, OnDelete, OnStore, OnSetApp, OnList, OnParseNone
         DEF Effect, Raised
    <2> QED BY <2>1, <2>2
  <1> QED BY <1>1, <1>2, <1>3, <1>6 DEF Elsewhere, Untouched

LEMMA RootStageGoes ==
    ASSUME TypeInv, NEW r \in Requests, Busy(r), Effect(r), req[r].path = Root,
           RootStage(req[r].todo)
    PROVE  RootGoes(r)
  BY RoutingGoes, BindingGoes, UnbindingGoes, NamingGoes DEF RootStage

(* One request at a time, and no call that failed.                         *)
Solo(r) == \A q \in Requests : Busy(q) => q = r

LEMMA OneAfter ==
    ASSUME NEW r \in Requests, Solo(r), \A q \in Requests \ {r} : req'[q] = req[q],
           IF req'[r].todo = <<>> THEN OneRest' ELSE OneStage(r)'
    PROVE  OneInv'
  <1>1. \A q \in Requests : Busy(q)' => q = r
    BY DEF Solo, Busy
  <1>2. Busy(r)' <=> req'[r].todo # <<>>
    BY DEF Busy
  <1> QED BY <1>1, <1>2 DEF OneInv

LEMMA EffectEnds ==
    ASSUME TypeInv, NEW r \in Requests, Busy(r), Effect(r)
    PROVE  (Raised(r) /\ UNCHANGED faults) \/ \E t : Went(r, t)
  <1>1. CASE Pending(r).call \in {"pull", "parse_none"}
    BY <1>1, OnPull, OnParseNone
  <1>2. CASE Pending(r).call \notin {"pull", "parse_none"}
    <2>1. Pending(r).call \in {"push", "put", "delete", "store_binding", "set_app", "list", "save"}
      BY <1>2 DEF Effect
    <2> QED BY <2>1, OnPush, OnPut, OnDelete, OnStore, OnSetApp, OnList, OnSave
  <1> QED BY <1>1, <1>2

LEMMA OneEffect ==
    ASSUME TypeInv, RouteInv, OneInv, NEW r \in Requests, Busy(r), Effect(r)
    PROVE  OneInv'
  <1> SUFFICES ASSUME overlaps' = 0, faults' = 0
               PROVE  OneInv'
    BY DEF OneInv
  <1>1. PICK p \in Paths : p = req[r].path
    BY BusyPending
  <1>2. \/ Raised(r) /\ UNCHANGED faults
        \/ \E t : Went(r, t)
    BY EffectEnds
  <1>3. overlaps = 0 /\ faults = 0
    BY <1>2 DEF Raised, Went
  <1>4. Solo(r) /\ OneStage(r)
    BY <1>3 DEF OneInv, Solo
  <1>5. CASE p # Root
    <2>1. OneRest'
      BY <1>1, <1>4, <1>5, AwayGoes, UntouchedStays DEF OneStage
    <2>2. Raised(r) => req'[r].todo = <<>> /\ \A q \in Requests \ {r} : req'[q] = req[q]
      BY DEF Raised
    <2>3. ASSUME NEW t, Went(r, t)
          PROVE  /\ \A q \in Requests \ {r} : req'[q] = req[q]
                 /\ req'[r].todo # <<>> => req'[r].path = p
      BY <1>1, <2>3 DEF Went
    <2>4. /\ \A q \in Requests \ {r} : req'[q] = req[q]
          /\ req'[r].todo # <<>> => req'[r].path = p
      BY <1>2, <2>2, <2>3
    <2>5. req'[r].todo # <<>> => OneStage(r)'
      BY <1>5, <2>1, <2>4 DEF OneStage
    <2> QED BY <1>4, <2>1, <2>4, <2>5, OneAfter
  <1>6. CASE p = Root
    <2>1. RootStage(req[r].todo)
      BY <1>1, <1>4, <1>6 DEF OneStage, RootStage
    <2>2. RootGoes(r)
      BY <1>1, <1>6, <2>1, RootStageGoes
    <2>3. ASSUME OneRest', Went(r, <<>>) \/ Raised(r)
          PROVE  OneInv'
      <3>1. req'[r].todo = <<>> /\ \A q \in Requests \ {r} : req'[q] = req[q]
        BY <2>3 DEF Went, Raised
      <3> QED BY <1>4, <2>3, <3>1, OneAfter
    <2>4. ASSUME NEW t, t # <<>>, Went(r, t), RootStage(t)'
          PROVE  OneInv'
      <3>1. req'[r].todo = t /\ req'[r].path = Root /\ \A q \in Requests \ {r} : req'[q] = req[q]
        BY <1>1, <1>6, <2>4 DEF Went
      <3>2. OneStage(r)'
        BY <2>4, <3>1 DEF OneStage, RootStage
      <3>3. req'[r].todo # <<>>
        BY <2>4, <3>1
      <3> QED BY <1>4, <3>1, <3>2, <3>3, OneAfter
    <2> QED BY <2>2, <2>3, <2>4 DEF RootGoes
  <1> QED BY <1>5, <1>6

LEMMA StageStays ==
    ASSUME NEW todo, RootStage(todo), UNCHANGED <<app, entries, location, upstream>>
    PROVE  RootStage(todo)'
  BY DEF RootStage, RoutingRoot, BindingRoot, UnbindingRoot, NamingRoot,
         Served, Spared, Hosted, Loose, Tied, Fixed, CustomRoot

LEMMA OneBegins ==
    ASSUME TypeInv, OneInv, NEW r \in Requests, NEW p \in Paths, NEW whole \in BOOLEAN,
           NEW calls \in Seq(CallsOf(p)), BeginAmong(TRUE, r, p, whole, calls), calls # <<>>,
           p = Root /\ OneRest => RootStage(calls)
    PROVE  OneInv'
  <1> SUFFICES ASSUME overlaps' = 0, faults' = 0
               PROVE  OneInv'
    BY DEF OneInv
  <1>1. Begun(TRUE, r, p, whole, calls)
    BY Begins
  <1>2. overlaps = 0 /\ faults = 0 /\ \A q \in Requests : ~Busy(q)
    BY <1>1 DEF Begun, TypeInv, TypeOK
  <1>3. OneRest
    BY <1>2 DEF OneInv
  <1>4. /\ req'[r].path = p /\ req'[r].todo = calls
        /\ \A q \in Requests \ {r} : req'[q].todo = req[q].todo
        /\ UNCHANGED <<app, entries, location, upstream>>
    BY <1>1 DEF Begun
  <1>5. \A q \in Requests : Busy(q)' <=> q = r
    BY <1>2, <1>4 DEF Busy
  <1>6. OneRest'
    BY <1>3, <1>4, UntouchedStays DEF Untouched
  <1>7. p = Root => RootStage(calls)'
    BY <1>3, <1>4, StageStays
  <1>8. OneStage(r)'
    BY <1>4, <1>6, <1>7 DEF OneStage, RootStage
  <1> QED BY <1>5, <1>8 DEF OneInv

LEMMA CustomRests ==
    ASSUME OneRest
    PROVE  /\ CustomRoot => Fixed
           /\ ~CustomRoot => Loose \/ \E a \in AppHosts : Tied(a)
  BY NoCustom DEF OneRest, Fixed, Loose, Tied

LEMMA OneNames ==
    ASSUME OneRest, CustomRoot, NEW a
    PROVE  RootStage(<<SetApp(a)>>)
  BY CustomRests DEF RootStage, NamingRoot

LEMMA OneBinds ==
    ASSUME OneRest, ~CustomRoot, app = Nothing, NEW a \in AppHosts
    PROVE  RootStage(BindTodo(a))
  <1>1. Loose
    BY CustomRests, AddressTypes DEF Tied
  <1> QED BY <1>1 DEF RootStage, BindingRoot, BindTodo

LEMMA OneUnbinds ==
    ASSUME AppsWithoutPort, OneRest, ~CustomRoot
    PROVE  RootStage(UnbindCalls)
  <1>1. CASE Loose
    <2>1. PICK l : l = TakeAppOut
      OBVIOUS
    <2>2. l.call = "parse_none"
      BY <1>1, <2>1 DEF TakeAppOut, Loose, Plainly
    <2>3. UnbindingRoot(UnbindCalls)
      BY <1>1, <2>1, <2>2 DEF UnbindingRoot, UnbindCalls
    <2> QED BY <2>3 DEF RootStage
  <1>2. ASSUME NEW a \in AppHosts, Tied(a)
        PROVE  RootStage(UnbindCalls)
    <2>1. app = a /\ a # Nothing
      BY <1>2, AddressTypes DEF Tied
    <2>2. TakeAppOut = List("remove", Default, {HostOf(a)})
      BY <2>1, PlainServers DEF TakeAppOut
    <2>3. UnbindingRoot(UnbindCalls)
      BY <1>2, <2>2 DEF UnbindingRoot, UnbindCalls
    <2> QED BY <2>3 DEF RootStage
  <1> QED BY <1>1, <1>2, CustomRests

LEMMA OneRoutes ==
    ASSUME OneRest, NEW to \in Destinations \cup Contents
    PROVE  RootStage(RouteTodo(Root, to))
  <1>1. PICK e, l : /\ e = [to |-> to, custom |-> TRUE]
                    /\ l = List("add", HostOf(to), {HostOf(to)})
    OBVIOUS
  <1>2. e.custom /\ Served
    BY <1>1, OneServed
  <1>3. CASE to \in Contents
    <2>1. PICK put, o : put = Put(Root, Content(to)) /\ o = List("add", Nothing, {})
      OBVIOUS
    <2>2. put.call = "put" /\ put.location.upstream # Default
      BY <2>1, AddressTypes DEF Put, Content
    <2>3. Aside(o)
      BY <2>1, AddressTypes DEF Aside, List, Ups
    <2>4. RouteTodo(Root, to) = <<Pull(Root, FALSE), Push(Root, e), put>>
      BY <1>1, <1>3, <2>1 DEF RouteTodo
    <2>5. RoutingRoot(RouteTodo(Root, to))
      BY <1>2, <2>2, <2>3, <2>4 DEF RoutingRoot
    <2> QED BY <2>5 DEF RootStage
  <1>4. CASE to \notin Contents
    <2>1. PICK put : put = Put(Root, Proxy(to, HostOf(to)))
      OBVIOUS
    <2>2. HostOf(to) # Default
      BY <1>4, ConstantsAssumption
    <2>3. put.call = "put" /\ put.location.upstream # Default
      BY <2>1, <2>2 DEF Put, Proxy
    <2>4. Aside(l)
      BY <1>1, <2>2 DEF Aside, List, Ups
    <2>5. RouteTodo(Root, to) = <<Pull(Root, FALSE), Push(Root, e), l, put>>
      BY <1>1, <1>4, <2>1 DEF RouteTodo
    <2>6. RoutingRoot(RouteTodo(Root, to))
      BY <1>2, <2>3, <2>4, <2>5 DEF RoutingRoot
    <2> QED BY <2>6 DEF RootStage
  <1> QED BY <1>3, <1>4

LEMMA OneInvInit ==
    Init => OneInv
  BY IdleTyped, AddressTypes, UpstreamTypes DEF Init, OneInv, OneRest, Loose, Busy, Plain

LEMMA OneInvNext ==
    ASSUME AppsWithoutPort
    PROVE  TypeInv /\ RouteInv /\ OneInv /\ [Next]_vars => OneInv'
  <1> SUFFICES ASSUME TypeInv, RouteInv, OneInv, [Next]_vars
               PROVE  OneInv'
    OBVIOUS
  <1>0. Root \in Paths /\ faults \in Nat
    BY AddressTypes DEF TypeInv, TypeOK
  <1>1. ASSUME NEW r \in Requests, NEW a \in AppHosts, Bind(r, a)
        PROVE  OneInv'
    <2>1. /\ app = Nothing
          /\ \/ CustomRoot /\ BeginAmong(TRUE, r, Root, FALSE, <<SetApp(a)>>)
             \/ ~CustomRoot /\ BeginAmong(TRUE, r, Root, TRUE, BindTodo(a))
          /\ <<SetApp(a)>> \in Seq(CallsOf(Root)) /\ BindTodo(a) \in Seq(CallsOf(Root))
      BY <1>1, BindBegins
    <2>2. <<SetApp(a)>> # <<>> /\ BindTodo(a) # <<>>
      BY DEF BindTodo
    <2> QED BY <1>0, <2>1, <2>2, OneNames, OneBinds, OneBegins
  <1>2. ASSUME NEW r \in Requests, Unbind(r)
        PROVE  OneInv'
    <2>1. /\ \/ CustomRoot /\ BeginAmong(TRUE, r, Root, FALSE, <<SetApp(Nothing)>>)
             \/ ~CustomRoot /\ BeginAmong(TRUE, r, Root, TRUE, UnbindCalls)
          /\ <<SetApp(Nothing)>> \in Seq(CallsOf(Root)) /\ UnbindCalls \in Seq(CallsOf(Root))
      BY <1>2, UnbindBegins
    <2>2. <<SetApp(Nothing)>> # <<>> /\ UnbindCalls # <<>>
      BY DEF UnbindCalls
    <2> QED BY <1>0, <2>1, <2>2, OneNames, OneUnbinds, OneBegins
  <1>3. ASSUME NEW r \in Requests, NEW p \in Paths, NEW to \in Destinations \cup Contents,
               AddRoute(r, p, to)
        PROVE  OneInv'
    <2>1. /\ BeginAmong(TRUE, r, p, TRUE, RouteTodo(p, to))
          /\ RouteTodo(p, to) \in Seq(CallsOf(p))
      BY <1>3, RouteBegins
    <2>2. RouteTodo(p, to) # <<>>
      BY DEF RouteTodo
    <2>3. p = Root /\ OneRest => RootStage(RouteTodo(p, to))
      BY OneRoutes
    <2> QED BY <2>1, <2>2, <2>3, OneBegins
  <1>4. ASSUME NEW r \in Requests, NEW p \in Paths, DeleteRoute(r, p)
        PROVE  OneInv'
    <2>1. p # Root
      BY <1>4, DeleteBegins
    <2>2. PICK to \in Addresses \cup Contents, last \in BOOLEAN :
             /\ BeginAmong(TRUE, r, p, TRUE, DeleteTodo(p, to, last))
             /\ DeleteTodo(p, to, last) \in Seq(CallsOf(p))
      BY <1>4, DeleteBegins
    <2>3. DeleteTodo(p, to, last) # <<>>
      BY DEF DeleteTodo
    <2> QED BY <2>1, <2>2, <2>3, OneBegins
  <1>5. ASSUME NEW r \in Requests, RequestStep(r)
        PROVE  OneInv'
    BY <1>5, StepEffect, OneEffect
  <1>6. ASSUME NEW r \in Requests, RequestFails(r) \/ SwallowedFailure(r)
        PROVE  OneInv'
    <2>1. faults' = faults + 1
      BY <1>6 DEF RequestFails, SwallowedFailure
    <2> QED BY <1>0, <2>1 DEF OneInv
  <1>7. CASE UNCHANGED vars
    <2>1. /\ UNCHANGED <<req, overlaps, faults, app, entries, location, upstream>>
      BY <1>7 DEF vars, docVars, consulVars
    <2>2. OneRest => OneRest'
      BY <2>1, UntouchedStays DEF Untouched
    <2>3. ASSUME NEW r \in Requests, OneStage(r)
          PROVE  OneStage(r)'
      BY <2>1, <2>2, <2>3, StageStays DEF OneStage, RootStage
    <2> QED BY <2>1, <2>2, <2>3 DEF OneInv, Busy
  <1> QED BY <1>1, <1>2, <1>3, <1>4, <1>5, <1>6, <1>7 DEF Next

(* The upstream of "/" holds one app, and it is the one its location       *)
(* names: bind, unbind and the routes of rpaas/manager.py with the         *)
(* upstreams of rpaas/consul_manager.py, for requests one at a time none   *)
(* of which dies, when every app is spelled without a port.                *)
THEOREM OneAppBehindRoot ==
    ASSUME AppsWithoutPort
    PROVE  Spec => []BoundToOneApp
  <1>1. Init => TypeInv /\ RouteInv /\ OneInv
    BY TypeInvInit, RouteInvInit, OneInvInit
  <1>2. TypeInv /\ RouteInv /\ OneInv /\ [Next]_vars => (TypeInv /\ RouteInv /\ OneInv)'
    BY TypeInvNext, RouteInvNext, OneInvNext
  <1>3. TypeInv /\ OneInv => BoundToOneApp
    <2> SUFFICES ASSUME TypeInv, OneInv, overlaps = 0, faults = 0
                 PROVE  /\ Cardinality(upstream[Default]) <= 1
                        /\ location[Root].kind = "proxy" /\ location[Root].upstream = Default =>
                               upstream[Default] = {HostOf(location[Root].to)}
      BY DEF BoundToOneApp
    <2>1. \/ Spared \/ \E a \in AppHosts : Hosted(a)
          \/ location[Root].upstream # Default /\ \E h : upstream[Default] = {h}
      <3>1. OneRest \/ \E r \in Requests : OneStage(r)
        BY DEF OneInv
      <3>2. OneRest => Served
        BY OneServed
      <3>3. ASSUME NEW todo, RootStage(todo)
            PROVE  \/ Served
                   \/ location[Root].upstream # Default /\ \E h : upstream[Default] = {h}
        <4>1. Loose \/ Fixed \/ (\E a \in AppHosts : Tied(a)) => Served
          BY OneServed DEF OneRest
        <4>2. Plain("not_bound").upstream # Default
          BY AddressTypes DEF Plain
        <4>3. RoutingRoot(todo) => Served
          BY DEF RoutingRoot
        <4>4. NamingRoot(todo) => Served
          BY <4>1 DEF NamingRoot
        <4>5. BindingRoot(todo) =>
                 \/ Served
                 \/ location[Root].upstream # Default /\ \E h : upstream[Default] = {h}
          BY <4>1 DEF BindingRoot, Served
        <4>6. UnbindingRoot(todo) =>
                 \/ Served
                 \/ location[Root].upstream # Default /\ \E h : upstream[Default] = {h}
          BY <4>1, <4>2 DEF UnbindingRoot, Served
        <4> QED BY <3>3, <4>3, <4>4, <4>5, <4>6 DEF RootStage
      <3> QED BY <3>1, <3>2, <3>3 DEF OneStage, RootStage, Served
    <2>2. PICK h : upstream[Default] \subseteq {h}
      BY <2>1 DEF Spared, Hosted
    <2>3. Cardinality(upstream[Default]) <= 1
      <3>1. upstream[Default] = {} \/ upstream[Default] = {h}
        BY <2>2
      <3>2. Cardinality({}) = 0 /\ Cardinality({h}) = 1
        BY FS_EmptySet, FS_Singleton
      <3> QED BY <3>1, <3>2
    <2>4. ASSUME location[Root].upstream = Default
          PROVE  upstream[Default] = {HostOf(location[Root].to)}
      <3>1. PICK a \in AppHosts : Hosted(a)
        BY <2>1, <2>4 DEF Spared
      <3>2. Proxy(a, Default).to = a
        BY DEF Proxy
      <3> QED BY <3>1, <3>2 DEF Hosted
    <2> QED BY <2>3, <2>4
  <1> QED BY <1>1, <1>2, <1>3, PTL DEF Spec

-----------------------------------------------------------------------------
(***************************************************************************)
(* Locations and the servers behind them: ProxyHasServer.                  *)
(***************************************************************************)

(* A location whose upstream, if it proxies to one, has a server, or lost  *)
(* it to a removal that spells its host otherwise.                         *)
Lit(loc) ==
    loc.kind = "proxy" =>
        /\ loc.upstream \in Addresses
        /\ \/ upstream[loc.upstream] # {}
           \/ loc.upstream \in outspelled /\ loc.to # loc.upstream
Backed(p) == Lit(location[p])

(* A call that puts a server into u; an upstream that no location of       *)
(* another path proxies to for a destination spelled as it is named.       *)
Fills(c, u) ==
    /\ c.call \in Ups /\ c.upstream = u /\ c.servers # {}
    /\ c.call = "list" => c.change = "add"
Unused(p, u) ==
    \A q \in Paths \ (torn \cup {p}) :
        location[q].kind = "proxy" => location[q].upstream # u \/ location[q].to # u

(* The calls each kind of request has left, with the upstream as they find *)
(* it: a location is written once its upstream has a server, and one that  *)
(* loses its server is deleted, or no longer there.                        *)
LightAdding(todo, p) ==
    \E to \in Destinations \cup Contents : \E l, put :
        LET pull == Pull(p, FALSE)
            push == Push(p, Custom(to))
        IN  /\ put.call = "put"
            /\ \/ /\ Fills(l, put.location.upstream)
                  /\ \/ todo = <<pull, push, l, put>>
                     \/ todo = <<push, l, put>>
                     \/ todo = <<l, put>>
               \/ /\ Lit(put.location)
                  /\ \/ todo = <<pull, push, put>>
                     \/ todo = <<push, put>>
                     \/ todo = <<put>>

LightBinding(todo) ==
    \E a \in AppHosts : \E l :
        LET put == Put(Root, Proxy(a, Default))
            pull == Pull(Root, FALSE)
        IN  \/ Fills(l, Default) /\ todo = <<l, put, pull, StoreBinding(a)>>
            \/ upstream[Default] # {} /\ todo = <<put, pull, StoreBinding(a)>>
            \/ Backed(Root) /\ todo = <<pull, StoreBinding(a)>>
            \/ Backed(Root) /\ todo = <<StoreBinding(a)>>

LightUnbinding(todo) ==
    \E l :
        LET put == Put(Root, Plain("not_bound"))
        IN  /\ l.call \in Ups \cup {"parse_none"} /\ (l.call \in Ups => l.upstream = Default)
            /\ \/ todo = <<Pull(Root, TRUE), SetApp(Nothing), put, l>>
               \/ todo = <<SetApp(Nothing), put, l>>
               \/ todo = <<put, l>>
               \/ location[Root].kind # "proxy" /\ todo = <<l>>

LightRemoving(todo, p) ==
    \/ \E l : /\ l.call \in Ups /\ Unused(p, l.upstream)
              /\ todo = <<l, Pull(p, TRUE), Delete(p)>>
    \/ todo = <<Pull(p, TRUE), Delete(p)>>
    \/ todo = <<Delete(p)>>

LightOf(whole, todo, p) ==
    \/ p # Root /\ LightRemoving(todo, p)
    \/ /\ p \notin torn => Backed(p)
       /\ \/ LightAdding(todo, p)
          \/ p = Root /\ LightBinding(todo)
          \/ p = Root /\ LightUnbinding(todo)
          \/ ~whole /\ \E a \in AppHosts \cup {Nothing} : todo = <<SetApp(a)>>

LightStage(r) == LightOf(req[r].whole, req[r].todo, req[r].path)

(* What a request does in one call to its path p and to the others.        *)
Kept(p) == \A q \in Paths \ (torn \cup {p}) : Backed(q) => Backed(q)'
LightGoes(r, p) ==
    \/ Raised(r)
    \/ \E t : t # <<>> /\ Went(r, t) /\ Kept(p) /\ LightStage(r)'
    \/ Went(r, <<>>) /\ Kept(p) /\ (p \in torn' \/ Backed(p)')

Steady == \A loc \in Location : Lit(loc) => Lit(loc)'

LEMMA LocationsTyped ==
    ASSUME TypeInv
    PROVE  /\ location \in [Paths -> Location] /\ upstream \in [Addresses -> SUBSET Addresses]
           /\ \A q \in Paths : location[q] \in Location
  BY DEF TypeInv, TypeOK, Location

LEMMA SteadyStays ==
    UNCHANGED <<upstream, outspelled>> => Steady
  BY DEF Steady, Lit

LEMMA SteadyKeeps ==
    ASSUME TypeInv, NEW p \in Paths, Steady,
           \A q \in Paths \ {p} : location'[q] = location[q]
    PROVE  Kept(p)
  BY LocationsTyped DEF Kept, Steady, Backed

LEMMA LightOn ==
    ASSUME NEW r \in Requests, NEW p, p = req[r].path, NEW t, t # <<>>, Went(r, t), NEW w,
           w = req[r].whole, LightOf(w, t, p)'
    PROVE  LightStage(r)'
  <1>1. req'[r].path = p /\ req'[r].todo = t /\ req'[r].whole = w
    BY DEF Went
  <1> QED BY <1>1 DEF LightStage

LEMMA FillsGo ==
    ASSUME TypeInv, NEW r \in Requests, Busy(r), Effect(r), NEW u, Fills(Pending(r), u)
    PROVE  /\ UNCHANGED location /\ Steady
           /\ \/ Went(r, Tail(req[r].todo)) /\ upstream'[u] # {}
              \/ \E c : Fills(c, u) /\ Went(r, <<c>> \o Tail(req[r].todo))
  <1>1. PICK c : c = Pending(r)
    OBVIOUS
  <1>2. /\ c.call \in Ups /\ c.upstream = u /\ c.servers # {}
        /\ c.call = "list" => c.change = "add"
    BY <1>1 DEF Fills
  <1>3. u \in Addresses /\ upstream \in [Addresses -> SUBSET Addresses]
    BY <1>1, <1>2, BusyPending, Parameters, LocationsTyped DEF Ups
  <1>4. CASE c.call = "save"
    <2>1. /\ Went(r, Tail(req[r].todo)) /\ UNCHANGED location
          /\ upstream' = [upstream EXCEPT ![u] = c.servers] /\ outspelled' = outspelled \ {u}
      BY <1>1, <1>2, <1>4, OnSave
    <2>2. upstream'[u] # {} /\ \A x \in Addresses \ {u} : upstream'[x] = upstream[x]
      BY <1>2, <1>3, <2>1
    <2>3. Steady
      BY <1>3, <2>1, <2>2 DEF Steady, Lit
    <2> QED BY <2>1, <2>2, <2>3
  <1>5. CASE c.call = "list"
    <2>1. PICK x : x = Computed(c)
      OBVIOUS
    <2>2. UNCHANGED <<location, upstream, outspelled>> /\ Went(r, <<x>> \o Tail(req[r].todo))
      BY <1>1, <1>5, <2>1, OnList
    <2>3. Fills(x, u)
      BY <1>2, <1>5, <2>1 DEF Computed, Save, Fills, Ups
    <2> QED BY <2>2, <2>3, SteadyStays
  <1> QED BY <1>2, <1>4, <1>5 DEF Ups

(* What an add_route calls next.                                           *)
LEMMA AddingAhead ==
    ASSUME NEW p, NEW todo, LightAdding(todo, p)
    PROVE  \/ /\ LightAdding(Tail(todo), p) /\ Tail(todo) # <<>>
              /\ \/ Head(todo) = Pull(p, FALSE)
                 \/ \E to \in Destinations \cup Contents : Head(todo) = Push(p, Custom(to))
           \/ \E l, put : put.call = "put" /\ Fills(l, put.location.upstream) /\ todo = <<l, put>>
           \/ \E put : put.call = "put" /\ Lit(put.location) /\ todo = <<put>>
  <1>1. PICK to, l, put, pull, push :
           /\ to \in Destinations \cup Contents
           /\ pull = Pull(p, FALSE) /\ push = Push(p, Custom(to)) /\ put.call = "put"
           /\ \/ /\ Fills(l, put.location.upstream)
                 /\ \/ todo = <<pull, push, l, put>>
                    \/ todo = <<push, l, put>>
                    \/ todo = <<l, put>>
              \/ /\ Lit(put.location)
                 /\ \/ todo = <<pull, push, put>>
                    \/ todo = <<push, put>>
                    \/ todo = <<put>>
    BY DEF LightAdding
  <1>2. CASE Fills(l, put.location.upstream) /\ todo = <<pull, push, l, put>>
    <2>1. Head(todo) = pull /\ Tail(todo) = <<push, l, put>> /\ Tail(todo) # <<>>
      BY <1>2
    <2>2. LightAdding(<<push, l, put>>, p)
      BY <1>1, <1>2 DEF LightAdding
    <2> QED BY <1>1, <2>1, <2>2
  <1>3. CASE Fills(l, put.location.upstream) /\ todo = <<push, l, put>>
    <2>1. Head(todo) = push /\ Tail(todo) = <<l, put>> /\ Tail(todo) # <<>>
      BY <1>3
    <2>2. LightAdding(<<l, put>>, p)
      BY <1>1, <1>3 DEF LightAdding
    <2> QED BY <1>1, <2>1, <2>2
  <1>4. CASE Fills(l, put.location.upstream) /\ todo = <<l, put>>
    BY <1>1, <1>4
  <1>5. CASE Lit(put.location) /\ todo = <<pull, push, put>>
    <2>1. Head(todo) = pull /\ Tail(todo) = <<push, put>> /\ Tail(todo) # <<>>
      BY <1>5
    <2>2. LightAdding(<<push, put>>, p)
      BY <1>1, <1>5 DEF LightAdding
    <2> QED BY <1>1, <2>1, <2>2
  <1>6. CASE Lit(put.location) /\ todo = <<push, put>>
    <2>1. Head(todo) = push /\ Tail(todo) = <<put>> /\ Tail(todo) # <<>>
      BY <1>6
    <2>2. LightAdding(<<put>>, p)
      BY <1>1, <1>6 DEF LightAdding
    <2> QED BY <1>1, <2>1, <2>2
  <1>7. CASE Lit(put.location) /\ todo = <<put>>
    BY <1>1, <1>7
  <1> QED BY <1>1, <1>2, <1>3, <1>4, <1>5, <1>6, <1>7

(* A call that leaves the configuration as it is.                          *)
LEMMA QuietGoes ==
    ASSUME TypeInv, NEW r \in Requests, NEW p \in Paths, p = req[r].path,
           UNCHANGED <<location, upstream, outspelled>>, NEW t, t # <<>>, Went(r, t), NEW w,
           w = req[r].whole, p \notin torn => Backed(p),
           LightAdding(t, p) \/ (p = Root /\ LightBinding(t))
    PROVE  LightGoes(r, p)
  <1>1. \A q : Backed(q) => Backed(q)'
    BY DEF Backed, Lit
  <1>2. torn' = torn
    BY DEF Went
  <1>3. LightAdding(t, p) => LightAdding(t, p)'
    BY DEF LightAdding, Lit
  <1>4. LightBinding(t) => LightBinding(t)'
    BY <1>1 DEF LightBinding
  <1>5. LightOf(w, t, p)'
    BY <1>1, <1>2, <1>3, <1>4 DEF LightOf
  <1>6. LightStage(r)'
    BY <1>5, LightOn
  <1> QED BY <1>1, <1>6 DEF LightGoes, Kept

LEMMA LightAddingGoes ==
    ASSUME TypeInv, NEW r \in Requests, Busy(r), Effect(r), NEW p \in Paths, p = req[r].path,
           p \notin torn => Backed(p), LightAdding(req[r].todo, p)
    PROVE  LightGoes(r, p)
  <1>1. PICK todo, w : todo = req[r].todo /\ w = req[r].whole
    OBVIOUS
  <1>2. Pending(r) = Head(todo)
    BY <1>1 DEF Pending
  <1>3. CASE /\ LightAdding(Tail(todo), p) /\ Tail(todo) # <<>>
             /\ \/ Head(todo) = Pull(p, FALSE)
                \/ \E to \in Destinations \cup Contents : Head(todo) = Push(p, Custom(to))
    <2>1. \/ Pending(r).call = "pull"
          \/ Pending(r).call = "push"
      BY <1>2, <1>3 DEF Pull, Push
    <2>2. \/ Raised(r)
          \/ Went(r, Tail(todo)) /\ UNCHANGED <<location, upstream, outspelled>>
      BY <1>1, <2>1, OnPull, OnPush
    <2>3. CASE Raised(r)
      BY <2>3 DEF LightGoes
    <2>4. CASE Went(r, Tail(todo)) /\ UNCHANGED <<location, upstream, outspelled>>
      BY <1>1, <1>3, <2>4, QuietGoes
    <2> QED BY <2>2, <2>3, <2>4
  <1>4. ASSUME NEW l, NEW put, put.call = "put", Fills(l, put.location.upstream),
               todo = <<l, put>>
        PROVE  LightGoes(r, p)
    <2>0. Head(todo) = l /\ Tail(todo) = <<put>>
      BY <1>4
    <2>1. /\ UNCHANGED location /\ Steady
          /\ \/ Went(r, <<put>>) /\ upstream'[put.location.upstream] # {}
             \/ \E c : Fills(c, put.location.upstream) /\ Went(r, <<c>> \o <<put>>)
      BY <1>1, <1>2, <1>4, <2>0, FillsGo
    <2>2. Kept(p)
      BY <2>1, SteadyKeeps
    <2>3. Backed(p) => Backed(p)'
      BY <2>1, LocationsTyped DEF Steady, Backed
    <2>4. PICK to : to \in Destinations \cup Contents
      BY <1>1 DEF LightAdding
    <2>5. CASE Went(r, <<put>>) /\ upstream'[put.location.upstream] # {}
      <3>1. put.location.upstream \in Addresses
        <4>1. l \in CallsOf(p)
          BY <1>2, <2>0, BusyPending
        <4> QED BY <1>4, <4>1, Parameters DEF Fills, Ups
      <3>2. Lit(put.location)'
        BY <2>5, <3>1 DEF Lit
      <3>3. LightAdding(<<put>>, p)'
        BY <1>4, <2>4, <3>2 DEF LightAdding
      <3>4. torn' = torn /\ <<put>> # <<>>
        BY <2>5 DEF Went
      <3>5. LightOf(w, <<put>>, p)'
        BY <2>3, <3>3, <3>4 DEF LightOf
      <3>6. LightStage(r)'
        BY <1>1, <2>5, <3>4, <3>5, LightOn
      <3> QED BY <2>2, <2>5, <3>4, <3>6 DEF LightGoes
    <2>6. ASSUME NEW c, Fills(c, put.location.upstream), Went(r, <<c>> \o <<put>>)
          PROVE  LightGoes(r, p)
      <3>1. Went(r, <<c, put>>)
        BY <2>6, Join11
      <3>2. <<c, put>> # <<>>
        OBVIOUS
      <3>3. LightAdding(<<c, put>>, p)'
        BY <1>4, <2>4, <2>6 DEF LightAdding
      <3>4. torn' = torn
        BY <3>1, <3>2 DEF Went
      <3>5. LightOf(w, <<c, put>>, p)'
        BY <2>3, <3>3, <3>4 DEF LightOf
      <3>6. LightStage(r)'
        BY <1>1, <3>1, <3>2, <3>5, LightOn
      <3> QED BY <2>2, <3>1, <3>2, <3>6 DEF LightGoes
    <2> QED BY <2>1, <2>5, <2>6
  <1>5. ASSUME NEW put, put.call = "put", Lit(put.location), todo = <<put>>
        PROVE  LightGoes(r, p)
    <2>0. Head(todo) = put /\ Tail(todo) = <<>>
      BY <1>5
    <2>1. /\ Went(r, <<>>) /\ UNCHANGED <<upstream, outspelled>>
          /\ location' = [location EXCEPT ![p] = put.location]
      BY <1>1, <1>2, <1>5, <2>0, OnPut
    <2>2. location'[p] = put.location /\ \A q \in Paths \ {p} : location'[q] = location[q]
      BY <2>1, LocationsTyped
    <2>3. Backed(p)'
      BY <1>5, <2>1, <2>2 DEF Backed, Lit
    <2>4. Kept(p)
      BY <2>1, <2>2, SteadyStays, SteadyKeeps
    <2> QED BY <2>1, <2>3, <2>4 DEF LightGoes
  <1>6. LightAdding(todo, p)
    BY <1>1
  <1>7. \/ /\ LightAdding(Tail(todo), p) /\ Tail(todo) # <<>>
           /\ \/ Head(todo) = Pull(p, FALSE)
              \/ \E to \in Destinations \cup Contents : Head(todo) = Push(p, Custom(to))
        \/ \E l, put : put.call = "put" /\ Fills(l, put.location.upstream) /\ todo = <<l, put>>
        \/ \E put : put.call = "put" /\ Lit(put.location) /\ todo = <<put>>
    BY <1>6, AddingAhead
  <1> QED BY <1>3, <1>4, <1>5, <1>7

LEMMA LightBindingGoes ==
    ASSUME TypeInv, NEW r \in Requests, Busy(r), Effect(r), NEW p \in Paths, p = req[r].path,
           p \notin torn => Backed(p), p = Root, LightBinding(req[r].todo)
    PROVE  LightGoes(r, p)
  <1>0. PICK todo, w : todo = req[r].todo /\ w = req[r].whole
    OBVIOUS
  <1>1. PICK a, l, put, pull, store :
           /\ a \in AppHosts
           /\ put = Put(Root, Proxy(a, Default)) /\ pull = Pull(Root, FALSE)
           /\ store = StoreBinding(a)
           /\ \/ Fills(l, Default) /\ todo = <<l, put, pull, store>>
              \/ upstream[Default] # {} /\ todo = <<put, pull, store>>
              \/ Backed(Root) /\ todo = <<pull, store>>
              \/ Backed(Root) /\ todo = <<store>>
    BY <1>0 DEF LightBinding
  <1>2. Pending(r) = Head(todo)
    BY <1>0 DEF Pending
  <1>3. ASSUME NEW t, t # <<>>, Went(r, t), LightBinding(t)', Backed(p) => Backed(p)', Kept(p)
        PROVE  LightGoes(r, p)
    <2>1. torn' = torn
      BY <1>3 DEF Went
    <2>2. LightOf(w, t, p)'
      BY <1>3, <2>1 DEF LightOf
    <2>3. LightStage(r)'
      BY <1>0, <1>3, <2>2, LightOn
    <2> QED BY <1>3, <2>3 DEF LightGoes
  <1>4. CASE Fills(l, Default) /\ todo = <<l, put, pull, store>>
    <2>0. Head(todo) = l /\ Tail(todo) = <<put, pull, store>>
      BY <1>4
    <2>1. /\ UNCHANGED location /\ Steady
          /\ \/ Went(r, <<put, pull, store>>) /\ upstream'[Default] # {}
             \/ \E c : Fills(c, Default) /\ Went(r, <<c>> \o <<put, pull, store>>)
      BY <1>0, <1>2, <1>4, <2>0, FillsGo
    <2>2. Kept(p)
      BY <2>1, SteadyKeeps
    <2>3. Backed(p) => Backed(p)'
      BY <2>1, LocationsTyped DEF Steady, Backed
    <2>4. CASE Went(r, <<put, pull, store>>) /\ upstream'[Default] # {}
      <3>1. LightBinding(<<put, pull, store>>)'
        BY <1>1, <2>4 DEF LightBinding
      <3>2. <<put, pull, store>> # <<>>
        OBVIOUS
      <3> QED BY <1>3, <2>2, <2>3, <2>4, <3>1, <3>2
    <2>5. ASSUME NEW c, Fills(c, Default), Went(r, <<c>> \o <<put, pull, store>>)
          PROVE  LightGoes(r, p)
      <3>1. Went(r, <<c, put, pull, store>>)
        BY <2>5, Join13
      <3>2. LightBinding(<<c, put, pull, store>>)'
        BY <1>1, <2>5 DEF LightBinding
      <3>3. <<c, put, pull, store>> # <<>>
        OBVIOUS
      <3> QED BY <1>3, <2>2, <2>3, <3>1, <3>2, <3>3
    <2> QED BY <2>1, <2>4, <2>5
  <1>5. CASE upstream[Default] # {} /\ todo = <<put, pull, store>>
    <2>0. Head(todo) = put /\ Tail(todo) = <<pull, store>> /\ <<pull, store>> # <<>>
      BY <1>5
    <2>1. put.call = "put" /\ put.location = Proxy(a, Default)
      BY <1>1 DEF Put
    <2>2. /\ Went(r, <<pull, store>>) /\ UNCHANGED <<upstream, outspelled>>
          /\ location' = [location EXCEPT ![p] = Proxy(a, Default)]
      BY <1>0, <1>2, <2>0, <2>1, OnPut
    <2>3. location'[p] = Proxy(a, Default) /\ \A q \in Paths \ {p} : location'[q] = location[q]
      BY <2>2, LocationsTyped
    <2>4. Backed(p)'
      BY <1>5, <2>2, <2>3, AddressTypes DEF Backed, Lit, Proxy
    <2>5. Kept(p)
      BY <2>2, <2>3, SteadyStays, SteadyKeeps
    <2>6. LightBinding(<<pull, store>>)'
      BY <1>1, <2>4 DEF LightBinding
    <2> QED BY <1>3, <2>0, <2>2, <2>4, <2>5, <2>6
  <1>6. CASE Backed(Root) /\ todo = <<pull, store>>
    <2>0. Head(todo) = pull /\ Tail(todo) = <<store>> /\ <<store>> # <<>>
      BY <1>6
    <2>1. pull.call = "pull" /\ ~pull.strict
      BY <1>1 DEF Pull
    <2>2. Went(r, <<store>>) /\ UNCHANGED <<location, upstream, outspelled>>
      BY <1>0, <1>2, <2>0, <2>1, OnPull
    <2>3. LightBinding(<<store>>)
      BY <1>1, <1>6 DEF LightBinding
    <2> QED BY <1>0, <2>0, <2>2, <2>3, QuietGoes
  <1>7. CASE Backed(Root) /\ todo = <<store>>
    <2>0. Head(todo) = store /\ Tail(todo) = <<>>
      BY <1>7
    <2>1. store.call = "store_binding"
      BY <1>1 DEF StoreBinding
    <2>2. Went(r, <<>>) /\ UNCHANGED <<location, upstream, outspelled>>
      BY <1>0, <1>2, <2>0, <2>1, OnStore
    <2>3. Backed(p)' /\ Kept(p)
      BY <1>1, <1>7, <2>2 DEF Backed, Lit, Kept
    <2> QED BY <2>2, <2>3 DEF LightGoes
  <1> QED BY <1>1, <1>4, <1>5, <1>6, <1>7

(* No other path that is in order proxies to the default upstream.         *)
LEMMA DefaultUnused ==
    ASSUME TypeInv, RoutesInv, RouteInv, \A q \in Requests : Busy(q) => req[q].path = Root
    PROVE  Unused(Root, Default)
  <1> SUFFICES ASSUME NEW q \in Paths \ (torn \cup {Root}), location[q].kind = "proxy"
               PROVE  location[q].upstream # Default
    BY DEF Unused
  <1>1. Agrees(q)
    BY DEF RoutesInv, InOrder
  <1>2. entries[q] # <<>> /\ location[q] = Meant(Head(entries[q])) /\ entries[q] \in Seq(RouteEntry)
    BY <1>1 DEF Agrees, RouteInv
  <1>3. PICK e : e = Head(entries[q])
    OBVIOUS
  <1>4. e \in RouteEntry
    BY <1>2, <1>3, HeadTailProperties
  <1>5. e.custom /\ e.to \in Destinations \cup Contents
    BY <1>4 DEF RouteEntry
  <1>6. CASE e.to \in Contents
    BY <1>2, <1>3, <1>5, <1>6 DEF Meant, Content
  <1>7. CASE e.to \notin Contents
    <2>1. HostOf(e.to) # Default
      BY <1>5, <1>7, ConstantsAssumption
    <2>2. Meant(e) = Proxy(e.to, HostOf(e.to))
      BY <1>5, <1>7 DEF Meant
    <2> QED BY <1>2, <1>3, <2>1, <2>2 DEF Proxy
  <1> QED BY <1>6, <1>7

(* What a list or a save of u by a request for p does to the upstreams.    *)
Saved(p, u) ==
    /\ \A x \in Addresses \ {u} :
           upstream'[x] = upstream[x] /\ (x \in outspelled' <=> x \in outspelled)
    /\ \/ upstream'[u] # {}
       \/ upstream'[u] = upstream[u] /\ outspelled' = outspelled
       \/ SpeltOtherwise(p, u) => u \in outspelled'

(* A save to an upstream that no other path proxies to as it is named.     *)
LEMMA UnusedKeeps ==
    ASSUME TypeInv, NEW p \in Paths, NEW u, Unused(p, u), UNCHANGED location, Saved(p, u)
    PROVE  Kept(p)
  <1> SUFFICES ASSUME NEW q \in Paths \ (torn \cup {p}), Backed(q)
               PROVE  Backed(q)'
    BY DEF Kept
  <1>1. CASE location[q].kind # "proxy"
    BY <1>1 DEF Backed, Lit
  <1>2. CASE location[q].kind = "proxy" /\ location[q].upstream # u
    <2>1. PICK v : v = location[q].upstream
      OBVIOUS
    <2>2. /\ v \in Addresses \ {u}
          /\ upstream[v] # {} \/ (v \in outspelled /\ location[q].to # v)
      BY <1>2, <2>1 DEF Backed, Lit
    <2>3. upstream'[v] = upstream[v] /\ (v \in outspelled => v \in outspelled')
      BY <2>2 DEF Saved
    <2> QED BY <2>1, <2>2, <2>3 DEF Backed, Lit
  <1>3. CASE location[q].kind = "proxy" /\ location[q].upstream = u
    <2>1. u \in Addresses /\ location[q].to # u
      BY <1>3 DEF Backed, Lit, Unused
    <2>2. SpeltOtherwise(p, u)
      BY <1>3, <2>1 DEF SpeltOtherwise
    <2> QED BY <1>3, <2>1, <2>2 DEF Saved, Backed, Lit
  <1> QED BY <1>1, <1>2, <1>3

(* A list or a save of an upstream.                                        *)
LEMMA UpsGo ==
    ASSUME TypeInv, NEW r \in Requests, Busy(r), Effect(r), Pending(r).call \in Ups,
           NEW u, u = Pending(r).upstream, NEW p, p = req[r].path
    PROVE  /\ UNCHANGED location /\ Saved(p, u)
           /\ \/ Went(r, Tail(req[r].todo))
              \/ \E c : /\ c.call \in Ups /\ c.upstream = u
                        /\ Went(r, <<c>> \o Tail(req[r].todo))
  <1>1. CASE Pending(r).call = "save"
    <2>1. PICK ss : ss = Pending(r).servers
      OBVIOUS
    <2>2. /\ Went(r, Tail(req[r].todo)) /\ UNCHANGED location
          /\ upstream' = [upstream EXCEPT ![u] = ss]
          /\ outspelled' = IF ss = {} /\ SpeltOtherwise(p, u)
                           THEN outspelled \cup {u} ELSE outspelled \ {u}
      BY <1>1, <2>1, OnSave
    <2>3. u \in Addresses
      BY <1>1, BusyPending, Parameters
    <2>4. upstream'[u] = ss /\ \A x \in Addresses \ {u} : upstream'[x] = upstream[x]
      BY <2>2, <2>3, LocationsTyped
    <2>5. Saved(p, u)
      BY <2>2, <2>4 DEF Saved
    <2> QED BY <2>2, <2>5
  <1>2. CASE Pending(r).call = "list"
    <2>1. PICK x : x = Computed(Pending(r))
      OBVIOUS
    <2>2. x.call \in Ups /\ x.upstream = u
      BY <2>1 DEF Computed, Save, Ups
    <2>3. /\ UNCHANGED <<location, upstream, outspelled>>
          /\ Went(r, <<x>> \o Tail(req[r].todo))
      BY <1>2, <2>1, OnList
    <2>4. Saved(p, u)
      BY <2>3 DEF Saved
    <2> QED BY <2>2, <2>3, <2>4
  <1> QED BY <1>1, <1>2 DEF Ups

LEMMA LightUnbindingGoes ==
    ASSUME TypeInv, NEW r \in Requests, Busy(r), Effect(r), NEW p \in Paths, p = req[r].path,
           p \notin torn => Backed(p), p = Root, Unused(p, Default), LightUnbinding(req[r].todo)
    PROVE  LightGoes(r, p)
  <1>0. PICK todo, w : todo = req[r].todo /\ w = req[r].whole
    OBVIOUS
  <1>1. PICK l, pull, set, put :
           /\ pull = Pull(Root, TRUE) /\ set = SetApp(Nothing) /\ put = Put(Root, Plain("not_bound"))
           /\ l.call \in Ups \cup {"parse_none"} /\ (l.call \in Ups => l.upstream = Default)
           /\ \/ todo = <<pull, set, put, l>>
              \/ todo = <<set, put, l>>
              \/ todo = <<put, l>>
              \/ location[Root].kind # "proxy" /\ todo = <<l>>
    BY <1>0 DEF LightUnbinding
  <1>2. Pending(r) = Head(todo)
    BY <1>0 DEF Pending
  <1>3. ASSUME NEW t, t # <<>>, Went(r, t), LightUnbinding(t)', Backed(p) => Backed(p)', Kept(p)
        PROVE  LightGoes(r, p)
    <2>1. torn' = torn
      BY <1>3 DEF Went
    <2>2. LightOf(w, t, p)'
      BY <1>3, <2>1 DEF LightOf
    <2>3. LightStage(r)'
      BY <1>0, <1>3, <2>2, LightOn
    <2> QED BY <1>3, <2>3 DEF LightGoes
  <1>4. UNCHANGED <<location, upstream, outspelled>> => Kept(p) /\ (Backed(p) => Backed(p)')
    BY DEF Kept, Backed, Lit
  <1>5. CASE todo = <<pull, set, put, l>>
    <2>0. Head(todo) = pull /\ Tail(todo) = <<set, put, l>> /\ <<set, put, l>> # <<>>
      BY <1>5
    <2>1. pull.call = "pull"
      BY <1>1 DEF Pull
    <2>2. \/ Raised(r)
          \/ Went(r, <<set, put, l>>) /\ UNCHANGED <<location, upstream, outspelled>>
      BY <1>0, <1>2, <2>0, <2>1, OnPull
    <2>3. LightUnbinding(<<set, put, l>>)'
      BY <1>1 DEF LightUnbinding
    <2>4. CASE Raised(r)
      BY <2>4 DEF LightGoes
    <2>5. CASE Went(r, <<set, put, l>>) /\ UNCHANGED <<location, upstream, outspelled>>
      BY <1>3, <1>4, <2>0, <2>3, <2>5
    <2> QED BY <2>2, <2>4, <2>5
  <1>6. CASE todo = <<set, put, l>>
    <2>0. Head(todo) = set /\ Tail(todo) = <<put, l>> /\ <<put, l>> # <<>>
      BY <1>6
    <2>1. set.call = "set_app"
      BY <1>1 DEF SetApp
    <2>2. Went(r, <<put, l>>) /\ UNCHANGED <<location, upstream, outspelled>>
      BY <1>0, <1>2, <2>0, <2>1, OnSetApp
    <2>3. LightUnbinding(<<put, l>>)'
      BY <1>1 DEF LightUnbinding
    <2> QED BY <1>3, <1>4, <2>0, <2>2, <2>3
  <1>7. CASE todo = <<put, l>>
    <2>0. Head(todo) = put /\ Tail(todo) = <<l>> /\ <<l>> # <<>>
      BY <1>7
    <2>1. put.call = "put" /\ put.location = Plain("not_bound")
      BY <1>1 DEF Put
    <2>2. /\ Went(r, <<l>>) /\ UNCHANGED <<upstream, outspelled>>
          /\ location' = [location EXCEPT ![p] = Plain("not_bound")]
      BY <1>0, <1>2, <2>0, <2>1, OnPut
    <2>3. location'[p] = Plain("not_bound") /\ \A q \in Paths \ {p} : location'[q] = location[q]
      BY <2>2, LocationsTyped
    <2>4. location'[p].kind # "proxy"
      BY <2>3 DEF Plain
    <2>5. Backed(p)'
      BY <2>4 DEF Backed, Lit
    <2>6. Kept(p)
      BY <2>2, <2>3, SteadyStays, SteadyKeeps
    <2>7. LightUnbinding(<<l>>)'
      BY <1>1, <2>4 DEF LightUnbinding
    <2> QED BY <1>3, <2>0, <2>2, <2>5, <2>6, <2>7
  <1>8. CASE location[Root].kind # "proxy" /\ todo = <<l>>
    <2>0. Head(todo) = l /\ Tail(todo) = <<>>
      BY <1>8
    <2>1. CASE l.call = "parse_none"
      <3>1. Raised(r)
        BY <1>2, <2>0, <2>1, OnParseNone
      <3> QED BY <3>1 DEF LightGoes
    <2>2. CASE l.call \in Ups
      <3>0. Pending(r) = l /\ l.upstream = Default
        BY <1>1, <1>2, <2>0, <2>2
      <3>1. /\ UNCHANGED location /\ Saved(p, Default)
            /\ \/ Went(r, <<>>)
               \/ \E c : c.call \in Ups /\ c.upstream = Default /\ Went(r, <<c>> \o <<>>)
        BY <1>0, <2>0, <2>2, <3>0, UpsGo
      <3>2. Kept(p)
        BY <3>1, UnusedKeeps
      <3>3. Backed(p)' /\ location'[Root].kind # "proxy"
        BY <1>8, <3>1 DEF Backed, Lit
      <3>4. CASE Went(r, <<>>)
        BY <3>2, <3>3, <3>4 DEF LightGoes
      <3>5. ASSUME NEW c, c.call \in Ups, c.upstream = Default, Went(r, <<c>> \o <<>>)
            PROVE  LightGoes(r, p)
        <4>1. Went(r, <<c>>)
          BY <3>5, Join10
        <4>2. LightUnbinding(<<c>>)'
          BY <3>3, <3>5 DEF LightUnbinding
        <4>3. <<c>> # <<>>
          OBVIOUS
        <4> QED BY <1>3, <3>2, <3>3, <4>1, <4>2, <4>3
      <3> QED BY <3>1, <3>4, <3>5
    <2> QED BY <1>1, <2>1, <2>2
  <1> QED BY <1>1, <1>5, <1>6, <1>7, <1>8

LEMMA LightRemovingGoes ==
    ASSUME TypeInv, NEW r \in Requests, Busy(r), Effect(r), NEW p \in Paths, p = req[r].path,
           p # Root, LightRemoving(req[r].todo, p)
    PROVE  LightGoes(r, p)
  <1>0. PICK todo, w : todo = req[r].todo /\ w = req[r].whole
    OBVIOUS
  <1>1. PICK l, pull, delete :
           /\ pull = Pull(p, TRUE) /\ delete = Delete(p)
           /\ \/ l.call \in Ups /\ Unused(p, l.upstream) /\ todo = <<l, pull, delete>>
              \/ todo = <<pull, delete>>
              \/ todo = <<delete>>
    BY <1>0 DEF LightRemoving
  <1>2. Pending(r) = Head(todo)
    BY <1>0 DEF Pending
  <1>3. ASSUME NEW t, t # <<>>, Went(r, t), LightRemoving(t, p)', Kept(p)
        PROVE  LightGoes(r, p)
    <2>1. LightOf(w, t, p)'
      BY <1>3 DEF LightOf
    <2>2. LightStage(r)'
      BY <1>0, <1>3, <2>1, LightOn
    <2> QED BY <1>3, <2>2 DEF LightGoes
  <1>4. CASE l.call \in Ups /\ Unused(p, l.upstream) /\ todo = <<l, pull, delete>>
    <2>0. Head(todo) = l /\ Tail(todo) = <<pull, delete>> /\ <<pull, delete>> # <<>>
      BY <1>4
    <2>1. PICK u : u = l.upstream
      OBVIOUS
    <2>2. /\ UNCHANGED location /\ Saved(p, u)
          /\ \/ Went(r, <<pull, delete>>)
             \/ \E c : c.call \in Ups /\ c.upstream = u /\ Went(r, <<c>> \o <<pull, delete>>)
      BY <1>0, <1>2, <1>4, <2>0, <2>1, UpsGo
    <2>3. Kept(p)
      BY <1>4, <2>1, <2>2, UnusedKeeps
    <2>4. CASE Went(r, <<pull, delete>>)
      <3>1. LightRemoving(<<pull, delete>>, p)'
        BY <1>1 DEF LightRemoving
      <3> QED BY <1>3, <2>0, <2>3, <2>4, <3>1
    <2>5. ASSUME NEW c, c.call \in Ups, c.upstream = u, Went(r, <<c>> \o <<pull, delete>>)
          PROVE  LightGoes(r, p)
      <3>1. Went(r, <<c, pull, delete>>)
        BY <2>5, Join12
      <3>2. <<c, pull, delete>> # <<>>
        OBVIOUS
      <3>3. torn' = torn
        BY <3>1, <3>2 DEF Went
      <3>4. Unused(p, c.upstream)'
        BY <1>4, <2>1, <2>2, <2>5, <3>3 DEF Unused
      <3>5. LightRemoving(<<c, pull, delete>>, p)'
        BY <1>1, <2>5, <3>4 DEF LightRemoving
      <3> QED BY <1>3, <2>3, <3>1, <3>2, <3>5
    <2> QED BY <2>2, <2>4, <2>5
  <1>5. CASE todo = <<pull, delete>>
    <2>0. Head(todo) = pull /\ Tail(todo) = <<delete>> /\ <<delete>> # <<>>
      BY <1>5
    <2>1. pull.call = "pull"
      BY <1>1 DEF Pull
    <2>2. \/ Raised(r)
          \/ Went(r, <<delete>>) /\ UNCHANGED <<location, upstream, outspelled>>
      BY <1>0, <1>2, <2>0, <2>1, OnPull
    <2>3. LightRemoving(<<delete>>, p)'
      BY <1>1 DEF LightRemoving
    <2>4. CASE Raised(r)
      BY <2>4 DEF LightGoes
    <2>5. CASE Went(r, <<delete>>) /\ UNCHANGED <<location, upstream, outspelled>>
      <3>1. Kept(p)
        BY <2>5 DEF Kept, Backed, Lit
      <3> QED BY <1>3, <2>0, <2>3, <2>5, <3>1
    <2> QED BY <2>2, <2>4, <2>5
  <1>6. CASE todo = <<delete>>
    <2>0. Head(todo) = delete /\ Tail(todo) = <<>>
      BY <1>6
    <2>1. delete.call = "delete"
      BY <1>1 DEF Delete
    <2>2. /\ Went(r, <<>>) /\ UNCHANGED <<upstream, outspelled>>
          /\ location' = [location EXCEPT ![p] = Plain("none")]
      BY <1>0, <1>2, <2>0, <2>1, OnDelete
    <2>3. location'[p] = Plain("none") /\ \A q \in Paths \ {p} : location'[q] = location[q]
      BY <2>2, LocationsTyped
    <2>4. Backed(p)'
      BY <2>3 DEF Plain, Backed, Lit
    <2>5. Kept(p)
      BY <2>2, <2>3, SteadyStays, SteadyKeeps
    <2> QED BY <2>2, <2>4, <2>5 DEF LightGoes
  <1> QED BY <1>1, <1>4, <1>5, <1>6

LEMMA LightNamingGoes ==
    ASSUME TypeInv, NEW r \in Requests, Busy(r), Effect(r), NEW p \in Paths, p = req[r].path,
           p \notin torn => Backed(p), ~req[r].whole, NEW a, req[r].todo = <<SetApp(a)>>
    PROVE  LightGoes(r, p)
  <1>1. Pending(r).call = "set_app" /\ Tail(req[r].todo) = <<>>
    BY DEF Pending, SetApp
  <1>2. Went(r, <<>>) /\ UNCHANGED <<location, upstream, outspelled>>
    BY <1>1, OnSetApp
  <1>3. torn' = torn
    BY <1>2 DEF Went
  <1>4. Kept(p) /\ (Backed(p) => Backed(p)')
    BY <1>2 DEF Kept, Backed, Lit
  <1> QED BY <1>2, <1>3, <1>4 DEF LightGoes

LEMMA LightStageGoes ==
    ASSUME TypeInv, NEW r \in Requests, Busy(r), Effect(r), NEW p \in Paths, p = req[r].path,
           LightStage(r), p = Root => Unused(p, Default)
    PROVE  LightGoes(r, p)
  <1>1. LightOf(req[r].whole, req[r].todo, p)
    BY DEF LightStage
  <1>2. CASE p # Root /\ LightRemoving(req[r].todo, p)
    BY <1>2, LightRemovingGoes
  <1>3. ASSUME p \notin torn => Backed(p),
               \/ LightAdding(req[r].todo, p)
               \/ p = Root /\ LightBinding(req[r].todo)
               \/ p = Root /\ LightUnbinding(req[r].todo)
               \/ ~req[r].whole /\ \E a \in AppHosts \cup {Nothing} : req[r].todo = <<SetApp(a)>>
        PROVE  LightGoes(r, p)
    BY <1>3, LightAddingGoes, LightBindingGoes, LightUnbindingGoes, LightNamingGoes
  <1> QED BY <1>1, <1>2, <1>3 DEF LightOf

KnownEntry == {e \in Entry : e.custom => e.to \in Destinations \cup Contents}

(* What a request pushes is a route, and it can do without a $pull whose   *)
(* failure is swallowed.                                                   *)
LEMMA LightAhead ==
    ASSUME NEW w, NEW p, NEW todo, LightOf(w, todo, p)
    PROVE  /\ Head(todo).call = "push" =>
                  \E to \in Destinations \cup Contents : Head(todo).entry = Custom(to)
           /\ Head(todo).call = "pull" /\ ~Head(todo).strict =>
                  /\ Tail(todo) # <<>>
                  /\ LightAdding(Tail(todo), p) \/ (p = Root /\ LightBinding(Tail(todo)))
  <1>1. ASSUME LightRemoving(todo, p)
        PROVE  \/ Head(todo).call \in Ups \cup {"delete"}
               \/ Head(todo).call = "pull" /\ Head(todo).strict
    <2>1. CASE \E l : l.call \in Ups /\ todo = <<l, Pull(p, TRUE), Delete(p)>>
      BY <2>1
    <2>2. CASE todo = <<Pull(p, TRUE), Delete(p)>>
      BY <2>2 DEF Pull
    <2>3. CASE todo = <<Delete(p)>>
      BY <2>3 DEF Delete
    <2> QED BY <1>1, <2>1, <2>2, <2>3 DEF LightRemoving
  <1>2. ASSUME LightUnbinding(todo)
        PROVE  \/ Head(todo).call \in Ups \cup {"set_app", "put", "parse_none"}
               \/ Head(todo).call = "pull" /\ Head(todo).strict
    <2>1. PICK l, pull, set, put :
             /\ pull = Pull(Root, TRUE) /\ set = SetApp(Nothing) /\ put = Put(Root, Plain("not_bound"))
             /\ l.call \in Ups \cup {"parse_none"}
             /\ \/ todo = <<pull, set, put, l>>
                \/ todo = <<set, put, l>>
                \/ todo = <<put, l>>
                \/ todo = <<l>>
      BY <1>2 DEF LightUnbinding
    <2>2. pull.call = "pull" /\ pull.strict /\ set.call = "set_app" /\ put.call = "put"
      BY <2>1 DEF Pull, SetApp, Put
    <2>3. CASE todo = <<pull, set, put, l>>
      BY <2>2, <2>3
    <2>4. CASE todo = <<set, put, l>>
      BY <2>2, <2>4
    <2>5. CASE todo = <<put, l>>
      BY <2>2, <2>5
    <2>6. CASE l.call \in Ups \cup {"parse_none"} /\ todo = <<l>>
      BY <2>6
    <2> QED BY <2>1, <2>3, <2>4, <2>5, <2>6
  <1>3. ASSUME LightBinding(todo)
        PROVE  \/ Head(todo).call \in Ups \cup {"put", "store_binding"}
               \/ LightBinding(Tail(todo)) /\ Tail(todo) # <<>>
    <2>1. PICK a, l, put, pull, store :
             /\ a \in AppHosts /\ put = Put(Root, Proxy(a, Default)) /\ pull = Pull(Root, FALSE)
             /\ store = StoreBinding(a)
             /\ \/ l.call \in Ups /\ todo = <<l, put, pull, store>>
                \/ todo = <<put, pull, store>>
                \/ Backed(Root) /\ todo = <<pull, store>>
                \/ todo = <<store>>
      BY <1>3 DEF LightBinding, Fills
    <2>2. put.call = "put" /\ store.call = "store_binding"
      BY <2>1 DEF Put, StoreBinding
    <2>3. CASE Backed(Root) /\ todo = <<pull, store>>
      <3>1. Tail(todo) = <<store>> /\ Tail(todo) # <<>>
        BY <2>3
      <3>2. LightBinding(<<store>>)
        BY <2>1, <2>3 DEF LightBinding
      <3> QED BY <3>1, <3>2
    <2>4. CASE l.call \in Ups /\ todo = <<l, put, pull, store>>
      BY <2>4
    <2>5. CASE todo = <<put, pull, store>>
      BY <2>2, <2>5
    <2>6. CASE todo = <<store>>
      BY <2>2, <2>6
    <2> QED BY <2>1, <2>3, <2>4, <2>5, <2>6
  <1>4. ASSUME LightAdding(todo, p)
        PROVE  \/ Head(todo).call \in Ups \cup {"put"}
               \/ LightAdding(Tail(todo), p) /\ Tail(todo) # <<>>
    <2>1. CASE \E l, put : put.call = "put" /\ Fills(l, put.location.upstream) /\ todo = <<l, put>>
      BY <2>1 DEF Fills
    <2>2. CASE \E put : put.call = "put" /\ Lit(put.location) /\ todo = <<put>>
      BY <2>2
    <2> QED BY <1>4, <2>1, <2>2, AddingAhead
  <1>5. ASSUME LightAdding(todo, p), Head(todo).call = "push"
        PROVE  \E to \in Destinations \cup Contents : Head(todo).entry = Custom(to)
    <2>1. CASE \E l, put : put.call = "put" /\ Fills(l, put.location.upstream) /\ todo = <<l, put>>
      BY <1>5, <2>1 DEF Fills, Ups
    <2>2. CASE \E put : put.call = "put" /\ Lit(put.location) /\ todo = <<put>>
      BY <1>5, <2>2
    <2>3. CASE Head(todo) = Pull(p, FALSE)
      BY <1>5, <2>3 DEF Pull
    <2>4. CASE \E to \in Destinations \cup Contents : Head(todo) = Push(p, Custom(to))
      BY <2>4 DEF Push
    <2> QED BY <1>5, <2>1, <2>2, <2>3, <2>4, AddingAhead
  <1>6. ASSUME LightBinding(todo)
        PROVE  Head(todo).call # "push"
    <2>1. PICK a, l, put, pull, store :
             /\ put = Put(Root, Proxy(a, Default)) /\ pull = Pull(Root, FALSE)
             /\ store = StoreBinding(a)
             /\ \/ l.call \in Ups /\ todo = <<l, put, pull, store>>
                \/ todo = <<put, pull, store>>
                \/ todo = <<pull, store>>
                \/ todo = <<store>>
      BY <1>6 DEF LightBinding, Fills
    <2>2. put.call = "put" /\ store.call = "store_binding" /\ pull.call = "pull"
      BY <2>1 DEF Put, StoreBinding, Pull
    <2>3. CASE l.call \in Ups /\ todo = <<l, put, pull, store>>
      BY <2>3 DEF Ups
    <2>4. CASE todo = <<put, pull, store>>
      BY <2>2, <2>4
    <2>5. CASE todo = <<pull, store>>
      BY <2>2, <2>5
    <2>6. CASE todo = <<store>>
      BY <2>2, <2>6
    <2> QED BY <2>1, <2>3, <2>4, <2>5, <2>6
  <1>7. ASSUME NEW a, todo = <<SetApp(a)>>
        PROVE  Head(todo).call = "set_app"
    BY <1>7 DEF SetApp
  <1>8. \/ LightRemoving(todo, p) \/ LightAdding(todo, p) \/ LightUnbinding(todo)
        \/ p = Root /\ LightBinding(todo)
        \/ \E a : todo = <<SetApp(a)>>
    BY DEF LightOf
  <1>9. CASE LightRemoving(todo, p)
    BY <1>1, <1>9 DEF Ups
  <1>10. CASE LightAdding(todo, p)
    BY <1>4, <1>5, <1>10 DEF Ups
  <1>11. CASE LightUnbinding(todo)
    BY <1>2, <1>11 DEF Ups
  <1>12. CASE p = Root /\ LightBinding(todo)
    BY <1>3, <1>6, <1>12 DEF Ups
  <1>13. CASE \E a : todo = <<SetApp(a)>>
    BY <1>7, <1>13
  <1> QED BY <1>8, <1>9, <1>10, <1>11, <1>12, <1>13

(* The entries of the document are as many as a set can count.             *)
Refs == UNION {{p} \X DOMAIN entries[p] : p \in Paths}

LEMMA RefsFinite ==
    ASSUME NEW p \in Paths, IsFiniteSet(Refs), \A q \in Paths \ {p} : entries'[q] = entries[q],
           entries'[p] \in Seq(Entry)
    PROVE  IsFiniteSet(Refs')
  <1>1. PICK n, d : n = Len(entries'[p]) /\ d = DOMAIN entries'[p]
    OBVIOUS
  <1>2. n \in Nat /\ d = 1..n
    BY <1>1, LenProperties
  <1>3. IsFiniteSet({p}) /\ IsFiniteSet(d)
    <2>1. IsFiniteSet(1..n)
      BY <1>2, FS_Interval
    <2> QED BY <1>2, <2>1, FS_Singleton
  <1>4. IsFiniteSet({p} \X d)
    BY <1>3, FS_Product
  <1>5. IsFiniteSet(Refs \cup ({p} \X d))
    BY <1>4, FS_Union
  <1>6. Refs' \subseteq Refs \cup ({p} \X d)
    BY <1>1 DEF Refs
  <1> QED BY <1>5, <1>6, FS_Subset

(* A destination that is counted once is not an entry of two paths.        *)
LEMMA OneReference ==
    ASSUME TypeInv, IsFiniteSet(Refs), NEW a, LastReference(a), NEW p \in Paths, NEW q \in Paths,
           q # p, entries[p] # <<>>, Last(entries[p]).to = a,
           entries[q] # <<>>, Head(entries[q]).to = a
    PROVE  FALSE
  <1>1. PICK R : R = UNION {{x} \X {i \in DOMAIN entries[x] : entries[x][i].to = a} : x \in Paths}
    OBVIOUS
  <1>2. R \subseteq Refs
    BY <1>1 DEF Refs
  <1>3. IsFiniteSet(R)
    BY <1>2, FS_Subset
  <1>4. Cardinality(R) = 1
    BY <1>1 DEF LastReference
  <1>5. PICK x : R = {x}
    BY <1>3, <1>4, FS_Singleton
  <1>6. PICK s, t : s = entries[p] /\ t = entries[q]
    OBVIOUS
  <1>7. s \in Seq(Entry) /\ t \in Seq(Entry) /\ s # <<>> /\ t # <<>>
    BY <1>6 DEF TypeInv, TypeOK
  <1>8. Len(s) \in DOMAIN s /\ 1 \in DOMAIN t
    BY <1>7, LenProperties, EmptySeq
  <1>9. s[Len(s)].to = a /\ t[1].to = a
    BY <1>6, <1>7 DEF Last
  <1>10. <<p, Len(s)>> \in R /\ <<q, 1>> \in R
    BY <1>1, <1>6, <1>8, <1>9
  <1> QED BY <1>5, <1>10

(* One request at a time; it is at one of its stages, and every other path *)
(* that is in order proxies to an upstream with a server.                  *)
LightInv ==
    overlaps = 0 =>
        /\ \A r, q \in Requests : Busy(r) /\ Busy(q) => r = q
        /\ \A p \in Paths \ torn : (\A r \in Requests : Busy(r) => req[r].path # p) => Backed(p)
        /\ \A r \in Requests : Busy(r) => LightStage(r)
        /\ entries[Root] \in Seq(KnownEntry)

LEMMA Unreferenced ==
    ASSUME TypeInv, RoutesInv, RouteInv, IsFiniteSet(Refs),
           entries[Root] \in Seq(KnownEntry), \A r \in Requests : ~Busy(r),
           NEW p \in Paths \ {Root}, entries[p] # <<>>,
           NEW to, to = Last(entries[p]).to, to \notin Contents, LastReference(to)
    PROVE  Unused(p, to)
  <1> SUFFICES ASSUME NEW q \in Paths \ (torn \cup {p}), location[q].kind = "proxy"
               PROVE  location[q].upstream # to \/ location[q].to # to
    BY DEF Unused
  <1>1. to \in Destinations
    BY LastIsRoute
  <1>2. HostOf(to) # Default /\ Default = HostOf(Default)
    BY <1>1, ConstantsAssumption
  <1>3. to # Default
    BY <1>2
  <1>4. Agrees(q)
    BY DEF RoutesInv, InOrder
  <1>5. PICK e : e = Head(entries[q])
    OBVIOUS
  <1>6. entries[q] # <<>> /\ location[q] = Meant(e)
    BY <1>4, <1>5 DEF Agrees
  <1>7. e \in KnownEntry
    <2>1. RouteEntry \subseteq KnownEntry
      BY DEF RouteEntry, KnownEntry
    <2>2. CASE q = Root
      BY <1>5, <1>6, <2>2, HeadTailProperties
    <2>3. CASE q # Root
      <3>1. entries[q] \in Seq(RouteEntry)
        BY <2>3 DEF RouteInv
      <3>2. e \in RouteEntry
        BY <1>5, <1>6, <3>1, HeadTailProperties
      <3> QED BY <2>1, <3>2
    <2> QED BY <2>2, <2>3
  <1>8. CASE ~e.custom
    <2>1. Meant(e) = Proxy(e.to, Default)
      BY <1>8 DEF Meant
    <2> QED BY <1>3, <1>6, <2>1 DEF Proxy
  <1>9. CASE e.custom /\ e.to \in Contents
    <2>1. Meant(e) = Content(e.to)
      BY <1>9 DEF Meant
    <2> QED BY <1>6, <2>1 DEF Content
  <1>10. CASE e.custom /\ e.to \notin Contents
    <2>1. Meant(e) = Proxy(e.to, HostOf(e.to))
      BY <1>10 DEF Meant
    <2>2. e.to # to
      BY <1>5, <1>6, OneReference
    <2> QED BY <1>6, <2>1, <2>2 DEF Proxy
  <1> QED BY <1>8, <1>9, <1>10

LEMMA LightSame ==
    ASSUME UNCHANGED <<location, upstream, outspelled, torn>>, NEW w, NEW todo, NEW p, LightOf(w, todo, p)
    PROVE  LightOf(w, todo, p)'
  <1>1. LightAdding(todo, p) => LightAdding(todo, p)'
    BY DEF LightAdding, Lit
  <1>2. LightBinding(todo) => LightBinding(todo)'
    BY DEF LightBinding, Backed, Lit
  <1>3. LightUnbinding(todo) => LightUnbinding(todo)'
    BY DEF LightUnbinding
  <1>4. LightRemoving(todo, p) => LightRemoving(todo, p)'
    BY DEF LightRemoving, Unused
  <1>5. Backed(p) => Backed(p)'
    BY DEF Backed, Lit
  <1> QED BY <1>1, <1>2, <1>3, <1>4, <1>5 DEF LightOf

(* What every call does to the entries of "/".                             *)
LEMMA KnownStays ==
    ASSUME TypeInv, NEW r \in Requests, Busy(r), Effect(r), LightStage(r),
           entries[Root] \in Seq(KnownEntry)
    PROVE  entries'[Root] \in Seq(KnownEntry)
  <1>1. PICK p \in Paths : p = req[r].path
    BY BusyPending
  <1>2. PICK c, todo, w : c = Pending(r) /\ todo = req[r].todo /\ w = req[r].whole
    OBVIOUS
  <1>3. c \in CallsOf(p) /\ entries \in [Paths -> Seq(Entry)] /\ Root \in Paths
    BY <1>1, <1>2, BusyPending, AddressTypes DEF TypeInv, TypeOK
  <1>4. c = Head(todo) /\ LightOf(w, todo, p)
    BY <1>1, <1>2 DEF LightStage, Pending
  <1>5. CASE c.call = "push"
    <2>1. c.entry \in KnownEntry
      <3>1. PICK x \in Destinations \cup Contents : c.entry = Custom(x)
        BY <1>4, <1>5, LightAhead
      <3>2. c.entry \in Entry
        BY <1>3, <1>5, Parameters
      <3>3. c.entry.to = x
        BY <3>1 DEF Custom
      <3> QED BY <3>2, <3>3 DEF KnownEntry
    <2>2. entries' = [entries EXCEPT ![p] = Append(entries[p], c.entry)]
      BY <1>1, <1>2, <1>5, OnPush
    <2>3. entries'[Root] = entries[Root] \/ entries'[Root] = Append(entries[Root], c.entry)
      BY <1>3, <2>2
    <2> QED BY <2>1, <2>3, AppendProperties
  <1>6. CASE c.call = "store_binding"
    <2>1. PICK e : e = [to |-> c.app, custom |-> FALSE]
      OBVIOUS
    <2>2. e \in KnownEntry
      BY <1>3, <1>6, <2>1, Parameters, AddressTypes DEF KnownEntry, Entry
    <2>3. entries' = [entries EXCEPT ![p] = Append(entries[p], e)]
      BY <1>1, <1>2, <1>6, <2>1, OnStore
    <2>4. entries'[Root] = entries[Root] \/ entries'[Root] = Append(entries[Root], e)
      BY <1>3, <2>3
    <2> QED BY <2>2, <2>4, AppendProperties
  <1>7. CASE c.call = "pull"
    <2>1. entries' = entries \/ entries' = [entries EXCEPT ![p] = <<>>]
      BY <1>1, <1>2, <1>7, OnPull DEF Raised
    <2>2. entries'[Root] = entries[Root] \/ entries'[Root] = <<>>
      BY <1>3, <2>1
    <2>3. <<>> \in Seq(KnownEntry)
      OBVIOUS
    <2> QED BY <2>2, <2>3
  <1>8. CASE c.call \notin {"push", "store_binding", "pull"}
    <2>1. c.call \in {"put", "delete", "set_app", "list", "save", "parse_none"}
      BY <1>2, <1>8 DEF Effect
    <2>2. CASE c.call \in {"put", "delete", "set_app"}
      BY <1>2, <2>2, OnPut, OnDelete, OnSetApp
    <2>3. CASE c.call \in {"list", "save"}
      BY <1>2, <2>3, OnList, OnSave
    <2>4. CASE c.call = "parse_none"
      BY <1>2, <2>4, OnParseNone DEF Raised
    <2> QED BY <2>1, <2>2, <2>3, <2>4
  <1> QED BY <1>5, <1>6, <1>7, <1>8

LEMMA RefsNext ==
    TypeInv /\ IsFiniteSet(Refs) /\ [Next]_vars => IsFiniteSet(Refs')
  <1> SUFFICES ASSUME TypeInv, IsFiniteSet(Refs), [Next]_vars
               PROVE  IsFiniteSet(Refs')
    OBVIOUS
  <1>1. UNCHANGED entries => Refs' = Refs
    BY DEF Refs
  <1>2. TypeInv'
    BY TypeInvNext
  <1>3. ASSUME NEW r \in Requests, RequestStep(r)
        PROVE  IsFiniteSet(Refs')
    <2>1. Busy(r) /\ Effect(r)
      BY <1>3, StepEffect
    <2>2. PICK p \in Paths : p = req[r].path
      BY <2>1, BusyPending
    <2>3. \A q \in Paths \ {p} : entries'[q] = entries[q]
      BY <2>1, <2>2, WorksOnItsPath DEF Elsewhere
    <2>4. entries'[p] \in Seq(Entry)
      BY <1>2 DEF TypeInv, TypeOK
    <2> QED BY <2>3, <2>4, RefsFinite
  <1>4. CASE UNCHANGED vars
    BY <1>1, <1>4 DEF vars, docVars
  <1>5. ASSUME NEW r \in Requests, RequestFails(r) \/ SwallowedFailure(r)
        PROVE  UNCHANGED entries
    BY <1>5 DEF RequestFails, Raise, SwallowedFailure, docVars
  <1>6. ASSUME NEW r \in Requests,
               \/ \E a \in AppHosts : Bind(r, a)
               \/ Unbind(r)
               \/ \E p \in Paths : \/ \E to \in Destinations \cup Contents : AddRoute(r, p, to)
                                   \/ DeleteRoute(r, p)
        PROVE  UNCHANGED entries
    BY <1>6 DEF Bind, Unbind, AddRoute, DeleteRoute, Begin, BeginAmong, docVars
  <1> QED BY <1>1, <1>3, <1>4, <1>5, <1>6 DEF Next

LEMMA LightAfter ==
    ASSUME LightInv, overlaps = 0, NEW r \in Requests, Busy(r), NEW p \in Paths, p = req[r].path,
           \A q \in Requests \ {r} : req'[q] = req[q],
           \A q \in Paths \ {p} : q \notin torn' => q \notin torn,
           Kept(p), entries'[Root] \in Seq(KnownEntry),
           \/ req'[r].todo = <<>> /\ (p \in torn' \/ Backed(p)')
           \/ req'[r].todo # <<>> /\ req'[r].path = p /\ LightStage(r)'
    PROVE  LightInv'
  <1>1. \A q \in Requests : Busy(q) => q = r
    BY DEF LightInv
  <1>2. \A q \in Requests : Busy(q)' => q = r
    BY <1>1 DEF Busy
  <1>3. Busy(r)' <=> req'[r].todo # <<>>
    BY DEF Busy
  <1>4. ASSUME NEW q \in Paths \ torn', \A x \in Requests : Busy(x)' => req'[x].path # q
        PROVE  Backed(q)'
    <2>1. CASE q = p
      BY <1>3, <1>4, <2>1
    <2>2. CASE q # p
      <3>1. q \notin torn /\ \A x \in Requests : Busy(x) => req[x].path # q
        BY <1>1, <1>4, <2>2
      <3>2. Backed(q)
        BY <1>4, <3>1 DEF LightInv
      <3> QED BY <1>4, <2>2, <3>1, <3>2 DEF Kept
    <2> QED BY <2>1, <2>2
  <1>5. \A q \in Requests : Busy(q)' => LightStage(q)'
    BY <1>2, <1>3
  <1> QED BY <1>2, <1>4, <1>5 DEF LightInv

LEMMA LightEffect ==
    ASSUME TypeInv, RoutesInv, RouteInv, LightInv, NEW r \in Requests, Busy(r), Effect(r)
    PROVE  LightInv'
  <1> SUFFICES ASSUME overlaps' = 0
               PROVE  LightInv'
    BY DEF LightInv
  <1>1. PICK p \in Paths : p = req[r].path
    BY BusyPending
  <1>2. Raised(r) \/ \E t : Went(r, t)
    BY EffectGoes
  <1>3. overlaps = 0
    BY <1>2 DEF Raised, Went
  <1>4. /\ LightStage(r) /\ entries[Root] \in Seq(KnownEntry)
        /\ \A q \in Requests : Busy(q) => q = r
    BY <1>3 DEF LightInv
  <1>5. p = Root => Unused(p, Default)
    BY <1>1, <1>4, DefaultUnused
  <1>6. LightGoes(r, p)
    BY <1>1, <1>4, <1>5, LightStageGoes
  <1>7. entries'[Root] \in Seq(KnownEntry)
    BY <1>4, KnownStays
  <1>8. CASE Raised(r)
    <2>1. /\ \A q \in Requests \ {r} : req'[q] = req[q]
          /\ req'[r].todo = <<>> /\ torn' = torn \cup {p} /\ Kept(p)
      BY <1>1, <1>8 DEF Raised, Kept, Backed, Lit
    <2> QED BY <1>1, <1>3, <1>7, <2>1, LightAfter
  <1>9. ASSUME NEW t, t # <<>>, Went(r, t), Kept(p), LightStage(r)'
        PROVE  LightInv'
    <2>1. /\ \A q \in Requests \ {r} : req'[q] = req[q]
          /\ req'[r].todo # <<>> /\ req'[r].path = p /\ torn' = torn
      BY <1>1, <1>9 DEF Went
    <2> QED BY <1>1, <1>3, <1>7, <1>9, <2>1, LightAfter
  <1>10. CASE Went(r, <<>>) /\ Kept(p) /\ (p \in torn' \/ Backed(p)')
    <2>1. /\ \A q \in Requests \ {r} : req'[q] = req[q]
          /\ req'[r].todo = <<>> /\ \A q \in Paths \ {p} : q \notin torn' => q \notin torn
      BY <1>1, <1>10 DEF Went
    <2> QED BY <1>1, <1>3, <1>7, <1>10, <2>1, LightAfter
  <1> QED BY <1>6, <1>8, <1>9, <1>10 DEF LightGoes

LEMMA LightSwallow ==
    ASSUME TypeInv, LightInv, NEW r \in Requests, SwallowedFailure(r)
    PROVE  LightInv'
  <1> SUFFICES ASSUME overlaps' = 0
               PROVE  LightInv'
    BY DEF LightInv
  <1>1. /\ Busy(r) /\ Pending(r).call = "pull" /\ ~Pending(r).strict
        /\ \A q \in Requests \ {r} : req'[q] = req[q]
        /\ req'[r].path = req[r].path /\ req'[r].todo = Tail(req[r].todo)
        /\ torn' = torn \cup {req[r].path}
        /\ UNCHANGED <<app, entries, location, upstream, outspelled, overlaps>>
    BY Swallows DEF SwallowedFailure
  <1>2. PICK p \in Paths : p = req[r].path
    BY <1>1, BusyPending
  <1>3. PICK t, w, v : t = Tail(req[r].todo) /\ w = req[r].whole /\ v = req'[r].whole
    OBVIOUS
  <1>4. overlaps = 0 /\ LightStage(r) /\ entries[Root] \in Seq(KnownEntry)
    BY <1>1 DEF LightInv
  <1>5. t # <<>> /\ (LightAdding(t, p) \/ (p = Root /\ LightBinding(t)))
    BY <1>1, <1>2, <1>3, <1>4, LightAhead DEF LightStage, Pending
  <1>6. (LightAdding(t, p) \/ (p = Root /\ LightBinding(t)))'
    BY <1>1, <1>5 DEF LightAdding, LightBinding, Backed, Lit
  <1>7. p \in torn'
    BY <1>1, <1>2
  <1>8. LightOf(v, t, p)'
    BY <1>6, <1>7 DEF LightOf
  <1>9. LightStage(r)'
    BY <1>1, <1>2, <1>3, <1>8 DEF LightStage
  <1>10. Kept(p)
    BY <1>1 DEF Kept, Backed, Lit
  <1>11. /\ req'[r].todo # <<>> /\ req'[r].path = p /\ entries'[Root] \in Seq(KnownEntry)
         /\ \A q \in Paths \ {p} : q \notin torn' => q \notin torn
    BY <1>1, <1>2, <1>3, <1>4, <1>5
  <1> QED BY <1>1, <1>2, <1>4, <1>9, <1>10, <1>11, LightAfter

(* A request finds nothing under way, and what it works on in order.       *)
Restful(p) ==
    /\ \A q \in Requests : ~Busy(q)
    /\ entries[Root] \in Seq(KnownEntry)
    /\ p \notin torn => Backed(p)

LEMMA LightBegins ==
    ASSUME TypeInv, LightInv, NEW r \in Requests, NEW p \in Paths, NEW whole \in BOOLEAN,
           NEW calls \in Seq(CallsOf(p)), BeginAmong(TRUE, r, p, whole, calls), calls # <<>>,
           Restful(p) => LightOf(whole, calls, p)
    PROVE  LightInv'
  <1> SUFFICES ASSUME overlaps' = 0
               PROVE  LightInv'
    BY DEF LightInv
  <1>1. Begun(TRUE, r, p, whole, calls)
    BY Begins
  <1>2. overlaps = 0 /\ \A q \in Requests : ~Busy(q)
    BY <1>1 DEF Begun, TypeInv, TypeOK
  <1>3. torn' = torn
    BY <1>2 DEF BeginAmong
  <1>4. entries[Root] \in Seq(KnownEntry) /\ \A q \in Paths \ torn : Backed(q)
    BY <1>2 DEF LightInv
  <1>5. LightOf(whole, calls, p)
    BY <1>2, <1>4 DEF Restful
  <1>6. /\ req'[r].path = p /\ req'[r].todo = calls /\ req'[r].whole = whole
        /\ \A q \in Requests \ {r} : req'[q].todo = req[q].todo
        /\ UNCHANGED <<entries, location, upstream, outspelled>>
    BY <1>1 DEF Begun
  <1>7. \A q \in Requests : Busy(q)' <=> q = r
    BY <1>2, <1>6 DEF Busy
  <1>8. LightOf(whole, calls, p)'
    BY <1>3, <1>5, <1>6, LightSame
  <1>9. LightStage(r)'
    BY <1>6, <1>8 DEF LightStage
  <1>10. \A q \in Paths \ torn' : Backed(q)'
    BY <1>3, <1>4, <1>6 DEF Backed, Lit
  <1> QED BY <1>4, <1>6, <1>7, <1>9, <1>10 DEF LightInv

LEMMA LightBinds ==
    ASSUME NEW a \in AppHosts
    PROVE  LightBinding(BindTodo(a))
  <1>1. PICK l : l = List("add", Default, {HostOf(a)})
    OBVIOUS
  <1>2. Fills(l, Default)
    BY <1>1 DEF Fills, List, Ups
  <1> QED BY <1>1, <1>2 DEF LightBinding, BindTodo

LEMMA LightUnbinds ==
    LightUnbinding(UnbindCalls)
  <1>1. PICK l : l = TakeAppOut
    OBVIOUS
  <1>2. l.call \in Ups \cup {"parse_none"} /\ (l.call \in Ups => l.upstream = Default)
    BY <1>1 DEF TakeAppOut, List, Plainly, Ups
  <1> QED BY <1>1, <1>2 DEF LightUnbinding, UnbindCalls

LEMMA LightRoutes ==
    ASSUME NEW p \in Paths, NEW to \in Destinations \cup Contents
    PROVE  LightAdding(RouteTodo(p, to), p)
  <1>1. PICK pull, push : pull = Pull(p, FALSE) /\ push = Push(p, Custom(to))
    OBVIOUS
  <1>2. CASE to \in Contents
    <2>1. PICK put : put = Put(p, Content(to))
      OBVIOUS
    <2>2. put.call = "put" /\ Lit(put.location)
      BY <2>1 DEF Put, Content, Lit
    <2>3. RouteTodo(p, to) = <<pull, push, put>>
      BY <1>1, <1>2, <2>1 DEF RouteTodo, Custom
    <2> QED BY <1>1, <2>2, <2>3 DEF LightAdding
  <1>3. CASE to \notin Contents
    <2>1. PICK l, put : /\ l = List("add", HostOf(to), {HostOf(to)})
                        /\ put = Put(p, Proxy(to, HostOf(to)))
      OBVIOUS
    <2>2. put.call = "put" /\ Fills(l, put.location.upstream)
      BY <2>1 DEF Put, Proxy, Fills, List, Ups
    <2>3. RouteTodo(p, to) = <<pull, push, l, put>>
      BY <1>1, <1>3, <2>1 DEF RouteTodo, Custom
    <2> QED BY <1>1, <2>2, <2>3 DEF LightAdding
  <1> QED BY <1>2, <1>3

LEMMA LightDeletes ==
    ASSUME NEW p \in Paths, NEW to, NEW last \in BOOLEAN, last => Unused(p, to)
    PROVE  LightRemoving(DeleteTodo(p, to, last), p)
  <1>1. PICK l : l = List("remove", to, {ServerOf(to)})
    OBVIOUS
  <1>2. l.call \in Ups /\ l.upstream = to
    BY <1>1 DEF List, Ups
  <1> QED BY <1>1, <1>2 DEF LightRemoving, DeleteTodo

LEMMA LightInvInit ==
    Init => LightInv /\ IsFiniteSet(Refs)
  <1> SUFFICES ASSUME Init
               PROVE  LightInv /\ IsFiniteSet(Refs)
    OBVIOUS
  <1>1. /\ \A r \in Requests : ~Busy(r)
        /\ \A p \in Paths : entries[p] = <<>> /\ location[p].kind # "proxy"
    BY IdleTyped DEF Init, Busy, Plain
  <1>2. entries[Root] \in Seq(KnownEntry)
    <2>1. <<>> \in Seq(KnownEntry)
      OBVIOUS
    <2> QED BY <1>1, <2>1, AddressTypes
  <1>3. LightInv
    BY <1>1, <1>2 DEF LightInv, Backed, Lit
  <1>4. Refs = {}
    BY <1>1 DEF Refs
  <1> QED BY <1>3, <1>4, FS_EmptySet

LEMMA LightInvNext ==
    TypeInv /\ RoutesInv /\ RouteInv /\ LightInv /\ IsFiniteSet(Refs) /\ [Next]_vars
        => LightInv'
  <1> SUFFICES ASSUME TypeInv, RoutesInv, RouteInv, LightInv, IsFiniteSet(Refs), [Next]_vars
               PROVE  LightInv'
    OBVIOUS
  <1>0. Root \in Paths
    BY AddressTypes
  <1>1. ASSUME NEW r \in Requests, NEW a \in AppHosts, Bind(r, a)
        PROVE  LightInv'
    <2>1. /\ \/ CustomRoot /\ BeginAmong(TRUE, r, Root, FALSE, <<SetApp(a)>>)
             \/ ~CustomRoot /\ BeginAmong(TRUE, r, Root, TRUE, BindTodo(a))
          /\ <<SetApp(a)>> \in Seq(CallsOf(Root)) /\ BindTodo(a) \in Seq(CallsOf(Root))
      BY <1>1, BindBegins
    <2>2. Restful(Root) => LightOf(FALSE, <<SetApp(a)>>, Root) /\ LightOf(TRUE, BindTodo(a), Root)
      BY LightBinds DEF LightOf, Restful
    <2>3. <<SetApp(a)>> # <<>> /\ BindTodo(a) # <<>>
      BY DEF BindTodo
    <2> QED BY <1>0, <2>1, <2>2, <2>3, LightBegins
  <1>2. ASSUME NEW r \in Requests, Unbind(r)
        PROVE  LightInv'
    <2>1. /\ \/ CustomRoot /\ BeginAmong(TRUE, r, Root, FALSE, <<SetApp(Nothing)>>)
             \/ ~CustomRoot /\ BeginAmong(TRUE, r, Root, TRUE, UnbindCalls)
          /\ <<SetApp(Nothing)>> \in Seq(CallsOf(Root)) /\ UnbindCalls \in Seq(CallsOf(Root))
      BY <1>2, UnbindBegins
    <2>2. Restful(Root) => LightOf(FALSE, <<SetApp(Nothing)>>, Root) /\ LightOf(TRUE, UnbindCalls, Root)
      BY LightUnbinds DEF LightOf, Restful
    <2>3. <<SetApp(Nothing)>> # <<>> /\ UnbindCalls # <<>>
      BY DEF UnbindCalls
    <2> QED BY <1>0, <2>1, <2>2, <2>3, LightBegins
  <1>3. ASSUME NEW r \in Requests, NEW p \in Paths, NEW to \in Destinations \cup Contents,
               AddRoute(r, p, to)
        PROVE  LightInv'
    <2>1. /\ BeginAmong(TRUE, r, p, TRUE, RouteTodo(p, to))
          /\ RouteTodo(p, to) \in Seq(CallsOf(p))
      BY <1>3, RouteBegins
    <2>2. Restful(p) => LightOf(TRUE, RouteTodo(p, to), p)
      BY LightRoutes DEF LightOf, Restful
    <2>3. RouteTodo(p, to) # <<>>
      BY DEF RouteTodo
    <2> QED BY <2>1, <2>2, <2>3, LightBegins
  <1>4. ASSUME NEW r \in Requests, NEW p \in Paths, DeleteRoute(r, p)
        PROVE  LightInv'
    <2>1. p # Root /\ entries[p] # <<>>
      BY <1>4, DeleteBegins
    <2>2. PICK to \in Addresses \cup Contents, last \in BOOLEAN :
             /\ to = Last(entries[p]).to
             /\ last <=> to \notin Contents /\ LastReference(to)
             /\ BeginAmong(TRUE, r, p, TRUE, DeleteTodo(p, to, last))
             /\ DeleteTodo(p, to, last) \in Seq(CallsOf(p))
      BY <1>4, DeleteBegins
    <2>3. ASSUME Restful(p)
          PROVE  LightOf(TRUE, DeleteTodo(p, to, last), p)
      <3>1. last => Unused(p, to)
        BY <2>1, <2>2, <2>3, Unreferenced DEF Restful
      <3> QED BY <2>1, <3>1, LightDeletes DEF LightOf
    <2>4. DeleteTodo(p, to, last) # <<>>
      BY DEF DeleteTodo
    <2> QED BY <2>2, <2>3, <2>4, LightBegins
  <1>5. ASSUME NEW r \in Requests, RequestStep(r)
        PROVE  LightInv'
    BY <1>5, StepEffect, LightEffect
  <1>6. ASSUME NEW r \in Requests, RequestFails(r)
        PROVE  LightInv'
    <2> SUFFICES ASSUME overlaps' = 0
                 PROVE  LightInv'
      BY DEF LightInv
    <2>1. Busy(r) /\ Raised(r)
      BY <1>6, RaisesUp DEF RequestFails
    <2>2. PICK p \in Paths : p = req[r].path
      BY <2>1, BusyPending
    <2>3. /\ \A q \in Requests \ {r} : req'[q] = req[q]
          /\ req'[r].todo = <<>> /\ torn' = torn \cup {p} /\ Kept(p)
          /\ overlaps = 0 /\ entries' = entries
      BY <2>1, <2>2 DEF Raised, Kept, Backed, Lit
    <2>4. entries'[Root] \in Seq(KnownEntry)
      BY <2>3 DEF LightInv
    <2> QED BY <2>1, <2>2, <2>3, <2>4, LightAfter
  <1>7. ASSUME NEW r \in Requests, SwallowedFailure(r)
        PROVE  LightInv'
    BY <1>7, LightSwallow
  <1>8. CASE UNCHANGED vars
    <2>1. UNCHANGED <<entries, location, upstream, outspelled, req, overlaps, torn>>
      BY <1>8 DEF vars, docVars, consulVars
    <2>2. \A q \in Paths : Backed(q) => Backed(q)'
      BY <2>1 DEF Backed, Lit
    <2>3. ASSUME NEW r \in Requests, LightStage(r)
          PROVE  LightStage(r)'
      <3>1. PICK w, t, p : w = req[r].whole /\ t = req[r].todo /\ p = req[r].path
        OBVIOUS
      <3>2. LightOf(w, t, p)'
        BY <2>1, <2>3, <3>1, LightSame DEF LightStage
      <3> QED BY <2>1, <3>1, <3>2 DEF LightStage
    <2> QED BY <2>1, <2>2, <2>3 DEF LightInv, Busy
  <1> QED BY <1>1, <1>2, <1>3, <1>4, <1>5, <1>6, <1>7, <1>8 DEF Next

(* A delete_route that is under way still has the location to delete.      *)
LEMMA RemovalsDelete ==
    ASSUME NEW todo, NEW p, LightRemoving(todo, p)
    PROVE  Contains(todo, Delete(p))
  <1>1. PICK l, pull, delete :
           /\ delete = Delete(p)
           /\ \/ todo = <<l, pull, delete>>
              \/ todo = <<pull, delete>>
              \/ todo = <<delete>>
    BY DEF LightRemoving
  <1>2. CASE todo = <<l, pull, delete>>
    <2>1. 3 \in 1 .. Len(todo) /\ todo[3] = delete
      BY <1>2
    <2> QED BY <1>1, <2>1 DEF Contains
  <1>3. CASE todo = <<pull, delete>>
    <2>1. 2 \in 1 .. Len(todo) /\ todo[2] = delete
      BY <1>3
    <2> QED BY <1>1, <2>1 DEF Contains
  <1>4. CASE todo = <<delete>>
    <2>1. 1 \in 1 .. Len(todo) /\ todo[1] = delete
      BY <1>4
    <2> QED BY <1>1, <2>1 DEF Contains
  <1> QED BY <1>1, <1>2, <1>3, <1>4

(* A path that the machines proxy, and that no delete_route is taking      *)
(* down, has a server in its upstream: write_location and the upstreams of *)
(* rpaas/consul_manager.py under bind, unbind, add_route and delete_route  *)
(* (rpaas/manager.py), for requests one at a time any of which may die and *)
(* routes that spell their hosts in any way.  Only a route whose host a    *)
(* delete_route took out under another spelling, and that spells it with a *)
(* scheme or a port, may be without one, until the host is put in again.   *)
THEOREM ProxyAlwaysHasServer == Spec => []ProxyHasServer
  <1> DEFINE Inv == TypeInv /\ RoutesInv /\ RouteInv /\ LightInv /\ IsFiniteSet(Refs)
  <1>1. Init => Inv
    BY TypeInvInit, RoutesInvInit, RouteInvInit, LightInvInit
  <1>2. Inv /\ [Next]_vars => Inv'
    BY TypeInvNext, RoutesInvNext, RouteInvNext, LightInvNext, RefsNext
  <1>3. Inv => ProxyHasServer
    <2> SUFFICES ASSUME TypeInv, LightInv, overlaps = 0, NEW p \in Paths \ torn,
                        location[p].kind = "proxy", ~Deleting(p)
                 PROVE  Backed(p)
      BY DEF ProxyHasServer, Backed, Lit
    <2>1. CASE \A r \in Requests : Busy(r) => req[r].path # p
      BY <2>1 DEF LightInv
    <2>2. ASSUME NEW r \in Requests, Busy(r), req[r].path = p
          PROVE  Backed(p)
      <3>1. LightOf(req[r].whole, req[r].todo, p)
        BY <2>2 DEF LightInv, LightStage
      <3>2. ~LightRemoving(req[r].todo, p)
        <4>1. ~Contains(req[r].todo, Delete(p))
          BY DEF Deleting
        <4> QED BY <4>1, RemovalsDelete
      <3> QED BY <3>1, <3>2 DEF LightOf
    <2> QED BY <2>1, <2>2
  <1> QED BY <1>1, <1>2, <1>3, PTL DEF Spec

-----------------------------------------------------------------------------
(***************************************************************************)
(* A backend and its servers: BackendAgrees.                               *)
(***************************************************************************)

Bound ==
    app = Upstream /\ Len(entries[Root]) = 1 /\ location[Root] = Proxy(Upstream, Upstream)

Free ==
    app = Nothing /\ entries[Root] = <<>> /\ location[Root].kind \in {"none", "not_bound"}

Empty == upstream[Upstream] = {}

BackendOK ==
    /\ Empty => Free
    /\ ~Empty => Bound
    /\ Backend \notin live => Empty /\ location[Root].kind = "none"

AnyServers == (SUBSET Addresses) \ {{}}

(* How far a request for routes that runs alone has come, by the calls it  *)
(* has left: it binds the backend, adds servers, takes servers out, or     *)
(* unbinds the backend it found empty.                                     *)
OpeningOf(todo) ==
    \E ss \in AnyServers :
        LET put == Put(Root, Proxy(Upstream, Upstream))
            ready == Plainly("ready")
            add == List("add", Upstream, ss)
            written == location[Root] = Proxy(Upstream, Upstream)
        IN  \/ todo = <<put, Pull(Root, FALSE), StoreBinding(Upstream), ready, add>>
            \/ written /\ todo = <<Pull(Root, FALSE), StoreBinding(Upstream), ready, add>>
            \/ /\ written /\ entries[Root] = <<>>
               /\ todo = <<StoreBinding(Upstream), ready, add>>

FillingOf(todo) ==
    \E ss \in AnyServers :
        LET add == List("add", Upstream, ss)
        IN  \/ todo = <<Plainly("ready"), add>>
            \/ todo = <<add>>
            \/ todo = <<Save(Upstream, ss)>>

TakingOf(todo) ==
    \/ \E ss \in SUBSET Addresses :
          LET rest == <<Plainly("ready"), Plainly("list_routes")>>
          IN  \/ /\ todo = <<List("remove", Upstream, ss), rest[1], rest[2]>>
                 /\ Root \notin torn => Bound \/ (Empty /\ Free)
              \/ /\ todo = <<Save(Upstream, ss), rest[1], rest[2]>>
                 /\ Root \notin torn => Bound \/ (ss = {} /\ Empty /\ Free)
              \/ /\ todo = rest \/ todo = <<rest[2]>>
                 /\ Root \notin torn => Bound \/ (Empty /\ Free)
    \/ /\ \/ todo = <<Plainly("ready"), Plainly("find_binding")>>
          \/ todo = <<Plainly("find_binding")>>
       /\ Empty
       /\ Root \notin torn => Bound \/ Free

OnDefault(c) ==
    \/ c.call = "parse_none"
    \/ c.call \in {"list", "save"} /\ c.upstream = Default

ClosingOf(todo) ==
    \E l :
        LET put == Put(Root, Plain("not_bound"))
        IN  /\ OnDefault(l)
            /\ \/ todo = <<Pull(Root, TRUE), SetApp(Nothing), put, l>>
               \/ entries[Root] = <<>> /\ todo = <<SetApp(Nothing), put, l>>
               \/ entries[Root] = <<>> /\ app = Nothing /\ todo = <<put, l>>
               \/ /\ entries[Root] = <<>> /\ app = Nothing
                  /\ location[Root] = Plain("not_bound") /\ todo = <<l>>

StageOf(whole, todo) ==
    IF whole THEN OpeningOf(todo) \/ (Bound /\ FillingOf(todo)) \/ (Empty /\ ClosingOf(todo))
             ELSE ((Root \notin torn => Bound) /\ FillingOf(todo)) \/ TakingOf(todo)

Stage(r) == StageOf(req[r].whole, req[r].todo)

(* What a removal of the backend has deleted.                              *)
Erased(j) ==
    /\ job[j].pc \in {"tree", "lb"} => app = Nothing /\ entries[Root] = <<>>
    /\ job[j].pc = "lb" => Empty /\ location[Root].kind = "none"

BackInv ==
    /\ \A r \in Requests :
          Busy(r) =>
              /\ req[r].path = Root
              /\ IF req[r].clean
                 THEN /\ \A q \in Requests : Busy(q) => q = r
                      /\ Removals = {} /\ Backend \in live /\ Stage(r)
                 ELSE Root \in torn
    /\ Root \notin torn =>
          /\ \A j \in Removals : /\ \A k \in Removals : k = j
                                 /\ \A r \in Requests : ~Busy(r)
                                 /\ Erased(j)
          /\ AtRest => BackendOK

Does(r) == Effect(r) \/ RouterEffect(r)

RouterCalls == {"ready", "list_routes", "find_binding"}

LEMMA DoesCall ==
    ASSUME NEW r \in Requests, Does(r)
    PROVE  /\ Pending(r).call \notin RouterCalls => Effect(r)
           /\ Pending(r).call \in RouterCalls => RouterEffect(r)
  <1>1. CASE Effect(r)
    <2>1. Pending(r).call \notin RouterCalls
      BY <1>1 DEF Effect, RouterCalls
    <2> QED BY <1>1, <2>1
  <1>2. CASE RouterEffect(r)
    <2>1. Pending(r).call \in RouterCalls
      BY <1>2 DEF RouterEffect, RouterCalls
    <2> QED BY <1>2, <2>1
  <1> QED BY <1>1, <1>2 DEF Does

LEMMA Join20 ==
    ASSUME NEW a, NEW b
    PROVE  <<a, b>> \o <<>> = <<a, b>>
  <1>1. PICK S, s : S = {a, b} /\ s = <<a, b>>
    OBVIOUS
  <1>2. s \in Seq(S)
    BY <1>1
  <1>3. s \o <<>> = s
    BY <1>2, ConcatEmptySeq
  <1> QED BY <1>1, <1>3

LEMMA OnReady ==
    ASSUME TypeInv, NEW r \in Requests, Busy(r), Does(r), Pending(r).call = "ready"
    PROVE  /\ UNCHANGED <<app, entries, location, upstream>>
           /\ Raised(r) \/ Went(r, Tail(req[r].todo))
  <1>1. RouterEffect(r)
    BY DoesCall DEF RouterCalls
  <1>2. /\ UNCHANGED <<app, entries, location, upstream>>
        /\ Raise(r) \/ Return(r, <<>>)
    BY <1>1 DEF RouterEffect
  <1> QED BY <1>2, GoesOn, RaisesUp

LEMMA OnListRoutes ==
    ASSUME TypeInv, NEW r \in Requests, Busy(r), Does(r),
           Pending(r).call = "list_routes", Tail(req[r].todo) = <<>>
    PROVE  /\ UNCHANGED <<app, entries, location, upstream>>
           /\ \/ Empty /\ Went(r, <<Plainly("ready"), Plainly("find_binding")>>)
              \/ ~Empty /\ Went(r, <<>>)
  <1>1. RouterEffect(r)
    BY DoesCall DEF RouterCalls
  <1>2. PICK more : more = <<Plainly("ready"), Plainly("find_binding")>>
    OBVIOUS
  <1>3. /\ UNCHANGED <<app, entries, location, upstream>>
        /\ \/ Empty /\ Return(r, more)
           \/ ~Empty /\ Return(r, <<>>)
    BY <1>1, <1>2 DEF RouterEffect, Empty
  <1>4. req[r].path = Root
    BY BusyPending, Parameters
  <1>5. more \in Seq(CallsOf(req[r].path)) /\ more \o <<>> = more
    <2>1. <<Plainly("ready"), Plainly("find_binding")>> \in Seq(CallsOf(Root))
      BY RouterTodos
    <2> QED BY <1>2, <1>4, <2>1, Join20
  <1>6. ASSUME Return(r, more)
        PROVE  Went(r, more)
    BY <1>5, <1>6, Returns
  <1> QED BY <1>2, <1>3, <1>6, GoesOn

LEMMA OnFindBinding ==
    ASSUME TypeInv, NEW r \in Requests, Busy(r), Does(r),
           Pending(r).call = "find_binding", Tail(req[r].todo) = <<>>
    PROVE  /\ UNCHANGED <<app, entries, location, upstream>>
           /\ \/ app = Nothing /\ entries[Root] = <<>> /\ Went(r, <<>>)
              \/ TurnsToUnbind(r)
  <1>1. RouterEffect(r)
    BY DoesCall DEF RouterCalls
  <1>2. /\ UNCHANGED <<app, entries, location, upstream>>
        /\ \/ app = Nothing /\ entries[Root] = <<>> /\ Return(r, <<>>)
           \/ TurnsToUnbind(r)
    BY <1>1 DEF RouterEffect
  <1> QED BY <1>2, GoesOn

LEMMA FillingSteps ==
    ASSUME TypeInv, NEW r \in Requests, Busy(r), Does(r), FillingOf(req[r].todo)
    PROVE  /\ UNCHANGED <<app, entries, location>>
           /\ \/ Raised(r)
              \/ \E t : t # <<>> /\ Went(r, t) /\ FillingOf(t)
              \/ Went(r, <<>>) /\ ~Empty'
  <1>1. PICK ss, c1, c2, c3 :
           /\ ss \in AnyServers /\ c1 = Plainly("ready") /\ c2 = List("add", Upstream, ss)
           /\ c3 = Save(Upstream, ss)
           /\ \/ req[r].todo = <<c1, c2>>
              \/ req[r].todo = <<c2>>
              \/ req[r].todo = <<c3>>
    BY DEF FillingOf
  <1>2. upstream \in [Addresses -> SUBSET Addresses] /\ Upstream \in Addresses
    BY UpstreamTypes DEF TypeInv, TypeOK
  <1>6. ss \subseteq Addresses /\ ss # {}
    BY <1>1, Zenon DEF AnyServers
  <1>3. CASE req[r].todo = <<c1, c2>>
    <2>1. Pending(r) = c1 /\ Tail(req[r].todo) = <<c2>>
      BY <1>3 DEF Pending
    <2>2. Pending(r).call = "ready"
      BY <1>1, <2>1 DEF Plainly
    <2>3. FillingOf(<<c2>>) /\ <<c2>> # <<>>
      BY <1>1 DEF FillingOf
    <2> QED BY <2>1, <2>2, <2>3, OnReady
  <1>4. CASE req[r].todo = <<c2>>
    <2>1. Pending(r) = c2 /\ Tail(req[r].todo) = <<>>
      BY <1>4 DEF Pending
    <2>2. /\ Pending(r).call = "list" /\ Pending(r).change = "add"
          /\ Pending(r).upstream = Upstream /\ Pending(r).servers = ss
      BY <1>1, <2>1 DEF List
    <2>3. Effect(r)
      BY <2>2, DoesCall DEF RouterCalls
    <2>4. PICK all, c : all = upstream[Upstream] \cup ss /\ c = Save(Upstream, all)
      OBVIOUS
    <2>5. Computed(Pending(r)) = c
      BY <2>2, <2>4 DEF Computed
    <2>6. UNCHANGED <<app, entries, location>> /\ Went(r, <<c>> \o <<>>)
      BY <2>1, <2>2, <2>3, <2>5, OnList
    <2>7. all \in AnyServers
      <3>1. PICK x : x \in ss
        BY <1>6
      <3>2. x \in all /\ all \subseteq Addresses
        BY <1>2, <1>6, <2>4, <3>1
      <3> QED BY <3>2 DEF AnyServers
    <2>8. FillingOf(<<c>>) /\ <<c>> # <<>>
      BY <2>4, <2>7 DEF FillingOf
    <2> QED BY <2>6, <2>8, Join10
  <1>5. CASE req[r].todo = <<c3>>
    <2>1. Pending(r) = c3 /\ Tail(req[r].todo) = <<>>
      BY <1>5 DEF Pending
    <2>2. Pending(r).call = "save" /\ Pending(r).upstream = Upstream /\ Pending(r).servers = ss
      BY <1>1, <2>1 DEF Save
    <2>3. Effect(r)
      BY <2>2, DoesCall DEF RouterCalls
    <2>4. /\ UNCHANGED <<app, entries, location>> /\ Went(r, <<>>)
          /\ upstream' = [upstream EXCEPT ![Upstream] = ss]
      BY <2>1, <2>2, <2>3, OnSave
    <2>5. upstream'[Upstream] = ss
      BY <1>2, <2>4
    <2>6. ~Empty'
      BY <1>6, <2>5 DEF Empty
    <2> QED BY <2>4, <2>6
  <1> QED BY <1>1, <1>3, <1>4, <1>5
-----------------------------------------------------------------------------

LEMMA OpeningSteps ==
    ASSUME TypeInv, NEW r \in Requests, Busy(r), Does(r), req[r].path = Root,
           OpeningOf(req[r].todo)
    PROVE  \E t : /\ t # <<>> /\ Went(r, t)
                  /\ OpeningOf(t)' \/ (Bound' /\ FillingOf(t))
  <1>1. PICK ss, c1, c2, c3, c4, c5 :
           /\ ss \in AnyServers
           /\ c1 = Put(Root, Proxy(Upstream, Upstream)) /\ c2 = Pull(Root, FALSE)
           /\ c3 = StoreBinding(Upstream) /\ c4 = Plainly("ready")
           /\ c5 = List("add", Upstream, ss)
           /\ \/ req[r].todo = <<c1, c2, c3, c4, c5>>
              \/ /\ location[Root] = Proxy(Upstream, Upstream)
                 /\ req[r].todo = <<c2, c3, c4, c5>>
              \/ /\ location[Root] = Proxy(Upstream, Upstream) /\ entries[Root] = <<>>
                 /\ req[r].todo = <<c3, c4, c5>>
    BY DEF OpeningOf
  <1>2. /\ entries \in [Paths -> Seq(Entry)] /\ location \in [Paths -> Location]
        /\ Root \in Paths
    BY AddressTypes DEF TypeInv, TypeOK
  <1>3. CASE req[r].todo = <<c1, c2, c3, c4, c5>>
    <2>0. Pending(r) = c1 /\ Tail(req[r].todo) = <<c2, c3, c4, c5>>
      BY <1>3 DEF Pending
    <2>1. Pending(r).call = "put" /\ Pending(r).location = Proxy(Upstream, Upstream)
      BY <1>1, <2>0 DEF Put
    <2>2. Effect(r)
      BY <2>1, DoesCall DEF RouterCalls
    <2>3. /\ Went(r, <<c2, c3, c4, c5>>)
          /\ location' = [location EXCEPT ![Root] = Proxy(Upstream, Upstream)]
      BY <2>0, <2>1, <2>2, OnPut
    <2>4. location'[Root] = Proxy(Upstream, Upstream)
      BY <1>2, <2>3
    <2>5. OpeningOf(<<c2, c3, c4, c5>>)'
      BY <1>1, <2>4 DEF OpeningOf
    <2> QED BY <2>3, <2>5
  <1>4. CASE /\ location[Root] = Proxy(Upstream, Upstream)
             /\ req[r].todo = <<c2, c3, c4, c5>>
    <2>0. Pending(r) = c2 /\ Tail(req[r].todo) = <<c3, c4, c5>>
      BY <1>4 DEF Pending
    <2>1. Pending(r).call = "pull" /\ ~Pending(r).strict
      BY <1>1, <2>0 DEF Pull
    <2>2. Effect(r)
      BY <2>1, DoesCall DEF RouterCalls
    <2>3. /\ Went(r, <<c3, c4, c5>>) /\ location' = location
          /\ entries' = [entries EXCEPT ![Root] = <<>>]
      BY <2>0, <2>1, <2>2, OnPull
    <2>4. entries'[Root] = <<>>
      BY <1>2, <2>3
    <2>5. OpeningOf(<<c3, c4, c5>>)'
      BY <1>1, <1>4, <2>3, <2>4 DEF OpeningOf
    <2> QED BY <2>3, <2>5
  <1>5. CASE /\ location[Root] = Proxy(Upstream, Upstream) /\ entries[Root] = <<>>
             /\ req[r].todo = <<c3, c4, c5>>
    <2>0. Pending(r) = c3 /\ Tail(req[r].todo) = <<c4, c5>>
      BY <1>5 DEF Pending
    <2>1. Pending(r).call = "store_binding" /\ Pending(r).app = Upstream
      BY <1>1, <2>0 DEF StoreBinding
    <2>2. Effect(r)
      BY <2>1, DoesCall DEF RouterCalls
    <2>3. PICK e : e = [to |-> Upstream, custom |-> FALSE]
      OBVIOUS
    <2>4. /\ Went(r, <<c4, c5>>) /\ location' = location /\ app' = Upstream
          /\ entries' = [entries EXCEPT ![Root] = Append(entries[Root], e)]
      BY <2>0, <2>1, <2>2, <2>3, OnStore
    <2>5. entries'[Root] = <<e>>
      BY <1>2, <1>5, <2>4
    <2>6. Bound'
      BY <1>5, <2>4, <2>5 DEF Bound
    <2>7. FillingOf(<<c4, c5>>)
      BY <1>1 DEF FillingOf
    <2> QED BY <2>4, <2>6, <2>7
  <1> QED BY <1>1, <1>3, <1>4, <1>5

LEMMA UpstreamIsNotDefault ==
    Upstream # Default /\ Upstream \in Addresses /\ Default \in Addresses
  BY RouterAssumption, ConstantsAssumption

LEMMA OnDefaultCall ==
    ASSUME TypeInv, NEW r \in Requests, Busy(r), Does(r), OnDefault(Pending(r)),
           Tail(req[r].todo) = <<>>, Empty
    PROVE  /\ UNCHANGED <<app, entries, location>> /\ Empty'
           /\ \/ Raised(r)
              \/ Went(r, <<>>)
              \/ \E c : OnDefault(c) /\ Went(r, <<c>>)
  <1>1. Effect(r)
    BY DoesCall DEF OnDefault, RouterCalls
  <1>2. upstream \in [Addresses -> SUBSET Addresses]
    BY DEF TypeInv, TypeOK
  <1>3. CASE Pending(r).call = "parse_none"
    <2>1. Raised(r)
      BY <1>1, <1>3, OnParseNone
    <2> QED BY <2>1 DEF Raised, Empty
  <1>4. CASE Pending(r).call = "list" /\ Pending(r).upstream = Default
    <2>1. PICK c : c = Computed(Pending(r))
      OBVIOUS
    <2>2. UNCHANGED <<app, entries, location, upstream>> /\ Went(r, <<c>> \o <<>>)
      BY <1>1, <1>4, <2>1, OnList
    <2>3. OnDefault(c)
      BY <1>4, <2>1 DEF Computed, Save, OnDefault
    <2>4. Went(r, <<c>>)
      BY <2>2, Join10
    <2> QED BY <2>2, <2>3, <2>4 DEF Empty
  <1>5. CASE Pending(r).call = "save" /\ Pending(r).upstream = Default
    <2>1. PICK ss : ss = Pending(r).servers
      OBVIOUS
    <2>2. /\ UNCHANGED <<app, entries, location>> /\ Went(r, <<>>)
          /\ upstream' = [upstream EXCEPT ![Default] = ss]
      BY <1>1, <1>5, <2>1, OnSave
    <2>3. upstream'[Upstream] = upstream[Upstream]
      BY <1>2, <2>2, UpstreamIsNotDefault
    <2> QED BY <2>2, <2>3 DEF Empty
  <1> QED BY <1>3, <1>4, <1>5 DEF OnDefault

LEMMA ClosingSteps ==
    ASSUME TypeInv, NEW r \in Requests, Busy(r), Does(r), req[r].path = Root,
           Empty, ClosingOf(req[r].todo)
    PROVE  /\ Empty'
           /\ \/ Raised(r)
              \/ \E t : t # <<>> /\ Went(r, t) /\ ClosingOf(t)'
              \/ Went(r, <<>>) /\ Free'
  <1>1. PICK l, c1, c2, c3 :
           /\ OnDefault(l) /\ c1 = Pull(Root, TRUE)
           /\ c2 = SetApp(Nothing) /\ c3 = Put(Root, Plain("not_bound"))
           /\ \/ req[r].todo = <<c1, c2, c3, l>>
              \/ entries[Root] = <<>> /\ req[r].todo = <<c2, c3, l>>
              \/ entries[Root] = <<>> /\ app = Nothing /\ req[r].todo = <<c3, l>>
              \/ /\ entries[Root] = <<>> /\ app = Nothing
                 /\ location[Root] = Plain("not_bound") /\ req[r].todo = <<l>>
    BY DEF ClosingOf
  <1>2. /\ entries \in [Paths -> Seq(Entry)] /\ location \in [Paths -> Location]
        /\ Root \in Paths
    BY AddressTypes DEF TypeInv, TypeOK
  <1>3. CASE req[r].todo = <<c1, c2, c3, l>>
    <2>0. Pending(r) = c1 /\ Tail(req[r].todo) = <<c2, c3, l>>
      BY <1>3 DEF Pending
    <2>1. Pending(r).call = "pull"
      BY <1>1, <2>0 DEF Pull
    <2>2. Effect(r)
      BY <2>1, DoesCall DEF RouterCalls
    <2>3. \/ Raised(r)
          \/ /\ Went(r, <<c2, c3, l>>) /\ UNCHANGED upstream
             /\ entries' = [entries EXCEPT ![Root] = <<>>]
      BY <2>0, <2>1, <2>2, OnPull
    <2>4. entries' = [entries EXCEPT ![Root] = <<>>] => ClosingOf(<<c2, c3, l>>)'
      BY <1>1, <1>2 DEF ClosingOf
    <2>5. Empty'
      BY <2>3 DEF Empty, Raised
    <2> QED BY <2>3, <2>4, <2>5
  <1>4. CASE entries[Root] = <<>> /\ req[r].todo = <<c2, c3, l>>
    <2>0. Pending(r) = c2 /\ Tail(req[r].todo) = <<c3, l>>
      BY <1>4 DEF Pending
    <2>1. Pending(r).call = "set_app" /\ Pending(r).app = Nothing
      BY <1>1, <2>0 DEF SetApp
    <2>2. Effect(r)
      BY <2>1, DoesCall DEF RouterCalls
    <2>3. /\ Went(r, <<c3, l>>) /\ entries' = entries /\ app' = Nothing
          /\ UNCHANGED upstream
      BY <2>0, <2>1, <2>2, OnSetApp
    <2>4. ClosingOf(<<c3, l>>)'
      BY <1>1, <1>4, <2>3 DEF ClosingOf
    <2> QED BY <2>3, <2>4 DEF Empty
  <1>5. CASE entries[Root] = <<>> /\ app = Nothing /\ req[r].todo = <<c3, l>>
    <2>0. Pending(r) = c3 /\ Tail(req[r].todo) = <<l>>
      BY <1>5 DEF Pending
    <2>1. Pending(r).call = "put" /\ Pending(r).location = Plain("not_bound")
      BY <1>1, <2>0 DEF Put
    <2>2. Effect(r)
      BY <2>1, DoesCall DEF RouterCalls
    <2>3. /\ Went(r, <<l>>) /\ entries' = entries /\ app' = app /\ UNCHANGED upstream
          /\ location' = [location EXCEPT ![Root] = Plain("not_bound")]
      BY <2>0, <2>1, <2>2, OnPut
    <2>4. location'[Root] = Plain("not_bound")
      BY <1>2, <2>3
    <2>5. ClosingOf(<<l>>)'
      BY <1>1, <1>5, <2>3, <2>4 DEF ClosingOf
    <2> QED BY <2>3, <2>5 DEF Empty
  <1>6. CASE /\ entries[Root] = <<>> /\ app = Nothing /\ location[Root] = Plain("not_bound")
             /\ req[r].todo = <<l>>
    <2>0. Pending(r) = l /\ Tail(req[r].todo) = <<>>
      BY <1>6 DEF Pending
    <2>1. /\ UNCHANGED <<app, entries, location>> /\ Empty'
          /\ \/ Raised(r)
             \/ Went(r, <<>>)
             \/ \E c : OnDefault(c) /\ Went(r, <<c>>)
      BY <1>1, <2>0, OnDefaultCall
    <2>2. Plain("not_bound").kind = "not_bound"
      BY DEF Plain
    <2>3. Free'
      BY <1>6, <2>1, <2>2 DEF Free
    <2>4. ASSUME NEW c, OnDefault(c)
          PROVE  ClosingOf(<<c>>)' /\ <<c>> # <<>>
      BY <1>6, <2>1, <2>4 DEF ClosingOf
    <2> QED BY <2>1, <2>3, <2>4
  <1> QED BY <1>1, <1>3, <1>4, <1>5, <1>6

(* Taking out servers, as long as the root path was in order.              *)
Near == Root \notin torn => Bound \/ (Empty /\ Free)

LEMMA TakingSteps ==
    ASSUME TypeInv, NEW r \in Requests, Busy(r), Does(r), req[r].path = Root, ~req[r].whole,
           TakingOf(req[r].todo)
    PROVE  \/ Raised(r)
           \/ \E t : t # <<>> /\ Went(r, t) /\ TakingOf(t)'
           \/ Went(r, <<>>) /\ (Root \notin torn' => (Empty' => Free') /\ (~Empty' => Bound'))
           \/ /\ TurnsToUnbind(r) /\ Empty
              /\ UNCHANGED <<app, entries, location, upstream>>
  <1>1. PICK ss, ready, routes, find, c1, c2 :
           /\ ss \in SUBSET Addresses
           /\ ready = Plainly("ready") /\ routes = Plainly("list_routes")
           /\ find = Plainly("find_binding")
           /\ c1 = List("remove", Upstream, ss) /\ c2 = Save(Upstream, ss)
           /\ \/ req[r].todo = <<c1, ready, routes>> /\ Near
              \/ /\ req[r].todo = <<c2, ready, routes>>
                 /\ Root \notin torn => Bound \/ (ss = {} /\ Empty /\ Free)
              \/ req[r].todo = <<ready, routes>> /\ Near
              \/ req[r].todo = <<routes>> /\ Near
              \/ req[r].todo = <<ready, find>> /\ Empty /\ Near
              \/ req[r].todo = <<find>> /\ Empty /\ Near
    <2>1. ASSUME NEW ss \in SUBSET Addresses,
                 \/ /\ req[r].todo =
                          <<List("remove", Upstream, ss), Plainly("ready"), Plainly("list_routes")>>
                    /\ Near
                 \/ /\ req[r].todo =
                          <<Save(Upstream, ss), Plainly("ready"), Plainly("list_routes")>>
                    /\ Root \notin torn => Bound \/ (ss = {} /\ Empty /\ Free)
                 \/ req[r].todo = <<Plainly("ready"), Plainly("list_routes")>> /\ Near
                 \/ req[r].todo = <<Plainly("list_routes")>> /\ Near
                 \/ req[r].todo = <<Plainly("ready"), Plainly("find_binding")>> /\ Empty /\ Near
                 \/ req[r].todo = <<Plainly("find_binding")>> /\ Empty /\ Near
          PROVE  \E x, ready, routes, find, c1, c2 :
           /\ x \in SUBSET Addresses
           /\ ready = Plainly("ready") /\ routes = Plainly("list_routes")
           /\ find = Plainly("find_binding")
           /\ c1 = List("remove", Upstream, x) /\ c2 = Save(Upstream, x)
           /\ \/ req[r].todo = <<c1, ready, routes>> /\ Near
              \/ /\ req[r].todo = <<c2, ready, routes>>
                 /\ Root \notin torn => Bound \/ (x = {} /\ Empty /\ Free)
              \/ req[r].todo = <<ready, routes>> /\ Near
              \/ req[r].todo = <<routes>> /\ Near
              \/ req[r].todo = <<ready, find>> /\ Empty /\ Near
              \/ req[r].todo = <<find>> /\ Empty /\ Near
      BY <2>1
    <2>2. {} \in SUBSET Addresses
      OBVIOUS
    <2> QED BY <2>1, <2>2 DEF TakingOf, Near
  <1>2. upstream \in [Addresses -> SUBSET Addresses] /\ Upstream \in Addresses
    BY UpstreamTypes DEF TypeInv, TypeOK
  <1>3. \A t : t # <<>> /\ Went(r, t) => torn' = torn
    BY DEF Went
  <1>4. CASE req[r].todo = <<c1, ready, routes>> /\ Near
    <2>0. Pending(r) = c1 /\ Tail(req[r].todo) = <<ready, routes>>
      BY <1>4 DEF Pending
    <2>1. /\ Pending(r).call = "list" /\ Pending(r).change = "remove"
          /\ Pending(r).upstream = Upstream /\ Pending(r).servers = ss
      BY <1>1, <2>0 DEF List
    <2>2. Effect(r)
      BY <2>1, DoesCall DEF RouterCalls
    <2>3. PICK left, c : left = upstream[Upstream] \ ss /\ c = Save(Upstream, left)
      OBVIOUS
    <2>4. Computed(Pending(r)) = c
      BY <2>1, <2>3 DEF Computed
    <2>5. /\ UNCHANGED <<app, entries, location, upstream>>
          /\ Went(r, <<c>> \o <<ready, routes>>)
      BY <2>0, <2>1, <2>2, <2>4, OnList
    <2>6. Went(r, <<c, ready, routes>>) /\ <<c, ready, routes>> # <<>>
      BY <2>5, Join12
    <2>7. torn' = torn
      BY <1>3, <2>6
    <2>8. left \in SUBSET Addresses /\ (Empty => left = {})
      BY <1>2, <2>3 DEF Empty
    <2>9. Root \notin torn' => Bound' \/ (left = {} /\ Empty' /\ Free')
      BY <1>4, <2>5, <2>7, <2>8 DEF Near, Bound, Empty, Free
    <2>10. TakingOf(<<c, ready, routes>>)'
      BY <1>1, <2>3, <2>8, <2>9 DEF TakingOf
    <2> QED BY <2>6, <2>10
  <1>5. CASE /\ req[r].todo = <<c2, ready, routes>>
             /\ Root \notin torn => Bound \/ (ss = {} /\ Empty /\ Free)
    <2>0. Pending(r) = c2 /\ Tail(req[r].todo) = <<ready, routes>>
      BY <1>5 DEF Pending
    <2>1. Pending(r).call = "save" /\ Pending(r).upstream = Upstream /\ Pending(r).servers = ss
      BY <1>1, <2>0 DEF Save
    <2>2. Effect(r)
      BY <2>1, DoesCall DEF RouterCalls
    <2>3. /\ UNCHANGED <<app, entries, location>> /\ Went(r, <<ready, routes>>)
          /\ upstream' = [upstream EXCEPT ![Upstream] = ss]
      BY <2>0, <2>1, <2>2, OnSave
    <2>4. upstream'[Upstream] = ss
      BY <1>2, <2>3
    <2>5. torn' = torn
      BY <1>3, <2>3
    <2>6. Near'
      BY <1>5, <2>3, <2>4, <2>5 DEF Near, Bound, Empty, Free
    <2>7. TakingOf(<<ready, routes>>)'
      BY <1>1, <2>6 DEF TakingOf, Near
    <2> QED BY <2>3, <2>7
  <1>6. CASE req[r].todo = <<ready, routes>> /\ Near
    <2>0. Pending(r) = ready /\ Tail(req[r].todo) = <<routes>>
      BY <1>6 DEF Pending
    <2>1. Pending(r).call = "ready"
      BY <1>1, <2>0 DEF Plainly
    <2>2. /\ UNCHANGED <<app, entries, location, upstream>>
          /\ Raised(r) \/ Went(r, <<routes>>)
      BY <2>0, <2>1, OnReady
    <2>3. torn' = torn => Near'
      BY <1>6, <2>2 DEF Near, Bound, Empty, Free
    <2>4. Near' => TakingOf(<<routes>>)'
      BY <1>1 DEF TakingOf, Near
    <2>5. <<routes>> # <<>>
      OBVIOUS
    <2> QED BY <1>3, <2>2, <2>3, <2>4, <2>5
  <1>7. CASE req[r].todo = <<routes>> /\ Near
    <2>0. Pending(r) = routes /\ Tail(req[r].todo) = <<>>
      BY <1>7 DEF Pending
    <2>1. Pending(r).call = "list_routes"
      BY <1>1, <2>0 DEF Plainly
    <2>2. /\ UNCHANGED <<app, entries, location, upstream>>
          /\ \/ Empty /\ Went(r, <<ready, find>>)
             \/ ~Empty /\ Went(r, <<>>)
      BY <1>1, <2>0, <2>1, OnListRoutes
    <2>3. CASE Empty /\ Went(r, <<ready, find>>)
      <3>1. torn' = torn
        BY <1>3, <2>3
      <3>2. Empty' /\ (Root \notin torn' => Bound' \/ Free')
        BY <1>7, <2>2, <2>3, <3>1 DEF Near, Bound, Empty, Free
      <3>3. TakingOf(<<ready, find>>)'
        BY <1>1, <3>2 DEF TakingOf
      <3> QED BY <2>3, <3>3
    <2>4. CASE ~Empty /\ Went(r, <<>>)
      <3>1. torn' = torn
        BY <2>4 DEF Went
      <3>2. ~Empty' /\ (Root \notin torn' => Bound')
        BY <1>7, <2>2, <2>4, <3>1 DEF Near, Bound, Empty
      <3> QED BY <2>4, <3>2
    <2> QED BY <2>2, <2>3, <2>4
  <1>8. CASE req[r].todo = <<ready, find>> /\ Empty /\ Near
    <2>0. Pending(r) = ready /\ Tail(req[r].todo) = <<find>>
      BY <1>8 DEF Pending
    <2>1. Pending(r).call = "ready"
      BY <1>1, <2>0 DEF Plainly
    <2>2. /\ UNCHANGED <<app, entries, location, upstream>>
          /\ Raised(r) \/ Went(r, <<find>>)
      BY <2>0, <2>1, OnReady
    <2>3. torn' = torn => Empty' /\ (Root \notin torn' => Bound' \/ Free')
      BY <1>8, <2>2 DEF Near, Bound, Empty, Free
    <2>4. Empty' /\ (Root \notin torn' => Bound' \/ Free') => TakingOf(<<find>>)'
      BY <1>1 DEF TakingOf
    <2>5. <<find>> # <<>>
      OBVIOUS
    <2> QED BY <1>3, <2>2, <2>3, <2>4, <2>5
  <1>9. CASE req[r].todo = <<find>> /\ Empty /\ Near
    <2>0. Pending(r) = find /\ Tail(req[r].todo) = <<>>
      BY <1>9 DEF Pending
    <2>1. Pending(r).call = "find_binding"
      BY <1>1, <2>0 DEF Plainly
    <2>2. /\ UNCHANGED <<app, entries, location, upstream>>
          /\ \/ app = Nothing /\ entries[Root] = <<>> /\ Went(r, <<>>)
             \/ TurnsToUnbind(r)
      BY <2>0, <2>1, OnFindBinding
    <2>3. CASE app = Nothing /\ entries[Root] = <<>> /\ Went(r, <<>>)
      <3>1. torn' = torn
        BY <2>3 DEF Went
      <3>2. ~Bound
        BY <2>3, UpstreamTypes DEF Bound
      <3>3. Empty' /\ (Root \notin torn' => Free')
        BY <1>9, <2>2, <3>1, <3>2 DEF Near, Empty, Free
      <3> QED BY <2>3, <3>3
    <2> QED BY <1>9, <2>2, <2>3
  <1> QED BY <1>1, <1>4, <1>5, <1>6, <1>7, <1>8, <1>9
-----------------------------------------------------------------------------

(* Request r goes on or ends; no other request moves.                      *)
OneGoes(r) ==
    /\ \A q \in Requests \ {r} : req'[q] = req[q]
    /\ req'[r].todo # <<>> => /\ req'[r].path = req[r].path
                              /\ req'[r].clean = req[r].clean
    /\ torn \subseteq torn' \/ req[r].clean

LEMMA WentOne ==
    ASSUME NEW r, NEW t, Went(r, t)
    PROVE  OneGoes(r)
  BY DEF Went, OneGoes

LEMMA RaisedOne ==
    ASSUME NEW r, Raised(r)
    PROVE  OneGoes(r)
  BY DEF Raised, OneGoes

LEMMA TurnedOne ==
    ASSUME TypeInv, NEW r \in Requests, TurnsToUnbind(r)
    PROVE  /\ OneGoes(r) /\ req'[r].whole /\ req'[r].todo = UnbindCalls
           /\ req'[r].path = Root
  <1>1. PICK x \in ReqType :
           /\ x.path = Root /\ x.path = req[r].path /\ x.whole = TRUE
           /\ x.clean = req[r].clean /\ x.todo = UnbindCalls
           /\ req' = [req EXCEPT ![r] = x]
    BY DEF TurnsToUnbind
  <1>2. torn' = torn
    BY DEF TurnsToUnbind
  <1>3. req'[r] = x /\ \A q \in Requests \ {r} : req'[q] = req[q]
    <2>1. req \in [Requests -> ReqType]
      BY DEF TypeInv, TypeOK, ReqType
    <2> QED BY <1>1, <2>1
  <1> QED BY <1>1, <1>2, <1>3 DEF OneGoes

LEMMA DoesOne ==
    ASSUME TypeInv, NEW r \in Requests, Busy(r), Does(r)
    PROVE  OneGoes(r)
  <1>1. CASE Effect(r)
    BY <1>1, EffectGoes, WentOne, RaisedOne
  <1>2. CASE RouterEffect(r)
    <2>1. \/ Raise(r)
          \/ Return(r, <<>>)
          \/ /\ Pending(r).call = "list_routes"
             /\ Return(r, <<Plainly("ready"), Plainly("find_binding")>>)
          \/ TurnsToUnbind(r)
      BY <1>2 DEF RouterEffect
    <2>2. CASE Return(r, <<>>)
      BY <2>2, GoesOn, WentOne
    <2>3. CASE /\ Pending(r).call = "list_routes"
               /\ Return(r, <<Plainly("ready"), Plainly("find_binding")>>)
      <3>1. req[r].path = Root
        BY <2>3, BusyPending, Parameters
      <3>2. <<Plainly("ready"), Plainly("find_binding")>> \in Seq(CallsOf(req[r].path))
        <4>1. <<Plainly("ready"), Plainly("find_binding")>> \in Seq(CallsOf(Root))
          BY RouterTodos
        <4> QED BY <3>1, <4>1
      <3>3. Went(r, <<Plainly("ready"), Plainly("find_binding")>> \o Tail(req[r].todo))
        BY <2>3, <3>2, Returns
      <3> QED BY <3>3, WentOne
    <2> QED BY <2>1, <2>2, <2>3, RaisesUp, RaisedOne, TurnedOne
  <1> QED BY <1>1, <1>2 DEF Does

(* A step of request r, if it runs alone, keeps the backend in order.      *)
InOrderNow == (Empty => Free) /\ (~Empty => Bound)

LEMMA BackMoves ==
    ASSUME BackInv, NEW r \in Requests, Busy(r), OneGoes(r), UNCHANGED swapVars,
           req[r].clean => \/ req'[r].todo = <<>> /\ (Root \notin torn' => InOrderNow')
                           \/ req'[r].todo # <<>> /\ Stage(r)'
    PROVE  BackInv'
  <1>1. /\ Removals' = Removals /\ live' = live /\ job' = job
        /\ \A q \in Requests \ {r} : req'[q] = req[q]
    BY DEF swapVars, Removals, WorkOn, Working, Names, OneGoes
  <1>2. req[r].path = Root
    BY DEF BackInv
  <1>3. CASE req[r].clean
    <2>1. /\ \A q \in Requests \ {r} : ~Busy(q)
          /\ Removals = {} /\ Backend \in live
      BY <1>3 DEF BackInv
    <2>2. \A q \in Requests \ {r} : ~Busy(q)'
      BY <1>1, <2>1 DEF Busy
    <2>3. CASE req'[r].todo = <<>> /\ (Root \notin torn' => InOrderNow')
      <3>1. \A q \in Requests : ~Busy(q)'
        BY <2>2, <2>3 DEF Busy
      <3>2. Root \notin torn' => BackendOK'
        BY <1>1, <2>1, <2>3 DEF BackendOK, InOrderNow
      <3> QED BY <1>1, <2>1, <3>1, <3>2 DEF BackInv
    <2>4. CASE req'[r].todo # <<>> /\ Stage(r)'
      <3>1. req'[r].path = Root /\ req'[r].clean
        BY <1>2, <1>3, <2>4 DEF OneGoes
      <3>2. Busy(r)' /\ ~AtRest'
        BY <2>4 DEF Busy, AtRest
      <3> QED BY <1>1, <2>1, <2>2, <2>4, <3>1, <3>2 DEF BackInv
    <2> QED BY <1>3, <2>3, <2>4
  <1>4. CASE ~req[r].clean
    <2>1. Root \in torn
      BY <1>4 DEF BackInv
    <2>2. Root \in torn'
      BY <1>4, <2>1 DEF OneGoes
    <2>3. ASSUME NEW q \in Requests, Busy(q)'
          PROVE  req'[q].path = Root /\ ~req'[q].clean
      <3>1. CASE q = r
        BY <1>2, <1>4, <2>3, <3>1 DEF OneGoes, Busy
      <3>2. CASE q # r
        <4>1. req'[q] = req[q] /\ Busy(q)
          BY <1>1, <2>3, <3>2 DEF Busy
        <4>2. ~req[q].clean
          BY <3>2, <4>1 DEF BackInv
        <4> QED BY <4>1, <4>2 DEF BackInv
      <3> QED BY <3>1, <3>2
    <2> QED BY <2>2, <2>3 DEF BackInv
  <1> QED BY <1>3, <1>4

LEMMA BackDoes ==
    ASSUME TypeInv, BackInv, NEW r \in Requests, Busy(r), Does(r), UNCHANGED swapVars
    PROVE  BackInv'
  <1>1. OneGoes(r) /\ req[r].path = Root
    BY DoesOne DEF BackInv
  <1>2. CASE ~req[r].clean
    BY <1>1, <1>2, BackMoves
  <1>3. CASE req[r].clean
    <2>1. Stage(r)
      BY <1>3 DEF BackInv
    <2>2. CASE Raised(r)
      <3>1. req'[r].todo = <<>> /\ Root \in torn'
        BY <1>1, <2>2 DEF Raised
      <3> QED BY <1>1, <3>1, BackMoves
    <2>3. ASSUME NEW t, t # <<>>, Went(r, t),
                 IF req[r].whole
                 THEN OpeningOf(t)' \/ (Bound' /\ FillingOf(t)) \/ (Empty' /\ ClosingOf(t)')
                 ELSE ((Root \notin torn' => Bound') /\ FillingOf(t)) \/ TakingOf(t)'
          PROVE  BackInv'
      <3>1. req'[r].todo = t /\ req'[r].whole = req[r].whole
        BY <2>3 DEF Went
      <3>2. FillingOf(t)' <=> FillingOf(t)
        BY DEF FillingOf
      <3>3. Stage(r)'
        BY <2>3, <3>1, <3>2 DEF Stage, StageOf
      <3> QED BY <1>1, <2>3, <3>1, <3>3, BackMoves
    <2>4. ASSUME Went(r, <<>>), Root \notin torn' => InOrderNow'
          PROVE  BackInv'
      <3>1. req'[r].todo = <<>>
        BY <2>4 DEF Went
      <3> QED BY <1>1, <2>4, <3>1, BackMoves
    <2>5. CASE req[r].whole /\ OpeningOf(req[r].todo)
      <3>1. PICK t : /\ t # <<>> /\ Went(r, t)
                     /\ OpeningOf(t)' \/ (Bound' /\ FillingOf(t))
        BY <1>1, <2>5, OpeningSteps
      <3> QED BY <2>3, <2>5, <3>1
    <2>6. CASE FillingOf(req[r].todo) /\ (req[r].whole => Bound) /\ (Root \notin torn => Bound)
      <3>1. /\ UNCHANGED <<app, entries, location>>
            /\ \/ Raised(r)
               \/ \E t : t # <<>> /\ Went(r, t) /\ FillingOf(t)
               \/ Went(r, <<>>) /\ ~Empty'
        BY <2>6, FillingSteps
      <3>2. Bound => Bound'
        BY <3>1 DEF Bound
      <3>3. ASSUME NEW t, t # <<>>, Went(r, t), FillingOf(t)
            PROVE  BackInv'
        <4>1. torn' = torn
          BY <3>3 DEF Went
        <4> QED BY <2>3, <2>6, <3>2, <3>3, <4>1
      <3>4. CASE Went(r, <<>>) /\ ~Empty'
        <4>1. req[r].whole \/ torn' = torn
          BY <3>4 DEF Went
        <4>2. Root \notin torn' => InOrderNow'
          BY <2>6, <3>2, <3>4, <4>1 DEF InOrderNow
        <4> QED BY <2>4, <3>4, <4>2
      <3> QED BY <2>2, <3>1, <3>3, <3>4
    <2>7. CASE req[r].whole /\ Empty /\ ClosingOf(req[r].todo)
      <3>1. /\ Empty'
            /\ \/ Raised(r)
               \/ \E t : t # <<>> /\ Went(r, t) /\ ClosingOf(t)'
               \/ Went(r, <<>>) /\ Free'
        BY <1>1, <2>7, ClosingSteps
      <3>2. Free' => InOrderNow'
        BY <3>1 DEF InOrderNow
      <3> QED BY <2>2, <2>3, <2>4, <2>7, <3>1, <3>2
    <2>8. CASE ~req[r].whole /\ TakingOf(req[r].todo)
      <3>1. \/ Raised(r)
            \/ \E t : t # <<>> /\ Went(r, t) /\ TakingOf(t)'
            \/ Went(r, <<>>) /\ (Root \notin torn' => (Empty' => Free') /\ (~Empty' => Bound'))
            \/ /\ TurnsToUnbind(r) /\ Empty
               /\ UNCHANGED <<app, entries, location, upstream>>
        BY <1>1, <2>8, TakingSteps
      <3>2. CASE Went(r, <<>>) /\ (Root \notin torn' => (Empty' => Free') /\ (~Empty' => Bound'))
        BY <2>4, <3>2 DEF InOrderNow
      <3>3. CASE /\ TurnsToUnbind(r) /\ Empty
                 /\ UNCHANGED <<app, entries, location, upstream>>
        <4>1. req'[r].whole /\ req'[r].todo = UnbindCalls
          BY <3>3, TurnedOne
        <4>2. PICK l, todo : l = TakeAppOut /\ OnDefault(l) /\ todo = UnbindCalls
          <5>1. OnDefault(Plainly("parse_none"))
            BY DEF OnDefault, Plainly
          <5>2. \A ss : OnDefault(List("remove", Default, ss))
            BY DEF OnDefault, List
          <5>3. OnDefault(TakeAppOut)
            BY <5>1, <5>2, Zenon DEF TakeAppOut
          <5> QED BY <5>3
        <4>3. todo = <<Pull(Root, TRUE), SetApp(Nothing), Put(Root, Plain("not_bound")), l>>
          BY <4>2 DEF UnbindCalls
        <4>4. ClosingOf(todo)' /\ todo # <<>>
          BY <4>2, <4>3 DEF ClosingOf
        <4>5. Empty'
          BY <3>3 DEF Empty
        <4>6. Stage(r)' /\ req'[r].todo # <<>>
          BY <4>1, <4>2, <4>4, <4>5 DEF Stage, StageOf
        <4> QED BY <1>1, <4>6, BackMoves
      <3> QED BY <2>2, <2>3, <2>8, <3>1, <3>2, <3>3
    <2> QED BY <2>1, <2>5, <2>6, <2>7, <2>8 DEF Stage, StageOf
  <1> QED BY <1>2, <1>3
-----------------------------------------------------------------------------

LEMMA Five ==
    ASSUME NEW S, NEW s \in Seq(S), Len(s) = 5
    PROVE  s = <<s[1], s[2], s[3], s[4], s[5]>>
  OBVIOUS

LEMMA Join32 ==
    ASSUME NEW a, NEW b, NEW c, NEW d, NEW e
    PROVE  <<a, b, c>> \o <<d, e>> = <<a, b, c, d, e>>
  <1>1. PICK S, s, t, u : S = {a, b, c, d, e} /\ s = <<a, b>> /\ t = <<c>> /\ u = <<d, e>>
    OBVIOUS
  <1>2. s \in Seq(S) /\ t \in Seq(S) /\ u \in Seq(S)
    BY <1>1
  <1>3. (s \o t) \o u = s \o (t \o u)
    BY <1>2, ConcatAssociative
  <1>4. s \o t = <<a, b, c>>
    BY <1>1, Join21
  <1>5. PICK v : v = <<c, d, e>>
    OBVIOUS
  <1>6. t \o u = v
    BY <1>1, <1>5, Join12
  <1>7. PICK w : w = s \o v
    OBVIOUS
  <1>8. v \in Seq(S) /\ Len(v) = 3 /\ Len(s) = 2 /\ v[1] = c /\ v[2] = d /\ v[3] = e
    BY <1>1, <1>5
  <1>9. /\ w \in Seq(S) /\ Len(w) = Len(s) + Len(v)
        /\ \A i \in 1 .. Len(s) + Len(v) : w[i] = IF i <= Len(s) THEN s[i] ELSE v[i - Len(s)]
    BY <1>2, <1>7, <1>8, ConcatProperties
  <1>10. Len(w) = 5 /\ w[1] = a /\ w[2] = b /\ w[3] = c /\ w[4] = d /\ w[5] = e
    BY <1>1, <1>8, <1>9
  <1>11. w = <<a, b, c, d, e>>
    BY <1>9, <1>10, Five
  <1> QED BY <1>1, <1>3, <1>4, <1>6, <1>7, <1>11

(* A request that begins: alone, it finds the backend in order.            *)
LEMMA BackBegins ==
    ASSUME TypeInv, BackInv, NEW r \in Requests, NEW alone \in BOOLEAN, NEW whole \in BOOLEAN,
           NEW calls \in Seq(CallsOf(Root)), BeginAmong(alone, r, Root, whole, calls),
           calls # <<>>, alone = TRUE <=> Removals = {}, Backend \in live,
           UNCHANGED <<live, job>>,
           AtRest => StageOf(whole, calls)'
    PROVE  BackInv'
  <1>0. Root \in Paths /\ Removals' = Removals
    BY AddressTypes DEF Removals, WorkOn, Working, Names
  <1>1. Begun(alone, r, Root, whole, calls)
    BY <1>0, Begins
  <1>2. /\ ~Busy(r) /\ req'[r].path = Root /\ req'[r].whole = whole /\ req'[r].todo = calls
        /\ req'[r].clean <=> alone = TRUE /\ Rivals(Root) = {}
        /\ \A q \in Requests \ {r} :
              /\ req'[q].path = req[q].path /\ req'[q].todo = req[q].todo
              /\ req'[q].clean <=> req[q].clean /\ q \notin Rivals(Root)
    BY <1>1 DEF Begun
  <1>3. /\ torn' = torn \/ torn' = torn \cup {Root}
        /\ alone = FALSE \/ Rivals(Root) # {} => torn' = torn \cup {Root}
    BY BeginTears
  <1>4. \A q \in Requests : Busy(q) => q \in Rivals(Root)
    BY DEF BackInv, Rivals
  <1>5. Busy(r)' /\ ~AtRest'
    BY <1>2 DEF Busy, AtRest
  <1>6. \A q \in Requests \ {r} : Busy(q)' <=> Busy(q)
    BY <1>2 DEF Busy
  <1>7. CASE alone = TRUE /\ Rivals(Root) = {}
    <2>1. Removals = {} /\ \A q \in Requests : ~Busy(q)
      BY <1>4, <1>7
    <2>2. Stage(r)'
      BY <1>2, <2>1 DEF Stage, AtRest
    <2> QED BY <1>0, <1>2, <1>5, <1>6, <1>7, <2>1, <2>2 DEF BackInv
  <1>8. CASE ~(alone = TRUE /\ Rivals(Root) = {})
    <2>1. Root \in torn'
      BY <1>3, <1>8
    <2>2. ASSUME NEW q \in Requests, Busy(q)'
          PROVE  req'[q].path = Root /\ ~req'[q].clean
      <3>1. CASE q = r
        BY <1>2, <1>8, <3>1
      <3>2. CASE q # r
        BY <1>2, <1>4, <1>6, <2>2, <3>2 DEF BackInv
      <3> QED BY <3>1, <3>2
    <2> QED BY <2>1, <2>2 DEF BackInv
  <1> QED BY <1>7, <1>8

LEMMA Named ==
    ASSUME NEW servers \in (SUBSET Destinations) \ {{}}
    PROVE  ServersOf(servers) \in AnyServers /\ servers \in SUBSET Destinations
  BY UpstreamTypes DEF ServersOf, AnyServers

LEMMA AddBegins ==
    ASSUME TypeInv, BackInv, NEW r \in Requests, NEW servers \in (SUBSET Destinations) \ {{}},
           AddRoutes(r, servers)
    PROVE  BackInv'
  <1>0. /\ ServersOf(servers) \in AnyServers /\ servers \in SUBSET Destinations
        /\ Backend \in live
    BY Named, AddRoutesBegins DEF Found
  <1>1. PICK ss, c1, c2, c3, c4, c5 :
           /\ ss \in AnyServers /\ ss = ServersOf(servers)
           /\ c1 = Put(Root, Proxy(Upstream, Upstream)) /\ c2 = Pull(Root, FALSE)
           /\ c3 = StoreBinding(Upstream) /\ c4 = Plainly("ready")
           /\ c5 = List("add", Upstream, ss)
    BY <1>0
  <1>2. PICK alone \in BOOLEAN : alone <=> Removals = {}
    OBVIOUS
  <1>3. alone = (Removals = {})
    BY <1>2
  <1>4. UNCHANGED <<live, job>>
    BY <1>0, AddRoutesBegins
  <1>5. CASE /\ app = Upstream
             /\ BeginAmong(Removals = {}, r, Root, FALSE, AddServers(servers))
    <2>1. PICK calls \in Seq(CallsOf(Root)) : calls = AddServers(servers) /\ calls = <<c4, c5>>
      BY <1>0, <1>1, RouterTodos DEF AddServers
    <2>2. BeginAmong(alone, r, Root, FALSE, calls)
      BY <1>3, <1>5, <2>1
    <2>3. UNCHANGED <<app, entries, location>> /\ (Root \notin torn' => Root \notin torn)
      BY <2>2, BeginTears DEF BeginAmong, docVars, consulVars
    <2>4. FillingOf(calls)'
      BY <1>1, <2>1 DEF FillingOf
    <2>5. ASSUME AtRest
          PROVE  Root \notin torn' => Bound'
      <3>1. Root \notin torn' => BackendOK
        BY <2>3, <2>5 DEF BackInv
      <3>2. Root \notin torn' => Bound
        BY <1>5, <3>1, UpstreamTypes DEF BackendOK, Free
      <3> QED BY <2>3, <3>2 DEF Bound
    <2>6. AtRest => StageOf(FALSE, calls)'
      BY <2>4, <2>5 DEF StageOf
    <2>7. calls # <<>>
      BY <2>1
    <2> QED BY <1>0, <1>2, <1>4, <2>2, <2>6, <2>7, BackBegins
  <1>6. CASE /\ app # Upstream
             /\ BeginAmong(Removals = {}, r, Root, TRUE, BindBackend \o AddServers(servers))
    <2>1. BindBackend = <<c1, c2, c3>> /\ AddServers(servers) = <<c4, c5>>
      BY <1>1 DEF BindBackend, AddServers
    <2>2. PICK calls \in Seq(CallsOf(Root)) :
             calls = BindBackend \o AddServers(servers)
      BY <1>0, RouterTodos
    <2>3. calls = <<c1, c2, c3, c4, c5>>
      BY <2>1, <2>2, Join32
    <2>4. BeginAmong(alone, r, Root, TRUE, calls)
      BY <1>3, <1>6, <2>2
    <2>5. OpeningOf(calls)'
      BY <1>1, <2>3 DEF OpeningOf
    <2>6. AtRest => StageOf(TRUE, calls)'
      BY <2>5 DEF StageOf
    <2>7. calls # <<>>
      BY <2>3
    <2> QED BY <1>0, <1>2, <1>4, <2>4, <2>6, <2>7, BackBegins
  <1> QED BY <1>0, <1>5, <1>6, AddRoutesBegins

LEMMA DeleteBeginsToo ==
    ASSUME TypeInv, BackInv, NEW r \in Requests, NEW servers \in SUBSET Destinations,
           DeleteRoutes(r, servers)
    PROVE  BackInv'
  <1>0. /\ Backend \in live /\ UNCHANGED <<live, job>>
        /\ BeginAmong(Removals = {}, r, Root, FALSE, TakeServers(servers))
    BY DeleteRoutesBegins DEF Found
  <1>1. PICK ss, ready, routes, c1 :
           /\ ss \in SUBSET Addresses /\ ss = ServersOf(servers)
           /\ ready = Plainly("ready") /\ routes = Plainly("list_routes")
           /\ c1 = List("remove", Upstream, ss)
    BY UpstreamTypes
  <1>2. PICK alone \in BOOLEAN : alone <=> Removals = {}
    OBVIOUS
  <1>3. PICK calls \in Seq(CallsOf(Root)) :
           calls = TakeServers(servers) /\ calls = <<c1, ready, routes>>
    BY <1>1, RouterTodos DEF TakeServers
  <1>4. alone = (Removals = {})
    BY <1>2
  <1>5. BeginAmong(alone, r, Root, FALSE, calls)
    BY <1>0, <1>3, <1>4
  <1>6. UNCHANGED <<app, entries, location, upstream>> /\ (Root \notin torn' => Root \notin torn)
    BY <1>5, BeginTears DEF BeginAmong, docVars, consulVars
  <1>7. ASSUME AtRest
        PROVE  Root \notin torn' => Bound' \/ (Empty' /\ Free')
    <2>1. Root \notin torn' => BackendOK
      BY <1>6, <1>7 DEF BackInv
    <2> QED BY <1>6, <2>1 DEF BackendOK, Bound, Free, Empty
  <1>8. AtRest => TakingOf(calls)'
    BY <1>1, <1>3, <1>7 DEF TakingOf
  <1>9. AtRest => StageOf(FALSE, calls)'
    BY <1>8 DEF StageOf
  <1>10. calls # <<>>
    BY <1>3
  <1> QED BY <1>0, <1>2, <1>5, <1>9, <1>10, BackBegins

(* A failed call ends the request that runs alone as torn.                 *)
LEMMA BackFails ==
    ASSUME TypeInv, BackInv, NEW r \in Requests, RequestFails(r), UNCHANGED swapVars
    PROVE  BackInv'
  <1>1. Raised(r) /\ Busy(r)
    BY RaisesUp DEF RequestFails
  <1>2. OneGoes(r) /\ req'[r].todo = <<>> /\ Root \in torn'
    BY <1>1, RaisedOne DEF Raised, BackInv
  <1> QED BY <1>1, <1>2, BackMoves

LEMMA BackSwallows ==
    ASSUME TypeInv, BackInv, NEW r \in Requests, SwallowedFailure(r), UNCHANGED swapVars
    PROVE  BackInv'
  <1>1. /\ Busy(r) /\ \A q \in Requests \ {r} : req'[q] = req[q]
        /\ req'[r].path = req[r].path /\ ~req'[r].clean /\ torn' = torn \cup {req[r].path}
    BY Swallows
  <1>2. req[r].path = Root /\ Root \in torn'
    BY <1>1 DEF BackInv
  <1>3. ASSUME NEW q \in Requests, Busy(q)'
        PROVE  req'[q].path = Root /\ ~req'[q].clean
    <2>1. CASE q = r
      BY <1>1, <1>2, <2>1
    <2>2. CASE q # r
      <3>1. req'[q] = req[q] /\ Busy(q)
        BY <1>1, <1>3, <2>2 DEF Busy
      <3>2. ~req[q].clean
        BY <1>1, <2>2, <3>1 DEF BackInv
      <3> QED BY <3>1, <3>2 DEF BackInv
    <2> QED BY <2>1, <2>2
  <1> QED BY <1>2, <1>3 DEF BackInv

LEMMA BackRoutes ==
    ASSUME TypeInv, BackInv, NEW r \in Requests, RoutesStep(r)
    PROVE  BackInv'
  <1>1. UNCHANGED swapVars
    BY DEF RoutesStep
  <1>2. CASE RequestStep(r)
    BY <1>1, <1>2, StepEffect, BackDoes DEF Does
  <1>3. CASE RouterCall(r)
    BY <1>1, <1>3, RouterCallEffect, BackDoes DEF Does
  <1> QED BY <1>1, <1>2, <1>3, BackFails, BackSwallows DEF RoutesStep, RouterCall
-----------------------------------------------------------------------------

OfBackend(j) == Working(j) /\ job[j].src = Backend /\ job[j].dst = None

LEMMA RemovalsAre ==
    /\ Removals = {j \in Jobs : OfBackend(j)}
    /\ Removals' = {j \in Jobs : OfBackend(j)'}
  <1>1. Backend # None
    BY RouterAssumption, SwapAssumption
  <1>2. \A j \in Jobs : j \in Removals <=> OfBackend(j)
    BY <1>1 DEF Removals, WorkOn, Names, OfBackend
  <1>3. \A j \in Jobs : j \in Removals' <=> OfBackend(j)'
    BY <1>1 DEF Removals, WorkOn, Names, OfBackend
  <1>4. Removals \subseteq Jobs /\ Removals' \subseteq Jobs
    BY DEF Removals, WorkOn
  <1> QED BY <1>2, <1>3, <1>4

Same(k) == job'[k].pc = job[k].pc /\ job'[k].src = job[k].src /\ job'[k].dst = job[k].dst

LEMMA StageKept ==
    ASSUME NEW r, UNCHANGED vars, Stage(r)
    PROVE  Stage(r)'
  <1>0. UNCHANGED <<app, entries, location, upstream, req, torn>>
    BY DEF vars
  <1>1. /\ Bound' <=> Bound
        /\ Free' <=> Free
        /\ Empty' <=> Empty
    BY <1>0 DEF Bound, Free, Empty
  <1>2. PICK whole, todo : whole = req[r].whole /\ todo = req[r].todo
    OBVIOUS
  <1>3. FillingOf(todo)' <=> FillingOf(todo)
    BY DEF FillingOf
  <1>4. OpeningOf(todo)' <=> OpeningOf(todo)
    BY <1>0 DEF OpeningOf
  <1>5. TakingOf(todo)' <=> TakingOf(todo)
    BY <1>0, <1>1 DEF TakingOf
  <1>6. ClosingOf(todo)' <=> ClosingOf(todo)
    BY <1>0 DEF ClosingOf
  <1>7. StageOf(whole, todo)
    BY <1>2 DEF Stage
  <1>8. StageOf(whole, todo)'
    BY <1>0, <1>1, <1>3, <1>4, <1>5, <1>6, <1>7 DEF StageOf
  <1> QED BY <1>0, <1>2, <1>8 DEF Stage

(* Jobs on other instances do not move the backend. *)
LEMMA BackQuiet ==
    ASSUME BackInv, UNCHANGED vars, Backend \in live => Backend \in live',
           \A k \in Jobs : Same(k) \/ ~(OfBackend(k) \/ OfBackend(k)')
    PROVE  BackInv'
  <1>0. /\ UNCHANGED <<app, entries, location, upstream, req, torn>>
        /\ \A r \in Requests : Busy(r)' <=> Busy(r)
    BY DEF vars, Busy
  <1>1. \A k \in Jobs : OfBackend(k)' <=> OfBackend(k)
    BY DEF Same, OfBackend, Working
  <1>2. Removals' = Removals
    BY <1>1, RemovalsAre
  <1>3. \A j \in Removals : Erased(j) => Erased(j)'
    <2>1. \A j \in Removals : job'[j].pc = job[j].pc
      BY RemovalsAre DEF Same
    <2> QED BY <1>0, <2>1 DEF Erased, Empty
  <1>4. BackendOK => BackendOK'
    BY <1>0 DEF BackendOK, Empty, Free, Bound
  <1>5. AtRest' <=> AtRest
    BY <1>0, <1>2 DEF AtRest
  <1>6. ASSUME NEW r \in Requests, Busy(r)'
        PROVE  /\ req'[r].path = Root
               /\ IF req'[r].clean
                  THEN /\ \A q \in Requests : Busy(q)' => q = r
                       /\ Removals' = {} /\ Backend \in live' /\ Stage(r)'
                  ELSE Root \in torn'
    <2>1. Busy(r) /\ req'[r] = req[r]
      BY <1>0, <1>6
    <2>2. CASE req[r].clean
      <3>1. Removals = {} /\ Backend \in live /\ Stage(r) /\ \A q \in Requests : Busy(q) => q = r
        BY <2>1, <2>2 DEF BackInv
      <3> QED BY <1>0, <1>2, <2>1, <2>2, <3>1, StageKept DEF BackInv
    <2>3. CASE ~req[r].clean
      BY <1>0, <2>1, <2>3 DEF BackInv
    <2> QED BY <2>2, <2>3
  <1>7. ASSUME Root \notin torn'
        PROVE  /\ \A j \in Removals' : /\ \A k \in Removals' : k = j
                                       /\ \A r \in Requests : ~Busy(r)'
                                       /\ Erased(j)'
               /\ AtRest' => BackendOK'
    BY <1>0, <1>2, <1>3, <1>4, <1>5, <1>7 DEF BackInv
  <1> QED BY <1>6, <1>7 DEF BackInv

LEMMA BackCreates ==
    ASSUME SwapInv, BackInv, UNCHANGED vars, NEW i \in Instances, CreateInstance(i)
    PROVE  BackInv'
  <1>1. job' = [j \in Jobs |-> [job[j] EXCEPT !.clean = @ /\ j \notin WorkOn(i)]]
    BY DEF CreateInstance
  <1>2. \A j \in Jobs : job[j] \in JobType
    BY DEF SwapInv, SwapTypeOK
  <1>3. \A j \in Jobs : Same(j)
    BY <1>1, <1>2 DEF Same, JobType
  <1>4. live \subseteq live'
    BY DEF CreateInstance
  <1> QED BY <1>3, <1>4, BackQuiet

LEMMA BeginsJob ==
    ASSUME SwapInv, NEW j \in Jobs, NEW pc, NEW a, NEW b, BeginJob(j, pc, a, b)
    PROVE  /\ ~Working(j) /\ job'[j].pc = pc /\ job'[j].src = a /\ job'[j].dst = b
           /\ \A k \in Jobs \ {j} : Same(k)
           /\ live' = live
  <1>1. PICK rivals :
           /\ ~Working(j) /\ live' = live
           /\ job' = [k \in Jobs |->
                         IF k = j THEN [pc |-> pc, src |-> a, dst |-> b,
                                        seen |-> None, clean |-> rivals = {}]
                         ELSE [job[k] EXCEPT !.clean = @ /\ k \notin rivals]]
    BY DEF BeginJob
  <1>2. \A k \in Jobs : job[k] \in JobType
    BY DEF SwapInv, SwapTypeOK
  <1> QED BY <1>1, <1>2 DEF Same, JobType

LEMMA BackOther ==
    ASSUME SwapInv, BackInv, NEW j \in Jobs, OtherJob(j)
    PROVE  BackInv'
  <1>0. UNCHANGED vars /\ SwapTypeOK /\ SwapPlaces(j) /\ job[j] \in JobType
    BY DEF OtherJob, SwapInv, SwapTypeOK
  <1>1. ASSUME NEW pc, NEW a, NEW b, BeginJob(j, pc, a, b), b # None \/ a # Backend
        PROVE  BackInv'
    <2>1. ~OfBackend(j) /\ ~OfBackend(j)' /\ live' = live /\ \A k \in Jobs \ {j} : Same(k)
      BY <1>1, BeginsJob DEF OfBackend
    <2> QED BY <1>0, <2>1, BackQuiet
  <1>2. ASSUME NEW a \in Instances, NEW b \in Instances, BeginSwap(j, a, b)
        PROVE  BackInv'
    BY <1>1, <1>2, SwapAssumption DEF BeginSwap
  <1>3. ASSUME NEW i \in Instances \ {Backend}, BeginRemoval(j, i)
        PROVE  BackInv'
    BY <1>1, <1>3 DEF BeginRemoval
  <1>4. ASSUME j \notin Removals,
               JobStep(j) \/ RemoveBinding(j) \/ DestroyTree(j) \/ DestroyLB(j) \/ Dies(j)
        PROVE  BackInv'
    <2>1. ~OfBackend(j)
      BY <1>4, RemovalsAre
    <2>2. Working(j)
      BY <1>4 DEF JobStep, CheckSrc, CheckDst, ReadAgain, WriteSrc, WriteDst, CreateTaskDoc,
                  RemoveTaskDoc, RemoveBinding, DestroyTree, DestroyLB, Dies, JobDies, Working
    <2>3. \/ job' = [job EXCEPT ![j] = Idle]
          \/ \E pc : job' = [job EXCEPT ![j].pc = pc]
          \/ \E pc, seen : job' = [job EXCEPT ![j].pc = pc, ![j].seen = seen]
      BY <1>4 DEF JobStep, CheckSrc, CheckDst, ReadAgain, WriteSrc, WriteDst, CreateTaskDoc,
                  RemoveTaskDoc, RemoveBinding, DestroyTree, DestroyLB, Dies, JobDies,
                  Goto, GiveUp, EndJob
    <2>4. job \in [Jobs -> JobType]
      BY <1>0 DEF SwapTypeOK
    <2>5. /\ \A k \in Jobs \ {j} : job'[k] = job[k]
          /\ job'[j] = Idle \/ (job'[j].src = job[j].src /\ job'[j].dst = job[j].dst)
      BY <2>3, <2>4 DEF JobType
    <2>6. ~OfBackend(j)'
      BY <2>1, <2>2, <2>5 DEF OfBackend, Working, Idle
    <2>7. live' = live \/ (job[j].pc = "lb" /\ live' = live \ {job[j].src})
      BY <1>4 DEF JobStep, CheckSrc, CheckDst, ReadAgain, WriteSrc, WriteDst, CreateTaskDoc,
                  RemoveTaskDoc, RemoveBinding, DestroyTree, DestroyLB, Dies, JobDies
    <2>8. job[j].pc = "lb" => job[j].src # Backend
      BY <1>0, <2>1, <2>2 DEF SwapPlaces, Removes, OfBackend
    <2>9. Backend \in live => Backend \in live'
      BY <2>7, <2>8
    <2>10. \A k \in Jobs \ {j} : Same(k)
      BY <2>5 DEF Same
    <2> QED BY <1>0, <2>1, <2>6, <2>9, <2>10, BackQuiet
  <1> QED BY <1>2, <1>3, <1>4 DEF OtherJob
-----------------------------------------------------------------------------
(* A removal of the backend begins: any request for it is no longer clean. *)
LEMMA BackRemovalBegins ==
    ASSUME TypeInv, SwapInv, BackInv, NEW j \in Jobs, BeginBackendRemoval(j)
    PROVE  BackInv'
  <1>1. /\ BeginJob(j, "doc", Backend, None)
        /\ req' = [r \in Requests |-> [req[r] EXCEPT !.clean = @ /\ ~Busy(r)]]
        /\ torn' = IF Removals = {} /\ \A r \in Requests : ~Busy(r)
                   THEN torn \ {Root} ELSE torn \cup {Root}
    BY DEF BeginBackendRemoval, BeginRemoval
  <1>2. \A r \in Requests : /\ req'[r].path = req[r].path /\ (Busy(r)' <=> Busy(r))
                            /\ req'[r].clean => ~Busy(r)
    BY <1>1, RemovalMarks
  <1>3. /\ ~Working(j) /\ job'[j].pc = "doc" /\ job'[j].src = Backend /\ job'[j].dst = None
        /\ \A k \in Jobs \ {j} : Same(k)
    BY <1>1, BeginsJob
  <1>4. OfBackend(j)' /\ \A k \in Jobs \ {j} : OfBackend(k)' => OfBackend(k)
    BY <1>3 DEF OfBackend, Working, Same
  <1>5. j \in Removals' /\ Removals' \subseteq Removals \cup {j}
    BY <1>4, RemovalsAre
  <1>6. ASSUME NEW r \in Requests, Busy(r)'
        PROVE  req'[r].path = Root /\ ~req'[r].clean /\ Root \in torn'
    BY <1>1, <1>2, <1>6 DEF BackInv
  <1>7. ASSUME Root \notin torn'
        PROVE  Removals' = {j} /\ \A r \in Requests : ~Busy(r)'
    BY <1>1, <1>2, <1>5, <1>7
  <1>8. Erased(j)'
    BY <1>3 DEF Erased
  <1>9. ~AtRest'
    BY <1>5 DEF AtRest
  <1> QED BY <1>6, <1>7, <1>8, <1>9 DEF BackInv

LEMMA RemovalGoes ==
    ASSUME BackInv, NEW j \in Removals, \A k \in Jobs \ {j} : job'[k] = job[k],
           UNCHANGED req, torn \subseteq torn',
           Root \notin torn' /\ Erased(j) =>
              (OfBackend(j)' /\ Erased(j)') \/ (~OfBackend(j)' /\ BackendOK')
    PROVE  BackInv'
  <1>1. \A r \in Requests : Busy(r)' <=> Busy(r)
    BY DEF Busy
  <1>2. \A k \in Jobs \ {j} : OfBackend(k)' <=> OfBackend(k)
    BY DEF OfBackend, Working
  <1>3. ASSUME NEW r \in Requests, Busy(r)'
        PROVE  req'[r].path = Root /\ ~req'[r].clean /\ Root \in torn'
    BY <1>1, <1>3 DEF BackInv
  <1>4. ASSUME Root \notin torn'
        PROVE  /\ \A k \in Removals' : /\ \A l \in Removals' : l = k
                                       /\ \A r \in Requests : ~Busy(r)'
                                       /\ Erased(k)'
               /\ AtRest' => BackendOK'
    <2>1. Removals = {j} /\ Erased(j) /\ \A r \in Requests : ~Busy(r)
      BY <1>4 DEF BackInv
    <2>2. \A k \in Jobs \ {j} : k \notin Removals'
      BY <1>2, <2>1, RemovalsAre
    <2>3. CASE OfBackend(j)' /\ Erased(j)'
      <3>1. Removals' = {j}
        BY <2>1, <2>2, <2>3, RemovalsAre
      <3> QED BY <1>1, <2>1, <2>3, <3>1 DEF AtRest
    <2>4. CASE ~OfBackend(j)' /\ BackendOK'
      <3>1. Removals' = {}
        BY <2>1, <2>2, <2>4, RemovalsAre
      <3> QED BY <2>4, <3>1
    <2> QED BY <1>4, <2>1, <2>3, <2>4
  <1> QED BY <1>3, <1>4 DEF BackInv

(* Job j goes on at pc, or has ended.                                      *)
LEMMA RemovalAt ==
    ASSUME SwapInv, NEW j \in Removals
    PROVE  /\ j \in Jobs /\ OfBackend(j) /\ job[j].src = Backend
           /\ \A pc \in Removes : Goto(j, pc) =>
                 /\ OfBackend(j)' /\ job'[j].pc = pc
                 /\ \A k \in Jobs \ {j} : job'[k] = job[k]
           /\ job' = [job EXCEPT ![j] = Idle] =>
                 /\ ~OfBackend(j)' /\ ~Working(j)'
                 /\ \A k \in Jobs \ {j} : job'[k] = job[k]
  <1>1. j \in Jobs /\ OfBackend(j) /\ job[j].src = Backend /\ job[j].dst = None
    BY RemovalsAre DEF OfBackend
  <1>2. job \in [Jobs -> JobType]
    BY DEF SwapInv, SwapTypeOK
  <1>3. ASSUME NEW pc \in Removes, Goto(j, pc)
        PROVE  /\ OfBackend(j)' /\ job'[j].pc = pc
               /\ \A k \in Jobs \ {j} : job'[k] = job[k]
    <2>1. job' = [job EXCEPT ![j].pc = pc]
      BY <1>3 DEF Goto
    <2>2. job[j] \in JobType
      BY <1>1, <1>2
    <2>3. /\ job'[j].pc = pc /\ job'[j].src = job[j].src /\ job'[j].dst = job[j].dst
          /\ \A k \in Jobs \ {j} : job'[k] = job[k]
      BY <1>1, <1>2, <2>1, <2>2 DEF JobType
    <2> QED BY <1>1, <2>3 DEF OfBackend, Working, Removes
  <1>4. ASSUME job' = [job EXCEPT ![j] = Idle]
        PROVE  /\ ~OfBackend(j)' /\ ~Working(j)'
               /\ \A k \in Jobs \ {j} : job'[k] = job[k]
    BY <1>1, <1>2, <1>4 DEF OfBackend, Working, Idle
  <1> QED BY <1>1, <1>3, <1>4

LEMMA BackRemovalStep ==
    ASSUME SwapInv, BackInv, NEW j \in Jobs, BackendRemovalStep(j)
    PROVE  BackInv'
  <1>0. /\ j \in Removals
        /\ torn' = IF ~Working(j)' /\ live' = live THEN torn \cup {Root} ELSE torn
        /\ UNCHANGED <<app, entries, location, upstream, req>>
    BY DEF BackendRemovalStep, docVars, consulVars
  <1>1. OfBackend(j) /\ job[j].src = Backend
    BY <1>0, RemovalAt
  <1>2. torn \subseteq torn'
    BY <1>0
  <1>3. ASSUME NEW pc \in {"task", "binding"}, Goto(j, pc)
        PROVE  BackInv'
    <2>1. OfBackend(j)' /\ job'[j].pc = pc /\ \A k \in Jobs \ {j} : job'[k] = job[k]
      BY <1>0, <1>3, RemovalAt DEF Removes
    <2>2. Erased(j)'
      BY <2>1 DEF Erased
    <2> QED BY <1>0, <1>2, <2>1, <2>2, RemovalGoes
  <1>4. ASSUME job' = [job EXCEPT ![j] = Idle], live' = live \/
               (job[j].pc = "lb" /\ live' = live \ {Backend})
        PROVE  BackInv'
    <2>1. ~OfBackend(j)' /\ ~Working(j)' /\ \A k \in Jobs \ {j} : job'[k] = job[k]
      BY <1>0, <1>4, RemovalAt
    <2>2. ASSUME Root \notin torn', Erased(j)
          PROVE  BackendOK'
      <3>1. job[j].pc = "lb" /\ live' # live
        BY <1>0, <1>4, <2>1, <2>2
      <3>2. Empty /\ Free /\ location[Root].kind = "none"
        BY <2>2, <3>1 DEF Erased, Free
      <3> QED BY <1>0, <3>2 DEF BackendOK, Empty, Free
    <2> QED BY <1>0, <1>2, <2>1, <2>2, RemovalGoes
  <1>5. \/ \E pc \in {"task", "binding"} : Goto(j, pc)
        \/ /\ job' = [job EXCEPT ![j] = Idle]
           /\ live' = live \/ (job[j].pc = "lb" /\ live' = live \ {Backend})
    BY <1>1 DEF BackendRemovalStep, CreateTaskDoc, RemoveTaskDoc, DestroyLB, Dies, JobDies,
                GiveUp, EndJob
  <1> QED BY <1>3, <1>4, <1>5

LEMMA BackUnbinds ==
    ASSUME SwapInv, BackInv, NEW j \in Jobs, RemoveBackendBinding(j)
    PROVE  BackInv'
  <1>0. /\ j \in Removals /\ Goto(j, "tree") /\ app' = Nothing
        /\ entries' = [p \in Paths |-> <<>>] /\ UNCHANGED <<req, torn>>
    BY DEF RemoveBackendBinding, RemoveBinding
  <1>1. OfBackend(j)' /\ job'[j].pc = "tree" /\ \A k \in Jobs \ {j} : job'[k] = job[k]
    BY <1>0, RemovalAt DEF Removes
  <1>2. Root \in Paths
    BY AddressTypes
  <1>3. Erased(j)'
    BY <1>0, <1>1, <1>2 DEF Erased
  <1> QED BY <1>0, <1>1, <1>3, RemovalGoes

LEMMA BackDestroys ==
    ASSUME SwapInv, BackInv, NEW j \in Jobs, DestroyBackendTree(j)
    PROVE  BackInv'
  <1>0. j \in Removals /\ DestroyTree(j) /\ job[j].pc = "tree" /\ UNCHANGED <<app, entries, req>>
    BY DEF DestroyBackendTree, DestroyTree, docVars
  <1>1. job[j].src = Backend
    BY <1>0, RemovalAt
  <1>2. CASE Backend \in live
    <2>1. /\ Goto(j, "lb") /\ UNCHANGED torn
          /\ location' = [p \in Paths |-> Plain("none")]
          /\ upstream' = [a \in Addresses |-> {}]
      BY <1>1, <1>2 DEF DestroyBackendTree, DestroyTree
    <2>2. OfBackend(j)' /\ job'[j].pc = "lb" /\ \A k \in Jobs \ {j} : job'[k] = job[k]
      BY <1>0, <2>1, RemovalAt DEF Removes
    <2>3. Empty' /\ location'[Root].kind = "none"
      BY <2>1, AddressTypes, UpstreamTypes DEF Empty, Plain
    <2>4. Erased(j) => Erased(j)'
      BY <1>0, <2>3 DEF Erased
    <2> QED BY <1>0, <2>1, <2>2, <2>4, RemovalGoes
  <1>3. CASE Backend \notin live
    <2>1. job' = [job EXCEPT ![j] = Idle] /\ torn' = torn \cup {Root}
      BY <1>1, <1>3 DEF DestroyBackendTree, DestroyTree, GiveUp
    <2>2. \A k \in Jobs \ {j} : job'[k] = job[k]
      BY <1>0, <2>1, RemovalAt
    <2> QED BY <1>0, <2>1, <2>2, RemovalGoes
  <1> QED BY <1>2, <1>3

LEMMA BackInvInit ==
    RouterInit => BackInv
  <1> SUFFICES ASSUME RouterInit
               PROVE  BackInv
    OBVIOUS
  <1>1. \A r \in Requests : ~Busy(r)
    BY IdleTyped DEF RouterInit, Init, Busy
  <1>2. \A j \in Jobs : ~OfBackend(j)
    BY DEF RouterInit, SwapInit, OfBackend, Working, Idle
  <1>3. Removals = {}
    BY <1>2, RemovalsAre
  <1>4. Empty /\ Free /\ Backend \in live
    BY AddressTypes, UpstreamTypes, RouterAssumption
       DEF RouterInit, Init, SwapInit, Empty, Free, Plain
  <1> QED BY <1>1, <1>3, <1>4 DEF BackInv, BackendOK

LEMMA BackInvNext ==
    TypeInv /\ SwapInv /\ BackInv /\ [RouterNext]_backendVars => BackInv'
  <1> SUFFICES ASSUME TypeInv, SwapInv, BackInv, [RouterNext]_backendVars
               PROVE  BackInv'
    OBVIOUS
  <1>1. CASE UNCHANGED backendVars
    <2>1. UNCHANGED vars /\ live' = live /\ \A k \in Jobs : Same(k)
      BY <1>1 DEF backendVars, swapVars, Same
    <2> QED BY <2>1, BackQuiet
  <1>2. ASSUME NEW r \in Requests, NEW servers \in (SUBSET Destinations) \ {{}},
               AddRoutes(r, servers) \/ DeleteRoutes(r, servers)
        PROVE  BackInv'
    <2>1. servers \in SUBSET Destinations
      OBVIOUS
    <2> QED BY <1>2, <2>1, AddBegins, DeleteBeginsToo
  <1> QED BY <1>1, <1>2, BackRoutes, BackRemovalBegins, BackRemovalStep, BackUnbinds,
             BackDestroys, BackOther, BackCreates DEF RouterNext

(* Between requests a backend either has servers and is bound to its own   *)
(* name, or has none and is unbound: add_routes and delete_routes of       *)
(* rpaas/router_api.py, with bind and unbind of rpaas/manager.py and the   *)
(* upstreams of rpaas/consul_manager.py, keep it that way unless the last  *)
(* of them failed or ran beside another, and a removal leaves nothing for  *)
(* the next backend of the name.                                           *)
THEOREM BackendsAgree ==
    RouterSpec => []BackendAgrees
  <1>1. RouterSpec => []BackInv
    BY BackInvInit, BackInvNext, RouterTypeInvariant, PTL DEF RouterSpec
  <1>2. BackInv => BackendAgrees
    BY DEF BackInv, BackendAgrees, BackendOK, Empty, Bound, Free
  <1> QED BY <1>1, <1>2, PTL
=============================================================================
