------------------------ MODULE JobScheduler_proofs ------------------------
(* Runs of a job are an interval apart, and the job never stops running,    *)
(* for any number of scheduler threads and any interval, nap, fraction of   *)
(* the second and stall.                                                    *)
EXTENDS JobScheduler, TLAPS

(* A multiple of P leaves no remainder, nor does the sum of two. *)
LEMMA MultipleMod ==
    ASSUME NEW P \in Nat \ {0}, NEW c \in Nat
    PROVE  P * c \in Nat /\ (P * c) % P = 0
<1> DEFINE k == (P * c) \div P
           r == (P * c) % P
<1>1. P * c \in Nat
  OBVIOUS
<1>2. k \in Nat /\ r \in 0..(P-1) /\ P * c = P * k + r
  BY <1>1
<1> HIDE DEF k, r
<1>3. ASSUME c = k PROVE r = 0
  BY <1>1, <1>2, <1>3
<1>4. ASSUME c > k PROVE FALSE
  <2> DEFINE e == c - k - 1
  <2>1. e \in Nat /\ c = k + 1 + e
    BY <1>2, <1>4
  <2> HIDE DEF e
  <2>2. P * (k + 1 + e) = P * k + P + P * e /\ P * e \in Nat /\ P * k \in Nat
    BY <1>2, <2>1
  <2> QED
    BY <1>2, <2>1, <2>2
<1>5. ASSUME c < k PROVE FALSE
  <2> DEFINE e == k - c - 1
  <2>1. e \in Nat /\ k = c + 1 + e
    BY <1>2, <1>5
  <2> HIDE DEF e
  <2>2. P * (c + 1 + e) = P * c + P + P * e /\ P * e \in Nat
    BY <1>2, <2>1
  <2> QED
    BY <1>1, <1>2, <2>1, <2>2
<1>6. c = k
  BY <1>2, <1>4, <1>5
<1>7. r = 0
  BY <1>3, <1>6
<1> QED
  BY <1>1, <1>7 DEF r

LEMMA SumMod ==
    ASSUME NEW P \in Nat \ {0}, NEW x \in Nat, NEW y \in Nat, x % P = 0, y % P = 0
    PROVE  (x + y) % P = 0
<1> DEFINE a == x \div P
           b == y \div P
<1>1. a \in Nat /\ b \in Nat /\ x = P * a /\ y = P * b
  OBVIOUS
<1> HIDE DEF a, b
<1>2. P * (a + b) = P * a + P * b
  BY <1>1
<1>3. (P * (a + b)) % P = 0
  BY <1>1, MultipleMod
<1> QED
  BY <1>1, <1>2, <1>3

(* Dropping the fraction keeps a time on the same side of a whole second. *)
LEMMA WholeSecond ==
    ASSUME NEW P \in Nat \ {0}, NEW x \in Nat, NEW y \in Nat, x % P = 0, y >= x
    PROVE  /\ y - (y % P) \in Nat
           /\ y - (y % P) >= x
           /\ (y - (y % P)) % P = 0
<1> DEFINE c == y \div P
           d == x \div P
           r == y % P
<1>1. /\ c \in Nat /\ d \in Nat /\ r \in 0..(P-1)
      /\ y = P * c + r /\ x = P * d
  OBVIOUS
<1> HIDE DEF c, d, r
<1>2. c >= d
  <2>1. ASSUME c < d PROVE FALSE
    <3> DEFINE e == d - 1 - c
    <3>1. e \in Nat /\ d = c + 1 + e
      BY <1>1, <2>1
    <3> HIDE DEF e
    <3>2. P * (c + 1 + e) = P * c + P + P * e /\ P * e \in Nat /\ P * c \in Nat
      BY <1>1, <3>1
    <3>3. x = P * c + P + P * e
      BY <1>1, <3>1, <3>2
    <3> QED
      BY <1>1, <3>2, <3>3
  <2> QED
    BY <1>1, <2>1
<1>3. P * c >= P * d
  <2> DEFINE e == c - d
  <2>1. e \in Nat /\ c = d + e
    BY <1>1, <1>2
  <2> HIDE DEF e
  <2>2. P * (d + e) = P * d + P * e /\ P * e \in Nat /\ P * d \in Nat
    BY <1>1, <2>1
  <2> QED
    BY <2>1, <2>2
<1>4. (P * c) % P = 0 /\ P * c \in Nat
  BY <1>1, MultipleMod
<1>5. y - r = P * c
  BY <1>1, <1>4
<1>6. y - r \in Nat /\ y - r >= x /\ (y - r) % P = 0
  BY <1>1, <1>3, <1>4, <1>5
<1> QED
  BY <1>6 DEF r

(* A thread about to write still knows that its run is due: the key is     *)
(* what it read, or the transaction will be refused.                       *)
DueOK ==
    /\ lastRun # Never => lastRun % PerSecond = 0
    /\ \A s \in Schedulers :
          At(s, "execute") /\ thread[s].watched /\ lastRun # Never
              => thread[s].now - lastRun >= Interval

SchedInv == TypeOK /\ DueOK

LEMMA InitSchedInv == Init => SchedInv
<1> SUFFICES ASSUME Init PROVE SchedInv
  OBVIOUS
<1>1. PICK start \in [Schedulers -> 0..Nap] :
          thread = [s \in Schedulers |-> [pc |-> "asleep", now |-> 0, since |-> start[s],
                                          watched |-> FALSE]]
  BY DEF Init
<1>2. thread \in [Schedulers -> ThreadType]
  BY <1>1, ConstantsAssumption DEF ThreadType
<1> QED
  BY <1>1, <1>2, ConstantsAssumption DEF Init, SchedInv, TypeOK, DueOK, At

LEMMA MoveTypes ==
    ASSUME SchedInv, NEW s \in Schedulers, NEW rec \in ThreadType, Move(s, rec)
    PROVE  /\ thread' \in [Schedulers -> ThreadType]
           /\ thread'[s].pc = rec.pc /\ thread'[s].now = rec.now
           /\ thread'[s].watched = rec.watched
           /\ \A u \in Schedulers : u # s => thread'[u] = thread[u]
<1>1. [rec EXCEPT !.since = clock] \in ThreadType
  BY DEF SchedInv, TypeOK, ThreadType
<1> QED
  BY <1>1 DEF Move, SchedInv, TypeOK, ThreadType

(* A thread that does not reach "execute" leaves the invariant alone. *)
LEMMA OtherMove ==
    ASSUME SchedInv, NEW s \in Schedulers, NEW rec \in ThreadType, Move(s, rec),
           rec.pc # "execute", lastRun' = lastRun, clock' = clock, deaths' = deaths,
           lastDelay' \in Nat
    PROVE  SchedInv'
<1>1. /\ thread' \in [Schedulers -> ThreadType] /\ thread'[s].pc = rec.pc
      /\ \A u \in Schedulers : u # s => thread'[u] = thread[u]
  BY MoveTypes
<1> QED
  BY <1>1 DEF SchedInv, TypeOK, DueOK, At

(* Every step keeps the invariant, and a step that writes the key writes   *)
(* a time at least an interval after the one it replaces.                  *)
LEMMA StepSchedInv ==
    ASSUME SchedInv, [Next]_vars
    PROVE  /\ SchedInv'
           /\ lastRun' # lastRun => lastRun = Never \/ lastRun' - lastRun >= Interval
<1>0. /\ thread \in [Schedulers -> ThreadType] /\ lastRun \in Nat \cup {Never}
      /\ clock \in Nat /\ deaths \in Nat /\ lastDelay \in Nat
      /\ PerSecond \in Nat \ {0} /\ Interval \in Nat \ {0} /\ Interval % PerSecond = 0
      /\ Never \notin Int
  BY ConstantsAssumption DEF SchedInv, TypeOK
<1>t. \A s \in Schedulers :
          /\ thread[s].pc \in {"asleep", "watch", "get", "execute", "delay", "dead"}
          /\ thread[s].now \in Nat /\ thread[s].watched \in BOOLEAN
  BY <1>0 DEF ThreadType
<1>1. ASSUME NEW s \in Schedulers, ReadClock(s)
      PROVE  SchedInv' /\ lastRun' = lastRun
  <2>1. [thread[s] EXCEPT !.pc = "watch", !.now = clock] \in ThreadType
    BY <1>0 DEF ThreadType
  <2>2. [thread[s] EXCEPT !.pc = "watch", !.now = clock].pc # "execute"
    BY <1>0 DEF ThreadType
  <2> QED
    BY <1>0, <1>1, <2>1, <2>2, OtherMove DEF ReadClock
<1>2. ASSUME NEW s \in Schedulers, Watch(s)
      PROVE  SchedInv' /\ lastRun' = lastRun
  <2>1. [thread[s] EXCEPT !.pc = "get", !.watched = TRUE] \in ThreadType
    BY <1>0 DEF ThreadType
  <2>2. [thread[s] EXCEPT !.pc = "get", !.watched = TRUE].pc # "execute"
    BY <1>0 DEF ThreadType
  <2> QED
    BY <1>0, <1>2, <2>1, <2>2, OtherMove DEF Watch
<1>3. ASSUME NEW s \in Schedulers, Get(s)
      PROVE  SchedInv' /\ lastRun' = lastRun
  <2>1. CASE TooEarly(s)
    <3>1. [thread[s] EXCEPT !.pc = "asleep", !.watched = FALSE] \in ThreadType
      BY <1>0 DEF ThreadType
    <3>2. [thread[s] EXCEPT !.pc = "asleep", !.watched = FALSE].pc # "execute"
      BY <1>0 DEF ThreadType
    <3> QED
      BY <1>0, <1>3, <2>1, <3>1, <3>2, OtherMove DEF Get
  <2>2. CASE ~TooEarly(s)
    <3> DEFINE rec == [thread[s] EXCEPT !.pc = "execute"]
    <3>1. rec \in ThreadType /\ rec.now = thread[s].now
      BY <1>0 DEF ThreadType
    <3> HIDE DEF rec
    <3>2. Move(s, rec) /\ UNCHANGED <<clock, lastRun, deaths, lastDelay>>
      BY <1>3, <2>2 DEF Get, rec
    <3>3. /\ thread' \in [Schedulers -> ThreadType]
          /\ thread'[s].now = thread[s].now
          /\ \A u \in Schedulers : u # s => thread'[u] = thread[u]
      BY <3>1, <3>2, MoveTypes
    <3>4. lastRun # Never => thread[s].now - lastRun >= Interval
      BY <1>0, <1>t, <2>2 DEF TooEarly
    <3> QED
      BY <1>0, <3>2, <3>3, <3>4 DEF SchedInv, TypeOK, DueOK, At
  <2> QED
    BY <2>1, <2>2
<1>4. ASSUME NEW s \in Schedulers, Execute(s)
      PROVE  /\ SchedInv'
             /\ lastRun' # lastRun => lastRun = Never \/ lastRun' - lastRun >= Interval
  <2>1. CASE KeyUntouched(s)
    <3>1. /\ lastRun' = Recorded(thread[s].now) /\ UNCHANGED <<clock, deaths, lastDelay>>
          /\ thread' = [u \in Schedulers |->
                IF u = s THEN [thread[s] EXCEPT !.pc = "delay", !.since = clock,
                                                !.watched = FALSE]
                         ELSE [thread[u] EXCEPT !.watched = FALSE]]
      BY <1>4, <2>1 DEF Execute
    <3>2. \A u \in Schedulers : thread'[u] \in ThreadType /\ thread'[u].watched = FALSE
      BY <1>0, <3>1 DEF ThreadType
    <3>3. lastRun' \in Nat /\ lastRun' % PerSecond = 0
      <4>1. 0 % PerSecond = 0
        BY <1>0
      <4> QED
        BY <1>0, <1>t, <3>1, <4>1, WholeSecond DEF Recorded
    <3>4. ASSUME lastRun # Never
          PROVE  lastRun' - lastRun >= Interval
      <4> DEFINE due == lastRun + Interval
      <4>1. thread[s].now >= due /\ lastRun \in Nat
        BY <1>0, <1>4, <1>t, <2>1, <3>4 DEF Execute, KeyUntouched, SchedInv, DueOK, At
      <4>2. due % PerSecond = 0 /\ due \in Nat
        <5>1. lastRun % PerSecond = 0
          BY <3>4 DEF SchedInv, DueOK
        <5>2. (lastRun + Interval) % PerSecond = 0
          BY <1>0, <4>1, <5>1, SumMod
        <5> QED
          BY <1>0, <4>1, <5>2
      <4>3. Recorded(thread[s].now) >= due
        BY <1>0, <1>t, <4>1, <4>2, WholeSecond DEF Recorded
      <4> QED
        BY <1>0, <3>1, <3>3, <4>1, <4>3
    <3>5. thread' \in [Schedulers -> ThreadType]
      BY <3>1, <3>2
    <3> QED
      BY <1>0, <3>1, <3>2, <3>3, <3>4, <3>5 DEF SchedInv, TypeOK, DueOK
  <2>2. CASE ~KeyUntouched(s)
    <3>1. [thread[s] EXCEPT !.pc = "asleep"] \in ThreadType
      BY <1>0 DEF ThreadType
    <3>2. [thread[s] EXCEPT !.pc = "asleep"].pc # "execute"
      BY <1>0 DEF ThreadType
    <3> QED
      BY <1>0, <1>4, <2>2, <3>1, <3>2, OtherMove DEF Execute
  <2> QED
    BY <2>1, <2>2
<1>5. ASSUME NEW s \in Schedulers, Delay(s)
      PROVE  SchedInv' /\ lastRun' = lastRun
  <2>1. [thread[s] EXCEPT !.pc = "asleep"] \in ThreadType
    BY <1>0 DEF ThreadType
  <2>2. [thread[s] EXCEPT !.pc = "asleep"].pc # "execute"
    BY <1>0 DEF ThreadType
  <2> QED
    BY <1>0, <1>5, <2>1, <2>2, OtherMove DEF Delay
<1>6. ASSUME NEW s \in Schedulers, Die(s)
      PROVE  SchedInv' /\ lastRun' = lastRun
  <2>1. thread' \in [Schedulers -> ThreadType]
    BY <1>0, <1>6 DEF Die, ThreadType
  <2>2. \A u \in Schedulers : thread'[u] = thread[u] \/ thread'[u].pc = "dead"
    BY <1>0, <1>6 DEF Die, ThreadType
  <2>3. deaths' \in Nat /\ UNCHANGED <<clock, lastRun, lastDelay>>
    BY <1>0, <1>6 DEF Die
  <2> QED
    BY <1>0, <2>1, <2>2, <2>3 DEF SchedInv, TypeOK, DueOK, At
<1>7. CASE Tick
  BY <1>0, <1>7 DEF Tick, SchedInv, TypeOK, DueOK, At
<1>8. CASE UNCHANGED vars
  BY <1>8 DEF vars, SchedInv, TypeOK, DueOK, At
<1> QED
  BY <1>1, <1>2, <1>3, <1>4, <1>5, <1>6, <1>7, <1>8 DEF Next, TryLock

(* Two accepted runs of a job are at least an interval apart, however many *)
(* threads compete and wherever they are stopped (JobScheduler.try_lock).  *)
THEOREM RunsAreSpaced == Spec => RunsSpaced
<1>1. Init => SchedInv
  BY InitSchedInv
<1>2. SchedInv /\ [Next]_vars => SchedInv'
  BY StepSchedInv
<1>3. SchedInv /\ [Next]_vars =>
          [lastRun' # lastRun => lastRun = Never \/ lastRun' - lastRun >= Interval]_vars
  BY StepSchedInv
<1> QED
  BY <1>1, <1>2, <1>3, PTL DEF Spec, RunsSpaced

(* The key and the threads keep their types: a stored run is a time that   *)
(* has come, and a thread about to write holds the value it compared with. *)
THEOREM TypeCorrect == Spec => []TypeOK
<1>1. Init => SchedInv
  BY InitSchedInv
<1>2. SchedInv /\ [Next]_vars => SchedInv'
  BY StepSchedInv
<1>3. SchedInv => TypeOK
  BY DEF SchedInv
<1> QED
  BY <1>1, <1>2, <1>3, PTL DEF Spec

-----------------------------------------------------------------------------

(***************************************************************************)
(* The task is enqueued again in time.  A thread that finds the run too    *)
(* early, or is refused by the transaction, has been overtaken by a run    *)
(* that is not long ago; it sleeps once, and its next look at the key is   *)
(* not too early any more, unless another thread has got there first.      *)
(***************************************************************************)

(* From one enqueueing of the task to the next.                            *)
Cycle == Interval + Nap + 6 * Stall

(* No run that was recorded is later than this: each death may have lost   *)
(* one between the record and the enqueueing.                              *)
Base == lastDelay + deaths * Cycle

(* How long a thread stays where it is, and what it knows of the time.     *)
Punctual(x, t) ==
    /\ x.now <= t
    /\ x.pc # "dead" =>
          x.since <= t /\ t <= x.since + (IF x.pc = "asleep" THEN Nap ELSE Stall)
    /\ x.pc = "watch" => x.now = x.since
    /\ x.pc = "get" => x.now <= x.since /\ x.since <= x.now + Stall

ClockOK ==
    /\ lastRun # Never => lastRun <= clock
    /\ \A s \in Schedulers : Punctual(thread[s], clock)

(* When a thread has got to each call, counted from the base b.            *)
InTime(x, b) ==
    /\ x.pc = "asleep" => x.since <= b + Interval + 2 * Stall
    /\ x.pc = "watch" => x.since <= b + Interval + Nap + 2 * Stall
    /\ x.pc = "get" => /\ x.since <= b + Interval + Nap + 3 * Stall
                       /\ ~x.watched => x.since <= b
    /\ x.pc = "execute" => /\ x.since <= b + Interval + Nap + 4 * Stall
                           /\ ~x.watched => x.since <= b + Stall
    /\ x.pc = "delay" => x.since <= b + Interval + Nap + 5 * Stall

(* A thread is about to enqueue the task, in time; or all threads are.     *)
Pending(b) == \E s \in Schedulers : At(s, "delay") /\ InTime(thread[s], b)
AllInTime(b) ==
    /\ lastRun # Never => lastRun <= b
    /\ \A s \in Schedulers : InTime(thread[s], b)

TimeInv == TypeOK /\ ClockOK /\ (Pending(Base) \/ AllInTime(Base))

LEMMA BaseTypes ==
    ASSUME TypeOK
    PROVE  Cycle \in Nat /\ Base \in Nat /\ deaths * Cycle \in Nat
<1>1. Cycle \in Nat
  BY ConstantsAssumption DEF Cycle
<1>2. deaths * Cycle \in Nat
  BY <1>1 DEF TypeOK
<1> QED
  BY <1>1, <1>2 DEF Base, TypeOK

LEMMA BaseSteps ==
    ASSUME TypeOK
    PROVE  /\ UNCHANGED <<lastDelay, deaths>> => Base' = Base
           /\ lastDelay' = lastDelay /\ deaths' = deaths + 1 => Base' = Base + Cycle
           /\ lastDelay' = clock /\ deaths' = deaths => clock <= Base' /\ Base' \in Nat
<1>1. Cycle \in Nat /\ deaths * Cycle \in Nat /\ deaths \in Nat /\ clock \in Nat
      /\ lastDelay \in Nat
  BY BaseTypes DEF TypeOK
<1>2. (deaths + 1) * Cycle = deaths * Cycle + Cycle
  BY <1>1
<1>3. Base = lastDelay + deaths * Cycle /\ Base' = lastDelay' + deaths' * Cycle
  BY DEF Base, Cycle
<1> QED
  BY <1>1, <1>2, <1>3

(* A thread that lives is late by a cycle at most.                         *)
LEMMA NobodyLate ==
    ASSUME TimeInv, NEW s \in Schedulers, ~At(s, "dead")
    PROVE  clock <= Base + Cycle
<1>0. /\ clock \in Nat /\ Base \in Nat /\ Interval \in Nat /\ Nap \in Nat /\ Stall \in Nat
      /\ thread \in [Schedulers -> ThreadType]
  BY BaseTypes, ConstantsAssumption DEF TimeInv, TypeOK
<1>1. ASSUME NEW v \in Schedulers, InTime(thread[v], Base), ~At(v, "dead")
      PROVE  clock <= Base + Cycle
  <2>1. PICK x : x = thread[v]
    OBVIOUS
  <2>2. /\ x.pc \in {"asleep", "watch", "get", "execute", "delay"} /\ x.since \in Nat
        /\ clock <= x.since + (IF x.pc = "asleep" THEN Nap ELSE Stall)
    BY <1>0, <1>1, <2>1 DEF At, ThreadType, TimeInv, ClockOK, Punctual
  <2>3. x.since <= Base + Interval + Nap + 5 * Stall
                   - (IF x.pc = "asleep" THEN Nap ELSE 0)
    BY <1>0, <1>1, <2>1, <2>2 DEF InTime
  <2> QED
    BY <1>0, <2>2, <2>3 DEF Cycle
<1>2. CASE Pending(Base)
  BY <1>1, <1>2 DEF Pending, At
<1>3. CASE AllInTime(Base)
  BY <1>1, <1>3 DEF AllInTime
<1> QED
  BY <1>2, <1>3 DEF TimeInv

(* Everything that has happened is in time for a base that is not earlier. *)
LEMMA AllBehind ==
    ASSUME TypeOK', ClockOK', NEW b \in Nat, clock' <= b
    PROVE  AllInTime(b)'
<1>0. /\ Interval \in Nat /\ Nap \in Nat /\ Stall \in Nat
      /\ clock' \in Nat /\ thread' \in [Schedulers -> ThreadType]
  BY ConstantsAssumption DEF TypeOK
<1>1. ASSUME NEW s \in Schedulers PROVE InTime(thread'[s], b)
  <2>1. PICK x : x = thread'[s]
    OBVIOUS
  <2>2. x.since \in Nat /\ (x.pc # "dead" => x.since <= b)
    BY <1>0, <2>1 DEF ThreadType, ClockOK, Punctual
  <2>3. InTime(x, b)
    BY <1>0, <2>2 DEF InTime
  <2> QED
    BY <2>1, <2>3
<1>2. lastRun' # Never => lastRun' <= b
  BY <1>0, ConstantsAssumption DEF TypeOK, ClockOK
<1> QED
  BY <1>1, <1>2 DEF AllInTime

LEMMA InTimeLater ==
    ASSUME NEW x \in ThreadType, NEW b \in Nat, InTime(x, b), NEW c \in Nat, b <= c
    PROVE  InTime(x, c)
<1>1. x.since \in Nat /\ Interval \in Nat /\ Nap \in Nat /\ Stall \in Nat
  BY ConstantsAssumption DEF ThreadType
<1> QED
  BY <1>1 DEF InTime

LEMMA InitTimeInv == Init => TimeInv
<1> SUFFICES ASSUME Init PROVE TimeInv
  OBVIOUS
<1>1. TypeOK
  BY InitSchedInv DEF SchedInv
<1>2. PICK start \in [Schedulers -> 0..Nap] :
          thread = [s \in Schedulers |-> [pc |-> "asleep", now |-> 0, since |-> start[s],
                                          watched |-> FALSE]]
  BY DEF Init
<1>3. Nap \in Nat /\ Stall \in Nat /\ Interval \in Nat
  BY ConstantsAssumption
<1>4. Base = Nap /\ clock = Nap /\ lastRun = Never
  BY <1>3 DEF Init, Base, Cycle
<1>5. ASSUME NEW s \in Schedulers
      PROVE  Punctual(thread[s], Nap) /\ InTime(thread[s], Nap)
  <2>1. PICK x : x = thread[s]
    OBVIOUS
  <2>2. x.pc = "asleep" /\ x.now = 0 /\ x.since \in 0..Nap
    BY <1>2, <2>1
  <2>3. Punctual(x, Nap) /\ InTime(x, Nap)
    BY <1>3, <2>2 DEF Punctual, InTime
  <2> QED
    BY <2>1, <2>3
<1> QED
  BY <1>1, <1>4, <1>5 DEF TimeInv, ClockOK, AllInTime

LEMMA MoveTo ==
    ASSUME TypeOK, NEW s \in Schedulers, NEW rec \in ThreadType, Move(s, rec)
    PROVE  /\ thread'[s] \in ThreadType
           /\ thread'[s].pc = rec.pc /\ thread'[s].now = rec.now
           /\ thread'[s].watched = rec.watched /\ thread'[s].since = clock
           /\ \A u \in Schedulers : u # s => thread'[u] = thread[u]
<1>1. thread \in [Schedulers -> ThreadType] /\ clock \in Nat
  BY DEF TypeOK
<1> QED
  BY <1>1 DEF Move, ThreadType

(* Where a step takes the thread that makes it, from x to y at time t.     *)
Goes(y, x, t) ==
    /\ y.since = t
    /\ \/ x.pc = "asleep" /\ y.pc = "watch" /\ y.now = t
       \/ x.pc = "watch" /\ y.pc = "get" /\ y.now = x.now /\ y.watched
       \/ x.pc = "get" /\ y.pc = "asleep" /\ y.now = x.now
       \/ x.pc = "get" /\ y.pc = "execute" /\ y.now = x.now /\ y.watched = x.watched
       \/ x.pc = "execute" /\ y.pc = "delay" /\ y.now = x.now
       \/ x.pc = "execute" /\ y.pc = "asleep" /\ y.now = x.now /\ ~x.watched
       \/ x.pc = "delay" /\ y.pc = "asleep" /\ y.now = x.now

LEMMA TryLockGoes ==
    ASSUME TypeOK, NEW s \in Schedulers, TryLock(s)
    PROVE  /\ thread'[s] \in ThreadType /\ Goes(thread'[s], thread[s], clock)
           /\ UNCHANGED <<clock, deaths>>
           /\ \A u \in Schedulers \ {s} :
                 /\ thread'[u].pc = thread[u].pc /\ thread'[u].now = thread[u].now
                 /\ thread'[u].since = thread[u].since
                 /\ thread'[u].watched = thread[u].watched \/ At(s, "execute")
<1> DEFINE Goal ==
        /\ thread'[s] \in ThreadType /\ Goes(thread'[s], thread[s], clock)
        /\ \A u \in Schedulers \ {s} :
              /\ thread'[u].pc = thread[u].pc /\ thread'[u].now = thread[u].now
              /\ thread'[u].since = thread[u].since
              /\ thread'[u].watched = thread[u].watched \/ At(s, "execute")
<1>0. thread \in [Schedulers -> ThreadType] /\ clock \in Nat
  BY DEF TypeOK
<1>c. UNCHANGED <<clock, deaths>>
  BY DEF TryLock, ReadClock, Watch, Get, Execute, Delay
<1>1. CASE ReadClock(s)
  <2>1. PICK rec : rec = [thread[s] EXCEPT !.pc = "watch", !.now = clock]
    OBVIOUS
  <2>2. rec \in ThreadType /\ rec.pc = "watch" /\ rec.now = clock
    BY <1>0, <2>1 DEF ThreadType
  <2>3. Move(s, rec) /\ thread[s].pc = "asleep"
    BY <1>1, <2>1 DEF ReadClock, At
  <2>4. Goal
    BY <2>2, <2>3, MoveTo DEF Goes
  <2> QED
    BY <1>c, <2>4
<1>2. CASE Watch(s)
  <2>1. PICK rec : rec = [thread[s] EXCEPT !.pc = "get", !.watched = TRUE]
    OBVIOUS
  <2>2. rec \in ThreadType /\ rec.pc = "get" /\ rec.watched /\ rec.now = thread[s].now
    BY <1>0, <2>1 DEF ThreadType
  <2>3. Move(s, rec) /\ thread[s].pc = "watch"
    BY <1>2, <2>1 DEF Watch, At
  <2>4. Goal
    BY <2>2, <2>3, MoveTo DEF Goes
  <2> QED
    BY <1>c, <2>4
<1>3. CASE Get(s) /\ TooEarly(s)
  <2>1. PICK rec : rec = [thread[s] EXCEPT !.pc = "asleep", !.watched = FALSE]
    OBVIOUS
  <2>2. rec \in ThreadType /\ rec.pc = "asleep" /\ rec.now = thread[s].now
    BY <1>0, <2>1 DEF ThreadType
  <2>3. Move(s, rec) /\ thread[s].pc = "get"
    BY <1>3, <2>1 DEF Get, At
  <2>4. Goal
    BY <2>2, <2>3, MoveTo DEF Goes
  <2> QED
    BY <1>c, <2>4
<1>4. CASE Get(s) /\ ~TooEarly(s)
  <2>1. PICK rec : rec = [thread[s] EXCEPT !.pc = "execute"]
    OBVIOUS
  <2>2. /\ rec \in ThreadType /\ rec.pc = "execute" /\ rec.now = thread[s].now
        /\ rec.watched = thread[s].watched
    BY <1>0, <2>1 DEF ThreadType
  <2>3. Move(s, rec) /\ thread[s].pc = "get"
    BY <1>4, <2>1 DEF Get, At
  <2>4. Goal
    BY <2>2, <2>3, MoveTo DEF Goes
  <2> QED
    BY <1>c, <2>4
<1>5. CASE Execute(s) /\ KeyUntouched(s)
  <2>1. /\ thread[s].pc = "execute"
        /\ thread' = [u \in Schedulers |->
              IF u = s THEN [thread[s] EXCEPT !.pc = "delay", !.since = clock,
                                              !.watched = FALSE]
                       ELSE [thread[u] EXCEPT !.watched = FALSE]]
    BY <1>5 DEF Execute, At
  <2>2. \A u \in Schedulers \ {s} :
            /\ thread'[u].pc = thread[u].pc /\ thread'[u].now = thread[u].now
            /\ thread'[u].since = thread[u].since
    BY <1>0, <2>1 DEF ThreadType
  <2>3. /\ thread'[s] \in ThreadType
        /\ thread'[s].pc = "delay" /\ thread'[s].since = clock
        /\ thread'[s].now = thread[s].now
    BY <1>0, <2>1 DEF ThreadType
  <2>4. Goal
    BY <2>1, <2>2, <2>3 DEF Goes, At
  <2> QED
    BY <1>c, <2>4
<1>6. CASE Execute(s) /\ ~KeyUntouched(s)
  <2>1. PICK rec : rec = [thread[s] EXCEPT !.pc = "asleep"]
    OBVIOUS
  <2>2. rec \in ThreadType /\ rec.pc = "asleep" /\ rec.now = thread[s].now
    BY <1>0, <2>1 DEF ThreadType
  <2>3. Move(s, rec) /\ thread[s].pc = "execute" /\ ~thread[s].watched
    BY <1>6, <2>1 DEF Execute, KeyUntouched, At
  <2>4. Goal
    BY <2>2, <2>3, MoveTo DEF Goes
  <2> QED
    BY <1>c, <2>4
<1>7. CASE Delay(s)
  <2>1. PICK rec : rec = [thread[s] EXCEPT !.pc = "asleep"]
    OBVIOUS
  <2>2. rec \in ThreadType /\ rec.pc = "asleep" /\ rec.now = thread[s].now
    BY <1>0, <2>1 DEF ThreadType
  <2>3. Move(s, rec) /\ thread[s].pc = "delay"
    BY <1>7, <2>1 DEF Delay, At
  <2>4. Goal
    BY <2>2, <2>3, MoveTo DEF Goes
  <2> QED
    BY <1>c, <2>4
<1> QED
  BY <1>1, <1>2, <1>3, <1>4, <1>5, <1>6, <1>7 DEF TryLock

(* A thread that moves does so before its time is over.                    *)
LEMMA GoesPunctual ==
    ASSUME NEW x \in ThreadType, NEW y \in ThreadType, NEW t \in Nat,
           Goes(y, x, t), Punctual(x, t)
    PROVE  Punctual(y, t)
<1>1. Nap \in Nat /\ Stall \in Nat /\ x.now \in Nat /\ x.since \in Nat
  BY ConstantsAssumption DEF ThreadType
<1> QED
  BY <1>1 DEF Goes, Punctual

LEMMA StepClock ==
    ASSUME TypeOK, ClockOK, [Next]_vars
    PROVE  ClockOK'
<1>0. /\ thread \in [Schedulers -> ThreadType] /\ clock \in Nat
      /\ lastRun \in Nat \cup {Never} /\ Never \notin Nat
      /\ Nap \in Nat /\ Stall \in Nat /\ PerSecond \in Nat \ {0}
  BY ConstantsAssumption DEF TypeOK
<1>p. \A s \in Schedulers : Punctual(thread[s], clock)
  BY DEF ClockOK
<1>1. ASSUME NEW s \in Schedulers, TryLock(s) PROVE ClockOK'
  <2>1. /\ thread'[s] \in ThreadType /\ Goes(thread'[s], thread[s], clock)
        /\ UNCHANGED <<clock, deaths>>
        /\ \A u \in Schedulers \ {s} :
              /\ thread'[u].pc = thread[u].pc /\ thread'[u].now = thread[u].now
              /\ thread'[u].since = thread[u].since
    BY <1>1, TryLockGoes
  <2>2. Punctual(thread'[s], clock)
    BY <1>0, <1>p, <2>1, GoesPunctual
  <2>3. \A u \in Schedulers \ {s} : Punctual(thread'[u], clock)
    BY <1>p, <2>1 DEF Punctual
  <2>4. lastRun' # Never => lastRun' <= clock
    <3>1. CASE UNCHANGED lastRun
      BY <3>1 DEF ClockOK
    <3>2. CASE Execute(s) /\ KeyUntouched(s)
      <4>1. lastRun' = thread[s].now - (thread[s].now % PerSecond)
        BY <3>2 DEF Execute, Recorded
      <4>2. thread[s].now \in Nat /\ thread[s].now <= clock
        BY <1>0, <1>p DEF ThreadType, Punctual
      <4>3. PICK r : r = thread[s].now % PerSecond
        OBVIOUS
      <4>4. r \in Nat
        BY <1>0, <4>2, <4>3
      <4> QED
        BY <1>0, <4>1, <4>2, <4>3, <4>4
    <3> QED
      BY <1>1, <3>1, <3>2 DEF TryLock, ReadClock, Watch, Get, Execute, Delay
  <2> QED
    BY <2>1, <2>2, <2>3, <2>4 DEF ClockOK
<1>2. ASSUME NEW s \in Schedulers, Die(s) PROVE ClockOK'
  <2>1. /\ UNCHANGED <<clock, lastRun>>
        /\ thread'[s].pc = "dead" /\ thread'[s].now = thread[s].now
        /\ \A u \in Schedulers \ {s} : thread'[u] = thread[u]
    BY <1>0, <1>2 DEF Die, ThreadType
  <2>2. Punctual(thread'[s], clock)
    BY <1>p, <2>1 DEF Punctual
  <2> QED
    BY <1>p, <2>1, <2>2 DEF ClockOK
<1>3. CASE Tick
  <2>1. /\ UNCHANGED <<lastRun, thread>> /\ clock' = clock + 1
        /\ \A s \in Schedulers : thread[s].pc # "dead" =>
              clock < thread[s].since + (IF thread[s].pc = "asleep" THEN Nap ELSE Stall)
    BY <1>3 DEF Tick, At
  <2>2. ASSUME NEW s \in Schedulers PROVE Punctual(thread[s], clock + 1)
    <3>1. PICK x : x = thread[s]
      OBVIOUS
    <3>2. /\ x.now \in Nat /\ x.since \in Nat /\ Punctual(x, clock)
          /\ x.pc # "dead" => clock < x.since + (IF x.pc = "asleep" THEN Nap ELSE Stall)
      BY <1>0, <1>p, <2>1, <3>1 DEF ThreadType
    <3>3. Punctual(x, clock + 1)
      BY <1>0, <3>2 DEF Punctual
    <3> QED
      BY <3>1, <3>3
  <2>3. lastRun # Never => lastRun <= clock + 1
    BY <1>0 DEF ClockOK
  <2> QED
    BY <2>1, <2>2, <2>3 DEF ClockOK
<1>4. CASE UNCHANGED vars
  BY <1>4 DEF vars, ClockOK
<1> QED
  BY <1>1, <1>2, <1>3, <1>4 DEF Next

(* A call is in time if the one before it was.                             *)
LEMMA GoesInTime ==
    ASSUME NEW x \in ThreadType, NEW y \in ThreadType, NEW t \in Nat, NEW b \in Nat,
           Goes(y, x, t), Punctual(x, t), InTime(x, b), x.pc # "delay",
           x.pc = "get" /\ y.pc = "asleep" => x.now <= b + Interval
    PROVE  InTime(y, b)
<1>1. /\ Nap \in Nat /\ Stall \in Nat /\ Interval \in Nat /\ x.now \in Nat /\ x.since \in Nat
      /\ x.watched \in BOOLEAN
  BY ConstantsAssumption DEF ThreadType
<1>2. CASE x.pc = "asleep"
  BY <1>1, <1>2 DEF Goes, Punctual, InTime
<1>3. CASE x.pc = "watch"
  BY <1>1, <1>3 DEF Goes, Punctual, InTime
<1>4. CASE x.pc = "get" /\ y.pc = "asleep"
  BY <1>1, <1>4 DEF Goes, Punctual, InTime
<1>5. CASE x.pc = "get" /\ y.pc # "asleep"
  BY <1>1, <1>5 DEF Goes, Punctual, InTime
<1>6. CASE x.pc = "execute"
  BY <1>1, <1>6 DEF Goes, Punctual, InTime
<1> QED
  BY <1>2, <1>3, <1>4, <1>5, <1>6 DEF Goes

LEMMA StepTimeInv == TimeInv /\ TypeOK' /\ [Next]_vars => TimeInv'
<1> SUFFICES ASSUME TimeInv, TypeOK', [Next]_vars PROVE TimeInv'
  OBVIOUS
<1>0. /\ TypeOK /\ ClockOK
      /\ thread \in [Schedulers -> ThreadType] /\ thread' \in [Schedulers -> ThreadType]
      /\ clock \in Nat /\ lastRun \in Nat \cup {Never} /\ Interval \in Nat
      /\ Base \in Nat /\ Cycle \in Nat
  BY BaseTypes, ConstantsAssumption DEF TimeInv, TypeOK
<1>1. ClockOK'
  BY <1>0, StepClock
<1>b. PICK b : b = Base
  OBVIOUS
<1>c. PICK c : c = Base'
  OBVIOUS
<1> SUFFICES Pending(c)' \/ AllInTime(c)'
  BY <1>1, <1>c DEF TimeInv, Pending, AllInTime
<1>2. ASSUME c \in Nat, clock' <= c PROVE AllInTime(c)'
  BY <1>1, <1>2, AllBehind
<1>3. ASSUME NEW s \in Schedulers, Die(s) PROVE AllInTime(c)'
  <2>1. ~At(s, "dead") /\ lastDelay' = lastDelay /\ deaths' = deaths + 1 /\ clock' = clock
    BY <1>3 DEF Die
  <2>2. c = b + Cycle
    BY <1>0, <1>b, <1>c, <2>1, BaseSteps
  <2>3. clock <= b + Cycle
    BY <1>b, <2>1, NobodyLate
  <2> QED
    BY <1>0, <1>2, <1>b, <2>1, <2>2, <2>3
<1>4. ASSUME NEW s \in Schedulers, Delay(s) PROVE AllInTime(c)'
  <2>1. lastDelay' = clock /\ deaths' = deaths /\ clock' = clock
    BY <1>4 DEF Delay
  <2>2. clock <= c /\ c \in Nat
    BY <1>0, <1>c, <2>1, BaseSteps
  <2> QED
    BY <1>2, <2>1, <2>2
<1>5. ASSUME UNCHANGED <<lastDelay, deaths>> PROVE c = b
  BY <1>0, <1>5, <1>b, <1>c, BaseSteps
<1>6. CASE Tick \/ UNCHANGED vars
  <2>1. UNCHANGED <<lastRun, thread, deaths, lastDelay>>
    BY <1>6 DEF Tick, vars
  <2> QED
    BY <1>5, <1>b, <2>1 DEF TimeInv, Pending, AllInTime, At
<1>7. ASSUME NEW s \in Schedulers, TryLock(s), ~Delay(s)
      PROVE  Pending(c)' \/ AllInTime(c)'
  <2>1. /\ thread'[s] \in ThreadType /\ Goes(thread'[s], thread[s], clock)
        /\ \A u \in Schedulers \ {s} :
              /\ thread'[u].pc = thread[u].pc /\ thread'[u].now = thread[u].now
              /\ thread'[u].since = thread[u].since
              /\ thread'[u].watched = thread[u].watched \/ At(s, "execute")
    BY <1>0, <1>7, TryLockGoes
  <2>2. UNCHANGED <<lastDelay, deaths>> /\ c = b /\ thread[s].pc # "delay"
    <3>1. UNCHANGED <<lastDelay, deaths>> /\ thread[s].pc # "delay"
      BY <1>7 DEF TryLock, ReadClock, Watch, Get, Execute, At
    <3> QED
      BY <1>5, <3>1
  <2>3. CASE Pending(b)
    <3>1. PICK v \in Schedulers : thread[v].pc = "delay" /\ InTime(thread[v], b)
      BY <2>3 DEF Pending, At
    <3>2. thread'[v].pc = "delay" /\ thread'[v].since = thread[v].since
      BY <2>1, <2>2, <3>1
    <3>3. InTime(thread'[v], b)
      BY <3>1, <3>2 DEF InTime
    <3> QED
      BY <2>2, <3>2, <3>3 DEF Pending, At
  <2>4. CASE AllInTime(b)
    <3>1. thread[s].pc = "get" /\ thread'[s].pc = "asleep" => thread[s].now <= b + Interval
      <4> SUFFICES ASSUME thread[s].pc = "get", thread'[s].pc = "asleep"
                   PROVE  thread[s].now <= b + Interval
        OBVIOUS
      <4>1. Get(s)
        BY <1>7 DEF TryLock, ReadClock, Watch, Execute, At
      <4>2. TooEarly(s)
        <5> SUFFICES ASSUME ~TooEarly(s) PROVE FALSE
          OBVIOUS
        <5>1. PICK rec : rec = [thread[s] EXCEPT !.pc = "execute"]
          OBVIOUS
        <5>2. rec \in ThreadType /\ rec.pc = "execute"
          BY <1>0, <5>1 DEF ThreadType
        <5>3. Move(s, rec)
          BY <4>1, <5>1 DEF Get
        <5> QED
          BY <1>0, <5>2, <5>3, MoveTo
      <4>3. lastRun \in Nat /\ thread[s].now - lastRun < Interval
        BY <1>0, <4>2 DEF TooEarly
      <4>4. lastRun <= b /\ thread[s].now \in Nat /\ b \in Nat
        BY <1>0, <1>b, <2>4, <4>2, <4>3 DEF AllInTime, ThreadType, TooEarly
      <4> QED
        BY <1>0, <4>3, <4>4
    <3>2. InTime(thread[s], b) /\ Punctual(thread[s], clock) /\ thread[s] \in ThreadType
      BY <1>0, <2>4 DEF AllInTime, ClockOK
    <3>3. InTime(thread'[s], b)
      BY <1>0, <1>b, <2>1, <2>2, <3>1, <3>2, GoesInTime
    <3>4. CASE thread'[s].pc = "delay"
      BY <2>2, <3>3, <3>4 DEF Pending, At
    <3>5. CASE thread'[s].pc # "delay"
      <4>1. UNCHANGED lastRun /\ \A u \in Schedulers \ {s} : thread'[u] = thread[u]
        <5>1. CASE Execute(s) /\ KeyUntouched(s)
          <6>1. thread'[s] = [thread[s] EXCEPT !.pc = "delay", !.since = clock,
                                               !.watched = FALSE]
            BY <5>1 DEF Execute
          <6> QED
            BY <1>0, <3>5, <6>1 DEF ThreadType
        <5>2. CASE ~(Execute(s) /\ KeyUntouched(s))
          <6>1. UNCHANGED lastRun /\ \E rec : Move(s, rec)
            BY <1>7, <5>2 DEF TryLock, ReadClock, Watch, Get, Execute
          <6> QED
            BY <1>0, <6>1 DEF Move
        <5> QED
          BY <5>1, <5>2
      <4>2. lastRun' # Never => lastRun' <= b
        BY <2>4, <4>1 DEF AllInTime
      <4>3. \A u \in Schedulers : InTime(thread'[u], b)
        BY <2>4, <3>3, <4>1 DEF AllInTime
      <4> QED
        BY <2>2, <4>2, <4>3 DEF AllInTime
    <3> QED
      BY <3>4, <3>5
  <2> QED
    BY <1>b, <2>3, <2>4 DEF TimeInv
<1> QED
  BY <1>3, <1>4, <1>6, <1>7 DEF Next

(* As long as a thread lives the task is enqueued again within an          *)
(* interval, a nap and the time threads are stopped, and once more for     *)
(* every thread that has died: threads that compete for the key never      *)
(* cancel each other out (JobScheduler.run, try_lock).                     *)
THEOREM TaskGoesOn == Spec => []TaskKeepsRunning
<1>1. Init => SchedInv /\ TimeInv
  BY InitSchedInv, InitTimeInv
<1>2. SchedInv /\ TimeInv /\ [Next]_vars => (SchedInv /\ TimeInv)'
  <2>1. SchedInv /\ [Next]_vars => SchedInv'
    BY StepSchedInv
  <2>2. SchedInv' => TypeOK'
    BY DEF SchedInv
  <2> QED
    BY <2>1, <2>2, StepTimeInv
<1>3. TimeInv => TaskKeepsRunning
  <2> SUFFICES ASSUME TimeInv, NEW s \in Schedulers, ~At(s, "dead")
               PROVE  clock - lastDelay <= (deaths + 1) * (Interval + Nap + 6 * Stall)
    BY DEF TaskKeepsRunning
  <2>1. clock <= Base + Cycle
    BY NobodyLate
  <2>2. /\ clock \in Nat /\ lastDelay \in Nat /\ deaths \in Nat
        /\ Cycle \in Nat /\ deaths * Cycle \in Nat
    BY BaseTypes DEF TimeInv, TypeOK
  <2>3. (deaths + 1) * Cycle = deaths * Cycle + Cycle
    BY <2>2
  <2>4. clock - lastDelay <= (deaths + 1) * Cycle
    BY <2>1, <2>2, <2>3 DEF Base
  <2> QED
    BY <2>4 DEF Cycle
<1> QED
  BY <1>1, <1>2, <1>3, PTL DEF Spec

=============================================================================
