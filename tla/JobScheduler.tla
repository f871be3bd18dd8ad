---------------------------- MODULE JobScheduler ----------------------------
(***************************************************************************)
(* The schedulers of the periodic tasks (rpaas/scheduler.py, healing.py,   *)
(* session_resumption.py, ssl_plugins/le_renewer.py).  Every API process   *)
(* runs a thread per job; try_lock makes one of them enqueue the task once *)
(* per interval with an optimistic transaction on a key in Redis.          *)
(*                                                                         *)
(* One job is modelled: the keys of different jobs do not interact.  Time  *)
(* counts ticks, PerSecond of them to a second, because the key keeps      *)
(* whole seconds only.  The clocks of the processes agree.                 *)
(***************************************************************************)
EXTENDS Integers

CONSTANTS
    Schedulers,     \* the threads that schedule the job
    Interval,       \* interval of the job, in ticks
    Nap,            \* time.sleep(interval / 2), in ticks
    PerSecond,      \* ticks in a second
    Never,          \* the key does not exist
    Stall,          \* bound: ticks a thread may be stopped between two calls
    MaxDeaths,      \* bound: threads that die
    MaxTime         \* bound: the clock stops

ASSUME ConstantsAssumption ==
    /\ PerSecond \in Nat \ {0} /\ Nap \in Nat \ {0}
    /\ Interval \in Nat \ {0} /\ Interval % PerSecond = 0
    /\ Never \notin Int
    /\ Stall \in Nat /\ MaxDeaths \in Nat /\ MaxTime \in Nat

VARIABLES
    clock,      \* the time
    lastRun,    \* value of the last_run key
    thread,     \* thread[s]: the thread s and its local variables
    deaths,     \* threads that died
    lastDelay   \* history: the time of the last enqueued task

vars == <<clock, lastRun, thread, deaths, lastDelay>>

(* "since" is the time of the latest call, "watched" says that the key has *)
(* not been written since this connection watched it.                      *)
ThreadType == [pc : {"asleep", "watch", "get", "execute", "delay", "dead"},
               now : Nat, since : Nat, watched : BOOLEAN]

TypeOK ==
    /\ clock \in Nat
    /\ lastRun \in Nat \cup {Never}
    /\ thread \in [Schedulers -> ThreadType]
    /\ deaths \in Nat
    /\ lastDelay \in Nat

(* The threads start at different times within one nap. *)
Init ==
    /\ clock = Nap
    /\ lastRun = Never
    /\ \E start \in [Schedulers -> 0..Nap] :
          thread = [s \in Schedulers |-> [pc |-> "asleep", now |-> 0, since |-> start[s],
                                          watched |-> FALSE]]
    /\ deaths = 0
    /\ lastDelay = Nap
-----------------------------------------------------------------------------
(* strftime with DATETIME_FORMAT drops the fraction of the second. *)
Recorded_Swapped(t) == (t % PerSecond) - t
Recorded(t) == t - (t % PerSecond)

At(s, pc) == thread[s].pc = pc
Move(s, rec) == thread' = [thread EXCEPT ![s] = [rec EXCEPT !.since = clock]]

(* utcnow is read before the key is watched. *)
ReadClock(s) ==
    /\ At(s, "asleep")
    /\ clock >= thread[s].since + Nap
    /\ Move(s, [thread[s] EXCEPT !.pc = "watch", !.now = clock])
    /\ UNCHANGED <<clock, lastRun, deaths, lastDelay>>

Watch(s) ==
    /\ At(s, "watch")
    /\ Move(s, [thread[s] EXCEPT !.pc = "get", !.watched = TRUE])
    /\ UNCHANGED <<clock, lastRun, deaths, lastDelay>>

TooEarly_NapTwice(s) == lastRun # Never /\ thread[s].now - lastRun < Interval + 2 * Nap
TooEarly(s) == lastRun # Never /\ thread[s].now - lastRun < Interval

Get(s) ==
    /\ At(s, "get")
    /\ Move(s, IF TooEarly(s)
               THEN [thread[s] EXCEPT !.pc = "asleep", !.watched = FALSE]
               ELSE [thread[s] EXCEPT !.pc = "execute"])
    /\ UNCHANGED <<clock, lastRun, deaths, lastDelay>>

(* MULTI, SET, EXEC: Redis refuses them if the key was written since WATCH. *)
KeyUntouched_NotWatched(s) == TRUE
KeyUntouched(s) == thread[s].watched

Execute(s) ==
    /\ At(s, "execute")
    /\ IF KeyUntouched(s)
       THEN /\ lastRun' = Recorded(thread[s].now)
            /\ thread' = [u \in Schedulers |->
                  IF u = s THEN [thread[s] EXCEPT !.pc = "delay", !.since = clock,
                                                  !.watched = FALSE]
                           ELSE [thread[u] EXCEPT !.watched = FALSE]]
       ELSE /\ Move(s, [thread[s] EXCEPT !.pc = "asleep"])
            /\ UNCHANGED lastRun
    /\ UNCHANGED <<clock, deaths, lastDelay>>

Delay(s) ==
    /\ At(s, "delay")
    /\ lastDelay' = clock
    /\ Move(s, [thread[s] EXCEPT !.pc = "asleep"])
    /\ UNCHANGED <<clock, lastRun, deaths>>

(* A call raises: nothing in run catches it and the thread is gone. *)
Die(s) ==
    /\ ~At(s, "dead")
    /\ deaths < MaxDeaths
    /\ deaths' = deaths + 1
    /\ thread' = [thread EXCEPT ![s].pc = "dead"]
    /\ UNCHANGED <<clock, lastRun, lastDelay>>

(* A thread wakes up when its nap is over and is stopped for Stall at most. *)
Tick ==
    /\ clock < MaxTime
    /\ \A s \in Schedulers :
          ~At(s, "dead") =>
              clock < thread[s].since + (IF At(s, "asleep") THEN Nap ELSE Stall)
    /\ clock' = clock + 1
    /\ UNCHANGED <<lastRun, thread, deaths, lastDelay>>

TryLock(s) == ReadClock(s) \/ Watch(s) \/ Get(s) \/ Execute(s) \/ Delay(s)

Next == Tick \/ \E s \in Schedulers : TryLock(s) \/ Die(s)

Spec == Init /\ [][Next]_vars
-----------------------------------------------------------------------------
(* Two accepted runs of a job are an interval apart, whatever threads      *)
(* compete for the key, however long they are stopped between the clock,   *)
(* the read and the write, and although the key drops fractions            *)
(* (JobScheduler.try_lock).                                                *)
RunsSpaced ==
    [][lastRun' # lastRun => lastRun = Never \/ lastRun' - lastRun >= Interval]_vars

(* Competing threads never cancel each other out: as long as one thread    *)
(* lives the task is enqueued again within an interval, a nap and the time *)
(* threads are stopped; a thread that dies delays it once more at most.    *)
TaskKeepsRunning ==
    (\E s \in Schedulers : ~At(s, "dead")) =>
        clock - lastDelay <= (deaths + 1) * (Interval + Nap + 6 * Stall)
=============================================================================
