---------------------------- MODULE ScheduledTask ----------------------------
(***************************************************************************)
(* One registered task that may not overlap itself: jobs that name it come *)
(* from its schedule, from runNow and from the dispatch at start-up, and   *)
(* the job slots of every worker process run runScheduledTask for them     *)
(* under one Redis lock.  The lock holds the identity of the process, not  *)
(* of the run; it expires after the task's timeout and a grace period.     *)
(* Releasing it is a GET and a DEL.  A run that exceeds its timeout is     *)
(* recorded and its slot goes on, but its work is not stopped.             *)
(*                                                                         *)
(* Every await is a step.  BullMQ is modelled as the code relies on it.    *)
(* What other modules have too is named with "Task": QueueProofs extends   *)
(* this module beside Outbox.                                              *)
(***************************************************************************)
EXTENDS Integers, FiniteSets

CONSTANTS
  Job,            \* the jobs that name the task
  Manual,         \* those of runNow; the queue retries them, the others not
  Runner,         \* worker processes
  Slot,           \* job slots; a process has WORKER_CONCURRENCY of them
  Home,           \* the process of each slot
  Nobody,         \* neither a runner nor a slot nor a job
  Disturbances,   \* the kinds of disturbance a run admits
  MaxDisturbances \* bound on their number

DisturbanceKinds ==
  {"crash",      \* a worker process dies
   "database",   \* a query of runScheduledTask throws
   "redis",      \* a SET, GET or DEL on the lock throws
   "slow"}       \* a run takes longer than its lock

ASSUME TaskAssumption ==
  /\ Manual \subseteq Job
  /\ Home \in [Slot -> Runner]
  /\ Nobody \notin Runner \cup Slot \cup Job
  /\ Disturbances \subseteq DisturbanceKinds
  /\ MaxDisturbances \in Nat

VARIABLES
  job,       \* what the queue knows of each job
  stalled,   \* jobs the queue has once put back after their process died
  step,      \* where the run of each slot stands
  hand,      \* the job of each slot
  outcome,   \* the outcome its run is about to record
  row,       \* the latest run record of each job
  lock,      \* the runner id the lock holds, or Nobody
  taker,     \* history: the slot whose run took the lock
  overran,   \* history: a lock has expired under the run that took it
  loose,     \* work of runs that have timed out and that still goes on
  disturbed  \* disturbances so far

queueVars == <<job, stalled>>
slotVars  == <<step, hand, outcome>>
lockVars  == <<lock, taker, overran>>
taskVars  == <<queueVars, slotVars, row, lockVars, loose, disturbed>>

JobState == {"none", "waiting", "active", "completed", "failed"}
Step     == {"idle", "locking", "skipping", "opening", "working", "closing", "comparing", "deleting"}
Outcome  == {"none", "running", "succeeded", "failed", "timedOut", "skipped"}

TaskTypeOK ==
  /\ job \in [Job -> JobState]
  /\ stalled \in SUBSET Job
  /\ step \in [Slot -> Step]
  /\ hand \in [Slot -> Job \cup {Nobody}]
  /\ outcome \in [Slot -> Outcome]
  /\ row \in [Job -> Outcome]
  /\ lock \in Runner \cup {Nobody}
  /\ taker \in Slot \cup {Nobody}
  /\ overran \in BOOLEAN
  /\ loose \in [Runner -> SUBSET Job]
  /\ disturbed \in Nat

TaskInit ==
  /\ job = [j \in Job |-> "none"]
  /\ stalled = {}
  /\ step = [s \in Slot |-> "idle"]
  /\ hand = [s \in Slot |-> Nobody]
  /\ outcome = [s \in Slot |-> "none"]
  /\ row = [j \in Job |-> "none"]
  /\ lock = Nobody
  /\ taker = Nobody
  /\ overran = FALSE
  /\ loose = [r \in Runner |-> {}]
  /\ disturbed = 0

Disturb(kind) ==
  /\ kind \in Disturbances
  /\ disturbed < MaxDisturbances
  /\ disturbed' = disturbed + 1

-----------------------------------------------------------------------------
\* The queue.

\* The schedule, runNow or the dispatch at start-up.
EnqueueTask(j) ==
  /\ job[j] = "none"
  /\ job' = [job EXCEPT ![j] = "waiting"]
  /\ UNCHANGED <<stalled, slotVars, row, lockVars, loose, disturbed>>

Take(s, j) ==
  /\ step[s] = "idle"
  /\ job[j] = "waiting"
  /\ job' = [job EXCEPT ![j] = "active"]
  /\ step' = [step EXCEPT ![s] = "locking"]
  /\ hand' = [hand EXCEPT ![s] = j]
  /\ UNCHANGED <<stalled, outcome, row, lockVars, loose, disturbed>>

\* An active job that no slot has: once it is put back, then it fails.
Recover(j) ==
  /\ job[j] = "active"
  /\ \A s \in Slot : hand[s] # j
  /\ job' = [job EXCEPT ![j] = IF j \in stalled THEN "failed" ELSE "waiting"]
  /\ stalled' = stalled \cup {j}
  /\ UNCHANGED <<slotVars, row, lockVars, loose, disturbed>>

\* The handler returned or threw: the queue is told and the slot is free.
EndRun(s, state) ==
  /\ job' = [job EXCEPT ![hand[s]] = state]
  /\ step' = [step EXCEPT ![s] = "idle"]
  /\ hand' = [hand EXCEPT ![s] = Nobody]
  /\ outcome' = [outcome EXCEPT ![s] = "none"]

\* It threw: jobs that runNow enqueued have attempts left or have none, jobs
\* of the schedule have one attempt.
FailRun(s) ==
  \/ EndRun(s, "failed")
  \/ hand[s] \in Manual /\ EndRun(s, "waiting")

-----------------------------------------------------------------------------
\* runScheduledTask.

Goto(s, at, next) ==
  /\ step[s] = at
  /\ step' = [step EXCEPT ![s] = next]

\* Mutant of Acquire: SET without NX.
AcquireAnyway(s) ==
  /\ Goto(s, "locking", "opening")
  /\ lock' = Home[s]
  /\ taker' = s
  /\ UNCHANGED <<queueVars, hand, outcome, row, overran, loose, disturbed>>

\* acquireLock: SET NX with the runner id.
Acquire(s) ==
  /\ lock = Nobody
  /\ Goto(s, "locking", "opening")
  /\ lock' = Home[s]
  /\ taker' = s
  /\ UNCHANGED <<queueVars, hand, outcome, row, overran, loose, disturbed>>

Locked(s) ==
  /\ lock # Nobody
  /\ Goto(s, "locking", "skipping")
  /\ UNCHANGED <<queueVars, hand, outcome, row, lockVars, loose, disturbed>>

\* The record of a run that is skipped because another one has the lock.
Skip(s) ==
  /\ step[s] = "skipping"
  /\ row' = [row EXCEPT ![hand[s]] = "skipped"]
  /\ EndRun(s, "completed")
  /\ UNCHANGED <<stalled, lockVars, loose, disturbed>>

\* The record of a run that starts, then the task's own work.
OpenRow(s) ==
  /\ Goto(s, "opening", "working")
  /\ row' = [row EXCEPT ![hand[s]] = "running"]
  /\ UNCHANGED <<queueVars, hand, outcome, lockVars, loose, disturbed>>

\* The implementation resolves or throws.
Finish(s) ==
  /\ Goto(s, "working", "closing")
  /\ outcome' \in {[outcome EXCEPT ![s] = o] : o \in {"succeeded", "failed"}}
  /\ UNCHANGED <<queueVars, hand, row, lockVars, loose, disturbed>>

\* Mutant of TimeOut: an outcome the run record does not know.
TimeOutUnknown(s) ==
  /\ Goto(s, "working", "closing")
  /\ outcome' = [outcome EXCEPT ![s] = "timeout"]
  /\ UNCHANGED <<queueVars, hand, row, lockVars, loose, disturbed>>

\* withTimeout rejects; the work it was waiting for goes on.
TimeOut(s) ==
  /\ Goto(s, "working", "closing")
  /\ outcome' = [outcome EXCEPT ![s] = "timedOut"]
  /\ loose' = [loose EXCEPT ![Home[s]] = @ \cup {hand[s]}]
  /\ UNCHANGED <<queueVars, hand, row, lockVars, disturbed>>

\* Such work comes to its end.
Subside(r, j) ==
  /\ j \in loose[r]
  /\ loose' = [loose EXCEPT ![r] = @ \ {j}]
  /\ UNCHANGED <<queueVars, slotVars, row, lockVars, disturbed>>

\* finally: the outcome is recorded.
CloseRow(s) ==
  /\ Goto(s, "closing", "comparing")
  /\ row' = [row EXCEPT ![hand[s]] = outcome[s]]
  /\ UNCHANGED <<queueVars, hand, outcome, lockVars, loose, disturbed>>

\* releaseLock: the lock is compared with the identity of the process ...
Mine(s) == lock = Home[s]

Compare(s) ==
  /\ Mine(s)
  /\ Goto(s, "comparing", "deleting")
  /\ UNCHANGED <<queueVars, hand, outcome, row, lockVars, loose, disturbed>>

\* Mutant of NotMine: a run that has lost its lock waits for it.
NotMineWaiting(s) ==
  /\ step[s] = "comparing"
  /\ ~Mine(s)
  /\ UNCHANGED taskVars

NotMine(s) ==
  /\ step[s] = "comparing"
  /\ ~Mine(s)
  /\ EndRun(s, "completed")
  /\ UNCHANGED <<stalled, row, lockVars, loose, disturbed>>

\* ... and deleted, whoever has it by then.
Delete(s) ==
  /\ step[s] = "deleting"
  /\ lock' = Nobody
  /\ taker' = Nobody
  /\ EndRun(s, "completed")
  /\ UNCHANGED <<stalled, row, overran, loose, disturbed>>

-----------------------------------------------------------------------------
\* Time and faults.

\* The steps of a run between taking the lock and releasing it.
Section == {"opening", "working", "closing", "comparing", "deleting"}

\* Mutant of Expire: the lock lives for less than the timeout of the run.
ExpireEarly ==
  /\ lock # Nobody
  /\ lock' = Nobody
  /\ taker' = Nobody
  /\ UNCHANGED <<queueVars, slotVars, row, overran, loose, disturbed>>

\* The lock expires: after its run ended without releasing it, or under a run
\* slower than its timeout and the grace period of the lock together.
Expire ==
  /\ lock # Nobody
  /\ lock' = Nobody
  /\ taker' = Nobody
  /\ IF step[taker] \in Section THEN Disturb("slow") /\ overran' = TRUE
                               ELSE UNCHANGED <<overran, disturbed>>
  /\ UNCHANGED <<queueVars, slotVars, row, loose>>

\* A query throws: the run ends where it is, and the lock is not released.
QueryThrows(s) ==
  /\ Disturb("database")
  /\ step[s] \in {"skipping", "opening", "closing"}
  /\ FailRun(s)
  /\ UNCHANGED <<stalled, row, lockVars, loose>>

\* A command on the lock throws, with or without having had its effect.
LockThrows(s) ==
  /\ Disturb("redis")
  /\ step[s] \in {"locking", "comparing", "deleting"}
  /\ FailRun(s)
  /\ \/ UNCHANGED <<lock, taker>>
     \/ step[s] = "locking" /\ lock = Nobody /\ lock' = Home[s] /\ taker' = s
     \/ step[s] = "deleting" /\ lock' = Nobody /\ taker' = Nobody
  /\ UNCHANGED <<stalled, row, overran, loose>>

\* The process dies with its runs and their work.
Crash(r) ==
  /\ Disturb("crash")
  /\ \E s \in Slot : Home[s] = r /\ step[s] # "idle"
  /\ step' = [s \in Slot |-> IF Home[s] = r THEN "idle" ELSE step[s]]
  /\ hand' = [s \in Slot |-> IF Home[s] = r THEN Nobody ELSE hand[s]]
  /\ outcome' = [s \in Slot |-> IF Home[s] = r THEN "none" ELSE outcome[s]]
  /\ loose' = [loose EXCEPT ![r] = {}]
  /\ UNCHANGED <<queueVars, row, lockVars>>

-----------------------------------------------------------------------------
Run(s) ==
  \/ Acquire(s) \/ Locked(s) \/ Skip(s) \/ OpenRow(s) \/ Finish(s) \/ TimeOut(s) \/ CloseRow(s)
  \/ Compare(s) \/ NotMine(s) \/ Delete(s)

Serve(j) == Recover(j) \/ \E s \in Slot : Take(s, j)

TaskNext ==
  \/ \E j \in Job : EnqueueTask(j) \/ Serve(j)
  \/ \E s \in Slot : Run(s) \/ QueryThrows(s) \/ LockThrows(s)
  \/ \E r \in Runner : Crash(r) \/ \E j \in Job : Subside(r, j)
  \/ Expire

TaskFairness ==
  /\ \A j \in Job : WF_taskVars(Serve(j))
  /\ \A s \in Slot : WF_taskVars(Run(s))
  /\ WF_taskVars(Expire)

TaskSpec == TaskInit /\ [][TaskNext]_taskVars

TaskFairSpec == TaskSpec /\ TaskFairness

-----------------------------------------------------------------------------
\* Properties.

\* No two runs of the task are under way at once, across processes, slots of
\* one process, runs that died or failed with the lock in hand and jobs the
\* queue put back, until the first run that outlasts its lock.
OneRunAtATime ==
  ~overran => \A s, t \in Slot : step[s] \in Section /\ step[t] \in Section => s = t

\* "Only the holder clears it": until a run outlasts its lock, no run releases
\* a lock that another run has taken, although the lock does not tell the runs
\* of one process apart and is compared before it is deleted.
OnlyHolderClears ==
  [][\A s \in Slot : ~overran /\ step[s] = "deleting" /\ step'[s] # "deleting" /\ lock' # lock =>
        taker \in {s, Nobody}]_taskVars

Recorded(j) == row[j] \in {"succeeded", "failed", "timedOut", "skipped"}

\* A job the queue holds as completed has left a record with its outcome.
CompletedIsRecorded == \A j \in Job : job[j] = "completed" => Recorded(j)

\* Every job ends, failed or with the record of its outcome, also when its
\* process dies, when the lock is left behind and when it is lost to another run.
EveryJobEnds ==
  \A j \in Job : job[j] = "waiting" ~> \/ job[j] = "failed"
                                       \/ job[j] = "completed" /\ Recorded(j)

=============================================================================
