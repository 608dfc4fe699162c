---------------------------- MODULE QueueProofs -----------------------------
(***************************************************************************)
(* Proofs about what fills the queue and about what its scheduled jobs do. *)
(*                                                                         *)
(* Outbox, for any sets of events and replicas and any attempt budget:     *)
(* type correctness, that an attempt is enqueued at most once, that        *)
(* "dispatched" is never a lie and "failed" never premature, that the      *)
(* conditional update respects the backoff, and that every step is a step  *)
(* of Handoff.                                                             *)
(*                                                                         *)
(* ScheduledTask, for any number of jobs, processes, slots and             *)
(* disturbances: a run between taking the lock and releasing it is the one *)
(* that took it: the lock expires only when its taker has left that        *)
(* section, until a run outlasts its lock.  Hence two such runs are the    *)
(* same run.                                                               *)
(***************************************************************************)
EXTENDS Outbox, ScheduledTask, TLAPS

-----------------------------------------------------------------------------
(* The outbox. *)

\* The inductive invariant.

Held(d) == cur[d] \cup batch[d]

\* A candidate is no newer than its row, and a row that still has the
\* attempts a scan read is still due: only claims clear the flag.
ScansAreStaleOrDue ==
  \A d \in Dispatcher : \A k \in cands[d] :
    /\ status[k.id] # "unwritten"
    /\ k.attempts <= attempts[k.id]
    /\ k.attempts = attempts[k.id] => due[k.id]

\* The row has counted every attempt somebody holds.
TicketsAreCounted ==
  \A d \in Dispatcher : \A c \in Held(d) :
    /\ status[c.id] # "unwritten"
    /\ c.ticket <= attempts[c.id]
    /\ c.attempts <= attempts[c.id]

\* Two claims of one event hold different attempts.
TicketsAreUnique ==
  /\ \A d \in Dispatcher : cur[d] \cap batch[d] = {}
  /\ \A da, db \in Dispatcher : \A c1 \in Held(da), c2 \in Held(db) :
       TicketOf(c1) = TicketOf(c2) => da = db /\ c1 = c2

CallsAreCounted == \A t \in calls : t.ticket <= attempts[t.id]

\* A claim that has not reached the queue has not been used.
UnsentIsUnused ==
  \A d \in Dispatcher :
    /\ \A c \in batch[d] : TicketOf(c) \notin calls
    /\ stage[d] = "reading" => \A c \in cur[d] : TicketOf(c) \notin calls

\* What is about to be marked dispatched has been handed over.
MarkingIsHanded ==
  \A d \in Dispatcher : stage[d] = "marking" =>
    \A c \in cur[d] : c.id \in handed \/ c.id \notin Consumed

\* At most one claim is in hand.
OneInHand ==
  \A d \in Dispatcher :
    /\ \A c1, c2 \in cur[d] : c1 = c2
    /\ stage[d] \in {"idle", "working"} => cur[d] = {}

UnwrittenIsNew ==
  \A e \in Event : status[e] = "unwritten" => e \notin handed

AllDispatchedHanded ==
  \A e \in Event : status[e] = "dispatched" => e \in handed

OInv ==
  /\ TypeOK
  /\ ScansAreStaleOrDue
  /\ TicketsAreCounted
  /\ TicketsAreUnique
  /\ CallsAreCounted
  /\ UnsentIsUnused
  /\ MarkingIsHanded
  /\ OneInHand
  /\ UnwrittenIsNew
  /\ AllDispatchedHanded
  /\ GivenUpAfterBudget
-----------------------------------------------------------------------------
\* Every variable keeps its type: rows, passes and histories of the outbox.
LEMMA TypeStep == ASSUME TypeOK, [Next]_vars PROVE TypeOK'
<1> USE OutboxAssumption DEF TypeOK, Status, Stage, Candidate, Claim, Ticket, TicketOf
<1>1. ASSUME NEW e \in Event, Write(e) PROVE TypeOK'
  BY <1>1 DEF Write, rowVars, passVars, histVars
<1>2. ASSUME NEW e \in Event, BackoffElapses(e) PROVE TypeOK'
  BY <1>2 DEF BackoffElapses, rowVars, passVars, histVars
<1>3. ASSUME NEW d \in Dispatcher, Scan(d) PROVE TypeOK'
  BY <1>3 DEF Scan, DueRows, rowVars, passVars, histVars
<1>4. ASSUME NEW d \in Dispatcher, NEW k \in cands[d], ClaimRow(d, k) PROVE TypeOK'
  BY <1>4 DEF ClaimRow, NextAttempt, rowVars, passVars, histVars
<1>5. ASSUME NEW d \in Dispatcher, NEW k \in cands[d], LoseRow(d, k) PROVE TypeOK'
  BY <1>5 DEF LoseRow, rowVars, passVars, histVars
<1>6. ASSUME NEW d \in Dispatcher, ReadBack(d) PROVE TypeOK'
  BY <1>6 DEF ReadBack, rowVars, passVars, histVars
<1>7. ASSUME NEW d \in Dispatcher, NEW c \in batch[d], PassOver(d, c) PROVE TypeOK'
  BY <1>7 DEF PassOver, TakeUp, rowVars, passVars, histVars
<1>8. ASSUME NEW d \in Dispatcher, NEW c \in batch[d], Enqueue(d, c) PROVE TypeOK'
  BY <1>8 DEF Enqueue, TakeUp, rowVars, passVars, histVars
<1>9. ASSUME NEW d \in Dispatcher, NEW c \in batch[d], Refuse(d, c) PROVE TypeOK'
  BY <1>9 DEF Refuse, TakeUp, rowVars, passVars, histVars
<1>10. ASSUME NEW d \in Dispatcher, MarkDispatched(d) PROVE TypeOK'
  BY <1>10 DEF MarkDispatched, rowVars, passVars, histVars
<1>11. ASSUME NEW d \in Dispatcher, MarkAttemptFailed(d) PROVE TypeOK'
  BY <1>11 DEF MarkAttemptFailed, AfterRefusal, rowVars, passVars, histVars
<1>12. ASSUME NEW d \in Dispatcher, EndPass(d) PROVE TypeOK'
  BY <1>12 DEF EndPass, rowVars, passVars, histVars
<1>13. ASSUME NEW d \in Dispatcher, MarkThrows(d) PROVE TypeOK'
  BY <1>13 DEF MarkThrows, rowVars, passVars, histVars
<1>14. ASSUME NEW d \in Dispatcher, PassLost(d) PROVE TypeOK'
  BY <1>14 DEF PassLost, rowVars, passVars, histVars
<1>15. CASE UNCHANGED vars
  BY <1>15 DEF vars, rowVars, passVars, histVars
<1>16. QED
  BY <1>1, <1>2, <1>3, <1>4, <1>5, <1>6, <1>7, <1>8, <1>9, <1>10, <1>11, <1>12, <1>13, <1>14, <1>15 DEF Next, Work, ClaimStep, SendStep
-----------------------------------------------------------------------------
\* One step of any replica, or of time, preserves the inductive invariant.
LEMMA InvStep == ASSUME OInv, [Next]_vars PROVE OInv'
<1>0. TypeOK /\ TypeOK'
  BY TypeStep DEF OInv
<1> USE OutboxAssumption, <1>0 DEF TypeOK, Candidate, Claim, Ticket, TicketOf, Held, OInv, ScansAreStaleOrDue, TicketsAreCounted,
    TicketsAreUnique, CallsAreCounted, UnsentIsUnused, MarkingIsHanded, OneInHand, UnwrittenIsNew, AllDispatchedHanded, GivenUpAfterBudget
<1>1. ASSUME NEW e \in Event, Write(e) PROVE OInv'
  BY <1>1 DEF Write, rowVars, passVars, histVars
<1>2. ASSUME NEW e \in Event, BackoffElapses(e) PROVE OInv'
  BY <1>2 DEF BackoffElapses, rowVars, passVars, histVars
<1>3. ASSUME NEW d \in Dispatcher, Scan(d) PROVE OInv'
  BY <1>3 DEF Scan, DueRows, rowVars, passVars, histVars
<1>4. ASSUME NEW d \in Dispatcher, NEW k \in cands[d], ClaimRow(d, k) PROVE OInv'
  BY <1>4 DEF ClaimRow, Claimable, NextAttempt, rowVars, passVars, histVars
<1>5. ASSUME NEW d \in Dispatcher, NEW k \in cands[d], LoseRow(d, k) PROVE OInv'
  BY <1>5 DEF LoseRow, Claimable, rowVars, passVars, histVars
<1>6. ASSUME NEW d \in Dispatcher, ReadBack(d) PROVE OInv'
  BY <1>6 DEF ReadBack, rowVars, passVars, histVars
<1>7. ASSUME NEW d \in Dispatcher, NEW c \in batch[d], PassOver(d, c) PROVE OInv'
  BY <1>7 DEF PassOver, TakeUp, rowVars, passVars, histVars
<1>8. ASSUME NEW d \in Dispatcher, NEW c \in batch[d], Enqueue(d, c) PROVE OInv'
  BY <1>8 DEF Enqueue, TakeUp, rowVars, passVars, histVars
<1>9. ASSUME NEW d \in Dispatcher, NEW c \in batch[d], Refuse(d, c) PROVE OInv'
  BY <1>9 DEF Refuse, TakeUp, rowVars, passVars, histVars
<1>10. ASSUME NEW d \in Dispatcher, MarkDispatched(d) PROVE OInv'
  BY <1>10 DEF MarkDispatched, rowVars, passVars, histVars
<1>11. ASSUME NEW d \in Dispatcher, MarkAttemptFailed(d) PROVE OInv'
  BY <1>11 DEF MarkAttemptFailed, AfterRefusal, rowVars, passVars, histVars
<1>12. ASSUME NEW d \in Dispatcher, EndPass(d) PROVE OInv'
  BY <1>12 DEF EndPass, rowVars, passVars, histVars
<1>13. ASSUME NEW d \in Dispatcher, MarkThrows(d) PROVE OInv'
  BY <1>13 DEF MarkThrows, rowVars, passVars, histVars
<1>14. ASSUME NEW d \in Dispatcher, PassLost(d) PROVE OInv'
  BY <1>14 DEF PassLost, rowVars, passVars, histVars
<1>15. CASE UNCHANGED vars
  BY <1>15 DEF vars, rowVars, passVars, histVars
<1>16. QED
  BY <1>1, <1>2, <1>3, <1>4, <1>5, <1>6, <1>7, <1>8, <1>9, <1>10, <1>11, <1>12, <1>13, <1>14, <1>15 DEF Next, Work, ClaimStep, SendStep
-----------------------------------------------------------------------------
LEMMA InitInv == Init => OInv
  BY DEF Init, OInv, TypeOK, Status, Stage, Candidate, Claim, Ticket, Held, ScansAreStaleOrDue,
         TicketsAreCounted, TicketsAreUnique, CallsAreCounted, UnsentIsUnused,
         MarkingIsHanded, OneInHand, UnwrittenIsNew, AllDispatchedHanded, GivenUpAfterBudget

THEOREM InductiveInvariant == Spec => []OInv
<1>1. Init => OInv
  BY InitInv
<1>2. OInv /\ [Next]_vars => OInv'
  BY InvStep
<1>3. QED
  BY <1>1, <1>2, PTL DEF Spec

\* The rows, the passes and the histories keep their types.
THEOREM TypeCorrect == Spec => []TypeOK
<1>1. OInv => TypeOK
  BY DEF OInv
<1>2. QED
  BY <1>1, InductiveInvariant, PTL

\* However passes overlap, crash or outlive their backoff, the queue is called
\* at most once for each attempt of an event.
THEOREM AttemptsAreEnqueuedOnce == Spec => []AttemptEnqueuedOnce
<1>1. OInv => AttemptEnqueuedOnce
  BY DEF OInv, UnsentIsUnused, AttemptEnqueuedOnce
<1>2. QED
  BY <1>1, InductiveInvariant, PTL

\* Whatever order two replicas record their outcomes in, a row marked
\* dispatched belongs to an event the queue took.
THEOREM DispatchedIsTrue == Spec => []DispatchedWasHanded
<1>1. OInv => DispatchedWasHanded
  BY DEF OInv, AllDispatchedHanded, DispatchedWasHanded
<1>2. QED
  BY <1>1, InductiveInvariant, PTL

\* No late outcome fails a row before its attempt budget is spent.
THEOREM BudgetIsSpent == Spec => []GivenUpAfterBudget
<1>1. OInv => GivenUpAfterBudget
  BY DEF OInv
<1>2. QED
  BY <1>1, InductiveInvariant, PTL

\* Comparing attempts in the claiming update is enough to respect the backoff.
THEOREM BackoffIsRespected == Spec => ClaimedOnlyWhenDue
<1> DEFINE Due == \A e \in Event : attempts'[e] # attempts[e] => due[e]
<1>1. ASSUME OInv, Next PROVE Due
  <2> USE <1>1 DEF OInv, TypeOK
  <2>1. ASSUME NEW e \in Event, Write(e) \/ BackoffElapses(e) PROVE Due
    BY <2>1 DEF Write, BackoffElapses
  <2>2. ASSUME NEW d \in Dispatcher, NEW k \in cands[d], ClaimRow(d, k) PROVE Due
    BY <2>2 DEF ClaimRow, Claimable, NextAttempt, ScansAreStaleOrDue, Candidate
  <2>3. ASSUME NEW d \in Dispatcher, UNCHANGED attempts PROVE Due
    BY <2>3
  <2>4. QED
    BY <2>1, <2>2, <2>3
    DEF Next, Work, Scan, ClaimStep, LoseRow, ReadBack, SendStep, TakeUp, PassOver, Enqueue, Refuse,
        MarkDispatched, MarkAttemptFailed, EndPass, MarkThrows, PassLost, rowVars
<1>2. OInv /\ [Next]_vars => [Due]_vars
  BY <1>1
<1>3. QED
  BY <1>2, InductiveInvariant, PTL DEF Spec, ClaimedOnlyWhenDue
-----------------------------------------------------------------------------
\* Refinement: the outbox is a Handoff.

fateMap == [e \in Event |-> FateOf(e)]

\* A step that moves the fate of one event as Handoff allows is a step of Handoff.
LEMMA MoveOneFate ==
  ASSUME NEW x \in Event,
         \A e \in Event \ {x} : FateOf(e)' = FateOf(e),
         \/ FateOf(x)' = FateOf(x)
         \/ FateOf(x) = "unwritten" /\ FateOf(x)' = "waiting"
         \/ FateOf(x) = "waiting" /\ FateOf(x)' \in {"handed", "abandoned"}
         \/ FateOf(x) = "abandoned" /\ FateOf(x)' \in {"handed", "waiting"}
  PROVE  [HO!HandoffNext]_fateMap
<1>1. fateMap' = [fateMap EXCEPT ![x] = FateOf(x)']
  BY DEF fateMap
<1>2. fateMap[x] = FateOf(x)
  BY DEF fateMap
<1>3. CASE FateOf(x)' = FateOf(x)
  BY <1>1, <1>2, <1>3 DEF fateMap
<1>4. CASE FateOf(x)' # FateOf(x)
  BY <1>1, <1>2, <1>4 DEF fateMap, HO!HandoffNext, HO!Accept, HO!HandOver, HO!Abandon, HO!Reprieve, HO!Becomes
<1>5. QED
  BY <1>3, <1>4

\* Only the rows and the queue decide a fate.
LEMMA SameFates == ASSUME UNCHANGED <<status, handed>> PROVE [HO!HandoffNext]_fateMap
<1>1. fateMap' = fateMap
  BY DEF fateMap, FateOf
<1>2. QED
  BY <1>1

LEMMA HandoffStep == ASSUME OInv, [Next]_vars PROVE [HO!HandoffNext]_fateMap
<1> USE DEF OInv, TypeOK, Status, Stage, Claim
<1>1. ASSUME NEW e \in Event, Write(e) PROVE [HO!HandoffNext]_fateMap
  <2>1. /\ \A x \in Event \ {e} : FateOf(x)' = FateOf(x)
        /\ FateOf(e) = "unwritten" /\ FateOf(e)' = "waiting"
    BY <1>1 DEF Write, FateOf, histVars, UnwrittenIsNew
  <2>2. QED
    BY <2>1, MoveOneFate
<1>2. ASSUME NEW d \in Dispatcher, NEW c \in batch[d], Enqueue(d, c) \/ Refuse(d, c)
      PROVE [HO!HandoffNext]_fateMap
  <2>1. c.id \in Event /\ status' = status /\ (handed' = handed \/ handed' = handed \cup {c.id})
    BY <1>2 DEF Enqueue, Refuse, TakeUp, rowVars
  <2>2. status[c.id] # "unwritten"
    BY DEF TicketsAreCounted, Held
  <2>3. CASE handed' = handed
    BY <2>1, <2>3, SameFates
  <2>4. CASE handed' = handed \cup {c.id}
    <3>1. /\ \A x \in Event \ {c.id} : FateOf(x)' = FateOf(x)
          /\ FateOf(c.id) \in {"handed", "waiting", "abandoned"} /\ FateOf(c.id)' = "handed"
      BY <2>1, <2>2, <2>4 DEF FateOf
    <3>2. QED
      BY <2>1, <3>1, MoveOneFate
  <2>5. QED
    BY <2>1, <2>3, <2>4
<1>3. ASSUME NEW d \in Dispatcher, MarkDispatched(d) PROVE [HO!HandoffNext]_fateMap
  <2>1. PICK c \in cur[d] : /\ status' = [status EXCEPT ![c.id] = "dispatched"]
                            /\ handed' = handed \cup ({c.id} \ Consumed)
    BY <1>3 DEF MarkDispatched
  <2>2. c.id \in Event /\ status[c.id] # "unwritten" /\ c.id \in handed'
    BY <1>3, <2>1 DEF MarkDispatched, MarkingIsHanded, TicketsAreCounted, Held
  <2>3. /\ \A x \in Event \ {c.id} : FateOf(x)' = FateOf(x)
        /\ \/ FateOf(c.id)' = FateOf(c.id)
           \/ FateOf(c.id) \in {"waiting", "abandoned"} /\ FateOf(c.id)' = "handed"
    BY <2>1, <2>2 DEF FateOf
  <2>4. QED
    BY <2>2, <2>3, MoveOneFate
<1>4. ASSUME NEW d \in Dispatcher, MarkAttemptFailed(d) PROVE [HO!HandoffNext]_fateMap
  <2>1. PICK c \in cur[d] :
          \E s \in {"failed", "pending"} : status' = [status EXCEPT ![c.id] = s]
    BY <1>4 DEF MarkAttemptFailed, AfterRefusal
  <2>2. handed' = handed /\ c.id \in Event /\ status[c.id] # "unwritten"
    BY <1>4 DEF MarkAttemptFailed, AfterRefusal, histVars, TicketsAreCounted, Held
  <2>3. /\ \A x \in Event \ {c.id} : FateOf(x)' = FateOf(x)
        /\ \/ FateOf(c.id)' = FateOf(c.id)
           \/ FateOf(c.id) = "waiting" /\ FateOf(c.id)' = "abandoned"
           \/ FateOf(c.id) = "abandoned" /\ FateOf(c.id)' = "waiting"
    BY <2>1, <2>2 DEF FateOf, AllDispatchedHanded
  <2>4. QED
    BY <2>2, <2>3, MoveOneFate
<1>5. ASSUME UNCHANGED <<status, handed>> PROVE [HO!HandoffNext]_fateMap
  BY <1>5, SameFates
<1>6. ASSUME NEW e \in Event, BackoffElapses(e) PROVE UNCHANGED <<status, handed>>
  BY <1>6 DEF BackoffElapses, histVars
<1>7. ASSUME NEW d \in Dispatcher, Work(d) \/ MarkThrows(d) \/ PassLost(d)
      PROVE  \/ UNCHANGED <<status, handed>>
             \/ \E c \in batch[d] : Enqueue(d, c) \/ Refuse(d, c)
             \/ MarkDispatched(d) \/ MarkAttemptFailed(d)
  BY <1>7 DEF Work, Scan, ClaimStep, ClaimRow, LoseRow, ReadBack, SendStep, TakeUp, PassOver, EndPass,
              MarkThrows, PassLost, rowVars, histVars
<1>8. CASE UNCHANGED vars
  BY <1>5, <1>8 DEF vars, rowVars, histVars
<1>9. QED
  BY <1>1, <1>2, <1>3, <1>4, <1>5, <1>6, <1>7, <1>8 DEF Next

\* Every behaviour of the replicas, whatever overlaps or fails, is one of Handoff.
THEOREM OutboxIsAHandoff == Spec => KeepsHandoff
<1>1. Init => HO!HandoffInit
  BY DEF Init, HO!HandoffInit, FateOf
<1>2. OInv /\ [Next]_vars => [HO!HandoffNext]_fateMap
  BY HandoffStep
<1>3. QED
  BY <1>1, <1>2, InductiveInvariant, PTL DEF Spec, KeepsHandoff, HO!HandoffSafety, fateMap

-----------------------------------------------------------------------------
(* The scheduled task. *)

\* A slot at work has a job.
BusyHasJob == \A s \in Slot : step[s] # "idle" => hand[s] \in Job

LEMMA TaskTypeStep == ASSUME TaskTypeOK, BusyHasJob, [TaskNext]_taskVars PROVE TaskTypeOK' /\ BusyHasJob'
<1> USE TaskAssumption
    DEF TaskTypeOK, BusyHasJob, JobState, Step, Outcome, Disturb, Goto, EndRun, FailRun, queueVars, slotVars, lockVars
<1>1. ASSUME NEW j \in Job, EnqueueTask(j) PROVE TaskTypeOK' /\ BusyHasJob'
  BY <1>1 DEF EnqueueTask
<1>2. ASSUME NEW j \in Job, Recover(j) PROVE TaskTypeOK' /\ BusyHasJob'
  BY <1>2 DEF Recover
<1>3. ASSUME NEW s \in Slot, NEW j \in Job, Take(s, j) PROVE TaskTypeOK' /\ BusyHasJob'
  BY <1>3 DEF Take
<1>4. ASSUME NEW s \in Slot, Acquire(s) PROVE TaskTypeOK' /\ BusyHasJob'
  BY <1>4 DEF Acquire
<1>5. ASSUME NEW s \in Slot, Locked(s) PROVE TaskTypeOK' /\ BusyHasJob'
  BY <1>5 DEF Locked
<1>6. ASSUME NEW s \in Slot, Skip(s) PROVE TaskTypeOK' /\ BusyHasJob'
  BY <1>6 DEF Skip
<1>7. ASSUME NEW s \in Slot, OpenRow(s) PROVE TaskTypeOK' /\ BusyHasJob'
  BY <1>7 DEF OpenRow
<1>8. ASSUME NEW s \in Slot, Finish(s) PROVE TaskTypeOK' /\ BusyHasJob'
  BY <1>8 DEF Finish
<1>9. ASSUME NEW s \in Slot, TimeOut(s) PROVE TaskTypeOK' /\ BusyHasJob'
  BY <1>9 DEF TimeOut
<1>10. ASSUME NEW r \in Runner, NEW j \in Job, Subside(r, j) PROVE TaskTypeOK' /\ BusyHasJob'
  BY <1>10 DEF Subside
<1>11. ASSUME NEW s \in Slot, CloseRow(s) PROVE TaskTypeOK' /\ BusyHasJob'
  BY <1>11 DEF CloseRow
<1>12. ASSUME NEW s \in Slot, Compare(s) PROVE TaskTypeOK' /\ BusyHasJob'
  BY <1>12 DEF Compare
<1>13. ASSUME NEW s \in Slot, NotMine(s) PROVE TaskTypeOK' /\ BusyHasJob'
  BY <1>13 DEF NotMine
<1>14. ASSUME NEW s \in Slot, Delete(s) PROVE TaskTypeOK' /\ BusyHasJob'
  BY <1>14 DEF Delete
<1>15. CASE Expire
  <2>1. overran' \in BOOLEAN
    BY <1>15, Zenon DEF Expire
  <2>2. QED
    BY <1>15, <2>1 DEF Expire
<1>16. ASSUME NEW s \in Slot, QueryThrows(s) PROVE TaskTypeOK' /\ BusyHasJob'
  BY <1>16 DEF QueryThrows
<1>17. ASSUME NEW s \in Slot, LockThrows(s) PROVE TaskTypeOK' /\ BusyHasJob'
  BY <1>17 DEF LockThrows
<1>18. ASSUME NEW r \in Runner, Crash(r) PROVE TaskTypeOK' /\ BusyHasJob'
  BY <1>18 DEF Crash
<1>19. CASE UNCHANGED taskVars
  BY <1>19 DEF taskVars
<1> HIDE DEF TaskTypeOK, BusyHasJob
<1>20. QED
  BY <1>1, <1>2, <1>3, <1>4, <1>5, <1>6, <1>7, <1>8, <1>9, <1>10, <1>11, <1>12, <1>13, <1>14, <1>15, <1>16,
     <1>17, <1>18, <1>19
  DEF TaskNext, Run, Serve

LEMMA TaskTypeInvariant == TaskSpec => [](TaskTypeOK /\ BusyHasJob)
<1>1. ASSUME TaskInit PROVE TaskTypeOK /\ BusyHasJob
  <2>1. overran \in BOOLEAN
    BY <1>1, Zenon DEF TaskInit
  <2>2. QED
    BY <1>1, <2>1 DEF TaskInit, TaskTypeOK, BusyHasJob, JobState, Step, Outcome
<1>2. TaskTypeOK /\ BusyHasJob /\ [TaskNext]_taskVars => (TaskTypeOK /\ BusyHasJob)'
  BY TaskTypeStep
<1>3. QED
  BY <1>1, <1>2, PTL DEF TaskSpec

\* Every variable keeps to its type, and with it every run record has an
\* outcome its schema knows.
THEOREM TaskTypeCorrect == TaskSpec => []TaskTypeOK
  BY TaskTypeInvariant, PTL

-----------------------------------------------------------------------------
\* Until a lock expires under its run, a run inside the section took the lock
\* that is set, and its process is the one the lock names.
SectionHolds ==
  ~overran => \A s \in Slot : step[s] \in Section => taker = s /\ lock = Home[s]

LEMMA SectionStep == ASSUME TaskTypeOK, SectionHolds, [TaskNext]_taskVars PROVE SectionHolds'
<1> USE TaskAssumption DEF TaskTypeOK, SectionHolds, Section, Step, Goto, EndRun, FailRun, slotVars, lockVars
<1>1. ASSUME NEW j \in Job, EnqueueTask(j) \/ Recover(j) PROVE SectionHolds'
  BY <1>1 DEF EnqueueTask, Recover
<1>2. ASSUME NEW s \in Slot, NEW j \in Job, Take(s, j) PROVE SectionHolds'
  BY <1>2 DEF Take
<1>3. ASSUME NEW s \in Slot, Acquire(s) PROVE SectionHolds'
  BY <1>3 DEF Acquire
<1>4. ASSUME NEW s \in Slot, Locked(s) \/ OpenRow(s) \/ Finish(s) \/ TimeOut(s) \/ CloseRow(s) \/ Compare(s)
      PROVE  SectionHolds'
  BY <1>4 DEF Locked, OpenRow, Finish, TimeOut, CloseRow, Compare
<1>5. ASSUME NEW s \in Slot, Skip(s) \/ NotMine(s) \/ QueryThrows(s) \/ LockThrows(s) PROVE SectionHolds'
  BY <1>5 DEF Skip, NotMine, QueryThrows, LockThrows
<1>6. ASSUME NEW s \in Slot, Delete(s) PROVE SectionHolds'
  BY <1>6 DEF Delete
<1>7. CASE Expire
  BY <1>7 DEF Expire, Disturb
<1>9. ASSUME NEW r \in Runner, Crash(r) PROVE SectionHolds'
  BY <1>9 DEF Crash
<1>10. ASSUME NEW r \in Runner, NEW j \in Job, Subside(r, j) PROVE SectionHolds'
  BY <1>10 DEF Subside
<1>11. CASE UNCHANGED taskVars
  BY <1>11 DEF taskVars
<1> HIDE DEF SectionHolds
<1>12. QED
  BY <1>1, <1>2, <1>3, <1>4, <1>5, <1>6, <1>7, <1>9, <1>10, <1>11 DEF TaskNext, Run, Serve

LEMMA SectionInvariant == TaskSpec => []SectionHolds
<1>1. TaskInit => SectionHolds
  BY DEF TaskInit, SectionHolds, Section
<1>2. TaskTypeOK /\ SectionHolds /\ [TaskNext]_taskVars => SectionHolds'
  BY SectionStep
<1>3. QED
  BY <1>1, <1>2, TaskTypeInvariant, PTL DEF TaskSpec

\* No two runs of the task are under way at once until a run outlasts its lock
\* (OneRunAtATime), whoever crashes or fails with the lock in hand.
THEOREM RunsExcludeEachOther == TaskSpec => []OneRunAtATime
<1>1. SectionHolds => OneRunAtATime
  BY DEF SectionHolds, OneRunAtATime
<1>2. QED
  BY <1>1, SectionInvariant, PTL

\* No run releases a lock another run has taken until a run outlasts its lock
\* (OnlyHolderClears): what the comment on releaseLock says holds because the
\* lock outlives the run, and not because of the comparison.
THEOREM HolderClears == TaskSpec => OnlyHolderClears
<1> DEFINE Clears ==
      \A s \in Slot : ~overran /\ step[s] = "deleting" /\ step'[s] # "deleting" /\ lock' # lock =>
         taker \in {s, Nobody}
<1>1. SectionHolds /\ [TaskNext]_taskVars => [Clears]_taskVars
  BY DEF SectionHolds, Section
<1>2. QED
  BY <1>1, SectionInvariant, PTL DEF TaskSpec, OnlyHolderClears

-----------------------------------------------------------------------------
\* Records.  A run about to end has recorded its outcome, and nobody else has
\* its job.

Final == {"succeeded", "failed", "timedOut", "skipped"}

JobsInHand ==
  /\ \A s, t \in Slot : hand[s] = hand[t] /\ hand[s] # Nobody => s = t
  /\ \A s \in Slot : hand[s] \in Job => job[hand[s]] = "active"

OutcomesRecorded ==
  \A s \in Slot :
    /\ step[s] \in {"closing", "comparing", "deleting"} => outcome[s] \in Final
    /\ step[s] \in {"comparing", "deleting"} => row[hand[s]] \in Final

RecordInv == JobsInHand /\ OutcomesRecorded /\ CompletedIsRecorded

LEMMA RecordStep == ASSUME TaskTypeOK, BusyHasJob, RecordInv, [TaskNext]_taskVars PROVE RecordInv'
<1> USE TaskAssumption
    DEF TaskTypeOK, BusyHasJob, RecordInv, JobsInHand, OutcomesRecorded, CompletedIsRecorded, Recorded, Final,
        Goto, EndRun, FailRun, queueVars, slotVars, lockVars
<1>1. ASSUME NEW j \in Job, EnqueueTask(j) PROVE RecordInv'
  BY <1>1 DEF EnqueueTask
<1>2. ASSUME NEW j \in Job, Recover(j) PROVE RecordInv'
  BY <1>2 DEF Recover
<1>3. ASSUME NEW s \in Slot, NEW j \in Job, Take(s, j) PROVE RecordInv'
  BY <1>3 DEF Take
<1>4. ASSUME NEW s \in Slot, Acquire(s) \/ Locked(s) PROVE RecordInv'
  BY <1>4 DEF Acquire, Locked
<1>5. ASSUME NEW s \in Slot, Skip(s) PROVE RecordInv'
  BY <1>5 DEF Skip
<1>6. ASSUME NEW s \in Slot, OpenRow(s) PROVE RecordInv'
  BY <1>6 DEF OpenRow
<1>7. ASSUME NEW s \in Slot, Finish(s) PROVE RecordInv'
  BY <1>7 DEF Finish
<1>8. ASSUME NEW s \in Slot, TimeOut(s) PROVE RecordInv'
  BY <1>8 DEF TimeOut
<1>9. ASSUME NEW s \in Slot, CloseRow(s) PROVE RecordInv'
  BY <1>9 DEF CloseRow
<1>10. ASSUME NEW s \in Slot, Compare(s) PROVE RecordInv'
  BY <1>10 DEF Compare
<1>11. ASSUME NEW s \in Slot, NotMine(s) PROVE RecordInv'
  BY <1>11 DEF NotMine
<1>12. ASSUME NEW s \in Slot, Delete(s) PROVE RecordInv'
  BY <1>12 DEF Delete
<1>13. ASSUME NEW s \in Slot, QueryThrows(s) \/ LockThrows(s) PROVE RecordInv'
  BY <1>13 DEF QueryThrows, LockThrows
<1>14. CASE Expire
  BY <1>14 DEF Expire
<1>15. ASSUME NEW r \in Runner, Crash(r) PROVE RecordInv'
  BY <1>15 DEF Crash
<1>16. ASSUME NEW r \in Runner, NEW j \in Job, Subside(r, j) PROVE RecordInv'
  BY <1>16 DEF Subside
<1>17. CASE UNCHANGED taskVars
  BY <1>17 DEF taskVars
<1> HIDE DEF RecordInv
<1>18. QED
  BY <1>1, <1>2, <1>3, <1>4, <1>5, <1>6, <1>7, <1>8, <1>9, <1>10, <1>11, <1>12, <1>13, <1>14, <1>15, <1>16, <1>17
  DEF TaskNext, Run, Serve

\* A completed job has left the record of its outcome (CompletedIsRecorded),
\* whatever is disturbed, runs that outlast their lock included.
THEOREM CompletionsAreRecorded == TaskSpec => []CompletedIsRecorded
<1>1. TaskInit => RecordInv
  BY TaskAssumption DEF TaskInit, RecordInv, JobsInHand, OutcomesRecorded, CompletedIsRecorded, Recorded
<1>2. TaskTypeOK /\ BusyHasJob /\ RecordInv /\ [TaskNext]_taskVars => RecordInv'
  BY RecordStep
<1>3. RecordInv => CompletedIsRecorded
  BY DEF RecordInv
<1>4. QED
  BY <1>1, <1>2, <1>3, TaskTypeInvariant, PTL DEF TaskSpec

=============================================================================
