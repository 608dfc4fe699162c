------------------------------- MODULE Outbox -------------------------------
(***************************************************************************)
(* The transactional outbox of the API: OutboxService (write, claim,       *)
(* markDispatched, markAttemptFailed) driven by one OutboxDispatcher per   *)
(* API replica.  A pass reads the due rows, claims them one by one with a  *)
(* conditional update, then enqueues each and records the outcome.  Every  *)
(* await is a step of its own, so passes of several replicas interleave    *)
(* and a replica may die, or lose its database, between any two of them.   *)
(*                                                                         *)
(* Abstractions.  availableAt is the flag "due": claiming clears it and    *)
(* BackoffElapses sets it again.  A batch is processed in any order, the   *)
(* program uses one of them.  The queue is the set of events it took.      *)
(***************************************************************************)
EXTENDS Integers, FiniteSets

CONSTANTS
  Event,                \* ids of outbox rows
  Consumed,             \* the events whose type names a queue job
  Dispatcher,           \* API replicas, one dispatcher each
  BatchSize,            \* rows one pass may claim
  MaxDispatchAttempts,  \* enqueue attempts before a row is marked failed
  MaxFaults             \* bound on crashes and database errors in a behaviour

ASSUME OutboxAssumption ==
  /\ Consumed \subseteq Event
  /\ BatchSize \in Nat \ {0}
  /\ MaxDispatchAttempts \in Nat \ {0}
  /\ MaxFaults \in Nat

VARIABLES
  status,    \* the row's status; "unwritten" before its transaction commits
  attempts,  \* the row's attempt counter
  due,       \* whether availableAt has been reached
  stage,     \* where each dispatcher's pass stands
  cands,     \* rows a pass has read and not yet tried to claim
  batch,     \* claims of a pass that wait to be enqueued
  cur,       \* the claim in hand: empty or a singleton
  handed,    \* history: events the queue took (or that have no consumer)
  calls,     \* history: the claims for which the queue was called
  faults     \* number of faults so far

rowVars  == <<status, attempts, due>>
passVars == <<stage, cands, batch, cur>>
histVars == <<handed, calls>>
vars     == <<rowVars, passVars, histVars, faults>>

Status    == {"unwritten", "pending", "dispatched", "failed"}
Stage     == {"idle", "working", "reading", "marking", "failing"}
Candidate == [id : Event, attempts : Nat]

\* ticket is the attempt number this claim's own update wrote; attempts is
\* what the row said when it was read back.
Claim   == [id : Event, ticket : Nat, attempts : Nat]
Ticket  == [id : Event, ticket : Nat]
TicketOf(c) == [id |-> c.id, ticket |-> c.ticket]

TypeOK ==
  /\ status \in [Event -> Status]
  /\ attempts \in [Event -> Nat]
  /\ due \in [Event -> BOOLEAN]
  /\ stage \in [Dispatcher -> Stage]
  /\ cands \in [Dispatcher -> SUBSET Candidate]
  /\ batch \in [Dispatcher -> SUBSET Claim]
  /\ cur \in [Dispatcher -> SUBSET Claim]
  /\ handed \in SUBSET Event
  /\ calls \in SUBSET Ticket
  /\ faults \in Nat

Init ==
  /\ status = [e \in Event |-> "unwritten"]
  /\ attempts = [e \in Event |-> 0]
  /\ due = [e \in Event |-> FALSE]
  /\ stage = [d \in Dispatcher |-> "idle"]
  /\ cands = [d \in Dispatcher |-> {}]
  /\ batch = [d \in Dispatcher |-> {}]
  /\ cur = [d \in Dispatcher |-> {}]
  /\ handed = {}
  /\ calls = {}
  /\ faults = 0

-----------------------------------------------------------------------------
\* The rows.

\* OutboxService.write, inside the transaction of the change it describes.
Write(e) ==
  /\ status[e] = "unwritten"
  /\ status' = [status EXCEPT ![e] = "pending"]
  /\ due' = [due EXCEPT ![e] = TRUE]
  /\ UNCHANGED <<attempts, passVars, histVars, faults>>

\* Time passes availableAt, whether or not the claimer is still at work.
BackoffElapses(e) ==
  /\ status[e] # "unwritten"
  /\ ~due[e]
  /\ due' = [due EXCEPT ![e] = TRUE]
  /\ UNCHANGED <<status, attempts, passVars, histVars, faults>>

\* Mutant of DueRows: a row that was refused once is not looked at again.
DueRowsNeverTried == {e \in Event : status[e] = "pending" /\ due[e] /\ attempts[e] = 0}

DueRows == {e \in Event : status[e] = "pending" /\ due[e]}

-----------------------------------------------------------------------------
\* A pass: runOnce on dispatcher d.

\* claim: the query for due rows.  "running" admits one pass per replica; a
\* pass that finds nothing due changes nothing.
Scan(d) ==
  /\ stage[d] = "idle"
  /\ \E S \in SUBSET DueRows :
       /\ S # {}
       /\ Cardinality(S) <= BatchSize
       /\ S # DueRows => Cardinality(S) = BatchSize
       /\ cands' = [cands EXCEPT ![d] = {[id |-> e, attempts |-> attempts[e]] : e \in S}]
  /\ stage' = [stage EXCEPT ![d] = "working"]
  /\ UNCHANGED <<rowVars, batch, cur, histVars, faults>>

\* Mutant of Claimable: the update checks the status and not the attempts.
ClaimableWhilePending(k) == status[k.id] = "pending"

\* The condition of the claiming updateMany.
Claimable(k) == status[k.id] = "pending" /\ attempts[k.id] = k.attempts

\* Mutant of NextAttempt: the attempts left are counted down.
NextAttemptDown(k) == k.attempts - 1

\* The attempt number the claim writes.
NextAttempt(k) == k.attempts + 1

\* claim: the conditional update took the row.
ClaimRow(d, k) ==
  /\ stage[d] = "working"
  /\ k \in cands[d]
  /\ Claimable(k)
  /\ attempts' = [attempts EXCEPT ![k.id] = NextAttempt(k)]
  /\ due' = [due EXCEPT ![k.id] = FALSE]
  /\ cands' = [cands EXCEPT ![d] = @ \ {k}]
  /\ cur' = [cur EXCEPT ![d] =
               {[id |-> k.id, ticket |-> NextAttempt(k), attempts |-> NextAttempt(k)]}]
  /\ stage' = [stage EXCEPT ![d] = "reading"]
  /\ UNCHANGED <<status, batch, histVars, faults>>

\* claim: another dispatcher moved the row first; the candidate is dropped.
LoseRow(d, k) ==
  /\ stage[d] = "working"
  /\ k \in cands[d]
  /\ ~Claimable(k)
  /\ cands' = [cands EXCEPT ![d] = @ \ {k}]
  /\ UNCHANGED <<rowVars, stage, batch, cur, histVars, faults>>

\* claim: the row is read back, in a query of its own.
ReadBack(d) ==
  /\ stage[d] = "reading"
  /\ batch' = [batch EXCEPT ![d] =
                 @ \cup {[id |-> c.id, ticket |-> c.ticket, attempts |-> attempts[c.id]] : c \in cur[d]}]
  /\ cur' = [cur EXCEPT ![d] = {}]
  /\ stage' = [stage EXCEPT ![d] = "working"]
  /\ UNCHANGED <<rowVars, cands, histVars, faults>>

\* The loop of runOnce takes up its next event.
TakeUp(d, c) ==
  /\ stage[d] = "working"
  /\ cands[d] = {}
  /\ c \in batch[d]
  /\ batch' = [batch EXCEPT ![d] = @ \ {c}]
  /\ cur' = [cur EXCEPT ![d] = {c}]
  /\ UNCHANGED <<rowVars, cands, faults>>

\* No job consumes this type of event: straight to markDispatched.
PassOver(d, c) ==
  /\ TakeUp(d, c)
  /\ c.id \notin Consumed
  /\ stage' = [stage EXCEPT ![d] = "marking"]
  /\ UNCHANGED histVars

\* queue.enqueue resolves: the queue holds a job whose id is the event's.
Enqueue(d, c) ==
  /\ TakeUp(d, c)
  /\ c.id \in Consumed
  /\ handed' = handed \cup {c.id}
  /\ calls' = calls \cup {TicketOf(c)}
  /\ stage' = [stage EXCEPT ![d] = "marking"]

\* Mutant of Refuse: the error of the queue is swallowed.
RefuseSwallowed(d, c) ==
  /\ TakeUp(d, c)
  /\ c.id \in Consumed
  /\ calls' = calls \cup {TicketOf(c)}
  /\ stage' = [stage EXCEPT ![d] = "marking"]
  /\ UNCHANGED handed

\* queue.enqueue rejects; the job may have been added before the error.
Refuse(d, c) ==
  /\ TakeUp(d, c)
  /\ c.id \in Consumed
  /\ handed' \in {handed, handed \cup {c.id}}
  /\ calls' = calls \cup {TicketOf(c)}
  /\ stage' = [stage EXCEPT ![d] = "failing"]

\* markDispatched: an update by id alone.  For an event nobody consumes this
\* is the hand-over.
MarkDispatched(d) ==
  /\ stage[d] = "marking"
  /\ \E c \in cur[d] :
       /\ status' = [status EXCEPT ![c.id] = "dispatched"]
       /\ handed' = handed \cup ({c.id} \ Consumed)
  /\ cur' = [cur EXCEPT ![d] = {}]
  /\ stage' = [stage EXCEPT ![d] = "working"]
  /\ UNCHANGED <<attempts, due, cands, batch, calls, faults>>

\* Mutant of AfterRefusal: the row is deleted when its budget is spent.
AfterRefusalDeleted(c) == IF c.attempts >= MaxDispatchAttempts THEN "unwritten" ELSE "pending"

\* The status a refused row gets, decided by the attempts read with the claim.
AfterRefusal(c) == IF c.attempts >= MaxDispatchAttempts THEN "failed" ELSE "pending"

\* markAttemptFailed: an update by id alone.
MarkAttemptFailed(d) ==
  /\ stage[d] = "failing"
  /\ \E c \in cur[d] : status' = [status EXCEPT ![c.id] = AfterRefusal(c)]
  /\ cur' = [cur EXCEPT ![d] = {}]
  /\ stage' = [stage EXCEPT ![d] = "working"]
  /\ UNCHANGED <<attempts, due, cands, batch, histVars, faults>>

\* The loop is over and "running" is cleared.
EndPass(d) ==
  /\ stage[d] = "working"
  /\ cands[d] = {}
  /\ batch[d] = {}
  /\ stage' = [stage EXCEPT ![d] = "idle"]
  /\ UNCHANGED <<rowVars, cands, batch, cur, histVars, faults>>

-----------------------------------------------------------------------------
\* Faults.

\* markDispatched throws: the inner catch treats it as a failed attempt.
MarkThrows(d) ==
  /\ faults < MaxFaults
  /\ faults' = faults + 1
  /\ stage[d] = "marking"
  /\ stage' = [stage EXCEPT ![d] = "failing"]
  /\ UNCHANGED <<rowVars, cands, batch, cur, histVars>>

\* The replica dies, or a query outside the inner try throws: whatever the
\* pass had read or claimed is forgotten, and the rows stay as they are.
PassLost(d) ==
  /\ faults < MaxFaults
  /\ faults' = faults + 1
  /\ stage[d] # "idle"
  /\ stage' = [stage EXCEPT ![d] = "idle"]
  /\ cands' = [cands EXCEPT ![d] = {}]
  /\ batch' = [batch EXCEPT ![d] = {}]
  /\ cur' = [cur EXCEPT ![d] = {}]
  /\ UNCHANGED <<rowVars, histVars>>

-----------------------------------------------------------------------------
ClaimStep(d) == \E k \in cands[d] : ClaimRow(d, k) \/ LoseRow(d, k)

SendStep(d) == \E c \in batch[d] : PassOver(d, c) \/ Enqueue(d, c) \/ Refuse(d, c)

\* A step the dispatcher takes of its own accord: its timer and its awaits.
Work(d) ==
  \/ Scan(d)
  \/ ClaimStep(d)
  \/ ReadBack(d)
  \/ SendStep(d)
  \/ MarkDispatched(d)
  \/ MarkAttemptFailed(d)
  \/ EndPass(d)

Next ==
  \/ \E e \in Event : Write(e) \/ BackoffElapses(e)
  \/ \E d \in Dispatcher : Work(d) \/ MarkThrows(d) \/ PassLost(d)

\* The timer fires every two seconds and every await returns; time passes.
Fairness ==
  /\ \A d \in Dispatcher : WF_vars(Work(d))
  /\ \A e \in Event : WF_vars(BackoffElapses(e))

Spec == Init /\ [][Next]_vars

FairSpec == Spec /\ Fairness

\* A queue that does not refuse for ever: an outage ends.
OutageSpec == FairSpec /\ \A d \in Dispatcher : SF_vars(\E c \in batch[d] : Enqueue(d, c))

-----------------------------------------------------------------------------
\* Properties.

\* No dispatcher is about to call the queue a second time for the same
\* attempt of an event: each attempt number is won by one conditional update
\* and leads to at most one enqueue, whatever crashes, expires or overlaps.
AttemptEnqueuedOnce ==
  \A d \in Dispatcher : \A c \in batch[d] : TicketOf(c) \notin calls

\* A row says "dispatched" only if the queue took its event: no order of two
\* dispatchers' outcomes marks as done what nobody handed over.
DispatchedWasHanded ==
  \A e \in Event : status[e] = "dispatched" => e \in handed

\* A row is given up only after its whole attempt budget: an outcome recorded
\* late by a slow dispatcher cannot fail a row before its time.
GivenUpAfterBudget ==
  \A e \in Event : status[e] = "failed" => attempts[e] >= MaxDispatchAttempts

\* A row is claimed only when its backoff has elapsed, although the update
\* that claims it checks the attempts it read and not the time.
ClaimedOnlyWhenDue ==
  [][\A e \in Event : attempts'[e] # attempts[e] => due[e]]_vars

\* Every written event is eventually dispatched, and then the queue has it, or
\* visibly failed, for good: in the end no dispatcher puts it back, and no order
\* of two dispatchers' outcomes marks as done what nobody handed over.
Settles ==
  \A e \in Event : status[e] = "pending" ~>
    [](\/ status[e] = "dispatched" /\ e \in handed
       \/ status[e] = "failed")

\* What the comment on the dispatcher claims: an outage of the queue delays an
\* event and does not lose it.  The attempt budget makes this false.
OutageOnlyDelays ==
  \A e \in Consumed : status[e] = "pending" ~> e \in handed

-----------------------------------------------------------------------------
\* The outbox keeps the promise of Handoff.

FateOf(e) ==
  IF status[e] = "unwritten" THEN "unwritten"
  ELSE IF e \in handed THEN "handed"
  ELSE IF status[e] = "failed" THEN "abandoned"
  ELSE "waiting"

HO == INSTANCE Handoff WITH fate <- [e \in Event |-> FateOf(e)]

\* Each step of a dispatcher is a step of Handoff on one event or leaves every
\* fate alone: no event disappears and none that was handed over is taken back.
KeepsHandoff == HO!HandoffSafety

\* As long as the outbox holds an event it goes on trying: no event waits for
\* ever, so that a bounded number of refusals decides it.
NoneWaitsForEver == HO!HandoffFairness

=============================================================================
