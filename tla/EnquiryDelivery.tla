--------------------------- MODULE EnquiryDelivery ---------------------------
(***************************************************************************)
(* An enquiry from the visitor's form to the mail provider: submit and     *)
(* retryDelivery write the row and its outbox event, the outbox (Handoff)  *)
(* turns the event into a job, worker slots run deliverEnquiry, the        *)
(* "failed" callback runs markDeliveryFailed, administrators change the    *)
(* handling state, retry a delivery, and act on jobs in the Queue Monitor. *)
(*                                                                         *)
(* Every await is a step.  What the environment may do wrong is named in   *)
(* Disturbances, so that a run says which disturbances it admits.  BullMQ  *)
(* is outside the repository and is modelled as the code relies on it.     *)
(***************************************************************************)
EXTENDS Handoff, Integers, FiniteSets

CONSTANTS
  Enquiry,
  About,            \* the enquiry each outbox event belongs to
  NoEvent,          \* not an event
  Worker,           \* job slots; each stands for a process of its own
  Admin,
  MaxAttempts,      \* defaultJobOptions.attempts
  MaxVersion,       \* bound on the row version administrators may reach
  Disturbances,     \* the kinds of disturbance a run admits
  MaxDisturbances   \* bound on their number

DisturbanceKinds ==
  {"crash",      \* a worker process dies
   "stall",      \* a worker outlives its job lock and works on
   "database",   \* a query of deliverEnquiry throws
   "report",     \* the query of markDeliveryFailed throws
   "ambiguous",  \* the provider takes the message and the call still fails
   "abandon",    \* the outbox gives an event up
   "reenqueue",  \* a dispatcher enqueues an event it had enqueued before
   "rerun",      \* an operator retries a failed job in the Queue Monitor
   "remove"}     \* an operator removes or cleans a job

ASSUME DeliveryAssumption ==
  /\ About \in [Event -> Enquiry]
  /\ NoEvent \notin Event
  /\ MaxAttempts \in Nat \ {0}
  /\ MaxVersion \in Nat
  /\ Disturbances \subseteq DisturbanceKinds
  /\ MaxDisturbances \in Nat

VARIABLES
  delivery,   \* the enquiry's deliveryStatus
  handling,   \* its handlingStatus
  version,    \* its version
  routable,   \* its listing is published and has a recipient
  job,        \* what the queue knows of each event's job
  made,       \* the job's attemptsMade
  stalled,    \* how often the queue found the job without a living lock
  run,        \* what each worker slot is doing
  reports,    \* "failed" callbacks of each worker not yet carried out
  desk,       \* the request of each administrator
  posted,     \* history: messages the provider took, per enquiry
  hidden,     \* history: acceptances, per enquiry, that a disturbance kept from being recorded
  overlapped, \* history: enquiries that two slots have worked on at once
  disturbed   \* disturbances so far

rowVars   == <<delivery, handling, version>>
queueVars == <<fate, job, made, stalled>>
workVars  == <<run, reports>>
history   == <<posted, hidden, overlapped>>
vars      == <<rowVars, routable, queueVars, workVars, desk, history, disturbed>>

Delivery == {"none", "checked", "queued", "retrying", "providerAccepted", "failed", "suppressed"}
Handling == {"new", "inProgress", "closed"}
JobState == {"none", "waiting", "delayed", "active", "completed", "failed", "expired", "removed"}
Step     == {"idle", "loading", "suppressing", "marking", "sending", "accepting", "bouncing",
             "deferring", "finishing", "throwing"}
Run      == [step : Step, event : Event \cup {NoEvent}, locked : BOOLEAN]
Desk     == [task : {"idle", "retrying", "handling"}, enquiry : Enquiry, version : Nat, from : Handling, target : Handling]

Idle   == [step |-> "idle", event |-> NoEvent, locked |-> FALSE]

AtRest(q) == [task |-> "idle", enquiry |-> q, version |-> 0, from |-> "new", target |-> "new"]

EventsOf(q) == {e \in Event : About[e] = q}

TypeOK ==
  /\ HandoffTypeOK
  /\ delivery \in [Enquiry -> Delivery]
  /\ handling \in [Enquiry -> Handling]
  /\ version \in [Enquiry -> Nat]
  /\ routable \in [Enquiry -> BOOLEAN]
  /\ job \in [Event -> JobState]
  /\ made \in [Event -> Nat]
  /\ stalled \in [Event -> Nat]
  /\ run \in [Worker -> Run]
  /\ reports \in [Worker -> SUBSET Event]
  /\ desk \in [Admin -> Desk]
  /\ posted \in [Enquiry -> Nat]
  /\ hidden \in [Enquiry -> Nat]
  /\ overlapped \in SUBSET Enquiry
  /\ disturbed \in Nat

Init ==
  /\ HandoffInit
  /\ delivery = [q \in Enquiry |-> "none"]
  /\ handling = [q \in Enquiry |-> "new"]
  /\ version = [q \in Enquiry |-> 1]
  /\ routable = [q \in Enquiry |-> TRUE]
  /\ job = [e \in Event |-> "none"]
  /\ made = [e \in Event |-> 0]
  /\ stalled = [e \in Event |-> 0]
  /\ run = [w \in Worker |-> Idle]
  /\ reports = [w \in Worker |-> {}]
  /\ desk \in [Admin -> {AtRest(q) : q \in Enquiry}]
  /\ posted = [q \in Enquiry |-> 0]
  /\ hidden = [q \in Enquiry |-> 0]
  /\ overlapped = {}
  /\ disturbed = 0

Disturb(kind) ==
  /\ kind \in Disturbances
  /\ disturbed < MaxDisturbances
  /\ disturbed' = disturbed + 1

-----------------------------------------------------------------------------
\* The API.

\* The listing is unpublished, loses its recipient, or gets them back.
RouteChanges(q) ==
  /\ routable' = [routable EXCEPT ![q] = ~@]
  /\ UNCHANGED <<rowVars, queueVars, workVars, desk, history, disturbed>>

\* submit: the listing is checked outside the transaction that follows.
CheckSubmission(q) ==
  /\ delivery[q] = "none"
  /\ routable[q]
  /\ delivery' = [delivery EXCEPT ![q] = "checked"]
  /\ UNCHANGED <<handling, version, routable, queueVars, workVars, desk, history, disturbed>>

\* submit: the enquiry and its event commit together.
CommitSubmission(q, e) ==
  /\ delivery[q] = "checked"
  /\ About[e] = q
  /\ Accept(e)
  /\ delivery' = [delivery EXCEPT ![q] = "queued"]
  /\ UNCHANGED <<handling, version, routable, job, made, stalled, workVars, desk, history, disturbed>>

\* retryDelivery: the row is read and its status checked.
OpenRetry(a, q) ==
  /\ desk[a].task = "idle"
  /\ delivery[q] \in {"failed", "suppressed"}
  /\ version[q] < MaxVersion
  /\ desk' = [desk EXCEPT ![a] = [task |-> "retrying", enquiry |-> q, version |-> version[q],
                                 from |-> "new", target |-> "new"]]
  /\ UNCHANGED <<rowVars, routable, queueVars, workVars, history, disturbed>>

\* canChangeEnquiryHandling: start, close, reopen.
CanChangeHandling(from, to) ==
  <<from, to>> \in {<<"new", "inProgress">>, <<"new", "closed">>,
                    <<"inProgress", "closed">>, <<"closed", "inProgress">>}

\* updateHandling: the row is read and the transition checked; the status that
\* was read is the one the audit record names.
OpenHandling(a, q, to) ==
  /\ desk[a].task = "idle"
  /\ delivery[q] \notin {"none", "checked"}
  /\ CanChangeHandling(handling[q], to)
  /\ version[q] < MaxVersion
  /\ desk' = [desk EXCEPT ![a] = [task |-> "handling", enquiry |-> q, version |-> version[q],
                                 from |-> handling[q], target |-> to]]
  /\ UNCHANGED <<rowVars, routable, queueVars, workVars, history, disturbed>>

\* Mutant of Unmoved: the updates are by id alone.
UnmovedByIdAlone(a) == desk[a].task # "idle"

\* The condition of both updates: the version is the one that was read.
Unmoved(a) == version[desk[a].enquiry] = desk[a].version

CloseDesk(a) == desk' = [desk EXCEPT ![a] = AtRest(desk[a].enquiry)]

\* retryDelivery: the update and a fresh event, in one transaction.
CommitRetry(a, e) ==
  LET q == desk[a].enquiry IN
  /\ desk[a].task = "retrying"
  /\ Unmoved(a)
  /\ About[e] = q
  /\ Accept(e)
  /\ delivery' = [delivery EXCEPT ![q] = "queued"]
  /\ version' = [version EXCEPT ![q] = @ + 1]
  /\ CloseDesk(a)
  /\ UNCHANGED <<handling, routable, job, made, stalled, workVars, history, disturbed>>

\* updateHandling: the conditional update.
CommitHandling(a) ==
  LET q == desk[a].enquiry IN
  /\ desk[a].task = "handling"
  /\ Unmoved(a)
  /\ handling' = [handling EXCEPT ![q] = desk[a].target]
  /\ version' = [version EXCEPT ![q] = @ + 1]
  /\ CloseDesk(a)
  /\ UNCHANGED <<delivery, routable, queueVars, workVars, history, disturbed>>

\* Either update finds another version and answers 409.
RefuseStale(a) ==
  /\ desk[a].task # "idle"
  /\ ~Unmoved(a)
  /\ CloseDesk(a)
  /\ UNCHANGED <<rowVars, routable, queueVars, workVars, history, disturbed>>

-----------------------------------------------------------------------------
\* The outbox and the queue.

\* The dispatcher enqueues the event's job under the event's id.
Dispatch(e) ==
  /\ HandOver(e)
  /\ job' = [job EXCEPT ![e] = "waiting"]
  /\ UNCHANGED <<rowVars, routable, made, stalled, workVars, desk, history, disturbed>>

\* A slow dispatcher reaches the queue, or the row, after the others gave up.
DispatchLate(e) ==
  /\ Reprieve(e)
  /\ job' = IF fate'[e] = "handed" THEN [job EXCEPT ![e] = "waiting"] ELSE job
  /\ UNCHANGED <<rowVars, routable, made, stalled, workVars, desk, history, disturbed>>

\* The queue refused the event until its attempts were spent.
GiveUp(e) ==
  /\ Disturb("abandon")
  /\ Abandon(e)
  /\ UNCHANGED <<rowVars, routable, job, made, stalled, workVars, desk, history>>

\* A dispatcher that crashed before marking the row, or was told of a failure
\* that was none, enqueues again: ignored while the queue still has the job.
DispatchAgain(e) ==
  /\ Disturb("reenqueue")
  /\ fate[e] = "handed"
  /\ job[e] \in {"expired", "removed"}
  /\ job' = [job EXCEPT ![e] = "waiting"]
  /\ made' = [made EXCEPT ![e] = 0]
  /\ stalled' = [stalled EXCEPT ![e] = 0]
  /\ UNCHANGED <<rowVars, routable, fate, workVars, desk, history>>

MoveJob(e, from, to) ==
  /\ job[e] \in from
  /\ job' = [job EXCEPT ![e] = to]
  /\ UNCHANGED <<rowVars, routable, fate, made, workVars, desk, history>>

\* Mutant of BackoffOver: the job comes back in a state nobody knows.
BackoffOverPaused(e) == MoveJob(e, {"delayed"}, "paused") /\ UNCHANGED <<stalled, disturbed>>

\* The queue's own backoff between two attempts.
BackoffOver(e) == MoveJob(e, {"delayed"}, "waiting") /\ UNCHANGED <<stalled, disturbed>>

\* removeOnComplete.
Expire(e) == MoveJob(e, {"completed"}, "expired") /\ UNCHANGED <<stalled, disturbed>>

\* QueueMonitorService.retry; the attempts made so far are kept.
Rerun(e) == MoveJob(e, {"failed"}, "waiting") /\ Disturb("rerun") /\ UNCHANGED stalled

\* QueueMonitorService.remove and clean.
Remove(e) == MoveJob(e, {"waiting", "delayed", "failed"}, "removed") /\ Disturb("remove") /\ UNCHANGED stalled

Locked(e) == \E w \in Worker : run[w].event = e /\ run[w].locked

\* The queue finds an active job whose lock has expired: once it is put back,
\* the second time it fails without another attempt.
Recover(e) ==
  /\ ~Locked(e)
  /\ MoveJob(e, {"active"}, IF stalled[e] = 0 THEN "waiting" ELSE "failed")
  /\ stalled' = [stalled EXCEPT ![e] = @ + 1]
  /\ UNCHANGED disturbed

-----------------------------------------------------------------------------
\* A worker slot: deliverEnquiry, one step for each await.

At(w, s) == run[w].step = s

Goto(w, s) == run' = [run EXCEPT ![w].step = s]

Subject(w) == About[run[w].event]

Occupied(q) == \E w \in Worker : ~At(w, "idle") /\ Subject(w) = q

SetDelivery(q, s) == delivery' = [delivery EXCEPT ![q] = s]

Take(w, e) ==
  /\ At(w, "idle")
  /\ job[e] = "waiting"
  /\ job' = [job EXCEPT ![e] = "active"]
  /\ run' = [run EXCEPT ![w] = [step |-> "loading", event |-> e, locked |-> TRUE]]
  /\ overlapped' = overlapped \cup {q \in {About[e]} : Occupied(q)}
  /\ UNCHANGED <<rowVars, routable, fate, made, stalled, reports, desk, posted, hidden, disturbed>>

\* Mutant of Load: an accepted enquiry is delivered again.
LoadRepeating(w) ==
  /\ At(w, "loading")
  /\ Goto(w, IF routable[Subject(w)] THEN "marking" ELSE "suppressing")
  /\ UNCHANGED <<rowVars, routable, queueVars, reports, desk, history, disturbed>>

\* The enquiry and its listing are read: deliver, suppress, or do nothing for
\* an enquiry the provider has already accepted.
Load(w) ==
  /\ At(w, "loading")
  /\ \/ delivery[Subject(w)] = "providerAccepted" /\ Goto(w, "finishing")
     \/ /\ delivery[Subject(w)] # "providerAccepted"
        /\ Goto(w, IF routable[Subject(w)] THEN "marking" ELSE "suppressing")
  /\ UNCHANGED <<rowVars, routable, queueVars, reports, desk, history, disturbed>>

\* An update of the enquiry by id alone, then the next step.
Record(w, at, status, next) ==
  /\ At(w, at)
  /\ SetDelivery(Subject(w), status)
  /\ Goto(w, next)
  /\ UNCHANGED <<handling, version, routable, queueVars, reports, desk, history, disturbed>>

\* Mutants of Suppress (the job ends and the row is not written), of
\* MarkRetrying (the acceptance is written before the send) and of
\* RecordDeferred (the transient error is swallowed, the job completes).
SuppressUnrecorded(w) ==
  /\ At(w, "suppressing")
  /\ Goto(w, "finishing")
  /\ UNCHANGED <<rowVars, routable, queueVars, reports, desk, history, disturbed>>
MarkAcceptedEarly(w) == Record(w, "marking", "providerAccepted", "sending")
RecordSwallowed(w)   == Record(w, "deferring", "retrying", "finishing")

Suppress(w)       == Record(w, "suppressing", "suppressed", "finishing")
MarkRetrying(w)   == Record(w, "marking", "retrying", "sending")
RecordAccepted(w) == Record(w, "accepting", "providerAccepted", "finishing")
RecordBounced(w)  == Record(w, "bouncing", "failed", "finishing")
RecordDeferred(w) == Record(w, "deferring", "retrying", "throwing")

\* A disturbance between the provider's answer and its record hides it.
HideIf(w, hides) ==
  hidden' = IF hides THEN [hidden EXCEPT ![Subject(w)] = @ + 1] ELSE hidden

\* mailer.send resolves.
ProviderTakes(w) ==
  /\ At(w, "sending")
  /\ Goto(w, "accepting")
  /\ posted' = [posted EXCEPT ![Subject(w)] = @ + 1]
  /\ UNCHANGED <<rowVars, routable, queueVars, reports, desk, hidden, overlapped, disturbed>>

\* mailer.send throws a permanent or a transient error.
ProviderRefuses(w) ==
  /\ At(w, "sending")
  /\ Goto(w, "bouncing") \/ Goto(w, "deferring")
  /\ UNCHANGED <<rowVars, routable, queueVars, reports, desk, history, disturbed>>

\* mailer.send times out after the provider took the message.
ProviderTimesOut(w) ==
  /\ Disturb("ambiguous")
  /\ At(w, "sending")
  /\ Goto(w, "deferring")
  /\ posted' = [posted EXCEPT ![Subject(w)] = @ + 1]
  /\ hidden' = [hidden EXCEPT ![Subject(w)] = @ + 1]
  /\ UNCHANGED <<rowVars, routable, queueVars, reports, desk, overlapped>>

\* A query throws.  Recording the acceptance is inside the same try as the
\* send, so its failure is taken for a failure of the send.
QueryThrows(w) ==
  /\ Disturb("database")
  /\ run[w].step \in {"loading", "suppressing", "marking", "accepting", "bouncing", "deferring"}
  /\ Goto(w, IF At(w, "accepting") THEN "deferring" ELSE "throwing")
  /\ HideIf(w, At(w, "accepting"))
  /\ UNCHANGED <<rowVars, routable, queueVars, reports, desk, posted, overlapped>>

\* The handler returned; the queue ignores a worker that lost the lock.
Complete(w) ==
  /\ At(w, "finishing")
  /\ job' = IF run[w].locked THEN [job EXCEPT ![run[w].event] = "completed"] ELSE job
  /\ run' = [run EXCEPT ![w] = Idle]
  /\ UNCHANGED <<rowVars, routable, fate, made, stalled, reports, desk, history, disturbed>>

\* The handler threw: another attempt later, or the job has failed and the
\* "failed" callback of main.ts is due.
Fail(w) ==
  LET e == run[w].event IN
  /\ At(w, "throwing")
  /\ run' = [run EXCEPT ![w] = Idle]
  /\ \/ /\ ~run[w].locked
        /\ UNCHANGED <<job, made, reports>>
     \/ /\ run[w].locked
        /\ made[e] + 1 < MaxAttempts
        /\ made' = [made EXCEPT ![e] = @ + 1]
        /\ job' = [job EXCEPT ![e] = "delayed"]
        /\ UNCHANGED reports
     \/ /\ run[w].locked
        /\ made[e] + 1 >= MaxAttempts
        /\ made' = [made EXCEPT ![e] = MaxAttempts]
        /\ job' = [job EXCEPT ![e] = "failed"]
        /\ reports' = [reports EXCEPT ![w] = @ \cup {e}]
  /\ UNCHANGED <<rowVars, routable, fate, stalled, desk, history, disturbed>>

\* markDeliveryFailed, called and not awaited by the "failed" callback.
MarkDeliveryFailed(w, e) ==
  /\ e \in reports[w]
  /\ reports' = [reports EXCEPT ![w] = @ \ {e}]
  /\ IF delivery[About[e]] \in {"queued", "retrying"}
     THEN SetDelivery(About[e], "failed")
     ELSE UNCHANGED delivery
  /\ UNCHANGED <<handling, version, routable, queueVars, run, desk, history, disturbed>>

\* ... whose failure is only logged.
ReportThrows(w, e) ==
  /\ Disturb("report")
  /\ e \in reports[w]
  /\ reports' = [reports EXCEPT ![w] = @ \ {e}]
  /\ UNCHANGED <<rowVars, routable, queueVars, run, desk, history>>

\* The process dies with its job and its callbacks.
Crash(w) ==
  /\ Disturb("crash")
  /\ ~At(w, "idle") \/ reports[w] # {}
  /\ run' = [run EXCEPT ![w] = Idle]
  /\ reports' = [reports EXCEPT ![w] = {}]
  /\ HideIf(w, At(w, "accepting"))
  /\ UNCHANGED <<rowVars, routable, queueVars, desk, posted, overlapped>>

\* The lock expires under a worker that goes on working.
LoseLock(w) ==
  /\ Disturb("stall")
  /\ run[w].locked
  /\ run' = [run EXCEPT ![w].locked = FALSE]
  /\ UNCHANGED <<rowVars, routable, queueVars, reports, desk, history>>

-----------------------------------------------------------------------------
Work(w) ==
  \/ Load(w) \/ Suppress(w) \/ MarkRetrying(w)
  \/ ProviderTakes(w) \/ ProviderRefuses(w)
  \/ RecordAccepted(w) \/ RecordBounced(w) \/ RecordDeferred(w)
  \/ Complete(w) \/ Fail(w)

Callback(w) == \E e \in Event : MarkDeliveryFailed(w, e)

Mishap(w) ==
  \/ ProviderTimesOut(w) \/ QueryThrows(w) \/ Crash(w) \/ LoseLock(w)
  \/ \E e \in Event : ReportThrows(w, e)

Queue(e) == Dispatch(e) \/ BackoffOver(e) \/ Recover(e) \/ \E w \in Worker : Take(w, e)

Submission(q) == CheckSubmission(q) \/ \E e \in Event : CommitSubmission(q, e)

Administration(a) ==
  \/ \E q \in Enquiry : OpenRetry(a, q) \/ \E to \in Handling : OpenHandling(a, q, to)
  \/ \E e \in Event : CommitRetry(a, e)
  \/ CommitHandling(a) \/ RefuseStale(a)

Next ==
  \/ \E q \in Enquiry : RouteChanges(q) \/ Submission(q)
  \/ \E a \in Admin : Administration(a)
  \/ \E e \in Event : Queue(e) \/ GiveUp(e) \/ DispatchLate(e) \/ DispatchAgain(e) \/ Expire(e) \/ Rerun(e) \/ Remove(e)
  \/ \E w \in Worker : Work(w) \/ Callback(w) \/ Mishap(w)

\* Dispatchers, the queue and the workers keep going; visitors, administrators
\* and disturbances need not.
Fairness ==
  /\ \A e \in Event : WF_vars(Queue(e))
  /\ \A w \in Worker : WF_vars(Work(w)) /\ WF_vars(Callback(w))

Spec == Init /\ [][Next]_vars

FairSpec == Spec /\ Fairness

-----------------------------------------------------------------------------
\* Properties.

Pending(q) == delivery[q] \in {"queued", "retrying"}

Settled(q) == delivery[q] \in {"providerAccepted", "failed", "suppressed"}

\* Somebody will still act on the event: a dispatcher, the queue, a callback.
UnderWay(e) ==
  \/ fate[e] = "waiting"
  \/ job[e] \in {"waiting", "delayed", "active"}
  \/ \E w \in Worker : e \in reports[w]

\* Operators can see that it stopped: on the operations page, in the Queue
\* Monitor, or because they removed the job themselves.
Surfaced(e) == fate[e] = "abandoned" \/ job[e] \in {"failed", "removed"}

\* An enquiry that is shown as on its way is on its way, or the reason it is
\* not is in front of an operator: crashes, failed queries, refusals and
\* retries of every kind lose nothing silently.
NoSilentLoss ==
  \A q \in Enquiry : Pending(q) => \E e \in EventsOf(q) : UnderWay(e) \/ Surfaced(e)

\* "providerAccepted" is only ever written for a message the provider took.
AcceptedIsHonest ==
  \A q \in Enquiry : delivery[q] = "providerAccepted" => posted[q] > 0

\* As long as no two slots work on an enquiry at once, a message goes out at
\* most once for each accepted request or retry, and once more each time a
\* disturbance kept the provider's answer from being recorded.  A crash, a lost
\* lock or a failed query anywhere else, a repeated enqueue or a job run again
\* by an operator sends no duplicate.
NoUnexplainedDuplicate ==
  \A q \in Enquiry \ overlapped :
    posted[q] <= Cardinality({e \in EventsOf(q) : fate[e] # "unwritten"}) + hidden[q]

\* The audit record of a change of handling is true and the change an allowed
\* one: the row still has the status that was read and checked, although the
\* update names the version only and deliveries do not move that version.
HandlingIsAsAudited ==
  [][\A a \in Admin : CommitHandling(a) =>
        LET q == desk[a].enquiry IN
        desk[a].from = handling[q] /\ CanChangeHandling(handling[q], handling'[q])]_vars

\* Every accepted enquiry reaches a final state or its job is seen to have
\* failed.
EventuallyAccountedFor ==
  \A q \in Enquiry : delivery[q] = "queued" ~>
    Settled(q) \/ \E e \in EventsOf(q) : Surfaced(e)

=============================================================================
