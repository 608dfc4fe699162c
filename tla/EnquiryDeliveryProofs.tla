----------------------- MODULE EnquiryDeliveryProofs -----------------------
(***************************************************************************)
(* Proofs about EnquiryDelivery, for any number of enquiries, events,      *)
(* slots, administrators, attempts and disturbances.                       *)
(*                                                                         *)
(* Nothing is lost silently as long as no worker outlives its job lock: an *)
(* enquiry shown as pending always has a witness, an event whose job is    *)
(* still to be finished, or stands in front of an operator.  The witness   *)
(* must not be a job whose worker is only about to complete it; that is    *)
(* what makes the invariant inductive.                                     *)
(*                                                                         *)
(* No duplicate is unexplained, whatever is disturbed: an enquiry that a   *)
(* slot may still post owes a message, that is, it was asked for or had an *)
(* acceptance hidden once more than it was posted.                         *)
(***************************************************************************)
EXTENDS EnquiryDelivery, FiniteSetTheorems, TLAPS

\* The assumption under which the queue alone decides who works on a job.
NoStall == "stall" \notin Disturbances

-----------------------------------------------------------------------------
\* What the updates of a slot and of a desk make of their types.
LEMMA RunUpdates ==
  ASSUME NEW R \in [Worker -> Run], NEW w \in Worker
  PROVE  /\ R[w].step \in Step /\ R[w].event \in Event \cup {NoEvent}
         /\ \A s \in Step : [R EXCEPT ![w].step = s] \in [Worker -> Run]
         /\ [R EXCEPT ![w] = Idle] \in [Worker -> Run]
         /\ [R EXCEPT ![w].locked = FALSE] \in [Worker -> Run]
         /\ \A e \in Event :
              [R EXCEPT ![w] = [step |-> "loading", event |-> e, locked |-> TRUE]] \in [Worker -> Run]
  BY DEF Run, Idle, Step

LEMMA DeskUpdates ==
  ASSUME NEW D \in [Admin -> Desk], NEW a \in Admin
  PROVE  /\ D[a].enquiry \in Enquiry /\ D[a].target \in Handling
         /\ \A q \in Enquiry : [D EXCEPT ![a] = AtRest(q)] \in [Admin -> Desk]
         /\ \A q \in Enquiry, v \in Nat, f, to \in Handling :
              /\ [D EXCEPT ![a] = [task |-> "retrying", enquiry |-> q, version |-> v,
                                 from |-> f, target |-> to]] \in [Admin -> Desk]
              /\ [D EXCEPT ![a] = [task |-> "handling", enquiry |-> q, version |-> v,
                                 from |-> f, target |-> to]] \in [Admin -> Desk]
  BY DEF Desk, AtRest, Handling

LEMMA GotoType ==
  ASSUME run \in [Worker -> Run], NEW w \in Worker, NEW s \in Step, Goto(w, s)
  PROVE  run' \in [Worker -> Run]
  BY RunUpdates DEF Goto

\* A counter is still a counter when one of its values, if it has it, goes up.
LEMMA Counts ==
  ASSUME NEW S, NEW f \in [S -> Nat], NEW x
  PROVE  [f EXCEPT ![x] = @ + 1] \in [S -> Nat]
<1>1. CASE x \in S
  BY <1>1
<1>2. CASE x \notin S
  BY <1>2
<1>3. QED
  BY <1>1, <1>2

\* A slot at work has a job.
BusyHasEvent == \A w \in Worker : run[w].step # "idle" => run[w].event \in Event

LEMMA TypeStep == ASSUME TypeOK, BusyHasEvent, [Next]_vars PROVE TypeOK'
<1> USE DeliveryAssumption
    DEF TypeOK, HandoffTypeOK, Fates, Delivery, Handling, JobState, Becomes, Disturb,
        rowVars, queueVars, workVars, history
<1>1. ASSUME NEW q \in Enquiry, RouteChanges(q) PROVE TypeOK'
  BY <1>1 DEF RouteChanges
<1>2. ASSUME NEW q \in Enquiry, CheckSubmission(q) PROVE TypeOK'
  BY <1>2 DEF CheckSubmission
<1>3. ASSUME NEW q \in Enquiry, NEW e \in Event, CommitSubmission(q, e) PROVE TypeOK'
  BY <1>3 DEF CommitSubmission, Accept
<1>4. ASSUME NEW a \in Admin, NEW q \in Enquiry, OpenRetry(a, q) PROVE TypeOK'
  BY <1>4, DeskUpdates DEF OpenRetry
<1>5. ASSUME NEW a \in Admin, NEW q \in Enquiry, NEW to \in Handling, OpenHandling(a, q, to) PROVE TypeOK'
  <2>1. handling[q] \in Handling /\ version[q] \in Nat
    OBVIOUS
  <2>2. desk' \in [Admin -> Desk]
    BY <1>5, <2>1, DeskUpdates DEF OpenHandling
  <2>3. QED
    BY <1>5, <2>2 DEF OpenHandling
<1>6. ASSUME NEW a \in Admin, NEW e \in Event, CommitRetry(a, e) PROVE TypeOK'
  <2>1. desk' \in [Admin -> Desk]
    BY <1>6, DeskUpdates DEF CommitRetry, CloseDesk
  <2>2. version' \in [Enquiry -> Nat] /\ delivery' \in [Enquiry -> Delivery]
    BY <1>6, DeskUpdates DEF CommitRetry
  <2>3. HandoffTypeOK'
    BY <1>6 DEF CommitRetry, Accept
  <2>4. QED
    BY <1>6, <2>1, <2>2, <2>3 DEF CommitRetry
<1>7. ASSUME NEW a \in Admin, CommitHandling(a) PROVE TypeOK'
  <2>1. desk' \in [Admin -> Desk]
    BY <1>7, DeskUpdates DEF CommitHandling, CloseDesk
  <2>2. version' \in [Enquiry -> Nat]
    BY <1>7, Counts DEF CommitHandling
  <2>3. handling' \in [Enquiry -> Handling]
    BY <1>7, DeskUpdates DEF CommitHandling
  <2>4. QED
    BY <1>7, <2>1, <2>2, <2>3 DEF CommitHandling
<1>8. ASSUME NEW a \in Admin, RefuseStale(a) PROVE TypeOK'
  BY <1>8, DeskUpdates DEF RefuseStale, CloseDesk
<1>9. ASSUME NEW e \in Event, Dispatch(e) PROVE TypeOK'
  BY <1>9 DEF Dispatch, HandOver
<1>10. ASSUME NEW e \in Event, DispatchLate(e) PROVE TypeOK'
  BY <1>10 DEF DispatchLate, Reprieve
<1>11. ASSUME NEW e \in Event, GiveUp(e) PROVE TypeOK'
  BY <1>11 DEF GiveUp, Abandon
<1>12. ASSUME NEW e \in Event, DispatchAgain(e) PROVE TypeOK'
  BY <1>12 DEF DispatchAgain
<1>13. ASSUME NEW e \in Event, BackoffOver(e) \/ Expire(e) \/ Rerun(e) \/ Remove(e) PROVE TypeOK'
  BY <1>13 DEF BackoffOver, Expire, Rerun, Remove, MoveJob
<1>14. ASSUME NEW e \in Event, Recover(e) PROVE TypeOK'
  BY <1>14 DEF Recover, MoveJob
<1>15. ASSUME NEW w \in Worker, NEW e \in Event, Take(w, e) PROVE TypeOK'
  <2>1. run' \in [Worker -> Run]
    BY <1>15, RunUpdates DEF Take
  <2>2. overlapped' \in SUBSET Enquiry
    <3>1. About[e] \in Enquiry
      OBVIOUS
    <3>2. overlapped' \subseteq overlapped \cup {About[e]}
      BY <1>15 DEF Take
    <3>3. QED
      BY <3>1, <3>2
  <2>3. QED
    BY <1>15, <2>1, <2>2 DEF Take
<1>16. ASSUME NEW w \in Worker, Load(w) PROVE TypeOK'
  <2>1. run' \in [Worker -> Run]
    BY <1>16, GotoType DEF Load, Step
  <2>2. QED
    BY <1>16, <2>1 DEF Load
<1>17. ASSUME NEW w \in Worker, Suppress(w) PROVE TypeOK'
  <2>1. run' \in [Worker -> Run]
    BY <1>17, RunUpdates DEF Suppress, Record, Goto, Step
  <2>2. delivery' \in [Enquiry -> Delivery]
    BY <1>17 DEF Suppress, Record, SetDelivery
  <2>3. QED
    BY <1>17, <2>1, <2>2 DEF Suppress, Record
<1>18. ASSUME NEW w \in Worker, MarkRetrying(w) PROVE TypeOK'
  <2>1. run' \in [Worker -> Run]
    BY <1>18, RunUpdates DEF MarkRetrying, Record, Goto, Step
  <2>2. delivery' \in [Enquiry -> Delivery]
    BY <1>18 DEF MarkRetrying, Record, SetDelivery
  <2>3. QED
    BY <1>18, <2>1, <2>2 DEF MarkRetrying, Record
<1>19. ASSUME NEW w \in Worker, RecordAccepted(w) PROVE TypeOK'
  <2>1. run' \in [Worker -> Run]
    BY <1>19, RunUpdates DEF RecordAccepted, Record, Goto, Step
  <2>2. delivery' \in [Enquiry -> Delivery]
    BY <1>19 DEF RecordAccepted, Record, SetDelivery
  <2>3. QED
    BY <1>19, <2>1, <2>2 DEF RecordAccepted, Record
<1>20. ASSUME NEW w \in Worker, RecordBounced(w) PROVE TypeOK'
  <2>1. run' \in [Worker -> Run]
    BY <1>20, RunUpdates DEF RecordBounced, Record, Goto, Step
  <2>2. delivery' \in [Enquiry -> Delivery]
    BY <1>20 DEF RecordBounced, Record, SetDelivery
  <2>3. QED
    BY <1>20, <2>1, <2>2 DEF RecordBounced, Record
<1>21. ASSUME NEW w \in Worker, RecordDeferred(w) PROVE TypeOK'
  <2>1. run' \in [Worker -> Run]
    BY <1>21, RunUpdates DEF RecordDeferred, Record, Goto, Step
  <2>2. delivery' \in [Enquiry -> Delivery]
    BY <1>21 DEF RecordDeferred, Record, SetDelivery
  <2>3. QED
    BY <1>21, <2>1, <2>2 DEF RecordDeferred, Record
<1>22. ASSUME NEW w \in Worker, ProviderTakes(w) PROVE TypeOK'
  <2>1. run' \in [Worker -> Run]
    BY <1>22, RunUpdates DEF ProviderTakes, Goto, Step
  <2>2. posted' \in [Enquiry -> Nat]
    BY <1>22, Counts DEF ProviderTakes
  <2>3. QED
    BY <1>22, <2>1, <2>2 DEF ProviderTakes
<1>23. ASSUME NEW w \in Worker, ProviderRefuses(w) PROVE TypeOK'
  <2>1. run' \in [Worker -> Run]
    BY <1>23, GotoType DEF ProviderRefuses, Step
  <2>2. QED
    BY <1>23, <2>1 DEF ProviderRefuses
<1>24. ASSUME NEW w \in Worker, ProviderTimesOut(w) PROVE TypeOK'
  <2>1. run' \in [Worker -> Run]
    BY <1>24, RunUpdates DEF ProviderTimesOut, Goto, Step
  <2>2. posted' \in [Enquiry -> Nat]
    BY <1>24, Counts DEF ProviderTimesOut
  <2>3. hidden' \in [Enquiry -> Nat]
    BY <1>24, Counts DEF ProviderTimesOut
  <2>4. QED
    BY <1>24, <2>1, <2>2, <2>3 DEF ProviderTimesOut
<1>25. ASSUME NEW w \in Worker, QueryThrows(w) PROVE TypeOK'
  <2>1. run' \in [Worker -> Run]
    BY <1>25, RunUpdates DEF QueryThrows, Goto, Step
  <2>2. hidden' \in [Enquiry -> Nat]
    BY <1>25, Counts DEF QueryThrows, HideIf
  <2>3. QED
    BY <1>25, <2>1, <2>2 DEF QueryThrows
<1>26. ASSUME NEW w \in Worker, Complete(w) PROVE TypeOK'
  <2>1. run' \in [Worker -> Run]
    BY <1>26, RunUpdates DEF Complete
  <2>2. job' \in [Event -> JobState]
    BY <1>26 DEF Complete
  <2>3. QED
    BY <1>26, <2>1, <2>2 DEF Complete
<1>27. ASSUME NEW w \in Worker, Fail(w) PROVE TypeOK'
  <2>1. run' \in [Worker -> Run]
    BY <1>27, RunUpdates DEF Fail
  <2>2. job' \in [Event -> JobState] /\ made' \in [Event -> Nat]
    BY <1>27 DEF Fail
  <2>3. reports' \in [Worker -> SUBSET Event]
    BY <1>27 DEF Fail, At, BusyHasEvent
  <2>4. QED
    BY <1>27, <2>1, <2>2, <2>3 DEF Fail
<1>28. ASSUME NEW w \in Worker, NEW e \in Event, MarkDeliveryFailed(w, e) PROVE TypeOK'
  BY <1>28, RunUpdates DEF MarkDeliveryFailed, SetDelivery
<1>29. ASSUME NEW w \in Worker, NEW e \in Event, ReportThrows(w, e) PROVE TypeOK'
  BY <1>29, RunUpdates DEF ReportThrows
<1>30. ASSUME NEW w \in Worker, Crash(w) PROVE TypeOK'
  <2>1. run' \in [Worker -> Run]
    BY <1>30, RunUpdates DEF Crash
  <2>2. hidden' \in [Enquiry -> Nat]
    BY <1>30, Counts DEF Crash, HideIf
  <2>3. QED
    BY <1>30, <2>1, <2>2 DEF Crash
<1>31. ASSUME NEW w \in Worker, LoseLock(w) PROVE TypeOK'
  <2>1. run' \in [Worker -> Run]
    BY <1>31, RunUpdates DEF LoseLock
  <2>2. QED
    BY <1>31, <2>1 DEF LoseLock
<1>32. CASE UNCHANGED vars
  BY <1>32 DEF vars
<1> HIDE DEF TypeOK, HandoffTypeOK, Fates, Delivery, Handling, JobState, Becomes, Disturb,
         rowVars, queueVars, workVars, history
<1>33. QED
  BY <1>1, <1>2, <1>3, <1>4, <1>5, <1>6, <1>7, <1>8, <1>9, <1>10, <1>11, <1>12, <1>13, <1>14, <1>15, <1>16, <1>17, <1>18, <1>19, <1>20, <1>21, <1>22, <1>23, <1>24, <1>25, <1>26, <1>27, <1>28, <1>29, <1>30, <1>31, <1>32
  DEF Next, Submission, Administration, Queue, Work, Callback, Mishap

\* What a step of a slot's program does to the slots.
LEMMA GotoValues ==
  ASSUME run \in [Worker -> Run], NEW w \in Worker, NEW s \in Step, Goto(w, s)
  PROVE  /\ run'[w].step = s /\ run'[w].event = run[w].event /\ run'[w].locked = run[w].locked
         /\ \A v \in Worker : v # w => run'[v] = run[v]
  BY DEF Goto, Run

LEMMA SlotIsCleared ==
  ASSUME run \in [Worker -> Run], NEW w \in Worker, run' = [run EXCEPT ![w] = Idle]
  PROVE  run'[w] = Idle /\ \A v \in Worker : v # w => run'[v] = run[v]
  OBVIOUS

LEMMA SlotIsFilled ==
  ASSUME run \in [Worker -> Run], NEW w \in Worker, NEW e \in Event, Take(w, e)
  PROVE  /\ run'[w].step = "loading" /\ run'[w].event = e /\ run'[w].locked
         /\ \A v \in Worker : v # w => run'[v] = run[v]
  BY DEF Take

LEMMA LockIsLost ==
  ASSUME run \in [Worker -> Run], NEW w \in Worker, LoseLock(w)
  PROVE  /\ run'[w].step = run[w].step /\ run'[w].event = run[w].event
         /\ \A v \in Worker : v # w => run'[v] = run[v]
  BY DEF LoseLock, Run

\* The moves of a slot from one await to the next.
Moves(w) ==
  Load(w) \/ Suppress(w) \/ MarkRetrying(w) \/ ProviderTakes(w) \/ ProviderRefuses(w)
  \/ RecordAccepted(w) \/ RecordBounced(w) \/ RecordDeferred(w) \/ ProviderTimesOut(w) \/ QueryThrows(w)

LEMMA MovesAreGotos ==
  ASSUME run \in [Worker -> Run], NEW w \in Worker, Moves(w)
  PROVE  run[w].step # "idle" /\ \E s \in Step \ {"idle"} : Goto(w, s)
<1>1. CASE Load(w)
  BY <1>1 DEF Load, At, Step
<1>2. CASE ProviderRefuses(w)
  BY <1>2 DEF ProviderRefuses, At, Step
<1>3. CASE QueryThrows(w)
  BY <1>3 DEF QueryThrows, At, Step
<1>4. CASE ProviderTakes(w) \/ ProviderTimesOut(w)
  BY <1>4 DEF ProviderTakes, ProviderTimesOut, At, Step
<1>5. CASE Suppress(w) \/ MarkRetrying(w) \/ RecordAccepted(w) \/ RecordBounced(w) \/ RecordDeferred(w)
  BY <1>5 DEF Suppress, MarkRetrying, RecordAccepted, RecordBounced, RecordDeferred, Record, At, Step
<1>6. QED
  BY <1>1, <1>2, <1>3, <1>4, <1>5 DEF Moves

\* Every step moves, fills, clears or unlocks one slot, or leaves all of them.
LEMMA SlotSteps ==
  ASSUME [Next]_vars
  PROVE  \/ UNCHANGED run
         \/ \E w \in Worker : Moves(w) \/ Complete(w) \/ Fail(w) \/ Crash(w) \/ LoseLock(w)
         \/ \E w \in Worker, e \in Event : Take(w, e)
<1> USE DEF rowVars, queueVars, workVars
<1>1. ASSUME NEW q \in Enquiry, RouteChanges(q) \/ Submission(q) PROVE UNCHANGED run
  BY <1>1 DEF RouteChanges, Submission, CheckSubmission, CommitSubmission
<1>2. ASSUME NEW a \in Admin, Administration(a) PROVE UNCHANGED run
  BY <1>2 DEF Administration, OpenRetry, OpenHandling, CommitRetry, CommitHandling, RefuseStale
<1>3. ASSUME NEW e \in Event,
             \/ Dispatch(e) \/ BackoffOver(e) \/ Recover(e) \/ GiveUp(e) \/ DispatchLate(e)
             \/ DispatchAgain(e) \/ Expire(e) \/ Rerun(e) \/ Remove(e)
      PROVE  UNCHANGED run
  BY <1>3 DEF Dispatch, BackoffOver, Recover, GiveUp, DispatchLate, DispatchAgain, Expire, Rerun, Remove, MoveJob
<1>4. ASSUME NEW w \in Worker, NEW e \in Event, MarkDeliveryFailed(w, e) \/ ReportThrows(w, e)
      PROVE  UNCHANGED run
  BY <1>4 DEF MarkDeliveryFailed, ReportThrows
<1>5. CASE UNCHANGED vars
  BY <1>5 DEF vars
<1>6. QED
  BY <1>1, <1>2, <1>3, <1>4, <1>5 DEF Next, Queue, Work, Callback, Mishap, Moves

LEMMA BusyStep == ASSUME TypeOK, BusyHasEvent, [Next]_vars PROVE BusyHasEvent'
<1>0. run \in [Worker -> Run]
  BY DEF TypeOK
<1>1. CASE UNCHANGED run
  BY <1>1 DEF BusyHasEvent
<1>2. ASSUME NEW w \in Worker, Moves(w) PROVE BusyHasEvent'
  BY <1>0, <1>2, MovesAreGotos, GotoValues DEF BusyHasEvent
<1>3. ASSUME NEW w \in Worker, Complete(w) \/ Fail(w) \/ Crash(w) PROVE BusyHasEvent'
  <2>1. run' = [run EXCEPT ![w] = Idle]
    BY <1>3 DEF Complete, Fail, Crash
  <2>2. QED
    BY <1>0, <2>1, SlotIsCleared DEF BusyHasEvent, Idle
<1>4. ASSUME NEW w \in Worker, LoseLock(w) PROVE BusyHasEvent'
  BY <1>0, <1>4, LockIsLost DEF BusyHasEvent
<1>5. ASSUME NEW w \in Worker, NEW e \in Event, Take(w, e) PROVE BusyHasEvent'
  BY <1>0, <1>5, SlotIsFilled DEF BusyHasEvent
<1>6. QED
  BY <1>1, <1>2, <1>3, <1>4, <1>5, SlotSteps

LEMMA TypeInvariant == Spec => [](TypeOK /\ BusyHasEvent)
<1>1. Init => TypeOK /\ BusyHasEvent
  <2> SUFFICES ASSUME Init PROVE TypeOK /\ BusyHasEvent
    OBVIOUS
  <2>1. desk \in [Admin -> Desk]
    BY DEF Init, Desk, Handling, AtRest
  <2>2. run \in [Worker -> Run] /\ BusyHasEvent
    BY DEF Init, Run, Idle, Step, BusyHasEvent
  <2>3. QED
    BY <2>1, <2>2 DEF Init, TypeOK, HandoffInit, HandoffTypeOK, Fates, Delivery, Handling, JobState
<1>2. TypeOK /\ BusyHasEvent /\ [Next]_vars => (TypeOK /\ BusyHasEvent)'
  BY TypeStep, BusyStep
<1>3. QED
  BY <1>1, <1>2, PTL DEF Spec

\* Every variable keeps to its type, whatever is disturbed: in particular a
\* slot never reports an event it does not have.
THEOREM TypeCorrect == Spec => []TypeOK
  BY TypeInvariant, PTL

-----------------------------------------------------------------------------
\* Acceptances are honest, whatever is disturbed: even a worker that has lost
\* its lock writes "providerAccepted" only after its own message was taken.

AcceptingIsPosted == \A w \in Worker : run[w].step = "accepting" => posted[Subject(w)] > 0

HonestInv == AcceptingIsPosted /\ AcceptedIsHonest

\* Messages are never taken back.
LEMMA PostedGrows ==
  ASSUME TypeOK, [Next]_vars
  PROVE  \A q \in Enquiry : posted'[q] >= posted[q]
<1> USE DEF TypeOK, history, rowVars, queueVars, workVars
<1>1. ASSUME NEW w \in Worker, ProviderTakes(w) \/ ProviderTimesOut(w)
      PROVE  \A q \in Enquiry : posted'[q] >= posted[q]
  BY <1>1 DEF ProviderTakes, ProviderTimesOut
<1>2. CASE UNCHANGED posted
  BY <1>2
<1> HIDE DEF TypeOK
<1>3. ASSUME NEW q \in Enquiry, RouteChanges(q) \/ Submission(q) PROVE UNCHANGED posted
  BY <1>3 DEF RouteChanges, Submission, CheckSubmission, CommitSubmission
<1>4. ASSUME NEW a \in Admin, Administration(a) PROVE UNCHANGED posted
  BY <1>4 DEF Administration, OpenRetry, OpenHandling, CommitRetry, CommitHandling, RefuseStale
<1>5. ASSUME NEW e \in Event,
             \/ Queue(e) \/ GiveUp(e) \/ DispatchLate(e)
             \/ DispatchAgain(e) \/ Expire(e) \/ Rerun(e) \/ Remove(e)
      PROVE  UNCHANGED posted
  BY <1>5 DEF Queue, Dispatch, BackoffOver, Recover, Take, GiveUp, DispatchLate, DispatchAgain, Expire,
              Rerun, Remove, MoveJob
<1>6. ASSUME NEW w \in Worker,
             \/ Load(w) \/ Suppress(w) \/ MarkRetrying(w) \/ ProviderRefuses(w) \/ RecordAccepted(w)
             \/ RecordBounced(w) \/ RecordDeferred(w) \/ Complete(w) \/ Fail(w) \/ Callback(w)
             \/ QueryThrows(w) \/ Crash(w) \/ LoseLock(w) \/ \E e \in Event : ReportThrows(w, e)
      PROVE  UNCHANGED posted
  BY <1>6 DEF Load, Suppress, MarkRetrying, ProviderRefuses, RecordAccepted, RecordBounced, RecordDeferred, Record,
              Complete, Fail, Callback, MarkDeliveryFailed, QueryThrows, Crash, LoseLock, ReportThrows
<1>7. ASSUME UNCHANGED vars PROVE UNCHANGED posted
  BY <1>7 DEF vars
<1>8. QED
  BY <1>1, <1>2, <1>3, <1>4, <1>5, <1>6, <1>7 DEF Next, Work, Mishap

\* Only a provider that takes the message brings a slot to "accepting".
LEMMA WhoAccepts ==
  ASSUME TypeOK, NEW w \in Worker, Moves(w), run'[w].step = "accepting"
  PROVE  ProviderTakes(w)
<1>0. run \in [Worker -> Run]
  BY DEF TypeOK
<1> USE <1>0, GotoValues DEF Step
<1>1. CASE Load(w)
  BY <1>1 DEF Load
<1>2. CASE ProviderRefuses(w)
  BY <1>2 DEF ProviderRefuses
<1>3. CASE QueryThrows(w) \/ ProviderTimesOut(w)
  BY <1>3 DEF QueryThrows, ProviderTimesOut
<1>4. CASE Suppress(w) \/ MarkRetrying(w) \/ RecordAccepted(w) \/ RecordBounced(w) \/ RecordDeferred(w)
  BY <1>4 DEF Suppress, MarkRetrying, RecordAccepted, RecordBounced, RecordDeferred, Record
<1>5. QED
  BY <1>1, <1>2, <1>3, <1>4 DEF Moves

LEMMA AcceptingStep == ASSUME TypeOK, BusyHasEvent, AcceptingIsPosted, [Next]_vars PROVE AcceptingIsPosted'
<1>0. /\ run \in [Worker -> Run] /\ posted \in [Enquiry -> Nat] /\ posted' \in [Enquiry -> Nat]
      /\ About \in [Event -> Enquiry]
  BY TypeStep, DeliveryAssumption DEF TypeOK
<1>1. \A q \in Enquiry : posted'[q] >= posted[q]
  BY PostedGrows
<1>2. ASSUME NEW v \in Worker, run'[v] = run[v], run'[v].step = "accepting" PROVE posted'[Subject(v)'] > 0
  <2>1. run[v].event \in Event /\ Subject(v) \in Enquiry /\ Subject(v)' = Subject(v)
    BY <1>0, <1>2 DEF BusyHasEvent, Subject
  <2>2. posted[Subject(v)] > 0
    BY <1>2 DEF AcceptingIsPosted
  <2>3. QED
    BY <1>0, <1>1, <2>1, <2>2
<1>3. ASSUME NEW w \in Worker, Moves(w) PROVE AcceptingIsPosted'
  <2>1. /\ run[w].step # "idle" /\ run'[w].event = run[w].event
        /\ \A v \in Worker : v # w => run'[v] = run[v]
    BY <1>0, <1>3, MovesAreGotos, GotoValues
  <2>2. ASSUME run'[w].step = "accepting" PROVE posted'[Subject(w)'] > 0
    <3>1. ProviderTakes(w)
      BY <1>3, <2>2, WhoAccepts
    <3>2. Subject(w) \in Enquiry /\ Subject(w)' = Subject(w)
      BY <1>0, <2>1 DEF BusyHasEvent, Subject
    <3>3. QED
      BY <1>0, <3>1, <3>2 DEF ProviderTakes
  <2>3. QED
    BY <1>2, <2>1, <2>2 DEF AcceptingIsPosted
<1>4. ASSUME NEW w \in Worker, Complete(w) \/ Fail(w) \/ Crash(w) PROVE AcceptingIsPosted'
  <2>1. run' = [run EXCEPT ![w] = Idle]
    BY <1>4 DEF Complete, Fail, Crash
  <2>2. QED
    BY <1>0, <1>2, <2>1, SlotIsCleared DEF AcceptingIsPosted, Idle
<1>5. ASSUME NEW w \in Worker, LoseLock(w) PROVE AcceptingIsPosted'
  <2>1. UNCHANGED posted
    BY <1>5 DEF LoseLock, history
  <2>2. QED
    BY <1>0, <1>5, <2>1, LockIsLost DEF AcceptingIsPosted, Subject
<1>6. ASSUME NEW w \in Worker, NEW e \in Event, Take(w, e) PROVE AcceptingIsPosted'
  BY <1>0, <1>2, <1>6, SlotIsFilled DEF AcceptingIsPosted
<1>7. CASE UNCHANGED run
  BY <1>2, <1>7 DEF AcceptingIsPosted
<1>8. QED
  BY <1>3, <1>4, <1>5, <1>6, <1>7, SlotSteps

\* The writers of deliveryStatus, and what each of them writes.
LEMMA Writers ==
  ASSUME TypeOK, [Next]_vars, NEW q \in Enquiry, delivery'[q] # delivery[q]
  PROVE  \/ delivery[q] = "none" /\ delivery'[q] = "checked"
         \/ delivery[q] \in {"queued", "retrying"} /\ delivery'[q] = "failed"
         \/ delivery'[q] \in {"failed", "suppressed"} /\ \E w \in Worker : Subject(w) = q /\ (Suppress(w) \/ RecordBounced(w))
         \/ delivery'[q] = "queued" /\ \E e \in Event : About[e] = q /\ Accept(e)
         \/ delivery'[q] = "retrying" /\ \E w \in Worker : Subject(w) = q /\ (MarkRetrying(w) \/ RecordDeferred(w))
         \/ delivery'[q] = "providerAccepted" /\ \E w \in Worker : Subject(w) = q /\ RecordAccepted(w)
<1> USE DEF TypeOK, rowVars, queueVars, workVars
<1>1. ASSUME NEW p \in Enquiry, CheckSubmission(p) PROVE delivery[q] = "none" /\ delivery'[q] = "checked"
  BY <1>1 DEF CheckSubmission
<1>2. ASSUME NEW p \in Enquiry, NEW e \in Event, CommitSubmission(p, e)
      PROVE  delivery'[q] = "queued" /\ About[e] = q /\ Accept(e)
  BY <1>2 DEF CommitSubmission
<1>3. ASSUME NEW a \in Admin, NEW e \in Event, CommitRetry(a, e)
      PROVE  delivery'[q] = "queued" /\ About[e] = q /\ Accept(e)
  BY <1>3 DEF CommitRetry
<1>4. ASSUME NEW w \in Worker, NEW at, NEW status, NEW next, Record(w, at, status, next)
      PROVE  delivery'[q] = status /\ Subject(w) = q
  BY <1>4 DEF Record, SetDelivery
<1>5. ASSUME NEW w \in Worker, NEW e \in Event, MarkDeliveryFailed(w, e)
      PROVE  delivery[q] \in {"queued", "retrying"} /\ delivery'[q] = "failed"
  BY <1>5 DEF MarkDeliveryFailed, SetDelivery
<1> HIDE DEF TypeOK
<1>6. ~UNCHANGED delivery
  OBVIOUS
<1>7. ASSUME NEW p \in Enquiry, RouteChanges(p) PROVE FALSE
  BY <1>6, <1>7 DEF RouteChanges
<1>8. ASSUME NEW a \in Admin, Administration(a) PROVE \E e \in Event : CommitRetry(a, e)
  BY <1>6, <1>8 DEF Administration, OpenRetry, OpenHandling, CommitHandling, RefuseStale
<1>9. ASSUME NEW e \in Event,
             \/ Queue(e) \/ GiveUp(e) \/ DispatchLate(e)
             \/ DispatchAgain(e) \/ Expire(e) \/ Rerun(e) \/ Remove(e)
      PROVE  FALSE
  BY <1>6, <1>9 DEF Queue, Dispatch, BackoffOver, Recover, Take, GiveUp, DispatchLate, DispatchAgain, Expire,
                    Rerun, Remove, MoveJob
<1>10. ASSUME NEW w \in Worker,
             \/ Load(w) \/ ProviderTakes(w) \/ ProviderRefuses(w) \/ Complete(w) \/ Fail(w) \/ Mishap(w)
      PROVE  FALSE
  BY <1>6, <1>10 DEF Load, ProviderTakes, ProviderRefuses, Complete, Fail, Mishap, ProviderTimesOut, QueryThrows,
                     Crash, LoseLock, ReportThrows
<1>11. CASE UNCHANGED vars
  BY <1>6, <1>11 DEF vars
<1>12. QED
  BY <1>1, <1>2, <1>3, <1>4, <1>5, <1>7, <1>8, <1>9, <1>10, <1>11
  DEF Next, Submission, Work, Callback, Suppress, MarkRetrying, RecordAccepted, RecordBounced, RecordDeferred

LEMMA HonestStep == ASSUME TypeOK, BusyHasEvent, HonestInv, [Next]_vars PROVE HonestInv'
<1>1. AcceptingIsPosted'
  BY AcceptingStep DEF HonestInv
<1>2. ASSUME NEW q \in Enquiry, delivery'[q] = "providerAccepted" PROVE posted'[q] > 0
  <2>1. posted[q] \in Nat /\ posted'[q] \in Nat /\ posted'[q] >= posted[q]
    BY TypeStep, PostedGrows DEF TypeOK
  <2>2. CASE delivery'[q] = delivery[q]
    BY <1>2, <2>1, <2>2 DEF HonestInv, AcceptedIsHonest
  <2>3. CASE delivery'[q] # delivery[q]
    <3>1. PICK w \in Worker : Subject(w) = q /\ RecordAccepted(w)
      BY <1>2, <2>3, Writers
    <3>2. run[w].step = "accepting"
      BY <3>1 DEF RecordAccepted, Record, At
    <3>3. QED
      BY <2>1, <3>1, <3>2 DEF HonestInv, AcceptingIsPosted
  <2>4. QED
    BY <2>2, <2>3
<1>3. QED
  BY <1>1, <1>2 DEF HonestInv, AcceptedIsHonest

\* "providerAccepted" is only ever written for a message the provider took
\* (AcceptedIsHonest), for every set of disturbances, lost locks included.
THEOREM AcceptancesAreHonest == Spec => []AcceptedIsHonest
<1>1. Init => HonestInv
  BY DEF Init, HonestInv, AcceptingIsPosted, AcceptedIsHonest, Idle
<1>2. TypeOK /\ BusyHasEvent /\ HonestInv /\ [Next]_vars => HonestInv'
  BY HonestStep
<1>3. HonestInv => AcceptedIsHonest
  BY DEF HonestInv
<1>4. QED
  BY <1>1, <1>2, <1>3, TypeInvariant, PTL DEF Spec

-----------------------------------------------------------------------------
\* Handling: a request that still finds the version it read also finds the
\* handling state it read, because every change of it moves the version.

DeskInv ==
  \A a \in Admin : desk[a].task # "idle" =>
    /\ desk[a].version <= version[desk[a].enquiry]
    /\ desk[a].task = "handling" /\ Unmoved(a) =>
         /\ desk[a].from = handling[desk[a].enquiry]
         /\ CanChangeHandling(desk[a].from, desk[a].target)

\* Only the two conditional updates move a version or a handling state.
LEMMA VersionMoves ==
  ASSUME TypeOK, [Next]_vars
  PROVE  \/ UNCHANGED <<desk, version, handling>>
         \/ UNCHANGED <<version, handling>> /\ \E a \in Admin, q \in Enquiry, to \in Handling :
              OpenRetry(a, q) \/ OpenHandling(a, q, to) \/ RefuseStale(a)
         \/ \E a \in Admin : CommitHandling(a) \/ \E e \in Event : CommitRetry(a, e)
<1> USE DEF rowVars
<1>1. ASSUME NEW q \in Enquiry, RouteChanges(q) \/ Submission(q) PROVE UNCHANGED <<desk, version, handling>>
  BY <1>1 DEF RouteChanges, Submission, CheckSubmission, CommitSubmission
<1>2. ASSUME NEW a \in Admin, NEW q \in Enquiry, OpenRetry(a, q) PROVE UNCHANGED <<version, handling>> /\ "new" \in Handling
  BY <1>2 DEF OpenRetry, Handling
<1>3. ASSUME NEW a \in Admin, NEW q \in Enquiry, NEW to \in Handling, OpenHandling(a, q, to)
      PROVE  UNCHANGED <<version, handling>>
  BY <1>3 DEF OpenHandling
<1>4. ASSUME NEW a \in Admin, RefuseStale(a)
      PROVE  UNCHANGED <<version, handling>> /\ desk[a].enquiry \in Enquiry /\ "new" \in Handling
  BY <1>4 DEF RefuseStale, TypeOK, Desk, Handling
<1>5. ASSUME NEW e \in Event,
             \/ Queue(e) \/ GiveUp(e) \/ DispatchLate(e)
             \/ DispatchAgain(e) \/ Expire(e) \/ Rerun(e) \/ Remove(e)
      PROVE  UNCHANGED <<desk, version, handling>>
  BY <1>5 DEF Queue, Dispatch, BackoffOver, Recover, Take, GiveUp, DispatchLate, DispatchAgain, Expire,
              Rerun, Remove, MoveJob
<1>6. ASSUME NEW w \in Worker, Work(w) \/ Callback(w) \/ Mishap(w) PROVE UNCHANGED <<desk, version, handling>>
  BY <1>6 DEF Work, Load, Suppress, MarkRetrying, ProviderTakes, ProviderRefuses, RecordAccepted, RecordBounced,
              RecordDeferred, Record, Complete, Fail, Callback, MarkDeliveryFailed, Mishap, ProviderTimesOut,
              QueryThrows, Crash, LoseLock, ReportThrows
<1>7. ASSUME UNCHANGED vars PROVE UNCHANGED <<desk, version, handling>>
  BY <1>7 DEF vars
<1>8. QED
  BY <1>1, <1>2, <1>3, <1>4, <1>5, <1>6, <1>7 DEF Next, Administration

\* What an update of one desk does.
LEMMA DeskValues ==
  ASSUME desk \in [Admin -> Desk], NEW a \in Admin, CloseDesk(a)
  PROVE  desk'[a].task = "idle" /\ \A b \in Admin : b # a => desk'[b] = desk[b]
  BY DEF CloseDesk, Desk, AtRest

LEMMA DeskStep == ASSUME TypeOK, DeskInv, [Next]_vars PROVE DeskInv'
<1>0. /\ desk \in [Admin -> Desk] /\ version \in [Enquiry -> Nat] /\ handling \in [Enquiry -> Handling]
      /\ \A a \in Admin : desk[a].version \in Nat /\ desk[a].enquiry \in Enquiry
  BY DEF TypeOK, Desk
<1>1. CASE UNCHANGED <<desk, version, handling>>
  BY <1>1 DEF DeskInv, Unmoved
<1>2. ASSUME NEW a \in Admin, RefuseStale(a), UNCHANGED <<version, handling>> PROVE DeskInv'
  BY <1>0, <1>2, DeskValues DEF RefuseStale, DeskInv, Unmoved
<1>3. ASSUME NEW a \in Admin, NEW q \in Enquiry, OpenRetry(a, q), UNCHANGED <<version, handling>> PROVE DeskInv'
  <2>1. /\ desk'[a].task = "retrying" /\ desk'[a].enquiry = q /\ desk'[a].version = version[q]
        /\ \A b \in Admin : b # a => desk'[b] = desk[b]
    BY <1>0, <1>3 DEF OpenRetry
  <2>2. QED
    BY <1>0, <1>3, <2>1 DEF DeskInv, Unmoved
<1>4. ASSUME NEW a \in Admin, NEW q \in Enquiry, NEW to \in Handling, OpenHandling(a, q, to),
             UNCHANGED <<version, handling>>
      PROVE  DeskInv'
  <2>1. /\ desk'[a].enquiry = q /\ desk'[a].version = version[q] /\ desk'[a].target = to /\ desk'[a].from = handling[q]
        /\ \A b \in Admin : b # a => desk'[b] = desk[b]
    BY <1>0, <1>4 DEF OpenHandling
  <2>2. CanChangeHandling(handling[q], to)
    BY <1>4 DEF OpenHandling
  <2>3. QED
    BY <1>0, <1>4, <2>1, <2>2 DEF DeskInv, Unmoved
<1>5. ASSUME NEW a \in Admin, CommitHandling(a) \/ \E e \in Event : CommitRetry(a, e) PROVE DeskInv'
  <2> DEFINE q == desk[a].enquiry
  <2>1. /\ CloseDesk(a) /\ version' = [version EXCEPT ![q] = @ + 1] /\ q \in Enquiry
        /\ \A p \in Enquiry : p # q => handling'[p] = handling[p]
    BY <1>0, <1>5 DEF CommitHandling, CommitRetry
  <2>2. ASSUME NEW b \in Admin, desk'[b].task # "idle"
        PROVE  /\ desk'[b].version <= version'[desk'[b].enquiry]
               /\ desk'[b].task = "handling" /\ Unmoved(b)' =>
                    /\ desk'[b].from = handling'[desk'[b].enquiry]
                    /\ CanChangeHandling(desk'[b].from, desk'[b].target)
    <3>1. desk'[b] = desk[b] /\ desk[b].task # "idle"
      BY <1>0, <2>1, <2>2, DeskValues
    <3>2. CASE desk[b].enquiry = q
      BY <1>0, <2>1, <3>1, <3>2 DEF DeskInv, Unmoved
    <3>3. CASE desk[b].enquiry # q
      BY <1>0, <2>1, <3>1, <3>3 DEF DeskInv, Unmoved
    <3>4. QED
      BY <3>2, <3>3
  <2>3. QED
    BY <2>2 DEF DeskInv
<1>6. QED
  BY <1>1, <1>2, <1>3, <1>4, <1>5, VersionMoves

\* A change of handling starts from the status that was read and audited and
\* is allowed, however many administrators act on one reading
\* (HandlingIsAsAudited).
THEOREM HandlingIsAudited == Spec => HandlingIsAsAudited
<1> DEFINE Audited == \A a \in Admin : CommitHandling(a) =>
                        LET q == desk[a].enquiry IN
                        desk[a].from = handling[q] /\ CanChangeHandling(handling[q], handling'[q])
<1>1. Init => DeskInv
  BY DEF Init, DeskInv, AtRest
<1>2. TypeOK /\ DeskInv /\ [Next]_vars => DeskInv'
  BY DeskStep
<1>3. TypeOK /\ DeskInv /\ [Next]_vars => [Audited]_vars
  <2> SUFFICES ASSUME TypeOK, DeskInv, NEW a \in Admin, CommitHandling(a)
               PROVE  LET q == desk[a].enquiry IN
                      desk[a].from = handling[q] /\ CanChangeHandling(handling[q], handling'[q])
    OBVIOUS
  <2> DEFINE q == desk[a].enquiry
  <2>1. q \in Enquiry /\ handling'[q] = desk[a].target
    BY DEF CommitHandling, TypeOK, Desk
  <2>2. desk[a].from = handling[q] /\ CanChangeHandling(desk[a].from, desk[a].target)
    BY DEF CommitHandling, DeskInv
  <2>3. QED
    BY <2>1, <2>2
<1>4. QED
  BY <1>1, <1>2, <1>3, TypeInvariant, PTL DEF Spec, HandlingIsAsAudited

-----------------------------------------------------------------------------
\* No silent loss, when no worker outlives its lock.

\* A slot at work has the job, alone, under its lock; an event that was not
\* handed over has no job.
SlotsHold ==
  \A w \in Worker :
    IF run[w].step = "idle" THEN run[w].event = NoEvent
    ELSE run[w].event \in Event /\ run[w].locked /\ job[run[w].event] = "active"

OneSlotEach == \A v, w \in Worker : run[v].step # "idle" /\ run[v].event = run[w].event => v = w

NoJobYet == \A e \in Event : fate[e] # "handed" => job[e] = "none"

\* An event that can still bring its enquiry to an end, or that an operator
\* can see: its job is not about to be completed.
Live(e) ==
  \/ fate[e] \in {"waiting", "abandoned"}
  \/ job[e] \in {"waiting", "delayed", "failed", "removed"}
  \/ job[e] = "active" /\ \A w \in Worker : run[w].event = e => run[w].step # "finishing"

Witnessed == \A q \in Enquiry : Pending(q) => \E e \in EventsOf(q) : Live(e)

LossInv == SlotsHold /\ OneSlotEach /\ NoJobYet /\ Witnessed

\* How each step moves jobs and fates: what a slot does to its own job, and
\* what the queue and the dispatchers do to a job no slot has.
LEMMA HoldStep ==
  ASSUME NoStall, TypeOK, BusyHasEvent, SlotsHold, OneSlotEach, NoJobYet, [Next]_vars
  PROVE  (SlotsHold /\ OneSlotEach /\ NoJobYet)'
<1>0. /\ run \in [Worker -> Run] /\ job \in [Event -> JobState] /\ fate \in [Event -> Fates] /\ NoEvent \notin Event
  BY DeliveryAssumption DEF TypeOK, HandoffTypeOK
<1>1. CASE UNCHANGED <<run, job>> /\ \A e \in Event : fate[e] = "handed" => fate'[e] = "handed"
  BY <1>1 DEF SlotsHold, OneSlotEach, NoJobYet
<1>2. ASSUME NEW e \in Event, NEW s, s # "none", UNCHANGED run, job' = [job EXCEPT ![e] = s],
             job[e] # "active" \/ ~Locked(e), fate'[e] = "handed",
             \A f \in Event : fate[f] = "handed" => fate'[f] = "handed"
      PROVE  (SlotsHold /\ OneSlotEach /\ NoJobYet)'
  BY <1>0, <1>2 DEF SlotsHold, OneSlotEach, NoJobYet, Locked
<1>3. ASSUME NEW w \in Worker, Moves(w) PROVE (SlotsHold /\ OneSlotEach /\ NoJobYet)'
  <2>1. UNCHANGED <<job, fate>>
    BY <1>3 DEF Moves, Load, Suppress, MarkRetrying, ProviderTakes, ProviderRefuses, RecordAccepted, RecordBounced,
                RecordDeferred, Record, ProviderTimesOut, QueryThrows, queueVars
  <2>2. /\ run[w].step # "idle"
        /\ run'[w].event = run[w].event /\ run'[w].locked = run[w].locked
        /\ \A v \in Worker : v # w => run'[v] = run[v]
    BY <1>0, <1>3, MovesAreGotos, GotoValues
  <2>3. run'[w].step # "idle"
    BY <1>0, <1>3, MovesAreGotos, GotoValues
  <2>4. SlotsHold'
    BY <1>0, <2>1, <2>2, <2>3 DEF SlotsHold
  <2>5. OneSlotEach'
    BY <1>0, <2>2 DEF OneSlotEach
  <2>6. NoJobYet'
    BY <2>1 DEF NoJobYet
  <2>7. QED
    BY <2>4, <2>5, <2>6
<1>4. ASSUME NEW w \in Worker, Complete(w) \/ Fail(w) \/ Crash(w) PROVE (SlotsHold /\ OneSlotEach /\ NoJobYet)'
  <2>1. run' = [run EXCEPT ![w] = Idle] /\ UNCHANGED fate
    BY <1>4 DEF Complete, Fail, Crash, queueVars
  <2>2. \A e \in Event : job'[e] # job[e] => e = run[w].event /\ job[e] = "active"
    BY <1>0, <1>4 DEF Complete, Fail, Crash, queueVars, At, SlotsHold
  <2>3. run'[w].step = "idle" /\ run'[w].event = NoEvent /\ \A v \in Worker : v # w => run'[v] = run[v]
    BY <1>0, <2>1, SlotIsCleared DEF Idle
  <2>4. SlotsHold'
    BY <1>0, <2>2, <2>3 DEF SlotsHold, OneSlotEach
  <2>5. OneSlotEach'
    BY <1>0, <2>3 DEF SlotsHold, OneSlotEach
  <2>6. NoJobYet'
    BY <1>0, <2>1, <2>2 DEF NoJobYet
  <2>7. QED
    BY <2>4, <2>5, <2>6
<1>5. ASSUME NEW w \in Worker, NEW e \in Event, Take(w, e) PROVE (SlotsHold /\ OneSlotEach /\ NoJobYet)'
  <2>1. /\ run[w].step = "idle" /\ job[e] = "waiting" /\ job' = [job EXCEPT ![e] = "active"] /\ UNCHANGED fate
        /\ run'[w].step = "loading" /\ run'[w].event = e /\ run'[w].locked
        /\ \A v \in Worker : v # w => run'[v] = run[v]
    BY <1>0, <1>5, SlotIsFilled DEF Take, At
  <2>2. QED
    BY <1>0, <2>1 DEF SlotsHold, OneSlotEach, NoJobYet
<1>6. ASSUME NEW q \in Enquiry, RouteChanges(q) \/ CheckSubmission(q) PROVE UNCHANGED <<run, job, fate>>
  BY <1>6 DEF RouteChanges, CheckSubmission, queueVars, workVars
<1>7. ASSUME NEW e \in Event, (\E q \in Enquiry : CommitSubmission(q, e)) \/ \E a \in Admin : CommitRetry(a, e)
      PROVE  UNCHANGED <<run, job>> /\ \A f \in Event : fate[f] = "handed" => fate'[f] = "handed"
  BY <1>0, <1>7 DEF CommitSubmission, CommitRetry, Accept, Becomes, workVars
<1>8. ASSUME NEW a \in Admin,
             \/ CommitHandling(a) \/ RefuseStale(a)
             \/ \E q \in Enquiry : OpenRetry(a, q) \/ \E to \in Handling : OpenHandling(a, q, to)
      PROVE  UNCHANGED <<run, job, fate>>
  BY <1>8 DEF OpenRetry, OpenHandling, CommitHandling, RefuseStale, queueVars, workVars
<1>9. ASSUME NEW w \in Worker, NEW e \in Event, MarkDeliveryFailed(w, e) \/ ReportThrows(w, e)
      PROVE  UNCHANGED <<run, job, fate>>
  BY <1>9 DEF MarkDeliveryFailed, ReportThrows, queueVars
<1>10. ASSUME NEW w \in Worker PROVE ~LoseLock(w)
  BY DEF NoStall, LoseLock, Disturb
<1>11. ASSUME NEW e \in Event, Dispatch(e) \/ DispatchLate(e) PROVE (SlotsHold /\ OneSlotEach /\ NoJobYet)'
  <2>1. /\ UNCHANGED run /\ job[e] = "none"
        /\ \A f \in Event : fate[f] = "handed" => fate'[f] = "handed"
        /\ \/ job' = [job EXCEPT ![e] = "waiting"] /\ fate'[e] = "handed"
           \/ UNCHANGED job
    BY <1>0, <1>11 DEF Dispatch, DispatchLate, HandOver, Reprieve, Becomes, NoJobYet, workVars
  <2>2. QED
    BY <1>1, <1>2, <2>1
<1>12. ASSUME NEW e \in Event, GiveUp(e)
      PROVE  UNCHANGED <<run, job>> /\ \A f \in Event : fate[f] = "handed" => fate'[f] = "handed"
  BY <1>0, <1>12 DEF GiveUp, Abandon, Becomes, workVars
<1>13. ASSUME NEW e \in Event, DispatchAgain(e) PROVE (SlotsHold /\ OneSlotEach /\ NoJobYet)'
  BY <1>2, <1>13 DEF DispatchAgain, workVars
<1>14. ASSUME NEW e \in Event, BackoffOver(e) \/ Expire(e) \/ Rerun(e) \/ Remove(e) \/ Recover(e)
      PROVE  (SlotsHold /\ OneSlotEach /\ NoJobYet)'
  <2>1. /\ UNCHANGED <<run, fate>> /\ job[e] # "none" /\ (job[e] # "active" \/ ~Locked(e))
        /\ \E s \in JobState \ {"none"} : job' = [job EXCEPT ![e] = s]
    BY <1>14 DEF BackoffOver, Expire, Rerun, Remove, Recover, MoveJob, workVars, JobState
  <2>2. fate[e] = "handed"
    BY <2>1 DEF NoJobYet
  <2>3. QED
    BY <1>2, <2>1, <2>2
<1>15. ASSUME UNCHANGED vars PROVE UNCHANGED <<run, job, fate>>
  BY <1>15 DEF vars, queueVars, workVars
<1>16. QED
  BY <1>1, <1>3, <1>4, <1>5, <1>6, <1>7, <1>8, <1>9, <1>10, <1>11, <1>12, <1>13, <1>14, <1>15
  DEF Next, Submission, Administration, Queue, Work, Callback, Mishap, Moves

\* A step keeps every pending enquiry witnessed if it leaves each live event
\* live, or its enquiry settled, and brings a live event to each enquiry that
\* it makes pending.
LEMMA StaysWitnessed ==
  ASSUME Witnessed,
         \A e \in Event : Live(e) => Live(e)' \/ ~Pending(About[e])',
         \A q \in Enquiry : Pending(q)' => Pending(q) \/ \E e \in EventsOf(q) : Live(e)'
  PROVE  Witnessed'
  BY DEF Witnessed, EventsOf

\* Only retries make an enquiry pending, and only for an event they wrote or
\* hold.
LEMMA WhoMakesPending ==
  ASSUME TypeOK, BusyHasEvent, SlotsHold, OneSlotEach, [Next]_vars,
         NEW q \in Enquiry, Pending(q)', ~Pending(q)
  PROVE  \E e \in EventsOf(q) : Live(e)'
<1>0. run \in [Worker -> Run] /\ About \in [Event -> Enquiry] /\ fate \in [Event -> Fates] /\ job \in [Event -> JobState]
  BY DeliveryAssumption DEF TypeOK, HandoffTypeOK
<1>1. delivery'[q] # delivery[q] /\ delivery'[q] \in {"queued", "retrying"}
  BY DEF Pending
<1>2. CASE \E e \in Event : About[e] = q /\ Accept(e)
  BY <1>0, <1>2 DEF Accept, Becomes, EventsOf, Live
<1>3. ASSUME NEW w \in Worker, Subject(w) = q, MarkRetrying(w) \/ RecordDeferred(w)
      PROVE  \E e \in EventsOf(q) : Live(e)'
  <2> DEFINE e == run[w].event
  <2>1. run[w].step # "idle" /\ e \in Event /\ About[e] = q /\ job[e] = "active" /\ UNCHANGED job
    BY <1>0, <1>3 DEF MarkRetrying, RecordDeferred, Record, At, SlotsHold, Subject, queueVars
  <2>2. Goto(w, "sending") \/ Goto(w, "throwing")
    BY <1>3 DEF MarkRetrying, RecordDeferred, Record
  <2>3. run'[w].step # "finishing" /\ \A v \in Worker : v # w => run'[v] = run[v]
    BY <1>0, <2>2, GotoValues DEF Step
  <2>4. \A v \in Worker : run'[v].event = e => v = w
    BY <1>0, <2>1, <2>3 DEF OneSlotEach
  <2>5. QED
    BY <2>1, <2>3, <2>4 DEF EventsOf, Live
<1>4. QED
  BY <1>1, <1>2, <1>3, Writers

LEMMA WitnessStep ==
  ASSUME NoStall, TypeOK, BusyHasEvent, LossInv, [Next]_vars
  PROVE  Witnessed'
<1>0. /\ run \in [Worker -> Run] /\ job \in [Event -> JobState] /\ fate \in [Event -> Fates] /\ NoEvent \notin Event
      /\ About \in [Event -> Enquiry] /\ delivery \in [Enquiry -> Delivery]
  BY DeliveryAssumption DEF TypeOK, HandoffTypeOK
<1>1. SlotsHold /\ OneSlotEach /\ NoJobYet /\ Witnessed
  BY DEF LossInv
<1>2. \A q \in Enquiry : Pending(q)' => Pending(q) \/ \E e \in EventsOf(q) : Live(e)'
  BY <1>1, WhoMakesPending
<1> DEFINE Kept == \A e \in Event : Live(e) => Live(e)' \/ ~Pending(About[e])'
<1>3. SUFFICES Kept
  BY <1>1, <1>2, StaysWitnessed
<1>4. CASE UNCHANGED <<run, job, fate>>
  BY <1>4 DEF Live
<1>5. ASSUME NEW w \in Worker, Moves(w), run'[w].step # "finishing" PROVE Kept
  <2>1. UNCHANGED <<job, fate>>
    BY <1>5 DEF Moves, Load, Suppress, MarkRetrying, ProviderTakes, ProviderRefuses, RecordAccepted, RecordBounced,
                RecordDeferred, Record, ProviderTimesOut, QueryThrows, queueVars
  <2>2. \A v \in Worker : v # w => run'[v] = run[v]
    BY <1>0, <1>5, MovesAreGotos, GotoValues
  <2>3. QED
    BY <1>5, <2>1, <2>2 DEF Live
<1>6. ASSUME NEW w \in Worker, Moves(w), run'[w].step = "finishing" PROVE Kept
  <2>0. PICK e : e = run[w].event
    OBVIOUS
  <2>1. /\ run[w].step # "idle" /\ run'[w].event = e /\ e \in Event
        /\ \A v \in Worker : v # w => run'[v] = run[v]
    BY <1>0, <1>6, <2>0, MovesAreGotos, GotoValues DEF BusyHasEvent
  <2>2. UNCHANGED <<job, fate>>
    BY <1>6 DEF Moves, Load, Suppress, MarkRetrying, ProviderTakes, ProviderRefuses, RecordAccepted, RecordBounced,
                RecordDeferred, Record, ProviderTimesOut, QueryThrows, queueVars
  <2>3. delivery'[About[e]] \in {"providerAccepted", "suppressed", "failed"}
    <3> USE <1>0, GotoValues DEF Step
    <3>1. CASE Load(w)
      BY <1>6, <2>0, <3>1 DEF Load, Subject, rowVars
    <3>2. CASE Suppress(w) \/ RecordAccepted(w) \/ RecordBounced(w)
      BY <2>0, <2>1, <3>2 DEF Suppress, RecordAccepted, RecordBounced, Record, SetDelivery, Subject
    <3>3. CASE MarkRetrying(w) \/ RecordDeferred(w)
      BY <1>6, <3>3 DEF MarkRetrying, RecordDeferred, Record
    <3>4. CASE ProviderTakes(w) \/ ProviderRefuses(w) \/ ProviderTimesOut(w) \/ QueryThrows(w)
      BY <1>6, <3>4 DEF ProviderTakes, ProviderRefuses, ProviderTimesOut, QueryThrows
    <3>5. QED
      BY <1>6, <3>1, <3>2, <3>3, <3>4 DEF Moves
  <2>4. ~Pending(About[e])'
    BY <2>3 DEF Pending
  <2>5. ASSUME NEW f \in Event, f # e, Live(f) PROVE Live(f)'
    BY <2>1, <2>2, <2>5 DEF Live
  <2>6. QED
    BY <2>4, <2>5
<1>7. ASSUME NEW w \in Worker, Complete(w) \/ Fail(w) \/ Crash(w) PROVE Kept
  <2>0. PICK e : e = run[w].event
    OBVIOUS
  <2>1. run' = [run EXCEPT ![w] = Idle] /\ UNCHANGED fate
    BY <1>7 DEF Complete, Fail, Crash, queueVars
  <2>2. run'[w].event = NoEvent /\ \A v \in Worker : v # w => run'[v] = run[v]
    BY <1>0, <2>1, SlotIsCleared DEF Idle
  <2>3. \A f \in Event : f # e => job'[f] = job[f]
    BY <1>0, <1>7, <2>0 DEF Complete, Fail, Crash, queueVars
  <2>4. ASSUME NEW f \in Event, f # e, Live(f) PROVE Live(f)'
    BY <1>0, <2>0, <2>1, <2>2, <2>3, <2>4 DEF Live
  <2>5. ASSUME e \in Event, Live(e) PROVE Live(e)'
    <3>1. CASE Complete(w)
      <4>1. run[w].step = "finishing" /\ job[e] = "active"
        BY <1>1, <2>0, <3>1 DEF Complete, At, SlotsHold
      <4>2. fate[e] \in {"waiting", "abandoned"}
        BY <2>0, <2>5, <4>1 DEF Live
      <4>3. QED
        BY <2>1, <4>2 DEF Live
    <3>2. CASE Fail(w)
      BY <1>0, <1>1, <2>0, <2>1, <2>5, <3>2 DEF Fail, At, SlotsHold, Live
    <3>3. CASE Crash(w)
      BY <1>0, <2>0, <2>2, <2>1, <2>5, <3>3 DEF Crash, Live, queueVars
    <3>4. QED
      BY <1>7, <3>1, <3>2, <3>3
  <2>6. QED
    BY <2>4, <2>5
<1>8. ASSUME NEW w \in Worker, NEW e \in Event, Take(w, e) PROVE Kept
  <2>1. /\ job[e] = "waiting" /\ job' = [job EXCEPT ![e] = "active"] /\ UNCHANGED fate
        /\ run'[w].step = "loading" /\ run'[w].event = e
        /\ \A v \in Worker : v # w => run'[v] = run[v]
    BY <1>0, <1>8, SlotIsFilled DEF Take
  <2>2. \A v \in Worker : run[v].event # e
    BY <1>0, <1>1, <2>1 DEF SlotsHold
  <2>3. ASSUME NEW f \in Event, Live(f) PROVE Live(f)'
    BY <1>0, <2>1, <2>2, <2>3 DEF Live
  <2>4. QED
    BY <2>3
<1>9. ASSUME NEW q \in Enquiry, RouteChanges(q) \/ CheckSubmission(q) PROVE UNCHANGED <<run, job, fate>>
  BY <1>9 DEF RouteChanges, CheckSubmission, queueVars, workVars
<1>10. ASSUME NEW e \in Event, (\E q \in Enquiry : CommitSubmission(q, e)) \/ \E a \in Admin : CommitRetry(a, e)
      PROVE  Kept
  BY <1>0, <1>10 DEF CommitSubmission, CommitRetry, Accept, Becomes, workVars, Live
<1>11. ASSUME NEW a \in Admin,
             \/ CommitHandling(a) \/ RefuseStale(a)
             \/ \E q \in Enquiry : OpenRetry(a, q) \/ \E to \in Handling : OpenHandling(a, q, to)
      PROVE  UNCHANGED <<run, job, fate>>
  BY <1>11 DEF OpenRetry, OpenHandling, CommitHandling, RefuseStale, queueVars, workVars
<1>12. ASSUME NEW w \in Worker, NEW e \in Event, MarkDeliveryFailed(w, e) \/ ReportThrows(w, e)
      PROVE  UNCHANGED <<run, job, fate>>
  BY <1>12 DEF MarkDeliveryFailed, ReportThrows, queueVars
<1>13. ASSUME NEW w \in Worker PROVE ~LoseLock(w)
  BY DEF NoStall, LoseLock, Disturb
<1>14. ASSUME NEW e \in Event, Dispatch(e) \/ DispatchLate(e) \/ GiveUp(e) PROVE Kept
  <2>1. job[e] = "none" /\ UNCHANGED run /\ \A f \in Event : f # e => fate'[f] = fate[f] /\ job'[f] = job[f]
    BY <1>0, <1>1, <1>14 DEF Dispatch, DispatchLate, GiveUp, HandOver, Reprieve, Abandon, Becomes, NoJobYet, workVars
  <2>2. fate'[e] \in {"waiting", "abandoned"} \/ job'[e] = "waiting"
    BY <1>0, <1>14 DEF Dispatch, DispatchLate, GiveUp, HandOver, Reprieve, Abandon, Becomes
  <2>3. QED
    BY <2>1, <2>2 DEF Live
<1>15. ASSUME NEW e \in Event,
             DispatchAgain(e) \/ BackoffOver(e) \/ Expire(e) \/ Rerun(e) \/ Remove(e) \/ Recover(e)
      PROVE  Kept
  <2>1. /\ UNCHANGED <<run, fate>> /\ \A f \in Event : f # e => job'[f] = job[f]
        /\ \/ job'[e] \in {"waiting", "failed", "removed"}
           \/ job[e] = "completed" /\ job'[e] = "expired"
    BY <1>0, <1>15 DEF DispatchAgain, BackoffOver, Expire, Rerun, Remove, Recover, MoveJob, workVars
  <2>2. QED
    BY <2>1 DEF Live
<1>16. ASSUME UNCHANGED vars PROVE UNCHANGED <<run, job, fate>>
  BY <1>16 DEF vars, queueVars, workVars
<1> HIDE DEF Kept
<1>17. QED
  BY <1>4, <1>5, <1>6, <1>7, <1>8, <1>9, <1>10, <1>11, <1>12, <1>13, <1>14, <1>15, <1>16
  DEF Next, Submission, Administration, Queue, Work, Callback, Mishap, Moves

\* Nothing is lost silently (NoSilentLoss): unless a worker outlives its job
\* lock, an enquiry shown as pending has an event that is still being worked
\* on or that an operator can see, for any number of crashes, failed queries,
\* refusals, repeated enqueues, reruns and removals.
THEOREM NothingIsLostSilently == NoStall /\ Spec => []NoSilentLoss
<1> SUFFICES ASSUME NoStall PROVE Spec => []NoSilentLoss
  OBVIOUS
<1>1. Init => LossInv
  BY DeliveryAssumption
  DEF Init, HandoffInit, Idle, LossInv, SlotsHold, OneSlotEach, NoJobYet, Witnessed, Pending
<1>2. TypeOK /\ BusyHasEvent /\ LossInv /\ [Next]_vars => LossInv'
  BY HoldStep, WitnessStep DEF LossInv
<1>3. LossInv => NoSilentLoss
  BY DEF LossInv, Witnessed, NoSilentLoss, Live, UnderWay, Surfaced
<1>4. QED
  BY <1>1, <1>2, <1>3, TypeInvariant, PTL DEF Spec

-----------------------------------------------------------------------------
\* No unexplained duplicate, whatever is disturbed, lost locks included.  An
\* enquiry that a slot may still post owes a message: its acceptances and the
\* hidden ones exceed what was posted.

Busy(w) == run[w].step # "idle"

AloneUnlessNoted ==
  \A v, w \in Worker : Busy(v) /\ Busy(w) /\ Subject(v) = Subject(w) /\ Subject(w) \notin overlapped => v = w

\* A slot past the check of deliverEnquiry is the only one that could have
\* changed its outcome.
Committed == {"suppressing", "marking", "sending", "accepting", "bouncing", "deferring"}

StillOpen ==
  \A w \in Worker : run[w].step \in Committed /\ Subject(w) \notin overlapped =>
    delivery[Subject(w)] # "providerAccepted"

HandedOver ==
  /\ NoJobYet
  /\ \A w \in Worker : Busy(w) => fate[run[w].event] = "handed"

NotYetAsked ==
  \A q \in Enquiry : delivery[q] \in {"none", "checked"} => \A e \in EventsOf(q) : fate[e] = "unwritten"

Asked(q) == {e \in EventsOf(q) : fate[e] # "unwritten"}

Owing(q) ==
  /\ delivery[q] \notin {"none", "checked", "providerAccepted"}
  /\ \A w \in Worker : At(w, "accepting") => Subject(w) # q

CountedFor(q) ==
  /\ posted[q] <= Cardinality(Asked(q)) + hidden[q]
  /\ Owing(q) => posted[q] + 1 <= Cardinality(Asked(q)) + hidden[q]

Counted == \A q \in Enquiry : IsFiniteSet(Asked(q)) /\ (q \notin overlapped => CountedFor(q))

OnceInv == AloneUnlessNoted /\ StillOpen /\ HandedOver /\ NotYetAsked /\ Counted

\* Deliveries use the outbox as Handoff lets them, and an event is accepted
\* only together with its enquiry.
LEMMA FatesMove ==
  ASSUME TypeOK, [Next]_vars
  PROVE  \/ UNCHANGED fate
         \/ \E e \in Event : HandOver(e) \/ Abandon(e) \/ Reprieve(e)
         \/ \E e \in Event : Accept(e) /\ delivery'[About[e]] = "queued" /\ UNCHANGED <<posted, hidden>>
<1> USE DEF rowVars, queueVars, workVars, history
<1>0. About \in [Event -> Enquiry] /\ delivery \in [Enquiry -> Delivery]
  BY DeliveryAssumption DEF TypeOK
<1>1. ASSUME NEW q \in Enquiry, NEW e \in Event, CommitSubmission(q, e)
      PROVE  Accept(e) /\ delivery'[About[e]] = "queued" /\ UNCHANGED <<posted, hidden>>
  BY <1>0, <1>1 DEF CommitSubmission
<1>2. ASSUME NEW a \in Admin, NEW e \in Event, CommitRetry(a, e)
      PROVE  Accept(e) /\ delivery'[About[e]] = "queued" /\ UNCHANGED <<posted, hidden>>
  BY <1>0, <1>2 DEF CommitRetry
<1>3. ASSUME NEW e \in Event, Dispatch(e) \/ DispatchLate(e) \/ GiveUp(e)
      PROVE  HandOver(e) \/ Abandon(e) \/ Reprieve(e)
  BY <1>3 DEF Dispatch, DispatchLate, GiveUp
<1>4. ASSUME NEW q \in Enquiry, RouteChanges(q) \/ CheckSubmission(q) PROVE UNCHANGED fate
  BY <1>4 DEF RouteChanges, CheckSubmission
<1>5. ASSUME NEW a \in Admin,
             \/ CommitHandling(a) \/ RefuseStale(a)
             \/ \E q \in Enquiry : OpenRetry(a, q) \/ \E to \in Handling : OpenHandling(a, q, to)
      PROVE  UNCHANGED fate
  BY <1>5 DEF OpenRetry, OpenHandling, CommitHandling, RefuseStale
<1>6. ASSUME NEW e \in Event,
             \/ BackoffOver(e) \/ Recover(e) \/ DispatchAgain(e) \/ Expire(e) \/ Rerun(e) \/ Remove(e)
             \/ \E w \in Worker : Take(w, e)
      PROVE  UNCHANGED fate
  BY <1>6 DEF BackoffOver, Recover, Take, DispatchAgain, Expire, Rerun, Remove, MoveJob
<1>7. ASSUME NEW w \in Worker, Work(w) \/ Callback(w) \/ Mishap(w) PROVE UNCHANGED fate
  BY <1>7 DEF Work, Callback, Mishap, Load, Suppress, MarkRetrying, ProviderTakes, ProviderRefuses, RecordAccepted,
              RecordBounced, RecordDeferred, Record, Complete, Fail, MarkDeliveryFailed, ProviderTimesOut,
              QueryThrows, Crash, LoseLock, ReportThrows
<1>8. ASSUME UNCHANGED vars PROVE UNCHANGED fate
  BY <1>8 DEF vars
<1>9. QED
  BY <1>1, <1>2, <1>3, <1>4, <1>5, <1>6, <1>7, <1>8 DEF Next, Submission, Administration, Queue

\* What was written stays written, and what was handed over stays so.
LEMMA FatesStay ==
  ASSUME TypeOK, [Next]_vars
  PROVE  \A e \in Event : /\ fate[e] = "handed" => fate'[e] = "handed"
                          /\ fate[e] # "unwritten" => fate'[e] # "unwritten"
  BY FatesMove DEF TypeOK, HandoffTypeOK, HandOver, Abandon, Reprieve, Accept, Becomes

\* Only these steps count a message or hide an acceptance.
LEMMA CountersMove ==
  ASSUME [Next]_vars
  PROVE  /\ overlapped \subseteq overlapped'
         /\ \/ UNCHANGED <<posted, hidden>>
            \/ \E w \in Worker :
                 \/ ProviderTakes(w) \/ ProviderTimesOut(w)
                 \/ At(w, "accepting") /\ (QueryThrows(w) \/ Crash(w))
<1> USE DEF rowVars, queueVars, workVars, history
<1>1. ASSUME NEW q \in Enquiry, RouteChanges(q) \/ Submission(q) PROVE UNCHANGED <<posted, hidden, overlapped>>
  BY <1>1 DEF RouteChanges, Submission, CheckSubmission, CommitSubmission
<1>2. ASSUME NEW a \in Admin, Administration(a) PROVE UNCHANGED <<posted, hidden, overlapped>>
  BY <1>2 DEF Administration, OpenRetry, OpenHandling, CommitRetry, CommitHandling, RefuseStale
<1>3. ASSUME NEW e \in Event,
             \/ Dispatch(e) \/ BackoffOver(e) \/ Recover(e) \/ GiveUp(e) \/ DispatchLate(e)
             \/ DispatchAgain(e) \/ Expire(e) \/ Rerun(e) \/ Remove(e)
      PROVE  UNCHANGED <<posted, hidden, overlapped>>
  BY <1>3 DEF Dispatch, BackoffOver, Recover, GiveUp, DispatchLate, DispatchAgain, Expire, Rerun, Remove, MoveJob
<1>4. ASSUME NEW w \in Worker, NEW e \in Event, Take(w, e)
      PROVE  UNCHANGED <<posted, hidden>> /\ overlapped \subseteq overlapped'
  BY <1>4 DEF Take
<1>5. ASSUME NEW w \in Worker,
             \/ Load(w) \/ Suppress(w) \/ MarkRetrying(w) \/ ProviderRefuses(w) \/ RecordAccepted(w)
             \/ RecordBounced(w) \/ RecordDeferred(w) \/ Complete(w) \/ Fail(w) \/ Callback(w)
             \/ LoseLock(w) \/ \E e \in Event : ReportThrows(w, e)
      PROVE  UNCHANGED <<posted, hidden, overlapped>>
  BY <1>5 DEF Load, Suppress, MarkRetrying, ProviderRefuses, RecordAccepted, RecordBounced, RecordDeferred, Record,
              Complete, Fail, Callback, MarkDeliveryFailed, LoseLock, ReportThrows
<1>6. ASSUME NEW w \in Worker, ProviderTakes(w) \/ ProviderTimesOut(w) PROVE UNCHANGED overlapped
  BY <1>6 DEF ProviderTakes, ProviderTimesOut
<1>7. ASSUME NEW w \in Worker, QueryThrows(w) \/ Crash(w)
      PROVE  UNCHANGED overlapped /\ (UNCHANGED <<posted, hidden>> \/ At(w, "accepting"))
  BY <1>7 DEF QueryThrows, Crash, HideIf
<1>8. ASSUME UNCHANGED vars PROVE UNCHANGED <<posted, hidden, overlapped>>
  BY <1>8 DEF vars
<1>9. QED
  BY <1>1, <1>2, <1>3, <1>4, <1>5, <1>6, <1>7, <1>8 DEF Next, Queue, Work, Mishap

LEMMA AskedGrows ==
  ASSUME TypeOK, [Next]_vars, NEW q \in Enquiry, IsFiniteSet(Asked(q))
  PROVE  /\ IsFiniteSet(Asked(q)') /\ Cardinality(Asked(q)) \in Nat /\ Cardinality(Asked(q)') \in Nat
         /\ Cardinality(Asked(q)') >= Cardinality(Asked(q))
         /\ \A e \in EventsOf(q) : Accept(e) => Cardinality(Asked(q)') = Cardinality(Asked(q)) + 1
<1>0. fate \in [Event -> Fates]
  BY DEF TypeOK, HandoffTypeOK
<1>1. Cardinality(Asked(q)) \in Nat
  BY FS_CardinalityType
<1>2. ASSUME NEW e \in EventsOf(q), Accept(e)
      PROVE  /\ IsFiniteSet(Asked(q)') /\ Cardinality(Asked(q)') = Cardinality(Asked(q)) + 1
  <2>1. e \notin Asked(q) /\ Asked(q)' = Asked(q) \cup {e}
    BY <1>0, <1>2 DEF Accept, Becomes, Asked, EventsOf
  <2>2. QED
    BY <2>1, FS_AddElement
<1>3. CASE \A e \in EventsOf(q) : ~Accept(e)
  <2>1. Asked(q)' = Asked(q)
    BY <1>0, <1>3, FatesMove DEF HandOver, Abandon, Reprieve, Accept, Becomes, Asked, EventsOf
  <2>2. QED
    BY <1>1, <1>3, <2>1
<1>4. QED
  BY <1>1, <1>2, <1>3

LEMMA AloneStep ==
  ASSUME TypeOK, BusyHasEvent, AloneUnlessNoted, [Next]_vars
  PROVE  AloneUnlessNoted'
<1>0. run \in [Worker -> Run] /\ overlapped \subseteq overlapped'
  BY CountersMove DEF TypeOK
<1>1. ASSUME \A w \in Worker : Busy(w)' => Busy(w) /\ Subject(w)' = Subject(w) PROVE AloneUnlessNoted'
  BY <1>0, <1>1 DEF AloneUnlessNoted
<1>2. ASSUME NEW w \in Worker, Moves(w) \/ LoseLock(w) PROVE AloneUnlessNoted'
  <2>1. CASE Moves(w)
    BY <1>0, <1>1, <2>1, MovesAreGotos, GotoValues DEF Busy, Subject
  <2>2. CASE LoseLock(w)
    BY <1>0, <1>1, <2>2, LockIsLost DEF Busy, Subject
  <2>3. QED
    BY <1>2, <2>1, <2>2
<1>3. ASSUME NEW w \in Worker, Complete(w) \/ Fail(w) \/ Crash(w) PROVE AloneUnlessNoted'
  <2>1. run' = [run EXCEPT ![w] = Idle]
    BY <1>3 DEF Complete, Fail, Crash
  <2>2. QED
    BY <1>0, <1>1, <2>1, SlotIsCleared DEF Busy, Subject, Idle
<1>4. ASSUME NEW w \in Worker, NEW e \in Event, Take(w, e) PROVE AloneUnlessNoted'
  <2>1. /\ Subject(w)' = About[e] /\ \A v \in Worker : v # w => run'[v] = run[v]
        /\ overlapped' = overlapped \cup {q \in {About[e]} : Occupied(q)}
    BY <1>0, <1>4, SlotIsFilled DEF Subject, Take
  <2>2. ASSUME NEW v \in Worker, v # w, Busy(v)', Subject(v)' = About[e] PROVE About[e] \in overlapped'
    BY <2>1, <2>2 DEF Busy, Subject, Occupied, At
  <2>3. QED
    BY <1>0, <2>1, <2>2 DEF AloneUnlessNoted, Busy, Subject
<1>5. CASE UNCHANGED run
  BY <1>1, <1>5 DEF Busy, Subject
<1>6. QED
  BY <1>2, <1>3, <1>4, <1>5, SlotSteps

\* A slot is committed because it was, or because it has just found the
\* enquiry open.
LEMMA WhoCommits ==
  ASSUME TypeOK, [Next]_vars, NEW w \in Worker, run'[w].step \in Committed
  PROVE  /\ run'[w].event = run[w].event
         /\ \/ run[w].step \in Committed /\ ~RecordAccepted(w)
            \/ Busy(w) /\ delivery[Subject(w)] # "providerAccepted" /\ UNCHANGED delivery
<1>0. run \in [Worker -> Run]
  BY DEF TypeOK
<1>1. CASE run'[w] = run[w]
  BY <1>0, <1>1, GotoValues DEF RecordAccepted, Record, At, Step, Committed
<1>2. CASE Moves(w)
  <2>1. run[w].step # "idle" /\ run'[w].event = run[w].event
    BY <1>0, <1>2, MovesAreGotos, GotoValues
  <2>2. CASE Load(w)
    BY <1>0, <2>1, <2>2, GotoValues DEF Load, rowVars, Busy, Step, Committed
  <2>3. CASE ~Load(w)
    <3>1. run[w].step \in {"suppressing", "marking", "sending", "accepting", "bouncing", "deferring", "loading"}
      BY <1>2, <2>3 DEF Moves, Suppress, MarkRetrying, ProviderTakes, ProviderRefuses, RecordAccepted, RecordBounced,
                        RecordDeferred, Record, ProviderTimesOut, QueryThrows, At
    <3>2. run[w].step # "loading"
      BY <1>0, <1>2, <2>3, GotoValues
      DEF Moves, Suppress, MarkRetrying, ProviderTakes, ProviderRefuses, RecordAccepted, RecordBounced,
          RecordDeferred, Record, ProviderTimesOut, QueryThrows, At, Step, Committed
    <3>3. ~RecordAccepted(w)
      BY <1>0, GotoValues DEF RecordAccepted, Record, Step, Committed
    <3>4. QED
      BY <2>1, <3>1, <3>2, <3>3 DEF Committed
  <2>4. QED
    BY <2>2, <2>3
<1>3. CASE Complete(w) \/ Fail(w) \/ Crash(w)
  BY <1>0, <1>3, SlotIsCleared DEF Complete, Fail, Crash, Idle, Committed
<1>4. CASE LoseLock(w)
  BY <1>0, <1>4, LockIsLost, GotoValues DEF LoseLock, RecordAccepted, Record, Step, Committed
<1>5. ASSUME NEW e \in Event, Take(w, e) PROVE FALSE
  BY <1>0, <1>5, SlotIsFilled DEF Committed
<1>6. ASSUME NEW v \in Worker, v # w, Moves(v) \/ LoseLock(v) \/ Complete(v) \/ Fail(v) \/ Crash(v) \/ \E e \in Event : Take(v, e)
      PROVE  run'[w] = run[w]
  BY <1>0, <1>6, MovesAreGotos, GotoValues, LockIsLost, SlotIsFilled DEF Complete, Fail, Crash
<1>7. QED
  BY <1>1, <1>2, <1>3, <1>4, <1>5, <1>6, SlotSteps

LEMMA OpenStep ==
  ASSUME TypeOK, BusyHasEvent, AloneUnlessNoted, StillOpen, [Next]_vars
  PROVE  StillOpen'
<1>1. SUFFICES ASSUME NEW w \in Worker, run'[w].step \in Committed, Subject(w)' \notin overlapped'
               PROVE  delivery'[Subject(w)'] # "providerAccepted"
  BY DEF StillOpen
<1> DEFINE q == Subject(w)
<1>2. /\ Subject(w)' = q /\ q \notin overlapped
      /\ \/ run[w].step \in Committed /\ ~RecordAccepted(w)
         \/ Busy(w) /\ delivery[q] # "providerAccepted" /\ UNCHANGED delivery
  BY <1>1, WhoCommits, CountersMove DEF Subject
<1>3. CASE UNCHANGED delivery
  BY <1>2, <1>3 DEF StillOpen
<1>4. CASE run[w].step \in Committed /\ ~RecordAccepted(w)
  <2>1. q \in Enquiry /\ delivery[q] # "providerAccepted" /\ Busy(w)
    BY <1>2, <1>4, DeliveryAssumption DEF StillOpen, BusyHasEvent, Subject, Busy, Committed
  <2>2. ASSUME NEW v \in Worker, Subject(v) = q, RecordAccepted(v) PROVE FALSE
    <3>1. Busy(v)
      BY <2>2 DEF RecordAccepted, Record, At, Busy
    <3>2. v = w
      BY <1>2, <2>1, <2>2, <3>1 DEF AloneUnlessNoted
    <3>3. QED
      BY <1>4, <2>2, <3>2
  <2>3. QED
    BY <1>2, <2>1, <2>2, Writers
<1>5. QED
  BY <1>2, <1>3, <1>4

LEMMA HandedStep ==
  ASSUME TypeOK, BusyHasEvent, HandedOver, [Next]_vars
  PROVE  HandedOver'
<1>0. /\ run \in [Worker -> Run] /\ job \in [Event -> JobState] /\ fate \in [Event -> Fates]
      /\ \A e \in Event : fate[e] = "handed" => fate'[e] = "handed"
  BY FatesStay DEF TypeOK, HandoffTypeOK
<1> DEFINE Handed(e) == fate'[e] = "handed"
<1>1. ASSUME NEW e \in Event, job'[e] # job[e], job'[e] # "none" PROVE Handed(e)
  <2> USE DEF queueVars
  <2>1. CASE job[e] # "none"
    BY <1>0, <2>1 DEF HandedOver, NoJobYet
  <2>2. ASSUME NEW f \in Event, Dispatch(f) \/ DispatchLate(f) \/ DispatchAgain(f) PROVE Handed(e)
    BY <1>0, <1>1, <2>2 DEF Dispatch, DispatchLate, DispatchAgain, HandOver, Reprieve, Becomes
  <2>3. ASSUME NEW f \in Event, BackoffOver(f) \/ Expire(f) \/ Rerun(f) \/ Remove(f) \/ Recover(f)
        PROVE  Handed(e)
    <3>1. job[f] # "none" /\ \E s : job' = [job EXCEPT ![f] = s]
      BY <2>3 DEF BackoffOver, Expire, Rerun, Remove, Recover, MoveJob
    <3>2. QED
      BY <1>0, <1>1, <2>1, <3>1
  <2>4. ASSUME NEW w \in Worker, NEW f \in Event, Take(w, f) PROVE Handed(e)
    BY <1>0, <1>1, <2>1, <2>4 DEF Take
  <2>5. ASSUME NEW w \in Worker, Complete(w) \/ Fail(w) PROVE Handed(e)
    <3>1. Busy(w) /\ e = run[w].event
      BY <1>0, <1>1, <2>5 DEF Complete, Fail, At, Busy
    <3>2. QED
      BY <1>0, <3>1 DEF HandedOver
  <2>6. ASSUME NEW q \in Enquiry, RouteChanges(q) \/ Submission(q) PROVE FALSE
    BY <1>1, <2>6 DEF RouteChanges, Submission, CheckSubmission, CommitSubmission
  <2>7. ASSUME NEW a \in Admin, Administration(a) PROVE FALSE
    BY <1>1, <2>7 DEF Administration, OpenRetry, OpenHandling, CommitRetry, CommitHandling, RefuseStale
  <2>8. ASSUME NEW w \in Worker, Moves(w) \/ Crash(w) \/ LoseLock(w) \/ \E f \in Event : ReportThrows(w, f) \/ MarkDeliveryFailed(w, f)
        PROVE  FALSE
    BY <1>1, <2>8 DEF Moves, Load, Suppress, MarkRetrying, ProviderTakes, ProviderRefuses, RecordAccepted,
                      RecordBounced, RecordDeferred, Record, ProviderTimesOut, QueryThrows, Crash, LoseLock,
                      ReportThrows, MarkDeliveryFailed
  <2>9. ASSUME (\E f \in Event : GiveUp(f)) \/ UNCHANGED vars PROVE FALSE
    BY <1>1, <2>9 DEF GiveUp, vars
  <2>10. QED
    BY <2>2, <2>3, <2>4, <2>5, <2>6, <2>7, <2>8, <2>9
    DEF Next, Queue, Work, Callback, Mishap, Moves
<1>2. NoJobYet'
  BY <1>0, <1>1 DEF HandedOver, NoJobYet
<1>3. ASSUME NEW w \in Worker, Busy(w)' PROVE Handed(run'[w].event)
  <2>1. CASE Busy(w) /\ run'[w].event = run[w].event
    BY <1>0, <2>1 DEF HandedOver, BusyHasEvent, Busy
  <2>2. ASSUME NEW v \in Worker, Moves(v) \/ LoseLock(v) PROVE Busy(w) /\ run'[w].event = run[w].event
    BY <1>0, <1>3, <2>2, MovesAreGotos, GotoValues, LockIsLost DEF Busy
  <2>3. ASSUME NEW v \in Worker, Complete(v) \/ Fail(v) \/ Crash(v) PROVE Busy(w) /\ run'[w].event = run[w].event
    <3>1. run' = [run EXCEPT ![v] = Idle]
      BY <2>3 DEF Complete, Fail, Crash
    <3>2. QED
      BY <1>0, <1>3, <3>1, SlotIsCleared DEF Busy, Idle
  <2>4. ASSUME NEW v \in Worker, NEW e \in Event, Take(v, e) PROVE Handed(run'[w].event)
    <3>1. job[e] = "waiting"
      BY <2>4 DEF Take
    <3>2. Handed(e)
      BY <1>0, <3>1 DEF HandedOver, NoJobYet
    <3>3. QED
      BY <1>0, <1>3, <2>1, <2>4, <3>2, SlotIsFilled DEF Busy
  <2>5. QED
    BY <1>3, <2>1, <2>2, <2>3, <2>4, SlotSteps DEF Busy
<1>4. QED
  BY <1>2, <1>3 DEF HandedOver

LEMMA NotYetAskedStep ==
  ASSUME TypeOK, NotYetAsked, [Next]_vars
  PROVE  NotYetAsked'
<1>1. SUFFICES ASSUME NEW q \in Enquiry, delivery'[q] \in {"none", "checked"}, NEW e \in EventsOf(q)
               PROVE  fate'[e] = "unwritten"
  BY DEF NotYetAsked, EventsOf
<1>2. delivery[q] \in {"none", "checked"}
  BY <1>1, Writers
<1>3. e \in Event /\ About[e] = q /\ fate[e] = "unwritten" /\ fate \in [Event -> Fates]
  BY <1>1, <1>2 DEF NotYetAsked, EventsOf, TypeOK, HandoffTypeOK
<1>4. QED
  BY <1>1, <1>3, FatesMove DEF HandOver, Abandon, Reprieve, Accept, Becomes

\* A slot that can still send owes the message.
LEMMA SenderOwes ==
  ASSUME TypeOK, BusyHasEvent, OnceInv, NEW w \in Worker, At(w, "sending"), Subject(w) \notin overlapped
  PROVE  Owing(Subject(w))
<1> DEFINE q == Subject(w)
<1>1. Busy(w) /\ run[w].event \in EventsOf(q) /\ q \in Enquiry
  BY DeliveryAssumption DEF At, Busy, BusyHasEvent, EventsOf, Subject
<1>2. delivery[q] \notin {"none", "checked"}
  BY <1>1 DEF OnceInv, HandedOver, NotYetAsked, EventsOf
<1>3. delivery[q] # "providerAccepted"
  BY DEF OnceInv, StillOpen, At, Committed
<1>4. ASSUME NEW v \in Worker, At(v, "accepting"), Subject(v) = q PROVE FALSE
  <2>1. v = w
    BY <1>1, <1>4 DEF OnceInv, AloneUnlessNoted, At, Busy
  <2>2. QED
    BY <1>4, <2>1 DEF At
<1>5. QED
  BY <1>2, <1>3, <1>4 DEF Owing

\* An enquiry begins to owe a message when it is asked for, or when an
\* acceptance is hidden.
LEMMA WhoOwes ==
  ASSUME TypeOK, BusyHasEvent, OnceInv, [Next]_vars,
         NEW q \in Enquiry, q \notin overlapped, Owing(q)', ~Owing(q)
  PROVE  \/ \E e \in EventsOf(q) : Accept(e)
         \/ \E w \in Worker : Subject(w) = q /\ At(w, "accepting") /\ (QueryThrows(w) \/ Crash(w))
<1>0. run \in [Worker -> Run]
  BY DEF TypeOK
<1>1. CASE delivery[q] \in {"none", "checked", "providerAccepted"}
  <2>1. delivery'[q] # delivery[q] /\ delivery'[q] \notin {"none", "checked", "providerAccepted"}
    BY <1>1 DEF Owing
  <2>2. ASSUME NEW w \in Worker, Subject(w) = q,
               Suppress(w) \/ RecordBounced(w) \/ MarkRetrying(w) \/ RecordDeferred(w)
        PROVE  FALSE
    <3>1. run[w].step \in Committed /\ Busy(w)
      BY <2>2 DEF Suppress, RecordBounced, MarkRetrying, RecordDeferred, Record, At, Committed, Busy
    <3>2. run[w].event \in EventsOf(q) /\ fate[run[w].event] = "handed"
      BY <2>2, <3>1 DEF OnceInv, HandedOver, BusyHasEvent, Busy, EventsOf, Subject
    <3>3. QED
      BY <1>1, <2>2, <3>1, <3>2 DEF OnceInv, StillOpen, NotYetAsked
  <2>3. QED
    BY <1>1, <2>1, <2>2, Writers DEF EventsOf
<1>2. ASSUME NEW w \in Worker, At(w, "accepting"), Subject(w) = q
      PROVE  \E v \in Worker : Subject(v) = q /\ At(v, "accepting") /\ (QueryThrows(v) \/ Crash(v))
  <2>1. run'[w].step # "accepting" \/ run'[w].event # run[w].event
    BY <1>2 DEF Owing, At, Subject
  <2>2. CASE RecordAccepted(w)
    <3>1. delivery'[q] = "providerAccepted"
      BY <1>2, <2>2 DEF RecordAccepted, Record, SetDelivery, TypeOK
    <3>2. QED
      BY <3>1 DEF Owing
  <2>3. CASE Moves(w) /\ ~RecordAccepted(w)
    BY <1>2, <2>3 DEF Moves, Load, Suppress, MarkRetrying, ProviderTakes, ProviderRefuses, RecordBounced,
                      RecordDeferred, Record, ProviderTimesOut, At
  <2>4. CASE LoseLock(w)
    BY <1>0, <1>2, <2>1, <2>4, LockIsLost DEF At
  <2>5. CASE Complete(w) \/ Fail(w) \/ Crash(w) \/ \E e \in Event : Take(w, e)
    BY <1>2, <2>5 DEF Complete, Fail, Take, At
  <2>6. ASSUME NEW v \in Worker, v # w,
               Moves(v) \/ LoseLock(v) \/ Complete(v) \/ Fail(v) \/ Crash(v) \/ \E e \in Event : Take(v, e)
        PROVE  FALSE
    <3>1. run'[w] = run[w]
      BY <1>0, <2>6, MovesAreGotos, GotoValues, LockIsLost, SlotIsFilled DEF Complete, Fail, Crash
    <3>2. QED
      BY <1>2, <2>1, <3>1 DEF At
  <2>7. ~UNCHANGED run
    BY <1>2, <2>1 DEF At
  <2>8. QED
    BY <2>2, <2>3, <2>4, <2>5, <2>6, <2>7, SlotSteps
<1>3. QED
  BY <1>1, <1>2 DEF Owing

LEMMA CountedStep ==
  ASSUME TypeOK, BusyHasEvent, OnceInv, [Next]_vars
  PROVE  Counted'
<1>0. /\ run \in [Worker -> Run] /\ posted \in [Enquiry -> Nat] /\ hidden \in [Enquiry -> Nat]
      /\ overlapped \subseteq overlapped' /\ Counted
  BY CountersMove DEF TypeOK, OnceInv
<1>1. ASSUME NEW q \in Enquiry PROVE IsFiniteSet(Asked(q)')
  BY <1>0, AskedGrows DEF Counted
<1>2. ASSUME NEW q \in Enquiry, q \notin overlapped' PROVE CountedFor(q)'
  <2> DEFINE n == Cardinality(Asked(q))
             N == Cardinality(Asked(q)')
  <2>1. /\ n \in Nat /\ N \in Nat /\ N >= n
        /\ \A e \in EventsOf(q) : Accept(e) => N = n + 1
    BY <1>0, AskedGrows DEF Counted
  <2>2. /\ q \notin overlapped /\ posted[q] \in Nat /\ hidden[q] \in Nat
        /\ posted[q] <= n + hidden[q]
        /\ Owing(q) => posted[q] + 1 <= n + hidden[q]
    BY <1>0, <1>2 DEF Counted, CountedFor
  <2> HIDE DEF n, N
  <2>3. SUFFICES /\ posted'[q] <= N + hidden'[q]
                 /\ Owing(q)' => posted'[q] + 1 <= N + hidden'[q]
    BY DEF CountedFor, N
  <2>4. CASE \E e \in EventsOf(q) : Accept(e)
    <3>1. posted'[q] = posted[q] /\ hidden'[q] = hidden[q]
      <4>1. PICK e \in EventsOf(q) : Accept(e)
        BY <2>4
      <4>2. e \in Event /\ fate[e] = "unwritten" /\ fate'[e] = "waiting"
        BY <4>1 DEF EventsOf, Accept, Becomes, TypeOK, HandoffTypeOK
      <4>3. ~UNCHANGED fate /\ \A f \in Event : ~(HandOver(f) \/ Abandon(f) \/ Reprieve(f))
        BY <4>2 DEF HandOver, Abandon, Reprieve, Becomes, TypeOK, HandoffTypeOK
      <4>4. QED
        BY <4>3, FatesMove
    <3>2. QED
      BY <2>1, <2>2, <2>4, <3>1
  <2>5. ASSUME NEW w \in Worker, Subject(w) = q, ProviderTakes(w) \/ ProviderTimesOut(w)
        PROVE  /\ posted'[q] <= N + hidden'[q]
               /\ Owing(q)' => posted'[q] + 1 <= N + hidden'[q]
    <3>1. At(w, "sending") /\ posted'[q] = posted[q] + 1
      BY <1>0, <2>5 DEF ProviderTakes, ProviderTimesOut
    <3>2. Owing(q)
      BY <2>2, <2>5, <3>1, SenderOwes
    <3>3. CASE ProviderTakes(w)
      <4>1. hidden' = hidden /\ run'[w].step = "accepting" /\ run'[w].event = run[w].event
        BY <1>0, <3>3, GotoValues DEF ProviderTakes, Step
      <4>2. ~Owing(q)'
        BY <2>5, <4>1 DEF Owing, At, Subject
      <4>3. QED
        BY <2>1, <2>2, <3>1, <3>2, <4>1, <4>2
    <3>4. CASE ProviderTimesOut(w)
      <4>1. hidden'[q] = hidden[q] + 1
        BY <1>0, <2>5, <3>4 DEF ProviderTimesOut
      <4>2. QED
        BY <2>1, <2>2, <3>1, <3>2, <4>1
    <3>5. QED
      BY <2>5, <3>3, <3>4
  <2>6. ASSUME NEW w \in Worker, Subject(w) = q, At(w, "accepting"), QueryThrows(w) \/ Crash(w)
        PROVE  /\ posted'[q] <= N + hidden'[q]
               /\ Owing(q)' => posted'[q] + 1 <= N + hidden'[q]
    <3>1. posted'[q] = posted[q] /\ hidden'[q] = hidden[q] + 1
      BY <1>0, <2>6 DEF QueryThrows, Crash, HideIf
    <3>2. QED
      BY <2>1, <2>2, <3>1
  <2>7. ASSUME posted'[q] = posted[q], hidden'[q] = hidden[q], Owing(q)' => Owing(q)
        PROVE  /\ posted'[q] <= N + hidden'[q]
               /\ Owing(q)' => posted'[q] + 1 <= N + hidden'[q]
    BY <2>1, <2>2, <2>7
  <2>8. CASE /\ ~\E e \in EventsOf(q) : Accept(e)
             /\ ~\E w \in Worker : /\ Subject(w) = q
                                   /\ \/ ProviderTakes(w) \/ ProviderTimesOut(w)
                                      \/ At(w, "accepting") /\ (QueryThrows(w) \/ Crash(w))
    <3>1. Owing(q)' => Owing(q)
      BY <2>2, <2>8, WhoOwes
    <3>2. posted'[q] = posted[q] /\ hidden'[q] = hidden[q]
      <4>1. ASSUME NEW w \in Worker, Subject(w) # q,
                   \/ ProviderTakes(w) \/ ProviderTimesOut(w)
                   \/ At(w, "accepting") /\ (QueryThrows(w) \/ Crash(w))
            PROVE  posted'[q] = posted[q] /\ hidden'[q] = hidden[q]
        BY <1>0, <4>1 DEF ProviderTakes, ProviderTimesOut, QueryThrows, Crash, HideIf
      <4>2. QED
        BY <2>8, <4>1, CountersMove
    <3>3. QED
      BY <2>7, <3>1, <3>2
  <2>9. QED
    BY <2>4, <2>5, <2>6, <2>8
<1>3. QED
  BY <1>1, <1>2 DEF Counted

\* A message goes out at most once for each accepted request or retry, and once
\* more for each acceptance a disturbance kept from being recorded, as long as
\* no two slots work on the enquiry (NoUnexplainedDuplicate): for any crashes,
\* failed queries, lost locks, repeated enqueues and reruns.
THEOREM NoDuplicateUnexplained == Spec => []NoUnexplainedDuplicate
<1>1. Init => OnceInv
  <2> SUFFICES ASSUME Init PROVE OnceInv
    OBVIOUS
  <2>1. \A q \in Enquiry : Asked(q) = {} /\ ~Owing(q)
    BY DEF Init, HandoffInit, Asked, EventsOf, Owing
  <2>2. Counted
    <3>1. IsFiniteSet({}) /\ Cardinality({}) = 0
      BY FS_EmptySet
    <3>2. \A q \in Enquiry : posted[q] = 0 /\ hidden[q] = 0
      BY DEF Init
    <3>3. QED
      BY <2>1, <3>1, <3>2 DEF Counted, CountedFor
  <2>3. AloneUnlessNoted /\ StillOpen /\ HandedOver /\ NotYetAsked
    BY DEF Init, HandoffInit, Idle, AloneUnlessNoted, StillOpen, HandedOver, NoJobYet, NotYetAsked, Busy, Committed,
           EventsOf
  <2>4. QED
    BY <2>2, <2>3 DEF OnceInv
<1>2. TypeOK /\ BusyHasEvent /\ OnceInv /\ [Next]_vars => OnceInv'
  BY AloneStep, OpenStep, HandedStep, NotYetAskedStep, CountedStep DEF OnceInv
<1>3. OnceInv => NoUnexplainedDuplicate
  BY DEF OnceInv, Counted, CountedFor, Asked, NoUnexplainedDuplicate
<1>4. QED
  BY <1>1, <1>2, <1>3, TypeInvariant, PTL DEF Spec

\* An event of an enquiry meets with nothing but what the outbox promises: the
\* deliveries implement the safety part of Handoff.
THEOREM DeliveriesKeepTheHandoff == Spec => HandoffSafety
<1>1. Init => HandoffInit
  BY DEF Init
<1>2. TypeOK /\ [Next]_vars => [HandoffNext]_fate
  BY FatesMove DEF HandoffNext
<1>3. QED
  BY <1>1, <1>2, TypeInvariant, PTL DEF Spec, HandoffSafety

=============================================================================
