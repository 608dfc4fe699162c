\* Two replicas, an event with a consumer and one without, a fault anywhere.
SPECIFICATION FairSpec
CONSTANTS
  e1 = e1
  e2 = e2
  d1 = d1
  d2 = d2
  Event <- MCEvent
  Consumed <- MCConsumed
  Dispatcher <- MCDispatcher
  BatchSize = 1
  MaxDispatchAttempts = 2
  MaxFaults = 1
INVARIANTS
  TypeOK
  AttemptEnqueuedOnce
PROPERTIES
  ClaimedOnlyWhenDue
  KeepsHandoff
  Settles
  NoneWaitsForEver
CHECK_DEADLOCK FALSE
