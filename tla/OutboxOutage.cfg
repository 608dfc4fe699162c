\* One replica, no crash, a queue whose outage ends: events are still lost.
SPECIFICATION OutageSpec
CONSTANTS
  e1 = e1
  e2 = e2
  d1 = d1
  d2 = d2
  Event <- MCEvent
  Consumed <- MCConsumed
  Dispatcher <- MCOneReplica
  BatchSize = 1
  MaxDispatchAttempts = 5
  MaxFaults = 0
PROPERTIES
  OutageOnlyDelays
CHECK_DEADLOCK FALSE
