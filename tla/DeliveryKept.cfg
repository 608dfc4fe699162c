\* Fair workers, queue and dispatchers; an enquiry and one retry of it; any disturbance but a lost lock.
SPECIFICATION FairSpec
CONSTANTS
  q1 = q1
  e1 = e1
  e2 = e2
  w1 = w1
  w2 = w2
  a1 = a1
  a2 = a2
  NoEvent = NoEvent
  Enquiry <- MCEnquiry
  Event <- MCEvent
  About <- MCAbout
  Worker <- MCWorker
  Admin <- MCAdmin
  MaxAttempts = 2
  MaxVersion = 2
  Disturbances = {"crash", "database", "report", "ambiguous", "abandon", "reenqueue", "rerun", "remove"}
  MaxDisturbances = 2
INVARIANTS
  TypeOK
  NoSilentLoss
PROPERTIES
  EventuallyAccountedFor
CHECK_DEADLOCK FALSE
