\* Two administrators, a worker that outlives its lock, jobs that come back.
SPECIFICATION Spec
CONSTANTS
  q1 = q1
  e1 = e1
  e2 = e2
  w1 = w1
  w2 = w2
  a1 = a1
  a2 = a2
  NoEvent = NoEvent
  Enquiry <- MCEnquiry
  Event <- MCEvent
  About <- MCAbout
  Worker <- MCWorker
  Admin <- MCTwoAdmins
  MaxAttempts = 1
  MaxVersion = 2
  Disturbances = {"crash", "stall", "database", "ambiguous", "reenqueue", "rerun"}
  MaxDisturbances = 2
SYMMETRY SlotsAndAdmins
INVARIANTS
  AcceptedIsHonest
  NoUnexplainedDuplicate
PROPERTIES
  HandlingIsAsAudited
CHECK_DEADLOCK FALSE
