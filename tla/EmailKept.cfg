\* Two attempts, three events in two requests at once.
SPECIFICATION Spec
CONSTANTS
  r1 = r1
  r2 = r2
  letter = letter
  invitation = invitation
  g1 = g1
  g2 = g2
  e1 = e1
  e2 = e2
  e3 = e3
  h1 = h1
  h2 = h2
  None = None
  Row <- MCRow
  Enquiry <- MCEnquiry
  Auth <- MCAuth
  Message <- MCMessage
  Event <- MCEvent
  Verdict <- MCVerdict
  Handler <- MCHandler
SYMMETRY Alike
INVARIANTS
  TypeOK
  StatusIsMostMeaningful
  LogIsTrue
CHECK_DEADLOCK FALSE
