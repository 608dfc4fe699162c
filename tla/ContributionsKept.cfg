\* Two moderators who decide on what they loaded, two visitors with one key.
SPECIFICATION Spec
CONSTANTS
  x1 = x1
  x2 = x2
  x3 = x3
  b1 = b1
  p1 = p1
  m1 = m1
  m2 = m2
  v1 = v1
  v2 = v2
  k1 = k1
  None = None
  Row <- MCRow
  Business <- MCBusiness
  Post <- MCPost
  Stars <- MCStars
  Moderator <- MCModerator
  Visitor <- MCVisitor
  Key <- MCKey
  MaxBegun = 2
  MaxDecisions = 2
SYMMETRY Alike
INVARIANTS
  TypeOK
  RatingIsExact
  DuplicatesExplained
PROPERTIES
  NothingDecidedUnseen
CHECK_DEADLOCK FALSE
