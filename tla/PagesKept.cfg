\* Two editors and the publisher on two pages, two addresses and that of a system page.
SPECIFICATION Spec
CONSTANTS
  p1 = p1
  p2 = p2
  s1 = s1
  s2 = s2
  terms = terms
  long = long
  stub = stub
  e1 = e1
  e2 = e2
  w1 = w1
  None = None
  Gone = Gone
  Page <- MCPage
  Slug <- MCSlug
  System <- MCSystem
  Text <- MCText
  Complete <- MCComplete
  Editor <- MCEditor
  Worker <- MCWorker
  MaxRevisions = 1
  MaxTime = 1
  MaxVersion <- MCMaxVersion
SYMMETRY Alike
INVARIANTS
  TypeOK
  VisitorsFindPages
PROPERTIES
  NothingOverwrittenUnseen
  EarlierVersionsAreKept
CHECK_DEADLOCK FALSE
