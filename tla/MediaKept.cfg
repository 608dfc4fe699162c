\* An image and a document, two requests and two jobs at once, any disturbance.
SPECIFICATION Spec
CONSTANTS
  image = image
  document = document
  o1 = o1
  o2 = o2
  w1 = w1
  w2 = w2
  d1 = d1
  d2 = d2
  None = None
  Image <- MCImage
  Document <- MCDocument
  Object <- MCObject
  Renditions = 1
  Worker <- MCWorker
  Desk <- MCDesk
  Disturbances = {"crash", "database", "storage", "again"}
  MaxDisturbances = 1
SYMMETRY Alike
INVARIANTS
  TypeOK
  ReadyIsWhole
  SubmittedIsKept
CHECK_DEADLOCK FALSE
