\* Two articles with their addresses, an editor, the publisher and an author who may be deactivated.
SPECIFICATION FairSpec
CONSTANTS
  p1 = p1
  p2 = p2
  s1 = s1
  s2 = s2
  s3 = s3
  long = long
  stub = stub
  a1 = a1
  e1 = e1
  w1 = w1
  None = None
  Article <- MCArticle
  Slug <- MCSlug
  Text <- MCText
  Complete <- MCComplete
  Term <- MCTerm
  Editor <- MCEditor
  Worker <- MCWorker
  MaxFeatured = 1
  MaxTime = 1
  MaxVersion <- MCMaxVersion
INVARIANTS
  TypeOK
  EveryChangeIsAnnounced
  OldAddressesLead
PROPERTIES
  NothingOverwrittenUnseen
  PublishedAsApproved
  DueIsSettled
CHECK_DEADLOCK FALSE
