\* One editor gives an article the address that another has left.
SPECIFICATION Spec
CONSTANTS
  p1 = p1
  p2 = p2
  s1 = s1
  s2 = s2
  s3 = s3
  long = long
  stub = stub
  a1 = a1
  e1 = e1
  w1 = w1
  None = None
  Article <- MCArticle
  Slug <- MCSlug
  Text <- MCText
  Complete <- MCComplete
  Term <- MCTerm
  Editor <- MCEditor
  Worker <- MCWorker
  MaxFeatured = 1
  MaxTime = 0
  MaxVersion <- MCMaxVersion
INVARIANTS
  LiveArticleIsServed
CHECK_DEADLOCK FALSE
