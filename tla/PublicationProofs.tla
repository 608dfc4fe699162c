------------------------- MODULE PublicationProofs -------------------------
(***************************************************************************)
(* Proofs about Publication, for any sets of articles, addresses, texts,   *)
(* editors and publishers: type correctness, that no change overwrites one *)
(* its author has not seen, that what goes public is what was approved,    *)
(* that every change visitors should see is announced, and that the        *)
(* addresses an article was published at lead to it.                       *)
(*                                                                         *)
(* All of them rest on one fact: whoever holds a version of an article     *)
(* holds the row itself if the row still has that version, because every   *)
(* write of a row raises it.                                               *)
(***************************************************************************)
EXTENDS Publication, FiniteSetTheorems, TLAPS

\* What a row has to satisfy for a request, as established by the checks
\* before the transaction.
Ready(op, r, input) ==
  /\ op \in Transition => r.status \in From(op)
  /\ op = "publish" => r.text \in Complete
  /\ op = "schedule" => input.at # 0
  /\ op = "feature" => r.status = "published"

\* A copy of a row is the row, or older.
CopyOf(x, r) == /\ x # None
                /\ r \in Row
                /\ r.version <= x.version
                /\ r.version = x.version => r = x

Copy(p, r) == CopyOf(row[p], r)

DesksHoldCopies ==
  \A e \in Editor : desk[e].op \in {"view"} \cup (Request \ {"create"}) =>
    desk[e].article \in Article /\ Copy(desk[e].article, desk[e].seen)

RequestsAreReady ==
  \A e \in Editor : desk[e].op \in Request \ {"create"} =>
    desk[e].input \in Input /\ Ready(desk[e].op, desk[e].seen, desk[e].input)

\* An article being created is nobody else's and not in the table.
CreationsAreNew ==
  \A e \in Editor : desk[e].op = "create" =>
    /\ desk[e].article \in Article /\ desk[e].input \in Input /\ desk[e].seen = None
    /\ row[desk[e].article] = None
    /\ \A x \in Editor : desk[x].article = desk[e].article => x = e

PassesHoldCopies ==
  \A w \in Worker, p \in Article : pass[w][p] # None =>
    /\ Copy(p, pass[w][p].post)
    /\ pass[w][p].post.status = "scheduled"
    /\ pass[w][p].post.scheduledAt <= now

FeaturedIsPublic == \A p \in Article : row[p] # None /\ row[p].featured => row[p].status = "published"

PInv ==
  /\ TypeOK
  /\ DesksHoldCopies
  /\ RequestsAreReady
  /\ CreationsAreNew
  /\ PassesHoldCopies
  /\ FeaturedIsPublic
  /\ EveryChangeIsAnnounced

-----------------------------------------------------------------------------
\* What the transactions write: of each request on a row it is ready for.
LEMMA WrittenIsRow ==
  ASSUME NEW r \in Row, NEW op \in Request \ {"create"}, NEW input \in Input
  PROVE  Written(r, op, input) \in Row /\ Written(r, op, input).version = r.version
<1>0. 0 \in Time BY LimitAssumption DEF Time
<1> USE <1>0 DEF Row, Input, Status, Request, Transition
<1>1. CASE op = "save" BY <1>1 DEF Written
<1>2. CASE op = "move" BY <1>2 DEF Written
<1>3. CASE op = "publish" BY <1>3 DEF Written
<1>4. CASE op = "schedule" BY <1>4 DEF Written
<1>5. CASE op = "unpublish" BY <1>5 DEF Written, Withdrawn
<1>6. CASE op = "archive" BY <1>6 DEF Written, Withdrawn
<1>7. CASE op = "restore" BY <1>7 DEF Written
<1>8. CASE op = "feature" BY <1>8 DEF Written
<1>9. CASE op = "unfeature" BY <1>9 DEF Written
<1> QED BY <1>1, <1>2, <1>3, <1>4, <1>5, <1>6, <1>7, <1>8, <1>9

\* Dates keep agreeing with the status, and only published articles are
\* featured.
LEMMA WrittenIsConsistent ==
  ASSUME NEW r \in Row, NEW op \in Request \ {"create"}, NEW input \in Input,
         Consistent(r), Ready(op, r, input), r.featured => r.status = "published"
  PROVE  /\ Consistent(Written(r, op, input))
         /\ Written(r, op, input).featured => Written(r, op, input).status = "published"
<1> USE DEF Row, Input, Status, Request, Transition, Time, Consistent, Ready
<1>1. CASE op = "save" BY <1>1 DEF Written
<1>2. CASE op = "move" BY <1>2 DEF Written
<1>3. CASE op = "publish" BY <1>3 DEF Written
<1>4. CASE op = "schedule" BY <1>4 DEF Written, From
<1>5. CASE op = "unpublish" BY <1>5 DEF Written, Withdrawn
<1>6. CASE op = "archive" BY <1>6 DEF Written, Withdrawn
<1>7. CASE op = "restore" BY <1>7 DEF Written, From
<1>8. CASE op = "feature" BY <1>8 DEF Written
<1>9. CASE op = "unfeature" BY <1>9 DEF Written
<1> QED BY <1>1, <1>2, <1>3, <1>4, <1>5, <1>6, <1>7, <1>8, <1>9

\* A request that is not announced changes nothing visitors see, and only
\* "publish" makes an article public.
LEMMA WrittenIsAnnounced ==
  ASSUME NEW r \in Row, NEW op \in Request \ {"create"}, NEW input \in Input,
         Consistent(r), Ready(op, r, input)
  PROVE  /\ ~Announces(op, r) => FaceOf(Written(r, op, input)) = FaceOf(r)
         /\ Written(r, op, input).status = "published" =>
              r.status = "published" \/ (op = "publish" /\ Written(r, op, input).text \in Complete)
<1> DEFINE n == Written(r, op, input)
<1> SUFFICES /\ ~Announces(op, r) => FaceOf(n) = FaceOf(r)
             /\ n.status = "published" =>
                  r.status = "published" \/ (op = "publish" /\ n.text \in Complete)
  OBVIOUS
<1> HIDE DEF n
<1> USE DEF Row, Input, Status, Request, Transition, Consistent, Ready
<1>1. CASE op = "save"
  <2>1. n.status = r.status /\ (Announces(op, r) <=> r.status = "published")
    BY <1>1 DEF n, Written, Announces
  <2>2. ASSUME r.status # "published" PROVE FaceOf(n) = FaceOf(r)
    BY <2>1, <2>2, Zenon DEF FaceOf
  <2>3. QED BY <2>1, <2>2
<1>2. CASE op = "move"
  <2>1. n.status = r.status /\ (Announces(op, r) <=> r.firstPublished)
    BY <1>2 DEF n, Written, Announces
  <2>2. ASSUME r.status # "published" PROVE FaceOf(n) = FaceOf(r)
    BY <2>1, <2>2, Zenon DEF FaceOf
  <2>3. r.status = "published" => r.firstPublished BY DEF Consistent
  <2>4. QED BY <2>1, <2>2, <2>3
<1>3. CASE op = "publish" BY <1>3 DEF n, Written, Announces
<1>4. CASE op = "schedule"
  <2>1. n.status = "scheduled" /\ r.status # "published" BY <1>4 DEF n, Written, From
  <2>2. QED BY <1>4, <2>1 DEF FaceOf
<1>5. CASE op = "unpublish" BY <1>5 DEF n, Written, Withdrawn, Announces
<1>6. CASE op = "archive" BY <1>6 DEF n, Written, Withdrawn, Announces
<1>7. CASE op = "restore"
  <2>1. n.status = "draft" /\ r.status # "published" BY <1>7 DEF n, Written, From
  <2>2. QED BY <1>7, <2>1 DEF FaceOf
<1>8. CASE op = "feature"
  <2>1. n.status = r.status BY <1>8 DEF n, Written
  <2>2. Announces(op, r) BY <1>8 DEF Announces
  <2>3. QED BY <2>1, <2>2
<1>9. CASE op = "unfeature"
  <2>1. n.status = r.status BY <1>9 DEF n, Written
  <2>2. Announces(op, r) BY <1>9 DEF Announces
  <2>3. QED BY <2>1, <2>2
<1> QED BY <1>1, <1>2, <1>3, <1>4, <1>5, <1>6, <1>7, <1>8, <1>9

LEMMA BumpedIsNew ==
  ASSUME NEW r \in Row
  PROVE  /\ Bumped(r) \in Row /\ Bumped(r) # None /\ Bumped(r).version = r.version + 1
         /\ FaceOf(Bumped(r)) = FaceOf(r)
         /\ Consistent(r) => Consistent(Bumped(r))
         /\ Bumped(r).featured = r.featured /\ Bumped(r).status = r.status
         /\ Bumped(r).text = r.text /\ Bumped(r).slug = r.slug
BY NoneAssumption DEF Bumped, Row, Consistent, FaceOf

LEMMA FaceIsFace == ASSUME NEW r \in Row PROVE FaceOf(r) \in Face \cup {None}
BY DEF Row, FaceOf, Face

\* A write raises the version, so copies of the row stay copies of it.
LEMMA CopiesStayCopies ==
  ASSUME row \in [Article -> Row \cup {None}], NEW p \in Article, row[p] # None,
         NEW n \in Row, n.version = row[p].version + 1, row' = [row EXCEPT ![p] = n]
  PROVE  \A q \in Article, r \in Row : CopyOf(row[q], r) => CopyOf(row'[q], r)
<1> SUFFICES ASSUME NEW q \in Article, NEW r \in Row, CopyOf(row[q], r)
             PROVE  CopyOf(row'[q], r)
  OBVIOUS
<1>1. CASE q = p
  <2>1. row[p] \in Row /\ row[p].version \in Nat /\ r.version \in Nat BY DEF Row
  <2>2. r.version <= row[p].version BY <1>1 DEF CopyOf
  <2>3. row'[q] = n BY <1>1
  <2>4. r.version < n.version BY <2>1, <2>2
  <2>5. n # None BY NoneAssumption
  <2>6. QED BY <2>1, <2>3, <2>4, <2>5 DEF CopyOf
<1>2. CASE q # p
  BY <1>2 DEF CopyOf
<1>3. QED BY <1>1, <1>2

-----------------------------------------------------------------------------
(* Checks outside the transactions touch the editor's own desk alone.      *)

\* What a desk may become.
GoodDesk(d) ==
  /\ d \in Desk
  /\ d.op = "idle" => d.article = None
  /\ d.op \in {"view"} \cup (Request \ {"create"}) =>
       d.article \in Article /\ Copy(d.article, d.seen)
  /\ d.op \in Request \ {"create"} => d.input \in Input /\ Ready(d.op, d.seen, d.input)
  /\ d.op = "create" =>
       /\ d.article \in Article /\ d.input \in Input /\ d.seen = None
       /\ row[d.article] = None /\ \A x \in Editor : desk[x].article # d.article

\* An accepted request goes by the row as it is and as the editor saw it.
LEMMA SubmitIsGood ==
  ASSUME PInv, NEW e \in Editor, NEW op \in Request \ {"create"}, NEW input \in Input,
         Submit(e, op, input), Ready(op, Current(e), input)
  PROVE  \E d : GoodDesk(d) /\ Puts(e, d)
<1> DEFINE d == [desk[e] EXCEPT !.op = op, !.seen = Current(e), !.input = input]
<1>1. /\ desk[e] \in Desk /\ desk[e].op = "view" /\ row \in [Article -> Row \cup {None}]
      /\ desk[e].article \in Article /\ Copy(desk[e].article, desk[e].seen)
  BY DEF PInv, TypeOK, DesksHoldCopies, Submit, Fresh
<1>2. Current(e) \in Row /\ Current(e) # None
  BY <1>1 DEF Current, Copy, CopyOf
<1>3. /\ d \in Desk /\ d.op = op /\ d.article = desk[e].article
      /\ d.seen = Current(e) /\ d.input = input
  BY <1>1, <1>2 DEF Desk
<1>4. Copy(d.article, d.seen)
  BY <1>1, <1>2, <1>3 DEF Copy, CopyOf, Current, Row
<1>5. GoodDesk(d)
  BY <1>1, <1>3, <1>4 DEF GoodDesk, Request, Transition
<1>6. QED BY <1>5 DEF Submit

LEMMA CheckIsGood ==
  ASSUME PInv, NEW e \in Editor, Check(e) \/ Refuse(e)
  PROVE  \E d : GoodDesk(d) /\ Puts(e, d)
<1>0. Idle \in Desk /\ GoodDesk(Idle)
  BY DEF Idle, Desk, GoodDesk, Request, Transition
<1>1. CASE Refuse(e)
  BY <1>0, <1>1 DEF Refuse
<1>2. ASSUME NEW p \in Article, View(e, p) PROVE \E d : GoodDesk(d) /\ Puts(e, d)
  <2> DEFINE d == [op |-> "view", article |-> p, seen |-> row[p], input |-> None]
  <2>1. row[p] \in Row /\ row[p] # None BY <1>2 DEF View, Exists, PInv, TypeOK
  <2>2. d \in Desk BY <2>1 DEF Desk
  <2>3. Copy(p, row[p]) BY <2>1 DEF Copy, CopyOf, Row
  <2>4. GoodDesk(d) BY <2>2, <2>3 DEF GoodDesk, Request, Transition
  <2>5. QED BY <2>4, <1>2 DEF View
<1>3. ASSUME NEW p \in Article, NEW i \in Input, CheckCreate(e, p, i)
      PROVE  \E d : GoodDesk(d) /\ Puts(e, d)
  <2> DEFINE d == [op |-> "create", article |-> p, seen |-> None, input |-> i]
  <2>1. d \in Desk BY DEF Desk, Request
  <2>2. GoodDesk(d) BY <2>1, <1>3 DEF GoodDesk, CheckCreate, Exists
  <2>3. QED BY <2>2, <1>3 DEF CheckCreate
<1> DEFINE c == Current(e)
<1>4. ASSUME Fresh(e) PROVE c \in Row /\ Same(c) \in Input
  <2>1. c \in Row
    BY <1>4 DEF Fresh, PInv, TypeOK, DesksHoldCopies, Current, Copy, CopyOf
  <2>2. QED BY <2>1 DEF Same, Input, Row
<1>5. ASSUME NEW i \in Input, CheckSave(e, i) PROVE \E d : GoodDesk(d) /\ Puts(e, d)
  BY <1>5, SubmitIsGood DEF CheckSave, Ready, Request, Transition
<1>6. ASSUME NEW s \in Slug, CheckMove(e, s) PROVE \E d : GoodDesk(d) /\ Puts(e, d)
  <2>1. [Same(c) EXCEPT !.slug = s] \in Input BY <1>4, <1>6 DEF CheckMove, Input
  <2>2. QED BY <1>6, <2>1, SubmitIsGood DEF CheckMove, Ready, Request, Transition
<1>7. ASSUME NEW op \in Transition, NEW at \in Time, CheckTransition(e, op, at)
      PROVE  \E d : GoodDesk(d) /\ Puts(e, d)
  <2> DEFINE i == [Same(c) EXCEPT !.at = at]
  <2>1. i \in Input /\ i.at = at BY <1>4, <1>7 DEF CheckTransition, Input
  <2>2. now \in Nat /\ (op = "schedule" => at # 0)
    <3>1. now \in Nat /\ at \in Nat BY <1>7, LimitAssumption DEF PInv, TypeOK, Time
    <3>2. op = "schedule" => at > now BY <1>7 DEF CheckTransition
    <3>3. QED BY <3>1, <3>2
  <2>3. Ready(op, c, i)
    <3>1. c.status \in From(op) BY <1>7, Zenon DEF CheckTransition
    <3>2. op = "publish" => c.text \in Complete
      BY <1>7 DEF CheckTransition, Publishable
    <3>3. op # "feature" BY <1>7 DEF Transition
    <3>4. QED BY <2>1, <2>2, <3>1, <3>2, <3>3 DEF Ready
  <2>4. QED BY <1>7, <2>1, <2>3, SubmitIsGood DEF CheckTransition, Request, Transition
<1>8. ASSUME CheckFeature(e) PROVE \E d : GoodDesk(d) /\ Puts(e, d)
  BY <1>4, <1>8, SubmitIsGood DEF CheckFeature, Ready, Request, Transition
<1>9. ASSUME CheckUnfeature(e) PROVE \E d : GoodDesk(d) /\ Puts(e, d)
  BY <1>4, <1>9, SubmitIsGood DEF CheckUnfeature, Ready, Request, Transition
<1>10. QED
  BY <1>1, <1>2, <1>3, <1>5, <1>6, <1>7, <1>8, <1>9 DEF Check

-----------------------------------------------------------------------------
(* What is preserved by each kind of step.                                 *)

LEMMA PutsStep == ASSUME PInv, NEW e \in Editor, NEW d, GoodDesk(d), Puts(e, d) PROVE PInv'
<1> USE DEF Puts
<1>1. TypeOK'
  BY DEF PInv, TypeOK, GoodDesk, Consistent
<1>2. \A x \in Editor : desk'[x] = IF x = e THEN d ELSE desk[x]
  BY DEF PInv, TypeOK
<1>3. DesksHoldCopies'
  BY <1>2 DEF PInv, DesksHoldCopies, GoodDesk, Copy
<1>4. RequestsAreReady'
  BY <1>2 DEF PInv, RequestsAreReady, GoodDesk, Ready
<1>5. CreationsAreNew'
  <2>1. SUFFICES ASSUME NEW x \in Editor, desk'[x].op = "create"
                 PROVE  /\ desk'[x].article \in Article /\ desk'[x].input \in Input
                        /\ desk'[x].seen = None /\ row[desk'[x].article] = None
                        /\ \A y \in Editor : desk'[y].article = desk'[x].article => y = x
    BY DEF CreationsAreNew
  <2>2. CASE x = e
    BY <1>2, <2>1, <2>2 DEF GoodDesk
  <2>3. CASE x # e
    <3>1. desk'[x] = desk[x] BY <1>2, <2>3
    <3>2. /\ desk[x].article \in Article /\ desk[x].input \in Input /\ desk[x].seen = None
          /\ row[desk[x].article] = None
          /\ \A y \in Editor : desk[y].article = desk[x].article => y = x
      BY <2>1, <3>1 DEF PInv, CreationsAreNew
    <3>3. d.article # desk[x].article
      <4>1. d.op \in {"idle", "view", "create"} \cup (Request \ {"create"})
        BY DEF GoodDesk, Desk, Request, Transition
      <4>2. QED BY <3>2, <4>1, NoneAssumption DEF GoodDesk, Copy, CopyOf
    <3>4. QED BY <1>2, <3>1, <3>2, <3>3
  <2>4. QED BY <2>2, <2>3
<1>6. PassesHoldCopies'
  BY DEF PInv, PassesHoldCopies, Copy
<1>7. FeaturedIsPublic' /\ EveryChangeIsAnnounced'
  BY DEF PInv, FeaturedIsPublic, EveryChangeIsAnnounced, FaceOf
<1>8. QED BY <1>1, <1>3, <1>4, <1>5, <1>6, <1>7 DEF PInv

\* A transaction that raises the version of a row, ends the request it was
\* for, if any, and announces what visitors see of it.
LEMMA WriteStep ==
  ASSUME PInv, NEW p \in Article, row[p] # None, NEW n \in Row,
         n.version = row[p].version + 1, Consistent(n), n.featured => n.status = "published",
         row' = [row EXCEPT ![p] = n],
         announced' = [announced EXCEPT ![p] = FaceOf(n)],
         desk' \in [Editor -> Desk], \A e \in Editor : desk'[e] = desk[e] \/ desk'[e] = Idle,
         pass' \in [Worker -> [Article -> Due \cup {None}]],
         \A w \in Worker, q \in Article : pass'[w][q] = pass[w][q] \/ pass'[w][q] = None,
         redirect' \in [Slug -> Slug \cup {None}], known' \in [Slug -> Article \cup {None}],
         UNCHANGED <<now, active, cleared>>
  PROVE  PInv'
<1>1. \A q \in Article, r \in Row : CopyOf(row[q], r) => CopyOf(row'[q], r)
  BY CopiesStayCopies DEF PInv, TypeOK
<1>2. /\ row' \in [Article -> Row \cup {None}] /\ row'[p] = n
      /\ \A q \in Article : q # p => row'[q] = row[q]
  BY DEF PInv, TypeOK
<1>3. TypeOK'
  <2>1. \A q \in Article : row'[q] # None => Consistent(row'[q])
    BY <1>2 DEF PInv, TypeOK
  <2>2. announced' \in [Article -> Face \cup {None}]
    BY FaceIsFace DEF PInv, TypeOK
  <2>3. QED BY <1>2, <2>1, <2>2 DEF PInv, TypeOK, Consistent
<1>4. \A e \in Editor : desk'[e].op # "idle" => desk'[e] = desk[e]
  BY DEF Idle
<1>5. DesksHoldCopies'
  BY <1>1, <1>4 DEF PInv, DesksHoldCopies, Copy, CopyOf, Request, Transition
<1>6. RequestsAreReady'
  BY <1>4 DEF PInv, RequestsAreReady, Ready, Request, Transition
<1>7. CreationsAreNew'
  <2>1. SUFFICES ASSUME NEW x \in Editor, desk'[x].op = "create"
                 PROVE  /\ desk'[x].article \in Article /\ desk'[x].input \in Input
                        /\ desk'[x].seen = None /\ row'[desk'[x].article] = None
                        /\ \A y \in Editor : desk'[y].article = desk'[x].article => y = x
    BY DEF CreationsAreNew
  <2>2. desk'[x] = desk[x] BY <1>4, <2>1
  <2>3. /\ desk[x].article \in Article /\ desk[x].input \in Input /\ desk[x].seen = None
        /\ row[desk[x].article] = None
        /\ \A y \in Editor : desk[y].article = desk[x].article => y = x
    BY <2>1, <2>2 DEF PInv, CreationsAreNew
  <2>4. \A y \in Editor : desk'[y].article = desk[y].article \/ desk'[y].article \notin Article
    BY NoneAssumption DEF Idle
  <2>5. QED BY <1>2, <2>2, <2>3, <2>4
<1>8. PassesHoldCopies'
  <2>1. SUFFICES ASSUME NEW w \in Worker, NEW q \in Article, pass'[w][q] # None
                 PROVE  /\ CopyOf(row'[q], pass'[w][q].post)
                        /\ pass'[w][q].post.status = "scheduled"
                        /\ pass'[w][q].post.scheduledAt <= now'
    BY DEF PassesHoldCopies, Copy
  <2>2. pass'[w][q] = pass[w][q] BY <2>1
  <2>3. /\ CopyOf(row[q], pass[w][q].post)
        /\ pass[w][q].post.status = "scheduled"
        /\ pass[w][q].post.scheduledAt <= now
    BY <2>1, <2>2 DEF PInv, PassesHoldCopies, Copy
  <2>4. pass[w][q].post \in Row BY <2>3 DEF CopyOf
  <2>5. QED BY <1>1, <2>2, <2>3, <2>4
<1>9. FeaturedIsPublic'
  BY <1>2 DEF PInv, FeaturedIsPublic
<1>10. EveryChangeIsAnnounced'
  <2>1. \A q \in Article : announced'[q] = FaceOf(row'[q])
    BY <1>2 DEF PInv, TypeOK, EveryChangeIsAnnounced
  <2>2. QED BY <2>1 DEF EveryChangeIsAnnounced, FaceOf
<1>11. QED BY <1>3, <1>5, <1>6, <1>7, <1>8, <1>9, <1>10 DEF PInv

\* Nothing but the clock, the terms and the publisher's batches.
LEMMA CalmStep ==
  ASSUME PInv, UNCHANGED <<row, desk, redirect, announced, known>>,
         now' \in Time, now <= now', active' \subseteq Term, cleared' \subseteq active',
         pass' \in [Worker -> [Article -> Due \cup {None}]],
         \A w \in Worker, q \in Article :
           \/ pass'[w][q] = pass[w][q] \/ pass'[w][q] = None
           \/ IsDue(q) /\ pass'[w][q].post = row[q]
  PROVE  PInv'
<1>1. TypeOK' BY DEF PInv, TypeOK, Consistent
<1>2. PassesHoldCopies'
  <2>1. SUFFICES ASSUME NEW w \in Worker, NEW q \in Article, pass'[w][q] # None
                 PROVE  /\ CopyOf(row[q], pass'[w][q].post)
                        /\ pass'[w][q].post.status = "scheduled"
                        /\ pass'[w][q].post.scheduledAt <= now'
    BY DEF PassesHoldCopies, Copy
  <2>2. now \in Nat /\ now' \in Nat BY LimitAssumption DEF PInv, TypeOK, Time
  <2>3. CASE pass'[w][q] = pass[w][q]
    <3>1. Copy(q, pass[w][q].post) /\ pass[w][q].post.status = "scheduled"
          /\ pass[w][q].post.scheduledAt <= now
      BY <2>1, <2>3 DEF PInv, PassesHoldCopies
    <3>2. pass[w][q].post.scheduledAt \in Nat BY <3>1, LimitAssumption DEF Copy, CopyOf, Row, Time
    <3>3. QED BY <2>2, <2>3, <3>1, <3>2 DEF Copy
  <2>4. CASE IsDue(q) /\ pass'[w][q].post = row[q]
    <3>1. row[q] \in Row /\ row[q] # None /\ row[q].status = "scheduled" /\ row[q].scheduledAt <= now
      BY <2>4 DEF IsDue, Exists, PInv, TypeOK
    <3>2. row[q].version \in Nat /\ row[q].scheduledAt \in Nat
      BY <3>1, LimitAssumption DEF Row, Time
    <3>3. CopyOf(row[q], row[q]) BY <3>1, <3>2 DEF CopyOf
    <3>4. QED BY <2>2, <2>4, <3>1, <3>2, <3>3
  <2>5. QED BY <2>1, <2>3, <2>4
<1>3. DesksHoldCopies' /\ RequestsAreReady' /\ CreationsAreNew'
  BY DEF PInv, DesksHoldCopies, RequestsAreReady, CreationsAreNew, Copy, Ready
<1>4. FeaturedIsPublic' /\ EveryChangeIsAnnounced'
  BY DEF PInv, FeaturedIsPublic, EveryChangeIsAnnounced, FaceOf
<1>5. QED BY <1>1, <1>2, <1>3, <1>4 DEF PInv

\* What a transaction finds: the row the editor saw.
LEMMA CommitFinds ==
  ASSUME PInv, NEW e \in Editor, Commit(e)
  PROVE  LET d == desk[e]
             p == d.article
             w == Written(row[p], d.op, d.input)
         IN /\ d.op \in Request \ {"create"} /\ p \in Article /\ d.input \in Input
            /\ row[p] \in Row /\ row[p] # None /\ d.seen = row[p]
            /\ Consistent(row[p]) /\ Ready(d.op, row[p], d.input)
            /\ w \in Row /\ w.version = row[p].version /\ Consistent(w)
            /\ w.featured => w.status = "published"
<1> DEFINE d == desk[e]
           p == d.article
<1>1. d.op \in Request \ {"create"} /\ Unchanged(p, d.seen) BY DEF Commit, Accepted
<1>2. p \in Article /\ Copy(p, d.seen) BY <1>1 DEF PInv, DesksHoldCopies
<1>3. row[p] \in Row /\ row[p] # None /\ d.seen = row[p] /\ Consistent(row[p])
  BY <1>1, <1>2 DEF Copy, CopyOf, Unchanged, PInv, TypeOK
<1>4. d.input \in Input /\ Ready(d.op, row[p], d.input)
  BY <1>1, <1>3 DEF PInv, RequestsAreReady
<1>5. row[p].featured => row[p].status = "published" BY <1>2, <1>3 DEF PInv, FeaturedIsPublic
<1>6. QED BY <1>1, <1>2, <1>3, <1>4, <1>5, WrittenIsRow, WrittenIsConsistent

LEMMA CommitStep == ASSUME PInv, NEW e \in Editor, Commit(e) PROVE PInv'
<1> DEFINE d == desk[e]
           p == d.article
           w == Written(row[p], d.op, d.input)
           n == Bumped(w)
<1>1. /\ d.op \in Request \ {"create"} /\ p \in Article /\ d.input \in Input
      /\ row[p] \in Row /\ row[p] # None /\ d.seen = row[p]
      /\ Consistent(row[p]) /\ Ready(d.op, row[p], d.input)
      /\ w \in Row /\ w.version = row[p].version /\ Consistent(w)
      /\ w.featured => w.status = "published"
  BY CommitFinds
<1>2. /\ row' = [row EXCEPT ![p] = n]
      /\ announced' = IF Announces(d.op, d.seen) THEN [announced EXCEPT ![p] = FaceOf(n)] ELSE announced
      /\ redirect' = IF d.op = "move" /\ d.seen.firstPublished
                     THEN Redirected(d.seen.slug, n.slug) ELSE redirect
      /\ known' = IF n.firstPublished THEN [known EXCEPT ![n.slug] = p] ELSE known
      /\ desk' = [desk EXCEPT ![e] = Idle]
      /\ UNCHANGED <<now, active, cleared, pass>>
  BY DEF Commit
<1> HIDE DEF w
<1>3. /\ n \in Row /\ n.version = row[p].version + 1 /\ Consistent(n)
      /\ n.featured => n.status = "published"
      /\ FaceOf(n) = FaceOf(w)
  BY <1>1, BumpedIsNew
<1> HIDE DEF n
<1>4. announced' = [announced EXCEPT ![p] = FaceOf(n)]
  <2>1. CASE Announces(d.op, d.seen) BY <1>2, <2>1
  <2>2. CASE ~Announces(d.op, d.seen)
    <3>1. FaceOf(w) = FaceOf(row[p]) BY <1>1, <2>2, WrittenIsAnnounced DEF w
    <3>2. announced[p] = FaceOf(n) /\ announced \in [Article -> Face \cup {None}]
      BY <1>1, <1>3, <3>1 DEF PInv, EveryChangeIsAnnounced, TypeOK
    <3>3. QED BY <1>2, <2>2, <3>2
  <2>3. QED BY <2>1, <2>2
<1>5. n.slug \in Slug /\ row[p].slug \in Slug BY <1>1, <1>3 DEF Row
<1>6. redirect' \in [Slug -> Slug \cup {None}]
  BY <1>1, <1>2, <1>5 DEF Redirected, PInv, TypeOK
<1>7. known' \in [Slug -> Article \cup {None}]
  BY <1>1, <1>2, <1>5 DEF PInv, TypeOK
<1>8. desk' \in [Editor -> Desk] /\ \A x \in Editor : desk'[x] = desk[x] \/ desk'[x] = Idle
  BY <1>2 DEF PInv, TypeOK, Idle, Desk
<1>9. pass' \in [Worker -> [Article -> Due \cup {None}]] /\ pass' = pass
  BY <1>2 DEF PInv, TypeOK
<1>10. QED BY <1>1, <1>2, <1>3, <1>4, <1>6, <1>7, <1>8, <1>9, WriteStep

LEMMA CreateStep == ASSUME PInv, NEW e \in Editor, CommitCreate(e) PROVE PInv'
<1> DEFINE d == desk[e]
           p == d.article
           n == [status |-> "draft", version |-> 1, text |-> d.input.text, slug |-> d.input.slug,
                 author |-> d.input.author, scheduledAt |-> 0,
                 firstPublished |-> FALSE, featured |-> FALSE]
<1>1. /\ p \in Article /\ d.input \in Input /\ row[p] = None
      /\ \A x \in Editor : desk[x].article = p => x = e
  BY DEF CommitCreate, PInv, CreationsAreNew
<1>2. /\ row' = [row EXCEPT ![p] = n] /\ desk' = [desk EXCEPT ![e] = Idle]
      /\ UNCHANGED <<now, active, cleared, pass, redirect, announced, known>>
  BY DEF CommitCreate
<1>3. n \in Row /\ n # None /\ Consistent(n) /\ FaceOf(n) = None /\ ~n.featured
  <2>1. 0 \in Time BY LimitAssumption DEF Time
  <2>2. n \in Row BY <1>1, <2>1 DEF Row, Input, Status
  <2>3. QED BY <2>2, NoneAssumption DEF Consistent, FaceOf
<1> HIDE DEF n
<1>4. /\ row' \in [Article -> Row \cup {None}] /\ row'[p] = n
      /\ \A q \in Article : q # p => row'[q] = row[q]
  BY <1>1, <1>2, <1>3 DEF PInv, TypeOK
<1>5. /\ desk' \in [Editor -> Desk] /\ desk'[e] = Idle
      /\ \A x \in Editor : x # e => desk'[x] = desk[x]
  BY <1>2 DEF PInv, TypeOK, Idle, Desk
<1>6. TypeOK'
  <2>1. \A q \in Article : row'[q] # None => Consistent(row'[q])
    BY <1>3, <1>4 DEF PInv, TypeOK
  <2>2. QED BY <1>2, <1>4, <1>5, <2>1 DEF PInv, TypeOK, Consistent
<1>7. \A q \in Article : \A r : Copy(q, r) => CopyOf(row'[q], r)
  BY <1>1, <1>4 DEF Copy, CopyOf
<1>8. DesksHoldCopies'
  BY <1>5, <1>7 DEF PInv, DesksHoldCopies, Copy, CopyOf, Idle, Request, Transition
<1>9. RequestsAreReady'
  BY <1>5 DEF PInv, RequestsAreReady, Ready, Idle, Request, Transition
<1>10. CreationsAreNew'
  <2>1. SUFFICES ASSUME NEW x \in Editor, desk'[x].op = "create"
                 PROVE  /\ desk'[x].article \in Article /\ desk'[x].input \in Input
                        /\ desk'[x].seen = None /\ row'[desk'[x].article] = None
                        /\ \A y \in Editor : desk'[y].article = desk'[x].article => y = x
    BY DEF CreationsAreNew
  <2>2. x # e /\ desk'[x] = desk[x] BY <1>5, <2>1 DEF Idle
  <2>3. /\ desk[x].article \in Article /\ desk[x].input \in Input /\ desk[x].seen = None
        /\ row[desk[x].article] = None
        /\ \A y \in Editor : desk[y].article = desk[x].article => y = x
    BY <2>1, <2>2 DEF PInv, CreationsAreNew
  <2>4. desk[x].article # p BY <1>1, <2>2
  <2>5. desk'[e].article \notin Article BY <1>5, NoneAssumption DEF Idle
  <2>6. QED BY <1>4, <1>5, <2>2, <2>3, <2>4, <2>5
<1>11. PassesHoldCopies'
  BY <1>2, <1>7 DEF PInv, PassesHoldCopies, Copy, CopyOf
<1>12. FeaturedIsPublic'
  BY <1>3, <1>4 DEF PInv, FeaturedIsPublic
<1>13. EveryChangeIsAnnounced'
  <2>1. FaceOf(None) = None BY DEF FaceOf
  <2>2. \A q \in Article : announced'[q] = FaceOf(row'[q])
    BY <1>1, <1>2, <1>3, <1>4, <2>1 DEF PInv, EveryChangeIsAnnounced
  <2>3. QED BY <2>2 DEF EveryChangeIsAnnounced, FaceOf
<1>14. QED BY <1>6, <1>8, <1>9, <1>10, <1>11, <1>12, <1>13 DEF PInv

\* What the publisher finds when the row still has the version it read.
LEMMA TreatFinds ==
  ASSUME PInv, NEW w \in Worker, NEW p \in Article, pass[w][p] # None,
         StillScheduled(p, pass[w][p].post)
  PROVE  /\ row[p] \in Row /\ row[p] # None /\ pass[w][p].post = row[p] /\ Consistent(row[p])
         /\ row[p].status = "scheduled" /\ IsDue(p) /\ ~row[p].featured
<1>1. Copy(p, pass[w][p].post) /\ pass[w][p].post.scheduledAt <= now
  BY DEF PInv, PassesHoldCopies
<1>2. pass[w][p].post = row[p] /\ row[p] \in Row /\ row[p] # None
  BY <1>1 DEF Copy, CopyOf, StillScheduled
<1>3. row[p].status = "scheduled" BY DEF StillScheduled
<1>4. QED BY <1>1, <1>2, <1>3 DEF PInv, TypeOK, FeaturedIsPublic, IsDue, Exists

LEMMA TreatedStep ==
  ASSUME PInv, NEW w \in Worker, NEW p \in Article, Treated(w, p)
  PROVE  /\ pass' \in [Worker -> [Article -> Due \cup {None}]] /\ pass'[w][p] = None
         /\ \A x \in Worker, q \in Article : pass'[x][q] = pass[x][q] \/ pass'[x][q] = None
BY DEF PInv, TypeOK, Treated

LEMMA PublishStep ==
  ASSUME PInv, NEW w \in Worker, NEW p \in Article, Treat(w, p) PROVE PInv'
<1>1. CASE PublishDue(w, p)
  <2> DEFINE m == [row[p] EXCEPT !.status = "published", !.scheduledAt = 0, !.firstPublished = TRUE]
             n == Bumped(m)
  <2>1. /\ row[p] \in Row /\ row[p] # None /\ ~row[p].featured
    BY <1>1, TreatFinds DEF PublishDue
  <2>2. Written(row[p], "publish", None) = m BY DEF Written
  <2>3. /\ row' = [row EXCEPT ![p] = n] /\ announced' = [announced EXCEPT ![p] = FaceOf(n)]
        /\ known' = [known EXCEPT ![n.slug] = p] /\ Treated(w, p)
        /\ UNCHANGED <<now, active, desk, cleared, redirect>>
    BY <1>1, <2>2 DEF PublishDue
  <2>4. m \in Row /\ m.version = row[p].version /\ Consistent(m) /\ m.status = "published"
    <3>1. 0 \in Time BY LimitAssumption DEF Time
    <3>2. QED BY <2>1, <3>1 DEF Row, Status, Consistent
  <2> HIDE DEF m
  <2>5. n \in Row /\ n.version = row[p].version + 1 /\ Consistent(n) /\ n.status = "published"
    BY <2>4, BumpedIsNew
  <2> HIDE DEF n
  <2>6. known' \in [Slug -> Article \cup {None}]
    BY <2>3, <2>5 DEF PInv, TypeOK, Row
  <2>7. redirect' \in [Slug -> Slug \cup {None}] /\ desk' \in [Editor -> Desk] /\ desk' = desk
    BY <2>3 DEF PInv, TypeOK
  <2>8. QED BY <2>1, <2>3, <2>5, <2>6, <2>7, TreatedStep, WriteStep
<1>2. CASE ReturnToDraft(w, p)
  <2> DEFINE m == [row[p] EXCEPT !.status = "draft", !.scheduledAt = 0]
             n == Bumped(m)
  <2>1. row[p] \in Row /\ row[p] # None /\ ~row[p].featured /\ row[p].status = "scheduled"
    BY <1>2, TreatFinds DEF ReturnToDraft
  <2>2. /\ row' = [row EXCEPT ![p] = n] /\ Treated(w, p)
        /\ UNCHANGED <<now, active, desk, cleared, redirect, announced, known>>
    BY <1>2, <2>1 DEF ReturnToDraft, PInv, TypeOK
  <2>3. m \in Row /\ m.version = row[p].version /\ Consistent(m) /\ ~m.featured
        /\ FaceOf(m) = None /\ FaceOf(row[p]) = None
    <3>1. 0 \in Time BY LimitAssumption DEF Time
    <3>2. QED BY <2>1, <3>1 DEF Row, Status, Consistent, FaceOf
  <2> HIDE DEF m
  <2>4. /\ n \in Row /\ n.version = row[p].version + 1 /\ Consistent(n) /\ ~n.featured
        /\ FaceOf(n) = None
    BY <2>3, BumpedIsNew
  <2> HIDE DEF n
  <2>5. announced' = [announced EXCEPT ![p] = FaceOf(n)]
    <3>1. announced[p] = None /\ announced \in [Article -> Face \cup {None}]
      BY <2>3 DEF PInv, EveryChangeIsAnnounced, TypeOK
    <3>2. QED BY <2>2, <2>4, <3>1
  <2>6. /\ redirect' \in [Slug -> Slug \cup {None}] /\ known' \in [Slug -> Article \cup {None}]
        /\ desk' \in [Editor -> Desk] /\ desk' = desk
    BY <2>2 DEF PInv, TypeOK
  <2>7. QED BY <2>1, <2>2, <2>4, <2>5, <2>6, TreatedStep, WriteStep
<1>3. CASE SkipDue(w, p)
  BY <1>3, CalmStep, TreatedStep, LimitAssumption DEF SkipDue, PInv, TypeOK, Time
<1>4. QED BY <1>1, <1>2, <1>3 DEF Treat

-----------------------------------------------------------------------------
(* The invariant and the theorems.                                         *)

LEMMA InitInv == Init => PInv
<1> SUFFICES ASSUME Init PROVE PInv OBVIOUS
<1> USE DEF Init
<1>1. 0 \in Time /\ Idle \in Desk BY LimitAssumption DEF Time, Idle, Desk
<1>2. TypeOK BY <1>1 DEF TypeOK, NothingDue
<1>3. DesksHoldCopies /\ RequestsAreReady /\ CreationsAreNew
  BY DEF DesksHoldCopies, RequestsAreReady, CreationsAreNew, Idle, Request, Transition
<1>4. PassesHoldCopies /\ FeaturedIsPublic BY DEF PassesHoldCopies, FeaturedIsPublic, NothingDue
<1>5. EveryChangeIsAnnounced BY DEF EveryChangeIsAnnounced, FaceOf
<1>6. QED BY <1>2, <1>3, <1>4, <1>5 DEF PInv

LEMMA NextInv == PInv /\ [Next]_vars => PInv'
<1> SUFFICES ASSUME PInv, [Next]_vars PROVE PInv' OBVIOUS
<1>0. now \in Nat /\ now \in Time /\ now <= now
  BY LimitAssumption DEF PInv, TypeOK, Time
<1>1. CASE Tick
  BY <1>0, <1>1, CalmStep, LimitAssumption DEF Tick, PInv, TypeOK, Time
<1>2. ASSUME NEW e \in Editor, Check(e) \/ Refuse(e) PROVE PInv'
  BY <1>2, CheckIsGood, PutsStep
<1>3. ASSUME NEW e \in Editor, Commit(e) \/ CommitCreate(e) PROVE PInv'
  BY <1>3, CommitStep, CreateStep
<1>4. ASSUME NEW a \in Term, Administer(a) PROVE PInv'
  BY <1>0, <1>4, CalmStep DEF Administer, CountLive, Deactivate, Activate, PInv, TypeOK
<1>5. ASSUME NEW w \in Worker, ReadDue(w) PROVE PInv'
  <2> DEFINE due == [p \in Article |->
               IF IsDue(p) THEN [post |-> row[p], credited |-> (row[p].author \in active)] ELSE None]
  <2>1. pass' = [pass EXCEPT ![w] = due]
        /\ UNCHANGED <<now, row, active, desk, cleared, redirect, announced, known>>
    BY <1>5 DEF ReadDue
  <2>2. \A p \in Article : IsDue(p) => row[p] \in Row
    BY DEF IsDue, Exists, PInv, TypeOK
  <2>3. due \in [Article -> Due \cup {None}] BY <2>2 DEF Due
  <2>4. \A q \in Article : due[q] = None \/ (IsDue(q) /\ due[q].post = row[q]) OBVIOUS
  <2> HIDE DEF due
  <2>5. /\ pass' \in [Worker -> [Article -> Due \cup {None}]]
        /\ \A x \in Worker : pass'[x] = pass[x] \/ pass'[x] = due
    BY <2>1, <2>3 DEF PInv, TypeOK
  <2>6. active' \subseteq Term /\ cleared' \subseteq active' /\ now' \in Time /\ now <= now'
    BY <1>0, <2>1 DEF PInv, TypeOK
  <2>7. QED BY <2>1, <2>4, <2>5, <2>6, CalmStep
<1>6. ASSUME NEW w \in Worker, StopPass(w) PROVE PInv'
  BY <1>0, <1>6, CalmStep DEF StopPass, NothingDue, PInv, TypeOK
<1>7. ASSUME NEW w \in Worker, NEW p \in Article, Treat(w, p) PROVE PInv'
  BY <1>7, PublishStep
<1>8. CASE UNCHANGED vars
  BY <1>0, <1>8, CalmStep DEF vars, PInv, TypeOK
<1>9. QED
  BY <1>1, <1>2, <1>3, <1>4, <1>5, <1>6, <1>7, <1>8 DEF Next, Publish

\* A write of a row is the end of a request or of a treatment that saw it.
LEMMA NextSeen ==
  ASSUME PInv, [Next]_vars, NEW p \in Article, row'[p] # row[p]
  PROVE  /\ \/ \E e \in Editor : Holds(e, p) /\ desk'[e] = Idle
            \/ \E w \in Worker : HasRead(w, p) /\ pass'[w][p] = None
         /\ Public(row'[p]) /\ ~Public(row[p]) =>
              /\ row'[p].text \in Complete
              /\ \/ IsDue(p)
                 \/ \E e \in Editor : Holds(e, p) /\ desk[e].op = "publish"
<1>1. CASE \E e \in Editor : Commit(e)
  <2>1. PICK e \in Editor : Commit(e) BY <1>1
  <2> DEFINE d == desk[e]
             n == Written(row[p], d.op, d.input)
  <2>2. /\ row' = [row EXCEPT ![d.article] = Bumped(Written(row[d.article], d.op, d.input))]
        /\ desk' = [desk EXCEPT ![e] = Idle]
    BY <2>1 DEF Commit
  <2>3. p = d.article BY <2>2 DEF PInv, TypeOK
  <2>4. /\ d.op \in Request \ {"create"} /\ d.input \in Input
        /\ row[p] \in Row /\ row[p] # None /\ d.seen = row[p]
        /\ Consistent(row[p]) /\ Ready(d.op, row[p], d.input) /\ n \in Row
    BY <2>1, <2>3, CommitFinds
  <2>5. Holds(e, p) /\ desk'[e] = Idle
    BY <2>2, <2>3, <2>4 DEF Holds, PInv, TypeOK
  <2>6. row'[p] = Bumped(n) BY <2>2, <2>3 DEF PInv, TypeOK
  <2>7. n.status = "published" =>
          row[p].status = "published" \/ (d.op = "publish" /\ n.text \in Complete)
    BY <2>4, WrittenIsAnnounced
  <2> HIDE DEF n
  <2>8. Bumped(n).status = n.status /\ Bumped(n).text = n.text BY <2>4, BumpedIsNew
  <2>9. QED BY <2>4, <2>5, <2>6, <2>7, <2>8 DEF Public
<1>2. CASE \E e \in Editor : CommitCreate(e)
  <2>1. PICK e \in Editor : CommitCreate(e) BY <1>2
  <2>2. /\ row'[p].status = "draft" /\ desk[e].article = p
        /\ desk' = [desk EXCEPT ![e] = Idle] /\ desk[e].op = "create"
    BY <2>1 DEF CommitCreate, PInv, TypeOK
  <2>3. Holds(e, p) /\ desk'[e] = Idle
    BY <2>2 DEF Holds, PInv, TypeOK, CreationsAreNew, Request
  <2>4. QED BY <2>2, <2>3 DEF Public
<1>3. CASE \E w \in Worker, q \in Article : PublishDue(w, q) \/ ReturnToDraft(w, q)
  <2>1. PICK w \in Worker, q \in Article : PublishDue(w, q) \/ ReturnToDraft(w, q) BY <1>3
  <2>2. q = p BY <2>1 DEF PublishDue, ReturnToDraft, PInv, TypeOK
  <2>3. /\ row[p] \in Row /\ row[p] # None /\ pass[w][p].post = row[p]
        /\ IsDue(p) /\ pass[w][p] # None
    BY <2>1, <2>2, TreatFinds DEF PublishDue, ReturnToDraft
  <2>4. HasRead(w, p) /\ pass'[w][p] = None
    BY <2>1, <2>2, <2>3, TreatedStep DEF HasRead, PublishDue, ReturnToDraft
  <2>5. Public(row'[p]) => row'[p].text \in Complete
    <3>1. CASE PublishDue(w, p)
      <4>1. row[p].text \in Complete BY <2>3, <3>1 DEF PublishDue, Publishable
      <4>2. row'[p].text = row[p].text
        BY <2>3, <3>1 DEF PublishDue, Written, Bumped, PInv, TypeOK, Row
      <4>3. QED BY <4>1, <4>2
    <3>2. CASE ReturnToDraft(w, p)
      <4>1. row'[p].status = "draft"
        BY <2>3, <3>2 DEF ReturnToDraft, Bumped, PInv, TypeOK, Row
      <4>2. QED BY <4>1 DEF Public
    <3>3. QED BY <2>1, <2>2, <3>1, <3>2
  <2>6. QED BY <2>3, <2>4, <2>5
<1>4. ASSUME NEW e \in Editor, Check(e) \/ Refuse(e) PROVE FALSE
  <2>1. \E d : Puts(e, d) BY <1>4, CheckIsGood
  <2>2. QED BY <2>1 DEF Puts
<1>5. CASE \E a \in Term : Administer(a)
  BY <1>5 DEF Administer, CountLive, Deactivate, Activate
<1>6. CASE \E w \in Worker : ReadDue(w) \/ StopPass(w) \/ \E q \in Article : SkipDue(w, q)
  BY <1>6 DEF ReadDue, StopPass, SkipDue
<1>7. CASE Tick \/ UNCHANGED vars BY <1>7 DEF Tick, vars
<1>8. QED
  BY <1>1, <1>2, <1>3, <1>4, <1>5, <1>6, <1>7 DEF Next, Publish, Treat

THEOREM InductiveInvariant == Spec => []PInv
BY InitInv, NextInv, PTL DEF Spec

\* The state has its types, and the dates of a row agree with its status.
THEOREM TypeCorrect == Spec => []TypeOK
<1>1. PInv => TypeOK BY DEF PInv
<1> QED BY <1>1, InductiveInvariant, PTL

\* Whatever visitors should see differently has an invalidation event behind
\* it, whichever row the handler decided on.
THEOREM EverythingAnnounced == Spec => []EveryChangeIsAnnounced
<1>1. PInv => EveryChangeIsAnnounced BY DEF PInv
<1> QED BY <1>1, InductiveInvariant, PTL

\* No lost update: a row is only changed by an editor who was looking at exactly
\* that row, or by the publisher when it decided on exactly that row.
THEOREM NoLostUpdate == Spec => NothingOverwrittenUnseen
<1>1. PInv /\ [Next]_vars =>
        [\A p \in Article : row'[p] # row[p] =>
           \/ \E e \in Editor : Holds(e, p) /\ desk'[e] = Idle
           \/ \E w \in Worker : HasRead(w, p) /\ pass'[w][p] = None]_vars
  BY NextSeen
<1> QED BY <1>1, InductiveInvariant, PTL DEF Spec, NothingOverwrittenUnseen

\* What goes public is a complete text, because its time has come or because an
\* editor asked for this very row to be published.
THEOREM OnlyTheApproved == Spec => PublishedAsApproved
<1>1. PInv /\ [Next]_vars =>
        [\A p \in Article : Public(row'[p]) /\ ~Public(row[p]) =>
           /\ row'[p].text \in Complete
           /\ \/ IsDue(p)
              \/ \E e \in Editor : Holds(e, p) /\ desk[e].op = "publish"]_vars
  <2>1. \A p \in Article : Public(row'[p]) /\ ~Public(row[p]) => row'[p] # row[p]
    BY Zenon
  <2>2. QED BY <2>1, NextSeen
<1> QED BY <1>1, InductiveInvariant, PTL DEF Spec, PublishedAsApproved

-----------------------------------------------------------------------------
(* The places for featured articles.  Nothing is assumed of Article: that   *)
(* finitely many are featured is part of the invariant.                    *)

Featured == {p \in Article : row[p] # None /\ row[p].featured}

WithinLimit == IsFiniteSet(Featured) /\ Cardinality(Featured) <= MaxFeatured

\* A row that becomes featured does so by setFeatured, under the limit.
LEMMA WhoBecomesFeatured ==
  ASSUME PInv, [Next]_vars
  PROVE  \/ Featured' \subseteq Featured
         \/ \E p \in Article : /\ Featured' \subseteq (Featured \ {p}) \cup {p}
                               /\ Cardinality(Featured \ {p}) < MaxFeatured
<1>1. ASSUME NEW p \in Article, NEW n \in Row, row' = [row EXCEPT ![p] = n],
             n.featured => p \in Featured
      PROVE  Featured' \subseteq Featured
  BY <1>1 DEF Featured, PInv, TypeOK
<1>2. ASSUME NEW e \in Editor, Commit(e)
      PROVE  \/ Featured' \subseteq Featured
             \/ \E p \in Article : /\ Featured' \subseteq (Featured \ {p}) \cup {p}
                                   /\ Cardinality(Featured \ {p}) < MaxFeatured
  <2> DEFINE d == desk[e]
             p == d.article
             w == Written(row[p], d.op, d.input)
  <2>1. /\ d.op \in Request \ {"create"} /\ p \in Article
        /\ row[p] \in Row /\ row[p] # None /\ w \in Row
    BY <1>2, CommitFinds
  <2>2. row' = [row EXCEPT ![p] = Bumped(w)] BY <1>2 DEF Commit
  <2>3. CASE d.op = "feature"
    <3>1. Cardinality({q \in Article \ {p} : Exists(q) /\ row[q].featured}) < MaxFeatured
      BY <1>2, <2>3 DEF Commit, Accepted
    <3>2. {q \in Article \ {p} : Exists(q) /\ row[q].featured} = Featured \ {p}
      BY DEF Featured, Exists
    <3>3. Featured' \subseteq (Featured \ {p}) \cup {p}
      BY <2>1, <2>2 DEF Featured, PInv, TypeOK
    <3>4. QED BY <2>1, <3>1, <3>2, <3>3
  <2>4. CASE d.op # "feature"
    <3>1. w.featured => row[p].featured
      BY <2>1, <2>4 DEF Written, Withdrawn, Row, Request, Transition
    <3> HIDE DEF w
    <3>2. Bumped(w) \in Row /\ Bumped(w).featured = w.featured BY <2>1, BumpedIsNew
    <3>3. Bumped(w).featured => p \in Featured BY <2>1, <3>1, <3>2 DEF Featured
    <3>4. QED BY <1>1, <2>1, <2>2, <3>2, <3>3
  <2>5. QED BY <2>3, <2>4
<1>3. ASSUME NEW e \in Editor, CommitCreate(e) PROVE Featured' \subseteq Featured
  BY <1>3 DEF CommitCreate, PInv, TypeOK, Featured
<1>4. ASSUME NEW w \in Worker, NEW p \in Article, PublishDue(w, p) \/ ReturnToDraft(w, p)
      PROVE  Featured' \subseteq Featured
  <2>1. row[p] \in Row /\ ~row[p].featured
    BY <1>4, TreatFinds DEF PublishDue, ReturnToDraft
  <2>2. \A q \in Article : q # p => row'[q] = row[q]
    BY <1>4 DEF PublishDue, ReturnToDraft, PInv, TypeOK
  <2>3. row'[p].featured = row[p].featured
    <3>1. CASE PublishDue(w, p)
      BY <2>1, <3>1 DEF PublishDue, Written, Bumped, PInv, TypeOK, Row
    <3>2. CASE ReturnToDraft(w, p)
      BY <2>1, <3>2 DEF ReturnToDraft, Bumped, PInv, TypeOK, Row
    <3>3. QED BY <1>4, <3>1, <3>2
  <2>4. QED BY <2>1, <2>2, <2>3 DEF Featured
<1>5. ASSUME NEW e \in Editor, Check(e) \/ Refuse(e) PROVE Featured' \subseteq Featured
  <2>1. \E d : Puts(e, d) BY <1>5, CheckIsGood
  <2>2. QED BY <2>1 DEF Puts, Featured
<1>6. CASE \E a \in Term : Administer(a)
  BY <1>6 DEF Administer, CountLive, Deactivate, Activate, Featured
<1>7. CASE \E w \in Worker : ReadDue(w) \/ StopPass(w) \/ \E q \in Article : SkipDue(w, q)
  BY <1>7 DEF ReadDue, StopPass, SkipDue, Featured
<1>8. CASE Tick \/ UNCHANGED vars BY <1>8 DEF Tick, vars, Featured
<1>9. QED
  BY <1>2, <1>3, <1>4, <1>5, <1>6, <1>7, <1>8 DEF Next, Publish, Treat

LEMMA LimitStep == PInv /\ WithinLimit /\ [Next]_vars => WithinLimit'
<1> SUFFICES ASSUME PInv, WithinLimit, [Next]_vars PROVE WithinLimit' OBVIOUS
<1>1. CASE Featured' \subseteq Featured
  <2>1. /\ IsFiniteSet(Featured') /\ Cardinality(Featured') <= Cardinality(Featured)
        /\ Cardinality(Featured') \in Nat /\ Cardinality(Featured) \in Nat
    BY <1>1, FS_Subset, FS_CardinalityType DEF WithinLimit
  <2>2. QED BY <2>1, LimitAssumption DEF WithinLimit
<1>2. ASSUME NEW p \in Article, Featured' \subseteq (Featured \ {p}) \cup {p},
             Cardinality(Featured \ {p}) < MaxFeatured
      PROVE  WithinLimit'
  <2> DEFINE others == Featured \ {p}
  <2>1. IsFiniteSet(others) /\ Cardinality(others) \in Nat /\ p \notin others
    BY FS_Subset, FS_CardinalityType DEF WithinLimit
  <2>2. IsFiniteSet(others \cup {p}) /\ Cardinality(others \cup {p}) = Cardinality(others) + 1
    BY <2>1, FS_AddElement
  <2>3. /\ IsFiniteSet(Featured') /\ Cardinality(Featured') <= Cardinality(others \cup {p})
        /\ Cardinality(Featured') \in Nat
    BY <1>2, <2>2, FS_Subset, FS_CardinalityType
  <2>4. QED BY <1>2, <2>1, <2>2, <2>3, LimitAssumption DEF WithinLimit
<1>3. QED BY <1>1, <1>2, WhoBecomesFeatured

\* Not more articles are featured than there are places, and all of them are
\* published.
THEOREM FeaturedWithinLimit == Spec => []FeaturedArePublished
<1>1. Init => WithinLimit
  <2>1. ASSUME Init PROVE Featured = {} BY <2>1 DEF Init, Featured
  <2>2. QED BY <2>1, FS_EmptySet, LimitAssumption DEF WithinLimit
<1>2. PInv /\ WithinLimit => FeaturedArePublished
  BY DEF PInv, WithinLimit, FeaturedArePublished, Featured, FeaturedIsPublic, Public
<1> QED BY <1>1, <1>2, LimitStep, InductiveInvariant, PTL DEF Spec

-----------------------------------------------------------------------------
(* Where addresses lead.  One article has an address at a time; an article *)
(* that has been published moves by changeSlug alone, which leaves a       *)
(* redirect; and the address it has is always the last one it was given.   *)

AddressesAreUnique ==
  \A p, q \in Article : row[p] # None /\ row[q] # None /\ row[p].slug = row[q].slug => p = q

\* Saving moves no published article, and changeSlug always moves one.
RequestsKeepAddresses ==
  \A e \in Editor :
    /\ desk[e].op = "save" =>
         desk[e].input.slug = desk[e].seen.slug \/ ~desk[e].seen.firstPublished
    /\ desk[e].op = "move" => desk[e].input.slug # desk[e].seen.slug

KnownArePublished ==
  \A s \in Slug : known[s] # None => row[known[s]] # None /\ row[known[s]].firstPublished

PublishedAreKnown ==
  \A p \in Article : row[p] # None /\ row[p].firstPublished => known[row[p].slug] = p

KnownLead ==
  \A s \in Slug : known[s] # None =>
    LET at == row[known[s]].slug
    IN at = s \/ (redirect[s] = at /\ redirect[at] = None)

AddressInv ==
  /\ AddressesAreUnique
  /\ RequestsKeepAddresses
  /\ KnownArePublished
  /\ PublishedAreKnown
  /\ KnownLead

\* Only saving and changeSlug give an address, and nothing takes back that an
\* article has been published.
LEMMA WrittenKeepsAddress ==
  ASSUME NEW r \in Row, NEW op \in Request \ {"create"}, NEW input \in Input
  PROVE  /\ r.firstPublished => Written(r, op, input).firstPublished
         /\ Written(r, op, input).slug = IF op \in {"save", "move"} THEN input.slug ELSE r.slug
<1> USE DEF Row, Input, Request, Transition
<1>1. CASE op = "save" BY <1>1 DEF Written
<1>2. CASE op = "move" BY <1>2 DEF Written
<1>3. CASE op = "publish" BY <1>3 DEF Written
<1>4. CASE op = "schedule" BY <1>4 DEF Written
<1>5. CASE op = "unpublish" BY <1>5 DEF Written, Withdrawn
<1>6. CASE op = "archive" BY <1>6 DEF Written, Withdrawn
<1>7. CASE op = "restore" BY <1>7 DEF Written
<1>8. CASE op = "feature" BY <1>8 DEF Written
<1>9. CASE op = "unfeature" BY <1>9 DEF Written
<1> QED BY <1>1, <1>2, <1>3, <1>4, <1>5, <1>6, <1>7, <1>8, <1>9

\* A write of one article, with the redirect a move leaves.
LEMMA AddressWrite ==
  ASSUME PInv, AddressInv, NEW p \in Article, row[p] # None, NEW n \in Row,
         row' = [row EXCEPT ![p] = n],
         row[p].firstPublished => n.firstPublished,
         n.slug # row[p].slug => Free(n.slug),
         known' = IF n.firstPublished THEN [known EXCEPT ![n.slug] = p] ELSE known,
         \/ redirect' = redirect /\ (n.slug = row[p].slug \/ ~row[p].firstPublished)
         \/ redirect' = Redirected(row[p].slug, n.slug) /\ n.slug # row[p].slug /\ row[p].firstPublished
            /\ n.firstPublished,
         \A e \in Editor : desk'[e] = desk[e] \/ desk'[e] = Idle
  PROVE  AddressInv'
<1> DEFINE from == row[p].slug
           to == n.slug
<1>1. /\ row \in [Article -> Row \cup {None}] /\ row[p] \in Row /\ n # None
      /\ from \in Slug /\ to \in Slug
      /\ known \in [Slug -> Article \cup {None}] /\ redirect \in [Slug -> Slug \cup {None}]
      /\ None \notin Slug /\ None \notin Article
  BY NoneAssumption DEF PInv, TypeOK, Row
<1>2. row'[p] = n /\ \A q \in Article : q # p => row'[q] = row[q]
  BY <1>1
<1>3. \A q \in Article : q # p /\ row[q] # None => row[q].slug # to /\ row[q].slug # from
  BY <1>1 DEF AddressInv, AddressesAreUnique, Free, Exists
<1>4. \A s \in Slug : known'[s] = IF n.firstPublished /\ s = to THEN p ELSE known[s]
  BY <1>1
<1>5. AddressesAreUnique'
  BY <1>1, <1>2, <1>3 DEF AddressInv, AddressesAreUnique
<1>6. RequestsKeepAddresses'
  BY DEF AddressInv, RequestsKeepAddresses, Idle
<1>7. KnownArePublished'
  BY <1>1, <1>2, <1>4 DEF AddressInv, KnownArePublished
<1>8. PublishedAreKnown'
  <2>1. SUFFICES ASSUME NEW q \in Article, row'[q] # None, row'[q].firstPublished
                 PROVE  known'[row'[q].slug] = q
    BY DEF PublishedAreKnown
  <2>2. CASE q = p BY <1>1, <1>2, <1>4, <2>1, <2>2
  <2>3. CASE q # p
    <3>1. row'[q] = row[q] /\ row[q] # None /\ row[q].slug # to /\ row[q].slug \in Slug
      BY <1>1, <1>2, <1>3, <2>1, <2>3 DEF Row
    <3>2. known[row[q].slug] = q BY <2>1, <3>1 DEF AddressInv, PublishedAreKnown
    <3>3. QED BY <1>4, <3>1, <3>2
  <2>4. QED BY <2>2, <2>3
<1>9. KnownLead'
  <2>1. SUFFICES ASSUME NEW s \in Slug, known'[s] # None, row'[known'[s]].slug # s
                 PROVE  /\ redirect'[s] = row'[known'[s]].slug
                        /\ redirect'[row'[known'[s]].slug] = None
    BY DEF KnownLead
  <2>2. ~(n.firstPublished /\ s = to)
    BY <1>2, <1>4, <2>1
  <2> DEFINE q == known[s]
             at == row[q].slug
  <2>3. known'[s] = q /\ q \in Article /\ row[q] # None /\ row[q].firstPublished /\ row[q] \in Row
        /\ at \in Slug
    BY <1>1, <1>4, <2>1, <2>2 DEF AddressInv, KnownArePublished, Row
  <2>4. at = s \/ (redirect[s] = at /\ redirect[at] = None)
    BY <2>1, <2>3 DEF AddressInv, KnownLead
  <2>5. CASE redirect' = redirect /\ (to = from \/ ~row[p].firstPublished)
    <3>1. row'[q].slug = at BY <1>2, <2>3, <2>5
    <3>2. QED BY <2>1, <2>3, <2>4, <2>5, <3>1
  <2>6. CASE redirect' = Redirected(from, to) /\ to # from /\ row[p].firstPublished
             /\ n.firstPublished
    <3>1. /\ redirect'[from] = to /\ redirect'[to] = None
          /\ \A x \in Slug \ {from, to} :
               redirect'[x] = IF redirect[x] = from THEN to ELSE redirect[x]
      BY <1>1, <2>6 DEF Redirected
    <3>2. s # to BY <2>2, <2>6
    <3>3. CASE q = p
      <4>1. row'[q].slug = to BY <1>2, <3>3
      <4>2. CASE s = from BY <2>3, <3>1, <4>1, <4>2
      <4>3. CASE s # from
        <5>1. redirect[s] = from BY <2>4, <3>3, <4>3
        <5>2. QED BY <2>3, <3>1, <3>2, <4>1, <4>3, <5>1
      <4>4. QED BY <4>2, <4>3
    <3>4. CASE q # p
      <4>1. row'[q] = row[q] /\ at # to /\ at # from BY <1>2, <1>3, <2>3, <3>4
      <4>2. s # from
        <5>1. known[from] = p BY <1>1, <2>6 DEF AddressInv, PublishedAreKnown
        <5>2. QED BY <3>4, <5>1
      <4>3. redirect[s] = at /\ redirect[at] = None BY <2>1, <2>3, <2>4, <4>1
      <4>4. redirect'[s] = at BY <3>1, <3>2, <4>1, <4>2, <4>3
      <4>5. redirect'[at] = None BY <1>1, <2>3, <3>1, <4>1, <4>3
      <4>6. QED BY <2>3, <4>1, <4>4, <4>5
    <3>5. QED BY <3>3, <3>4
  <2>7. QED BY <2>5, <2>6
<1>10. QED BY <1>5, <1>6, <1>7, <1>8, <1>9 DEF AddressInv

\* Nothing but a desk, and what is on it goes by where the article is.
LEMMA AddressCheck ==
  ASSUME PInv, AddressInv, NEW e \in Editor, Check(e) \/ Refuse(e)
  PROVE  AddressInv'
<1> DEFINE Keeps(d) == /\ d.op = "save" => d.input.slug = d.seen.slug \/ ~d.seen.firstPublished
                       /\ d.op = "move" => d.input.slug # d.seen.slug
<1>0. desk \in [Editor -> Desk] BY DEF PInv, TypeOK
<1>1. ASSUME NEW op, NEW input, Submit(e, op, input),
             op = "save" => input.slug = Current(e).slug \/ ~Current(e).firstPublished,
             op = "move" => input.slug # Current(e).slug
      PROVE  \E d : Keeps(d) /\ Puts(e, d)
  <2> DEFINE d == [desk[e] EXCEPT !.op = op, !.seen = Current(e), !.input = input]
  <2>1. d.op = op /\ d.seen = Current(e) /\ d.input = input BY <1>0 DEF Desk
  <2>2. Keeps(d) BY <1>1, <2>1
  <2> HIDE DEF d
  <2>3. Puts(e, d) BY <1>1 DEF d, Submit
  <2>4. QED BY <2>2, <2>3
<1>2. ASSUME NEW i \in Input, CheckSave(e, i) PROVE \E d : Keeps(d) /\ Puts(e, d)
  BY <1>1, <1>2 DEF CheckSave
<1>3. ASSUME NEW s \in Slug, CheckMove(e, s) PROVE \E d : Keeps(d) /\ Puts(e, d)
  <2>1. Fresh(e) /\ Free(s) /\ Submit(e, "move", [Same(Current(e)) EXCEPT !.slug = s])
    BY <1>3 DEF CheckMove
  <2>2. desk[e].article \in Article /\ Exists(desk[e].article)
    BY <2>1 DEF Fresh, PInv, DesksHoldCopies, Copy, CopyOf, Exists
  <2>3. s # Current(e).slug BY <2>1, <2>2 DEF Free, Current
  <2>4. [Same(Current(e)) EXCEPT !.slug = s].slug = s BY DEF Same
  <2>5. QED BY <1>1, <2>1, <2>3, <2>4
<1>4. ASSUME NEW op \in Transition, NEW at \in Time, CheckTransition(e, op, at)
      PROVE  \E d : Keeps(d) /\ Puts(e, d)
  BY <1>1, <1>4 DEF CheckTransition, Transition
<1>5. ASSUME CheckFeature(e) \/ CheckUnfeature(e) PROVE \E d : Keeps(d) /\ Puts(e, d)
  <2>1. Submit(e, "feature", Same(Current(e))) \/ Submit(e, "unfeature", Same(Current(e)))
    BY <1>5 DEF CheckFeature, CheckUnfeature
  <2>2. QED BY <1>1, <2>1
<1>6. ASSUME NEW d, d.op \notin {"save", "move"}, Puts(e, d) PROVE \E x : Keeps(x) /\ Puts(e, x)
  BY <1>6
<1>7. \E d : Keeps(d) /\ Puts(e, d)
  <2> HIDE DEF Keeps
  <2>1. ASSUME Refuse(e) PROVE \E d : Keeps(d) /\ Puts(e, d)
    BY <1>6, <2>1 DEF Refuse, Idle
  <2>2. ASSUME NEW p \in Article, View(e, p) PROVE \E d : Keeps(d) /\ Puts(e, d)
    BY <1>6, <2>2 DEF View
  <2>3. ASSUME NEW p \in Article, NEW i \in Input, CheckCreate(e, p, i)
        PROVE  \E d : Keeps(d) /\ Puts(e, d)
    BY <1>6, <2>3 DEF CheckCreate
  <2>4. QED BY <1>2, <1>3, <1>4, <1>5, <2>1, <2>2, <2>3 DEF Check
<1>8. PICK d : Keeps(d) /\ Puts(e, d) BY <1>7
<1>9. UNCHANGED <<row, redirect, known>> /\ \A x \in Editor : desk'[x] = IF x = e THEN d ELSE desk[x]
  BY <1>0, <1>8 DEF Puts
<1>10. RequestsKeepAddresses'
  BY <1>8, <1>9 DEF AddressInv, RequestsKeepAddresses
<1>11. QED
  BY <1>9, <1>10 DEF AddressInv, AddressesAreUnique, KnownArePublished, PublishedAreKnown, KnownLead

LEMMA AddressCommit == ASSUME PInv, AddressInv, NEW e \in Editor, Commit(e) PROVE AddressInv'
<1> DEFINE d == desk[e]
           p == d.article
           w == Written(row[p], d.op, d.input)
           n == Bumped(w)
<1>1. /\ d.op \in Request \ {"create"} /\ p \in Article /\ d.input \in Input
      /\ row[p] \in Row /\ row[p] # None /\ d.seen = row[p] /\ w \in Row
  BY CommitFinds
<1>2. /\ row' = [row EXCEPT ![p] = n]
      /\ redirect' = IF d.op = "move" /\ d.seen.firstPublished
                     THEN Redirected(d.seen.slug, n.slug) ELSE redirect
      /\ known' = IF n.firstPublished THEN [known EXCEPT ![n.slug] = p] ELSE known
      /\ desk' = [desk EXCEPT ![e] = Idle]
      /\ d.op \in {"save", "move"} /\ d.input.slug # row[p].slug => Free(d.input.slug)
  BY DEF Commit, Accepted
<1>3. /\ row[p].firstPublished => w.firstPublished
      /\ w.slug = IF d.op \in {"save", "move"} THEN d.input.slug ELSE row[p].slug
  BY <1>1, WrittenKeepsAddress
<1> HIDE DEF w
<1>4. n \in Row /\ n.slug = w.slug /\ n.firstPublished = w.firstPublished
  BY <1>1, BumpedIsNew DEF Bumped, Row
<1> HIDE DEF n
<1>5. /\ d.op = "save" => d.input.slug = row[p].slug \/ ~row[p].firstPublished
      /\ d.op = "move" => d.input.slug # row[p].slug
  BY <1>1 DEF AddressInv, RequestsKeepAddresses
<1>6. \A x \in Editor : desk'[x] = desk[x] \/ desk'[x] = Idle
  BY <1>2 DEF PInv, TypeOK
<1>7. n.slug # row[p].slug => Free(n.slug)
  BY <1>2, <1>3, <1>4
<1>8. CASE d.op = "move" /\ row[p].firstPublished
  BY <1>1, <1>2, <1>3, <1>4, <1>5, <1>6, <1>7, <1>8, AddressWrite
<1>9. CASE ~(d.op = "move" /\ row[p].firstPublished)
  <2>1. redirect' = redirect /\ (n.slug = row[p].slug \/ ~row[p].firstPublished)
    BY <1>1, <1>2, <1>3, <1>4, <1>5, <1>9
  <2>2. QED BY <1>1, <1>2, <1>3, <1>4, <1>6, <1>7, <2>1, AddressWrite
<1>10. QED BY <1>8, <1>9

LEMMA AddressCreate == ASSUME PInv, AddressInv, NEW e \in Editor, CommitCreate(e) PROVE AddressInv'
<1> DEFINE d == desk[e]
           p == d.article
<1>1. /\ p \in Article /\ row[p] = None /\ Free(d.input.slug)
  BY DEF CommitCreate, PInv, CreationsAreNew
<1>2. /\ row'[p].slug = d.input.slug /\ ~row'[p].firstPublished
      /\ \A q \in Article : q # p => row'[q] = row[q]
      /\ UNCHANGED <<redirect, known>>
      /\ \A x \in Editor : desk'[x] = desk[x] \/ desk'[x] = Idle
  BY <1>1 DEF CommitCreate, PInv, TypeOK
<1>3. \A s \in Slug : known[s] # None => known[s] \in Article /\ known[s] # p
  BY <1>1 DEF AddressInv, KnownArePublished, PInv, TypeOK
<1>4. AddressesAreUnique'
  BY <1>1, <1>2 DEF AddressInv, AddressesAreUnique, Free, Exists
<1>5. RequestsKeepAddresses'
  BY <1>2 DEF AddressInv, RequestsKeepAddresses, Idle
<1>6. KnownArePublished' /\ KnownLead'
  BY <1>2, <1>3 DEF AddressInv, KnownArePublished, KnownLead
<1>7. PublishedAreKnown'
  BY <1>2 DEF AddressInv, PublishedAreKnown
<1>8. QED BY <1>4, <1>5, <1>6, <1>7 DEF AddressInv

LEMMA AddressTreat ==
  ASSUME PInv, AddressInv, NEW w \in Worker, NEW p \in Article, PublishDue(w, p) \/ ReturnToDraft(w, p)
  PROVE  AddressInv'
<1>1. /\ row[p] \in Row /\ row[p] # None
      /\ \A e \in Editor : desk'[e] = desk[e]
      /\ redirect' = redirect
  BY TreatFinds DEF PublishDue, ReturnToDraft
<1>2. CASE PublishDue(w, p)
  <2> DEFINE m == [row[p] EXCEPT !.status = "published", !.scheduledAt = 0, !.firstPublished = TRUE]
             n == Bumped(m)
  <2>1. row' = [row EXCEPT ![p] = n] /\ known' = [known EXCEPT ![n.slug] = p]
    BY <1>2 DEF PublishDue, Written
  <2>2. m \in Row /\ m.slug = row[p].slug /\ m.firstPublished
    <3>1. 0 \in Time BY LimitAssumption DEF Time
    <3>2. QED BY <1>1, <3>1 DEF Row, Status
  <2> HIDE DEF m
  <2>3. n \in Row /\ n.slug = row[p].slug /\ n.firstPublished
    BY <2>2, BumpedIsNew DEF Bumped, Row
  <2> HIDE DEF n
  <2>4. QED BY <1>1, <2>1, <2>3, AddressWrite
<1>3. CASE ReturnToDraft(w, p)
  <2> DEFINE m == [row[p] EXCEPT !.status = "draft", !.scheduledAt = 0]
             n == Bumped(m)
  <2>1. row' = [row EXCEPT ![p] = n] /\ known' = known
    BY <1>3 DEF ReturnToDraft, PInv, TypeOK
  <2>2. m \in Row /\ m.slug = row[p].slug /\ m.firstPublished = row[p].firstPublished
    <3>1. 0 \in Time BY LimitAssumption DEF Time
    <3>2. QED BY <1>1, <3>1 DEF Row, Status
  <2> HIDE DEF m
  <2>3. n \in Row /\ n.slug = row[p].slug /\ n.firstPublished = row[p].firstPublished
    BY <2>2, BumpedIsNew DEF Bumped, Row
  <2> HIDE DEF n
  <2>4. n.firstPublished => known' = [known EXCEPT ![n.slug] = p]
    <3>1. n.firstPublished => known[n.slug] = p
      BY <1>1, <2>3 DEF AddressInv, PublishedAreKnown
    <3>2. known \in [Slug -> Article \cup {None}] BY DEF PInv, TypeOK
    <3>3. QED BY <2>1, <3>1, <3>2
  <2>5. QED BY <1>1, <2>1, <2>3, <2>4, AddressWrite
<1>4. QED BY <1>2, <1>3

LEMMA AddressStep == PInv /\ AddressInv /\ [Next]_vars => AddressInv'
<1> SUFFICES ASSUME PInv, AddressInv, [Next]_vars PROVE AddressInv' OBVIOUS
<1>1. ASSUME UNCHANGED <<row, desk, redirect, known>> PROVE AddressInv'
  BY <1>1 DEF AddressInv, AddressesAreUnique, RequestsKeepAddresses, KnownArePublished,
              PublishedAreKnown, KnownLead
<1>2. CASE \E a \in Term : Administer(a)
  BY <1>1, <1>2 DEF Administer, CountLive, Deactivate, Activate
<1>3. CASE \E w \in Worker : ReadDue(w) \/ StopPass(w) \/ \E q \in Article : SkipDue(w, q)
  BY <1>1, <1>3 DEF ReadDue, StopPass, SkipDue
<1>4. CASE Tick \/ UNCHANGED vars BY <1>1, <1>4 DEF Tick, vars
<1>5. QED
  BY <1>2, <1>3, <1>4, AddressCheck, AddressCommit, AddressCreate, AddressTreat
     DEF Next, Publish, Treat

\* An address at which an article was published is its address still, or leads
\* there in one hop, through any number of changes of slug, until another published
\* article takes it.  A redirect that leads away from the present address is another
\* matter (LiveArticleIsServed).
THEOREM AddressesLead == Spec => []OldAddressesLead
<1>1. Init => AddressInv
  <2> SUFFICES ASSUME Init PROVE AddressInv OBVIOUS
  <2> USE DEF Init
  <2>1. AddressesAreUnique /\ RequestsKeepAddresses
    BY DEF AddressesAreUnique, RequestsKeepAddresses, Idle
  <2>2. KnownArePublished /\ PublishedAreKnown /\ KnownLead
    BY DEF KnownArePublished, PublishedAreKnown, KnownLead
  <2>3. QED BY <2>1, <2>2 DEF AddressInv
<1>2. AddressInv => OldAddressesLead
  BY DEF AddressInv, KnownLead, OldAddressesLead
<1> QED BY <1>1, <1>2, AddressStep, InductiveInvariant, PTL DEF Spec

=============================================================================
