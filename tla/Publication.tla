---------------------------- MODULE Publication ----------------------------
(***************************************************************************)
(* Articles from draft to archive: the handlers of BlogService, each of    *)
(* which loads a row, decides, and writes it in a transaction that is      *)
(* conditional on the version, beside the worker's scheduled publisher,    *)
(* which reads a batch of due rows and then treats them one by one; the    *)
(* authors and categories that publication depends on; and the redirects   *)
(* that slug changes leave.                                                *)
(*                                                                         *)
(* A text is a member of Text and those that meet the length rules of the  *)
(* checklist are Complete.  Author and category have the same handlers and *)
(* the same part in every rule, so one Term stands for both.               *)
(***************************************************************************)
EXTENDS Naturals, FiniteSets

CONSTANTS
  Article,          \* ids of articles
  Slug,             \* addresses under /blog
  Text, Complete,   \* contents, and those long enough to be published
  Term,             \* authors and categories
  Editor, Worker,
  MaxFeatured,      \* MAX_FEATURED_POSTS
  MaxTime,          \* bound on the clock
  MaxVersion,       \* bound on the versions an editor changes, per article
  None

ASSUME CompleteAssumption == Complete \subseteq Text
ASSUME LimitAssumption    == MaxFeatured \in Nat /\ MaxTime \in Nat

VARIABLES
  now,        \* the clock
  row,        \* the posts table
  active,     \* authors and categories that are active
  desk,       \* what each editor has open or has submitted
  cleared,    \* those whose deactivation has counted no live article
  pass,       \* what the publisher read and has not yet treated
  redirect,   \* the redirects table: where an address leads instead
  announced,  \* what visitors would see as of the last invalidation event
  known       \* history: the article that each address was last given to,
              \* among those that have been published

vars == <<now, row, active, desk, cleared, pass, redirect, announced, known>>

Status == {"draft", "scheduled", "published", "archived"}

\* scheduledAt = 0: none.  The other dates are kept as whether they are set.
Time == 0..MaxTime

Row == [status : Status, version : Nat \ {0}, text : Text, slug : Slug, author : Term,
        scheduledAt : Time, firstPublished : BOOLEAN, featured : BOOLEAN]

\* The fields a request can set.
Input == [text : Text, slug : Slug, author : Term, at : Time]

Transition == {"publish", "schedule", "unpublish", "archive", "restore"}

Request == {"create", "save", "move", "feature", "unfeature"} \cup Transition

Desk == [op : {"idle", "view"} \cup Request, article : Article \cup {None},
         seen : Row \cup {None}, input : Input \cup {None}]

Idle == [op |-> "idle", article |-> None, seen |-> None, input |-> None]

Due == [post : Row, credited : BOOLEAN]

ASSUME NoneAssumption == None \notin Row \cup Article \cup Due \cup Slug

NothingDue == [p \in Article |-> None]

\* What a visitor is shown of an article.
Face == [text : Text, slug : Slug, author : Term, featured : BOOLEAN]

FaceOf(r) == IF r # None /\ r.status = "published"
             THEN [text |-> r.text, slug |-> r.slug, author |-> r.author, featured |-> r.featured]
             ELSE None

Init ==
  /\ now = 0
  /\ row = [p \in Article |-> None]
  /\ active = Term
  /\ desk = [e \in Editor |-> Idle]
  /\ cleared = {}
  /\ pass = [w \in Worker |-> NothingDue]
  /\ redirect = [s \in Slug |-> None]
  /\ announced = [p \in Article |-> None]
  /\ known = [s \in Slug |-> None]

Tick == /\ now < MaxTime
        /\ now' = now + 1
        /\ UNCHANGED <<row, active, desk, cleared, pass, redirect, announced, known>>

-----------------------------------------------------------------------------
(* Requests: the form, the checks outside the transaction.                 *)

Exists(p) == row[p] # None

Free(s) == \A p \in Article : Exists(p) => row[p].slug # s

Puts(e, d) == /\ desk' = [desk EXCEPT ![e] = d]
              /\ UNCHANGED <<now, row, active, cleared, pass, redirect, announced, known>>

\* The editor opens the article: the form carries its version.
View(e, p) ==
  /\ desk[e].op = "idle" /\ Exists(p)
  /\ Puts(e, [op |-> "view", article |-> p, seen |-> row[p], input |-> None])

\* The request names the version of the form; the row is loaded and must
\* still have it.
Fresh(e) == /\ desk[e].op = "view"
            /\ row[desk[e].article].version = desk[e].seen.version
            /\ row[desk[e].article].version < MaxVersion[desk[e].article]

Current(e) == row[desk[e].article]

Submit(e, op, input) ==
  Fresh(e) /\ Puts(e, [desk[e] EXCEPT !.op = op, !.seen = Current(e), !.input = input])

Same(r) == [text |-> r.text, slug |-> r.slug, author |-> r.author, at |-> r.scheduledAt]

\* createPost: the slug must be free and the references active when looked at.
CheckCreate(e, p, input) ==
  /\ desk[e].op = "idle" /\ ~Exists(p)
  /\ \A x \in Editor : desk[x].article # p        \* a new article has an id of its own
  /\ Free(input.slug) /\ input.author \in active
  /\ input.at = 0
  /\ Puts(e, [op |-> "create", article |-> p, seen |-> None, input |-> input])

\* updatePost and, for a text the article had before, restoreRevision.
CheckSave(e, input) ==
  /\ Fresh(e) /\ Current(e).status # "archived"
  /\ input.slug # Current(e).slug => ~Current(e).firstPublished /\ Free(input.slug)
  /\ input.author # Current(e).author => input.author \in active
  /\ input.at = Current(e).scheduledAt
  /\ Submit(e, "save", input)

\* changeSlug.
CheckMove(e, s) ==
  /\ Fresh(e) /\ Current(e).status # "archived" /\ Free(s)
  /\ Submit(e, "move", [Same(Current(e)) EXCEPT !.slug = s])

\* postPublicationBlockers finds nothing.
Publishable(text, credited) == text \in Complete /\ credited

From(op) == CASE op \in {"publish", "schedule"} -> {"draft", "scheduled"}
              [] op = "unpublish"               -> {"published", "scheduled"}
              [] op = "archive"                 -> {"draft", "scheduled", "published"}
              [] op = "restore"                 -> {"archived"}

\* transition.
CheckTransition(e, op, at) ==
  /\ Fresh(e) /\ Current(e).status \in From(op)
  /\ op \in {"publish", "schedule"} =>
       Publishable(Current(e).text, Current(e).author \in active)
  /\ IF op = "schedule" THEN at > now ELSE at = Current(e).scheduledAt
  /\ Submit(e, op, [Same(Current(e)) EXCEPT !.at = at])

\* setFeatured.
CheckFeature(e) ==
  /\ Fresh(e) /\ Current(e).status = "published" /\ ~Current(e).featured
  /\ Submit(e, "feature", Same(Current(e)))

CheckUnfeature(e) ==
  /\ Fresh(e) /\ Current(e).featured
  /\ Submit(e, "unfeature", Same(Current(e)))

-----------------------------------------------------------------------------
(* The transactions.                                                       *)

\* Mutant of Withdrawn: the article keeps its place and its date.
WithdrawnInPart(r, to) == [r EXCEPT !.status = to]

\* An article that leaves the blog gives up its place; only unpublish clears
\* the date.
Withdrawn(r, to) ==
  IF to = "draft" THEN [r EXCEPT !.status = to, !.featured = FALSE, !.scheduledAt = 0]
                  ELSE [r EXCEPT !.status = to, !.featured = FALSE]

\* The row with the fields of the request's `data`.
Written(r, op, input) ==
  CASE op = "save"      -> [r EXCEPT !.text = input.text, !.slug = input.slug, !.author = input.author]
    [] op = "move"      -> [r EXCEPT !.slug = input.slug]
    [] op = "publish"   -> [r EXCEPT !.status = "published", !.scheduledAt = 0, !.firstPublished = TRUE]
    [] op = "schedule"  -> [r EXCEPT !.status = "scheduled", !.scheduledAt = input.at]
    [] op = "unpublish" -> Withdrawn(r, "draft")
    [] op = "archive"   -> Withdrawn(r, "archived")
    [] op = "restore"   -> [r EXCEPT !.status = "draft", !.scheduledAt = 0]
    [] op = "feature"   -> [r EXCEPT !.featured = TRUE]
    [] op = "unfeature" -> [r EXCEPT !.featured = FALSE]

Bumped(r) == [r EXCEPT !.version = @ + 1]

\* Mutant of Announces: a change of slug is announced while published only, as
\* a change of text is, and an article that leaves is not.
AnnouncesArrivals(op, seen) ==
  \/ op = "publish"
  \/ op \in {"save", "move", "feature", "unfeature"} /\ seen.status = "published"

\* Whether the transaction records an invalidation, decided on the loaded row.
Announces(op, seen) ==
  CASE op = "save" -> seen.status = "published"
    [] op = "move" -> seen.firstPublished
    [] op \in {"publish", "unpublish", "archive", "feature", "unfeature"} -> TRUE
    [] op \in {"schedule", "restore"} -> FALSE

\* Mutant of Redirected: older aliases are left pointing at the old address.
RedirectedOnce(from, to) == [redirect EXCEPT ![to] = None, ![from] = to]

\* writeRedirect: the target serves content, older aliases follow, no chains.
Redirected(from, to) ==
  [s \in Slug |-> CASE s = from -> to
                    [] s = to /\ s # from -> None
                    [] s \notin {from, to} -> IF redirect[s] = from THEN to ELSE redirect[s]]

\* Mutant of Unchanged: updateMany where id.
UnchangedById(p, seen) == row[p] # None

\* The version the write is conditional on.
Unchanged(p, seen) == row[p].version = seen.version

\* The condition of updateMany, the unique index on slugs, and, under the
\* locks on the featured rows, the limit.
Accepted(e) ==
  LET d == desk[e]
      others == {q \in Article \ {d.article} : Exists(q) /\ row[q].featured}
  IN /\ Unchanged(d.article, d.seen)
     /\ (d.op \in {"save", "move"} /\ d.input.slug # row[d.article].slug) => Free(d.input.slug)
     /\ d.op = "feature" =>
          row[d.article].status = "published" /\ Cardinality(others) < MaxFeatured

Commit(e) ==
  LET d == desk[e]
      p == d.article
      r == Bumped(Written(row[p], d.op, d.input))
  IN /\ d.op \in Request \ {"create"} /\ Accepted(e)
     /\ row' = [row EXCEPT ![p] = r]
     /\ announced' = IF Announces(d.op, d.seen) THEN [announced EXCEPT ![p] = FaceOf(r)] ELSE announced
     /\ redirect' = IF d.op = "move" /\ d.seen.firstPublished
                    THEN Redirected(d.seen.slug, r.slug) ELSE redirect
     /\ known' = IF r.firstPublished THEN [known EXCEPT ![r.slug] = p] ELSE known
     /\ desk' = [desk EXCEPT ![e] = Idle]
     /\ UNCHANGED <<now, active, cleared, pass>>

CommitCreate(e) ==
  LET d == desk[e]
  IN /\ d.op = "create" /\ Free(d.input.slug)
     /\ row' = [row EXCEPT ![d.article] =
                  [status |-> "draft", version |-> 1, text |-> d.input.text, slug |-> d.input.slug,
                   author |-> d.input.author, scheduledAt |-> 0,
                   firstPublished |-> FALSE, featured |-> FALSE]]
     /\ desk' = [desk EXCEPT ![e] = Idle]
     /\ UNCHANGED <<now, active, cleared, pass, redirect, announced, known>>

\* 409: the form is out of date, the slug is taken or the places are.  An
\* editor who has only looked may close the form.
Refuse(e) ==
  /\ \/ desk[e].op = "view"
     \/ desk[e].op = "create" /\ ~Free(desk[e].input.slug)
     \/ desk[e].op \in Request \ {"create"} /\ ~Accepted(e)
  /\ Puts(e, Idle)

-----------------------------------------------------------------------------
(* setAuthorActive and setTermActive: the count is outside the transaction. *)
(* Their version check admits one of several deactivations.                *)

CountLive(a) ==
  /\ a \in active \ cleared
  /\ \A p \in Article : Exists(p) /\ row[p].author = a => row[p].status = "archived"
  /\ cleared' = cleared \cup {a}
  /\ UNCHANGED <<now, row, active, desk, pass, redirect, announced, known>>

Deactivate(a) ==
  /\ a \in cleared
  /\ active' = active \ {a}
  /\ cleared' = cleared \ {a}
  /\ UNCHANGED <<now, row, desk, pass, redirect, announced, known>>

Activate(a) ==
  /\ a \in Term \ active
  /\ active' = active \cup {a}
  /\ UNCHANGED <<now, row, desk, cleared, pass, redirect, announced, known>>

-----------------------------------------------------------------------------
(* content.publish-scheduled.                                              *)

IsDue(p) == Exists(p) /\ row[p].status = "scheduled" /\ row[p].scheduledAt <= now

ReadDue(w) ==
  /\ pass[w] = NothingDue /\ \E p \in Article : IsDue(p)
  /\ pass' = [pass EXCEPT ![w] =
       [p \in Article |-> IF IsDue(p) THEN [post |-> row[p], credited |-> (row[p].author \in active)]
                                      ELSE None]]
  /\ UNCHANGED <<now, row, active, desk, cleared, redirect, announced, known>>

\* Mutant of StillScheduled: the version is not compared.
StillScheduledAtAll(p, post) == row[p].status = "scheduled"

\* The condition of the publisher's updateMany.
StillScheduled(p, post) == row[p].status = "scheduled" /\ row[p].version = post.version

Treated(w, p) == pass' = [pass EXCEPT ![w][p] = None]

PublishDue(w, p) ==
  LET due == pass[w][p]
      r   == Bumped(Written(row[p], "publish", None))
  IN /\ due # None /\ StillScheduled(p, due.post) /\ Publishable(due.post.text, due.credited)
     /\ row' = [row EXCEPT ![p] = r]
     /\ announced' = [announced EXCEPT ![p] = FaceOf(r)]
     /\ known' = [known EXCEPT ![r.slug] = p]
     /\ Treated(w, p)
     /\ UNCHANGED <<now, active, desk, cleared, redirect>>

\* Mutant of ReturnToDraft: the article is passed over.
PassOver(w, p) ==
  /\ pass[w][p] # None /\ ~Publishable(pass[w][p].post.text, pass[w][p].credited)
  /\ Treated(w, p)
  /\ UNCHANGED <<now, row, active, desk, cleared, redirect, announced, known>>

ReturnToDraft(w, p) ==
  LET due == pass[w][p]
  IN /\ due # None /\ StillScheduled(p, due.post) /\ ~Publishable(due.post.text, due.credited)
     /\ row' = [row EXCEPT ![p] = Bumped([@ EXCEPT !.status = "draft", !.scheduledAt = 0])]
     /\ Treated(w, p)
     /\ UNCHANGED <<now, active, desk, cleared, redirect, announced, known>>

\* Another replica, or an editor's change, got there first.
SkipDue(w, p) ==
  /\ pass[w][p] # None /\ ~StillScheduled(p, pass[w][p].post)
  /\ Treated(w, p)
  /\ UNCHANGED <<now, row, active, desk, cleared, redirect, announced, known>>

\* A query throws or the process dies: what was not reached waits for the
\* next pass.
StopPass(w) ==
  /\ pass[w] # NothingDue
  /\ pass' = [pass EXCEPT ![w] = NothingDue]
  /\ UNCHANGED <<now, row, active, desk, cleared, redirect, announced, known>>

-----------------------------------------------------------------------------

Treat(w, p) == PublishDue(w, p) \/ ReturnToDraft(w, p) \/ SkipDue(w, p)

Check(e) ==
  \/ \E p \in Article : View(e, p)
  \/ \E p \in Article, i \in Input : CheckCreate(e, p, i)
  \/ \E i \in Input : CheckSave(e, i)
  \/ \E s \in Slug : CheckMove(e, s)
  \/ \E op \in Transition, at \in Time : CheckTransition(e, op, at)
  \/ CheckFeature(e)
  \/ CheckUnfeature(e)

Administer(a) == CountLive(a) \/ Deactivate(a) \/ Activate(a)

Publish(w) == ReadDue(w) \/ StopPass(w) \/ \E p \in Article : Treat(w, p)

Next ==
  \/ Tick
  \/ \E e \in Editor : Check(e) \/ Commit(e) \/ CommitCreate(e) \/ Refuse(e)
  \/ \E a \in Term : Administer(a)
  \/ \E w \in Worker : Publish(w)

Spec == Init /\ [][Next]_vars

\* The task runs every minute, and a failure to treat an article does not
\* repeat for ever.  Nothing is asked of editors.
Fairness == \A w \in Worker : WF_vars(ReadDue(w)) /\ \A p \in Article : SF_vars(Treat(w, p))

FairSpec == Spec /\ Fairness

-----------------------------------------------------------------------------
(* Properties.                                                             *)

\* The dates of a row agree with its status.
Consistent(r) == /\ r.status = "scheduled" => r.scheduledAt # 0
                 /\ r.status \in {"draft", "published"} => r.scheduledAt = 0
                 /\ r.status = "published" => r.firstPublished

\* The state has its types, and a row its dates.
TypeOK ==
  /\ now \in Time
  /\ \A p \in Article : row[p] # None => Consistent(row[p])
  /\ row \in [Article -> Row \cup {None}]
  /\ active \subseteq Term
  /\ desk \in [Editor -> Desk]
  /\ cleared \subseteq active
  /\ pass \in [Worker -> [Article -> Due \cup {None}]]
  /\ redirect \in [Slug -> Slug \cup {None}]
  /\ announced \in [Article -> Face \cup {None}]
  /\ known \in [Slug -> Article \cup {None}]

Holds(e, p) == desk[e].article = p /\ desk[e].op \in Request /\ desk[e].seen = row[p]

HasRead(w, p) == pass[w][p] # None /\ pass[w][p].post = row[p]

\* No lost update: a row is only ever changed by an editor who was looking at
\* exactly that row when asking for the change, or by the publisher when it
\* decided on exactly that row (updateMany where version, blog.service.ts and
\* scheduled-tasks.ts).
NothingOverwrittenUnseen ==
  [][\A p \in Article : row'[p] # row[p] =>
       \/ \E e \in Editor : Holds(e, p) /\ desk'[e] = Idle
       \/ \E w \in Worker : HasRead(w, p) /\ pass'[w][p] = None]_vars

Public(r) == r # None /\ r.status = "published"

\* What goes public is a complete text, whatever was edited since it was
\* approved, and it goes public because its time has come or because an editor
\* asks for this very row to be published (transition, content.publish-scheduled).
PublishedAsApproved ==
  [][\A p \in Article : Public(row'[p]) /\ ~Public(row[p]) =>
       /\ row'[p].text \in Complete
       /\ \/ IsDue(p)
          \/ \E e \in Editor : Holds(e, p) /\ desk[e].op = "publish"]_vars

\* Not more articles are featured than there are places, and all of them are
\* published, in whatever order articles are featured, withdrawn and published
\* again (setFeatured, transition).
FeaturedArePublished ==
  LET featured == {p \in Article : row[p] # None /\ row[p].featured}
  IN Cardinality(featured) <= MaxFeatured /\ \A p \in featured : Public(row[p])

\* Whatever visitors should see differently has an invalidation event behind
\* it: handlers decide to write one from the row they loaded, not from the row
\* they change (recordInvalidation, CACHE 002).
EveryChangeIsAnnounced == \A p \in Article : announced[p] = FaceOf(row[p])

\* An address at which an article was published is its address still, or leads
\* there in one hop, through any number of changes of slug, until another published
\* article takes the address (recordSlugChange, SEO 004).  Of a redirect that leads
\* away from the address the article is at, this says nothing: LiveArticleIsServed.
OldAddressesLead ==
  \A s \in Slug : known[s] # None =>
    \/ row[known[s]].slug = s
    \/ redirect[s] = row[known[s]].slug /\ redirect[redirect[s]] = None

\* A due article is published or returned to draft.
DueIsSettled == \A p \in Article : IsDue(p) ~> ~IsDue(p)

\* "The new target is live content: it must not itself redirect away"
\* (redirects.service.ts, writeRedirect).
LiveArticleIsServed == \A p \in Article : Public(row[p]) => redirect[row[p].slug] = None

=============================================================================
