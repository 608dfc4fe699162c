-------------------------------- MODULE Pages --------------------------------
(***************************************************************************)
(* Information pages: the handlers of StaticPagesService beside the worker *)
(* that publishes scheduled pages.  A page is asked for by its address and *)
(* the version of the form; some transactions then write by id and         *)
(* version, some by address and version, and a removal by address alone.   *)
(* Pages move and go, and their addresses are given to other pages, whose  *)
(* versions begin at 1 again.                                              *)
(*                                                                         *)
(* A text is a member of Text and those that meet the rules of publication *)
(* are Complete.                                                           *)
(***************************************************************************)
EXTENDS Naturals, FiniteSets

CONSTANTS
  Page,             \* ids of pages
  Slug, System,     \* addresses, and those of the registry
  Text, Complete,   \* contents, and those that can be published
  Editor, Worker,
  MaxRevisions,     \* REVISIONS_KEPT
  MaxTime,          \* bound on the clock
  MaxVersion,       \* bound on the versions an editor changes, per page
  None, Gone

ASSUME AddressAssumption == System \subseteq Slug /\ Complete \subseteq Text
ASSUME LimitAssumption   == MaxRevisions \in Nat \ {0} /\ MaxTime \in Nat

VARIABLES
  now,        \* the clock
  row,        \* the pages table: None before a page is made, Gone after
  desk,       \* what each editor has open or has submitted
  pass,       \* what the publisher read and has not yet treated
  revision,   \* the content revisions
  redirect,   \* where an address leads instead
  announced,  \* what visitors would see as of the last invalidation event
  known,      \* history: the published page last served at each address, as
              \* long as it stays published
  confused,   \* history: an address was given to a page while an editor had a
              \* form or a request for the page that had it before
  shadowed    \* history: the pages that got their address while a redirect led
              \* away from it

vars == <<now, row, desk, pass, revision, redirect, announced, known, confused, shadowed>>

Status == {"draft", "scheduled", "published"}

\* at = 0: not scheduled.
Time == 0..MaxTime

Row == [status : Status, version : Nat \ {0}, text : Text, slug : Slug, at : Time]

\* The fields a request can set.
Input == [text : Text, slug : Slug, at : Time]

\* By address and version, by id and version.
ByAddress == {"save", "publish", "unpublish"}
ById      == {"schedule", "unschedule", "move"}

Desk == [op : {"idle", "view", "create", "remove"} \cup ByAddress \cup ById, slug : Slug \cup {None},
         page : Page \cup {None}, seen : Row \cup {None}, input : Input \cup {None}]

Revision == [page : Page, version : Nat \ {0}, text : Text]

ASSUME NoneAssumption == None \notin Row /\ None \notin Page /\ None \notin Slug /\ Gone \notin Row \cup {None}

Idle == [op |-> "idle", slug |-> None, page |-> None, seen |-> None, input |-> None]

NothingDue == [p \in Page |-> None]

Face == [text : Text, slug : Slug]

Init ==
  /\ now = 0
  /\ row = [p \in Page |-> None]
  /\ desk = [e \in Editor |-> Idle]
  /\ pass = [w \in Worker |-> NothingDue]
  /\ revision = {}
  /\ redirect = [s \in Slug |-> None]
  /\ announced = [p \in Page |-> None]
  /\ known = [s \in Slug |-> None]
  /\ confused = FALSE
  /\ shadowed = {}

Tick == /\ now < MaxTime
        /\ now' = now + 1
        /\ UNCHANGED <<row, desk, pass, revision, redirect, announced, known, confused, shadowed>>

-----------------------------------------------------------------------------
(* Requests: the form, and what a handler checks outside its transaction.  *)

Exists(p) == row[p] \in Row

Holders(s) == {p \in Page : Exists(p) /\ row[p].slug = s}

Free(s) == Holders(s) = {}

Public(r) == r \in Row /\ r.status = "published"

\* What a visitor is shown of a page.
FaceOf(r) == IF Public(r) THEN [text |-> r.text, slug |-> r.slug] ELSE None

Puts(e, d) == /\ desk' = [desk EXCEPT ![e] = d]
              /\ UNCHANGED <<now, row, pass, revision, redirect, announced, known, confused, shadowed>>

\* The editor opens the page at an address; a system page opens unwritten too.
View(e, s) ==
  /\ desk[e].op = "idle"
  /\ \/ \E p \in Holders(s) :
          Puts(e, [op |-> "view", slug |-> s, page |-> p, seen |-> row[p], input |-> None])
     \/ /\ Free(s) /\ s \in System
        /\ Puts(e, [op |-> "view", slug |-> s, page |-> None, seen |-> None, input |-> None])

\* The handler has loaded page p, the one at the address of the form, in the
\* version of the form.
Loads(e, p) ==
  /\ desk[e].op = "view" /\ p \in Holders(desk[e].slug)
  /\ desk[e].seen # None /\ row[p].version = desk[e].seen.version
  /\ row[p].version < MaxVersion[p]

Submit(e, op, p, input) ==
  Puts(e, [desk[e] EXCEPT !.op = op, !.page = p, !.seen = row[p], !.input = input])

Same(r) == [text |-> r.text, slug |-> r.slug, at |-> r.at]

\* create, and duplicate, which creates with the text of another page.
CheckCreate(e, s, text) ==
  /\ desk[e].op = "idle" /\ s \notin System /\ Free(s)
  /\ Puts(e, [op |-> "create", slug |-> s, page |-> None, seen |-> None,
              input |-> [text |-> text, slug |-> s, at |-> 0]])

\* update, and restoreRevision, which updates with the text of a revision.  A
\* system page that was never written is at version 0.
CheckSave(e, text) ==
  \/ \E p \in Page : Loads(e, p) /\ Submit(e, "save", p, [Same(row[p]) EXCEPT !.text = text])
  \/ /\ desk[e].op = "view" /\ desk[e].seen = None /\ Free(desk[e].slug)
     /\ Puts(e, [desk[e] EXCEPT !.op = "save", !.input = [text |-> text, slug |-> desk[e].slug, at |-> 0]])

\* setStatus: blockersFor finds nothing, or the page is taken back.
CheckPublish(e, p) == Loads(e, p) /\ row[p].text \in Complete /\ Submit(e, "publish", p, Same(row[p]))

CheckUnpublish(e, p) == Loads(e, p) /\ Submit(e, "unpublish", p, Same(row[p]))

CheckSchedule(e, p, at) ==
  /\ Loads(e, p) /\ row[p].status # "published"
  /\ at > now /\ row[p].text \in Complete
  /\ Submit(e, "schedule", p, [Same(row[p]) EXCEPT !.at = at])

CheckUnschedule(e, p) ==
  Loads(e, p) /\ row[p].status = "scheduled" /\ Submit(e, "unschedule", p, Same(row[p]))

\* changeAddress: no page has the address and no rule leads away from it.
CheckMove(e, p, s) ==
  /\ Loads(e, p) /\ desk[e].slug \notin System
  /\ s \notin System /\ Free(s) /\ redirect[s] = None
  /\ Submit(e, "move", p, [Same(row[p]) EXCEPT !.slug = s])

\* remove asks for no version.
CheckRemove(e, p) ==
  /\ desk[e].op = "view" /\ desk[e].slug \notin System
  /\ p \in Holders(desk[e].slug) /\ row[p].status # "published"
  /\ Submit(e, "remove", p, None)

-----------------------------------------------------------------------------
(* The transactions.                                                       *)

\* Mutant of Written: a publication leaves the schedule standing.
WrittenInPart(r, op, input) ==
  CASE op = "save"       -> [r EXCEPT !.text = input.text]
    [] op = "move"       -> [r EXCEPT !.slug = input.slug]
    [] op = "publish"    -> [r EXCEPT !.status = "published"]
    [] op = "schedule"   -> [r EXCEPT !.status = "scheduled", !.at = input.at]
    [] op \in {"unpublish", "unschedule"} -> [r EXCEPT !.status = "draft", !.at = 0]

\* The row with the fields of the request's `data`.
Written(r, op, input) ==
  CASE op = "save"       -> [r EXCEPT !.text = input.text]
    [] op = "move"       -> [r EXCEPT !.slug = input.slug]
    [] op = "publish"    -> [r EXCEPT !.status = "published", !.at = 0]
    [] op = "schedule"   -> [r EXCEPT !.status = "scheduled", !.at = input.at]
    [] op \in {"unpublish", "unschedule"} -> [r EXCEPT !.status = "draft", !.at = 0]

Bumped(r) == [r EXCEPT !.version = @ + 1]

\* Whether an invalidation is recorded, decided on the loaded row.
Announces(op, seen) ==
  \/ op \in {"publish", "unpublish"}
  \/ op \in {"save", "move"} /\ seen.status = "published"

\* Mutant of Redirected: the old address stays as it is.
LeftAlone(from, to) == [redirect EXCEPT ![to] = None]

\* writeRedirect: the target serves content, older aliases follow, no chains.
Redirected(from, to) ==
  [s \in Slug |-> CASE s = from -> to
                    [] s = to   -> None
                    [] s \notin {from, to} -> IF redirect[s] = from THEN to ELSE redirect[s]]

\* Mutant of Kept: as many of the oldest are kept.
KeptOldest(p, r) ==
  LET all      == revision \cup {[page |-> p, version |-> r.version, text |-> r.text]}
      older(x) == {y \in all : y.page = p /\ y.version < x.version}
  IN {x \in all : x.page = p => Cardinality(older(x)) < MaxRevisions}

\* The version that a save replaces is kept, once, and the oldest give way.
Kept(p, r) ==
  LET has      == \E x \in revision : x.page = p /\ x.version = r.version
      all      == IF has THEN revision
                  ELSE revision \cup {[page |-> p, version |-> r.version, text |-> r.text]}
      newer(x) == {y \in all : y.page = p /\ y.version > x.version}
  IN {x \in all : x.page = p => Cardinality(newer(x)) < MaxRevisions}

\* The addresses that page p, now in row r, has had while published.
KnownWith(p, r) ==
  [s \in Slug |-> IF Public(r) /\ r.slug = s THEN p
                  ELSE IF known[s] = p /\ ~Public(r) THEN None ELSE known[s]]

\* Address s is given to page p.
Confuses(p, s) == \E e \in Editor : desk[e].slug = s /\ desk[e].page \notin {None, p}

\* Page p is given address s; cleared: the rule that leads away from it, if any, goes.
ShadowedBy(p, s, cleared) ==
  IF redirect[s] # None /\ ~cleared THEN shadowed \cup {p} ELSE shadowed \ {p}

\* Mutant of Target: a save goes to whatever page has the address.
TargetAtAll(e) == Holders(desk[e].slug)

\* The row that the condition of updateMany finds.
Target(e) ==
  LET d  == desk[e]
      at == IF d.op \in ByAddress THEN Holders(d.slug) ELSE {p \in {d.page} : Exists(p)}
  IN {p \in at : row[p].version = d.seen.version}

\* updateMany finds a row, and the unique index lets the address pass.
Accepted(e) ==
  /\ Target(e) # {}
  /\ desk[e].op = "move" => Free(desk[e].input.slug)

Commit(e) ==
  LET d == desk[e]
  IN /\ d.op \in ByAddress \cup ById /\ d.seen # None /\ Accepted(e)
     /\ \E p \in Target(e) :
          LET r == Bumped(Written(row[p], d.op, d.input))
          IN /\ row' = [row EXCEPT ![p] = r]
             /\ announced' = IF Announces(d.op, d.seen) THEN [announced EXCEPT ![p] = FaceOf(r)]
                                                        ELSE announced
             /\ known' = KnownWith(p, r)
             /\ confused' = (confused \/ (d.op = "move" /\ Confuses(p, r.slug)))
             /\ shadowed' = IF d.op = "move" THEN ShadowedBy(p, r.slug, d.seen.status = "published")
                                             ELSE shadowed
     /\ revision' = IF d.op = "save" THEN Kept(d.page, d.seen) ELSE revision
     /\ redirect' = IF d.op = "move" /\ d.seen.status = "published"
                    THEN Redirected(d.seen.slug, d.input.slug) ELSE redirect
     /\ desk' = [desk EXCEPT ![e] = Idle]
     /\ UNCHANGED <<now, pass>>

\* create, and the first save of a system page.
Creates(d) == d.op = "create" \/ (d.op = "save" /\ d.seen = None)

CommitCreate(e, p) ==
  LET d == desk[e]
  IN /\ Creates(d) /\ Free(d.slug) /\ row[p] = None
     /\ row' = [row EXCEPT ![p] = [status |-> "draft", version |-> 1, text |-> d.input.text,
                                   slug |-> d.slug, at |-> 0]]
     /\ confused' = (confused \/ Confuses(p, d.slug))
     /\ shadowed' = ShadowedBy(p, d.slug, FALSE)
     /\ desk' = [desk EXCEPT ![e] = Idle]
     /\ UNCHANGED <<now, pass, revision, redirect, announced, known>>

\* The revisions of the loaded page go, and whatever page has the address.
CommitRemove(e) ==
  LET d == desk[e]
  IN /\ d.op = "remove"
     /\ \E p \in Holders(d.slug) :
          /\ row' = [row EXCEPT ![p] = Gone]
          /\ known' = KnownWith(p, Gone)
          /\ shadowed' = shadowed \ {p}
     /\ revision' = {r \in revision : r.page # d.page}
     /\ desk' = [desk EXCEPT ![e] = Idle]
     /\ UNCHANGED <<now, pass, redirect, announced, confused>>

\* 404 and 409: the page is gone, the form is out of date, the address is
\* taken.  An editor who has only looked may close the form.
Refuse(e) ==
  LET d == desk[e]
  IN /\ \/ d.op = "view"
        \/ Creates(d) /\ ~Free(d.slug)
        \/ d.op \in ByAddress \cup ById /\ d.seen # None /\ ~Accepted(e)
        \/ d.op = "remove" /\ Free(d.slug)
     /\ Puts(e, Idle)

-----------------------------------------------------------------------------
(* content.publish-scheduled, the part about pages.                        *)

IsDue(p) == Exists(p) /\ row[p].status = "scheduled" /\ row[p].at <= now

ReadDue(w) ==
  /\ pass[w] = NothingDue /\ \E p \in Page : IsDue(p)
  /\ pass' = [pass EXCEPT ![w] = [p \in Page |-> IF IsDue(p) THEN row[p] ELSE None]]
  /\ UNCHANGED <<now, row, desk, revision, redirect, announced, known, confused, shadowed>>

\* Mutant of StillScheduled: the version is not compared.
StillScheduledAtAll(p, due) == Exists(p) /\ row[p].status = "scheduled"

\* The condition of the publisher's updateMany.
StillScheduled(p, due) ==
  Exists(p) /\ row[p].status = "scheduled" /\ row[p].version = due.version

Treated(w, p) == pass' = [pass EXCEPT ![w][p] = None]

PublishDue(w, p) ==
  LET due == pass[w][p]
      r   == Bumped(Written(row[p], "publish", None))
  IN /\ due # None /\ StillScheduled(p, due) /\ due.text \in Complete
     /\ row' = [row EXCEPT ![p] = r]
     /\ announced' = [announced EXCEPT ![p] = FaceOf(r)]
     /\ known' = KnownWith(p, r)
     /\ Treated(w, p)
     /\ UNCHANGED <<now, desk, revision, redirect, confused, shadowed>>

ReturnToDraft(w, p) ==
  LET due == pass[w][p]
  IN /\ due # None /\ StillScheduled(p, due) /\ due.text \notin Complete
     /\ row' = [row EXCEPT ![p] = Bumped(Written(row[p], "unschedule", None))]
     /\ Treated(w, p)
     /\ UNCHANGED <<now, desk, revision, redirect, announced, known, confused, shadowed>>

\* Another replica, or an editor's change, got there first.
SkipDue(w, p) ==
  /\ pass[w][p] # None /\ ~StillScheduled(p, pass[w][p])
  /\ Treated(w, p)
  /\ UNCHANGED <<now, row, desk, revision, redirect, announced, known, confused, shadowed>>

\* A query throws or the process dies: what was not reached waits for the
\* next pass.
StopPass(w) ==
  /\ pass[w] # NothingDue
  /\ pass' = [pass EXCEPT ![w] = NothingDue]
  /\ UNCHANGED <<now, row, desk, revision, redirect, announced, known, confused, shadowed>>

-----------------------------------------------------------------------------

Check(e) ==
  \/ \E s \in Slug : View(e, s)
  \/ \E s \in Slug, text \in Text : CheckCreate(e, s, text)
  \/ \E text \in Text : CheckSave(e, text)
  \/ \E p \in Page : CheckPublish(e, p) \/ CheckUnpublish(e, p) \/ CheckUnschedule(e, p) \/ CheckRemove(e, p)
  \/ \E p \in Page, at \in Time : CheckSchedule(e, p, at)
  \/ \E p \in Page, s \in Slug : CheckMove(e, p, s)

Act(e) == Commit(e) \/ (\E p \in Page : CommitCreate(e, p)) \/ CommitRemove(e) \/ Refuse(e)

Publish(w) ==
  \/ ReadDue(w) \/ StopPass(w)
  \/ \E p \in Page : PublishDue(w, p) \/ ReturnToDraft(w, p) \/ SkipDue(w, p)

Next ==
  \/ Tick
  \/ \E e \in Editor : Check(e) \/ Act(e)
  \/ \E w \in Worker : Publish(w)

Spec == Init /\ [][Next]_vars

-----------------------------------------------------------------------------
(* Properties.                                                             *)

\* The state has its types, a date goes with a schedule, no two pages have one
\* address, and a page has no more revisions than are kept.
TypeOK ==
  /\ now \in Time
  /\ row \in [Page -> Row \cup {None, Gone}]
  /\ \A p \in Page : Exists(p) => (row[p].status = "scheduled" <=> row[p].at # 0)
  /\ \A s \in Slug : Cardinality(Holders(s)) <= 1
  /\ desk \in [Editor -> Desk]
  /\ pass \in [Worker -> [Page -> Row \cup {None}]]
  /\ revision \subseteq Revision
  /\ \A p \in Page : Cardinality({r \in revision : r.page = p}) <= MaxRevisions
  /\ redirect \in [Slug -> Slug \cup {None}]
  /\ announced \in [Page -> Face \cup {None}]
  /\ known \in [Slug -> Page \cup {None}]
  /\ confused \in BOOLEAN /\ shadowed \subseteq Page

Holds(e, p) == desk[e].op \in ByAddress \cup ById /\ desk[e].page = p /\ desk[e].seen = row[p]

HasRead(w, p) == pass[w][p] # None /\ pass[w][p] = row[p]

\* No lost update and no unwanted publication: a page that stays is changed only
\* by an editor who was looking at exactly that row, or published or returned
\* by the publisher that decided on exactly that row when its time had come,
\* until an address under which an editor has a page open is given to another:
\* a save and a change of status then find the other page by address and
\* version (update, setStatus).
NothingOverwrittenUnseen ==
  [][\A p \in Page : ~confused' /\ Exists(p) /\ row'[p] # row[p] /\ row'[p] # Gone =>
       \/ \E e \in Editor : Holds(e, p) /\ desk'[e] = Idle
       \/ IsDue(p) /\ \E w \in Worker : HasRead(w, p) /\ pass'[w][p] = None]_vars

\* "Every save keeps the version it replaces, draft or published": the replaced
\* text is a revision of that page under its own version, and a revision goes
\* only with its page or for as many newer ones as are kept, whatever saves,
\* removals, moves and publications interleave, up to the same exception.
EarlierVersionsAreKept ==
  [][~confused' =>
       /\ \A p \in Page : Exists(p) /\ row'[p] \in Row /\ row'[p].text # row[p].text =>
            [page |-> p, version |-> row[p].version, text |-> row[p].text] \in revision'
       /\ \A r \in revision \ revision' :
            \/ row'[r.page] = Gone
            \/ Cardinality({x \in revision' : x.page = r.page /\ x.version > r.version}) >= MaxRevisions]_vars

\* A visitor finds a published page as it is: what it shows has been announced
\* (recordInvalidation), up to the same exception, and each address it has been
\* published at leads to it in at most one hop for as long as it stays published and
\* no other page is published there (changeAddress, writeRedirect): no rule leads away
\* from its present address, and from the others one does that leads there.  Only a
\* page that got its present address while a rule led away from it is hidden there:
\* create asks for no rule, and the rule check of changeAddress comes before its
\* transaction.  A page removed by a handler that had not seen it published is not
\* announced.
VisitorsFindPages ==
  /\ ~confused => \A p \in Page : row[p] # Gone => announced[p] = FaceOf(row[p])
  /\ \A s \in Slug : known[s] # None =>
       LET p    == known[s]
           home == row[p].slug
       IN /\ s # home => redirect[s] = home
          /\ redirect[home] = None \/ p \in shadowed

=============================================================================
