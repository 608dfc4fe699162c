---------------------------- MODULE Contributions ----------------------------
(***************************************************************************)
(* What visitors send in and moderators decide: reviews of a business with *)
(* the rating they add up to, comments of an article in threads of two     *)
(* levels, reports of abuse, and the idempotency keys of the public forms. *)
(*                                                                         *)
(* A form passes lookup, submission and remembering in steps of its own;   *)
(* a moderator decides on a page loaded earlier, and ReviewsService looks  *)
(* at the review before it opens the transaction that changes it and the   *)
(* rating.  Texts, addresses and the flag for repeated reviewers are data  *)
(* no decision depends on and are left out.                                *)
(***************************************************************************)
EXTENDS Integers, FiniteSets, Functions

CONSTANTS
  Row,          \* reviews, comments and reports, each a row once it is made
  Business,
  Post,
  Stars,        \* the ratings a review may give
  Moderator,
  Visitor,      \* submissions under way at once
  Key,          \* idempotency keys
  MaxBegun,     \* bound on the submissions begun
  MaxDecisions, \* bound on the decisions there were when another page is opened
  None

ASSUME ContributionsAssumption ==
  /\ IsFiniteSet(Row) /\ Stars \subseteq Nat
  /\ MaxBegun \in Nat /\ MaxDecisions \in Nat
  /\ None \notin Row \cup Business \cup Post

\* What a form says: a review of a business, a comment on an article that
\* answers nothing or another comment, or a report of a row.
ReviewForm  == [kind : {"review"}, home : Business, stars : Stars, about : {None}]
CommentForm == [kind : {"comment"}, home : Post, stars : {0}, about : Row \cup {None}]
ReportForm  == [kind : {"report"}, home : {None}, stars : {0}, about : Row]
Form == ReviewForm \cup CommentForm \cup ReportForm

\* An idempotency key within the scope of its form.
Token == {"review", "comment", "report"} \X (Business \cup Post \cup {None}) \X Key
TokenOf(f, k) == <<f.kind, f.home, k>>

\* Spam is a rejection by another name.
Status == {"pending", "approved", "rejected", "open", "investigating", "resolved"}
Action == {"approve", "reject", "redact", "investigate", "resolve", "reply"}

Rec == [form : Form, token : Token \cup {None}, parent : Row \cup {None},
        status : Status, version : Nat]

\* The work of a moderator: the page shows seen; loaded, it has passed the checks
\* of the service; in the transaction, it holds the review's row and has noticed
\* whether the business has a rating (found).
Work == [pc : {"page", "loaded", "tx"}, on : Row, seen : Rec, action : Action, found : BOOLEAN]

\* A submission past its lookup: the parent it will answer, then the row it made.
Submission == [pc : {"expired", "clear", "checked", "made"}, form : Form, key : Key,
               parent : Row \cup {None}, row : Row \cup {None}]

Receipt == [form : Form, row : Row \cup {None}, fresh : BOOLEAN]

ASSUME NoneAssumption == None \notin Rec \cup Work \cup Submission \cup Receipt \cup Token

VARIABLES
  row,       \* tables reviews, comments and abuse_reports
  rating,    \* business_ratings
  memo,      \* idempotency_records
  work, submission,
  begun,     \* submissions so far
  excused    \* history: keys of which two requests overlapped, or whose receipt
             \* was never stored or has expired

vars == <<row, rating, memo, work, submission, begun, excused>>

TypeOK ==
  /\ row \in [Row -> Rec \cup {None}]
  /\ rating \in [Business -> [exists : BOOLEAN, count : Nat, sum : Nat]]
  /\ memo \in [Token -> Receipt \cup {None}]
  /\ work \in [Moderator -> Work \cup {None}]
  /\ submission \in [Visitor -> Submission \cup {None}]
  /\ begun \in 0 .. MaxBegun
  /\ excused \subseteq Token

-----------------------------------------------------------------------------
\* Rules of moderation.

Made(r) == row[r] # None

Is(r, kind) == Made(r) /\ row[r].form.kind = kind

Approved(r) == Made(r) /\ row[r].status = "approved"

\* MODERATION_ACTIONS, and what the handlers of reports write.
Outcome(rec, a) ==
  CASE a = "approve"     -> "approved"
    [] a = "reject"      -> "rejected"
    [] a = "investigate" -> "investigating"
    [] a = "resolve"     -> "resolved"
    [] OTHER             -> rec.status

\* What a moderator is offered for a row.
Applicable(rec) ==
  CASE rec.form.kind = "report"  -> {"investigate", "resolve"}
    [] rec.form.kind = "review"  -> {"approve", "reject", "redact"}
    [] rec.form.kind = "comment" -> {"approve", "reject", "redact", "reply"}

\* isNoOpDecision and the checks of investigate and resolve.
Redundant(rec, a) ==
  \/ a # "redact" /\ Outcome(rec, a) = rec.status
  \/ a = "investigate" /\ rec.status # "open"

\* Mutant: every decision other than approval takes one away.
DeltaAlways(rec, a) ==
  IF rec.form.kind # "review" THEN 0
  ELSE IF Outcome(rec, a) = "approved" THEN 1 ELSE -1

\* aggregateDelta: how many approved reviews the decision adds.
Delta(rec, a) ==
  IF rec.form.kind # "review" \/ (rec.status = "approved") = (Outcome(rec, a) = "approved") THEN 0
  ELSE IF Outcome(rec, a) = "approved" THEN 1 ELSE -1

\* A comment that can be answered: it and the thread it belongs to are approved.
Answerable(r, post) ==
  /\ Is(r, "comment") /\ Approved(r) /\ row[r].form.home = post
  /\ row[r].parent # None => Approved(row[r].parent)

\* Mutant: a reply hangs under whatever it answers.
ReplyToTarget(r) == r

\* replyParentId: a reply to a reply joins its thread.
ReplyParent(r) == IF row[r].parent # None THEN row[r].parent ELSE r

AtLeast0(n) == IF n > 0 THEN n ELSE 0

Decided(rec, a) == [rec EXCEPT !.status = Outcome(rec, a), !.version = @ + 1]

-----------------------------------------------------------------------------
\* A public form.

InFlight(v, t) == submission[v] # None /\ TokenOf(submission[v].form, submission[v].key) = t

\* lookup: a stored receipt answers the same form again and refuses another;
\* neither changes anything.  Without one, or with one that has expired, the
\* submission goes on.
Begin(v, f, k) ==
  LET t == TokenOf(f, k)
  IN /\ submission[v] = None /\ begun < MaxBegun
     /\ begun' = begun + 1
     /\ memo[t] # None => ~memo[t].fresh
     /\ submission' = [submission EXCEPT ![v] =
          [pc |-> IF memo[t] = None THEN "clear" ELSE "expired",
           form |-> f, key |-> k, parent |-> None, row |-> None]]
     /\ excused' = IF \E w \in Visitor : InFlight(w, t) THEN excused \cup {t} ELSE excused
     /\ UNCHANGED <<row, rating, memo, work>>

\* The record found expired is deleted by its key.
DropExpired(v) ==
  LET s == submission[v]
  IN /\ s # None /\ s.pc = "expired"
     /\ memo' = [memo EXCEPT ![TokenOf(s.form, s.key)] = None]
     /\ submission' = [submission EXCEPT ![v].pc = "clear"]
     /\ UNCHANGED <<row, rating, work, excused, begun>>

\* submit up to the insertion: a reply needs a comment it can answer, a report a
\* review or comment that is approved (or gets a receipt and makes no row).
Check(v) ==
  LET s == submission[v]
      goOn(pc, parent) == submission' = [submission EXCEPT ![v].pc = pc, ![v].parent = parent]
  IN /\ s # None /\ s.pc = "clear"
     /\ \/ /\ s.form.kind # "report" /\ s.form.about = None
           /\ goOn("checked", None)
        \/ /\ s.form.kind = "comment" /\ s.form.about # None
           /\ Answerable(s.form.about, s.form.home)
           /\ goOn("checked", ReplyParent(s.form.about))
        \/ /\ s.form.kind = "report"
           /\ goOn(IF Approved(s.form.about) THEN "checked" ELSE "made", None)
     /\ UNCHANGED <<row, rating, memo, work, excused, begun>>

\* Not published, not acknowledged, over a limit, not verified, nothing to
\* answer, or the insertion failed: no receipt is stored for an error.
Refuse(v) ==
  /\ submission[v] # None /\ submission[v].pc \in {"expired", "clear", "checked"}
  /\ submission' = [submission EXCEPT ![v] = None]
  /\ UNCHANGED <<row, rating, memo, work, excused, begun>>

Create(v, r) ==
  LET s == submission[v]
  IN /\ s # None /\ s.pc = "checked" /\ ~Made(r)
     /\ row' = [row EXCEPT ![r] =
          [form |-> s.form, token |-> TokenOf(s.form, s.key), parent |-> s.parent,
           status |-> IF s.form.kind = "report" THEN "open" ELSE "pending", version |-> 1]]
     /\ submission' = [submission EXCEPT ![v].pc = "made", ![v].row = r]
     /\ UNCHANGED <<rating, memo, work, excused, begun>>

\* Mutant: the receipt is stored in the scope of another form.
RememberElsewhere(v) ==
  LET s == submission[v]
  IN /\ s # None /\ s.pc = "made"
     /\ memo' = [memo EXCEPT ![<<"report", None, s.key>>] = [form |-> s.form, row |-> s.row, fresh |-> TRUE]]
     /\ submission' = [submission EXCEPT ![v] = None]
     /\ UNCHANGED <<row, rating, work, excused, begun>>

\* remember: the receipt is stored over whatever is there.
Remember(v) ==
  LET s == submission[v]
  IN /\ s # None /\ s.pc = "made"
     /\ memo' = [memo EXCEPT ![TokenOf(s.form, s.key)] = [form |-> s.form, row |-> s.row, fresh |-> TRUE]]
     /\ submission' = [submission EXCEPT ![v] = None]
     /\ UNCHANGED <<row, rating, work, excused, begun>>

\* The process dies, or the receipt cannot be stored, after the row was made.
Forget(v) ==
  /\ submission[v] # None /\ submission[v].pc = "made"
  /\ excused' = excused \cup {TokenOf(submission[v].form, submission[v].key)}
  /\ submission' = [submission EXCEPT ![v] = None]
  /\ UNCHANGED <<row, rating, memo, work, begun>>

\* A day passes.
Expire(t) ==
  /\ memo[t] # None /\ memo[t].fresh
  /\ memo' = [memo EXCEPT ![t].fresh = FALSE]
  /\ excused' = excused \cup {t}
  /\ UNCHANGED <<row, rating, work, submission, begun>>

Submit ==
  \/ \E v \in Visitor :
       \/ \E f \in Form, k \in Key : Begin(v, f, k)
       \/ DropExpired(v) \/ Check(v) \/ Refuse(v) \/ Remember(v) \/ Forget(v)
       \/ \E r \in Row : Create(v, r)
  \/ \E t \in Token : Expire(t)

-----------------------------------------------------------------------------
\* A moderator.

Doing(m, pc) == work[m] # None /\ work[m].pc = pc

Held(r) == \E m \in Moderator : Doing(m, "tx") /\ work[m].on = r

Done(m) == work' = [work EXCEPT ![m] = None]

Decisions == SumFunction([r \in Row |-> IF Made(r) THEN row[r].version - 1 ELSE 0])

\* The page of a row, and what the moderator will ask for.
Open(m, r, a) ==
  /\ work[m] = None /\ Made(r) /\ a \in Applicable(row[r]) /\ Decisions < MaxDecisions
  /\ work' = [work EXCEPT ![m] = [pc |-> "page", on |-> r, seen |-> row[r], action |-> a, found |-> FALSE]]
  /\ UNCHANGED <<row, rating, memo, submission, excused, begun>>

\* The service reads the row and checks: the version the page showed and a
\* decision that changes something; for a reply, what can be answered.
Load(m) ==
  LET w == work[m]
      passes == IF w.action = "reply" THEN Answerable(w.on, row[w.on].form.home)
                ELSE row[w.on].version = w.seen.version /\ ~Redundant(row[w.on], w.action)
  IN /\ Doing(m, "page")
     /\ work' = [work EXCEPT ![m] = IF passes THEN [w EXCEPT !.pc = "loaded", !.seen = row[w.on]] ELSE None]
     /\ UNCHANGED <<row, rating, memo, submission, excused, begun>>

\* Mutant: the update is by id alone.
UpdateById(w) == TRUE

\* The update under the version the page showed finds it unless the row was changed.
Unchanged(w) == row[w.on].version = w.seen.version

\* One statement, or one transaction that needs no rating, decides.
Decide(m) ==
  LET w == work[m]
  IN /\ Doing(m, "loaded") /\ w.action # "reply" /\ ~Held(w.on)
     /\ Unchanged(w) => Delta(w.seen, w.action) = 0
     /\ row' = IF Unchanged(w) THEN [row EXCEPT ![w.on] = Decided(row[w.on], w.action)] ELSE row
     /\ Done(m)
     /\ UNCHANGED <<rating, memo, submission, excused, begun>>

\* moderate opens its transaction: the review's row is updated and held, and
\* whether the business has a rating yet is read.
Enter(m) ==
  LET w == work[m]
  IN /\ Doing(m, "loaded") /\ ~Held(w.on)
     /\ Unchanged(w) /\ Delta(w.seen, w.action) # 0
     /\ work' = [work EXCEPT ![m] = [w EXCEPT !.pc = "tx", !.found = rating[w.seen.form.home].exists]]
     /\ UNCHANGED <<row, rating, memo, submission, excused, begun>>

\* Mutant: a rating that cannot be made is passed over.
CommitRegardless(m) ==
  LET w == work[m]
      b == w.seen.form.home
      d == Delta(w.seen, w.action)
      points == d * w.seen.form.stars
  IN /\ Doing(m, "tx")
     /\ row' = [row EXCEPT ![w.on] = Decided(row[w.on], w.action)]
     /\ rating' = IF w.found \/ ~rating[b].exists
                  THEN [rating EXCEPT ![b] = [exists |-> TRUE, count |-> @.count + d, sum |-> @.sum + points]]
                  ELSE rating
     /\ Done(m)
     /\ UNCHANGED <<memo, submission, excused, begun>>

\* The rating is made or added to, and the transaction commits; when another
\* transaction has made it in the meantime the key is taken and all is undone.
Commit(m) ==
  LET w == work[m]
      b == w.seen.form.home
      d == Delta(w.seen, w.action)
      points == d * w.seen.form.stars
  IN /\ Doing(m, "tx")
     /\ IF w.found \/ ~rating[b].exists
        THEN /\ row' = [row EXCEPT ![w.on] = Decided(row[w.on], w.action)]
             /\ rating' = [rating EXCEPT ![b] =
                  IF w.found THEN [exists |-> TRUE, count |-> @.count + d, sum |-> @.sum + points]
                  ELSE [exists |-> TRUE, count |-> AtLeast0(d), sum |-> AtLeast0(points)]]
        ELSE UNCHANGED <<row, rating>>
     /\ Done(m)
     /\ UNCHANGED <<memo, submission, excused, begun>>

\* A reply of the team is published at once, in the thread it was read in.
StaffReply(m, r) ==
  LET w == work[m]
  IN /\ Doing(m, "loaded") /\ w.action = "reply" /\ ~Made(r)
     /\ row' = [row EXCEPT ![r] =
          [form |-> [kind |-> "comment", home |-> w.seen.form.home, stars |-> 0, about |-> w.on],
           token |-> None, parent |-> IF w.seen.parent # None THEN w.seen.parent ELSE w.on,
           status |-> "approved", version |-> 1]]
     /\ Done(m)
     /\ UNCHANGED <<rating, memo, submission, excused, begun>>

\* The moderator leaves, a check outside this model refuses (a reason is missing,
\* the article is closed), or the process dies: an open transaction is undone.
Abandon(m) ==
  /\ work[m] # None
  /\ Done(m)
  /\ UNCHANGED <<row, rating, memo, submission, excused, begun>>

Moderate ==
  \E m \in Moderator :
    \/ \E r \in Row, a \in Action : Open(m, r, a)
    \/ Load(m) \/ Decide(m) \/ Enter(m) \/ Commit(m) \/ Abandon(m)
    \/ \E r \in Row : StaffReply(m, r)

-----------------------------------------------------------------------------
Init ==
  /\ row = [r \in Row |-> None]
  /\ rating = [b \in Business |-> [exists |-> FALSE, count |-> 0, sum |-> 0]]
  /\ memo = [t \in Token |-> None]
  /\ work = [m \in Moderator |-> None]
  /\ submission = [v \in Visitor |-> None]
  /\ begun = 0 /\ excused = {}

Next == Submit \/ Moderate

Spec == Init /\ [][Next]_vars

-----------------------------------------------------------------------------
\* Properties.

Counted(b) == {r \in Row : Is(r, "review") /\ Approved(r) /\ row[r].form.home = b}

\* One element for every star of the approved reviews of a business.
StarsOf(b) == UNION {{r} \X (1 .. row[r].form.stars) : r \in Counted(b)}

\* The rating of a business is at all times the number and the sum of its
\* approved reviews, whatever moderators decide at once and however the first
\* rating comes about (reviews.service.ts moderate, review-rules.ts).
RatingIsExact ==
  \A b \in Business :
    rating[b].count = Cardinality(Counted(b)) /\ rating[b].sum = Cardinality(StarsOf(b))

\* A row once made changes only by a decision of a moderator who was shown it as
\* it then was: nobody's decision is replaced by one taken on an older state.
NothingDecidedUnseen ==
  [][\A r \in Row : Made(r) /\ row'[r] # row[r] =>
       \E m \in Moderator : work[m] # None /\ work[m].on = r /\ work[m].seen = row[r]]_vars

\* A key makes a second row in its scope only if two of its requests overlapped,
\* a receipt was lost with the process that was to store it, or a day went by:
\* one request after another, each answered, never does.
DuplicatesExplained ==
  \A r, s \in Row :
    r # s /\ Made(r) /\ Made(s) /\ row[r].token # None /\ row[r].token = row[s].token
      => row[r].token \in excused

\* Threads keep two levels: what a reply hangs under is a comment of the same
\* article that hangs under nothing.
ThreadsStayTwoLevels ==
  \A r \in Row :
    Made(r) /\ row[r].parent # None =>
      LET p == row[r].parent
      IN Is(p, "comment") /\ row[p].parent = None /\ row[p].form.home = row[r].form.home
=============================================================================
