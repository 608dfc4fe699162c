------------------------- MODULE ContributionsProofs -------------------------
(***************************************************************************)
(* Proofs about Contributions: for any number of rows, businesses,         *)
(* moderators and visitors, and without the bounds of the runs.            *)
(***************************************************************************)
EXTENDS Contributions, FiniteSetTheorems, TLAPS

\* Work refers to a row that exists; what was read is older than the row or the
\* same; in the transaction it is the same, and a rating seen is there.
WorkFine(w) ==
  LET r == row[w.on]
  IN /\ Made(w.on)
     /\ r.form = w.seen.form /\ r.parent = w.seen.parent
     /\ w.seen.version <= r.version
     /\ w.seen.version = r.version => w.seen = r
     /\ w.action = "reply" => r.form.kind = "comment"
     /\ w.pc = "tx" => /\ w.seen = r /\ Delta(r, w.action) # 0
                       /\ w.found => rating[r.form.home].exists

WorkSound == \A m \in Moderator : work[m] # None => WorkFine(work[m])

\* The row of a review is held by one transaction.
OneHolder ==
  \A m, n \in Moderator : Doing(m, "tx") /\ Doing(n, "tx") /\ work[m].on = work[n].on => m = n

\* A business without a rating has the empty one, and its stars can be counted.
RatingSound ==
  \A b \in Business :
    /\ ~rating[b].exists => rating[b].count = 0 /\ rating[b].sum = 0
    /\ IsFiniteSet(StarsOf(b))

\* A parent that was looked up stays fit to be answered.
ParentFit(f, p) ==
  p # None => Is(p, "comment") /\ row[p].parent = None /\ row[p].form.home = f.home

ParentsFit ==
  \A v \in Visitor : submission[v] # None => ParentFit(submission[v].form, submission[v].parent)

\* While nothing excuses a key, it has one request at a time, no row before that
\* request makes one, and a receipt once the request is answered.
TokenFine(t) ==
  /\ \A v, w \in Visitor : InFlight(v, t) /\ InFlight(w, t) => v = w
  /\ \A v \in Visitor : InFlight(v, t) /\ submission[v].pc # "made" =>
       memo[t] = None /\ \A r \in Row : Made(r) => row[r].token # t
  /\ memo[t] # None => memo[t].fresh
  /\ (\E r \in Row : Made(r) /\ row[r].token = t) =>
       memo[t] # None \/ \E v \in Visitor : InFlight(v, t) /\ submission[v].pc = "made"

Tokens == \A t \in Token : t \notin excused => TokenFine(t)

IInv ==
  /\ TypeOK /\ WorkSound /\ OneHolder /\ RatingSound /\ RatingIsExact
  /\ ThreadsStayTwoLevels /\ ParentsFit
  /\ Tokens /\ DuplicatesExplained

-----------------------------------------------------------------------------
\* Forms and records.

LEMMA FormShape ==
  ASSUME NEW f \in Form
  PROVE  /\ f.kind \in {"review", "comment", "report"}
         /\ f.home \in Business \cup Post \cup {None}
         /\ f.kind = "review" => f.home \in Business /\ f.stars \in Nat /\ f.about = None
         /\ f.kind = "comment" => f.home \in Post /\ f.about \in Row \cup {None}
         /\ f.kind = "report" => f.about \in Row
  BY ContributionsAssumption DEF Form, ReviewForm, CommentForm, ReportForm

LEMMA TokenIsToken ==
  ASSUME NEW f \in Form, NEW k \in Key
  PROVE  TokenOf(f, k) \in Token
  BY FormShape DEF TokenOf, Token

LEMMA DecidedIsRec ==
  ASSUME NEW rec \in Rec, NEW a \in Action
  PROVE  /\ Decided(rec, a) \in Rec
         /\ Decided(rec, a).form = rec.form /\ Decided(rec, a).token = rec.token
         /\ Decided(rec, a).parent = rec.parent
         /\ Decided(rec, a).version = rec.version + 1
         /\ Decided(rec, a).status = Outcome(rec, a)
<1>1. Outcome(rec, a) \in Status
  BY DEF Outcome, Rec, Status, Action
<1>2. rec.version \in Nat /\ rec.version + 1 \in Nat
  BY DEF Rec
<1>. QED  BY <1>1, <1>2 DEF Decided, Rec

LEMMA DeltaIsOne ==
  ASSUME NEW rec \in Rec, NEW a \in Action
  PROVE  /\ Delta(rec, a) \in {-1, 0, 1}
         /\ Delta(rec, a) # 0 => rec.form.kind = "review"
         /\ Delta(rec, a) = 1 => rec.status # "approved" /\ Outcome(rec, a) = "approved"
         /\ Delta(rec, a) = -1 => rec.status = "approved" /\ Outcome(rec, a) # "approved"
         /\ Delta(rec, a) = 0 /\ rec.form.kind = "review" =>
              (rec.status = "approved" <=> Outcome(rec, a) = "approved")
  BY DEF Delta

LEMMA RowIsRec ==
  ASSUME TypeOK, NEW r \in Row
  PROVE  Made(r) <=> row[r] \in Rec
  BY NoneAssumption DEF TypeOK, Made

LEMMA WorkIsWork ==
  ASSUME TypeOK, NEW m \in Moderator, work[m] # None
  PROVE  /\ work[m] \in Work
         /\ work[m].pc \in {"page", "loaded", "tx"} /\ work[m].on \in Row
         /\ work[m].seen \in Rec /\ work[m].action \in Action /\ work[m].found \in BOOLEAN
<1>1. work[m] \in Work
  BY DEF TypeOK
<1>. QED  BY <1>1 DEF Work

LEMMA SubmissionShape ==
  ASSUME TypeOK, NEW v \in Visitor, submission[v] # None
  PROVE  /\ submission[v] \in Submission
         /\ submission[v].pc \in {"expired", "clear", "checked", "made"}
         /\ submission[v].form \in Form /\ submission[v].key \in Key
         /\ submission[v].parent \in Row \cup {None} /\ submission[v].row \in Row \cup {None}
         /\ TokenOf(submission[v].form, submission[v].key) \in Token
<1>1. submission[v] \in Submission
  BY DEF TypeOK
<1>2. submission[v].form \in Form /\ submission[v].key \in Key
  BY <1>1 DEF Submission
<1>. QED  BY <1>1, <1>2, TokenIsToken DEF Submission

-----------------------------------------------------------------------------
\* Counting stars.

LEMMA StarsPlus ==
  ASSUME NEW S, NEW r, NEW n \in Nat, IsFiniteSet(S),
         S \cap ({r} \X (1 .. n)) = {}
  PROVE  LET T == S \cup ({r} \X (1 .. n))
         IN  IsFiniteSet(T) /\ Cardinality(T) = Cardinality(S) + n
<1>. DEFINE U == {r} \X (1 .. n)
<1>1. IsFiniteSet({r}) /\ Cardinality({r}) = 1
  BY FS_Singleton
<1>2. IsFiniteSet(1 .. n) /\ Cardinality(1 .. n) = n
  BY FS_Interval
<1>3. IsFiniteSet(U) /\ Cardinality(U) = 1 * n
  <2>1. IsFiniteSet(U) /\ Cardinality(U) = Cardinality({r}) * Cardinality(1 .. n)
    BY <1>1, <1>2, FS_Product, Zenon
  <2>. QED  BY <1>1, <1>2, <2>1
<1>4. /\ IsFiniteSet(S \cup U)
      /\ Cardinality(S \cup U) = Cardinality(S) + Cardinality(U) - Cardinality(S \cap U)
  BY <1>3, FS_Union
<1>5. Cardinality(S \cap U) = 0
  BY FS_EmptySet
<1>6. Cardinality(S) \in Nat
  BY FS_CardinalityType
<1>. HIDE DEF U
<1>7. Cardinality(S \cup U) = Cardinality(S) + n
  BY <1>3, <1>4, <1>5, <1>6
<1>. QED  BY <1>4, <1>7 DEF U

\* The stars of a business change only with the reviews that are counted.
LEMMA SameStars ==
  ASSUME NEW b, Counted(b)' = Counted(b),
         \A r \in Counted(b) : row'[r].form = row[r].form
  PROVE  StarsOf(b)' = StarsOf(b)
<1>1. \A r \in Counted(b) : {r} \X (1 .. row'[r].form.stars) = {r} \X (1 .. row[r].form.stars)
  OBVIOUS
<1>2. UNION {{r} \X (1 .. row'[r].form.stars) : r \in Counted(b)}
      = UNION {{r} \X (1 .. row[r].form.stars) : r \in Counted(b)}
  BY <1>1
<1>. QED  BY <1>2 DEF StarsOf

\* The same stars by another function.
LEMMA StarsAlike ==
  ASSUME NEW C, NEW f, NEW g, \A q \in C : f[q] = g[q].form.stars
  PROVE  UNION {{q} \X (1 .. g[q].form.stars) : q \in C} = UNION {{q} \X (1 .. f[q]) : q \in C}
<1>1. \A q \in C : {q} \X (1 .. g[q].form.stars) = {q} \X (1 .. f[q])
  OBVIOUS
<1>. QED  BY <1>1

\* A review joins the ones counted, or leaves them.
LEMMA StarsJoin ==
  ASSUME NEW b, NEW C, NEW D, NEW r, NEW f, NEW g, r \notin C, D = C \cup {r},
         \A x \in D : f[x] = g[x]
  PROVE  LET S == UNION {{x} \X (1 .. f[x]) : x \in C}
             T == UNION {{x} \X (1 .. g[x]) : x \in D}
         IN  T = S \cup ({r} \X (1 .. g[r])) /\ S \cap ({r} \X (1 .. g[r])) = {}
<1>. DEFINE S == UNION {{x} \X (1 .. f[x]) : x \in C}
            T == UNION {{x} \X (1 .. g[x]) : x \in D}
            U == {r} \X (1 .. g[r])
<1>1. \A x \in D : {x} \X (1 .. f[x]) = {x} \X (1 .. g[x])
  OBVIOUS
<1>2. T = S \cup U
  <2>1. ASSUME NEW e \in T PROVE e \in S \cup U
    <3>1. PICK x \in D : e \in {x} \X (1 .. g[x])
      BY <2>1
    <3>2. CASE x = r
      BY <3>1, <3>2
    <3>3. CASE x \in C
      BY <3>1, <3>3, <1>1
    <3>. QED  BY <3>2, <3>3
  <2>2. ASSUME NEW e \in S PROVE e \in T
    <3>1. PICK x \in C : e \in {x} \X (1 .. f[x])
      BY <2>2
    <3>. QED  BY <3>1, <1>1
  <2>3. U \subseteq T
    OBVIOUS
  <2>. QED  BY <2>1, <2>2, <2>3
<1>3. S \cap U = {}
  <2>1. ASSUME NEW e \in S, e \in U PROVE FALSE
    <3>1. PICK x \in C : e \in {x} \X (1 .. f[x])
      BY <2>1
    <3>2. e[1] = x /\ e[1] = r
      BY <2>1, <3>1
    <3>. QED  BY <3>2
  <2>. QED  BY <2>1
<1>. QED  BY <1>2, <1>3

-----------------------------------------------------------------------------
\* What a step that leaves part of the state alone preserves.

LEMMA RowsFrame ==
  ASSUME IInv, UNCHANGED <<row, rating>>
  PROVE  RatingSound' /\ RatingIsExact' /\ ThreadsStayTwoLevels'
<1>1. \A b \in Business : Counted(b)' = Counted(b) /\ StarsOf(b)' = StarsOf(b)
  BY DEF Counted, StarsOf, Is, Made, Approved
<1>. QED  BY <1>1 DEF IInv, RatingSound, RatingIsExact, ThreadsStayTwoLevels, Is, Made

LEMMA WorkFrame ==
  ASSUME IInv, UNCHANGED <<row, rating, work>>
  PROVE  WorkSound' /\ OneHolder'
  BY DEF IInv, WorkSound, WorkFine, OneHolder, Made, Doing

\* Rows that are decided on, and rows that are only read, keep what they say.
SameShape ==
  \A r \in Row :
    /\ Made(r)' <=> Made(r)
    /\ Made(r) => /\ row'[r].form = row[r].form /\ row'[r].token = row[r].token
                  /\ row'[r].parent = row[r].parent

LEMMA FormsFrame ==
  ASSUME IInv, SameShape, UNCHANGED <<submission, memo, excused>>
  PROVE  ThreadsStayTwoLevels' /\ ParentsFit' /\ Tokens' /\ DuplicatesExplained'
<1>. USE DEF IInv, SameShape
<1>1. ThreadsStayTwoLevels'
  <2>1. SUFFICES ASSUME NEW r \in Row, Made(r), row[r].parent # None
                 PROVE  /\ Is(row[r].parent, "comment")
                        /\ row'[row[r].parent].form = row[row[r].parent].form
                        /\ Made(row[r].parent)'
                        /\ row'[row[r].parent].parent = None
                        /\ row[row[r].parent].form.home = row[r].form.home
    BY DEF ThreadsStayTwoLevels, Is
  <2>2. row[r].parent \in Row
    BY <2>1, RowIsRec DEF Rec
  <2>3. /\ Is(row[r].parent, "comment") /\ row[row[r].parent].parent = None
        /\ row[row[r].parent].form.home = row[r].form.home
    BY <2>1 DEF ThreadsStayTwoLevels
  <2>. QED  BY <2>1, <2>2, <2>3 DEF Is
<1>2. ParentsFit'
  <2>1. SUFFICES ASSUME NEW v \in Visitor, submission[v] # None, submission[v].parent # None
                 PROVE  ParentFit(submission[v].form, submission[v].parent)'
    BY DEF ParentsFit, ParentFit
  <2>2. submission[v].parent \in Row
    BY <2>1, SubmissionShape
  <2>3. ParentFit(submission[v].form, submission[v].parent)
    BY <2>1 DEF ParentsFit
  <2>. QED  BY <2>1, <2>2, <2>3 DEF ParentFit, Is
<1>3. Tokens'
  BY DEF Tokens, TokenFine, InFlight, TokenOf
<1>4. DuplicatesExplained'
  BY DEF DuplicatesExplained
<1>. QED  BY <1>1, <1>2, <1>3, <1>4

-----------------------------------------------------------------------------
\* The steps of a form.

LEMMA FormStep ==
  ASSUME IInv, UNCHANGED <<row, rating, work>>, TypeOK', ParentsFit', Tokens',
         excused \subseteq excused'
  PROVE  IInv'
<1>1. DuplicatesExplained'
  BY DEF IInv, DuplicatesExplained, Made
<1>. QED  BY <1>1, RowsFrame, WorkFrame DEF IInv

LEMMA BeginStep ==
  ASSUME IInv, NEW v \in Visitor, NEW f \in Form, NEW k \in Key, Begin(v, f, k)
  PROVE  IInv'
<1>. DEFINE t0 == TokenOf(f, k)
            x == [pc |-> IF memo[t0] = None THEN "clear" ELSE "expired",
                  form |-> f, key |-> k, parent |-> None, row |-> None]
<1>1. /\ submission[v] = None /\ (memo[t0] # None => ~memo[t0].fresh)
      /\ submission' = [submission EXCEPT ![v] = x]
      /\ excused' = IF \E w \in Visitor : InFlight(w, t0) THEN excused \cup {t0} ELSE excused
      /\ UNCHANGED <<row, rating, memo, work>> /\ begun < MaxBegun /\ begun' = begun + 1
  BY DEF Begin
<1>2. t0 \in Token /\ x \in Submission /\ x # None
  BY TokenIsToken, NoneAssumption DEF Submission
<1>3. TypeOK'
  BY <1>1, <1>2, ContributionsAssumption DEF IInv, TypeOK
<1>4. ParentsFit'
  BY <1>1, Zenon DEF IInv, TypeOK, ParentsFit, ParentFit, Is, Made
<1>5. Tokens'
  <2>1. SUFFICES ASSUME NEW t \in Token, t \notin excused' PROVE TokenFine(t)'
    BY DEF Tokens
  <2>2. TokenFine(t) /\ t \notin excused
    BY <2>1, <1>1 DEF IInv, Tokens
  <2>3. \A w \in Visitor : w # v => submission'[w] = submission[w]
    BY <1>1 DEF IInv, TypeOK
  <2>4. submission'[v] = x
    BY <1>1 DEF IInv, TypeOK
  <2>5. \A w \in Visitor : w # v => (InFlight(w, t)' <=> InFlight(w, t))
    BY <2>3 DEF InFlight, TokenOf
  <2>6. InFlight(v, t)' <=> t = t0
    BY <2>4, <1>2 DEF InFlight
  <2>7. ~InFlight(v, t)
    BY <1>1 DEF InFlight
  <2>8. CASE t # t0
    BY <2>2, <2>3, <2>5, <2>6, <2>7, <2>8, <1>1 DEF TokenFine, Made
  <2>9. CASE t = t0
    <3>1. \A w \in Visitor : ~InFlight(w, t)
      BY <2>1, <2>9, <1>1
    <3>2. memo[t] = None
      BY <2>2, <2>9, <1>1 DEF TokenFine
    <3>3. \A r \in Row : Made(r) => row[r].token # t
      BY <2>2, <3>1, <3>2 DEF TokenFine
    <3>4. x.pc = "clear"
      BY <3>2, <2>9
    <3>. QED  BY <2>3, <2>4, <2>5, <3>1, <3>2, <3>3, <1>1 DEF TokenFine, Made
  <2>. QED  BY <2>8, <2>9
<1>. QED  BY <1>1, <1>3, <1>4, <1>5, FormStep

\* A visitor's submission goes on with the same form and key, before its row is
\* made: what a key means stays true.
LEMMA GoOn ==
  ASSUME IInv, NEW v \in Visitor, submission[v] # None, submission[v].pc # "made",
         NEW x \in Submission, x.form = submission[v].form, x.key = submission[v].key,
         submission' = [submission EXCEPT ![v] = x],
         \/ UNCHANGED memo
         \/ memo' = [memo EXCEPT ![TokenOf(x.form, x.key)] = None],
         UNCHANGED <<row, excused>>
  PROVE  Tokens'
<1>. DEFINE t0 == TokenOf(x.form, x.key)
<1>1. SUFFICES ASSUME NEW t \in Token, t \notin excused PROVE TokenFine(t)'
  BY DEF Tokens
<1>2. TokenFine(t)
  BY <1>1 DEF IInv, Tokens
<1>3. \A w \in Visitor : w # v => submission'[w] = submission[w]
  BY DEF IInv, TypeOK
<1>4. submission'[v] = x /\ x # None
  BY NoneAssumption DEF IInv, TypeOK
<1>5. \A w \in Visitor : InFlight(w, t)' <=> InFlight(w, t)
  BY <1>3, <1>4 DEF InFlight, TokenOf
<1>6. InFlight(v, t) <=> t = t0
  BY DEF InFlight
<1>7. memo'[t] = memo[t]
  <2>1. CASE t # t0
    BY <2>1 DEF IInv, TypeOK
  <2>2. CASE t = t0
    BY <2>2, <1>2, <1>6, SubmissionShape DEF TokenFine, IInv, TypeOK
  <2>. QED  BY <2>1, <2>2
<1>8. InFlight(v, t) => memo[t] = None /\ \A r \in Row : Made(r) => row[r].token # t
  BY <1>2 DEF TokenFine
<1>9. \A w \in Visitor : InFlight(w, t) /\ w # v => submission'[w].pc = submission[w].pc
  BY <1>3
<1>. QED  BY <1>2, <1>3, <1>5, <1>7, <1>8, <1>9 DEF TokenFine, Made

LEMMA DropExpiredStep ==
  ASSUME IInv, NEW v \in Visitor, DropExpired(v)
  PROVE  IInv'
<1>. DEFINE x == [submission[v] EXCEPT !.pc = "clear"]
<1>1. /\ submission[v] # None /\ submission[v].pc = "expired"
      /\ memo' = [memo EXCEPT ![TokenOf(submission[v].form, submission[v].key)] = None]
      /\ submission' = [submission EXCEPT ![v] = x]
      /\ UNCHANGED <<row, rating, work, excused, begun>>
  BY DEF DropExpired
<1>2. submission[v] \in Submission
  BY <1>1, SubmissionShape DEF IInv
<1>3. /\ x \in Submission /\ x.form = submission[v].form /\ x.key = submission[v].key
      /\ x.parent = submission[v].parent
  BY <1>2 DEF Submission
<1>. HIDE DEF x
<1>4. TypeOK'
  BY <1>1, <1>3, SubmissionShape DEF IInv, TypeOK
<1>5. ParentsFit'
  BY <1>1, <1>3 DEF IInv, TypeOK, ParentsFit, ParentFit, Is, Made
<1>6. Tokens'
  BY <1>1, <1>3, GoOn
<1>. QED  BY <1>1, <1>4, <1>5, <1>6, FormStep

LEMMA ParentOfReply ==
  ASSUME IInv, NEW r \in Row, NEW h, Answerable(r, h)
  PROVE  /\ ReplyParent(r) \in Row /\ Is(ReplyParent(r), "comment")
         /\ row[ReplyParent(r)].parent = None /\ row[ReplyParent(r)].form.home = h
<1>1. Made(r) /\ row[r].form.kind = "comment" /\ row[r].form.home = h
  BY DEF Answerable, Is
<1>2. row[r].parent \in Row \cup {None}
  BY <1>1, RowIsRec DEF IInv, Rec
<1>3. CASE row[r].parent = None
  BY <1>1, <1>3 DEF ReplyParent, Is
<1>4. CASE row[r].parent # None
  BY <1>1, <1>2, <1>4 DEF ReplyParent, IInv, ThreadsStayTwoLevels
<1>. QED  BY <1>3, <1>4

LEMMA CheckStep ==
  ASSUME IInv, NEW v \in Visitor, Check(v)
  PROVE  IInv'
<1>. DEFINE s == submission[v]
            x(pc, p) == [s EXCEPT !.pc = pc, !.parent = p]
<1>1. /\ s # None /\ s.pc = "clear"
      /\ UNCHANGED <<row, rating, memo, work, excused, begun>>
  BY DEF Check
<1>2. s \in Submission /\ s.form \in Form
  BY <1>1, SubmissionShape DEF IInv
<1>3. PICK pc \in {"checked", "made"}, p \in Row \cup {None} :
        submission' = [submission EXCEPT ![v].pc = pc, ![v].parent = p] /\ ParentFit(s.form, p)
  <2>1. CASE s.form.kind # "report" /\ s.form.about = None
             /\ submission' = [submission EXCEPT ![v].pc = "checked", ![v].parent = None]
    BY <2>1 DEF ParentFit
  <2>2. CASE s.form.kind = "comment" /\ s.form.about # None /\ Answerable(s.form.about, s.form.home)
             /\ submission' = [submission EXCEPT ![v].pc = "checked", ![v].parent = ReplyParent(s.form.about)]
    <3>1. s.form.about \in Row
      BY <1>2, <2>2, FormShape
    <3>2. /\ ReplyParent(s.form.about) \in Row /\ Is(ReplyParent(s.form.about), "comment")
          /\ row[ReplyParent(s.form.about)].parent = None
          /\ row[ReplyParent(s.form.about)].form.home = s.form.home
      BY <2>2, <3>1, ParentOfReply, Zenon
    <3>3. ParentFit(s.form, ReplyParent(s.form.about))
      BY <2>2, <3>2 DEF ParentFit
    <3>. QED  BY <2>2, <3>2, <3>3
  <2>3. CASE s.form.kind = "report"
             /\ submission' = [submission EXCEPT ![v].pc = IF Approved(s.form.about) THEN "checked" ELSE "made", ![v].parent = None]
    BY <2>3 DEF ParentFit
  <2>. QED  BY <2>1, <2>2, <2>3 DEF Check
<1>4. submission' = [submission EXCEPT ![v] = x(pc, p)]
  BY <1>2, <1>3 DEF IInv, TypeOK, Submission
<1>5. /\ x(pc, p) \in Submission /\ x(pc, p).form = s.form /\ x(pc, p).key = s.key
      /\ x(pc, p).parent = p
  BY <1>2, <1>3 DEF Submission
<1>. HIDE DEF x
<1>6. TypeOK'
  BY <1>1, <1>4, <1>5 DEF IInv, TypeOK
<1>7. ParentsFit'
  BY <1>1, <1>3, <1>4, <1>5 DEF IInv, TypeOK, ParentsFit, ParentFit, Is, Made
<1>8. Tokens'
  BY <1>1, <1>4, <1>5, GoOn
<1>. QED  BY <1>1, <1>6, <1>7, <1>8, FormStep

\* A submission is over.
LEMMA GoneFits ==
  ASSUME IInv, NEW v \in Visitor, submission' = [submission EXCEPT ![v] = None], UNCHANGED row
  PROVE  /\ ParentsFit'
         /\ \A w \in Visitor : w # v => submission'[w] = submission[w]
         /\ submission'[v] = None
         /\ \A w \in Visitor, t \in Token : InFlight(w, t)' <=> w # v /\ InFlight(w, t)
<1>1. /\ \A w \in Visitor : w # v => submission'[w] = submission[w]
      /\ submission'[v] = None
  BY DEF IInv, TypeOK
<1>2. \A w \in Visitor, t \in Token : InFlight(w, t)' <=> w # v /\ InFlight(w, t)
  BY <1>1 DEF InFlight, TokenOf
<1>. QED  BY <1>1, <1>2 DEF IInv, ParentsFit, ParentFit, Is, Made

LEMMA RefuseStep ==
  ASSUME IInv, NEW v \in Visitor, Refuse(v)
  PROVE  IInv'
<1>1. /\ submission[v] # None /\ submission[v].pc # "made"
      /\ submission' = [submission EXCEPT ![v] = None]
      /\ UNCHANGED <<row, rating, memo, work, excused, begun>>
  BY DEF Refuse
<1>2. TypeOK'
  BY <1>1 DEF IInv, TypeOK
<1>3. Tokens'
  <2>1. SUFFICES ASSUME NEW t \in Token, t \notin excused PROVE TokenFine(t)'
    BY <1>1 DEF Tokens
  <2>2. TokenFine(t)
    BY <2>1 DEF IInv, Tokens
  <2>. QED  BY <1>1, <2>2, GoneFits DEF TokenFine, Made
<1>. QED  BY <1>1, <1>2, <1>3, GoneFits, FormStep

LEMMA RememberStep ==
  ASSUME IInv, NEW v \in Visitor, Remember(v)
  PROVE  IInv'
<1>. DEFINE s == submission[v]
            t0 == TokenOf(s.form, s.key)
            c == [form |-> s.form, row |-> s.row, fresh |-> TRUE]
<1>1. /\ s # None /\ s.pc = "made"
      /\ memo' = [memo EXCEPT ![t0] = c]
      /\ submission' = [submission EXCEPT ![v] = None]
      /\ UNCHANGED <<row, rating, work, excused, begun>>
  BY DEF Remember
<1>2. t0 \in Token /\ c \in Receipt /\ c # None /\ c.fresh
  <2>1. /\ s.form \in Form /\ s.row \in Row \cup {None} /\ t0 \in Token
    BY <1>1, SubmissionShape DEF IInv
  <2>2. c \in Receipt /\ c.fresh
    BY <2>1 DEF Receipt
  <2>. QED  BY <2>1, <2>2, NoneAssumption
<1>3. TypeOK'
  BY <1>1, <1>2 DEF IInv, TypeOK
<1>4. Tokens'
  <2>1. SUFFICES ASSUME NEW t \in Token, t \notin excused PROVE TokenFine(t)'
    BY <1>1 DEF Tokens
  <2>2. TokenFine(t)
    BY <2>1 DEF IInv, Tokens
  <2>3. InFlight(v, t0)
    BY <1>1 DEF InFlight
  <2>4. CASE t = t0
    <3>1. \A w \in Visitor : ~InFlight(w, t)'
      BY <1>1, <2>2, <2>3, <2>4, GoneFits DEF TokenFine
    <3>2. memo'[t] = c
      BY <1>1, <1>2, <2>4 DEF IInv, TypeOK
    <3>. QED  BY <1>2, <3>1, <3>2 DEF TokenFine
  <2>5. CASE t # t0
    <3>1. memo'[t] = memo[t] /\ ~InFlight(v, t)
      BY <1>1, <2>5 DEF IInv, TypeOK, InFlight
    <3>. QED  BY <1>1, <2>2, <3>1, GoneFits DEF TokenFine, Made
  <2>. QED  BY <2>4, <2>5
<1>. QED  BY <1>1, <1>3, <1>4, GoneFits, FormStep

LEMMA ForgetStep ==
  ASSUME IInv, NEW v \in Visitor, Forget(v)
  PROVE  IInv'
<1>. DEFINE t0 == TokenOf(submission[v].form, submission[v].key)
<1>1. /\ submission[v] # None /\ excused' = excused \cup {t0}
      /\ submission' = [submission EXCEPT ![v] = None]
      /\ UNCHANGED <<row, rating, memo, work, begun>>
  BY DEF Forget
<1>2. TypeOK'
  BY <1>1, SubmissionShape DEF IInv, TypeOK
<1>3. Tokens'
  <2>1. SUFFICES ASSUME NEW t \in Token, t \notin excused, t # t0 PROVE TokenFine(t)'
    BY <1>1 DEF Tokens
  <2>2. TokenFine(t) /\ ~InFlight(v, t)
    BY <2>1 DEF IInv, Tokens, InFlight
  <2>. QED  BY <1>1, <2>2, GoneFits DEF TokenFine, Made
<1>. QED  BY <1>1, <1>2, <1>3, GoneFits, FormStep

LEMMA ExpireStep ==
  ASSUME IInv, NEW t0 \in Token, Expire(t0)
  PROVE  IInv'
<1>1. /\ memo[t0] # None /\ memo' = [memo EXCEPT ![t0].fresh = FALSE]
      /\ excused' = excused \cup {t0}
      /\ UNCHANGED <<row, rating, work, submission, begun>>
  BY DEF Expire
<1>2. memo[t0] \in Receipt
  BY <1>1 DEF IInv, TypeOK
<1>3. [memo[t0] EXCEPT !.fresh = FALSE] \in Receipt
  BY <1>2 DEF Receipt
<1>4. TypeOK'
  BY <1>1, <1>3 DEF IInv, TypeOK
<1>5. Tokens'
  <2>1. SUFFICES ASSUME NEW t \in Token, t \notin excused, t # t0 PROVE TokenFine(t)'
    BY <1>1 DEF Tokens
  <2>2. TokenFine(t) /\ memo'[t] = memo[t]
    BY <1>1, <2>1 DEF IInv, Tokens, TypeOK
  <2>. QED  BY <1>1, <2>2 DEF TokenFine, Made, InFlight, TokenOf
<1>6. ParentsFit'
  BY <1>1 DEF IInv, ParentsFit, ParentFit, Is, Made
<1>. QED  BY <1>1, <1>4, <1>5, <1>6, FormStep

-----------------------------------------------------------------------------
\* Rows that are made.

LEMMA NewRow ==
  ASSUME IInv, NEW r \in Row, ~Made(r), NEW x \in Rec, row' = [row EXCEPT ![r] = x],
         x.form.kind = "review" => x.status # "approved",
         ParentFit(x.form, x.parent), UNCHANGED rating,
         \A m \in Moderator : work'[m] = work[m] \/ work'[m] = None
  PROVE  /\ row' \in [Row -> Rec \cup {None}]
         /\ WorkSound' /\ OneHolder' /\ RatingSound' /\ RatingIsExact'
         /\ ThreadsStayTwoLevels'
         /\ \A f, p : p \in Row \cup {None} /\ ParentFit(f, p) => ParentFit(f, p)'
<1>1. row' \in [Row -> Rec \cup {None}]
  BY DEF IInv, TypeOK
<1>2. row'[r] = x /\ x # None /\ \A q \in Row : q # r => row'[q] = row[q]
  BY NoneAssumption DEF IInv, TypeOK
<1>3. Made(r)' /\ \A q \in Row : Made(q) => q # r /\ row'[q] = row[q] /\ Made(q)'
  BY <1>2 DEF Made
<1>4. WorkSound'
  <2>1. SUFFICES ASSUME NEW m \in Moderator, work[m] # None, work'[m] = work[m]
                 PROVE  WorkFine(work[m])'
    BY DEF WorkSound
  <2>2. /\ WorkFine(work[m]) /\ work[m].on \in Row /\ Made(work[m].on)
    BY <2>1, WorkIsWork DEF IInv, WorkSound, WorkFine
  <2>3. row'[work[m].on] = row[work[m].on] /\ Made(work[m].on)'
    BY <2>1, <2>2, <1>3
  <2>. QED  BY <2>1, <2>2, <2>3 DEF WorkFine
<1>5. OneHolder'
  BY DEF IInv, OneHolder, Doing
<1>6. \A b \in Business : Counted(b)' = Counted(b)
  BY <1>2, <1>3 DEF Counted, Is, Approved, Made
<1>7. \A b \in Business : \A q \in Counted(b) : row'[q].form = row[q].form
  BY <1>3 DEF Counted, Is
<1>8. \A b \in Business : StarsOf(b)' = StarsOf(b)
  BY <1>6, <1>7, SameStars
<1>9. RatingSound' /\ RatingIsExact'
  BY <1>6, <1>8 DEF IInv, RatingSound, RatingIsExact
<1>10. \A f, p : p \in Row \cup {None} /\ ParentFit(f, p) => ParentFit(f, p)'
  BY <1>3 DEF ParentFit, Is
<1>11. ThreadsStayTwoLevels'
  <2>1. SUFFICES ASSUME NEW q \in Row, Made(q)', row'[q].parent # None
                 PROVE  ParentFit(row[q].form, row[q].parent)'
    BY DEF ThreadsStayTwoLevels, ParentFit
  <2>2. row'[q].parent \in Row \cup {None}
    BY <1>1, <2>1 DEF Rec, Made
  <2>3. ParentFit(row'[q].form, row'[q].parent)
    <3>1. CASE q = r
      BY <3>1, <1>2
    <3>2. CASE q # r
      <4>1. row'[q] = row[q] /\ Made(q)
        BY <2>1, <3>2, <1>2 DEF Made
      <4>2. LET p == row[q].parent
            IN Is(p, "comment") /\ row[p].parent = None /\ row[p].form.home = row[q].form.home
        BY <2>1, <4>1 DEF IInv, ThreadsStayTwoLevels
      <4>. QED  BY <4>1, <4>2 DEF ParentFit
    <3>. QED  BY <3>1, <3>2
  <2>4. \A f, p : p \in Row \cup {None} /\ ParentFit(f, p) => ParentFit(f, p)'
    BY <1>10
  <2>. QED  BY <2>2, <2>3, <2>4 DEF ParentFit
<1>. QED  BY <1>1, <1>4, <1>5, <1>9, <1>10, <1>11

LEMMA CreateStep ==
  ASSUME IInv, NEW v \in Visitor, NEW r \in Row, Create(v, r)
  PROVE  IInv'
<1>. DEFINE s == submission[v]
            t0 == TokenOf(s.form, s.key)
            x == [form |-> s.form, token |-> t0, parent |-> s.parent,
                  status |-> IF s.form.kind = "report" THEN "open" ELSE "pending", version |-> 1]
            y == [s EXCEPT !.pc = "made", !.row = r]
<1>1. /\ s # None /\ s.pc = "checked" /\ ~Made(r)
      /\ row' = [row EXCEPT ![r] = x]
      /\ submission' = [submission EXCEPT ![v].pc = "made", ![v].row = r]
      /\ UNCHANGED <<rating, memo, work, excused, begun>>
  BY DEF Create
<1>2. /\ s \in Submission /\ s.form \in Form /\ t0 \in Token
      /\ s.parent \in Row \cup {None}
  BY <1>1, SubmissionShape DEF IInv
<1>3. submission' = [submission EXCEPT ![v] = y]
  BY <1>1, <1>2 DEF IInv, TypeOK, Submission
<1>4. /\ y \in Submission /\ y.form = s.form /\ y.key = s.key /\ y.parent = s.parent
      /\ y.pc = "made"
  BY <1>2 DEF Submission
<1>5. /\ x \in Rec /\ x.form = s.form /\ x.parent = s.parent /\ x.token = t0
      /\ x.status # "approved"
  BY <1>2 DEF Rec, Status
<1>6. ParentFit(s.form, s.parent)
  BY <1>1 DEF IInv, ParentsFit
<1>. HIDE DEF x, y
<1>7. /\ row' \in [Row -> Rec \cup {None}]
      /\ WorkSound' /\ OneHolder' /\ RatingSound' /\ RatingIsExact'
      /\ ThreadsStayTwoLevels'
      /\ \A f, p : p \in Row \cup {None} /\ ParentFit(f, p) => ParentFit(f, p)'
  <2>1. ParentFit(x.form, x.parent)
    BY <1>5, <1>6
  <2>. QED  BY <1>1, <1>5, <2>1, NewRow
<1>8. /\ submission'[v] = y /\ y # None
      /\ \A w \in Visitor : w # v => submission'[w] = submission[w]
  BY <1>3, <1>4, NoneAssumption DEF IInv, TypeOK
<1>9. /\ row'[r] = x /\ x # None
      /\ \A q \in Row : q # r => row'[q] = row[q]
  BY <1>1, <1>5, NoneAssumption DEF IInv, TypeOK
<1>10. TypeOK'
  BY <1>1, <1>3, <1>4, <1>7 DEF IInv, TypeOK
<1>11. ParentsFit'
  <2>1. \A w \in Visitor : submission'[w] # None =>
          /\ submission[w] # None
          /\ submission'[w].form = submission[w].form /\ submission'[w].parent = submission[w].parent
    BY <1>1, <1>4, <1>8
  <2>2. \A w \in Visitor : submission[w] # None =>
          ParentFit(submission[w].form, submission[w].parent) /\ submission[w].parent \in Row \cup {None}
    BY SubmissionShape DEF IInv, ParentsFit
  <2>. QED  BY <1>7, <2>1, <2>2 DEF ParentsFit, ParentFit
<1>12. Tokens'
  <2>1. SUFFICES ASSUME NEW t \in Token, t \notin excused PROVE TokenFine(t)'
    BY <1>1 DEF Tokens
  <2>2. TokenFine(t)
    BY <2>1 DEF IInv, Tokens
  <2>3. \A w \in Visitor : InFlight(w, t)' <=> InFlight(w, t)
    BY <1>1, <1>4, <1>8 DEF InFlight, TokenOf
  <2>4. InFlight(v, t) <=> t = t0
    BY <1>1 DEF InFlight
  <2>5. CASE t = t0
    <3>1. \A w \in Visitor : InFlight(w, t) => w = v
      BY <2>2, <2>4, <2>5 DEF TokenFine
    <3>. QED  BY <1>1, <1>4, <1>8, <2>2, <2>3, <2>4, <2>5, <3>1 DEF TokenFine
  <2>6. CASE t # t0
    <3>1. \A q \in Row : (Made(q) /\ row[q].token = t)' <=> Made(q) /\ row[q].token = t
      BY <1>1, <1>5, <1>9, <2>6 DEF Made
    <3>2. \A w \in Visitor : InFlight(w, t) => submission'[w] = submission[w]
      BY <1>8, <2>4, <2>6
    <3>. QED  BY <1>1, <2>2, <2>3, <3>1, <3>2 DEF TokenFine
  <2>. QED  BY <2>5, <2>6
<1>13. DuplicatesExplained'
  <2>1. t0 \notin excused => \A q \in Row : Made(q) => row[q].token # t0
    BY <1>1, <1>2 DEF IInv, Tokens, TokenFine, InFlight
  <2>. QED  BY <1>1, <1>5, <1>9, <2>1 DEF IInv, DuplicatesExplained, Made
<1>. QED  BY <1>7, <1>10, <1>11, <1>12, <1>13 DEF IInv

-----------------------------------------------------------------------------
\* The steps of a moderator.

\* The work of a moderator is put down or taken up.
LEMMA PutWork ==
  ASSUME IInv, NEW m \in Moderator, NEW y \in Work \cup {None},
         work' = [work EXCEPT ![m] = y],
         y # None => WorkFine(y), y # None /\ y.pc = "tx" => ~Held(y.on),
         UNCHANGED <<row, rating, memo, submission, excused, begun>>
  PROVE  IInv'
<1>1. work'[m] = y /\ \A n \in Moderator : n # m => work'[n] = work[n]
  BY DEF IInv, TypeOK
<1>2. TypeOK'
  BY DEF IInv, TypeOK
<1>3. WorkSound'
  BY <1>1 DEF IInv, WorkSound, WorkFine, Made
<1>4. OneHolder'
  BY <1>1 DEF IInv, OneHolder, Doing, Held
<1>5. SameShape
  BY DEF SameShape, Made
<1>. QED  BY <1>2, <1>3, <1>4, <1>5, FormsFrame, RowsFrame DEF IInv

LEMMA AbandonStep ==
  ASSUME IInv, NEW m \in Moderator, Abandon(m)
  PROVE  IInv'
BY PutWork DEF Abandon, Done

LEMMA OpenStep ==
  ASSUME IInv, NEW m \in Moderator, NEW r \in Row, NEW a \in Action, Open(m, r, a)
  PROVE  IInv'
<1>. DEFINE y == [pc |-> "page", on |-> r, seen |-> row[r], action |-> a, found |-> FALSE]
<1>1. /\ Made(r) /\ a \in Applicable(row[r]) /\ work' = [work EXCEPT ![m] = y]
      /\ UNCHANGED <<row, rating, memo, submission, excused, begun>>
  BY DEF Open
<1>2. row[r] \in Rec /\ row[r].version \in Nat /\ row[r].form \in Form
  BY <1>1, RowIsRec DEF IInv, Rec
<1>3. y \in Work
  BY <1>2 DEF Work
<1>4. a = "reply" => row[r].form.kind = "comment"
  BY <1>1, <1>2, FormShape DEF Applicable
<1>5. WorkFine(y) /\ y.pc # "tx"
  BY <1>1, <1>2, <1>4 DEF WorkFine
<1>. QED  BY <1>1, <1>3, <1>5, PutWork

LEMMA LoadStep ==
  ASSUME IInv, NEW m \in Moderator, Load(m)
  PROVE  IInv'
<1>. DEFINE w == work[m]
            y == [w EXCEPT !.pc = "loaded", !.seen = row[w.on]]
<1>1. /\ w # None
      /\ work' = [work EXCEPT ![m] = y] \/ work' = [work EXCEPT ![m] = None]
      /\ UNCHANGED <<row, rating, memo, submission, excused, begun>>
  BY DEF Load, Doing
<1>2. w \in Work /\ w.on \in Row /\ WorkFine(w)
  BY <1>1, WorkIsWork DEF IInv, WorkSound
<1>3. Made(w.on) /\ row[w.on] \in Rec /\ row[w.on].version \in Nat
  BY <1>2, RowIsRec DEF IInv, WorkFine, Rec
<1>4. /\ y \in Work /\ y.on = w.on /\ y.pc = "loaded" /\ y.seen = row[w.on]
      /\ y.action = w.action
  BY <1>2, <1>3 DEF Work
<1>. HIDE DEF y
<1>5. WorkFine(y)
  BY <1>2, <1>3, <1>4 DEF WorkFine
<1>. QED  BY <1>1, <1>4, <1>5, PutWork

LEMMA EnterStep ==
  ASSUME IInv, NEW m \in Moderator, Enter(m)
  PROVE  IInv'
<1>. DEFINE w == work[m]
            y == [w EXCEPT !.pc = "tx", !.found = rating[w.seen.form.home].exists]
<1>1. /\ w # None /\ ~Held(w.on) /\ Unchanged(w) /\ Delta(w.seen, w.action) # 0
      /\ work' = [work EXCEPT ![m] = y]
      /\ UNCHANGED <<row, rating, memo, submission, excused, begun>>
  BY DEF Enter, Doing
<1>2. w \in Work /\ w.on \in Row /\ w.seen \in Rec /\ w.action \in Action /\ WorkFine(w)
  BY <1>1, WorkIsWork DEF IInv, WorkSound
<1>3. w.seen = row[w.on]
  BY <1>1, <1>2 DEF WorkFine, Unchanged
<1>4. w.seen.form \in Form /\ w.seen.form.kind = "review"
  BY <1>1, <1>2, DeltaIsOne DEF Rec
<1>5. rating[w.seen.form.home].exists \in BOOLEAN
  BY <1>4, FormShape DEF IInv, TypeOK
<1>6. /\ y \in Work /\ y.on = w.on /\ y.seen = w.seen /\ y.action = w.action
      /\ y.found = rating[w.seen.form.home].exists
  BY <1>2, <1>5 DEF Work
<1>. HIDE DEF y
<1>7. WorkFine(y)
  BY <1>1, <1>2, <1>3, <1>6 DEF WorkFine
<1>. QED  BY <1>1, <1>6, <1>7, PutWork

LEMMA StaffReplyStep ==
  ASSUME IInv, NEW m \in Moderator, NEW r \in Row, StaffReply(m, r)
  PROVE  IInv'
<1>. DEFINE w == work[m]
            f == [kind |-> "comment", home |-> w.seen.form.home, stars |-> 0, about |-> w.on]
            p == IF w.seen.parent # None THEN w.seen.parent ELSE w.on
            x == [form |-> f, token |-> None, parent |-> p, status |-> "approved", version |-> 1]
<1>1. /\ w # None /\ w.action = "reply" /\ ~Made(r)
      /\ row' = [row EXCEPT ![r] = x]
      /\ work' = [work EXCEPT ![m] = None]
      /\ UNCHANGED <<rating, memo, submission, excused, begun>>
  BY DEF StaffReply, Doing, Done
<1>2. /\ w.on \in Row /\ WorkFine(w) /\ Made(w.on) /\ w.seen \in Rec
      /\ w.seen.form = row[w.on].form /\ w.seen.parent = row[w.on].parent
      /\ w.seen.form.kind = "comment"
  BY <1>1, WorkIsWork DEF IInv, WorkSound, WorkFine
<1>3. w.seen.form \in Form /\ w.seen.form.home \in Post /\ w.seen.parent \in Row \cup {None}
  BY <1>2, FormShape DEF Rec
<1>4. f \in Form
  BY <1>2, <1>3 DEF Form, CommentForm
<1>5. p \in Row /\ ParentFit(f, p)
  <2>1. CASE w.seen.parent # None
    BY <1>2, <1>3, <2>1 DEF IInv, ThreadsStayTwoLevels, ParentFit
  <2>2. CASE w.seen.parent = None
    BY <1>2, <2>2 DEF ParentFit, Is
  <2>. QED  BY <2>1, <2>2
<1>6. /\ x \in Rec /\ x.form = f /\ x.parent = p /\ x.token = None /\ f.kind = "comment"
  BY <1>4, <1>5 DEF Rec, Status
<1>7. \A n \in Moderator : work'[n] = work[n] \/ work'[n] = None
  BY <1>1 DEF IInv, TypeOK
<1>. HIDE DEF x, f, p
<1>8. /\ row' \in [Row -> Rec \cup {None}]
      /\ WorkSound' /\ OneHolder' /\ RatingSound' /\ RatingIsExact'
      /\ ThreadsStayTwoLevels'
      /\ \A g, q : q \in Row \cup {None} /\ ParentFit(g, q) => ParentFit(g, q)'
  BY <1>1, <1>5, <1>6, <1>7, NewRow
<1>9. TypeOK'
  BY <1>1, <1>8 DEF IInv, TypeOK
<1>10. row'[r] = x /\ \A q \in Row : q # r => row'[q] = row[q]
  BY <1>1 DEF IInv, TypeOK
<1>11. ParentsFit'
  BY <1>1, <1>8, SubmissionShape DEF IInv, ParentsFit, ParentFit
<1>12. \A t \in Token : \A q \in Row : (Made(q) /\ row[q].token = t)' <=> Made(q) /\ row[q].token = t
  BY <1>1, <1>6, <1>10, NoneAssumption DEF Made
<1>13. Tokens'
  <2>1. SUFFICES ASSUME NEW t \in Token, t \notin excused PROVE TokenFine(t)'
    BY <1>1 DEF Tokens
  <2>2. TokenFine(t)
    BY <2>1 DEF IInv, Tokens
  <2>. QED  BY <1>1, <1>12, <2>2 DEF TokenFine, InFlight, TokenOf
<1>14. DuplicatesExplained'
  BY <1>1, <1>6, <1>10 DEF IInv, DuplicatesExplained, Made
<1>. QED  BY <1>8, <1>9, <1>11, <1>13, <1>14 DEF IInv

\* A decision on a row: what the row says stays, and no transaction holds it.
LEMMA DecisionShape ==
  ASSUME IInv, NEW r \in Row, Made(r), NEW a \in Action,
         row' = [row EXCEPT ![r] = Decided(row[r], a)],
         \A n \in Moderator : work'[n] = work[n] \/ work'[n] = None,
         \A n \in Moderator : work'[n] # None /\ work[n].on = r => work[n].pc # "tx",
         \A b \in Business : rating[b].exists => rating'[b].exists
  PROVE  /\ row' \in [Row -> Rec \cup {None}]
         /\ SameShape /\ WorkSound' /\ OneHolder'
<1>. DEFINE x == Decided(row[r], a)
<1>1. row[r] \in Rec /\ row[r].version \in Nat
  BY RowIsRec DEF IInv, Rec
<1>2. /\ x \in Rec /\ x # None /\ x.form = row[r].form /\ x.token = row[r].token
      /\ x.parent = row[r].parent /\ x.version = row[r].version + 1
  BY <1>1, DecidedIsRec, NoneAssumption
<1>. HIDE DEF x
<1>3. row' = [row EXCEPT ![r] = x]
  BY DEF x
<1>4. row' \in [Row -> Rec \cup {None}]
  BY <1>2, <1>3 DEF IInv, TypeOK
<1>5. row'[r] = x /\ \A q \in Row : q # r => row'[q] = row[q]
  BY <1>3 DEF IInv, TypeOK
<1>6. SameShape
  BY <1>2, <1>5 DEF SameShape, Made
<1>7. WorkSound'
  <2>1. SUFFICES ASSUME NEW n \in Moderator, work[n] # None, work'[n] = work[n]
                 PROVE  WorkFine(work[n])'
    BY DEF WorkSound
  <2>2. WorkFine(work[n]) /\ work[n].on \in Row /\ work[n] \in Work /\ work[n].seen \in Rec
    BY <2>1, WorkIsWork DEF IInv, WorkSound
  <2>3. Made(work[n].on)
    BY <2>2 DEF WorkFine
  <2>4. CASE work[n].on = r
    <3>1. work[n].pc # "tx"
      BY <2>1, <2>4
    <3>2. work[n].seen.version \in Nat /\ work[n].seen.version <= row[r].version
      BY <2>2, <2>4 DEF WorkFine, Rec
    <3>3. work[n].seen.version < x.version
      BY <1>1, <1>2, <3>2
    <3>4. /\ x.form = work[n].seen.form /\ x.parent = work[n].seen.parent
          /\ work[n].action = "reply" => x.form.kind = "comment"
      BY <1>2, <2>2, <2>4 DEF WorkFine
    <3>5. work[n].seen.version <= x.version /\ work[n].seen.version # x.version
      BY <3>2, <3>3, <1>1, <1>2
    <3>. QED  BY <1>2, <1>5, <2>1, <2>4, <3>1, <3>4, <3>5 DEF WorkFine, Made
  <2>5. CASE work[n].on # r
    <3>1. row'[work[n].on] = row[work[n].on]
      BY <1>5, <2>2, <2>5
    <3>2. work[n].pc = "tx" /\ work[n].found =>
            rating'[row[work[n].on].form.home].exists
      <4>1. SUFFICES ASSUME work[n].pc = "tx", work[n].found
                     PROVE  rating'[row[work[n].on].form.home].exists
        OBVIOUS
      <4>2. /\ rating[row[work[n].on].form.home].exists
            /\ work[n].seen = row[work[n].on] /\ Delta(work[n].seen, work[n].action) # 0
        BY <2>2, <4>1 DEF WorkFine
      <4>3. work[n].seen.form.kind = "review" /\ work[n].seen.form \in Form
        BY <2>1, <2>2, <4>2, DeltaIsOne, WorkIsWork DEF IInv, Rec
      <4>4. row[work[n].on].form.home \in Business
        BY <4>2, <4>3, FormShape
      <4>. QED  BY <4>2, <4>4
    <3>. QED  BY <2>1, <2>2, <2>3, <3>1, <3>2 DEF WorkFine, Made
  <2>. QED  BY <2>4, <2>5
<1>8. OneHolder'
  BY DEF IInv, OneHolder, Doing
<1>. QED  BY <1>4, <1>6, <1>7, <1>8

\* The reviews counted change by the one decided on, and only if the decision
\* makes it approved or makes it cease to be.
LEMMA DecisionCounts ==
  ASSUME IInv, NEW r \in Row, Made(r), NEW a \in Action,
         row' = [row EXCEPT ![r] = Decided(row[r], a)], NEW b \in Business
  PROVE  LET d == Delta(row[r], a)
         IN /\ d = 0 \/ b # row[r].form.home => Counted(b)' = Counted(b)
            /\ d = 1 /\ b = row[r].form.home =>
                 r \notin Counted(b) /\ Counted(b)' = Counted(b) \cup {r}
            /\ d = -1 /\ b = row[r].form.home =>
                 r \notin Counted(b)' /\ Counted(b) = Counted(b)' \cup {r}
<1>. DEFINE x == Decided(row[r], a)
            d == Delta(row[r], a)
<1>1. row[r] \in Rec
  BY RowIsRec DEF IInv
<1>2. /\ x \in Rec /\ x # None /\ x.form = row[r].form /\ x.status = Outcome(row[r], a)
  BY <1>1, DecidedIsRec, NoneAssumption
<1>3. row'[r] = x /\ \A q \in Row : q # r => row'[q] = row[q]
  BY DEF IInv, TypeOK
<1>4. /\ d # 0 => row[r].form.kind = "review"
      /\ d = 1 => row[r].status # "approved" /\ x.status = "approved"
      /\ d = -1 => row[r].status = "approved" /\ x.status # "approved"
      /\ d = 0 /\ row[r].form.kind = "review" =>
              (row[r].status = "approved" <=> x.status = "approved")
  BY <1>1, <1>2, DeltaIsOne
<1>. HIDE DEF x, d
<1>5. \A q \in Row : q # r => (q \in Counted(b)' <=> q \in Counted(b))
  BY <1>3 DEF Counted, Is, Approved, Made
<1>6. r \in Counted(b)' <=> x.form.kind = "review" /\ x.status = "approved" /\ x.form.home = b
  BY <1>2, <1>3 DEF Counted, Is, Approved, Made
<1>7. r \in Counted(b) <=> row[r].form.kind = "review" /\ row[r].status = "approved" /\ row[r].form.home = b
  BY DEF Counted, Is, Approved, Made
<1>8. Counted(b) \subseteq Row /\ Counted(b)' \subseteq Row
  BY DEF Counted
<1>9. d = 0 \/ b # row[r].form.home => Counted(b)' = Counted(b)
  <2>1. SUFFICES ASSUME d = 0 \/ b # row[r].form.home PROVE r \in Counted(b)' <=> r \in Counted(b)
    BY <1>5, <1>8
  <2>. QED  BY <1>2, <1>4, <1>6, <1>7, <2>1
<1>10. d = 1 /\ b = row[r].form.home => r \notin Counted(b) /\ Counted(b)' = Counted(b) \cup {r}
  BY <1>2, <1>4, <1>5, <1>6, <1>7, <1>8
<1>11. d = -1 /\ b = row[r].form.home => r \notin Counted(b)' /\ Counted(b) = Counted(b)' \cup {r}
  BY <1>2, <1>4, <1>5, <1>6, <1>7, <1>8
<1>. QED  BY <1>9, <1>10, <1>11 DEF d

\* One more review: its stars are added.
LEMMA CountsUp ==
  ASSUME IInv, NEW r \in Row, NEW b \in Business,
         r \notin Counted(b), Counted(b)' = Counted(b) \cup {r},
         \A q \in Counted(b)' : row'[q].form = row[q].form,
         row[r].form.stars \in Nat
  PROVE  /\ IsFiniteSet(StarsOf(b)')
         /\ Cardinality(Counted(b)') = Cardinality(Counted(b)) + 1
         /\ Cardinality(StarsOf(b)') = Cardinality(StarsOf(b)) + row[r].form.stars
<1>. DEFINE f == [q \in Row |-> row[q].form.stars]
            g == [q \in Row |-> row'[q].form.stars]
            C == Counted(b)
            D == Counted(b)'
            S == UNION {{q} \X (1 .. f[q]) : q \in C}
            T == UNION {{q} \X (1 .. g[q]) : q \in D}
<1>1. C \subseteq Row /\ D \subseteq Row
  BY DEF Counted
<1>2. StarsOf(b) = S
  <2>1. \A q \in Counted(b) : f[q] = row[q].form.stars
    BY <1>1
  <2>2. UNION {{q} \X (1 .. row[q].form.stars) : q \in Counted(b)} = S
    BY <2>1, StarsAlike
  <2>. QED  BY <2>2 DEF StarsOf
<1>3. StarsOf(b)' = T
  <2>1. \A q \in Counted(b)' : g[q] = row'[q].form.stars
    BY <1>1
  <2>2. UNION {{q} \X (1 .. row'[q].form.stars) : q \in Counted(b)'} = T
    BY <2>1, StarsAlike
  <2>. QED  BY <2>2 DEF StarsOf
<1>4. \A q \in D : f[q] = g[q]
  BY <1>1
<1>5. g[r] = row[r].form.stars
  OBVIOUS
<1>6. r \notin C /\ D = C \cup {r} /\ g[r] \in Nat
  BY <1>5
<1>7. IsFiniteSet(C) /\ IsFiniteSet(S)
  <2>1. IsFiniteSet(C)
    BY <1>1, FS_Subset, ContributionsAssumption
  <2>. QED  BY <1>2, <2>1 DEF IInv, RatingSound
<1>. HIDE DEF f, g, C, D
<1>8. T = S \cup ({r} \X (1 .. g[r])) /\ S \cap ({r} \X (1 .. g[r])) = {}
  BY <1>4, <1>6, StarsJoin
<1>. HIDE DEF S, T
<1>9. IsFiniteSet(T) /\ Cardinality(T) = Cardinality(S) + g[r]
  <2>1. LET U == S \cup ({r} \X (1 .. g[r]))
        IN  IsFiniteSet(U) /\ Cardinality(U) = Cardinality(S) + g[r]
    BY <1>6, <1>7, <1>8, StarsPlus
  <2>. QED  BY <2>1, <1>8
<1>10. Cardinality(D) = Cardinality(C) + 1
  BY <1>6, <1>7, FS_AddElement
<1>. QED  BY <1>2, <1>3, <1>5, <1>9, <1>10 DEF C, D

\* One review less: its stars are taken away.
LEMMA CountsDown ==
  ASSUME IInv, NEW r \in Row, NEW b \in Business,
         r \notin Counted(b)', Counted(b) = Counted(b)' \cup {r},
         \A q \in Counted(b) : row'[q].form = row[q].form,
         row[r].form.stars \in Nat
  PROVE  /\ IsFiniteSet(StarsOf(b)')
         /\ Cardinality(Counted(b)) = Cardinality(Counted(b)') + 1
         /\ Cardinality(StarsOf(b)) = Cardinality(StarsOf(b)') + row[r].form.stars
<1>. DEFINE f == [q \in Row |-> row'[q].form.stars]
            g == [q \in Row |-> row[q].form.stars]
            C == Counted(b)'
            D == Counted(b)
            S == UNION {{q} \X (1 .. f[q]) : q \in C}
            T == UNION {{q} \X (1 .. g[q]) : q \in D}
<1>1. C \subseteq Row /\ D \subseteq Row
  BY DEF Counted
<1>2. StarsOf(b)' = S
  <2>1. \A q \in Counted(b)' : f[q] = row'[q].form.stars
    BY <1>1
  <2>2. UNION {{q} \X (1 .. row'[q].form.stars) : q \in Counted(b)'} = S
    BY <2>1, StarsAlike
  <2>. QED  BY <2>2 DEF StarsOf
<1>3. StarsOf(b) = T
  <2>1. \A q \in Counted(b) : g[q] = row[q].form.stars
    BY <1>1
  <2>2. UNION {{q} \X (1 .. row[q].form.stars) : q \in Counted(b)} = T
    BY <2>1, StarsAlike
  <2>. QED  BY <2>2 DEF StarsOf
<1>4. \A q \in D : f[q] = g[q]
  BY <1>1
<1>5. g[r] = row[r].form.stars
  OBVIOUS
<1>6. r \notin C /\ D = C \cup {r} /\ g[r] \in Nat
  BY <1>5
<1>. HIDE DEF f, g
<1>7. IsFiniteSet(C) /\ IsFiniteSet(T)
  <2>1. IsFiniteSet(C)
    BY <1>1, FS_Subset, ContributionsAssumption
  <2>. QED  BY <1>3, <2>1 DEF IInv, RatingSound
<1>. HIDE DEF C, D
<1>8. T = S \cup ({r} \X (1 .. g[r])) /\ S \cap ({r} \X (1 .. g[r])) = {}
  BY <1>4, <1>6, StarsJoin
<1>. HIDE DEF S, T
<1>9. IsFiniteSet(S) /\ Cardinality(T) = Cardinality(S) + g[r]
  <2>1. IsFiniteSet(S)
    BY <1>7, <1>8, FS_Subset
  <2>2. LET U == S \cup ({r} \X (1 .. g[r]))
        IN  IsFiniteSet(U) /\ Cardinality(U) = Cardinality(S) + g[r]
    BY <1>6, <1>8, <2>1, StarsPlus
  <2>. QED  BY <2>1, <2>2, <1>8
<1>10. Cardinality(D) = Cardinality(C) + 1
  BY <1>6, <1>7, FS_AddElement
<1>. QED  BY <1>2, <1>3, <1>5, <1>9, <1>10 DEF C, D

LEMMA DecideStep ==
  ASSUME IInv, NEW m \in Moderator, Decide(m)
  PROVE  IInv'
<1>. DEFINE w == work[m]
<1>1. /\ w # None /\ ~Held(w.on) /\ w.pc = "loaded"
      /\ Unchanged(w) => Delta(w.seen, w.action) = 0
      /\ row' = IF Unchanged(w) THEN [row EXCEPT ![w.on] = Decided(row[w.on], w.action)] ELSE row
      /\ work' = [work EXCEPT ![m] = None]
      /\ UNCHANGED <<rating, memo, submission, excused, begun>>
  BY DEF Decide, Doing, Done
<1>2. /\ w.on \in Row /\ w.action \in Action /\ WorkFine(w) /\ Made(w.on)
  BY <1>1, WorkIsWork DEF IInv, WorkSound, WorkFine
<1>3. CASE ~Unchanged(w)
  BY <1>1, <1>3, PutWork
<1>4. CASE Unchanged(w)
  <2>1. w.seen = row[w.on] /\ Delta(row[w.on], w.action) = 0
    BY <1>1, <1>2, <1>4 DEF WorkFine, Unchanged
  <2>2. row' = [row EXCEPT ![w.on] = Decided(row[w.on], w.action)]
    BY <1>1, <1>4
  <2>3. \A n \in Moderator : work'[n] = work[n] \/ work'[n] = None
    BY <1>1 DEF IInv, TypeOK
  <2>4. \A n \in Moderator : work'[n] # None /\ work[n].on = w.on => work[n].pc # "tx"
    BY <1>1, <2>3 DEF Held, Doing
  <2>5. \A b \in Business : rating[b].exists => rating'[b].exists
    BY <1>1
  <2>. HIDE DEF w
  <2>6. row' \in [Row -> Rec \cup {None}] /\ SameShape /\ WorkSound' /\ OneHolder'
    BY <1>2, <2>2, <2>3, <2>4, <2>5, DecisionShape
  <2>7. \A b \in Business : Counted(b)' = Counted(b)
    BY <1>2, <2>1, <2>2, DecisionCounts
  <2>8. \A b \in Business : \A q \in Counted(b) : row'[q].form = row[q].form
    BY <2>6 DEF SameShape, Counted, Is
  <2>9. \A b \in Business : StarsOf(b)' = StarsOf(b)
    BY <2>7, <2>8, SameStars
  <2>10. RatingSound' /\ RatingIsExact'
    BY <1>1, <2>7, <2>9 DEF IInv, RatingSound, RatingIsExact
  <2>11. TypeOK'
    BY <1>1, <2>6 DEF IInv, TypeOK
  <2>12. ThreadsStayTwoLevels' /\ ParentsFit' /\ Tokens' /\ DuplicatesExplained'
    BY <1>1, <2>6, FormsFrame
  <2>. QED  BY <2>6, <2>10, <2>11, <2>12 DEF IInv
<1>. QED  BY <1>3, <1>4

\* What Commit writes to the rating of the business is what is counted then.
LEMMA CommitCounts ==
  ASSUME IInv, NEW m \in Moderator, Doing(m, "tx"),
         LET w == work[m]
             b == w.seen.form.home
             d == Delta(w.seen, w.action)
             points == d * w.seen.form.stars
         IN /\ w.found \/ ~rating[b].exists
            /\ row' = [row EXCEPT ![w.on] = Decided(row[w.on], w.action)]
            /\ rating' = [rating EXCEPT ![b] =
                 IF w.found THEN [exists |-> TRUE, count |-> @.count + d, sum |-> @.sum + points]
                 ELSE [exists |-> TRUE, count |-> AtLeast0(d), sum |-> AtLeast0(points)]],
         SameShape
  PROVE  /\ rating' \in [Business -> [exists : BOOLEAN, count : Nat, sum : Nat]]
         /\ RatingSound' /\ RatingIsExact'
         /\ \A b \in Business : rating[b].exists => rating'[b].exists
<1>. DEFINE w == work[m]
<1>1. w # None /\ w.pc = "tx"
  BY DEF Doing
<1>2. /\ w.on \in Row /\ w.action \in Action /\ Made(w.on) /\ w.seen = row[w.on]
      /\ Delta(w.seen, w.action) # 0 /\ w.seen \in Rec
  BY <1>1, WorkIsWork DEF IInv, WorkSound, WorkFine
<1>3. /\ Delta(w.seen, w.action) \in {-1, 1} /\ w.seen.form.kind = "review"
      /\ w.seen.form \in Form
  BY <1>2, DeltaIsOne DEF Rec
<1>4. PICK h \in Business, r \in Row, a \in Action, n \in Nat, d \in {-1, 1} :
        /\ h = w.seen.form.home /\ r = w.on /\ a = w.action /\ n = w.seen.form.stars
        /\ d = Delta(w.seen, w.action)
  BY <1>2, <1>3, FormShape
<1>. DEFINE old == rating[h]
            new == IF w.found THEN [exists |-> TRUE, count |-> old.count + d, sum |-> old.sum + d * n]
                   ELSE [exists |-> TRUE, count |-> AtLeast0(d), sum |-> AtLeast0(d * n)]
<1>5. /\ row' = [row EXCEPT ![r] = Decided(row[r], a)]
      /\ rating' = [rating EXCEPT ![h] = new]
      /\ w.found \/ ~old.exists
  BY <1>4
<1>6. rating'[h] = new /\ \A b \in Business : b # h => rating'[b] = rating[b]
  BY <1>4, <1>5 DEF IInv, TypeOK
<1>7. row[r].form.home = h /\ row[r].form.stars = n /\ d = Delta(row[r], a) /\ Made(r)
  BY <1>2, <1>4
<1>8. old.exists \in BOOLEAN /\ old.count \in Nat /\ old.sum \in Nat
  BY <1>4 DEF IInv, TypeOK
<1>9. new.exists = TRUE
  OBVIOUS
<1>10. /\ old.count = Cardinality(Counted(h)) /\ old.sum = Cardinality(StarsOf(h))
       /\ ~old.exists => old.count = 0 /\ old.sum = 0
  BY <1>4 DEF IInv, RatingIsExact, RatingSound
<1>11. \A b \in Business : \A q \in Counted(b) : row'[q].form = row[q].form
  BY DEF SameShape, Counted, Is
<1>12. \A b \in Business : b # h => Counted(b)' = Counted(b) /\ StarsOf(b)' = StarsOf(b)
  <2>1. SUFFICES ASSUME NEW b \in Business, b # h
                 PROVE  Counted(b)' = Counted(b) /\ StarsOf(b)' = StarsOf(b)
    OBVIOUS
  <2>2. Counted(b)' = Counted(b)
    BY <1>5, <1>7, <2>1, DecisionCounts
  <2>. QED  BY <1>11, <2>2, SameStars
<1>13. Counted(h) \subseteq Row /\ Counted(h)' \subseteq Row
  BY DEF Counted
<1>14. /\ Cardinality(Counted(h)') \in Nat
  BY <1>13, ContributionsAssumption, FS_Subset, FS_CardinalityType
<1>15. /\ new.count = Cardinality(Counted(h)') /\ new.sum = Cardinality(StarsOf(h)')
       /\ IsFiniteSet(StarsOf(h)')
  <2>1. CASE d = 1
    <3>1. r \notin Counted(h) /\ Counted(h)' = Counted(h) \cup {r}
      BY <1>5, <1>7, <2>1, DecisionCounts
    <3>2. \A q \in Counted(h)' : row'[q].form = row[q].form
      BY <1>7, <1>11, <3>1 DEF SameShape
    <3>3. /\ IsFiniteSet(StarsOf(h)')
          /\ Cardinality(Counted(h)') = old.count + 1
          /\ Cardinality(StarsOf(h)') = old.sum + n
      BY <1>7, <1>10, <3>1, <3>2, CountsUp
    <3>4. new.count = old.count + 1 /\ new.sum = old.sum + n
      BY <1>4, <1>5, <1>8, <1>10, <2>1 DEF AtLeast0
    <3>. QED  BY <3>3, <3>4
  <2>2. CASE d = -1
    <3>1. r \notin Counted(h)' /\ Counted(h) = Counted(h)' \cup {r}
      BY <1>5, <1>7, <2>2, DecisionCounts
    <3>2. /\ IsFiniteSet(StarsOf(h)')
          /\ old.count = Cardinality(Counted(h)') + 1
          /\ old.sum = Cardinality(StarsOf(h)') + n
      BY <1>7, <1>10, <1>11, <3>1, CountsDown
    <3>3. old.exists /\ w.found
      BY <1>5, <1>8, <1>10, <1>14, <3>2
    <3>4. Cardinality(StarsOf(h)') \in Nat
      BY <3>2, FS_CardinalityType
    <3>5. new.count = old.count - 1 /\ new.sum = old.sum - n
      BY <1>4, <1>8, <2>2, <3>3
    <3>. QED  BY <1>4, <1>8, <1>14, <3>2, <3>4, <3>5
  <2>. QED  BY <2>1, <2>2
<1>16. Cardinality(StarsOf(h)') \in Nat
  BY <1>15, FS_CardinalityType
<1>17. new \in [exists : BOOLEAN, count : Nat, sum : Nat]
  BY <1>14, <1>15, <1>16
<1>. HIDE DEF new
<1>18. rating' \in [Business -> [exists : BOOLEAN, count : Nat, sum : Nat]]
  BY <1>5, <1>17 DEF IInv, TypeOK
<1>19. RatingSound'
  BY <1>6, <1>9, <1>12, <1>15 DEF IInv, RatingSound
<1>20. RatingIsExact'
  BY <1>6, <1>12, <1>15 DEF IInv, RatingIsExact
<1>21. \A b \in Business : rating[b].exists => rating'[b].exists
  BY <1>6, <1>9
<1>. QED  BY <1>18, <1>19, <1>20, <1>21

LEMMA CommitStep ==
  ASSUME IInv, NEW m \in Moderator, Commit(m)
  PROVE  IInv'
<1>. DEFINE w == work[m]
<1>1. /\ w # None /\ w.pc = "tx" /\ Doing(m, "tx")
      /\ work' = [work EXCEPT ![m] = None]
      /\ UNCHANGED <<memo, submission, excused, begun>>
  BY DEF Commit, Doing, Done
<1>2. w.on \in Row /\ w.action \in Action /\ WorkFine(w) /\ Made(w.on)
  BY <1>1, WorkIsWork DEF IInv, WorkSound, WorkFine
<1>3. CASE w.found \/ ~rating[w.seen.form.home].exists
  <2>1. row' = [row EXCEPT ![w.on] = Decided(row[w.on], w.action)]
    BY <1>3 DEF Commit
  <2>2. \A n \in Moderator : work'[n] = work[n] \/ work'[n] = None
    BY <1>1 DEF IInv, TypeOK
  <2>3. \A n \in Moderator : work'[n] # None /\ work[n].on = w.on => work[n].pc # "tx"
    BY <1>1, <2>2 DEF IInv, OneHolder, Doing, TypeOK
  <2>4. SameShape
    <3>1. row[w.on] \in Rec
      BY <1>2, RowIsRec DEF IInv
    <3>2. /\ Decided(row[w.on], w.action) \in Rec
          /\ Decided(row[w.on], w.action).form = row[w.on].form
          /\ Decided(row[w.on], w.action).token = row[w.on].token
          /\ Decided(row[w.on], w.action).parent = row[w.on].parent
      BY <1>2, <3>1, DecidedIsRec
    <3>3. \A q \in Row : q # w.on => row'[q] = row[q]
      BY <2>1 DEF IInv, TypeOK
    <3>4. row'[w.on] = Decided(row[w.on], w.action)
      BY <1>2, <2>1 DEF IInv, TypeOK
    <3>. QED  BY <1>2, <3>2, <3>3, <3>4, NoneAssumption DEF SameShape, Made
  <2>5. /\ rating' \in [Business -> [exists : BOOLEAN, count : Nat, sum : Nat]]
        /\ RatingSound' /\ RatingIsExact'
        /\ \A b \in Business : rating[b].exists => rating'[b].exists
    BY <1>1, <1>3, <2>4, CommitCounts DEF Commit
  <2>. HIDE DEF w
  <2>6. row' \in [Row -> Rec \cup {None}] /\ WorkSound' /\ OneHolder'
    BY <1>2, <2>1, <2>2, <2>3, <2>5, DecisionShape
  <2>7. TypeOK'
    BY <1>1, <2>5, <2>6 DEF IInv, TypeOK
  <2>8. ThreadsStayTwoLevels' /\ ParentsFit' /\ Tokens' /\ DuplicatesExplained'
    BY <1>1, <2>4, FormsFrame
  <2>. QED  BY <2>5, <2>6, <2>7, <2>8 DEF IInv
<1>4. CASE ~(w.found \/ ~rating[w.seen.form.home].exists)
  <2>1. UNCHANGED <<row, rating>>
    BY <1>4 DEF Commit
  <2>. QED  BY <1>1, <2>1, PutWork
<1>. QED  BY <1>3, <1>4

-----------------------------------------------------------------------------
LEMMA InitInv == Init => IInv
<1>1. SUFFICES ASSUME Init PROVE IInv
  OBVIOUS
<1>. USE <1>1 DEF Init
<1>2. TypeOK
  BY ContributionsAssumption DEF TypeOK
<1>3. \A b \in Business : Counted(b) = {} /\ StarsOf(b) = {}
  <2>1. SUFFICES ASSUME NEW b \in Business PROVE Counted(b) = {} /\ StarsOf(b) = {}
    OBVIOUS
  <2>2. Counted(b) = {}
    BY DEF Counted, Is, Made
  <2>. QED  BY <2>2 DEF StarsOf
<1>4. RatingSound /\ RatingIsExact
  BY <1>3, FS_EmptySet DEF RatingSound, RatingIsExact
<1>5. WorkSound /\ OneHolder /\ ParentsFit
  BY DEF WorkSound, OneHolder, Doing, ParentsFit
<1>6. ThreadsStayTwoLevels /\ DuplicatesExplained
  BY DEF ThreadsStayTwoLevels, DuplicatesExplained, Made
<1>7. Tokens
  BY DEF Tokens, TokenFine, InFlight, Made
<1>. QED  BY <1>2, <1>4, <1>5, <1>6, <1>7 DEF IInv

LEMMA NextInv == IInv /\ [Next]_vars => IInv'
<1>1. SUFFICES ASSUME IInv, [Next]_vars PROVE IInv'
  OBVIOUS
<1>. USE <1>1
<1>2. CASE UNCHANGED vars
  <2>1. TypeOK' /\ SameShape
    BY <1>2 DEF vars, IInv, TypeOK, SameShape, Made
  <2>. QED  BY <1>2, <2>1, RowsFrame, WorkFrame, FormsFrame DEF vars, IInv
<1>3. CASE Submit
  <2>1. CASE \E t \in Token : Expire(t)
    BY <2>1, ExpireStep
  <2>2. ASSUME NEW v \in Visitor, NEW f \in Form, NEW k \in Key, Begin(v, f, k) PROVE IInv'
    BY <2>2, BeginStep
  <2>3. ASSUME NEW v \in Visitor, NEW r \in Row, Create(v, r) PROVE IInv'
    BY <2>3, CreateStep
  <2>4. ASSUME NEW v \in Visitor,
               DropExpired(v) \/ Check(v) \/ Refuse(v) \/ Remember(v) \/ Forget(v)
        PROVE  IInv'
    BY <2>4, DropExpiredStep, CheckStep, RefuseStep, RememberStep, ForgetStep
  <2>. QED  BY <1>3, <2>1, <2>2, <2>3, <2>4 DEF Submit
<1>4. CASE Moderate
  <2>1. ASSUME NEW m \in Moderator, NEW r \in Row, NEW a \in Action, Open(m, r, a) PROVE IInv'
    BY <2>1, OpenStep
  <2>2. ASSUME NEW m \in Moderator, NEW r \in Row, StaffReply(m, r) PROVE IInv'
    BY <2>2, StaffReplyStep
  <2>3. ASSUME NEW m \in Moderator,
               Load(m) \/ Decide(m) \/ Enter(m) \/ Commit(m) \/ Abandon(m)
        PROVE  IInv'
    BY <2>3, LoadStep, DecideStep, EnterStep, CommitStep, AbandonStep
  <2>. QED  BY <1>4, <2>1, <2>2, <2>3 DEF Moderate
<1>. QED  BY <1>2, <1>3, <1>4 DEF Next

LEMMA Invariant == Spec => []IInv
  BY InitInv, NextInv, PTL DEF Spec

\* Every reachable state has the types TypeOK gives it: in particular a rating
\* never goes below zero.
THEOREM TypeCorrect == Spec => []TypeOK
<1>1. IInv => TypeOK
  BY DEF IInv
<1>. QED  BY <1>1, Invariant, PTL

\* The rating of a business is at all times the count and the sum of its approved
\* reviews, for any number of moderators deciding at once (RatingIsExact).
THEOREM RatingAlwaysExact == Spec => []RatingIsExact
<1>1. IInv => RatingIsExact
  BY DEF IInv
<1>. QED  BY <1>1, Invariant, PTL

\* A key makes two rows only when two of its requests overlapped, or its receipt
\* was lost or expired (DuplicatesExplained).
THEOREM KeysExplained == Spec => []DuplicatesExplained
<1>1. IInv => DuplicatesExplained
  BY DEF IInv
<1>. QED  BY <1>1, Invariant, PTL

\* Whatever is answered, by a visitor or the team, threads keep two levels
\* (ThreadsStayTwoLevels).
THEOREM TwoLevelsAlways == Spec => []ThreadsStayTwoLevels
<1>1. IInv => ThreadsStayTwoLevels
  BY DEF IInv
<1>. QED  BY <1>1, Invariant, PTL

-----------------------------------------------------------------------------
\* What a row that changes was when the moderator saw it.

LEMMA SeenWhenChanged ==
  ASSUME IInv, [Next]_vars, NEW r \in Row, Made(r), row'[r] # row[r]
  PROVE  \E m \in Moderator : work[m] # None /\ work[m].on = r /\ work[m].seen = row[r]
<1>1. \A v \in Visitor, q \in Row : Create(v, q) => row'[r] = row[r]
  BY DEF IInv, TypeOK, Create
<1>2. \A m \in Moderator, q \in Row : StaffReply(m, q) => row'[r] = row[r]
  BY DEF IInv, TypeOK, StaffReply
<1>3. ASSUME NEW m \in Moderator, Decide(m) \/ Commit(m)
      PROVE  work[m] # None /\ work[m].on = r /\ work[m].seen = row[r]
  <2>1. work[m] # None
    BY <1>3 DEF Decide, Commit, Doing
  <2>2. WorkFine(work[m])
    BY <2>1 DEF IInv, WorkSound
  <2>3. /\ row' = [row EXCEPT ![work[m].on] = Decided(row[work[m].on], work[m].action)]
        /\ Unchanged(work[m]) \/ work[m].pc = "tx"
    BY <1>3 DEF Decide, Commit, Doing
  <2>4. work[m].on = r
    BY <2>3 DEF IInv, TypeOK
  <2>. QED  BY <2>1, <2>2, <2>3, <2>4 DEF WorkFine, Unchanged
<1>4. \/ \E v \in Visitor, q \in Row : Create(v, q)
      \/ \E m \in Moderator, q \in Row : StaffReply(m, q)
      \/ \E m \in Moderator : Decide(m) \/ Commit(m)
  <2>1. \A v \in Visitor, f \in Form, k \in Key : ~Begin(v, f, k)
    BY DEF Begin
  <2>2. \A v \in Visitor : ~(DropExpired(v) \/ Check(v) \/ Refuse(v) \/ Remember(v) \/ Forget(v))
    BY DEF DropExpired, Check, Refuse, Remember, Forget
  <2>3. \A t \in Token : ~Expire(t)
    BY DEF Expire
  <2>4. \A m \in Moderator : ~(Load(m) \/ Enter(m) \/ Abandon(m))
    BY DEF Load, Enter, Abandon
  <2>5. \A m \in Moderator, q \in Row, a \in Action : ~Open(m, q, a)
    BY DEF Open
  <2>6. Next
    BY DEF vars
  <2>. QED  BY <2>1, <2>2, <2>3, <2>4, <2>5, <2>6 DEF Next, Submit, Moderate
<1>. QED  BY <1>1, <1>2, <1>3, <1>4

\* A row changes only by a decision of someone who was shown it as it then was
\* (NothingDecidedUnseen).
THEOREM DecidedAsSeen == Spec => NothingDecidedUnseen
<1>1. IInv /\ [Next]_vars =>
        [\A r \in Row : Made(r) /\ row'[r] # row[r] =>
           \E m \in Moderator : work[m] # None /\ work[m].on = r /\ work[m].seen = row[r]]_vars
  BY SeenWhenChanged
<1>. QED  BY <1>1, Invariant, PTL DEF Spec, NothingDecidedUnseen
=============================================================================
