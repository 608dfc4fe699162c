---------------------------- MODULE PagesProofs -----------------------------
(***************************************************************************)
(* Proofs about Pages, for any sets of pages, addresses, texts, editors    *)
(* and publishers and any number of revisions kept.                        *)
(*                                                                         *)
(* Whoever holds a version of a page holds the row itself if the page      *)
(* still has that version, because every write of a row raises it.  That   *)
(* settles the writes by id.  A write by address finds the page it was     *)
(* asked for as long as no address is given to a page under an editor who  *)
(* has the page that had it before: that is what "confused" records, and   *)
(* what only some of the conjuncts below need.                             *)
(***************************************************************************)
EXTENDS Pages, FiniteSetTheorems, TLAPS

-----------------------------------------------------------------------------
(* The table: rows, dates, addresses.                                      *)

Dated(r) == r.status = "scheduled" <=> r.at # 0

TableInv ==
  /\ now \in Time
  /\ row \in [Page -> Row \cup {None, Gone}]
  /\ \A p \in Page : Exists(p) => Dated(row[p])
  /\ \A p, q \in Page : Exists(p) /\ Exists(q) /\ row[p].slug = row[q].slug => p = q
  /\ redirect \in [Slug -> Slug \cup {None}]
  /\ confused \in BOOLEAN

-----------------------------------------------------------------------------
(* What is in hand: desks and the publishers' batches.                     *)

\* A copy of a page is its row, or older, or the page is gone.
CopyOf(x, r) == /\ r \in Row
                /\ x # None
                /\ x \in Row => r.version <= x.version
                /\ x \in Row /\ r.version = x.version => r = x

Copy(p, r) == CopyOf(row[p], r)

Loaded == {"view", "remove"} \cup ByAddress \cup ById

\* What the checks outside the transaction have established.
Ready(op, r, input) ==
  /\ op = "schedule" => r.status # "published" /\ input.at # 0
  /\ op = "unschedule" => r.status = "scheduled"
  /\ op = "move" => input.slug # r.slug

\* A desk with nothing loaded: idle, an address without a page, a creation.
Blank(d) == /\ d.op \in {"idle", "view", "create", "save"}
            /\ d.page = None
            /\ d.op # "idle" => d.slug \in Slug
            /\ d.op \in {"create", "save"} => d.input \in Input

GoodDesk(d) ==
  /\ d \in Desk
  /\ d.seen = None => Blank(d)
  /\ d.seen # None =>
       /\ d.op \in Loaded /\ d.page \in Page /\ d.seen.slug = d.slug
       /\ Copy(d.page, d.seen)
       /\ d.op \in ByAddress \cup ById => d.input \in Input /\ Ready(d.op, d.seen, d.input)

\* The page at the address of a desk is the page of the desk.
Finds(d) == d.page # None => Holders(d.slug) \subseteq {d.page}

DeskInv ==
  /\ desk \in [Editor -> Desk]
  /\ \A e \in Editor : GoodDesk(desk[e])
  /\ ~confused => \A e \in Editor : Finds(desk[e])

PassInv ==
  /\ pass \in [Worker -> [Page -> Row \cup {None}]]
  /\ \A w \in Worker, p \in Page : pass[w][p] # None =>
       Copy(p, pass[w][p]) /\ pass[w][p].status = "scheduled" /\ pass[w][p].at <= now

-----------------------------------------------------------------------------
(* Where addresses lead.                                                   *)

KnownInv ==
  /\ known \in [Slug -> Page \cup {None}]
  /\ \A s \in Slug : known[s] # None => Public(row[known[s]])
  /\ \A p \in Page : Public(row[p]) => known[row[p].slug] = p
  /\ \A s \in Slug : known[s] # None =>
       LET home == row[known[s]].slug
       IN s = home \/ (redirect[s] = home /\ redirect[home] = None)

\* No rule leads away from the address of a page, unless the page was given the
\* address of a rule.
ShadowInv ==
  /\ shadowed \subseteq Page
  /\ \A p \in Page : Exists(p) /\ redirect[row[p].slug] # None => p \in shadowed

-----------------------------------------------------------------------------
(* What is announced and what is kept.                                     *)

AnnouncedInv ==
  /\ announced \in [Page -> Face \cup {None}]
  /\ ~confused => \A p \in Page : row[p] # Gone => announced[p] = FaceOf(row[p])

Of(p, set) == {r \in set : r.page = p}

\* At most MaxRevisions of a page, one for each version.
RevisionsSound(set) ==
  /\ set \subseteq Revision
  /\ \A x, y \in set : x.page = y.page /\ x.version = y.version => x = y
  /\ \A q \in Page : IsFiniteSet(Of(q, set)) /\ Cardinality(Of(q, set)) <= MaxRevisions

\* All of them are of versions before the present one of their page.
RevisionInv ==
  /\ RevisionsSound(revision)
  /\ \A x \in revision : row[x.page] # None
  /\ ~confused => \A x \in revision : Exists(x.page) => x.version < row[x.page].version

PageInv == TableInv /\ DeskInv /\ PassInv /\ KnownInv /\ ShadowInv /\ AnnouncedInv /\ RevisionInv

-----------------------------------------------------------------------------
(* The latest of a finite set of versions.                                 *)

Newer(x, A) == {y \in A : y.version > x.version}

Latest(A, n) == {x \in A : Cardinality(Newer(x, A)) < n}

\* Not more than n elements have fewer than n newer ones: counting the newer
\* ones tells the elements apart.
LEMMA LatestAreFew ==
  ASSUME NEW A, IsFiniteSet(A), NEW n \in Nat, \A x \in A : x.version \in Nat,
         \A x, y \in A : x.version = y.version => x = y
  PROVE  IsFiniteSet(Latest(A, n)) /\ Cardinality(Latest(A, n)) <= n
<1>1. ASSUME NEW x \in A PROVE IsFiniteSet(Newer(x, A)) /\ Cardinality(Newer(x, A)) \in Nat
  BY FS_Subset, FS_CardinalityType DEF Newer
<1>2. ASSUME NEW x \in A, NEW y \in A, x.version < y.version
      PROVE  Cardinality(Newer(y, A)) < Cardinality(Newer(x, A))
  <2>1. Newer(y, A) \subseteq Newer(x, A) /\ y \in Newer(x, A) /\ y \notin Newer(y, A)
    BY <1>2 DEF Newer
  <2>2. /\ Cardinality(Newer(y, A)) <= Cardinality(Newer(x, A))
        /\ Cardinality(Newer(y, A)) # Cardinality(Newer(x, A))
    BY <1>1, <2>1, FS_Subset
  <2>3. QED BY <1>1, <2>2
<1> DEFINE count == [x \in Latest(A, n) |-> Cardinality(Newer(x, A))]
<1>3. count \in [Latest(A, n) -> 0..(n-1)]
  BY <1>1 DEF Latest
<1>4. ASSUME NEW x \in Latest(A, n), NEW y \in Latest(A, n), count[x] = count[y] PROVE x = y
  <2>1. x \in A /\ y \in A /\ Cardinality(Newer(x, A)) = Cardinality(Newer(y, A))
    BY <1>4 DEF Latest
  <2>2. ~(x.version < y.version) /\ ~(y.version < x.version)
    BY <1>1, <1>2, <2>1
  <2>3. QED BY <2>1, <2>2
<1>5. count \in Injection(Latest(A, n), 0..(n-1))
  BY <1>3, <1>4, Zenon DEF Injection, IsInjective
<1>6. IsFiniteSet(0..(n-1)) /\ Cardinality(0..(n-1)) = n
  BY FS_Interval
<1>7. QED BY <1>5, <1>6, FS_Injection

\* If one is dropped from at most n + 1, every newer one is kept.
LEMMA DroppedHasLater ==
  ASSUME NEW A, IsFiniteSet(A), NEW n \in Nat, Cardinality(A) <= n + 1,
         \A x \in A : x.version \in Nat, NEW x \in A, x \notin Latest(A, n)
  PROVE  Newer(x, A) \subseteq Latest(A, n) /\ Cardinality(Newer(x, A)) >= n
<1>1. Cardinality(A) \in Nat /\ IsFiniteSet(Newer(x, A)) /\ Cardinality(Newer(x, A)) \in Nat
  BY FS_Subset, FS_CardinalityType DEF Newer
<1>2. Cardinality(Newer(x, A)) >= n
  BY <1>1 DEF Latest
<1>3. ASSUME NEW y \in Newer(x, A) PROVE y \in Latest(A, n)
  <2> DEFINE B == (A \ {x}) \ {y}
  <2>1. y \in A /\ y # x /\ Newer(y, A) \subseteq B
    BY <1>3 DEF Newer
  <2>2. IsFiniteSet(A \ {x}) /\ Cardinality(A \ {x}) = Cardinality(A) - 1
    BY FS_RemoveElement
  <2>3. IsFiniteSet(B) /\ Cardinality(B) = Cardinality(A) - 2
    <3>1. IsFiniteSet(B) /\ Cardinality(B) = Cardinality(A \ {x}) - 1
      BY <2>1, <2>2, FS_RemoveElement
    <3>2. QED BY <1>1, <2>2, <3>1
  <2>4. /\ Cardinality(Newer(y, A)) <= Cardinality(B)
        /\ Cardinality(Newer(y, A)) \in Nat
    BY <2>1, <2>3, FS_Subset, FS_CardinalityType
  <2>5. Cardinality(Newer(y, A)) < n BY <1>1, <2>3, <2>4
  <2>6. QED BY <2>1, <2>5 DEF Latest
<1>4. QED BY <1>2, <1>3

Snapshot(p, r) == [page |-> p, version |-> r.version, text |-> r.text]

\* What a save leaves of the revisions.
LEMMA KeptIsSound ==
  ASSUME RevisionsSound(revision), NEW p \in Page, NEW r \in Row
  PROVE  /\ RevisionsSound(Kept(p, r))
         /\ Kept(p, r) \subseteq revision \cup {Snapshot(p, r)}
         /\ (\A x \in revision : x.page = p => x.version < r.version) => Snapshot(p, r) \in Kept(p, r)
         /\ \A x \in revision \ Kept(p, r) :
              /\ x.page = p
              /\ Cardinality({y \in Kept(p, r) : y.page = p /\ y.version > x.version}) >= MaxRevisions
<1> DEFINE new == Snapshot(p, r)
           has == \E x \in revision : x.page = p /\ x.version = r.version
           all == IF has THEN revision ELSE revision \cup {new}
           A   == Of(p, all)
           K   == Kept(p, r)
<1>0. MaxRevisions \in Nat /\ MaxRevisions > 0 BY LimitAssumption
<1>1. new \in Revision /\ new.page = p /\ new.version = r.version
  BY DEF Snapshot, Revision, Row
<1>2. /\ all \subseteq Revision
      /\ \A x, y \in all : x.page = y.page /\ x.version = y.version => x = y
  BY <1>1 DEF RevisionsSound
<1>3. /\ A \subseteq Of(p, revision) \cup {new}
      /\ \A q \in Page : q # p => Of(q, all) = Of(q, revision)
  BY <1>1 DEF Of
<1>4. /\ IsFiniteSet(A) /\ Cardinality(A) \in Nat /\ Cardinality(A) <= MaxRevisions + 1
  <2>1. /\ IsFiniteSet(Of(p, revision)) /\ Cardinality(Of(p, revision)) \in Nat
        /\ Cardinality(Of(p, revision)) <= MaxRevisions
    BY FS_CardinalityType DEF RevisionsSound
  <2>2. /\ IsFiniteSet(Of(p, revision) \cup {new})
        /\ Cardinality(Of(p, revision) \cup {new}) \in Nat
        /\ Cardinality(Of(p, revision) \cup {new}) <= MaxRevisions + 1
    <3> DEFINE B == Of(p, revision)
    <3> HIDE DEF B, new
    <3>1. /\ IsFiniteSet(B \cup {new})
          /\ Cardinality(B \cup {new}) = IF new \in B THEN Cardinality(B) ELSE Cardinality(B) + 1
      BY <2>1, FS_AddElement DEF B
    <3>2. QED BY <1>0, <2>1, <3>1 DEF B
  <2>3. /\ IsFiniteSet(A) /\ Cardinality(A) <= Cardinality(Of(p, revision) \cup {new})
    BY <1>3, <2>2, FS_Subset
  <2>4. Cardinality(A) \in Nat BY <2>3, FS_CardinalityType
  <2>5. QED BY <1>0, <2>2, <2>3, <2>4
<1>5. /\ \A x \in A : x \in all /\ x.page = p /\ x.version \in Nat
      /\ \A x, y \in A : x.version = y.version => x = y
  BY <1>2 DEF Of, Revision
<1>6. K = {x \in all : x.page = p => x \in Latest(A, MaxRevisions)}
  <2>1. \A x : {y \in all : y.page = p /\ y.version > x.version} = Newer(x, A)
    BY DEF Newer, Of
  <2>2. K = {x \in all : x.page = p => Cardinality(Newer(x, A)) < MaxRevisions}
    BY <2>1 DEF Kept, Snapshot
  <2>3. QED BY <2>2 DEF Latest, Of
<1> HIDE DEF K, all, A
<1>7. Of(p, K) = Latest(A, MaxRevisions)
  BY <1>5, <1>6 DEF Of, Latest
<1>8. \A q \in Page : q # p => Of(q, K) = Of(q, revision)
  BY <1>3, <1>6 DEF Of
<1>9. RevisionsSound(K)
  <2>1. IsFiniteSet(Of(p, K)) /\ Cardinality(Of(p, K)) <= MaxRevisions
    BY <1>0, <1>4, <1>5, <1>7, LatestAreFew
  <2>2. \A q \in Page : IsFiniteSet(Of(q, K)) /\ Cardinality(Of(q, K)) <= MaxRevisions
    BY <1>8, <2>1 DEF RevisionsSound
  <2>3. QED BY <1>2, <1>6, <2>2 DEF RevisionsSound
<1>10. K \subseteq revision \cup {new}
  BY <1>6 DEF all
<1>11. ASSUME \A x \in revision : x.page = p => x.version < r.version PROVE new \in K
  <2>1. ~has BY <1>11 DEF RevisionsSound, Revision, Row
  <2>2. new \in all /\ new \in A BY <1>1, <2>1 DEF all, A, Of
  <2>3. Newer(new, A) = {}
    BY <1>1, <1>3, <1>11 DEF Newer, Of, RevisionsSound, Revision, Row
  <2>4. Cardinality(Newer(new, A)) = 0 BY <2>3, FS_EmptySet
  <2>5. QED BY <1>0, <1>6, <2>2, <2>4 DEF Latest
<1>12. ASSUME NEW x \in revision \ K
       PROVE  /\ x.page = p
              /\ Cardinality({y \in K : y.page = p /\ y.version > x.version}) >= MaxRevisions
  <2>1. x \in all /\ x.page = p /\ x \notin Latest(A, MaxRevisions) /\ x \in A
    BY <1>6, <1>12 DEF all, A, Of
  <2>2. Newer(x, A) \subseteq Latest(A, MaxRevisions) /\ Cardinality(Newer(x, A)) >= MaxRevisions
    BY <1>0, <1>4, <1>5, <2>1, DroppedHasLater
  <2>3. {y \in K : y.page = p /\ y.version > x.version} = Newer(x, A)
    BY <1>6, <1>7, <2>2 DEF Newer, Of, Latest, A
  <2>4. QED BY <2>1, <2>2, <2>3
<1>13. QED BY <1>9, <1>10, <1>11, <1>12 DEF K

-----------------------------------------------------------------------------
(* What a step may do to a row: make it, write it, remove it.              *)

Onward(p) == \/ row'[p] = row[p]
             \/ row[p] = None /\ row'[p] \in Row
             \/ Exists(p) /\ row'[p] = Gone
             \/ Exists(p) /\ row'[p] \in Row /\ row'[p].version = row[p].version + 1

RowsGoOn == \A p \in Page : Onward(p)

LEMMA Distinct == None \notin Row /\ Gone \notin Row /\ None # Gone /\ None \notin Page /\ None \notin Slug
BY NoneAssumption

LEMMA CopiesStayCopies ==
  ASSUME RowsGoOn
  PROVE  \A p \in Page : \A r : CopyOf(row[p], r) => CopyOf(row'[p], r)
<1> SUFFICES ASSUME NEW p \in Page, NEW r, CopyOf(row[p], r) PROVE CopyOf(row'[p], r)
  OBVIOUS
<1>1. Onward(p) BY DEF RowsGoOn
<1>2. CASE row'[p] = row[p] BY <1>2
<1>3. CASE Exists(p) /\ row'[p] = Gone
  BY <1>3, Distinct DEF CopyOf
<1>4. CASE Exists(p) /\ row'[p] \in Row /\ row'[p].version = row[p].version + 1
  <2>1. r \in Row /\ r.version \in Nat /\ row[p].version \in Nat /\ r.version <= row[p].version
    BY <1>4 DEF CopyOf, Exists, Row
  <2>2. r.version < row'[p].version BY <1>4, <2>1
  <2>3. QED BY <1>4, <2>1, <2>2, Distinct DEF CopyOf
<1>5. QED BY <1>1, <1>2, <1>3, <1>4 DEF Onward, CopyOf

\* No desk finds another page at its address, unless that is noted.
AddressesGiven ==
  ~confused' =>
    /\ ~confused
    /\ \A p \in Page : row'[p] \in Row /\ ~(Exists(p) /\ row'[p].slug = row[p].slug) =>
         ~Confuses(p, row'[p].slug)

LEMMA DeskStep ==
  ASSUME DeskInv, RowsGoOn, AddressesGiven,
         \A e \in Editor : desk'[e] = desk[e] \/ desk'[e] = Idle,
         desk' \in [Editor -> Desk]
  PROVE  DeskInv'
<1>1. ASSUME NEW e \in Editor PROVE GoodDesk(desk[e])'
  <2>1. CASE desk'[e] = Idle
    BY <2>1 DEF Idle, GoodDesk, Blank
  <2>2. CASE desk'[e] = desk[e]
    <3>1. GoodDesk(desk[e]) BY DEF DeskInv
    <3>2. desk[e].seen # None => CopyOf(row'[desk[e].page], desk[e].seen)
      BY <3>1, CopiesStayCopies DEF GoodDesk, Copy
    <3>3. QED BY <2>2, <3>1, <3>2 DEF GoodDesk, Blank, Ready, Copy
  <2>3. QED BY <2>1, <2>2
<1>2. ASSUME ~confused', NEW e \in Editor PROVE Finds(desk[e])'
  <2>1. CASE desk'[e] = Idle BY <2>1 DEF Idle, Finds
  <2>2. CASE desk'[e] = desk[e]
    <3>1. SUFFICES ASSUME desk[e].page # None, NEW p \in Page, row'[p] \in Row,
                          row'[p].slug = desk[e].slug
                   PROVE  p = desk[e].page
      BY <2>2 DEF Finds, Holders, Exists
    <3>2. CASE Exists(p) /\ row'[p].slug = row[p].slug
      <4>1. p \in Holders(desk[e].slug) BY <3>1, <3>2 DEF Holders
      <4>2. Finds(desk[e]) BY <1>2 DEF DeskInv, AddressesGiven
      <4>3. QED BY <3>1, <4>1, <4>2 DEF Finds
    <3>3. CASE ~(Exists(p) /\ row'[p].slug = row[p].slug)
      BY <1>2, <3>1, <3>3 DEF AddressesGiven, Confuses
    <3>4. QED BY <3>2, <3>3
  <2>3. QED BY <2>1, <2>2
<1>3. QED BY <1>1, <1>2 DEF DeskInv

\* A row that is made or written.
LEMMA TableWrite ==
  ASSUME TableInv, NEW p \in Page, NEW n \in Row, Dated(n), row' = [row EXCEPT ![p] = n],
         (Exists(p) /\ n.slug = row[p].slug) \/ Free(n.slug),
         now' \in Time, redirect' \in [Slug -> Slug \cup {None}], confused' \in BOOLEAN
  PROVE  TableInv'
<1>1. /\ row' \in [Page -> Row \cup {None, Gone}] /\ row'[p] = n
      /\ \A q \in Page : q # p => row'[q] = row[q]
  BY DEF TableInv
<1>2. \A q \in Page : row'[q] \in Row => Dated(row'[q])
  BY <1>1 DEF TableInv, Exists
<1>3. ASSUME NEW q \in Page, row'[q] \in Row, row'[q].slug = n.slug PROVE q = p
  BY <1>1, <1>3 DEF TableInv, Exists, Free, Holders
<1>4. \A q, t \in Page : row'[q] \in Row /\ row'[t] \in Row /\ row'[q].slug = row'[t].slug => q = t
  <2>1. SUFFICES ASSUME NEW q \in Page, NEW t \in Page, row'[q] \in Row, row'[t] \in Row,
                        row'[q].slug = row'[t].slug
                 PROVE  q = t
    OBVIOUS
  <2>2. CASE q = p \/ t = p BY <1>1, <1>3, <2>1, <2>2
  <2>3. CASE q # p /\ t # p BY <1>1, <2>1, <2>3 DEF TableInv, Exists
  <2>4. QED BY <2>2, <2>3
<1>5. QED BY <1>1, <1>2, <1>4 DEF TableInv, Exists, Dated

LEMMA PassStep ==
  ASSUME TableInv, PassInv, RowsGoOn, now' \in Time, now <= now',
         pass' \in [Worker -> [Page -> Row \cup {None}]],
         \A w \in Worker, p \in Page :
           \/ pass'[w][p] \in {pass[w][p], None}
           \/ IsDue(p) /\ row'[p] = row[p] /\ pass'[w][p] = row[p]
  PROVE  PassInv'
<1>1. now \in Nat /\ now' \in Nat BY LimitAssumption DEF TableInv, Time
<1>2. SUFFICES ASSUME NEW w \in Worker, NEW p \in Page, pass'[w][p] # None
               PROVE  /\ CopyOf(row'[p], pass'[w][p]) /\ pass'[w][p].status = "scheduled"
                      /\ pass'[w][p].at <= now'
  BY DEF PassInv, Copy
<1>3. CASE pass'[w][p] = pass[w][p]
  <2>1. /\ CopyOf(row[p], pass[w][p]) /\ pass[w][p].status = "scheduled" /\ pass[w][p].at <= now
    BY <1>2, <1>3 DEF PassInv, Copy
  <2>2. pass[w][p].at \in Nat BY <2>1, LimitAssumption DEF CopyOf, Row, Time
  <2>3. CopyOf(row'[p], pass[w][p]) BY <2>1, CopiesStayCopies
  <2>4. QED BY <1>1, <1>3, <2>1, <2>2, <2>3
<1>4. CASE IsDue(p) /\ row'[p] = row[p] /\ pass'[w][p] = row[p]
  <2>1. /\ row[p] \in Row /\ row[p].status = "scheduled" /\ row[p].at <= now /\ row[p].at \in Nat
        /\ row[p].version \in Nat
    BY <1>4, LimitAssumption DEF IsDue, Exists, Row, Time
  <2>2. CopyOf(row[p], row[p]) BY <2>1, Distinct DEF CopyOf
  <2>3. QED BY <1>1, <1>4, <2>1, <2>2
<1>5. QED BY <1>2, <1>3, <1>4

\* Nothing that is or becomes public changes.
LEMMA KnownSame ==
  ASSUME KnownInv, UNCHANGED <<known, redirect>>,
         \A p \in Page : Public(row[p]) \/ Public(row'[p]) => row'[p] = row[p]
  PROVE  KnownInv'
BY DEF KnownInv

LEMMA KnownWrite ==
  ASSUME TableInv, KnownInv, NEW p \in Page, Exists(p), NEW n \in Row \cup {Gone},
         row' = [row EXCEPT ![p] = n], known' = KnownWith(p, n),
         n \in Row /\ n.slug # row[p].slug => Free(n.slug),
         \/ redirect' = redirect /\ (n \in Row /\ Public(row[p]) => n.slug = row[p].slug)
         \/ /\ redirect' = Redirected(row[p].slug, n.slug) /\ n \in Row /\ n.slug # row[p].slug
            /\ Public(row[p]) /\ Public(n)
  PROVE  KnownInv'
<1> DEFINE from == row[p].slug
           to == n.slug
<1>1. /\ row[p] \in Row /\ from \in Slug /\ row'[p] = n
      /\ \A q \in Page : q # p => row'[q] = row[q]
      /\ known \in [Slug -> Page \cup {None}] /\ redirect \in [Slug -> Slug \cup {None}]
  BY DEF TableInv, KnownInv, Exists, Row
<1>2. ASSUME Public(n) PROVE n \in Row /\ to \in Slug
  BY <1>2 DEF Public, Row
<1>3. \A s \in Slug : known'[s] = IF Public(n) /\ to = s THEN p
                                  ELSE IF known[s] = p /\ ~Public(n) THEN None ELSE known[s]
  BY DEF KnownWith
<1>4. known' \in [Slug -> Page \cup {None}]
  BY <1>1 DEF KnownWith
<1>5. \A s \in Slug : known'[s] # None => Public(row'[known'[s]])
  BY <1>1, <1>3 DEF KnownInv
<1>6. ASSUME n \in Row, NEW q \in Page, q # p, Exists(q) PROVE row[q].slug # to /\ row[q].slug # from
  BY <1>1, <1>6 DEF TableInv, Exists, Free, Holders
<1>7. \A q \in Page : Public(row'[q]) => known'[row'[q].slug] = q
  <2>1. SUFFICES ASSUME NEW q \in Page, Public(row'[q]) PROVE known'[row'[q].slug] = q
    OBVIOUS
  <2>2. CASE q = p BY <1>1, <1>2, <1>3, <2>1, <2>2
  <2>3. CASE q # p
    <3>1. row'[q] = row[q] /\ Exists(q) /\ row[q].slug \in Slug /\ known[row[q].slug] = q
      BY <1>1, <2>1, <2>3 DEF Public, Exists, KnownInv, Row
    <3>2. Public(n) => row[q].slug # to BY <1>2, <1>6, <2>3, <3>1
    <3>3. QED BY <1>3, <2>3, <3>1, <3>2
  <2>4. QED BY <2>2, <2>3
<1>8. ASSUME NEW s \in Slug, known'[s] # None, row'[known'[s]].slug # s
      PROVE  redirect'[s] = row'[known'[s]].slug /\ redirect'[row'[known'[s]].slug] = None
  <2> DEFINE q == known[s]
             at == row[q].slug
  <2>1. ~(Public(n) /\ to = s) BY <1>1, <1>3, <1>8
  <2>2. known'[s] = q /\ q # None /\ q \in Page /\ (q = p => Public(n))
    BY <1>1, <1>3, <1>8, <2>1
  <2>3. /\ Public(row[q]) /\ Exists(q) /\ at \in Slug
        /\ at = s \/ (redirect[s] = at /\ redirect[at] = None)
    BY <2>2 DEF KnownInv, Public, Exists, Row
  <2>4. CASE redirect' = redirect /\ (n \in Row /\ Public(row[p]) => to = from)
    <3>1. row'[q].slug = at
      BY <1>1, <1>2, <2>2, <2>3, <2>4
    <3>2. QED BY <1>8, <2>2, <2>3, <2>4, <3>1
  <2>5. CASE /\ redirect' = Redirected(from, to) /\ n \in Row /\ to # from
             /\ Public(row[p]) /\ Public(n)
    <3>1. /\ redirect'[from] = to /\ redirect'[to] = None
          /\ \A x \in Slug \ {from, to} :
               redirect'[x] = IF redirect[x] = from THEN to ELSE redirect[x]
      BY <1>1, <1>2, <2>5 DEF Redirected
    <3>2. s # to BY <2>1, <2>5
    <3>3. CASE q = p
      <4>1. row'[q].slug = to BY <1>1, <3>3
      <4>2. CASE s = from BY <2>2, <3>1, <4>1, <4>2
      <4>3. CASE s # from
        <5>1. redirect[s] = from BY <2>3, <3>3, <4>3
        <5>2. QED BY <2>2, <3>1, <3>2, <4>1, <4>3, <5>1
      <4>4. QED BY <4>2, <4>3
    <3>4. CASE q # p
      <4>1. row'[q] = row[q] /\ at # to /\ at # from BY <1>1, <1>6, <2>2, <2>3, <2>5, <3>4
      <4>2. s # from
        <5>1. known[from] = p BY <2>5 DEF KnownInv
        <5>2. QED BY <3>4, <5>1
      <4>3. redirect[s] = at /\ redirect[at] = None BY <1>8, <2>2, <2>3, <4>1
      <4>4. redirect'[s] = at BY <3>1, <3>2, <4>1, <4>2, <4>3
      <4>5. redirect'[at] = None BY <2>3, <3>1, <4>1, <4>3, Distinct, <1>1
      <4>6. QED BY <2>2, <4>1, <4>4, <4>5
    <3>5. QED BY <3>3, <3>4
  <2>6. QED BY <2>4, <2>5
<1>9. QED BY <1>4, <1>5, <1>7, <1>8 DEF KnownInv

\* A step that writes page p and no rule that leads away from the address of another.
LEMMA ShadowStep ==
  ASSUME ShadowInv, NEW p \in Page, NEW n, row'[p] = n, \A q \in Page : q # p => row'[q] = row[q],
         shadowed' \subseteq Page, \A q \in Page : q # p /\ q \in shadowed => q \in shadowed',
         \A q \in Page : q # p /\ Exists(q) /\ redirect'[row[q].slug] # None => redirect[row[q].slug] # None,
         n \in Row /\ redirect'[n.slug] # None => p \in shadowed'
  PROVE  ShadowInv'
BY DEF ShadowInv, Exists

\* A page that has a row keeps one or is gone, and its version does not fall.
LEMMA RevisionsGoOn ==
  ASSUME RevisionInv, RowsGoOn
  PROVE  \A x \in revision :
           /\ row'[x.page] # None
           /\ row'[x.page] \in Row =>
                Exists(x.page) /\ (x.version < row[x.page].version => x.version < row'[x.page].version)
<1> SUFFICES ASSUME NEW x \in revision
             PROVE  /\ row'[x.page] # None
                    /\ row'[x.page] \in Row =>
                         Exists(x.page) /\ (x.version < row[x.page].version => x.version < row'[x.page].version)
  OBVIOUS
<1>1. x.page \in Page /\ x.version \in Nat /\ row[x.page] # None /\ Onward(x.page)
  BY DEF RevisionInv, RevisionsSound, Revision, RowsGoOn
<1>2. Exists(x.page) => row[x.page].version \in Nat BY DEF Exists, Row
<1>3. QED BY <1>1, <1>2, Distinct DEF Onward, Exists

LEMMA RevisionSame ==
  ASSUME RevisionInv, RowsGoOn, revision' \subseteq revision, ~confused' => ~confused
  PROVE  RevisionInv'
<1>1. RevisionsSound(revision')
  <2>1. ASSUME NEW q \in Page
        PROVE  IsFiniteSet(Of(q, revision')) /\ Cardinality(Of(q, revision')) <= MaxRevisions
    <3>1. Of(q, revision') \subseteq Of(q, revision) BY DEF Of
    <3>2. IsFiniteSet(Of(q, revision)) /\ Cardinality(Of(q, revision)) <= MaxRevisions
      BY DEF RevisionInv, RevisionsSound
    <3>3. /\ IsFiniteSet(Of(q, revision')) /\ Cardinality(Of(q, revision')) <= Cardinality(Of(q, revision))
          /\ Cardinality(Of(q, revision')) \in Nat /\ Cardinality(Of(q, revision)) \in Nat
      BY <3>1, <3>2, FS_Subset, FS_CardinalityType
    <3>4. QED BY <3>2, <3>3, LimitAssumption
  <2>2. QED BY <2>1 DEF RevisionInv, RevisionsSound
<1>2. QED BY <1>1, RevisionsGoOn DEF RevisionInv, Exists

-----------------------------------------------------------------------------
(* Checks outside the transactions touch the editor's own desk alone.      *)

LEMMA OneHolder ==
  ASSUME TableInv, NEW s, NEW p \in Holders(s)
  PROVE  /\ Holders(s) = {p} /\ p \in Page /\ row[p] \in Row /\ row[p].slug = s /\ Copy(p, row[p])
         /\ row[p] # None /\ row[p].version \in Nat
<1>1. p \in Page /\ row[p] \in Row /\ row[p].slug = s BY DEF Holders, Exists
<1>2. Holders(s) = {p} BY <1>1 DEF TableInv, Holders, Exists
<1>3. row[p] # None /\ row[p].version \in Nat BY <1>1, Distinct DEF Row
<1>4. QED BY <1>1, <1>2, <1>3 DEF Copy, CopyOf

LEMMA SubmitIsGood ==
  ASSUME PageInv, NEW e \in Editor, NEW op \in {"remove"} \cup ByAddress \cup ById,
         NEW p \in Holders(desk[e].slug), NEW input \in Input \cup {None}, Submit(e, op, p, input),
         op # "remove" => input \in Input /\ Ready(op, row[p], input)
  PROVE  \E d : GoodDesk(d) /\ Finds(d) /\ Puts(e, d)
<1> DEFINE d == [desk[e] EXCEPT !.op = op, !.page = p, !.seen = row[p], !.input = input]
<1>1. /\ Holders(desk[e].slug) = {p} /\ p \in Page /\ row[p] \in Row /\ row[p].slug = desk[e].slug
      /\ Copy(p, row[p]) /\ row[p] # None
  BY OneHolder DEF PageInv
<1>2. desk[e] \in Desk BY DEF PageInv, DeskInv
<1>3. /\ d \in Desk /\ d.op = op /\ d.page = p /\ d.seen = row[p] /\ d.input = input
      /\ d.slug = desk[e].slug
  BY <1>1, <1>2 DEF Desk, ByAddress, ById
<1> HIDE DEF d
<1>4. GoodDesk(d)
  BY <1>1, <1>3 DEF GoodDesk, Loaded, ByAddress, ById
<1>5. Finds(d) BY <1>1, <1>3 DEF Finds
<1>6. QED BY <1>4, <1>5 DEF Submit, d

LEMMA BlankIsGood ==
  ASSUME NEW d \in Desk, d.seen = None, Blank(d)
  PROVE  GoodDesk(d) /\ Finds(d)
BY DEF GoodDesk, Finds, Blank

LEMMA CheckIsGood ==
  ASSUME PageInv, NEW e \in Editor, Check(e) \/ Refuse(e)
  PROVE  \E d : GoodDesk(d) /\ Finds(d) /\ Puts(e, d)
<1>0. 0 \in Time /\ desk[e] \in Desk /\ now \in Time
  BY LimitAssumption DEF Time, PageInv, DeskInv, TableInv
<1>1. CASE Refuse(e)
  <2>1. Idle \in Desk /\ Idle.seen = None /\ Blank(Idle) BY DEF Idle, Desk, Blank
  <2>2. QED BY <1>1, <2>1, BlankIsGood DEF Refuse
<1>2. ASSUME NEW s \in Slug, View(e, s) PROVE \E d : GoodDesk(d) /\ Finds(d) /\ Puts(e, d)
  <2>1. ASSUME NEW p \in Holders(s),
               Puts(e, [op |-> "view", slug |-> s, page |-> p, seen |-> row[p], input |-> None])
        PROVE  \E d : GoodDesk(d) /\ Finds(d) /\ Puts(e, d)
    <3> DEFINE d == [op |-> "view", slug |-> s, page |-> p, seen |-> row[p], input |-> None]
    <3>1. /\ Holders(s) = {p} /\ p \in Page /\ row[p] \in Row /\ row[p].slug = s
          /\ Copy(p, row[p]) /\ row[p] # None
      BY OneHolder DEF PageInv
    <3>2. d \in Desk BY <3>1 DEF Desk
    <3>3. GoodDesk(d) /\ Finds(d) BY <3>1, <3>2 DEF GoodDesk, Finds, Loaded, ByAddress, ById
    <3>4. QED BY <2>1, <3>3
  <2>2. ASSUME Puts(e, [op |-> "view", slug |-> s, page |-> None, seen |-> None, input |-> None])
        PROVE  \E d : GoodDesk(d) /\ Finds(d) /\ Puts(e, d)
    <3> DEFINE d == [op |-> "view", slug |-> s, page |-> None, seen |-> None, input |-> None]
    <3>1. d \in Desk /\ d.seen = None /\ Blank(d) BY DEF Desk, Blank
    <3>2. QED BY <2>2, <3>1, BlankIsGood
  <2>3. QED BY <1>2, <2>1, <2>2 DEF View
<1>3. ASSUME NEW s \in Slug, NEW text \in Text, CheckCreate(e, s, text)
      PROVE  \E d : GoodDesk(d) /\ Finds(d) /\ Puts(e, d)
  <2> DEFINE i == [text |-> text, slug |-> s, at |-> 0]
             d == [op |-> "create", slug |-> s, page |-> None, seen |-> None, input |-> i]
  <2>1. i \in Input BY <1>0 DEF Input
  <2>2. d \in Desk /\ d.seen = None /\ Blank(d) BY <2>1 DEF Desk, Blank
  <2>3. Puts(e, d) BY <1>3 DEF CheckCreate
  <2>4. QED BY <2>2, <2>3, BlankIsGood
<1>4. ASSUME NEW p \in Page, Loads(e, p)
      PROVE  p \in Holders(desk[e].slug) /\ row[p] \in Row /\ Same(row[p]) \in Input
  BY <1>4 DEF Loads, Holders, Exists, Same, Input, Row
<1>5. ASSUME NEW text \in Text, CheckSave(e, text) PROVE \E d : GoodDesk(d) /\ Finds(d) /\ Puts(e, d)
  <2>1. ASSUME NEW p \in Page, Loads(e, p), Submit(e, "save", p, [Same(row[p]) EXCEPT !.text = text])
        PROVE  \E d : GoodDesk(d) /\ Finds(d) /\ Puts(e, d)
    <3> DEFINE i == [Same(row[p]) EXCEPT !.text = text]
    <3>1. i \in Input BY <1>4, <2>1 DEF Input
    <3>2. Ready("save", row[p], i) BY DEF Ready
    <3>3. QED BY <1>4, <2>1, <3>1, <3>2, SubmitIsGood DEF ByAddress
  <2>2. ASSUME desk[e].op = "view", desk[e].seen = None,
               Puts(e, [desk[e] EXCEPT !.op = "save",
                                       !.input = [text |-> text, slug |-> desk[e].slug, at |-> 0]])
        PROVE  \E d : GoodDesk(d) /\ Finds(d) /\ Puts(e, d)
    <3> DEFINE i == [text |-> text, slug |-> desk[e].slug, at |-> 0]
               d == [desk[e] EXCEPT !.op = "save", !.input = i]
    <3>1. desk[e].page = None /\ desk[e].slug \in Slug
      BY <2>2 DEF PageInv, DeskInv, GoodDesk, Blank
    <3>2. i \in Input BY <1>0, <3>1 DEF Input
    <3>3. d \in Desk /\ d.seen = None /\ Blank(d)
      BY <1>0, <2>2, <3>1, <3>2 DEF Desk, Blank, ByAddress
    <3>4. QED BY <2>2, <3>3, BlankIsGood
  <2>3. QED BY <1>5, <2>1, <2>2 DEF CheckSave
<1>6. ASSUME NEW p \in Page, CheckPublish(e, p) \/ CheckUnpublish(e, p) \/ CheckUnschedule(e, p)
      PROVE  \E d : GoodDesk(d) /\ Finds(d) /\ Puts(e, d)
  <2>1. PICK op \in {"publish", "unpublish", "unschedule"} :
          Loads(e, p) /\ Submit(e, op, p, Same(row[p])) /\ (op = "unschedule" => row[p].status = "scheduled")
    BY <1>6 DEF CheckPublish, CheckUnpublish, CheckUnschedule
  <2>2. Ready(op, row[p], Same(row[p])) BY <2>1 DEF Ready
  <2>3. QED BY <1>4, <2>1, <2>2, SubmitIsGood DEF ByAddress, ById
<1>7. ASSUME NEW p \in Page, CheckRemove(e, p) PROVE \E d : GoodDesk(d) /\ Finds(d) /\ Puts(e, d)
  BY <1>7, SubmitIsGood DEF CheckRemove
<1>8. ASSUME NEW p \in Page, NEW at \in Time, CheckSchedule(e, p, at)
      PROVE  \E d : GoodDesk(d) /\ Finds(d) /\ Puts(e, d)
  <2> DEFINE i == [Same(row[p]) EXCEPT !.at = at]
  <2>1. Loads(e, p) /\ row[p].status # "published" /\ at > now /\ Submit(e, "schedule", p, i)
    BY <1>8 DEF CheckSchedule
  <2>2. i \in Input /\ i.at = at BY <1>4, <2>1 DEF Input
  <2>3. at # 0 BY <1>0, <2>1, LimitAssumption DEF Time
  <2> HIDE DEF i
  <2>4. Ready("schedule", row[p], i) BY <2>1, <2>2, <2>3 DEF Ready
  <2>5. QED BY <1>4, <2>1, <2>2, <2>4, SubmitIsGood DEF ById
<1>9. ASSUME NEW p \in Page, NEW s \in Slug, CheckMove(e, p, s)
      PROVE  \E d : GoodDesk(d) /\ Finds(d) /\ Puts(e, d)
  <2> DEFINE i == [Same(row[p]) EXCEPT !.slug = s]
  <2>1. Loads(e, p) /\ Free(s) /\ Submit(e, "move", p, i)
    BY <1>9 DEF CheckMove
  <2>2. i \in Input /\ i.slug = s BY <1>4, <2>1 DEF Input
  <2>3. s # row[p].slug BY <1>4, <2>1 DEF Free, Holders, Exists
  <2> HIDE DEF i
  <2>4. Ready("move", row[p], i) BY <2>2, <2>3 DEF Ready
  <2>5. QED BY <1>4, <2>1, <2>2, <2>4, SubmitIsGood DEF ById
<1>10. QED
  BY <1>1, <1>2, <1>3, <1>5, <1>6, <1>7, <1>8, <1>9 DEF Check

LEMMA PutsStep ==
  ASSUME PageInv, NEW e \in Editor, NEW d, GoodDesk(d), Finds(d), Puts(e, d)
  PROVE  PageInv'
<1>1. /\ UNCHANGED <<now, row, pass, revision, redirect, announced, known, confused, shadowed>>
      /\ desk' \in [Editor -> Desk]
      /\ \A x \in Editor : desk'[x] = IF x = e THEN d ELSE desk[x]
  BY DEF Puts, PageInv, DeskInv, GoodDesk
<1>2. DeskInv'
  BY <1>1 DEF PageInv, DeskInv, GoodDesk, Blank, Copy, Ready, Finds, Holders, Exists
<1>3. TableInv' /\ PassInv' /\ KnownInv' /\ ShadowInv'
  BY <1>1 DEF PageInv, TableInv, PassInv, KnownInv, ShadowInv, Exists, Copy
<1>4. AnnouncedInv' /\ RevisionInv'
  BY <1>1 DEF PageInv, AnnouncedInv, RevisionInv, Exists
<1>5. QED BY <1>2, <1>3, <1>4 DEF PageInv

-----------------------------------------------------------------------------
(* The transactions of the editors.                                        *)

\* What visitors would see stays as it was, or is announced, or the page goes.
LEMMA AnnouncedStep ==
  ASSUME AnnouncedInv, ~confused' => ~confused, announced' \in [Page -> Face \cup {None}],
         ~confused' => \A p \in Page :
           \/ row'[p] = Gone
           \/ row[p] # Gone /\ FaceOf(row'[p]) = FaceOf(row[p]) /\ announced'[p] = announced[p]
           \/ announced'[p] = FaceOf(row'[p])
  PROVE  AnnouncedInv'
<1>1. SUFFICES ASSUME ~confused', NEW p \in Page, row'[p] # Gone PROVE announced'[p] = FaceOf(row'[p])
  BY DEF AnnouncedInv, FaceOf, Public
<1>2. row[p] # Gone => announced[p] = FaceOf(row[p]) BY <1>1 DEF AnnouncedInv
<1>3. QED BY <1>1, <1>2

LEMMA FaceIsFace == \A r : FaceOf(r) \in Face \cup {None}
BY DEF FaceOf, Face, Public, Row

\* The row a write finds and the one it leaves.  Only a write by address can
\* find another page than the one that was loaded.
LEMMA CommitFinds ==
  ASSUME PageInv, NEW e \in Editor, desk[e].op \in ByAddress \cup ById, desk[e].seen # None,
         NEW p \in Target(e)
  PROVE  LET d == desk[e]
             r == Bumped(Written(row[p], d.op, d.input))
         IN /\ p \in Page /\ Exists(p) /\ d.page \in Page /\ d.seen \in Row /\ d.input \in Input
            /\ r \in Row /\ Dated(r) /\ r.version = row[p].version + 1
            /\ (~confused \/ d.op \in ById) => p = d.page /\ row[p] = d.seen
            /\ d.op # "move" => r.slug = row[p].slug
            /\ d.op = "move" => r.slug = d.input.slug /\ r.slug # row[p].slug
            /\ d.op \in {"save", "move"} => r.status = row[p].status
            /\ d.op # "save" => r.text = row[p].text
            /\ d.op \in {"schedule", "unschedule"} => ~Public(row[p]) /\ ~Public(r)
<1> DEFINE d == desk[e]
           w == Written(row[p], d.op, d.input)
<1>1. /\ d.page \in Page /\ d.seen.slug = d.slug /\ Copy(d.page, d.seen) /\ d.seen \in Row
      /\ d.input \in Input /\ Ready(d.op, d.seen, d.input)
  BY DEF PageInv, DeskInv, GoodDesk, Copy, CopyOf
<1>2. p \in Page /\ row[p] \in Row /\ Dated(row[p]) /\ row[p].version = d.seen.version
      /\ (d.op \in ByAddress => p \in Holders(d.slug)) /\ (d.op \in ById => p = d.page)
  BY <1>1 DEF Target, Holders, Exists, PageInv, TableInv, ByAddress, ById
<1>3. ASSUME ~confused \/ d.op \in ById PROVE p = d.page /\ row[p] = d.seen
  <2>1. p = d.page BY <1>1, <1>2, <1>3, Distinct DEF PageInv, DeskInv, Finds
  <2>2. QED BY <1>1, <1>2, <2>1 DEF Copy, CopyOf
<1>4. 0 \in Time BY LimitAssumption DEF Time
<1>5. d.op \in {"save", "publish", "unpublish", "schedule", "unschedule", "move"}
  BY DEF ByAddress, ById
<1> HIDE DEF d
<1>6. /\ w \in Row /\ Dated(w) /\ w.version = row[p].version
      /\ d.op # "move" => w.slug = row[p].slug
      /\ d.op = "move" => w.slug = d.input.slug /\ w.slug # row[p].slug
      /\ d.op \in {"save", "move"} => w.status = row[p].status
      /\ d.op # "save" => w.text = row[p].text
      /\ d.op \in {"schedule", "unschedule"} => row[p].status # "published" /\ w.status # "published"
  <2>1. CASE d.op = "save"
    <3>1. w = [row[p] EXCEPT !.text = d.input.text] /\ d.input.text \in Text
      BY <1>1, <2>1 DEF Written, Input
    <3>2. QED BY <1>2, <2>1, <3>1 DEF Row, Dated
  <2>2. CASE d.op = "move"
    <3>1. w = [row[p] EXCEPT !.slug = d.input.slug] /\ d.input.slug \in Slug
      BY <1>1, <2>2 DEF Written, Input
    <3>2. row[p] = d.seen /\ d.input.slug # row[p].slug BY <1>1, <1>3, <2>2 DEF ById, Ready
    <3>3. QED BY <1>2, <2>2, <3>1, <3>2 DEF Row, Dated
  <2>3. CASE d.op = "publish"
    <3>1. w = [row[p] EXCEPT !.status = "published", !.at = 0] BY <2>3 DEF Written
    <3>2. QED BY <1>2, <1>4, <2>3, <3>1 DEF Row, Dated, Status
  <2>4. CASE d.op = "schedule"
    <3>1. w = [row[p] EXCEPT !.status = "scheduled", !.at = d.input.at] /\ d.input.at \in Time
      BY <1>1, <2>4 DEF Written, Input
    <3>2. row[p].status # "published" /\ d.input.at # 0 BY <1>1, <1>3, <2>4 DEF ById, Ready
    <3>3. QED BY <1>2, <2>4, <3>1, <3>2 DEF Row, Dated, Status
  <2>5. CASE d.op \in {"unpublish", "unschedule"}
    <3>1. w = [row[p] EXCEPT !.status = "draft", !.at = 0] BY <2>5 DEF Written
    <3>2. d.op = "unschedule" => row[p].status = "scheduled" BY <1>1, <1>3 DEF ById, Ready
    <3>3. QED BY <1>2, <1>4, <2>5, <3>1, <3>2 DEF Row, Dated, Status
  <2>6. QED BY <1>5, <2>1, <2>2, <2>3, <2>4, <2>5
<1> DEFINE r == Bumped(w)
<1>7. /\ r \in Row /\ r.version = row[p].version + 1 /\ r.slug = w.slug /\ r.status = w.status
      /\ r.text = w.text /\ r.at = w.at
  BY <1>2, <1>6 DEF Bumped, Row
<1> HIDE DEF w, r
<1>8. Dated(r) /\ (d.op \in {"schedule", "unschedule"} => ~Public(row[p]) /\ ~Public(r))
  BY <1>6, <1>7 DEF Dated, Public
<1>9. QED BY <1>1, <1>2, <1>3, <1>6, <1>7, <1>8 DEF d, r, w, Exists

\* One row is made or written.
LEMMA OneRow ==
  ASSUME TableInv, NEW p \in Page, NEW n, row' = [row EXCEPT ![p] = n],
         \/ row[p] = None /\ n \in Row
         \/ Exists(p) /\ n = Gone
         \/ Exists(p) /\ n \in Row /\ n.version = row[p].version + 1
  PROVE  RowsGoOn /\ row'[p] = n /\ \A q \in Page : q # p => row'[q] = row[q]
BY DEF TableInv, RowsGoOn, Onward

LEMMA CommitStep ==
  ASSUME PageInv, NEW e \in Editor, Commit(e)
  PROVE  PageInv'
<1> DEFINE d == desk[e]
<1>1. d.op \in ByAddress \cup ById /\ d.seen # None /\ Accepted(e) BY DEF Commit
<1>2. PICK p \in Target(e) :
        LET r == Bumped(Written(row[p], d.op, d.input))
        IN /\ row' = [row EXCEPT ![p] = r]
           /\ announced' = IF Announces(d.op, d.seen) THEN [announced EXCEPT ![p] = FaceOf(r)]
                                                      ELSE announced
           /\ known' = KnownWith(p, r)
           /\ confused' = (confused \/ (d.op = "move" /\ Confuses(p, r.slug)))
           /\ shadowed' = IF d.op = "move" THEN ShadowedBy(p, r.slug, d.seen.status = "published")
                                           ELSE shadowed
  BY DEF Commit
<1> DEFINE r == Bumped(Written(row[p], d.op, d.input))
<1>3. /\ row' = [row EXCEPT ![p] = r]
      /\ announced' = IF Announces(d.op, d.seen) THEN [announced EXCEPT ![p] = FaceOf(r)]
                                                 ELSE announced
      /\ known' = KnownWith(p, r)
      /\ confused' = (confused \/ (d.op = "move" /\ Confuses(p, r.slug)))
      /\ shadowed' = IF d.op = "move" THEN ShadowedBy(p, r.slug, d.seen.status = "published")
                                      ELSE shadowed
  BY <1>2
<1>4. /\ revision' = IF d.op = "save" THEN Kept(d.page, d.seen) ELSE revision
      /\ redirect' = IF d.op = "move" /\ d.seen.status = "published"
                     THEN Redirected(d.seen.slug, d.input.slug) ELSE redirect
      /\ desk' = [desk EXCEPT ![e] = Idle]
      /\ UNCHANGED <<now, pass>>
  BY DEF Commit
<1>5. /\ p \in Page /\ Exists(p) /\ d.page \in Page /\ d.seen \in Row /\ d.input \in Input
      /\ r \in Row /\ Dated(r) /\ r.version = row[p].version + 1
      /\ (~confused \/ d.op \in ById) => p = d.page /\ row[p] = d.seen
      /\ d.op # "move" => r.slug = row[p].slug
      /\ d.op = "move" => r.slug = d.input.slug /\ r.slug # row[p].slug
      /\ d.op \in {"save", "move"} => r.status = row[p].status
      /\ d.op # "save" => r.text = row[p].text
      /\ d.op \in {"schedule", "unschedule"} => ~Public(row[p]) /\ ~Public(r)
  BY <1>1, CommitFinds
<1>6. d.op = "move" => Free(r.slug) BY <1>1, <1>5 DEF Accepted
<1> HIDE DEF d, r
<1>7. TableInv /\ DeskInv /\ PassInv /\ KnownInv /\ ShadowInv /\ AnnouncedInv /\ RevisionInv BY DEF PageInv
<1>8. RowsGoOn /\ row'[p] = r /\ \A q \in Page : q # p => row'[q] = row[q]
  BY <1>3, <1>5, <1>7, OneRow
<1>9. TableInv'
  <2>1. redirect' \in [Slug -> Slug \cup {None}]
    <3>1. Redirected(d.seen.slug, d.input.slug) \in [Slug -> Slug \cup {None}]
      BY <1>5, <1>7 DEF Redirected, TableInv, Input
    <3>2. QED BY <1>4, <1>7, <3>1 DEF TableInv
  <2>2. now' \in Time /\ confused' \in BOOLEAN BY <1>3, <1>4, <1>7 DEF TableInv
  <2>3. QED BY <1>3, <1>5, <1>6, <1>7, <2>1, <2>2, TableWrite
<1>10. DeskInv'
  <2>1. AddressesGiven
    BY <1>3, <1>5, <1>8 DEF AddressesGiven, Exists
  <2>2. desk' \in [Editor -> Desk] /\ \A x \in Editor : desk'[x] \in {desk[x], Idle}
    BY <1>4, <1>7 DEF DeskInv, Idle, Desk
  <2>3. QED BY <1>7, <1>8, <2>1, <2>2, DeskStep
<1>11. PassInv'
  <2>1. now \in Nat BY <1>7, LimitAssumption DEF TableInv, Time
  <2>2. QED BY <1>4, <1>7, <1>8, <2>1, PassStep DEF PassInv, TableInv
<1>12. KnownInv'
  <2>1. CASE d.op = "move" /\ d.seen.status = "published"
    <3>1. row[p] = d.seen /\ Public(row[p]) /\ Public(r) /\ r.slug = d.input.slug /\ r.slug # row[p].slug
      BY <1>5, <2>1 DEF ById, Public
    <3>2. redirect' = Redirected(row[p].slug, r.slug) BY <1>4, <2>1, <3>1
    <3>3. QED BY <1>3, <1>5, <1>6, <1>7, <2>1, <3>1, <3>2, KnownWrite
  <2>2. CASE ~(d.op = "move" /\ d.seen.status = "published")
    <3>1. redirect' = redirect BY <1>4, <2>2
    <3>2. Public(row[p]) => r.slug = row[p].slug BY <1>5, <2>2 DEF Public, ById
    <3>3. r.slug # row[p].slug => Free(r.slug) BY <1>5, <1>6
    <3>4. QED BY <1>3, <1>5, <1>7, <3>1, <3>2, <3>3, KnownWrite
  <2>3. QED BY <2>1, <2>2
<1>13. AnnouncedInv'
  <2>1. announced' \in [Page -> Face \cup {None}]
    BY <1>3, <1>5, <1>7, FaceIsFace DEF AnnouncedInv
  <2>2. ASSUME ~confused
        PROVE  \/ FaceOf(row'[p]) = FaceOf(row[p]) /\ announced'[p] = announced[p]
               \/ announced'[p] = FaceOf(row'[p])
    <3>1. CASE Announces(d.op, d.seen)
      BY <1>3, <1>5, <1>7, <1>8, <3>1 DEF AnnouncedInv
    <3>2. CASE ~Announces(d.op, d.seen)
      <4>1. ~Public(row[p]) /\ ~Public(r)
        BY <1>1, <1>5, <2>2, <3>2 DEF Announces, Public, ByAddress, ById
      <4>2. QED BY <1>3, <1>8, <3>2, <4>1 DEF FaceOf
    <3>3. QED BY <3>1, <3>2
  <2>3. \A q \in Page : q # p => announced'[q] = announced[q]
    BY <1>3, <1>5, <1>7 DEF AnnouncedInv
  <2>4. \A q \in Page : row'[q] # Gone => row[q] # Gone
    BY <1>5, <1>8, Distinct DEF Exists
  <2>5. ASSUME ~confused', NEW q \in Page
        PROVE  \/ row'[q] = Gone
               \/ row[q] # Gone /\ FaceOf(row'[q]) = FaceOf(row[q]) /\ announced'[q] = announced[q]
               \/ announced'[q] = FaceOf(row'[q])
    BY <1>3, <1>8, <2>2, <2>3, <2>4, <2>5
  <2>6. ~confused' => ~confused BY <1>3
  <2>7. QED BY <1>7, <2>1, <2>5, <2>6, AnnouncedStep
<1>14. RevisionInv'
  <2>1. ~confused' => ~confused BY <1>3
  <2>2. CASE d.op # "save" BY <1>4, <1>7, <1>8, <2>1, <2>2, RevisionSame
  <2>3. CASE d.op = "save"
    <3>1. RevisionsSound(revision') /\ revision' \subseteq revision \cup {Snapshot(d.page, d.seen)}
      BY <1>4, <1>5, <1>7, <2>3, KeptIsSound DEF RevisionInv
    <3>2. row'[d.page] # None
      <4>1. row[d.page] # None BY <1>1, <1>7 DEF DeskInv, GoodDesk, Copy, CopyOf, d
      <4>2. QED BY <1>5, <1>8, <4>1, Distinct
    <3>3. ASSUME NEW x \in revision' PROVE row'[x.page] # None
      BY <1>7, <1>8, <3>1, <3>2, RevisionsGoOn DEF Snapshot
    <3>4. ASSUME ~confused', NEW x \in revision', row'[x.page] \in Row PROVE x.version < row'[x.page].version
      <4>1. CASE x \in revision
        BY <1>7, <1>8, <2>1, <3>4, <4>1, RevisionsGoOn DEF RevisionInv
      <4>2. CASE x = Snapshot(d.page, d.seen)
        BY <1>5, <1>8, <2>1, <3>4, <4>2 DEF Snapshot, Row
      <4>3. QED BY <3>1, <4>1, <4>2
    <3>5. QED BY <3>1, <3>3, <3>4 DEF RevisionInv, Exists
  <2>4. QED BY <2>2, <2>3
<1>15. ShadowInv'
  <2>1. CASE d.op = "move" /\ d.seen.status = "published"
    <3>1. row[p] = d.seen /\ redirect' = Redirected(row[p].slug, r.slug) /\ r.slug # row[p].slug
      BY <1>4, <1>5, <2>1 DEF ById
    <3>2. shadowed' = shadowed \ {p} BY <1>3, <2>1 DEF ShadowedBy
    <3>3. r.slug \in Slug /\ redirect'[r.slug] = None
      BY <1>5, <3>1 DEF Redirected, Row
    <3>4. ASSUME NEW q \in Page, q # p, Exists(q), redirect'[row[q].slug] # None
          PROVE  redirect[row[q].slug] # None
      <4>1. row[q].slug \in Slug /\ row[q].slug # row[p].slug /\ row[p].slug \in Slug
        BY <1>5, <1>7, <3>4 DEF TableInv, Exists, Row
      <4>2. row[q].slug # r.slug BY <1>6, <2>1, <3>4 DEF Free, Holders
      <4>3. redirect'[row[q].slug] = IF redirect[row[q].slug] = row[p].slug THEN r.slug ELSE redirect[row[q].slug]
        BY <3>1, <4>1, <4>2 DEF Redirected
      <4>4. QED BY <3>4, <4>1, <4>3, Distinct
    <3>5. QED BY <1>5, <1>7, <1>8, <3>2, <3>3, <3>4, ShadowStep DEF ShadowInv
  <2>2. CASE d.op = "move" /\ d.seen.status # "published"
    <3>1. redirect' = redirect /\ shadowed' = ShadowedBy(p, r.slug, FALSE) BY <1>3, <1>4, <2>2
    <3>2. QED BY <1>5, <1>7, <1>8, <3>1, ShadowStep DEF ShadowInv, ShadowedBy
  <2>3. CASE d.op # "move"
    <3>1. redirect' = redirect /\ shadowed' = shadowed /\ r.slug = row[p].slug BY <1>3, <1>4, <1>5, <2>3
    <3>2. QED BY <1>5, <1>7, <1>8, <3>1, ShadowStep DEF ShadowInv
  <2>4. QED BY <2>1, <2>2, <2>3
<1>16. QED BY <1>9, <1>10, <1>11, <1>12, <1>13, <1>14, <1>15 DEF PageInv

LEMMA CreateStep ==
  ASSUME PageInv, NEW e \in Editor, NEW p \in Page, CommitCreate(e, p)
  PROVE  PageInv'
<1> DEFINE d == desk[e]
           r == [status |-> "draft", version |-> 1, text |-> d.input.text, slug |-> d.slug, at |-> 0]
<1>1. /\ Creates(d) /\ Free(d.slug) /\ row[p] = None
      /\ row' = [row EXCEPT ![p] = r]
      /\ confused' = (confused \/ Confuses(p, d.slug))
      /\ shadowed' = ShadowedBy(p, d.slug, FALSE)
      /\ desk' = [desk EXCEPT ![e] = Idle]
      /\ UNCHANGED <<now, pass, revision, redirect, announced, known>>
  BY DEF CommitCreate
<1>2. TableInv /\ DeskInv /\ PassInv /\ KnownInv /\ ShadowInv /\ AnnouncedInv /\ RevisionInv BY DEF PageInv
<1>3. d.input \in Input /\ d.slug \in Slug
  BY <1>1, <1>2 DEF Creates, DeskInv, GoodDesk, Blank, Loaded, ByAddress, ById
<1>4. r \in Row /\ Dated(r) /\ ~Public(r) /\ ~Public(row[p]) /\ r.slug = d.slug
  BY <1>1, <1>3, LimitAssumption, Distinct DEF Row, Status, Time, Input, Dated, Public
<1> HIDE DEF d, r
<1>5. RowsGoOn /\ row'[p] = r /\ \A q \in Page : q # p => row'[q] = row[q]
  BY <1>1, <1>2, <1>4, OneRow
<1>6. TableInv'
  <2>1. now' \in Time /\ redirect' \in [Slug -> Slug \cup {None}] /\ confused' \in BOOLEAN
    BY <1>1, <1>2 DEF TableInv
  <2>2. QED BY <1>1, <1>2, <1>4, <2>1, TableWrite
<1>7. DeskInv'
  <2>1. AddressesGiven BY <1>1, <1>4, <1>5 DEF AddressesGiven, Exists
  <2>2. desk' \in [Editor -> Desk] /\ \A x \in Editor : desk'[x] \in {desk[x], Idle}
    BY <1>1, <1>2 DEF DeskInv, Idle, Desk
  <2>3. QED BY <1>2, <1>5, <2>1, <2>2, DeskStep
<1>8. PassInv'
  <2>1. now \in Nat BY <1>2, LimitAssumption DEF TableInv, Time
  <2>2. QED BY <1>1, <1>2, <1>5, <2>1, PassStep DEF PassInv, TableInv
<1>9. KnownInv' BY <1>1, <1>2, <1>4, <1>5, KnownSame
<1>10. AnnouncedInv'
  <2>1. FaceOf(row'[p]) = FaceOf(row[p]) /\ row[p] # Gone
    BY <1>1, <1>4, <1>5, Distinct DEF FaceOf
  <2>2. \A q \in Page : row'[q] = Gone \/ (row[q] # Gone /\ FaceOf(row'[q]) = FaceOf(row[q]))
    BY <1>5, <2>1
  <2>3. QED BY <1>1, <1>2, <2>2, AnnouncedStep DEF AnnouncedInv
<1>11. RevisionInv' BY <1>1, <1>2, <1>5, RevisionSame
<1>12. ShadowInv'
  <2>1. shadowed' = IF redirect[r.slug] # None THEN shadowed \cup {p} ELSE shadowed \ {p}
    BY <1>1, <1>4 DEF ShadowedBy
  <2>2. QED BY <1>1, <1>2, <1>5, <2>1, ShadowStep DEF ShadowInv
<1>13. QED BY <1>6, <1>7, <1>8, <1>9, <1>10, <1>11, <1>12 DEF PageInv

\* The page that goes is the one at the address, whichever was loaded.
LEMMA RemoveStep ==
  ASSUME PageInv, NEW e \in Editor, CommitRemove(e)
  PROVE  PageInv'
<1>1. PICK p \in Holders(desk[e].slug) : /\ row' = [row EXCEPT ![p] = Gone] /\ known' = KnownWith(p, Gone)
                                         /\ shadowed' = shadowed \ {p}
  BY DEF CommitRemove
<1>2. /\ revision' = {r \in revision : r.page # desk[e].page}
      /\ desk' = [desk EXCEPT ![e] = Idle]
      /\ UNCHANGED <<now, pass, redirect, announced, confused>>
  BY DEF CommitRemove
<1>3. TableInv /\ DeskInv /\ PassInv /\ KnownInv /\ ShadowInv /\ AnnouncedInv /\ RevisionInv BY DEF PageInv
<1>4. p \in Page /\ Exists(p) BY <1>1 DEF Holders
<1>5. RowsGoOn /\ row'[p] = Gone /\ \A q \in Page : q # p => row'[q] = row[q]
  BY <1>1, <1>3, <1>4, OneRow
<1>6. TableInv'
  <2>1. row' \in [Page -> Row \cup {None, Gone}] BY <1>1, <1>3 DEF TableInv
  <2>2. \A q \in Page : row'[q] \in Row => row'[q] = row[q] /\ row[q] \in Row
    BY <1>5, Distinct
  <2>3. QED BY <1>2, <1>3, <2>1, <2>2 DEF TableInv, Exists, Dated
<1>7. DeskInv'
  <2>1. AddressesGiven BY <1>2, <1>5, Distinct DEF AddressesGiven, Exists
  <2>2. desk' \in [Editor -> Desk] /\ \A x \in Editor : desk'[x] \in {desk[x], Idle}
    BY <1>2, <1>3 DEF DeskInv, Idle, Desk
  <2>3. QED BY <1>3, <1>5, <2>1, <2>2, DeskStep
<1>8. PassInv'
  <2>1. now \in Nat BY <1>3, LimitAssumption DEF TableInv, Time
  <2>2. QED BY <1>2, <1>3, <1>5, <2>1, PassStep DEF PassInv, TableInv
<1>9. KnownInv'
  <2>1. Gone \notin Row BY Distinct
  <2>2. QED BY <1>1, <1>2, <1>3, <1>4, <2>1, KnownWrite
<1>10. AnnouncedInv'
  <2>1. \A q \in Page : row'[q] = Gone \/ (row[q] # Gone /\ FaceOf(row'[q]) = FaceOf(row[q]))
    BY <1>5
  <2>2. QED BY <1>2, <1>3, <2>1, AnnouncedStep DEF AnnouncedInv
<1>11. RevisionInv' BY <1>2, <1>3, <1>5, RevisionSame
<1>12. ShadowInv' BY <1>1, <1>2, <1>3, <1>4, <1>5, Distinct, ShadowStep DEF ShadowInv
<1>13. QED BY <1>6, <1>7, <1>8, <1>9, <1>10, <1>11, <1>12 DEF PageInv

-----------------------------------------------------------------------------
(* The publisher.                                                          *)

\* A page still scheduled in the version that was read is the row that was
\* read.
LEMMA DueIsRow ==
  ASSUME PageInv, NEW w \in Worker, NEW p \in Page, pass[w][p] # None, StillScheduled(p, pass[w][p])
  PROVE  Exists(p) /\ row[p] = pass[w][p] /\ IsDue(p)
BY DEF PageInv, PassInv, Copy, CopyOf, StillScheduled, IsDue, Exists

LEMMA PublisherStep ==
  ASSUME PageInv, NEW w \in Worker, NEW p \in Page, PublishDue(w, p) \/ ReturnToDraft(w, p)
  PROVE  PageInv'
<1> DEFINE op == IF pass[w][p].text \in Complete THEN "publish" ELSE "unschedule"
           r  == Bumped(Written(row[p], op, None))
<1>1. /\ pass[w][p] # None /\ StillScheduled(p, pass[w][p])
      /\ row' = [row EXCEPT ![p] = r]
      /\ pass' = [pass EXCEPT ![w][p] = None]
      /\ UNCHANGED <<now, desk, revision, redirect, confused, shadowed>>
      /\ op = "publish" => announced' = [announced EXCEPT ![p] = FaceOf(r)] /\ known' = KnownWith(p, r)
      /\ op = "unschedule" => announced' = announced /\ known' = known
  BY DEF PublishDue, ReturnToDraft, Treated
<1>2. TableInv /\ DeskInv /\ PassInv /\ KnownInv /\ ShadowInv /\ AnnouncedInv /\ RevisionInv BY DEF PageInv
<1>3. Exists(p) /\ row[p] \in Row /\ row[p].status = "scheduled" /\ row[p] # Gone /\ ~Public(row[p])
  BY <1>1, Distinct DEF StillScheduled, Exists, Public
<1>4. op \in {"publish", "unschedule"} OBVIOUS
<1> HIDE DEF op, r
<1>5. /\ r \in Row /\ Dated(r) /\ r.version = row[p].version + 1 /\ r.slug = row[p].slug
      /\ op = "unschedule" => ~Public(r)
  <2> DEFINE n == Written(row[p], op, None)
  <2>1. 0 \in Time BY LimitAssumption DEF Time
  <2>2. /\ n \in Row /\ Dated(n) /\ n.version = row[p].version /\ n.slug = row[p].slug
        /\ op = "unschedule" => n.status # "published"
    <3>1. CASE op = "publish"
      <4>1. n = [row[p] EXCEPT !.status = "published", !.at = 0] BY <3>1 DEF Written
      <4>2. QED BY <1>3, <2>1, <3>1, <4>1 DEF Row, Status, Dated
    <3>2. CASE op = "unschedule"
      <4>1. n = [row[p] EXCEPT !.status = "draft", !.at = 0] BY <3>2 DEF Written
      <4>2. QED BY <1>3, <2>1, <3>2, <4>1 DEF Row, Status, Dated
    <3>3. QED BY <1>4, <3>1, <3>2
  <2> HIDE DEF n
  <2>3. QED BY <1>3, <2>2 DEF r, n, Bumped, Row, Dated, Public
<1>6. RowsGoOn /\ row'[p] = r /\ \A q \in Page : q # p => row'[q] = row[q]
  BY <1>1, <1>2, <1>3, <1>5, OneRow
<1>7. TableInv'
  <2>1. now' \in Time /\ redirect' \in [Slug -> Slug \cup {None}] /\ confused' \in BOOLEAN
    BY <1>1, <1>2 DEF TableInv
  <2>2. QED BY <1>1, <1>2, <1>3, <1>5, <2>1, TableWrite
<1>8. DeskInv'
  <2>1. AddressesGiven BY <1>1, <1>3, <1>5, <1>6 DEF AddressesGiven, Exists
  <2>2. QED BY <1>1, <1>2, <1>6, <2>1, DeskStep DEF DeskInv
<1>9. PassInv'
  <2>1. now \in Nat BY <1>2, LimitAssumption DEF TableInv, Time
  <2>2. /\ pass' \in [Worker -> [Page -> Row \cup {None}]]
        /\ \A v \in Worker, q \in Page : pass'[v][q] \in {pass[v][q], None}
    BY <1>1, <1>2 DEF PassInv
  <2>3. QED BY <1>1, <1>2, <1>6, <2>1, <2>2, PassStep DEF TableInv
<1>10. KnownInv'
  <2>1. CASE op = "publish"
    BY <1>1, <1>2, <1>3, <1>5, <2>1, KnownWrite
  <2>2. CASE op = "unschedule"
    BY <1>1, <1>2, <1>3, <1>5, <1>6, <2>2, KnownSame
  <2>3. QED BY <1>4, <2>1, <2>2
<1>11. AnnouncedInv'
  <2>1. \A q \in Page : row'[q] # Gone => row[q] # Gone
    BY <1>3, <1>6
  <2>2. announced' \in [Page -> Face \cup {None}]
    BY <1>1, <1>2, <1>4, FaceIsFace DEF AnnouncedInv
  <2>3. op = "unschedule" => FaceOf(row'[p]) = FaceOf(row[p]) /\ announced'[p] = announced[p]
    BY <1>1, <1>3, <1>5, <1>6 DEF FaceOf
  <2>4. op = "publish" => announced'[p] = FaceOf(row'[p])
    BY <1>1, <1>2, <1>6 DEF AnnouncedInv
  <2>5. \A q \in Page : q # p => announced'[q] = announced[q]
    BY <1>1, <1>2, <1>4 DEF AnnouncedInv
  <2>6. \A q \in Page :
          \/ row'[q] = Gone
          \/ row[q] # Gone /\ FaceOf(row'[q]) = FaceOf(row[q]) /\ announced'[q] = announced[q]
          \/ announced'[q] = FaceOf(row'[q])
    BY <1>4, <1>6, <2>1, <2>3, <2>4, <2>5
  <2>7. QED BY <1>1, <1>2, <2>2, <2>6, AnnouncedStep
<1>12. RevisionInv' BY <1>1, <1>2, <1>6, RevisionSame
<1>13. ShadowInv' BY <1>1, <1>2, <1>3, <1>5, <1>6, ShadowStep DEF ShadowInv
<1>14. QED BY <1>7, <1>8, <1>9, <1>10, <1>11, <1>12, <1>13 DEF PageInv

\* The clock, a batch read, given up or one of it skipped.
LEMMA CalmStep ==
  ASSUME PageInv,
         \/ Tick
         \/ \E w \in Worker : ReadDue(w) \/ StopPass(w) \/ \E p \in Page : SkipDue(w, p)
         \/ UNCHANGED vars
  PROVE  PageInv'
<1>1. TableInv /\ DeskInv /\ PassInv /\ KnownInv /\ ShadowInv /\ AnnouncedInv /\ RevisionInv BY DEF PageInv
<1>2. UNCHANGED <<row, desk, revision, redirect, announced, known, confused, shadowed>>
  BY DEF Tick, ReadDue, StopPass, SkipDue, vars
<1>3. now \in Nat /\ now' \in Time /\ now <= now'
  BY <1>1, LimitAssumption DEF TableInv, Time, Tick, ReadDue, StopPass, SkipDue, vars
<1> DEFINE Batches == /\ pass' \in [Worker -> [Page -> Row \cup {None}]]
                      /\ \A v \in Worker, q \in Page :
                           pass'[v][q] \in {pass[v][q], None} \/ (IsDue(q) /\ pass'[v][q] = row[q])
<1>4. Batches
  <2>1. CASE Tick \/ UNCHANGED vars BY <1>1, <2>1 DEF Tick, vars, PassInv
  <2>2. ASSUME NEW w \in Worker, ReadDue(w) PROVE Batches
    BY <1>1, <2>2 DEF ReadDue, PassInv, IsDue, Exists
  <2>3. ASSUME NEW w \in Worker, StopPass(w) PROVE Batches
    BY <1>1, <2>3 DEF StopPass, PassInv, NothingDue
  <2>4. ASSUME NEW w \in Worker, NEW p \in Page, SkipDue(w, p) PROVE Batches
    BY <1>1, <2>4 DEF SkipDue, Treated, PassInv
  <2>5. QED BY <2>1, <2>2, <2>3, <2>4
<1>5. PassInv'
  <2>1. RowsGoOn BY <1>2 DEF RowsGoOn, Onward
  <2>2. QED BY <1>1, <1>2, <1>3, <1>4, <2>1, PassStep
<1>6. TableInv' /\ KnownInv' /\ ShadowInv' BY <1>1, <1>2, <1>3 DEF TableInv, KnownInv, ShadowInv, Exists
<1>7. DeskInv'
  BY <1>1, <1>2 DEF DeskInv, GoodDesk, Blank, Copy, Ready, Finds, Holders, Exists
<1>8. AnnouncedInv' /\ RevisionInv' BY <1>1, <1>2 DEF AnnouncedInv, RevisionInv, Exists
<1>9. QED BY <1>5, <1>6, <1>7, <1>8 DEF PageInv

-----------------------------------------------------------------------------
(* The invariant.                                                          *)

LEMMA InitInv ==
  ASSUME Init
  PROVE  PageInv
<1>1. TableInv
  <2>1. now \in Time BY LimitAssumption DEF Init, Time
  <2>2. \A p \in Page : ~Exists(p) BY Distinct DEF Init, Exists
  <2>3. QED BY <2>1, <2>2 DEF Init, TableInv
<1>2. DeskInv
  <2>1. Idle \in Desk /\ GoodDesk(Idle) /\ Finds(Idle)
    BY DEF Idle, Desk, GoodDesk, Blank, Finds
  <2>2. \A e \in Editor : desk[e] = Idle BY DEF Init
  <2>3. QED BY <2>1, <2>2 DEF Init, DeskInv
<1>3. PassInv BY DEF Init, PassInv, NothingDue
<1>4. KnownInv BY Distinct DEF Init, KnownInv, Public
<1>5. AnnouncedInv BY Distinct DEF Init, AnnouncedInv, FaceOf, Public
<1>6. RevisionInv
  <2>1. \A q \in Page : Of(q, revision) = {} BY DEF Init, Of
  <2>2. IsFiniteSet({}) /\ Cardinality({}) = 0 BY FS_EmptySet
  <2>3. QED BY <2>1, <2>2, LimitAssumption DEF Init, RevisionInv, RevisionsSound
<1>7. ShadowInv BY Distinct DEF Init, ShadowInv, Exists
<1>8. QED BY <1>1, <1>2, <1>3, <1>4, <1>5, <1>6, <1>7 DEF PageInv

LEMMA NextInv ==
  ASSUME PageInv, [Next]_vars
  PROVE  PageInv'
<1>1. ASSUME NEW e \in Editor, Check(e) \/ Refuse(e) PROVE PageInv'
  BY <1>1, CheckIsGood, PutsStep
<1>2. ASSUME NEW e \in Editor, Commit(e) PROVE PageInv'
  BY <1>2, CommitStep
<1>3. ASSUME NEW e \in Editor, NEW p \in Page, CommitCreate(e, p) PROVE PageInv'
  BY <1>3, CreateStep
<1>4. ASSUME NEW e \in Editor, CommitRemove(e) PROVE PageInv'
  BY <1>4, RemoveStep
<1>5. ASSUME NEW w \in Worker, NEW p \in Page, PublishDue(w, p) \/ ReturnToDraft(w, p) PROVE PageInv'
  BY <1>5, PublisherStep
<1>6. QED BY <1>1, <1>2, <1>3, <1>4, <1>5, CalmStep DEF Next, Act, Publish

\* Versions, addresses, announcements and revisions hang together in every
\* state: PageInv is inductive.
THEOREM InductiveInvariant == Spec => []PageInv
BY InitInv, NextInv, PTL DEF Spec

-----------------------------------------------------------------------------
(* What follows.                                                           *)

\* The unique index on addresses holds, a date stands beside exactly the
\* schedules, and no page has more revisions than REVISIONS_KEPT, however many
\* editors save: the snapshot and the trimming are in one transaction.
THEOREM TypeCorrect == Spec => []TypeOK
<1>1. ASSUME PageInv PROVE TypeOK
  <2>1. \A s \in Slug : Cardinality(Holders(s)) <= 1
    <3>1. ASSUME NEW s \in Slug PROVE Cardinality(Holders(s)) <= 1
      <4>1. CASE Holders(s) = {} BY <4>1, FS_EmptySet
      <4>2. ASSUME NEW p \in Holders(s) PROVE Cardinality(Holders(s)) <= 1
        <5>1. Holders(s) = {p} BY <1>1, OneHolder DEF PageInv
        <5>2. Cardinality({p}) = 1 BY FS_Singleton
        <5>3. QED BY <5>1, <5>2
      <4>3. QED BY <4>1, <4>2
    <3>2. QED BY <3>1
  <2>2. \A p \in Page : Cardinality({r \in revision : r.page = p}) <= MaxRevisions
    BY <1>1 DEF PageInv, RevisionInv, RevisionsSound, Of
  <2>3. now \in Time /\ row \in [Page -> Row \cup {None, Gone}]
        /\ redirect \in [Slug -> Slug \cup {None}] /\ confused \in BOOLEAN /\ shadowed \subseteq Page
        /\ \A p \in Page : Exists(p) => (row[p].status = "scheduled" <=> row[p].at # 0)
    BY <1>1 DEF PageInv, TableInv, ShadowInv, Dated
  <2>4. desk \in [Editor -> Desk] /\ pass \in [Worker -> [Page -> Row \cup {None}]]
    BY <1>1 DEF PageInv, DeskInv, PassInv
  <2>5. /\ revision \subseteq Revision /\ announced \in [Page -> Face \cup {None}]
        /\ known \in [Slug -> Page \cup {None}]
    BY <1>1 DEF PageInv, RevisionInv, RevisionsSound, AnnouncedInv, KnownInv
  <2>6. QED BY <2>1, <2>2, <2>3, <2>4, <2>5 DEF TypeOK
<1>2. QED BY <1>1, InductiveInvariant, PTL

\* What visitors would see of a page has been announced (recordInvalidation),
\* as long as no address changes hands under an editor, and, even then, every
\* address it has been published at leads to it, through any number of moves of
\* that page and of others (changeAddress, writeRedirect): its former addresses
\* by a rule of one hop, and no rule leads away from its present address unless
\* one did when the page was given it, as create allows.
THEOREM VisitorsFind == Spec => []VisitorsFindPages
<1>1. ASSUME PageInv PROVE VisitorsFindPages
  <2>1. ASSUME NEW s \in Slug, known[s] # None
        PROVE  LET p    == known[s]
                   home == row[p].slug
               IN /\ s # home => redirect[s] = home
                  /\ redirect[home] = None \/ p \in shadowed
    BY <1>1, <2>1 DEF PageInv, KnownInv, ShadowInv, Public, Exists
  <2>2. QED BY <1>1, <2>1 DEF PageInv, AnnouncedInv, VisitorsFindPages
<1>2. QED BY <1>1, InductiveInvariant, PTL

\* Everything but a committed write leaves the rows as they are.
LEMMA RowsStay ==
  ASSUME [Next]_vars
  PROVE  \/ \E e \in Editor : Commit(e) \/ CommitRemove(e) \/ \E p \in Page : CommitCreate(e, p)
         \/ \E w \in Worker, p \in Page : PublishDue(w, p) \/ ReturnToDraft(w, p)
         \/ UNCHANGED <<row, revision>>
<1>1. ASSUME NEW e \in Editor, Check(e) \/ Refuse(e) PROVE UNCHANGED <<row, revision>>
  BY <1>1 DEF Check, Refuse, View, CheckCreate, CheckSave, CheckPublish, CheckUnpublish, CheckUnschedule,
              CheckRemove, CheckSchedule, CheckMove, Submit, Puts
<1>2. ASSUME Tick \/ \E w \in Worker : ReadDue(w) \/ StopPass(w) \/ \E p \in Page : SkipDue(w, p)
      PROVE  UNCHANGED <<row, revision>>
  BY <1>2 DEF Tick, ReadDue, StopPass, SkipDue
<1>3. QED BY <1>1, <1>2 DEF Next, Act, Publish, vars

\* An editor's write replaces the row that editor had loaded, and the
\* publisher's the row it decided on when that was due.
THEOREM NoLostUpdate == Spec => NothingOverwrittenUnseen
<1> DEFINE Seen(p) ==
             \/ \E e \in Editor : Holds(e, p) /\ desk'[e] = Idle
             \/ IsDue(p) /\ \E w \in Worker : HasRead(w, p) /\ pass'[w][p] = None
           OnlySeen ==
             \A p \in Page : ~confused' /\ Exists(p) /\ row'[p] # row[p] /\ row'[p] # Gone => Seen(p)
<1>1. ASSUME PageInv, [Next]_vars, NEW p \in Page,
             ~confused', Exists(p), row'[p] # row[p], row'[p] # Gone
      PROVE  Seen(p)
  <2>1. TableInv /\ DeskInv /\ PassInv BY <1>1 DEF PageInv
  <2>2. ASSUME NEW e \in Editor, Commit(e) PROVE Seen(p)
    <3>1. /\ desk[e].op \in ByAddress \cup ById /\ desk[e].seen # None
          /\ desk' = [desk EXCEPT ![e] = Idle]
      BY <2>2 DEF Commit
    <3>2. PICK q \in Target(e) :
            /\ row' = [row EXCEPT ![q] = Bumped(Written(row[q], desk[e].op, desk[e].input))]
            /\ confused => confused'
      BY <2>2 DEF Commit
    <3>3. p = q BY <1>1, <2>1, <3>2 DEF TableInv
    <3>4. p = desk[e].page /\ row[p] = desk[e].seen
      BY <1>1, <3>1, <3>2, <3>3, CommitFinds
    <3>5. QED BY <2>1, <3>1, <3>4 DEF Holds, DeskInv
  <2>3. ASSUME NEW e \in Editor, CommitRemove(e) PROVE FALSE
    BY <1>1, <2>1, <2>3 DEF CommitRemove, TableInv
  <2>4. ASSUME NEW e \in Editor, NEW q \in Page, CommitCreate(e, q) PROVE FALSE
    BY <1>1, <2>1, <2>4, Distinct DEF CommitCreate, TableInv, Exists
  <2>5. ASSUME NEW w \in Worker, NEW q \in Page, PublishDue(w, q) \/ ReturnToDraft(w, q) PROVE Seen(p)
    <3>1. p = q BY <1>1, <2>1, <2>5 DEF PublishDue, ReturnToDraft, TableInv
    <3>2. pass[w][p] # None /\ StillScheduled(p, pass[w][p]) /\ pass' = [pass EXCEPT ![w][p] = None]
      BY <2>5, <3>1 DEF PublishDue, ReturnToDraft, Treated
    <3>3. IsDue(p) /\ HasRead(w, p) BY <1>1, <3>2, DueIsRow DEF HasRead
    <3>4. pass'[w][p] = None BY <2>1, <3>2 DEF PassInv
    <3>5. QED BY <3>3, <3>4
  <2>6. QED BY <1>1, <2>2, <2>3, <2>4, <2>5, RowsStay
<1>2. PageInv /\ [Next]_vars => [OnlySeen]_vars BY <1>1
<1>3. QED BY <1>2, InductiveInvariant, PTL DEF Spec, NothingOverwrittenUnseen

\* Whatever text a save replaces is kept under the version it had, and what
\* the trimming drops has MaxRevisions newer ones of its page (update,
\* REVISIONS_KEPT).
THEOREM EarlierVersions == Spec => EarlierVersionsAreKept
<1> DEFINE TextsKept ==
             \A p \in Page : Exists(p) /\ row'[p] \in Row /\ row'[p].text # row[p].text =>
               [page |-> p, version |-> row[p].version, text |-> row[p].text] \in revision'
           OldestDropped ==
             \A r \in revision \ revision' :
               \/ row'[r.page] = Gone
               \/ Cardinality({x \in revision' : x.page = r.page /\ x.version > r.version}) >= MaxRevisions
<1>1. ASSUME PageInv, [Next]_vars, ~confused' PROVE TextsKept /\ OldestDropped
  <2>1. TableInv /\ DeskInv /\ RevisionInv BY <1>1 DEF PageInv
  <2>2. ASSUME NEW e \in Editor, Commit(e) PROVE TextsKept /\ OldestDropped
    <3> DEFINE d == desk[e]
    <3>1. /\ d.op \in ByAddress \cup ById /\ d.seen # None
          /\ revision' = IF d.op = "save" THEN Kept(d.page, d.seen) ELSE revision
      BY <2>2 DEF Commit
    <3>2. PICK q \in Target(e) :
            /\ row' = [row EXCEPT ![q] = Bumped(Written(row[q], d.op, d.input))]
            /\ confused => confused'
      BY <2>2 DEF Commit
    <3>3. /\ q \in Page /\ Exists(q) /\ q = d.page /\ row[q] = d.seen /\ d.seen \in Row
          /\ d.op # "save" => row'[q].text = row[q].text
      BY <1>1, <2>1, <3>1, <3>2, CommitFinds DEF TableInv
    <3>4. \A p \in Page : p # q => row'[p] = row[p] BY <2>1, <3>2 DEF TableInv
    <3> HIDE DEF d
    <3>5. CASE d.op # "save" BY <3>1, <3>3, <3>4, <3>5
    <3>6. CASE d.op = "save"
      <4>1. /\ revision' = Kept(q, row[q]) /\ RevisionsSound(revision) /\ row[q] \in Row
            /\ \A x \in revision : x.page = q => x.version < row[q].version
        BY <1>1, <2>1, <3>1, <3>2, <3>3, <3>6 DEF RevisionInv
      <4> DEFINE after == Kept(q, row[q])
      <4>2. /\ Snapshot(q, row[q]) \in after
            /\ \A x \in revision \ after :
                 /\ x.page = q
                 /\ Cardinality({y \in after : y.page = q /\ y.version > x.version}) >= MaxRevisions
        BY <3>3, <4>1, KeptIsSound
      <4> HIDE DEF after
      <4>3. revision' = after BY <4>1 DEF after
      <4>4. QED BY <3>4, <4>2, <4>3 DEF Snapshot
    <3>7. QED BY <3>5, <3>6
  <2>3. ASSUME NEW e \in Editor, CommitRemove(e) PROVE TextsKept /\ OldestDropped
    <3>1. PICK p \in Holders(desk[e].slug) : row' = [row EXCEPT ![p] = Gone]
      BY <2>3 DEF CommitRemove
    <3>2. /\ desk[e].op = "remove" /\ confused' = confused
          /\ revision' = {r \in revision : r.page # desk[e].page}
      BY <2>3 DEF CommitRemove
    <3>3. desk[e].page \in Page /\ p = desk[e].page
      BY <1>1, <2>1, <3>1, <3>2, Distinct DEF DeskInv, GoodDesk, Blank, Finds
    <3>4. row'[p] = Gone /\ \A q \in Page : q # p => row'[q] = row[q]
      BY <2>1, <3>1, <3>3 DEF TableInv
    <3>5. QED BY <3>2, <3>3, <3>4, Distinct
  <2>4. ASSUME NEW e \in Editor, NEW q \in Page, CommitCreate(e, q) PROVE TextsKept /\ OldestDropped
    BY <2>1, <2>4, Distinct DEF CommitCreate, TableInv, Exists
  <2>5. ASSUME NEW w \in Worker, NEW q \in Page, PublishDue(w, q) \/ ReturnToDraft(w, q) PROVE TextsKept /\ OldestDropped
    <3>1. PICK op \in {"publish", "unschedule"} : row' = [row EXCEPT ![q] = Bumped(Written(row[q], op, None))]
      BY <2>5 DEF PublishDue, ReturnToDraft
    <3>2. Exists(q) /\ revision' = revision BY <2>5 DEF PublishDue, ReturnToDraft, StillScheduled
    <3>3. Bumped(Written(row[q], op, None)).text = row[q].text
      BY <3>1, <3>2 DEF Exists, Row, Bumped, Written
    <3>4. row'[q].text = row[q].text /\ \A p \in Page : p # q => row'[p] = row[p]
      BY <2>1, <3>1, <3>3 DEF TableInv
    <3>5. QED BY <3>2, <3>4
  <2>6. CASE UNCHANGED <<row, revision>> BY <2>6
  <2>7. QED BY <1>1, <2>2, <2>3, <2>4, <2>5, <2>6, RowsStay
<1>2. PageInv /\ [Next]_vars => [~confused' => TextsKept /\ OldestDropped]_vars BY <1>1
<1>3. QED BY <1>2, InductiveInvariant, PTL DEF Spec, EarlierVersionsAreKept

=============================================================================
