----------------------------- MODULE MediaLibrary -----------------------------
(***************************************************************************)
(* The media library: files uploaded to a private bucket, checked by the   *)
(* API when the upload is completed, made into public renditions by the    *)
(* worker (images) or copied (documents), shown by pages, and removed by   *)
(* an administrator or the retention task.                                 *)
(*                                                                         *)
(* Rows live in the database and bytes in object storage, so every         *)
(* operation is a row of steps; what it read first may have changed when   *)
(* it writes, by id alone.  What the queue does to deliver a job again is  *)
(* here a job that may be run at any time once it was requested, and a     *)
(* finished one that may be run once more.  Titles, focal points, sizes    *)
(* and formats are data no step depends on.                                *)
(***************************************************************************)
EXTENDS Naturals, FiniteSets

CONSTANTS
  Image, Document,   \* the assets
  Object,            \* keys of the public bucket
  Renditions,        \* how many renditions an image has (VARIANT_KINDS)
  Worker,            \* jobs run at once
  Desk,              \* requests of administrators, and the retention task
  Disturbances, MaxDisturbances,
  None

Asset == Image \cup Document

DisturbanceKinds == {"crash", "database", "storage", "again"}

ASSUME MediaAssumption ==
  /\ Image \cap Document = {}
  /\ Renditions \in Nat \ {0} /\ MaxDisturbances \in Nat
  /\ Disturbances \subseteq DisturbanceKinds

\* checked: its checksum is set; copies: the keys of its variants, or of the
\* published copy of a document.
Rec == [status : {"absent", "quarantined", "ready", "rejected", "gone"},
        checked : BOOLEAN, copies : SUBSET Object]

Run == [step : {"loaded", "making", "failing", "deleting", "clearing", "marking"},
        asset : Image, made : SUBSET Object, doomed : SUBSET Object]

Work == [op : {"complete", "remove", "show"},
         step : {"checked", "copied", "published", "declined", "deleting", "deleted"},
         asset : Asset, copies : SUBSET Object]

ASSUME NoneAssumption == None \notin Run \cup Work

VARIABLES
  rec,        \* media_assets and media_variants
  original,   \* the uploads in the private bucket
  public,     \* the keys in the public bucket
  job,        \* the processing of each image: "none", "queued" or "done"
  run, desk,
  shown,      \* the assets that a page shows, by a reference that restricts deletion
  disturbed,  \* disturbances so far
  contested,  \* history: assets of which two operations overlapped
  halfway     \* history: assets whose removal broke off after it began to delete

vars == <<rec, original, public, job, run, desk, shown, disturbed, contested, halfway>>

\* Types, and at most one row of variants for each kind of rendition.
TypeOK ==
  /\ rec \in [Asset -> Rec]
  /\ \A a \in Asset : Cardinality(rec[a].copies) <= (IF a \in Image THEN Renditions ELSE 1)
  /\ original \subseteq Asset /\ public \subseteq Object
  /\ job \in [Asset -> {"none", "queued", "done"}]
  /\ run \in [Worker -> Run \cup {None}]
  /\ desk \in [Desk -> Work \cup {None}]
  /\ shown \subseteq Asset
  /\ disturbed \in 0 .. MaxDisturbances
  /\ contested \subseteq Asset /\ halfway \subseteq Asset

-----------------------------------------------------------------------------
Exists(a) == rec[a].status \notin {"absent", "gone"}

Has(a, status) == rec[a].status = status

Disturb(kind) ==
  /\ kind \in Disturbances /\ disturbed < MaxDisturbances
  /\ disturbed' = disturbed + 1

\* Keys are random: one that nobody knows.
Fresh == Object \ (public \cup (UNION {rec[a].copies : a \in Asset})
                          \cup (UNION {run[w].made \cup run[w].doomed : w \in {v \in Worker : run[v] # None}})
                          \cup (UNION {desk[d].copies : d \in {e \in Desk : desk[e] # None}}))

RunsOn(a) == {w \in Worker : run[w] # None /\ run[w].asset = a}

At(d, op, step) == desk[d] # None /\ desk[d].op = op /\ desk[d].step = step

Busy(a, op) == \E d \in Desk : desk[d] # None /\ desk[d].asset = a /\ desk[d].op = op

Contest(a, condition) == contested' = IF condition THEN contested \cup {a} ELSE contested

Take(d, op, a, copies) ==
  desk' = [desk EXCEPT ![d] = [op |-> op, step |-> "checked", asset |-> a, copies |-> copies]]

Go(d, step) == desk' = [desk EXCEPT ![d].step = step]

Leave(d) == desk' = [desk EXCEPT ![d] = None]

\* Objects are deleted from the public bucket, or remain when storage fails.
Deleted(objects) ==
  \/ public' = public \ objects /\ UNCHANGED disturbed
  \/ objects # {} /\ Disturb("storage") /\ UNCHANGED public

-----------------------------------------------------------------------------
\* An upload.

RequestUpload(a) ==
  /\ Has(a, "absent")
  /\ rec' = [rec EXCEPT ![a].status = "quarantined"]
  /\ UNCHANGED <<original, public, job, run, desk, shown, disturbed, contested, halfway>>

\* The browser puts the file where it was told to.
Upload(a) ==
  /\ Has(a, "quarantined") /\ ~rec[a].checked /\ a \notin original
  /\ original' = original \cup {a}
  /\ UNCHANGED <<rec, public, job, run, desk, shown, disturbed, contested, halfway>>

\* completeUpload up to the reading of the file: what is no longer quarantined, or
\* an image that was submitted already, is refused; so is what was never uploaded.
BeginComplete(d, a) ==
  /\ desk[d] = None
  /\ Has(a, "quarantined") /\ (a \in Image => ~rec[a].checked) /\ a \in original
  /\ Take(d, "complete", a, {})
  /\ Contest(a, Busy(a, "complete"))
  /\ UNCHANGED <<rec, original, public, job, run, shown, disturbed, halfway>>

\* Mutant: the original is dropped at once, as that of a document is.
AcceptDropping(d) ==
  LET a == desk[d].asset
  IN /\ At(d, "complete", "checked") /\ a \in Image
     /\ IF Exists(a)
        THEN rec' = [rec EXCEPT ![a].checked = TRUE] /\ job' = [job EXCEPT ![a] = "queued"]
        ELSE UNCHANGED <<rec, job>>
     /\ original' = original \ {a}
     /\ Leave(d)
     /\ UNCHANGED <<public, run, shown, disturbed, contested, halfway>>

\* A sound image is marked as submitted and its processing requested, in one
\* transaction that updates by id.
Accept(d) ==
  LET a == desk[d].asset
  IN /\ At(d, "complete", "checked") /\ a \in Image
     /\ IF Exists(a)
        THEN rec' = [rec EXCEPT ![a].checked = TRUE] /\ job' = [job EXCEPT ![a] = "queued"]
        ELSE UNCHANGED <<rec, job>>
     /\ Leave(d)
     /\ UNCHANGED <<original, public, run, shown, disturbed, contested, halfway>>

\* A sound document is copied to the public bucket,
Copy(d, o) ==
  LET a == desk[d].asset
  IN /\ At(d, "complete", "checked") /\ a \in Document /\ o \in Fresh
     /\ public' = public \cup {o}
     /\ desk' = [desk EXCEPT ![d].step = "copied", ![d].copies = {o}]
     /\ UNCHANGED <<rec, original, job, run, shown, disturbed, contested, halfway>>

\* then it is made ready, or the copy is taken back when that fails,
PublishDocument(d) ==
  LET a == desk[d].asset
      ready == [status |-> "ready", checked |-> TRUE, copies |-> desk[d].copies]
  IN /\ At(d, "complete", "copied")
     /\ \/ /\ Exists(a)
           /\ rec' = [rec EXCEPT ![a] = ready]
           /\ Go(d, "published")
           /\ UNCHANGED <<public, disturbed>>
        \/ /\ IF Exists(a) THEN Disturb("database") ELSE UNCHANGED disturbed
           /\ public' = public \ desk[d].copies
           /\ Leave(d)
           /\ UNCHANGED rec
     /\ UNCHANGED <<original, job, run, shown, contested, halfway>>

\* and the original is deleted; so it is when a file is refused, after the row says so.
Decline(d) ==
  LET a == desk[d].asset
  IN /\ At(d, "complete", "checked")
     /\ IF Exists(a)
        THEN rec' = [rec EXCEPT ![a].status = "rejected"] /\ Go(d, "declined")
        ELSE Leave(d) /\ UNCHANGED rec
     /\ UNCHANGED <<original, public, job, run, shown, disturbed, contested, halfway>>

DropOriginal(d) ==
  /\ At(d, "complete", "published") \/ At(d, "complete", "declined")
  /\ \/ original' = original \ {desk[d].asset} /\ UNCHANGED disturbed
     \/ Disturb("storage") /\ UNCHANGED original
  /\ Leave(d)
  /\ UNCHANGED <<rec, public, job, run, shown, contested, halfway>>

CompleteUpload ==
  \E d \in Desk :
    \/ \E a \in Asset : BeginComplete(d, a)
    \/ Accept(d) \/ PublishDocument(d) \/ Decline(d) \/ DropOriginal(d)
    \/ \E o \in Object : Copy(d, o)

-----------------------------------------------------------------------------
\* A job of the worker (processMediaAsset).

Pace(w, step) == run' = [run EXCEPT ![w].step = step]

Finish(w) == run' = [run EXCEPT ![w] = None]

\* The asset is read; what is not in quarantine is skipped.
Load(w, a) ==
  /\ run[w] = None
  /\ \/ job[a] = "queued" /\ UNCHANGED disturbed
     \/ job[a] = "done" /\ Disturb("again")
  /\ IF Has(a, "quarantined")
     THEN /\ run' = [run EXCEPT ![w] = [step |-> "loaded", asset |-> a, made |-> {}, doomed |-> {}]]
          /\ UNCHANGED job
     ELSE job' = [job EXCEPT ![a] = "done"] /\ UNCHANGED run
  /\ Contest(a, Has(a, "quarantined") /\ RunsOn(a) # {})
  /\ UNCHANGED <<rec, original, public, desk, shown, halfway>>

\* The original is read, and the image decoded.
Read(w) ==
  /\ run[w] # None /\ run[w].step = "loaded"
  /\ Pace(w, IF run[w].asset \in original THEN "making" ELSE "failing")
  /\ UNCHANGED <<rec, original, public, job, desk, shown, disturbed, contested, halfway>>

\* A rendition is made and put in the public bucket.
Put(w, o) ==
  /\ run[w] # None /\ run[w].step = "making" /\ Cardinality(run[w].made) < Renditions
  /\ o \in Fresh
  /\ public' = public \cup {o}
  /\ run' = [run EXCEPT ![w].made = @ \cup {o}]
  /\ UNCHANGED <<rec, original, job, desk, shown, disturbed, contested, halfway>>

\* The file cannot be decoded, or storage or database fail, or the asset is gone.
Spoil(w) ==
  /\ run[w] # None /\ run[w].step = "making"
  /\ \/ run[w].made = {} /\ UNCHANGED disturbed
     \/ Disturb("storage")
     \/ ~Exists(run[w].asset) /\ UNCHANGED disturbed
  /\ Pace(w, "failing")
  /\ UNCHANGED <<rec, original, public, job, desk, shown, contested, halfway>>

\* Mutant: the rows of an earlier run are kept.
PublishMore(w) ==
  LET a == run[w].asset
  IN /\ run[w] # None /\ run[w].step = "making" /\ Cardinality(run[w].made) = Renditions
     /\ Exists(a)
     /\ rec' = [rec EXCEPT ![a].status = "ready", ![a].copies = @ \cup run[w].made]
     /\ job' = [job EXCEPT ![a] = "done"]
     /\ Finish(w)
     /\ UNCHANGED <<original, public, desk, shown, disturbed, contested, halfway>>

\* The renditions replace the rows there are and the asset is ready, in one transaction.
Publish(w) ==
  LET a == run[w].asset
  IN /\ run[w] # None /\ run[w].step = "making" /\ Cardinality(run[w].made) = Renditions
     /\ Exists(a)
     /\ rec' = [rec EXCEPT ![a].status = "ready", ![a].copies = run[w].made]
     /\ job' = [job EXCEPT ![a] = "done"]
     /\ Finish(w)
     /\ UNCHANGED <<original, public, desk, shown, disturbed, contested, halfway>>

\* reject: the rows of variants are read, their objects deleted (or not, when
\* storage refuses), the rows deleted,
ReadCopies(w) ==
  /\ run[w] # None /\ run[w].step = "failing"
  /\ run' = [run EXCEPT ![w].step = "deleting", ![w].doomed = rec[run[w].asset].copies]
  /\ UNCHANGED <<rec, original, public, job, desk, shown, disturbed, contested, halfway>>

DeleteCopies(w) ==
  /\ run[w] # None /\ run[w].step = "deleting"
  /\ Deleted(run[w].doomed)
  /\ run' = [run EXCEPT ![w].step = "clearing", ![w].doomed = {}]
  /\ UNCHANGED <<rec, original, job, desk, shown, contested, halfway>>

Clear(w) ==
  /\ run[w] # None /\ run[w].step = "clearing"
  /\ rec' = [rec EXCEPT ![run[w].asset].copies = {}]
  /\ Pace(w, "marking")
  /\ UNCHANGED <<original, public, job, desk, shown, disturbed, contested, halfway>>

\* and the asset marked; an asset that is gone fails the job, which then skips it.
Mark(w) ==
  LET a == run[w].asset
  IN /\ run[w] # None /\ run[w].step = "marking"
     /\ IF Exists(a)
        THEN rec' = [rec EXCEPT ![a].status = "rejected"] /\ job' = [job EXCEPT ![a] = "done"]
        ELSE UNCHANGED <<rec, job>>
     /\ Finish(w)
     /\ UNCHANGED <<original, public, desk, shown, disturbed, contested, halfway>>

\* The worker dies, or a query outside the transaction fails: the job comes back.
Die(w) ==
  /\ run[w] # None
  /\ Disturb("crash")
  /\ Finish(w)
  /\ UNCHANGED <<rec, original, public, job, desk, shown, contested, halfway>>

ProcessMediaAsset(w) ==
  \/ \E a \in Image : Load(w, a)
  \/ Read(w) \/ Spoil(w) \/ Publish(w)
  \/ \E o \in Object : Put(w, o)
  \/ ReadCopies(w) \/ DeleteCopies(w) \/ Clear(w) \/ Mark(w)

-----------------------------------------------------------------------------
\* Pages, and removal.

\* setGallery and its like show an image that is ready when they look.
BeginShow(d, a) ==
  /\ desk[d] = None /\ a \in Image /\ Has(a, "ready")
  /\ Take(d, "show", a, {})
  /\ Contest(a, Busy(a, "remove"))
  /\ UNCHANGED <<rec, original, public, job, run, shown, disturbed, halfway>>

\* The reference is written; the database refuses one to a row that is gone.
Show(d) ==
  /\ At(d, "show", "checked")
  /\ shown' = IF Exists(desk[d].asset) THEN shown \cup {desk[d].asset} ELSE shown
  /\ Leave(d)
  /\ UNCHANGED <<rec, original, public, job, run, disturbed, contested, halfway>>

Hide(a) ==
  /\ a \in shown
  /\ shown' = shown \ {a}
  /\ UNCHANGED <<rec, original, public, job, run, desk, disturbed, contested, halfway>>

\* What the retention task takes for an abandoned upload.
Abandoned(a) == Has(a, "rejected") \/ (Has(a, "quarantined") /\ ~rec[a].checked)

\* Mutant: deletion does not look where the image is shown.
RemovableUnseen(a) == Exists(a)

\* remove refuses what is shown anywhere.
Removable(a) == Exists(a) /\ a \notin shown

\* remove, or media.retention with an asset nothing has shown for a month, notes
\* the objects to delete; of an abandoned upload it deletes the original alone.
BeginRemove(d, a) ==
  /\ desk[d] = None
  /\ \/ Removable(a) /\ Take(d, "remove", a, rec[a].copies)
     \/ Abandoned(a) /\ Take(d, "remove", a, {})
  /\ Contest(a, Busy(a, "show"))
  /\ UNCHANGED <<rec, original, public, job, run, shown, disturbed, halfway>>

DeleteObjects(d) ==
  /\ At(d, "remove", "checked")
  /\ Deleted(desk[d].copies)
  /\ desk' = [desk EXCEPT ![d].step = "deleting", ![d].copies = {}]
  /\ UNCHANGED <<rec, original, job, run, shown, contested, halfway>>

DeleteOriginal(d) ==
  /\ At(d, "remove", "deleting")
  /\ \/ original' = original \ {desk[d].asset} /\ UNCHANGED disturbed
     \/ Disturb("storage") /\ UNCHANGED original
  /\ Go(d, "deleted")
  /\ UNCHANGED <<rec, public, job, run, shown, contested, halfway>>

\* The row goes with its variants, unless something shows it by now.
DeleteRow(d) ==
  LET a == desk[d].asset
  IN /\ At(d, "remove", "deleted")
     /\ rec' = IF a \in shown \/ ~Exists(a) THEN rec
               ELSE [rec EXCEPT ![a] = [status |-> "gone", checked |-> rec[a].checked, copies |-> {}]]
     /\ Leave(d)
     /\ UNCHANGED <<original, public, job, run, shown, disturbed, contested, halfway>>

\* A check refuses, or the process dies: a removal that has begun stays half done.
GiveUp(d) ==
  /\ desk[d] # None
  /\ IF desk[d].step = "checked" THEN UNCHANGED disturbed ELSE Disturb("crash")
  /\ halfway' = IF desk[d].step \in {"deleting", "deleted"} THEN halfway \cup {desk[d].asset} ELSE halfway
  /\ Leave(d)
  /\ UNCHANGED <<rec, original, public, job, run, shown, contested>>

Use ==
  \/ \E a \in Asset : RequestUpload(a) \/ Upload(a) \/ Hide(a)
  \/ \E d \in Desk :
       \/ \E a \in Asset : BeginShow(d, a) \/ BeginRemove(d, a)
       \/ Show(d) \/ DeleteObjects(d) \/ DeleteOriginal(d) \/ DeleteRow(d) \/ GiveUp(d)

-----------------------------------------------------------------------------
Init ==
  /\ rec = [a \in Asset |-> [status |-> "absent", checked |-> FALSE, copies |-> {}]]
  /\ original = {} /\ public = {}
  /\ job = [a \in Asset |-> "none"]
  /\ run = [w \in Worker |-> None]
  /\ desk = [d \in Desk |-> None]
  /\ shown = {} /\ disturbed = 0 /\ contested = {} /\ halfway = {}

Next ==
  \/ CompleteUpload \/ Use
  \/ \E w \in Worker : ProcessMediaAsset(w) \/ Die(w)

Spec == Init /\ [][Next]_vars

-----------------------------------------------------------------------------
\* Properties.

\* What is ready has copies, and what a page shows is ready, until two operations
\* of the asset overlap (two completions or jobs, a removal and a page that takes it);
\* and the copies are in the public bucket until a removal begins.  The code promises
\* no more: of an asset whose removal broke off (remove deletes the objects before the
\* row) nothing is said about its objects, although it is still ready and a page can
\* take it.
ReadyIsWhole ==
  \A a \in Asset \ contested :
    /\ Has(a, "ready") => rec[a].copies # {}
    /\ Has(a, "ready") /\ ~Busy(a, "remove") /\ a \notin halfway => rec[a].copies \subseteq public
    /\ a \in shown => Has(a, "ready")

\* An upload submitted for processing keeps its file, so that a job which comes back
\* finds it, whatever completions, jobs and rejections of it overlap: only a removal
\* deletes it, and takes the row next, unless it breaks off there.  A removal may be
\* one that retention began while the upload was not yet submitted (media.retention
\* deletes by id what it listed before): of such an upload the property says only that
\* file and row go together.
SubmittedIsKept ==
  \A a \in Image \ halfway :
    Has(a, "quarantined") /\ rec[a].checked =>
      a \in original \/ \E d \in Desk : At(d, "remove", "deleted") /\ desk[d].asset = a
=============================================================================
