-------------------------- MODULE MediaLibraryProofs --------------------------
(***************************************************************************)
(* Proofs about MediaLibrary: for any number of assets, objects,           *)
(* renditions, jobs, requests and disturbances.                            *)
(***************************************************************************)
EXTENDS MediaLibrary, FiniteSetTheorems, TLAPS

RunOn(w, a) == run[w] # None /\ run[w].asset = a

On(d, a) == desk[d] # None /\ desk[d].asset = a

Doing(d, a, op) == On(d, a) /\ desk[d].op = op

\* The steps that each operation goes through.
DeskFit(d) ==
  desk[d] # None =>
    LET k == desk[d]
    IN /\ k.op = "complete" => k.step \in {"checked", "copied", "published", "declined"}
       /\ k.op = "remove" => k.step \in {"checked", "deleting", "deleted"}
       /\ k.op = "show" => k.step = "checked"
       /\ k.step \in {"copied", "published"} => k.asset \in Document
       /\ k.step = "copied" => \E o \in Object : k.copies = {o}

DesksFit == \A d \in Desk : DeskFit(d)

\* An asset that is not there yet is not worked on; what a job works on has been
\* checked; and what is in quarantine has no copies that anybody knows of.
AssetFit(a) ==
  /\ Has(a, "absent") => /\ ~rec[a].checked /\ rec[a].copies = {} /\ job[a] = "none"
                         /\ \A w \in Worker : ~RunOn(w, a)
                         /\ \A d \in Desk : ~On(d, a)
  /\ job[a] # "none" => rec[a].checked
  /\ \A w \in Worker : RunOn(w, a) => job[a] # "none"
  /\ Has(a, "quarantined") =>
       /\ rec[a].copies = {}
       /\ \A d \in Desk : On(d, a) => desk[d].step \notin {"published", "declined"}
       /\ \A d \in Desk : Doing(d, a, "remove") => desk[d].copies = {}

\* A job, and a completion, are alone with an asset that is still in quarantine.
Alone(a) ==
  /\ \A v, w \in Worker : RunOn(v, a) /\ RunOn(w, a) => v = w
  /\ \A w \in Worker : RunOn(w, a) => rec[a].status \in {"quarantined", "gone"}
  /\ \A d, e \in Desk : Doing(d, a, "complete") /\ Doing(e, a, "complete") => d = e
  /\ \A d \in Desk : Doing(d, a, "complete") /\ desk[d].step \in {"checked", "copied"} =>
       /\ rec[a].status \in {"quarantined", "gone"}
       /\ a \in Image => ~rec[a].checked

\* What is shown, or about to be, is ready and not being removed.
Visible(a) ==
  a \in shown \/ (\E d \in Desk : Doing(d, a, "show")) =>
    Has(a, "ready") /\ \A d \in Desk : ~Doing(d, a, "remove")

\* What is made of an asset in quarantine is in the public bucket.
Made(a) ==
  Has(a, "quarantined") =>
    /\ \A w \in Worker : RunOn(w, a) /\ run[w].step \in {"loaded", "making"} => run[w].made \subseteq public
    /\ \A d \in Desk : On(d, a) /\ desk[d].step = "copied" => desk[d].copies \subseteq public

\* What is ready has copies, in the public bucket until a removal has begun to delete.
Whole(a) ==
  Has(a, "ready") =>
    /\ rec[a].copies # {}
    /\ a \notin halfway /\ (\A d \in Desk : Doing(d, a, "remove") => desk[d].step = "checked") =>
         rec[a].copies \subseteq public

Fine(a) == Alone(a) /\ Visible(a) /\ Made(a) /\ Whole(a)

\* An object is known to the row, the jobs and the requests of one asset only.
Held(a, o) ==
  \/ o \in rec[a].copies
  \/ \E w \in Worker : RunOn(w, a) /\ o \in run[w].made \cup run[w].doomed
  \/ \E d \in Desk : On(d, a) /\ o \in desk[d].copies

Disjoint == \A a, b \in Asset : \A o \in Object : Held(a, o) /\ Held(b, o) => a = b

AssetsFit == \A a \in Asset : AssetFit(a) /\ (a \notin contested => Fine(a))

IInv == TypeOK /\ DesksFit /\ Disjoint /\ AssetsFit

-----------------------------------------------------------------------------
\* Data.

LEMMA RecShape ==
  ASSUME TypeOK, NEW a \in Asset
  PROVE  /\ rec[a] \in Rec /\ rec[a].status \in {"absent", "quarantined", "ready", "rejected", "gone"}
         /\ rec[a].checked \in BOOLEAN /\ rec[a].copies \in SUBSET Object
         /\ job[a] \in {"none", "queued", "done"}
  BY DEF TypeOK, Rec

LEMMA RunShape ==
  ASSUME TypeOK, NEW w \in Worker, run[w] # None
  PROVE  /\ run[w] \in Run
         /\ run[w].step \in {"loaded", "making", "failing", "deleting", "clearing", "marking"}
         /\ run[w].asset \in Image /\ run[w].asset \in Asset
         /\ run[w].made \in SUBSET Object /\ run[w].doomed \in SUBSET Object
  BY DEF TypeOK, Run, Asset

LEMMA WorkShape ==
  ASSUME TypeOK, NEW d \in Desk, desk[d] # None
  PROVE  /\ desk[d] \in Work
         /\ desk[d].op \in {"complete", "remove", "show"}
         /\ desk[d].step \in {"checked", "copied", "published", "declined", "deleting", "deleted"}
         /\ desk[d].asset \in Asset /\ desk[d].copies \in SUBSET Object
  BY DEF TypeOK, Work

LEMMA NotNone == \A x \in Run \cup Work : x # None
  BY NoneAssumption

\* A key that is fresh is known to nobody.
LEMMA FreshIsFree ==
  ASSUME TypeOK, NEW o \in Fresh
  PROVE  o \in Object /\ o \notin public /\ \A a \in Asset : ~Held(a, o)
<1>1. o \in Object /\ o \notin public /\ \A a \in Asset : o \notin rec[a].copies
  BY DEF Fresh
<1>2. ASSUME NEW w \in Worker, run[w] # None, o \in run[w].made \cup run[w].doomed PROVE FALSE
  <2>1. w \in {v \in Worker : run[v] # None}
    BY <1>2
  <2>2. o \in UNION {run[v].made \cup run[v].doomed : v \in {u \in Worker : run[u] # None}}
    BY <1>2, <2>1, Zenon
  <2>3. QED
    BY <2>2 DEF Fresh
<1>3. ASSUME NEW d \in Desk, desk[d] # None, o \in desk[d].copies PROVE FALSE
  <2>1. d \in {e \in Desk : desk[e] # None}
    BY <1>3
  <2>2. o \in UNION {desk[e].copies : e \in {c \in Desk : desk[c] # None}}
    BY <1>3, <2>1, Zenon
  <2>3. QED
    BY <2>2 DEF Fresh
<1>4. QED
  BY <1>1, <1>2, <1>3 DEF Held, RunOn, On

-----------------------------------------------------------------------------
\* What a step that works on asset b leaves to the others.

Elsewhere(b) ==
  /\ \A a \in Asset \ {b} : rec'[a] = rec[a] /\ job'[a] = job[a]
  /\ \A a \in Asset \ {b} : (a \in original' <=> a \in original) /\ (a \in shown' <=> a \in shown)
  /\ \A w \in Worker :
       \/ run'[w] = run[w]
       \/ (run[w] # None => run[w].asset = b) /\ (run'[w] # None => run'[w].asset = b)
  /\ \A d \in Desk :
       \/ desk'[d] = desk[d]
       \/ (desk[d] # None => desk[d].asset = b) /\ (desk'[d] # None => desk'[d].asset = b)
  /\ \A o \in public \ public' : Held(b, o)
  /\ \A a \in Asset : (a \in contested => a \in contested') /\ (a \in halfway => a \in halfway')

LEMMA OthersAlike ==
  ASSUME NEW b \in Asset, NEW a \in Asset \ {b}, Elsewhere(b)
  PROVE  /\ \A w \in Worker : (RunOn(w, a)' <=> RunOn(w, a)) /\ (RunOn(w, a) => run'[w] = run[w])
         /\ \A d \in Desk : (On(d, a)' <=> On(d, a)) /\ (On(d, a) => desk'[d] = desk[d])
         /\ \A d \in Desk : \A op \in {"complete", "remove", "show"} : Doing(d, a, op)' <=> Doing(d, a, op)
         /\ \A o : Held(a, o)' <=> Held(a, o)
<1>1. \A w \in Worker : (RunOn(w, a)' <=> RunOn(w, a)) /\ (RunOn(w, a) => run'[w] = run[w])
  BY DEF Elsewhere, RunOn
<1>2. \A d \in Desk : (On(d, a)' <=> On(d, a)) /\ (On(d, a) => desk'[d] = desk[d])
  BY DEF Elsewhere, On
<1>3. \A d \in Desk : \A op \in {"complete", "remove", "show"} : Doing(d, a, op)' <=> Doing(d, a, op)
  BY <1>2 DEF Doing
<1>4. rec'[a] = rec[a]
  BY DEF Elsewhere
<1>5. ASSUME NEW o PROVE Held(a, o)' <=> Held(a, o)
  BY <1>1, <1>2, <1>4 DEF Held
<1>6. QED
  BY <1>1, <1>2, <1>3, <1>5

LEMMA OthersKept ==
  ASSUME IInv, NEW b \in Asset, NEW a \in Asset \ {b}, Elsewhere(b)
  PROVE  AssetFit(a)' /\ (a \notin contested' => Fine(a)')
<1>1. /\ rec'[a] = rec[a] /\ job'[a] = job[a]
      /\ (a \in original' <=> a \in original) /\ (a \in shown' <=> a \in shown)
      /\ (a \in contested => a \in contested') /\ (a \in halfway => a \in halfway')
  BY DEF Elsewhere
<1>2. /\ \A w \in Worker : (RunOn(w, a)' <=> RunOn(w, a)) /\ (RunOn(w, a) => run'[w] = run[w])
      /\ \A d \in Desk : (On(d, a)' <=> On(d, a)) /\ (On(d, a) => desk'[d] = desk[d])
      /\ \A d \in Desk : \A op \in {"complete", "remove", "show"} : Doing(d, a, op)' <=> Doing(d, a, op)
  BY OthersAlike
<1>3. \A o \in Object : Held(a, o) /\ o \in public => o \in public'
  BY DEF Elsewhere, IInv, Disjoint
<1>4. \A d \in Desk, op \in {"complete", "remove", "show"} : Doing(d, a, op) => On(d, a)
  BY DEF Doing
<1>5. AssetFit(a) /\ (a \notin contested => Fine(a))
  BY DEF IInv, AssetsFit
<1>6. AssetFit(a)'
  BY <1>1, <1>2, <1>4, <1>5 DEF AssetFit, Has
<1>7. ASSUME a \notin contested' PROVE Fine(a)'
  <2>1. Fine(a)
    BY <1>1, <1>5, <1>7
  <2>2. Alone(a)'
    BY <1>1, <1>2, <1>4, <2>1 DEF Fine, Alone
  <2>3. Visible(a)'
    BY <1>1, <1>2, <2>1 DEF Fine, Visible, Has
  <2>4. Made(a)'
    <3>1. ASSUME NEW w \in Worker, RunOn(w, a), run[w].made \subseteq public PROVE run[w].made \subseteq public'
      BY <1>3, <3>1, RunShape DEF Held, RunOn, IInv
    <3>2. ASSUME NEW d \in Desk, On(d, a), desk[d].copies \subseteq public PROVE desk[d].copies \subseteq public'
      BY <1>3, <3>2, WorkShape DEF Held, On, IInv
    <3>3. QED
      BY <1>1, <1>2, <2>1, <3>1, <3>2 DEF Fine, Made, Has
  <2>5. Whole(a)'
    <3>1. rec[a].copies \subseteq public => rec[a].copies \subseteq public'
      BY <1>3, RecShape DEF Held, IInv
    <3>2. QED
      BY <1>1, <1>2, <1>4, <2>1, <3>1 DEF Fine, Whole, Has
  <2>7. QED
    BY <2>2, <2>3, <2>4, <2>5 DEF Fine
<1>8. QED
  BY <1>6, <1>7

\* What has to be shown of a step that works on asset b.
LEMMA StepKeeps ==
  ASSUME IInv, NEW b \in Asset, TypeOK', DesksFit', Elsewhere(b),
         \A o \in Object : Held(b, o)' => Held(b, o) \/ \A a \in Asset : ~Held(a, o),
         AssetFit(b)', b \notin contested' => Fine(b)'
  PROVE  IInv'
<1>1. AssetsFit'
  BY OthersKept DEF AssetsFit
<1>2. Disjoint'
  <2>1. \A a \in Asset \ {b} : \A o \in Object : Held(a, o)' <=> Held(a, o)
    BY OthersAlike
  <2>2. QED
    BY <2>1 DEF IInv, Disjoint
<1>3. QED
  BY <1>1, <1>2 DEF IInv

-----------------------------------------------------------------------------
\* Steps that change one of the parts.

RunGoes(w, b, x) ==
  /\ run' \in [Worker -> Run \cup {None}]
  /\ run'[w] = x /\ \A v \in Worker \ {w} : run'[v] = run[v] /\ (RunOn(v, b)' <=> RunOn(v, b))
  /\ RunOn(w, b)' <=> x # None
  /\ RunOn(w, b) <=> run[w] # None
  /\ \A v \in Worker : \/ run'[v] = run[v]
                       \/ (run[v] # None => run[v].asset = b) /\ (run'[v] # None => run'[v].asset = b)

LEMMA RunStep ==
  ASSUME TypeOK, NEW b \in Asset, NEW w \in Worker, NEW x \in Run \cup {None},
         run' = [run EXCEPT ![w] = x], run[w] # None => run[w].asset = b, x # None => x.asset = b
  PROVE  RunGoes(w, b, x)
<1>1. run' \in [Worker -> Run \cup {None}] /\ run'[w] = x /\ \A v \in Worker \ {w} : run'[v] = run[v]
  BY DEF TypeOK
<1>2. QED
  BY <1>1 DEF RunOn, RunGoes

DeskGoes(d, b, x) ==
  /\ desk' \in [Desk -> Work \cup {None}]
  /\ desk'[d] = x
  /\ \A e \in Desk \ {d} : /\ desk'[e] = desk[e] /\ (On(e, b)' <=> On(e, b))
                           /\ \A op \in {"complete", "remove", "show"} : Doing(e, b, op)' <=> Doing(e, b, op)
  /\ On(d, b)' <=> x # None
  /\ On(d, b) <=> desk[d] # None
  /\ \A op \in {"complete", "remove", "show"} : Doing(d, b, op)' <=> x # None /\ x.op = op
  /\ \A e \in Desk : \/ desk'[e] = desk[e]
                     \/ (desk[e] # None => desk[e].asset = b) /\ (desk'[e] # None => desk'[e].asset = b)

LEMMA DeskStep ==
  ASSUME TypeOK, NEW b \in Asset, NEW d \in Desk, NEW x \in Work \cup {None},
         desk' = [desk EXCEPT ![d] = x], desk[d] # None => desk[d].asset = b, x # None => x.asset = b
  PROVE  DeskGoes(d, b, x)
<1>1. desk' \in [Desk -> Work \cup {None}] /\ desk'[d] = x /\ \A e \in Desk \ {d} : desk'[e] = desk[e]
  BY DEF TypeOK
<1>2. QED
  BY <1>1 DEF On, Doing, DeskGoes

LEMMA RunsRest ==
  ASSUME run' = run
  PROVE  /\ \A w \in Worker, a \in Asset : RunOn(w, a)' <=> RunOn(w, a)
         /\ \A w \in Worker : run'[w] = run[w]
  BY DEF RunOn

LEMMA DesksRest ==
  ASSUME desk' = desk
  PROVE  /\ \A d \in Desk, a \in Asset : On(d, a)' <=> On(d, a)
         /\ \A d \in Desk, a \in Asset, op \in {"complete", "remove", "show"} : Doing(d, a, op)' <=> Doing(d, a, op)
         /\ \A d \in Desk : desk'[d] = desk[d]
         /\ DesksFit => DesksFit'
  BY DEF On, Doing, DesksFit, DeskFit

\* One desk moves on.
LEMMA DeskFits ==
  ASSUME DesksFit, NEW d \in Desk, \A e \in Desk \ {d} : desk'[e] = desk[e], DeskFit(d)'
  PROVE  DesksFit'
  BY DEF DesksFit, DeskFit

RecGoes(b, x) ==
  /\ rec'[b] = x /\ \A a \in Asset \ {b} : rec'[a] = rec[a]
  /\ rec' \in [Asset -> Rec]
  /\ \A a \in Asset : Cardinality(rec'[a].copies) <= (IF a \in Image THEN Renditions ELSE 1)

LEMMA RecStep ==
  ASSUME TypeOK, NEW b \in Asset, NEW x \in Rec, rec' = [rec EXCEPT ![b] = x],
         Cardinality(x.copies) <= (IF b \in Image THEN Renditions ELSE 1)
  PROVE  RecGoes(b, x)
  BY DEF TypeOK, RecGoes

LEMMA ContestStep ==
  ASSUME TypeOK, NEW b \in Asset, NEW c, Contest(b, c)
  PROVE  /\ contested' \subseteq Asset
         /\ \A a \in Asset : a \in contested => a \in contested'
         /\ b \notin contested' => ~c /\ b \notin contested
  BY DEF TypeOK, Contest

\* Disturbances are counted up to their bound.
LEMMA DisturbStep ==
  ASSUME TypeOK, NEW kind, Disturb(kind)
  PROVE  disturbed' \in 0 .. MaxDisturbances
  BY MediaAssumption DEF TypeOK, Disturb

-----------------------------------------------------------------------------
\* An upload.

LEMMA RequestKeeps ==
  ASSUME IInv, NEW b \in Asset, RequestUpload(b)
  PROVE  IInv'
<1> DEFINE x == [rec[b] EXCEPT !.status = "quarantined"]
<1>1. /\ Has(b, "absent") /\ rec' = [rec EXCEPT ![b] = x]
      /\ UNCHANGED <<original, public, job, run, desk, shown, disturbed, contested, halfway>>
  BY DEF RequestUpload
<1>2. TypeOK /\ DesksFit /\ AssetFit(b) /\ (b \notin contested => Fine(b))
  BY DEF IInv, AssetsFit
<1>3. x \in Rec /\ x.status = "quarantined" /\ x.checked = rec[b].checked /\ x.copies = rec[b].copies
  BY <1>2, RecShape DEF Rec
<1> HIDE DEF x
<1>4. RecGoes(b, x)
  BY <1>1, <1>2, <1>3, RecStep DEF TypeOK
<1>5. TypeOK' /\ DesksFit'
  BY <1>1, <1>2, <1>4, DesksRest DEF TypeOK, RecGoes
<1>6. Elsewhere(b)
  BY <1>1, <1>4 DEF Elsewhere, RecGoes
<1>7. \A o \in Object : Held(b, o)' => Held(b, o)
  BY <1>1, <1>3, <1>4, RunsRest, DesksRest DEF Held, RecGoes
<1>8. AssetFit(b)'
  BY <1>1, <1>2, <1>3, <1>4, RunsRest, DesksRest DEF AssetFit, Has, Doing, RecGoes
<1>9. ASSUME b \notin contested' PROVE Fine(b)'
  <2>1. Fine(b)
    BY <1>1, <1>2, <1>9
  <2>2. b \notin shown /\ ~x.checked /\ (\A w \in Worker : ~RunOn(w, b)') /\ (\A d \in Desk : ~On(d, b)')
    BY <1>1, <1>2, <1>3, <2>1, RunsRest, DesksRest DEF AssetFit, Fine, Visible, Has
  <2>3. QED
    BY <1>1, <1>3, <1>4, <2>2 DEF Fine, Alone, Visible, Made, Whole, Has, Doing, RecGoes
<1>10. QED
  BY <1>5, <1>6, <1>7, <1>8, <1>9, StepKeeps

LEMMA UploadKeeps ==
  ASSUME IInv, NEW b \in Asset, Upload(b)
  PROVE  IInv'
<1>1. /\ b \notin original /\ original' = original \cup {b}
      /\ UNCHANGED <<rec, public, job, run, desk, shown, disturbed, contested, halfway>>
  BY DEF Upload
<1>2. TypeOK /\ DesksFit /\ AssetFit(b) /\ (b \notin contested => Fine(b))
  BY DEF IInv, AssetsFit
<1>3. TypeOK' /\ DesksFit'
  BY <1>1, <1>2, DesksRest DEF TypeOK
<1>4. Elsewhere(b)
  BY <1>1 DEF Elsewhere
<1>5. \A o \in Object : Held(b, o)' => Held(b, o)
  BY <1>1, RunsRest, DesksRest DEF Held
<1>6. AssetFit(b)'
  BY <1>1, <1>2, RunsRest, DesksRest DEF AssetFit, Has
<1>7. ASSUME b \notin contested' PROVE Fine(b)'
  <2>1. Fine(b)
    BY <1>1, <1>2, <1>7
  <2>2. Alone(b)' /\ Visible(b)' /\ Made(b)' /\ Whole(b)'
    BY <1>1, <2>1, RunsRest, DesksRest DEF Fine, Alone, Visible, Made, Whole, Has
  <2>3. QED
    BY <2>2 DEF Fine
<1>8. QED
  BY <1>3, <1>4, <1>5, <1>6, <1>7, StepKeeps

LEMMA HideKeeps ==
  ASSUME IInv, NEW b \in Asset, Hide(b)
  PROVE  IInv'
<1>1. /\ shown' = shown \ {b}
      /\ UNCHANGED <<rec, original, public, job, run, desk, disturbed, contested, halfway>>
  BY DEF Hide
<1>2. TypeOK /\ DesksFit /\ AssetFit(b) /\ (b \notin contested => Fine(b))
  BY DEF IInv, AssetsFit
<1>3. TypeOK' /\ DesksFit'
  BY <1>1, <1>2, DesksRest DEF TypeOK
<1>4. Elsewhere(b)
  BY <1>1 DEF Elsewhere
<1>5. \A o \in Object : Held(b, o)' => Held(b, o)
  BY <1>1, RunsRest, DesksRest DEF Held
<1>6. AssetFit(b)'
  BY <1>1, <1>2, RunsRest, DesksRest DEF AssetFit, Has
<1>7. ASSUME b \notin contested' PROVE Fine(b)'
  <2>1. Fine(b)
    BY <1>1, <1>2, <1>7
  <2>2. Alone(b)' /\ Visible(b)' /\ Made(b)' /\ Whole(b)'
    BY <1>1, <2>1, RunsRest, DesksRest DEF Fine, Alone, Visible, Made, Whole, Has
  <2>3. QED
    BY <2>2 DEF Fine
<1>8. QED
  BY <1>3, <1>4, <1>5, <1>6, <1>7, StepKeeps

LEMMA BeginCompleteKeeps ==
  ASSUME IInv, NEW d \in Desk, NEW b \in Asset, BeginComplete(d, b)
  PROVE  IInv'
<1> DEFINE x == [op |-> "complete", step |-> "checked", asset |-> b, copies |-> {}]
<1>1. /\ desk[d] = None /\ Has(b, "quarantined") /\ (b \in Image => ~rec[b].checked) /\ b \in original
      /\ desk' = [desk EXCEPT ![d] = x] /\ Contest(b, Busy(b, "complete"))
      /\ UNCHANGED <<rec, original, public, job, run, shown, disturbed, halfway>>
  BY DEF BeginComplete, Take
<1>2. TypeOK /\ DesksFit /\ AssetFit(b) /\ (b \notin contested => Fine(b))
  BY DEF IInv, AssetsFit
<1>3. x \in Work /\ x # None /\ x.asset = b /\ x.op = "complete" /\ x.step = "checked" /\ x.copies = {}
  <2>1. x \in Work
    BY DEF Work
  <2>2. QED
    BY <2>1, NotNone
<1> HIDE DEF x
<1>4. DeskGoes(d, b, x)
  BY <1>1, <1>2, <1>3, DeskStep
<1>5. /\ contested' \subseteq Asset
      /\ \A a \in Asset : a \in contested => a \in contested'
      /\ b \notin contested' => ~Busy(b, "complete") /\ b \notin contested
  BY <1>1, <1>2, ContestStep
<1>6. TypeOK'
  BY <1>1, <1>2, <1>4, <1>5 DEF TypeOK, DeskGoes
<1>7. DesksFit'
  BY <1>2, <1>3, <1>4, DeskFits DEF DeskFit, DeskGoes
<1>8. Elsewhere(b)
  BY <1>1, <1>4, <1>5 DEF Elsewhere, DeskGoes
<1>9. \A o \in Object : Held(b, o)' => Held(b, o)
  BY <1>1, <1>3, <1>4, RunsRest DEF Held, DeskGoes
<1>10. AssetFit(b)'
  BY <1>1, <1>2, <1>3, <1>4, RunsRest DEF AssetFit, Has, DeskGoes
<1>11. ASSUME b \notin contested' PROVE Fine(b)'
  <2>1. Fine(b) /\ \A e \in Desk : ~Doing(e, b, "complete")
    BY <1>2, <1>5, <1>11 DEF Busy, Doing, On
  <2>2. Alone(b)'
    BY <1>1, <1>4, <2>1, RunsRest DEF Fine, Alone, Has, DeskGoes
  <2>3. Visible(b)'
    BY <1>1, <1>3, <1>4, <2>1 DEF Fine, Visible, Has, DeskGoes
  <2>4. Made(b)'
    BY <1>1, <1>3, <1>4, <2>1, RunsRest DEF Fine, Made, Has, DeskGoes
  <2>5. Whole(b)'
    BY <1>1, <1>3, <1>4, <2>1 DEF Fine, Whole, Has, DeskGoes
  <2>6. QED
    BY <2>2, <2>3, <2>4, <2>5 DEF Fine
<1>12. QED
  BY <1>6, <1>7, <1>8, <1>9, <1>10, <1>11, StepKeeps

\* A request ends without a trace; no removal that has begun to delete does.
LEMMA LeaveKeeps ==
  ASSUME IInv, NEW d \in Desk, desk[d] # None, desk[d].step \notin {"deleting", "deleted"},
         desk' = [desk EXCEPT ![d] = None], UNCHANGED <<rec, original, public, job, run, shown, halfway>>,
         contested \subseteq contested', contested' \subseteq Asset, disturbed' \in 0 .. MaxDisturbances
  PROVE  IInv'
<1>1. PICK b \in Asset : b = desk[d].asset
  BY WorkShape DEF IInv
<1>2. TypeOK /\ DesksFit /\ AssetFit(b) /\ (b \notin contested => Fine(b))
  BY DEF IInv, AssetsFit
<1>3. DeskGoes(d, b, None)
  BY <1>1, <1>2, DeskStep
<1>4. TypeOK' /\ DesksFit'
  BY <1>2, <1>3, DeskFits DEF TypeOK, DeskFit, DeskGoes
<1>5. Elsewhere(b)
  BY <1>3 DEF Elsewhere, DeskGoes
<1>6. \A o \in Object : Held(b, o)' => Held(b, o)
  BY <1>3, RunsRest DEF Held, DeskGoes
<1>7. AssetFit(b)'
  BY <1>2, <1>3, RunsRest DEF AssetFit, Has, DeskGoes
<1>8. ASSUME b \notin contested' PROVE Fine(b)'
  <2>1. Fine(b)
    BY <1>2, <1>8
  <2>2. Alone(b)' /\ Made(b)'
    BY <1>3, <2>1, RunsRest DEF Fine, Alone, Made, Has, DeskGoes
  <2>3. Visible(b)'
    BY <1>3, <2>1 DEF Fine, Visible, Has, DeskGoes
  <2>4. Doing(d, b, "remove") => desk[d].step = "checked"
    BY <1>2, WorkShape DEF DesksFit, DeskFit, Doing, On
  <2>5. Whole(b)'
    BY <1>3, <2>1, <2>4 DEF Fine, Whole, Has, DeskGoes
  <2>7. QED
    BY <2>2, <2>3, <2>5 DEF Fine
<1>9. QED
  BY <1>4, <1>5, <1>6, <1>7, <1>8, StepKeeps

LEMMA SameDisturbed == ASSUME TypeOK, UNCHANGED disturbed PROVE disturbed' \in 0 .. MaxDisturbances
  BY DEF TypeOK

LEMMA AcceptKeeps ==
  ASSUME IInv, NEW d \in Desk, Accept(d)
  PROVE  IInv'
<1>0. TypeOK
  BY DEF IInv
<1>1. /\ desk[d] # None /\ desk[d].op = "complete" /\ desk[d].step = "checked"
      /\ desk' = [desk EXCEPT ![d] = None]
      /\ UNCHANGED <<original, public, run, shown, disturbed, contested, halfway>>
  BY DEF Accept, At, Leave
<1>2. PICK b \in Asset : b = desk[d].asset
  BY <1>0, <1>1, WorkShape
<1>3. DesksFit /\ AssetFit(b) /\ (b \notin contested => Fine(b))
  BY DEF IInv, AssetsFit
<1>4. CASE ~Exists(b)
  <2>1. UNCHANGED <<rec, job>>
    BY <1>2, <1>4 DEF Accept
  <2>2. contested' \subseteq Asset
    BY <1>0, <1>1 DEF TypeOK
  <2>3. QED
    BY <1>0, <1>1, <2>1, <2>2, LeaveKeeps, SameDisturbed
<1>5. CASE Exists(b)
  <2> DEFINE x == [rec[b] EXCEPT !.checked = TRUE]
  <2>1. rec' = [rec EXCEPT ![b] = x] /\ job' = [job EXCEPT ![b] = "queued"] /\ b \in Image
    BY <1>2, <1>5 DEF Accept
  <2>2. x \in Rec /\ x.checked /\ x.status = rec[b].status /\ x.copies = rec[b].copies
    BY <1>0, RecShape DEF Rec
  <2> HIDE DEF x
  <2>3. RecGoes(b, x)
    BY <1>0, <2>1, <2>2, RecStep DEF TypeOK
  <2>4. DeskGoes(d, b, None)
    BY <1>0, <1>1, <1>2, DeskStep
  <2>5. job'[b] = "queued" /\ job' \in [Asset -> {"none", "queued", "done"}] /\ \A a \in Asset \ {b} : job'[a] = job[a]
    BY <1>0, <2>1 DEF TypeOK
  <2>6. TypeOK' /\ DesksFit'
    BY <1>0, <1>1, <1>3, <2>3, <2>4, <2>5, DeskFits DEF TypeOK, DeskFit, DeskGoes, RecGoes
  <2>7. Elsewhere(b)
    BY <1>1, <2>3, <2>4, <2>5 DEF Elsewhere, DeskGoes, RecGoes
  <2>8. \A o \in Object : Held(b, o)' => Held(b, o)
    BY <1>1, <2>2, <2>3, <2>4, RunsRest DEF Held, DeskGoes, RecGoes
  <2>9. AssetFit(b)'
    BY <1>1, <1>3, <1>5, <2>2, <2>3, <2>4, <2>5, RunsRest DEF AssetFit, Has, DeskGoes, RecGoes, Exists
  <2>10. ASSUME b \notin contested' PROVE Fine(b)'
    <3>1. Fine(b) /\ Doing(d, b, "complete")
      BY <1>1, <1>2, <1>3, <2>10 DEF Doing, On
    <3>2. \A e \in Desk : ~Doing(e, b, "complete")'
      BY <2>4, <3>1 DEF DeskGoes, Fine, Alone
    <3>3. Alone(b)'
      BY <1>1, <2>2, <2>3, <3>1, <3>2, RunsRest DEF Fine, Alone, RecGoes
    <3>4. Visible(b)'
      BY <1>1, <2>2, <2>3, <2>4, <3>1 DEF Fine, Visible, Has, DeskGoes, RecGoes
    <3>5. Made(b)'
      BY <1>1, <2>2, <2>3, <2>4, <3>1, RunsRest DEF Fine, Made, Has, DeskGoes, RecGoes
    <3>6. Whole(b)'
      BY <1>1, <2>2, <2>3, <2>4, <3>1 DEF Fine, Whole, Has, DeskGoes, RecGoes
    <3>8. QED
      BY <3>3, <3>4, <3>5, <3>6 DEF Fine
  <2>11. QED
    BY <2>6, <2>7, <2>8, <2>9, <2>10, StepKeeps
<1>6. QED
  BY <1>4, <1>5

LEMMA CopyKeeps ==
  ASSUME IInv, NEW d \in Desk, NEW o \in Object, Copy(d, o)
  PROVE  IInv'
<1>0. TypeOK
  BY DEF IInv
<1>1. /\ desk[d] # None /\ desk[d].op = "complete" /\ desk[d].step = "checked" /\ desk[d].asset \in Document
      /\ o \in Fresh /\ public' = public \cup {o}
      /\ desk' = [desk EXCEPT ![d].step = "copied", ![d].copies = {o}]
      /\ UNCHANGED <<rec, original, job, run, shown, disturbed, contested, halfway>>
  BY DEF Copy, At
<1>2. PICK b \in Asset : b = desk[d].asset
  BY <1>0, <1>1, WorkShape
<1>3. DesksFit /\ AssetFit(b) /\ (b \notin contested => Fine(b)) /\ b \notin Image
  BY <1>1, <1>2, MediaAssumption DEF IInv, AssetsFit
<1> DEFINE x == [desk[d] EXCEPT !.step = "copied", !.copies = {o}]
<1>4. desk' = [desk EXCEPT ![d] = x]
  BY <1>1
<1>5. x \in Work /\ x # None /\ x.asset = b /\ x.op = "complete" /\ x.step = "copied" /\ x.copies = {o}
  <2>1. desk[d] \in Work
    BY <1>0, <1>1, WorkShape
  <2>2. x \in Work /\ x.asset = b /\ x.op = "complete" /\ x.step = "copied" /\ x.copies = {o}
    BY <1>1, <1>2, <2>1 DEF Work
  <2>3. QED
    BY <2>2, NotNone
<1> HIDE DEF x
<1>6. DeskGoes(d, b, x)
  BY <1>0, <1>1, <1>2, <1>4, <1>5, DeskStep
<1>7. TypeOK'
  BY <1>0, <1>1, <1>6 DEF TypeOK, DeskGoes
<1>8. DesksFit'
  BY <1>1, <1>2, <1>3, <1>5, <1>6, DeskFits DEF DeskFit, DeskGoes
<1>9. Elsewhere(b)
  BY <1>1, <1>6 DEF Elsewhere, DeskGoes
<1>10. \A p \in Object : Held(b, p)' => Held(b, p) \/ \A a \in Asset : ~Held(a, p)
  <2>1. \A a \in Asset : ~Held(a, o)
    BY <1>0, <1>1, FreshIsFree
  <2>2. \A p \in Object \ {o} : Held(b, p)' => Held(b, p)
    BY <1>1, <1>5, <1>6, RunsRest DEF Held, DeskGoes
  <2>3. QED
    BY <2>1, <2>2
<1>11. AssetFit(b)'
  BY <1>1, <1>3, <1>5, <1>6, RunsRest DEF AssetFit, Has, DeskGoes
<1>12. ASSUME b \notin contested' PROVE Fine(b)'
  <2>1. Fine(b) /\ Doing(d, b, "complete")
    BY <1>1, <1>2, <1>3, <1>12 DEF Doing, On
  <2>2. \A e \in Desk : Doing(e, b, "complete")' => e = d
    BY <1>6, <2>1 DEF DeskGoes, Fine, Alone
  <2>3. Alone(b)'
    BY <1>1, <1>3, <2>1, <2>2, RunsRest DEF Fine, Alone
  <2>4. Visible(b)' /\ Whole(b)'
    BY <1>1, <1>5, <1>6, <2>1 DEF Fine, Visible, Whole, Has, DeskGoes
  <2>5. Made(b)'
    BY <1>1, <1>5, <1>6, <2>1, RunsRest DEF Fine, Made, Has, DeskGoes
  <2>7. QED
    BY <2>3, <2>4, <2>5 DEF Fine
<1>13. QED
  BY <1>7, <1>8, <1>9, <1>10, <1>11, <1>12, StepKeeps

\* What is not ready is not shown, nor about to be.
LEMMA Unseen ==
  ASSUME NEW b \in Asset, Visible(b), ~Has(b, "ready")
  PROVE  b \notin shown /\ \A d \in Desk : ~Doing(d, b, "show")
  BY DEF Visible

LEMMA PublishDocumentKeeps ==
  ASSUME IInv, NEW d \in Desk, PublishDocument(d)
  PROVE  IInv'
<1>0. TypeOK
  BY DEF IInv
<1>1. /\ desk[d] # None /\ desk[d].op = "complete" /\ desk[d].step = "copied"
      /\ UNCHANGED <<original, job, run, shown, contested, halfway>>
  BY DEF PublishDocument, At
<1>2. PICK b \in Asset : b = desk[d].asset
  BY <1>0, <1>1, WorkShape
<1>3. DesksFit /\ AssetFit(b) /\ (b \notin contested => Fine(b))
  BY DEF IInv, AssetsFit
<1>4. b \notin Image /\ (\E o \in Object : desk[d].copies = {o}) /\ \A w \in Worker : ~RunOn(w, b)
  <2>1. b \in Document /\ \E o \in Object : desk[d].copies = {o}
    BY <1>1, <1>2, <1>3 DEF DesksFit, DeskFit
  <2>2. b \notin Image
    BY <2>1, MediaAssumption
  <2>3. QED
    BY <1>0, <2>1, <2>2, RunShape DEF RunOn
<1>5. ASSUME b \notin contested
      PROVE  /\ Fine(b) /\ rec[b].status \in {"quarantined", "gone"}
             /\ \A e \in Desk : Doing(e, b, "complete") => e = d
             /\ b \notin shown /\ \A e \in Desk : ~Doing(e, b, "show")
  <2>1. Fine(b) /\ Doing(d, b, "complete")
    BY <1>1, <1>2, <1>3, <1>5 DEF Doing, On
  <2>2. rec[b].status \in {"quarantined", "gone"} /\ \A e \in Desk : Doing(e, b, "complete") => e = d
    BY <1>1, <2>1 DEF Fine, Alone
  <2>3. QED
    BY <2>1, <2>2, Unseen DEF Fine, Has
<1>6. CASE /\ Exists(b) /\ Go(d, "published") /\ UNCHANGED <<public, disturbed>>
           /\ rec' = [rec EXCEPT ![b] = [status |-> "ready", checked |-> TRUE, copies |-> desk[d].copies]]
  <2> DEFINE x == [desk[d] EXCEPT !.step = "published"]
             r == [status |-> "ready", checked |-> TRUE, copies |-> desk[d].copies]
  <2>1. desk' = [desk EXCEPT ![d] = x] /\ rec' = [rec EXCEPT ![b] = r]
    BY <1>6 DEF Go
  <2>2. /\ x \in Work /\ x # None /\ x.asset = b /\ x.op = "complete" /\ x.step = "published"
        /\ x.copies = desk[d].copies
    <3>1. desk[d] \in Work
      BY <1>0, <1>1, WorkShape
    <3>2. x \in Work /\ x.asset = b /\ x.op = "complete" /\ x.step = "published" /\ x.copies = desk[d].copies
      BY <1>1, <1>2, <3>1 DEF Work
    <3>3. QED
      BY <3>2, NotNone
  <2>3. /\ r \in Rec /\ r.status = "ready" /\ r.checked /\ r.copies = desk[d].copies
        /\ Cardinality(r.copies) <= (IF b \in Image THEN Renditions ELSE 1)
    <3>1. Cardinality(desk[d].copies) = 1
      BY <1>4, FS_Singleton
    <3>2. QED
      BY <1>0, <1>1, <1>4, <3>1, WorkShape DEF Rec
  <2> HIDE DEF x, r
  <2>4. DeskGoes(d, b, x)
    BY <1>0, <1>1, <1>2, <2>1, <2>2, DeskStep
  <2>5. RecGoes(b, r)
    BY <1>0, <2>1, <2>3, RecStep
  <2>6. TypeOK'
    BY <1>0, <1>1, <1>6, <2>4, <2>5 DEF TypeOK, DeskGoes, RecGoes
  <2>7. DesksFit'
    <3>1. desk[d].asset \in Document
      BY <1>1, <1>3 DEF DesksFit, DeskFit
    <3>2. DeskFit(d)'
      BY <1>2, <2>2, <2>4, <3>1 DEF DeskFit, DeskGoes
    <3>3. QED
      BY <1>3, <2>4, <3>2, DeskFits DEF DeskGoes
  <2>8. Elsewhere(b)
    BY <1>1, <1>6, <2>4, <2>5 DEF Elsewhere, DeskGoes, RecGoes
  <2>9. \A o \in Object : Held(b, o)' => Held(b, o)
    BY <1>1, <2>2, <2>3, <2>4, <2>5, RunsRest DEF Held, DeskGoes, RecGoes
  <2>10. AssetFit(b)'
    BY <1>1, <1>3, <2>3, <2>5, RunsRest DEF AssetFit, Has, RecGoes
  <2>11. ASSUME b \notin contested' PROVE Fine(b)'
    <3>1. /\ Fine(b) /\ Has(b, "quarantined")
          /\ \A e \in Desk : Doing(e, b, "complete") => e = d
          /\ b \notin shown /\ \A e \in Desk : ~Doing(e, b, "show")
      BY <1>1, <1>5, <1>6, <2>11 DEF Exists, Has
    <3>2. Alone(b)'
      BY <1>1, <1>4, <2>2, <2>4, <3>1, RunsRest DEF Alone, DeskGoes
    <3>3. Visible(b)'
      BY <1>1, <2>2, <2>4, <3>1 DEF Visible, DeskGoes
    <3>4. Made(b)'
      BY <1>4, <2>3, <2>5 DEF Made, Has, RecGoes
    <3>5. desk[d].copies \subseteq public
      BY <1>1, <1>2, <3>1 DEF Fine, Made, On
    <3>6. Whole(b)'
      BY <1>4, <1>6, <2>3, <2>5, <3>5 DEF Whole, RecGoes
    <3>7. QED
      BY <3>2, <3>3, <3>4, <3>6 DEF Fine
  <2>12. QED
    BY <2>6, <2>7, <2>8, <2>9, <2>10, <2>11, StepKeeps
<1>7. CASE /\ IF Exists(b) THEN Disturb("database") ELSE UNCHANGED disturbed
           /\ public' = public \ desk[d].copies /\ Leave(d) /\ UNCHANGED rec
  <2>1. DeskGoes(d, b, None)
    BY <1>0, <1>1, <1>2, <1>7, DeskStep DEF Leave
  <2>2. disturbed' \in 0 .. MaxDisturbances
    BY <1>0, <1>7, DisturbStep, SameDisturbed
  <2>3. TypeOK'
    BY <1>0, <1>1, <1>7, <2>1, <2>2 DEF TypeOK, DeskGoes
  <2>4. DesksFit'
    BY <1>3, <2>1, DeskFits DEF DeskFit, DeskGoes
  <2>5. Elsewhere(b)
    BY <1>1, <1>2, <1>7, <2>1 DEF Elsewhere, DeskGoes, Held, On
  <2>6. \A o \in Object : Held(b, o)' => Held(b, o)
    BY <1>1, <1>7, <2>1, RunsRest DEF Held, DeskGoes
  <2>7. AssetFit(b)'
    BY <1>1, <1>3, <1>7, <2>1, RunsRest DEF AssetFit, Has, DeskGoes
  <2>8. ASSUME b \notin contested' PROVE Fine(b)'
    <3>1. /\ Fine(b) /\ ~Has(b, "ready")
          /\ \A e \in Desk : Doing(e, b, "complete") => e = d
      BY <1>1, <1>5, <2>8 DEF Has
    <3>2. Alone(b)'
      BY <1>1, <1>4, <1>7, <2>1, <3>1, RunsRest DEF Fine, Alone, DeskGoes
    <3>3. Visible(b)'
      BY <1>1, <1>7, <2>1, <3>1 DEF Fine, Visible, Has, DeskGoes
    <3>4. Made(b)'
      <4>1. ASSUME NEW e \in Desk, On(e, b)', desk'[e].step = "copied" PROVE FALSE
        <5>1. e # d /\ On(e, b) /\ desk[e].step = "copied"
          BY <2>1, <4>1 DEF DeskGoes
        <5>2. desk[e].op = "complete"
          BY <1>0, <1>3, <5>1, WorkShape DEF DesksFit, DeskFit, On
        <5>3. QED
          BY <3>1, <5>1, <5>2 DEF Doing
      <4>2. QED
        BY <1>1, <1>4, <4>1, RunsRest DEF Made
    <3>5. Whole(b)'
      BY <1>4, <1>7, <3>1 DEF Whole, Has
    <3>6. QED
      BY <3>2, <3>3, <3>4, <3>5 DEF Fine
  <2>9. QED
    BY <2>3, <2>4, <2>5, <2>6, <2>7, <2>8, StepKeeps
<1>8. QED
  BY <1>2, <1>6, <1>7 DEF PublishDocument

LEMMA DeclineKeeps ==
  ASSUME IInv, NEW d \in Desk, Decline(d)
  PROVE  IInv'
<1>0. TypeOK
  BY DEF IInv
<1>1. /\ desk[d] # None /\ desk[d].op = "complete" /\ desk[d].step = "checked"
      /\ UNCHANGED <<original, public, job, run, shown, disturbed, contested, halfway>>
  BY DEF Decline, At
<1>2. PICK b \in Asset : b = desk[d].asset
  BY <1>0, <1>1, WorkShape
<1>3. DesksFit /\ AssetFit(b) /\ (b \notin contested => Fine(b))
  BY DEF IInv, AssetsFit
<1>4. CASE ~Exists(b)
  <2>1. UNCHANGED rec /\ desk' = [desk EXCEPT ![d] = None]
    BY <1>2, <1>4 DEF Decline, Leave
  <2>2. contested' \subseteq Asset
    BY <1>0, <1>1 DEF TypeOK
  <2>3. QED
    BY <1>0, <1>1, <2>1, <2>2, LeaveKeeps, SameDisturbed
<1>5. CASE Exists(b)
  <2> DEFINE x == [desk[d] EXCEPT !.step = "declined"]
             r == [rec[b] EXCEPT !.status = "rejected"]
  <2>1. desk' = [desk EXCEPT ![d] = x] /\ rec' = [rec EXCEPT ![b] = r]
    BY <1>2, <1>5 DEF Decline, Go
  <2>2. /\ x \in Work /\ x # None /\ x.asset = b /\ x.op = "complete" /\ x.step = "declined"
        /\ x.copies = desk[d].copies
    <3>1. desk[d] \in Work
      BY <1>0, <1>1, WorkShape
    <3>2. x \in Work /\ x.asset = b /\ x.op = "complete" /\ x.step = "declined" /\ x.copies = desk[d].copies
      BY <1>1, <1>2, <3>1 DEF Work
    <3>3. QED
      BY <3>2, NotNone
  <2>3. r \in Rec /\ r.status = "rejected" /\ r.checked = rec[b].checked /\ r.copies = rec[b].copies
    BY <1>0, RecShape DEF Rec
  <2> HIDE DEF x, r
  <2>4. DeskGoes(d, b, x)
    BY <1>0, <1>1, <1>2, <2>1, <2>2, DeskStep
  <2>5. RecGoes(b, r)
    BY <1>0, <2>1, <2>3, RecStep DEF TypeOK
  <2>6. TypeOK' /\ DesksFit'
    BY <1>0, <1>1, <1>3, <2>2, <2>4, <2>5, DeskFits DEF TypeOK, DeskFit, DeskGoes, RecGoes
  <2>7. Elsewhere(b)
    BY <1>1, <2>4, <2>5 DEF Elsewhere, DeskGoes, RecGoes
  <2>8. \A o \in Object : Held(b, o)' => Held(b, o)
    BY <1>1, <2>2, <2>3, <2>4, <2>5, RunsRest DEF Held, DeskGoes, RecGoes
  <2>9. AssetFit(b)'
    BY <1>1, <1>3, <2>3, <2>5, RunsRest DEF AssetFit, Has, RecGoes
  <2>10. ASSUME b \notin contested' PROVE Fine(b)'
    <3>1. Fine(b) /\ Doing(d, b, "complete")
      BY <1>1, <1>2, <1>3, <2>10 DEF Doing, On
    <3>2. /\ rec[b].status \in {"quarantined", "gone"} /\ (b \in Image => ~rec[b].checked)
          /\ \A e \in Desk : Doing(e, b, "complete") => e = d
      BY <1>1, <3>1 DEF Fine, Alone
    <3>3. \A w \in Worker : ~RunOn(w, b)
      BY <1>0, <1>3, <3>2, RunShape DEF AssetFit, RunOn
    <3>4. b \notin shown /\ \A e \in Desk : ~Doing(e, b, "show")
      BY <3>1, <3>2, Unseen DEF Fine, Has
    <3>5. Alone(b)'
      BY <1>1, <2>2, <2>4, <3>2, <3>3, RunsRest DEF Alone, DeskGoes
    <3>6. Visible(b)'
      BY <1>1, <2>2, <2>4, <3>4 DEF Visible, DeskGoes
    <3>7. Made(b)' /\ Whole(b)'
      BY <2>3, <2>5 DEF Made, Whole, Has, RecGoes
    <3>8. QED
      BY <3>5, <3>6, <3>7 DEF Fine
  <2>11. QED
    BY <2>6, <2>7, <2>8, <2>9, <2>10, StepKeeps
<1>6. QED
  BY <1>4, <1>5

LEMMA DropOriginalKeeps ==
  ASSUME IInv, NEW d \in Desk, DropOriginal(d)
  PROVE  IInv'
<1>0. TypeOK
  BY DEF IInv
<1>1. /\ desk[d] # None /\ desk[d].op = "complete" /\ desk[d].step \in {"published", "declined"}
      /\ desk' = [desk EXCEPT ![d] = None]
      /\ UNCHANGED <<rec, public, job, run, shown, contested, halfway>>
  BY DEF DropOriginal, At, Leave
<1>2. PICK b \in Asset : b = desk[d].asset
  BY <1>0, <1>1, WorkShape
<1>3. DesksFit /\ AssetFit(b) /\ (b \notin contested => Fine(b))
  BY DEF IInv, AssetsFit
<1>4. disturbed' \in 0 .. MaxDisturbances
  BY <1>0, DisturbStep, SameDisturbed DEF DropOriginal
<1>5. contested' \subseteq Asset
  BY <1>0, <1>1 DEF TypeOK
<1>6. CASE UNCHANGED original
  BY <1>1, <1>4, <1>5, <1>6, LeaveKeeps
<1>7. CASE original' = original \ {b}
  <2>1. DeskGoes(d, b, None)
    BY <1>0, <1>1, <1>2, DeskStep
  <2>2. TypeOK' /\ DesksFit'
    BY <1>0, <1>1, <1>3, <1>4, <1>7, <2>1, DeskFits DEF TypeOK, DeskFit, DeskGoes
  <2>3. Elsewhere(b)
    BY <1>1, <1>7, <2>1 DEF Elsewhere, DeskGoes
  <2>4. \A o \in Object : Held(b, o)' => Held(b, o)
    BY <1>1, <2>1, RunsRest DEF Held, DeskGoes
  <2>5. AssetFit(b)'
    BY <1>1, <1>3, <2>1, RunsRest DEF AssetFit, Has, DeskGoes
  <2>6. ASSUME b \notin contested' PROVE Fine(b)'
    <3>1. Fine(b) /\ ~Has(b, "quarantined") /\ ~Doing(d, b, "remove")
      BY <1>1, <1>2, <1>3, <2>6 DEF AssetFit, Doing, On
    <3>2. Alone(b)'
      BY <1>1, <2>1, <3>1, RunsRest DEF Fine, Alone, DeskGoes
    <3>3. Visible(b)'
      BY <1>1, <2>1, <3>1 DEF Fine, Visible, Has, DeskGoes
    <3>4. Made(b)'
      BY <1>1, <3>1 DEF Made, Has
    <3>5. Whole(b)'
      BY <1>1, <2>1, <3>1 DEF Fine, Whole, Has, DeskGoes
    <3>6. QED
      BY <3>2, <3>3, <3>4, <3>5 DEF Fine
  <2>7. QED
    BY <2>2, <2>3, <2>4, <2>5, <2>6, StepKeeps
<1>8. QED
  BY <1>2, <1>6, <1>7 DEF DropOriginal

-----------------------------------------------------------------------------
\* The worker.

\* A job and a completion of one image exclude each other, and nothing shows it.
LEMMA JobAlone ==
  ASSUME TypeOK, NEW b \in Image, AssetFit(b), Fine(b), NEW w \in Worker, RunOn(w, b)
  PROVE  /\ rec[b].status \in {"quarantined", "gone"} /\ ~Has(b, "ready")
         /\ \A v \in Worker : RunOn(v, b) => v = w
         /\ \A d \in Desk : Doing(d, b, "complete") => desk[d].step \notin {"checked", "copied"}
         /\ b \notin shown /\ \A d \in Desk : ~Doing(d, b, "show")
<1>1. rec[b].checked
  BY DEF AssetFit
<1>2. /\ rec[b].status \in {"quarantined", "gone"}
      /\ \A v \in Worker : RunOn(v, b) => v = w
      /\ \A d \in Desk : Doing(d, b, "complete") => desk[d].step \notin {"checked", "copied"}
  BY <1>1 DEF Fine, Alone
<1>3. b \in Asset /\ ~Has(b, "ready")
  BY <1>2 DEF Has, Asset
<1>4. QED
  BY <1>2, <1>3, Unseen DEF Fine

LEMMA LoadKeeps ==
  ASSUME IInv, NEW w \in Worker, NEW b \in Image, Load(w, b)
  PROVE  IInv'
<1>0. TypeOK /\ b \in Asset
  BY DEF IInv, Asset
<1>1. /\ run[w] = None /\ job[b] \in {"queued", "done"}
      /\ Contest(b, Has(b, "quarantined") /\ RunsOn(b) # {})
      /\ UNCHANGED <<rec, original, public, desk, shown, halfway>>
  BY DEF Load
<1>2. DesksFit /\ AssetFit(b) /\ (b \notin contested => Fine(b))
  BY <1>0 DEF IInv, AssetsFit
<1>3. disturbed' \in 0 .. MaxDisturbances
  BY <1>0, DisturbStep, SameDisturbed DEF Load
<1>4. /\ contested' \subseteq Asset
      /\ \A a \in Asset : a \in contested => a \in contested'
      /\ b \notin contested' => ~(Has(b, "quarantined") /\ RunsOn(b) # {}) /\ b \notin contested
  BY <1>0, <1>1, ContestStep
<1>5. CASE Has(b, "quarantined")
  <2> DEFINE x == [step |-> "loaded", asset |-> b, made |-> {}, doomed |-> {}]
  <2>1. run' = [run EXCEPT ![w] = x] /\ UNCHANGED job
    BY <1>5 DEF Load
  <2>2. x \in Run /\ x # None /\ x.asset = b /\ x.step = "loaded" /\ x.made = {} /\ x.doomed = {}
    <3>1. x \in Run
      BY DEF Run
    <3>2. QED
      BY <3>1, NotNone
  <2> HIDE DEF x
  <2>3. RunGoes(w, b, x)
    BY <1>0, <1>1, <2>1, <2>2, RunStep
  <2>4. TypeOK' /\ DesksFit'
    BY <1>0, <1>1, <1>2, <1>3, <1>4, <2>1, <2>3, DesksRest DEF TypeOK, RunGoes
  <2>5. Elsewhere(b)
    BY <1>1, <1>4, <2>1, <2>3 DEF Elsewhere, RunGoes
  <2>6. \A o \in Object : Held(b, o)' => Held(b, o)
    BY <1>0, <1>1, <2>2, <2>3, DesksRest DEF Held, RunGoes
  <2>7. AssetFit(b)'
    BY <1>0, <1>1, <1>2, <1>5, <2>1, DesksRest DEF AssetFit, Has, Doing
  <2>8. ASSUME b \notin contested' PROVE Fine(b)'
    <3>1. Fine(b) /\ \A v \in Worker : ~RunOn(v, b)
      BY <1>2, <1>4, <1>5, <2>8 DEF RunsOn, RunOn
    <3>2. Alone(b)'
      BY <1>0, <1>1, <1>5, <2>3, <3>1, DesksRest DEF Fine, Alone, Has, RunGoes
    <3>3. Visible(b)' /\ Whole(b)'
      BY <1>0, <1>1, <3>1, DesksRest DEF Fine, Visible, Whole, Has
    <3>4. Made(b)'
      BY <1>0, <1>1, <2>2, <2>3, <3>1, DesksRest DEF Fine, Made, Has, RunGoes
    <3>5. QED
      BY <3>2, <3>3, <3>4 DEF Fine
  <2>9. QED
    BY <1>0, <2>4, <2>5, <2>6, <2>7, <2>8, StepKeeps
<1>6. CASE ~Has(b, "quarantined")
  <2>1. job' = [job EXCEPT ![b] = "done"] /\ UNCHANGED run
    BY <1>6 DEF Load
  <2>2. job'[b] = "done" /\ job' \in [Asset -> {"none", "queued", "done"}] /\ \A a \in Asset \ {b} : job'[a] = job[a]
    BY <1>0, <2>1 DEF TypeOK
  <2>3. TypeOK' /\ DesksFit'
    BY <1>0, <1>1, <1>2, <1>3, <1>4, <2>1, <2>2, DesksRest DEF TypeOK
  <2>4. Elsewhere(b)
    BY <1>1, <1>4, <2>1, <2>2 DEF Elsewhere
  <2>5. \A o \in Object : Held(b, o)' => Held(b, o)
    BY <1>0, <1>1, <2>1, RunsRest, DesksRest DEF Held
  <2>6. AssetFit(b)'
    BY <1>0, <1>1, <1>2, <1>6, <2>1, <2>2, RunsRest, DesksRest DEF AssetFit, Has
  <2>7. ASSUME b \notin contested' PROVE Fine(b)'
    <3>1. Fine(b)
      BY <1>2, <1>4, <2>7
    <3>2. Alone(b)' /\ Visible(b)' /\ Made(b)' /\ Whole(b)'
      BY <1>0, <1>1, <2>1, <3>1, RunsRest, DesksRest DEF Fine, Alone, Visible, Made, Whole, Has
    <3>3. QED
      BY <3>2 DEF Fine
  <2>8. QED
    BY <1>0, <2>3, <2>4, <2>5, <2>6, <2>7, StepKeeps
<1>7. QED
  BY <1>5, <1>6

\* A job moves on, or ends, and changes nothing else than the keys it notes.
LEMMA PaceKeeps ==
  ASSUME IInv, NEW w \in Worker, run[w] # None, NEW x \in Run \cup {None},
         run' = [run EXCEPT ![w] = x],
         x # None => /\ x.asset = run[w].asset
                     /\ x.made \subseteq run[w].made
                     /\ x.doomed \subseteq run[w].doomed \cup rec[run[w].asset].copies
                     /\ x.step \in {"loaded", "making"} => run[w].step \in {"loaded", "making"},
         UNCHANGED <<rec, original, public, job, desk, shown, contested, halfway>>,
         disturbed' \in 0 .. MaxDisturbances
  PROVE  IInv'
<1>0. TypeOK
  BY DEF IInv
<1>1. PICK b \in Image : b \in Asset /\ b = run[w].asset
  BY <1>0, RunShape
<1>2. DesksFit /\ AssetFit(b) /\ (b \notin contested => Fine(b))
  BY <1>1 DEF IInv, AssetsFit
<1>3. RunGoes(w, b, x) /\ RunOn(w, b)
  BY <1>0, <1>1, RunStep DEF RunOn
<1>4. \A v \in Worker : RunOn(v, b)' => RunOn(v, b)
  BY <1>3 DEF RunGoes
<1>5. TypeOK' /\ DesksFit'
  BY <1>0, <1>2, <1>3, DesksRest DEF TypeOK, RunGoes
<1>6. Elsewhere(b)
  BY <1>3 DEF Elsewhere, RunGoes
<1>7. \A o \in Object : Held(b, o)' => Held(b, o)
  BY <1>1, <1>3, <1>4, DesksRest DEF Held, RunGoes
<1>8. AssetFit(b)'
  BY <1>1, <1>2, <1>4, DesksRest DEF AssetFit, Has
<1>9. ASSUME b \notin contested' PROVE Fine(b)'
  <2>1. Fine(b)
    BY <1>2, <1>9
  <2>2. Alone(b)'
    BY <1>1, <1>4, <2>1, DesksRest DEF Fine, Alone
  <2>3. Visible(b)' /\ Whole(b)'
    BY <1>1, <2>1, DesksRest DEF Fine, Visible, Whole, Has
  <2>4. Made(b)'
    <3>1. ASSUME Has(b, "quarantined"), NEW v \in Worker, RunOn(v, b)', run'[v].step \in {"loaded", "making"}
          PROVE  run'[v].made \subseteq public
      <4>1. RunOn(v, b) /\ run[v].step \in {"loaded", "making"} /\ run'[v].made \subseteq run[v].made
        BY <1>1, <1>3, <1>4, <3>1 DEF RunGoes
      <4>2. QED
        BY <2>1, <3>1, <4>1 DEF Fine, Made
    <3>2. QED
      BY <1>1, <2>1, <3>1, DesksRest DEF Fine, Made, Has
  <2>5. QED
    BY <2>2, <2>3, <2>4 DEF Fine
<1>10. QED
  BY <1>1, <1>5, <1>6, <1>7, <1>8, <1>9, StepKeeps

\* The record of a job that only moves on to another step.
LEMMA Paced ==
  ASSUME TypeOK, NEW w \in Worker, run[w] # None, NEW x,
         NEW step \in {"loaded", "making", "failing", "deleting", "clearing", "marking"},
         x = [run[w] EXCEPT !.step = step]
  PROVE  /\ x \in Run /\ x # None
         /\ x.step = step /\ x.asset = run[w].asset /\ x.made = run[w].made /\ x.doomed = run[w].doomed
<1>1. run[w] \in Run
  BY RunShape
<1>2. x \in Run /\ x.step = step /\ x.asset = run[w].asset /\ x.made = run[w].made /\ x.doomed = run[w].doomed
  BY <1>1 DEF Run
<1>3. QED
  BY <1>2, NotNone

LEMMA ReadKeeps ==
  ASSUME IInv, NEW w \in Worker, Read(w)
  PROVE  IInv'
<1>0. TypeOK
  BY DEF IInv
<1> DEFINE s == IF run[w].asset \in original THEN "making" ELSE "failing"
           x == [run[w] EXCEPT !.step = s]
<1>1. /\ run[w] # None /\ run[w].step = "loaded" /\ run' = [run EXCEPT ![w] = x]
      /\ UNCHANGED <<rec, original, public, job, desk, shown, disturbed, contested, halfway>>
  BY DEF Read, Pace
<1>2. s \in {"making", "failing"}
  OBVIOUS
<1> HIDE DEF s
<1>3. x \in Run /\ x.asset = run[w].asset /\ x.made = run[w].made /\ x.doomed = run[w].doomed
  BY <1>0, <1>1, <1>2, Paced
<1> HIDE DEF x
<1>4. QED
  BY <1>0, <1>1, <1>3, PaceKeeps, SameDisturbed

LEMMA SpoilKeeps ==
  ASSUME IInv, NEW w \in Worker, Spoil(w)
  PROVE  IInv'
<1>0. TypeOK
  BY DEF IInv
<1> DEFINE x == [run[w] EXCEPT !.step = "failing"]
<1>1. /\ run[w] # None /\ run[w].step = "making" /\ run' = [run EXCEPT ![w] = x]
      /\ UNCHANGED <<rec, original, public, job, desk, shown, contested, halfway>>
  BY DEF Spoil, Pace
<1>2. disturbed' \in 0 .. MaxDisturbances
  BY <1>0, DisturbStep, SameDisturbed DEF Spoil
<1>3. x \in Run /\ x.asset = run[w].asset /\ x.made = run[w].made /\ x.doomed = run[w].doomed
  BY <1>0, <1>1, Paced
<1> HIDE DEF x
<1>4. QED
  BY <1>0, <1>1, <1>2, <1>3, PaceKeeps

LEMMA ReadCopiesKeeps ==
  ASSUME IInv, NEW w \in Worker, ReadCopies(w)
  PROVE  IInv'
<1>0. TypeOK
  BY DEF IInv
<1> DEFINE x == [run[w] EXCEPT !.step = "deleting", !.doomed = rec[run[w].asset].copies]
<1>1. /\ run[w] # None /\ run[w].step = "failing" /\ run' = [run EXCEPT ![w] = x]
      /\ UNCHANGED <<rec, original, public, job, desk, shown, disturbed, contested, halfway>>
  BY DEF ReadCopies
<1>2. /\ x \in Run /\ x.asset = run[w].asset /\ x.made = run[w].made /\ x.step = "deleting"
      /\ x.doomed = rec[run[w].asset].copies
  <2>1. run[w] \in Run /\ rec[run[w].asset].copies \in SUBSET Object
    BY <1>0, <1>1, RunShape, RecShape
  <2>2. QED
    BY <2>1 DEF Run
<1> HIDE DEF x
<1>3. QED
  BY <1>0, <1>1, <1>2, PaceKeeps, SameDisturbed

LEMMA DieKeeps ==
  ASSUME IInv, NEW w \in Worker, Die(w)
  PROVE  IInv'
<1>0. TypeOK
  BY DEF IInv
<1>1. /\ run[w] # None /\ Disturb("crash") /\ run' = [run EXCEPT ![w] = None]
      /\ UNCHANGED <<rec, original, public, job, desk, shown, contested, halfway>>
  BY DEF Die, Finish
<1>2. QED
  BY <1>0, <1>1, PaceKeeps, DisturbStep

LEMMA PutKeeps ==
  ASSUME IInv, NEW w \in Worker, NEW o \in Object, Put(w, o)
  PROVE  IInv'
<1>0. TypeOK
  BY DEF IInv
<1> DEFINE x == [run[w] EXCEPT !.made = run[w].made \cup {o}]
<1>1. /\ run[w] # None /\ run[w].step = "making" /\ o \in Fresh /\ public' = public \cup {o}
      /\ run' = [run EXCEPT ![w] = x]
      /\ UNCHANGED <<rec, original, job, desk, shown, disturbed, contested, halfway>>
  BY DEF Put
<1>2. PICK b \in Image : b \in Asset /\ b = run[w].asset
  BY <1>0, <1>1, RunShape
<1>3. DesksFit /\ AssetFit(b) /\ (b \notin contested => Fine(b))
  BY <1>2 DEF IInv, AssetsFit
<1>4. /\ x \in Run /\ x # None /\ x.asset = b /\ x.step = "making" /\ x.made = run[w].made \cup {o}
      /\ x.doomed = run[w].doomed
  <2>1. run[w] \in Run
    BY <1>0, <1>1, RunShape
  <2>2. /\ x \in Run /\ x.asset = b /\ x.step = "making" /\ x.made = run[w].made \cup {o}
        /\ x.doomed = run[w].doomed
    BY <1>1, <1>2, <2>1 DEF Run
  <2>3. QED
    BY <2>2, NotNone
<1> HIDE DEF x
<1>5. RunGoes(w, b, x) /\ RunOn(w, b)
  <2>1. RunGoes(w, b, x)
    BY <1>0, <1>1, <1>2, <1>4, RunStep
  <2>2. RunOn(w, b)
    BY <1>1, <1>2 DEF RunOn
  <2>3. QED
    BY <2>1, <2>2
<1>6. \A v \in Worker : RunOn(v, b)' <=> RunOn(v, b)
  BY <1>4, <1>5 DEF RunGoes
<1>7. TypeOK' /\ DesksFit'
  BY <1>0, <1>1, <1>3, <1>5, DesksRest DEF TypeOK, RunGoes
<1>8. Elsewhere(b)
  BY <1>1, <1>5 DEF Elsewhere, RunGoes
<1>9. \A p \in Object : Held(b, p)' => Held(b, p) \/ \A a \in Asset : ~Held(a, p)
  <2>1. \A a \in Asset : ~Held(a, o)
    BY <1>0, <1>1, FreshIsFree
  <2>2. \A p \in Object \ {o} : Held(b, p)' => Held(b, p)
    BY <1>1, <1>2, <1>4, <1>5, <1>6, DesksRest DEF Held, RunGoes
  <2>3. QED
    BY <2>1, <2>2
<1>10. AssetFit(b)'
  BY <1>1, <1>2, <1>3, <1>6, DesksRest DEF AssetFit, Has
<1>11. ASSUME b \notin contested' PROVE Fine(b)'
  <2>1. Fine(b)
    BY <1>1, <1>3, <1>11
  <2>2. Alone(b)' /\ Visible(b)' /\ Whole(b)'
    BY <1>1, <1>2, <1>6, <2>1, DesksRest DEF Fine, Alone, Visible, Whole, Has
  <2>3. Made(b)'
    BY <1>1, <1>2, <1>4, <1>5, <1>6, <2>1, DesksRest DEF Fine, Made, Has, RunGoes
  <2>4. QED
    BY <2>2, <2>3 DEF Fine
<1>12. QED
  BY <1>2, <1>7, <1>8, <1>9, <1>10, <1>11, StepKeeps

LEMMA PublishKeeps ==
  ASSUME IInv, NEW w \in Worker, Publish(w)
  PROVE  IInv'
<1>0. TypeOK
  BY DEF IInv
<1>1. /\ run[w] # None /\ run[w].step = "making" /\ Cardinality(run[w].made) = Renditions
      /\ run' = [run EXCEPT ![w] = None]
      /\ UNCHANGED <<original, public, desk, shown, disturbed, contested, halfway>>
  BY DEF Publish, Finish
<1>2. PICK b \in Image : b \in Asset /\ b = run[w].asset
  BY <1>0, <1>1, RunShape
<1>3. DesksFit /\ AssetFit(b) /\ (b \notin contested => Fine(b)) /\ RunOn(w, b)
  BY <1>1, <1>2 DEF IInv, AssetsFit, RunOn
<1> DEFINE r == [rec[b] EXCEPT !.status = "ready", !.copies = run[w].made]
<1>4. Exists(b) /\ rec' = [rec EXCEPT ![b] = r] /\ job' = [job EXCEPT ![b] = "done"]
  BY <1>2 DEF Publish
<1>5. /\ r \in Rec /\ r.status = "ready" /\ r.checked = rec[b].checked /\ r.copies = run[w].made
      /\ Cardinality(r.copies) <= (IF b \in Image THEN Renditions ELSE 1)
  <2>1. r \in Rec /\ r.status = "ready" /\ r.checked = rec[b].checked /\ r.copies = run[w].made
    BY <1>0, <1>1, <1>2, RecShape, RunShape DEF Rec
  <2>2. QED
    BY <1>1, <1>2, <2>1, MediaAssumption
<1> HIDE DEF r
<1>6. RecGoes(b, r)
  BY <1>0, <1>2, <1>4, <1>5, RecStep
<1>7. RunGoes(w, b, None)
  BY <1>0, <1>1, <1>2, RunStep
<1>8. job'[b] = "done" /\ job' \in [Asset -> {"none", "queued", "done"}] /\ \A a \in Asset \ {b} : job'[a] = job[a]
  BY <1>0, <1>2, <1>4 DEF TypeOK
<1>9. TypeOK' /\ DesksFit'
  BY <1>0, <1>1, <1>3, <1>6, <1>7, <1>8, DesksRest DEF TypeOK, RunGoes, RecGoes
<1>10. Elsewhere(b)
  BY <1>1, <1>6, <1>7, <1>8 DEF Elsewhere, RunGoes, RecGoes
<1>11. \A o \in Object : Held(b, o)' => Held(b, o)
  BY <1>1, <1>2, <1>3, <1>5, <1>6, <1>7, DesksRest DEF Held, RunGoes, RecGoes
<1>12. AssetFit(b)'
  BY <1>2, <1>3, <1>5, <1>6, <1>8 DEF AssetFit, Has, RecGoes
<1>13. ASSUME b \notin contested' PROVE Fine(b)'
  <2>1. Fine(b)
    BY <1>1, <1>3, <1>13
  <2>2. /\ Has(b, "quarantined")
        /\ \A v \in Worker : RunOn(v, b) => v = w
        /\ \A d \in Desk : Doing(d, b, "complete") => desk[d].step \notin {"checked", "copied"}
        /\ b \notin shown /\ \A d \in Desk : ~Doing(d, b, "show")
    BY <1>0, <1>3, <1>4, <2>1, JobAlone DEF Exists, Has
  <2>3. \A v \in Worker : ~RunOn(v, b)'
    BY <1>7, <2>2 DEF RunGoes
  <2>4. Alone(b)'
    BY <1>1, <1>2, <2>1, <2>2, <2>3, DesksRest DEF Fine, Alone
  <2>5. Visible(b)'
    BY <1>1, <1>2, <2>2, DesksRest DEF Visible
  <2>6. Made(b)'
    BY <1>5, <1>6 DEF Made, Has, RecGoes
  <2>7. Whole(b)'
    <3>1. run[w].made \subseteq public
      BY <1>1, <1>3, <2>1, <2>2 DEF Fine, Made
    <3>2. run[w].made # {}
      BY <1>1, FS_EmptySet, MediaAssumption
    <3>3. QED
      BY <1>1, <1>5, <1>6, <3>1, <3>2 DEF Whole, RecGoes
  <2>8. QED
    BY <2>4, <2>5, <2>6, <2>7 DEF Fine
<1>14. QED
  BY <1>2, <1>9, <1>10, <1>11, <1>12, <1>13, StepKeeps

LEMMA DeleteCopiesKeeps ==
  ASSUME IInv, NEW w \in Worker, DeleteCopies(w)
  PROVE  IInv'
<1>0. TypeOK
  BY DEF IInv
<1> DEFINE x == [run[w] EXCEPT !.step = "clearing", !.doomed = {}]
<1>1. /\ run[w] # None /\ run[w].step = "deleting" /\ run' = [run EXCEPT ![w] = x]
      /\ UNCHANGED <<rec, original, job, desk, shown, contested, halfway>>
  BY DEF DeleteCopies
<1>2. PICK b \in Image : b \in Asset /\ b = run[w].asset
  BY <1>0, <1>1, RunShape
<1>3. DesksFit /\ AssetFit(b) /\ (b \notin contested => Fine(b)) /\ RunOn(w, b)
  BY <1>1, <1>2 DEF IInv, AssetsFit, RunOn
<1>4. /\ x \in Run /\ x # None /\ x.asset = b /\ x.step = "clearing" /\ x.made = run[w].made /\ x.doomed = {}
  <2>1. run[w] \in Run
    BY <1>0, <1>1, RunShape
  <2>2. x \in Run /\ x.asset = b /\ x.step = "clearing" /\ x.made = run[w].made /\ x.doomed = {}
    BY <1>1, <1>2, <2>1 DEF Run
  <2>3. QED
    BY <2>2, NotNone
<1> HIDE DEF x
<1>5. /\ disturbed' \in 0 .. MaxDisturbances
      /\ public' \subseteq public /\ public \ public' \subseteq run[w].doomed
  BY <1>0, DisturbStep, SameDisturbed DEF DeleteCopies, Deleted
<1>6. CASE UNCHANGED public
  BY <1>0, <1>1, <1>2, <1>4, <1>5, <1>6, PaceKeeps
<1>7. CASE ~(UNCHANGED public)
  <2>1. RunGoes(w, b, x)
    BY <1>0, <1>1, <1>2, <1>4, RunStep
  <2>2. \A v \in Worker : RunOn(v, b)' <=> RunOn(v, b)
    BY <1>3, <1>4, <2>1 DEF RunGoes
  <2>3. TypeOK' /\ DesksFit'
    BY <1>0, <1>1, <1>3, <1>5, <2>1, DesksRest DEF TypeOK, RunGoes
  <2>4. Elsewhere(b)
    BY <1>1, <1>3, <1>5, <2>1 DEF Elsewhere, RunGoes, Held
  <2>5. \A o \in Object : Held(b, o)' => Held(b, o)
    BY <1>1, <1>2, <1>4, <2>1, <2>2, DesksRest DEF Held, RunGoes
  <2>6. AssetFit(b)'
    BY <1>1, <1>2, <1>3, <2>2, DesksRest DEF AssetFit, Has
  <2>7. ASSUME b \notin contested' PROVE Fine(b)'
    <3>1. Fine(b)
      BY <1>1, <1>3, <2>7
    <3>2. ~Has(b, "ready") /\ \A v \in Worker : RunOn(v, b) => v = w
      BY <1>0, <1>3, <3>1, JobAlone
    <3>3. Alone(b)' /\ Visible(b)'
      BY <1>1, <1>2, <2>2, <3>1, DesksRest DEF Fine, Alone, Visible, Has
    <3>4. Whole(b)'
      BY <1>1, <3>2 DEF Whole, Has
    <3>5. Made(b)'
      <4>1. \A v \in Worker : RunOn(v, b)' => run'[v].step = "clearing"
        BY <1>4, <2>1, <2>2, <3>2 DEF RunGoes
      <4>2. ASSUME NEW d \in Desk, On(d, b), desk[d].step = "copied" PROVE FALSE
        BY <1>2, <1>3, <4>2, MediaAssumption DEF DesksFit, DeskFit, On
      <4>3. QED
        BY <1>1, <1>2, <4>1, <4>2, DesksRest DEF Made
    <3>6. QED
      BY <3>3, <3>4, <3>5 DEF Fine
  <2>8. QED
    BY <1>2, <2>3, <2>4, <2>5, <2>6, <2>7, StepKeeps
<1>8. QED
  BY <1>6, <1>7

LEMMA ClearKeeps ==
  ASSUME IInv, NEW w \in Worker, Clear(w)
  PROVE  IInv'
<1>0. TypeOK
  BY DEF IInv
<1> DEFINE x == [run[w] EXCEPT !.step = "marking"]
<1>1. /\ run[w] # None /\ run[w].step = "clearing" /\ run' = [run EXCEPT ![w] = x]
      /\ UNCHANGED <<original, public, job, desk, shown, disturbed, contested, halfway>>
  BY DEF Clear, Pace
<1>2. PICK b \in Image : b \in Asset /\ b = run[w].asset
  BY <1>0, <1>1, RunShape
<1>3. DesksFit /\ AssetFit(b) /\ (b \notin contested => Fine(b)) /\ RunOn(w, b)
  BY <1>1, <1>2 DEF IInv, AssetsFit, RunOn
<1>4. /\ x \in Run /\ x # None /\ x.asset = b /\ x.step = "marking"
      /\ x.made = run[w].made /\ x.doomed = run[w].doomed
  BY <1>0, <1>1, <1>2, Paced
<1> HIDE DEF x
<1> DEFINE r == [rec[b] EXCEPT !.copies = {}]
<1>5. rec' = [rec EXCEPT ![b] = r]
  BY <1>2 DEF Clear
<1>6. /\ r \in Rec /\ r.status = rec[b].status /\ r.checked = rec[b].checked /\ r.copies = {}
      /\ Cardinality(r.copies) <= (IF b \in Image THEN Renditions ELSE 1)
  <2>1. r \in Rec /\ r.status = rec[b].status /\ r.checked = rec[b].checked /\ r.copies = {}
    BY <1>0, <1>2, RecShape DEF Rec
  <2>2. QED
    BY <1>2, <2>1, FS_EmptySet, MediaAssumption
<1> HIDE DEF r
<1>7. RecGoes(b, r)
  BY <1>0, <1>2, <1>5, <1>6, RecStep
<1>8. RunGoes(w, b, x)
  BY <1>0, <1>1, <1>2, <1>4, RunStep
<1>9. \A v \in Worker : RunOn(v, b)' <=> RunOn(v, b)
  BY <1>3, <1>4, <1>8 DEF RunGoes
<1>10. TypeOK' /\ DesksFit'
  BY <1>0, <1>1, <1>3, <1>7, <1>8, DesksRest DEF TypeOK, RunGoes, RecGoes
<1>11. Elsewhere(b)
  BY <1>1, <1>7, <1>8 DEF Elsewhere, RunGoes, RecGoes
<1>12. \A o \in Object : Held(b, o)' => Held(b, o)
  BY <1>1, <1>2, <1>4, <1>6, <1>7, <1>8, <1>9, DesksRest DEF Held, RunGoes, RecGoes
<1>13. AssetFit(b)'
  BY <1>1, <1>2, <1>3, <1>6, <1>7, <1>9, DesksRest DEF AssetFit, Has, RecGoes
<1>14. ASSUME b \notin contested' PROVE Fine(b)'
  <2>1. Fine(b)
    BY <1>1, <1>3, <1>14
  <2>2. ~Has(b, "ready") /\ \A v \in Worker : RunOn(v, b) => v = w
    BY <1>0, <1>3, <2>1, JobAlone
  <2>3. Alone(b)' /\ Visible(b)' /\ Whole(b)'
    BY <1>1, <1>2, <1>6, <1>7, <1>9, <2>1, <2>2, DesksRest
       DEF Fine, Alone, Visible, Whole, Has, RecGoes
  <2>4. Made(b)'
    BY <1>1, <1>2, <1>4, <1>6, <1>7, <1>8, <1>9, <2>1, <2>2, DesksRest
       DEF Fine, Made, Has, RecGoes, RunGoes
  <2>5. QED
    BY <2>3, <2>4 DEF Fine
<1>15. QED
  BY <1>2, <1>10, <1>11, <1>12, <1>13, <1>14, StepKeeps

LEMMA MarkKeeps ==
  ASSUME IInv, NEW w \in Worker, Mark(w)
  PROVE  IInv'
<1>0. TypeOK
  BY DEF IInv
<1>1. /\ run[w] # None /\ run[w].step = "marking" /\ run' = [run EXCEPT ![w] = None]
      /\ UNCHANGED <<original, public, desk, shown, disturbed, contested, halfway>>
  BY DEF Mark, Finish
<1>2. PICK b \in Image : b \in Asset /\ b = run[w].asset
  BY <1>0, <1>1, RunShape
<1>3. DesksFit /\ AssetFit(b) /\ (b \notin contested => Fine(b)) /\ RunOn(w, b)
  BY <1>1, <1>2 DEF IInv, AssetsFit, RunOn
<1>4. CASE ~Exists(b)
  <2>1. UNCHANGED <<rec, job>>
    BY <1>2, <1>4 DEF Mark
  <2>2. QED
    BY <1>0, <1>1, <2>1, PaceKeeps, SameDisturbed
<1>5. CASE Exists(b)
  <2> DEFINE r == [rec[b] EXCEPT !.status = "rejected"]
  <2>1. rec' = [rec EXCEPT ![b] = r] /\ job' = [job EXCEPT ![b] = "done"]
    BY <1>2, <1>5 DEF Mark
  <2>2. r \in Rec /\ r.status = "rejected" /\ r.checked = rec[b].checked /\ r.copies = rec[b].copies
    BY <1>0, <1>2, RecShape DEF Rec
  <2> HIDE DEF r
  <2>3. RecGoes(b, r)
    BY <1>0, <1>2, <2>1, <2>2, RecStep DEF TypeOK
  <2>4. RunGoes(w, b, None)
    BY <1>0, <1>1, <1>2, RunStep
  <2>5. job'[b] = "done" /\ job' \in [Asset -> {"none", "queued", "done"}] /\ \A a \in Asset \ {b} : job'[a] = job[a]
    BY <1>0, <1>2, <2>1 DEF TypeOK
  <2>6. TypeOK' /\ DesksFit'
    BY <1>0, <1>1, <1>3, <2>3, <2>4, <2>5, DesksRest DEF TypeOK, RunGoes, RecGoes
  <2>7. Elsewhere(b)
    BY <1>1, <2>3, <2>4, <2>5 DEF Elsewhere, RunGoes, RecGoes
  <2>8. \A o \in Object : Held(b, o)' => Held(b, o)
    BY <1>1, <1>2, <2>2, <2>3, <2>4, DesksRest DEF Held, RunGoes, RecGoes
  <2>9. AssetFit(b)'
    BY <1>2, <1>3, <2>2, <2>3, <2>5 DEF AssetFit, Has, RecGoes
  <2>10. ASSUME b \notin contested' PROVE Fine(b)'
    <3>1. Fine(b)
      BY <1>1, <1>3, <2>10
    <3>2. /\ \A v \in Worker : RunOn(v, b) => v = w
          /\ \A d \in Desk : Doing(d, b, "complete") => desk[d].step \notin {"checked", "copied"}
          /\ b \notin shown /\ \A d \in Desk : ~Doing(d, b, "show")
      BY <1>0, <1>3, <3>1, JobAlone
    <3>3. \A v \in Worker : ~RunOn(v, b)'
      BY <2>4, <3>2 DEF RunGoes
    <3>4. Alone(b)'
      BY <1>1, <1>2, <3>1, <3>2, <3>3, DesksRest DEF Fine, Alone
    <3>5. Visible(b)'
      BY <1>1, <1>2, <3>2, DesksRest DEF Visible
    <3>6. Made(b)' /\ Whole(b)'
      BY <2>2, <2>3 DEF Made, Whole, Has, RecGoes
    <3>7. QED
      BY <3>4, <3>5, <3>6 DEF Fine
  <2>11. QED
    BY <1>2, <2>6, <2>7, <2>8, <2>9, <2>10, StepKeeps
<1>6. QED
  BY <1>4, <1>5

-----------------------------------------------------------------------------
\* Pages, and removal.

LEMMA BeginShowKeeps ==
  ASSUME IInv, NEW d \in Desk, NEW b \in Asset, BeginShow(d, b)
  PROVE  IInv'
<1> DEFINE x == [op |-> "show", step |-> "checked", asset |-> b, copies |-> {}]
<1>1. /\ desk[d] = None /\ Has(b, "ready") /\ desk' = [desk EXCEPT ![d] = x]
      /\ Contest(b, Busy(b, "remove"))
      /\ UNCHANGED <<rec, original, public, job, run, shown, disturbed, halfway>>
  BY DEF BeginShow, Take
<1>2. TypeOK /\ DesksFit /\ AssetFit(b) /\ (b \notin contested => Fine(b))
  BY DEF IInv, AssetsFit
<1>3. x \in Work /\ x # None /\ x.asset = b /\ x.op = "show" /\ x.step = "checked" /\ x.copies = {}
  <2>1. x \in Work
    BY DEF Work
  <2>2. QED
    BY <2>1, NotNone
<1> HIDE DEF x
<1>4. DeskGoes(d, b, x)
  BY <1>1, <1>2, <1>3, DeskStep
<1>5. /\ contested' \subseteq Asset
      /\ \A a \in Asset : a \in contested => a \in contested'
      /\ b \notin contested' => ~Busy(b, "remove") /\ b \notin contested
  BY <1>1, <1>2, ContestStep
<1>6. TypeOK'
  BY <1>1, <1>2, <1>4, <1>5 DEF TypeOK, DeskGoes
<1>7. DesksFit'
  BY <1>2, <1>3, <1>4, DeskFits DEF DeskFit, DeskGoes
<1>8. Elsewhere(b)
  BY <1>1, <1>4, <1>5 DEF Elsewhere, DeskGoes
<1>9. \A o \in Object : Held(b, o)' => Held(b, o)
  BY <1>1, <1>3, <1>4, RunsRest DEF Held, DeskGoes
<1>10. AssetFit(b)'
  BY <1>1, <1>2, <1>3, <1>4, RunsRest DEF AssetFit, Has, DeskGoes
<1>11. ASSUME b \notin contested' PROVE Fine(b)'
  <2>1. Fine(b) /\ \A e \in Desk : ~Doing(e, b, "remove")
    BY <1>2, <1>5, <1>11 DEF Busy, Doing, On
  <2>2. Alone(b)'
    BY <1>1, <1>3, <1>4, <2>1, RunsRest DEF Fine, Alone, Has, DeskGoes
  <2>3. Visible(b)'
    BY <1>1, <1>3, <1>4, <2>1 DEF Visible, Has, DeskGoes
  <2>4. Made(b)'
    BY <1>1 DEF Made, Has
  <2>5. Whole(b)'
    BY <1>1, <1>3, <1>4, <2>1 DEF Fine, Whole, Has, DeskGoes
  <2>6. QED
    BY <2>2, <2>3, <2>4, <2>5 DEF Fine
<1>12. QED
  BY <1>6, <1>7, <1>8, <1>9, <1>10, <1>11, StepKeeps

LEMMA ShowKeeps ==
  ASSUME IInv, NEW d \in Desk, Show(d)
  PROVE  IInv'
<1>0. TypeOK
  BY DEF IInv
<1>1. /\ desk[d] # None /\ desk[d].op = "show" /\ desk[d].step = "checked"
      /\ desk' = [desk EXCEPT ![d] = None]
      /\ UNCHANGED <<rec, original, public, job, run, disturbed, contested, halfway>>
  BY DEF Show, At, Leave
<1>2. PICK b \in Asset : b = desk[d].asset
  BY <1>0, <1>1, WorkShape
<1>3. DesksFit /\ AssetFit(b) /\ (b \notin contested => Fine(b))
  BY DEF IInv, AssetsFit
<1>4. CASE UNCHANGED shown
  <2>1. contested' \subseteq Asset
    BY <1>0, <1>1 DEF TypeOK
  <2>2. QED
    BY <1>0, <1>1, <1>4, <2>1, LeaveKeeps, SameDisturbed
<1>5. CASE shown' = shown \cup {b}
  <2>1. DeskGoes(d, b, None)
    BY <1>0, <1>1, <1>2, DeskStep
  <2>2. TypeOK' /\ DesksFit'
    BY <1>0, <1>1, <1>3, <1>5, <2>1, DeskFits DEF TypeOK, DeskFit, DeskGoes
  <2>3. Elsewhere(b)
    BY <1>1, <1>5, <2>1 DEF Elsewhere, DeskGoes
  <2>4. \A o \in Object : Held(b, o)' => Held(b, o)
    BY <1>1, <2>1, RunsRest DEF Held, DeskGoes
  <2>5. AssetFit(b)'
    BY <1>1, <1>3, <2>1, RunsRest DEF AssetFit, Has, DeskGoes
  <2>6. ASSUME b \notin contested' PROVE Fine(b)'
    <3>1. Fine(b) /\ Doing(d, b, "show") /\ ~Doing(d, b, "remove")
      BY <1>1, <1>2, <1>3, <2>6 DEF Doing, On
    <3>2. Has(b, "ready") /\ \A e \in Desk : ~Doing(e, b, "remove")
      BY <3>1 DEF Fine, Visible
    <3>3. Alone(b)'
      BY <1>1, <2>1, <3>1, RunsRest DEF Fine, Alone, DeskGoes
    <3>4. Visible(b)'
      BY <1>1, <2>1, <3>2 DEF Visible, Has, DeskGoes
    <3>5. Made(b)'
      BY <1>1, <3>2 DEF Made, Has
    <3>6. Whole(b)'
      BY <1>1, <2>1, <3>1, <3>2 DEF Fine, Whole, Has, DeskGoes
    <3>7. QED
      BY <3>3, <3>4, <3>5, <3>6 DEF Fine
  <2>7. QED
    BY <2>2, <2>3, <2>4, <2>5, <2>6, StepKeeps
<1>6. QED
  BY <1>2, <1>4, <1>5 DEF Show

LEMMA BeginRemoveKeeps ==
  ASSUME IInv, NEW d \in Desk, NEW b \in Asset, BeginRemove(d, b)
  PROVE  IInv'
<1>1. PICK c \in {rec[b].copies, {}} :
        /\ desk' = [desk EXCEPT ![d] = [op |-> "remove", step |-> "checked", asset |-> b, copies |-> c]]
        /\ Removable(b) \/ Abandoned(b)
  BY DEF BeginRemove, Take
<1> DEFINE x == [op |-> "remove", step |-> "checked", asset |-> b, copies |-> c]
<1>2. /\ desk[d] = None /\ desk' = [desk EXCEPT ![d] = x] /\ Contest(b, Busy(b, "show"))
      /\ UNCHANGED <<rec, original, public, job, run, shown, disturbed, halfway>>
  BY <1>1 DEF BeginRemove
<1>3. TypeOK /\ DesksFit /\ AssetFit(b) /\ (b \notin contested => Fine(b))
  BY DEF IInv, AssetsFit
<1>4. x \in Work /\ x # None /\ x.asset = b /\ x.op = "remove" /\ x.step = "checked" /\ x.copies = c
  <2>1. c \in SUBSET Object
    BY <1>3, RecShape
  <2>2. x \in Work
    BY <2>1 DEF Work
  <2>3. QED
    BY <2>2, NotNone
<1> HIDE DEF x
<1>5. DeskGoes(d, b, x)
  BY <1>2, <1>3, <1>4, DeskStep
<1>6. /\ contested' \subseteq Asset
      /\ \A a \in Asset : a \in contested => a \in contested'
      /\ b \notin contested' => ~Busy(b, "show") /\ b \notin contested
  BY <1>2, <1>3, ContestStep
<1>7. TypeOK'
  BY <1>2, <1>3, <1>5, <1>6 DEF TypeOK, DeskGoes
<1>8. DesksFit'
  BY <1>3, <1>4, <1>5, DeskFits DEF DeskFit, DeskGoes
<1>9. Elsewhere(b)
  BY <1>2, <1>5, <1>6 DEF Elsewhere, DeskGoes
<1>10. \A o \in Object : Held(b, o)' => Held(b, o)
  BY <1>2, <1>4, <1>5, RunsRest DEF Held, DeskGoes
<1>11. AssetFit(b)'
  <2>1. ~Has(b, "absent")
    BY <1>1 DEF Removable, Abandoned, Exists, Has
  <2>2. Has(b, "quarantined") => c = {}
    BY <1>3 DEF AssetFit
  <2>3. QED
    BY <1>2, <1>3, <1>4, <1>5, <2>1, <2>2, RunsRest DEF AssetFit, Has, DeskGoes
<1>12. ASSUME b \notin contested' PROVE Fine(b)'
  <2>1. Fine(b) /\ \A e \in Desk : ~Doing(e, b, "show")
    BY <1>3, <1>6, <1>12 DEF Busy, Doing, On
  <2>2. b \notin shown
    <3>1. CASE Removable(b)
      BY <3>1 DEF Removable
    <3>2. CASE Abandoned(b)
      BY <2>1, <3>2 DEF Fine, Visible, Abandoned, Has
    <3>3. QED
      BY <1>1, <3>1, <3>2
  <2>3. ~On(d, b)
    BY <1>2 DEF On
  <2>4. Alone(b)'
    BY <1>2, <1>4, <1>5, <2>1, RunsRest DEF Fine, Alone, DeskGoes
  <2>5. Visible(b)'
    BY <1>2, <1>4, <1>5, <2>1, <2>2 DEF Visible, DeskGoes
  <2>6. Made(b)'
    BY <1>2, <1>4, <1>5, <2>1, RunsRest DEF Fine, Made, Has, DeskGoes
  <2>7. Whole(b)'
    BY <1>2, <1>4, <1>5, <2>1, <2>3 DEF Fine, Whole, Has, DeskGoes, Doing
  <2>9. QED
    BY <2>4, <2>5, <2>6, <2>7 DEF Fine
<1>13. QED
  BY <1>7, <1>8, <1>9, <1>10, <1>11, <1>12, StepKeeps

LEMMA DeleteObjectsKeeps ==
  ASSUME IInv, NEW d \in Desk, DeleteObjects(d)
  PROVE  IInv'
<1>0. TypeOK
  BY DEF IInv
<1> DEFINE x == [desk[d] EXCEPT !.step = "deleting", !.copies = {}]
<1>1. /\ desk[d] # None /\ desk[d].op = "remove" /\ desk[d].step = "checked"
      /\ desk' = [desk EXCEPT ![d] = x]
      /\ UNCHANGED <<rec, original, job, run, shown, contested, halfway>>
  BY DEF DeleteObjects, At
<1>2. PICK b \in Asset : b = desk[d].asset
  BY <1>0, <1>1, WorkShape
<1>3. DesksFit /\ AssetFit(b) /\ (b \notin contested => Fine(b)) /\ Doing(d, b, "remove")
  BY <1>1, <1>2 DEF IInv, AssetsFit, Doing, On
<1>4. x \in Work /\ x # None /\ x.asset = b /\ x.op = "remove" /\ x.step = "deleting" /\ x.copies = {}
  <2>1. desk[d] \in Work
    BY <1>0, <1>1, WorkShape
  <2>2. x \in Work /\ x.asset = b /\ x.op = "remove" /\ x.step = "deleting" /\ x.copies = {}
    BY <1>1, <1>2, <2>1 DEF Work
  <2>3. QED
    BY <2>2, NotNone
<1> HIDE DEF x
<1>5. /\ disturbed' \in 0 .. MaxDisturbances
      /\ public' \subseteq public /\ public \ public' \subseteq desk[d].copies
  BY <1>0, DisturbStep, SameDisturbed DEF DeleteObjects, Deleted
<1>6. DeskGoes(d, b, x)
  BY <1>0, <1>1, <1>2, <1>4, DeskStep
<1>7. TypeOK'
  BY <1>0, <1>1, <1>5, <1>6 DEF TypeOK, DeskGoes
<1>8. DesksFit'
  BY <1>3, <1>4, <1>6, DeskFits DEF DeskFit, DeskGoes
<1>9. Elsewhere(b)
  BY <1>1, <1>2, <1>5, <1>6 DEF Elsewhere, DeskGoes, Held, On
<1>10. \A o \in Object : Held(b, o)' => Held(b, o)
  BY <1>1, <1>4, <1>6, RunsRest DEF Held, DeskGoes
<1>11. AssetFit(b)'
  BY <1>1, <1>2, <1>3, <1>4, <1>6, RunsRest DEF AssetFit, Has, DeskGoes, On
<1>12. ASSUME b \notin contested' PROVE Fine(b)'
  <2>1. Fine(b)
    BY <1>1, <1>3, <1>12
  <2>2. Alone(b)'
    BY <1>1, <1>3, <1>4, <1>6, <2>1, RunsRest DEF Fine, Alone, DeskGoes
  <2>3. Visible(b)'
    BY <1>1, <1>3, <1>4, <1>6, <2>1 DEF Fine, Visible, Has, DeskGoes
  <2>4. Made(b)'
    <3>1. Has(b, "quarantined") => public' = public
      BY <1>3, <1>5 DEF AssetFit
    <3>2. QED
      BY <1>1, <1>4, <1>6, <2>1, <3>1, RunsRest DEF Fine, Made, Has, DeskGoes
  <2>5. Whole(b)'
    BY <1>1, <1>4, <1>6, <2>1 DEF Fine, Whole, Has, DeskGoes
  <2>7. QED
    BY <2>2, <2>3, <2>4, <2>5 DEF Fine
<1>13. QED
  BY <1>7, <1>8, <1>9, <1>10, <1>11, <1>12, StepKeeps

LEMMA DeleteOriginalKeeps ==
  ASSUME IInv, NEW d \in Desk, DeleteOriginal(d)
  PROVE  IInv'
<1>0. TypeOK
  BY DEF IInv
<1> DEFINE x == [desk[d] EXCEPT !.step = "deleted"]
<1>1. /\ desk[d] # None /\ desk[d].op = "remove" /\ desk[d].step = "deleting"
      /\ desk' = [desk EXCEPT ![d] = x]
      /\ UNCHANGED <<rec, public, job, run, shown, contested, halfway>>
  BY DEF DeleteOriginal, At, Go
<1>2. PICK b \in Asset : b = desk[d].asset
  BY <1>0, <1>1, WorkShape
<1>3. DesksFit /\ AssetFit(b) /\ (b \notin contested => Fine(b)) /\ Doing(d, b, "remove")
  BY <1>1, <1>2 DEF IInv, AssetsFit, Doing, On
<1>4. /\ x \in Work /\ x # None /\ x.asset = b /\ x.op = "remove" /\ x.step = "deleted"
      /\ x.copies = desk[d].copies
  <2>1. desk[d] \in Work
    BY <1>0, <1>1, WorkShape
  <2>2. x \in Work /\ x.asset = b /\ x.op = "remove" /\ x.step = "deleted" /\ x.copies = desk[d].copies
    BY <1>1, <1>2, <2>1 DEF Work
  <2>3. QED
    BY <2>2, NotNone
<1> HIDE DEF x
<1>5. /\ disturbed' \in 0 .. MaxDisturbances
      /\ original' = original \/ original' = original \ {b}
  BY <1>0, <1>2, DisturbStep, SameDisturbed DEF DeleteOriginal
<1>6. DeskGoes(d, b, x)
  BY <1>0, <1>1, <1>2, <1>4, DeskStep
<1>7. TypeOK'
  BY <1>0, <1>1, <1>5, <1>6 DEF TypeOK, DeskGoes
<1>8. DesksFit'
  BY <1>3, <1>4, <1>6, DeskFits DEF DeskFit, DeskGoes
<1>9. Elsewhere(b)
  BY <1>1, <1>5, <1>6 DEF Elsewhere, DeskGoes
<1>10. \A o \in Object : Held(b, o)' => Held(b, o)
  BY <1>1, <1>2, <1>4, <1>6, RunsRest DEF Held, DeskGoes, On
<1>11. AssetFit(b)'
  BY <1>1, <1>2, <1>3, <1>4, <1>6, RunsRest DEF AssetFit, Has, DeskGoes, On
<1>12. ASSUME b \notin contested' PROVE Fine(b)'
  <2>1. Fine(b)
    BY <1>1, <1>3, <1>12
  <2>2. Alone(b)'
    BY <1>1, <1>3, <1>4, <1>6, <2>1, RunsRest DEF Fine, Alone, DeskGoes
  <2>3. Visible(b)'
    BY <1>1, <1>3, <1>4, <1>6, <2>1 DEF Fine, Visible, Has, DeskGoes
  <2>4. Made(b)'
    BY <1>1, <1>4, <1>6, <2>1, RunsRest DEF Fine, Made, Has, DeskGoes
  <2>5. Whole(b)'
    BY <1>1, <1>3, <1>4, <1>6, <2>1 DEF Fine, Whole, Has, DeskGoes
  <2>6. QED
    BY <2>2, <2>3, <2>4, <2>5 DEF Fine
<1>13. QED
  BY <1>7, <1>8, <1>9, <1>10, <1>11, <1>12, StepKeeps

LEMMA DeleteRowKeeps ==
  ASSUME IInv, NEW d \in Desk, DeleteRow(d)
  PROVE  IInv'
<1>0. TypeOK
  BY DEF IInv
<1>1. /\ desk[d] # None /\ desk[d].op = "remove" /\ desk[d].step = "deleted"
      /\ desk' = [desk EXCEPT ![d] = None]
      /\ UNCHANGED <<original, public, job, run, shown, disturbed, contested, halfway>>
  BY DEF DeleteRow, At, Leave
<1>2. PICK b \in Asset : b = desk[d].asset
  BY <1>0, <1>1, WorkShape
<1>3. DesksFit /\ AssetFit(b) /\ (b \notin contested => Fine(b)) /\ Doing(d, b, "remove")
  BY <1>1, <1>2 DEF IInv, AssetsFit, Doing, On
<1>4. DeskGoes(d, b, None)
  BY <1>0, <1>1, <1>2, DeskStep
<1>5. CASE rec' = rec /\ (b \in shown \/ ~Exists(b))
  <2>1. TypeOK' /\ DesksFit'
    BY <1>0, <1>1, <1>3, <1>4, <1>5, DeskFits DEF TypeOK, DeskFit, DeskGoes
  <2>2. Elsewhere(b)
    BY <1>1, <1>4, <1>5 DEF Elsewhere, DeskGoes
  <2>3. \A o \in Object : Held(b, o)' => Held(b, o)
    BY <1>1, <1>4, <1>5, RunsRest DEF Held, DeskGoes
  <2>4. AssetFit(b)'
    BY <1>1, <1>3, <1>4, <1>5, RunsRest DEF AssetFit, Has, DeskGoes
  <2>5. ASSUME b \notin contested' PROVE Fine(b)'
    <3>1. Fine(b)
      BY <1>1, <1>3, <2>5
    <3>2. ~Has(b, "ready") /\ ~Has(b, "quarantined")
      BY <1>3, <1>5, <3>1 DEF Fine, Visible, Exists, Has
    <3>3. Alone(b)'
      BY <1>1, <1>4, <1>5, <3>1, RunsRest DEF Fine, Alone, DeskGoes
    <3>4. Visible(b)'
      BY <1>1, <1>4, <1>5, <3>1 DEF Fine, Visible, Has, DeskGoes
    <3>5. Made(b)' /\ Whole(b)'
      BY <1>5, <3>2 DEF Made, Whole, Has
    <3>6. QED
      BY <3>3, <3>4, <3>5 DEF Fine
  <2>6. QED
    BY <2>1, <2>2, <2>3, <2>4, <2>5, StepKeeps
<1>6. CASE /\ b \notin shown
           /\ rec' = [rec EXCEPT ![b] = [status |-> "gone", checked |-> rec[b].checked, copies |-> {}]]
  <2> DEFINE r == [status |-> "gone", checked |-> rec[b].checked, copies |-> {}]
  <2>1. rec' = [rec EXCEPT ![b] = r]
    BY <1>6
  <2>2. /\ r \in Rec /\ r.status = "gone" /\ r.checked = rec[b].checked /\ r.copies = {}
        /\ Cardinality(r.copies) <= (IF b \in Image THEN Renditions ELSE 1)
    <3>1. r \in Rec /\ r.status = "gone" /\ r.checked = rec[b].checked /\ r.copies = {}
      BY <1>0, RecShape DEF Rec
    <3>2. QED
      BY <3>1, FS_EmptySet, MediaAssumption
  <2> HIDE DEF r
  <2>3. RecGoes(b, r)
    BY <1>0, <2>1, <2>2, RecStep
  <2>4. TypeOK' /\ DesksFit'
    BY <1>0, <1>1, <1>3, <1>4, <2>3, DeskFits DEF TypeOK, DeskFit, DeskGoes, RecGoes
  <2>5. Elsewhere(b)
    BY <1>1, <1>4, <2>3 DEF Elsewhere, DeskGoes, RecGoes
  <2>6. \A o \in Object : Held(b, o)' => Held(b, o)
    BY <1>1, <1>4, <2>2, <2>3, RunsRest DEF Held, DeskGoes, RecGoes
  <2>7. AssetFit(b)'
    BY <1>1, <1>3, <2>2, <2>3, RunsRest DEF AssetFit, Has, RecGoes
  <2>8. ASSUME b \notin contested' PROVE Fine(b)'
    <3>1. Fine(b)
      BY <1>1, <1>3, <2>8
    <3>2. \A e \in Desk : ~Doing(e, b, "show")
      BY <1>3, <3>1 DEF Fine, Visible
    <3>3. Alone(b)'
      BY <1>1, <1>4, <2>2, <2>3, <3>1, RunsRest DEF Fine, Alone, DeskGoes, RecGoes
    <3>4. Visible(b)'
      BY <1>1, <1>4, <1>6, <3>2 DEF Visible, DeskGoes
    <3>5. Made(b)' /\ Whole(b)'
      BY <2>2, <2>3 DEF Made, Whole, Has, RecGoes
    <3>6. QED
      BY <3>3, <3>4, <3>5 DEF Fine
  <2>9. QED
    BY <2>4, <2>5, <2>6, <2>7, <2>8, StepKeeps
<1>7. QED
  BY <1>2, <1>5, <1>6 DEF DeleteRow

LEMMA GiveUpKeeps ==
  ASSUME IInv, NEW d \in Desk, GiveUp(d)
  PROVE  IInv'
<1>0. TypeOK
  BY DEF IInv
<1>1. /\ desk[d] # None /\ desk' = [desk EXCEPT ![d] = None]
      /\ UNCHANGED <<rec, original, public, job, run, shown>>
  BY DEF GiveUp, Leave
<1>2. PICK b \in Asset : b = desk[d].asset
  BY <1>0, <1>1, WorkShape
<1>3. DesksFit /\ AssetFit(b) /\ (b \notin contested => Fine(b))
  BY DEF IInv, AssetsFit
<1>4. disturbed' \in 0 .. MaxDisturbances
  BY <1>0, DisturbStep, SameDisturbed DEF GiveUp
<1>5. /\ contested' = contested
      /\ halfway' = IF desk[d].step \in {"deleting", "deleted"} THEN halfway \cup {b} ELSE halfway
  BY <1>2 DEF GiveUp
<1>6. CASE desk[d].step \notin {"deleting", "deleted"}
  <2>1. contested' \subseteq Asset /\ halfway' = halfway
    BY <1>0, <1>5, <1>6 DEF TypeOK
  <2>2. QED
    BY <1>1, <1>4, <1>5, <1>6, <2>1, LeaveKeeps
<1>7. CASE desk[d].step \in {"deleting", "deleted"}
  <2>0. halfway' = halfway \cup {b}
    BY <1>5, <1>7
  <2>1. DeskGoes(d, b, None)
    BY <1>0, <1>1, <1>2, DeskStep
  <2>2. TypeOK' /\ DesksFit'
    BY <1>0, <1>1, <1>3, <1>4, <1>5, <2>0, <2>1, DeskFits DEF TypeOK, DeskFit, DeskGoes
  <2>3. Elsewhere(b)
    BY <1>1, <1>5, <2>0, <2>1 DEF Elsewhere, DeskGoes
  <2>4. \A o \in Object : Held(b, o)' => Held(b, o)
    BY <1>1, <2>1, RunsRest DEF Held, DeskGoes
  <2>5. AssetFit(b)'
    BY <1>1, <1>3, <2>1, RunsRest DEF AssetFit, Has, DeskGoes
  <2>6. ASSUME b \notin contested' PROVE Fine(b)'
    <3>1. Fine(b)
      BY <1>3, <1>5, <2>6
    <3>2. Alone(b)' /\ Made(b)'
      BY <1>1, <2>1, <3>1, RunsRest DEF Fine, Alone, Made, Has, DeskGoes
    <3>3. Visible(b)'
      BY <1>1, <2>1, <3>1 DEF Fine, Visible, Has, DeskGoes
    <3>4. Whole(b)'
      BY <1>1, <2>0, <3>1 DEF Fine, Whole, Has
    <3>5. QED
      BY <3>2, <3>3, <3>4 DEF Fine
  <2>7. QED
    BY <2>2, <2>3, <2>4, <2>5, <2>6, StepKeeps
<1>8. QED
  BY <1>6, <1>7

-----------------------------------------------------------------------------
\* The invariant holds at first, and every step keeps it.
LEMMA InitInv == Init => IInv
<1> SUFFICES ASSUME Init PROVE IInv
  OBVIOUS
<1>1. /\ \A a \in Asset : rec[a] = [status |-> "absent", checked |-> FALSE, copies |-> {}] /\ job[a] = "none"
      /\ (\A w \in Worker : run[w] = None) /\ (\A d \in Desk : desk[d] = None) /\ shown = {}
  BY DEF Init
<1>2. TypeOK
  <2>1. Cardinality({}) = 0
    BY FS_EmptySet
  <2>2. [status |-> "absent", checked |-> FALSE, copies |-> {}] \in Rec
    BY DEF Rec
  <2>3. rec \in [Asset -> Rec] /\ job \in [Asset -> {"none", "queued", "done"}]
    BY <2>2 DEF Init
  <2>4. \A a \in Asset : Cardinality(rec[a].copies) <= (IF a \in Image THEN Renditions ELSE 1)
    BY <1>1, <2>1, MediaAssumption
  <2>5. QED
    BY <2>3, <2>4, MediaAssumption DEF Init, TypeOK
<1>3. DesksFit
  BY <1>1 DEF DesksFit, DeskFit
<1>4. \A a \in Asset, o \in Object : ~Held(a, o)
  BY <1>1 DEF Held, RunOn, On
<1>5. ASSUME NEW a \in Asset PROVE AssetFit(a) /\ Fine(a)
  <2>1. /\ rec[a].status = "absent" /\ ~rec[a].checked /\ rec[a].copies = {} /\ job[a] = "none"
        /\ (\A w \in Worker : ~RunOn(w, a)) /\ (\A d \in Desk : ~On(d, a)) /\ a \notin shown
    BY <1>1 DEF RunOn, On
  <2>2. AssetFit(a)
    BY <2>1 DEF AssetFit, Has
  <2>3. QED
    BY <2>1, <2>2 DEF Fine, Alone, Visible, Made, Whole, Has, Doing
<1>6. QED
  BY <1>2, <1>3, <1>4, <1>5 DEF IInv, Disjoint, AssetsFit

LEMMA NextInv == IInv /\ [Next]_vars => IInv'
<1> SUFFICES ASSUME IInv, [Next]_vars PROVE IInv'
  OBVIOUS
<1>1. CASE CompleteUpload
  <2>1. PICK d \in Desk :
          \/ \E a \in Asset : BeginComplete(d, a)
          \/ Accept(d) \/ PublishDocument(d) \/ Decline(d) \/ DropOriginal(d)
          \/ \E o \in Object : Copy(d, o)
    BY <1>1 DEF CompleteUpload
  <2>2. QED
    BY <2>1, BeginCompleteKeeps, AcceptKeeps, PublishDocumentKeeps, DeclineKeeps, DropOriginalKeeps, CopyKeeps
<1>2. CASE \E a \in Asset : RequestUpload(a) \/ Upload(a) \/ Hide(a)
  BY <1>2, RequestKeeps, UploadKeeps, HideKeeps
<1>3. CASE \E d \in Desk :
             \/ \E a \in Asset : BeginShow(d, a) \/ BeginRemove(d, a)
             \/ Show(d) \/ DeleteObjects(d) \/ DeleteOriginal(d) \/ DeleteRow(d) \/ GiveUp(d)
  <2>1. PICK d \in Desk :
          \/ \E a \in Asset : BeginShow(d, a) \/ BeginRemove(d, a)
          \/ Show(d) \/ DeleteObjects(d) \/ DeleteOriginal(d) \/ DeleteRow(d) \/ GiveUp(d)
    BY <1>3
  <2>2. QED
    BY <2>1, BeginShowKeeps, BeginRemoveKeeps, ShowKeeps, DeleteObjectsKeeps, DeleteOriginalKeeps,
       DeleteRowKeeps, GiveUpKeeps
<1>4. CASE \E w \in Worker : ProcessMediaAsset(w)
  <2>1. PICK w \in Worker :
          \/ \E a \in Image : Load(w, a)
          \/ Read(w) \/ Spoil(w) \/ Publish(w)
          \/ \E o \in Object : Put(w, o)
          \/ ReadCopies(w) \/ DeleteCopies(w) \/ Clear(w) \/ Mark(w)
    BY <1>4 DEF ProcessMediaAsset
  <2>2. QED
    BY <2>1, LoadKeeps, ReadKeeps, SpoilKeeps, PublishKeeps, PutKeeps, ReadCopiesKeeps,
       DeleteCopiesKeeps, ClearKeeps, MarkKeeps
<1>5. CASE \E w \in Worker : Die(w)
  BY <1>5, DieKeeps
<1>6. CASE UNCHANGED vars
  <2>1. UNCHANGED <<rec, original, public, job, run, desk, shown, disturbed, contested, halfway>>
    BY <1>6 DEF vars
  <2>2. TypeOK' /\ DesksFit'
    BY <2>1, DesksRest DEF IInv, TypeOK
  <2>3. \A a \in Asset, o \in Object : Held(a, o)' <=> Held(a, o)
    BY <2>1, RunsRest, DesksRest DEF Held
  <2>4. Disjoint'
    BY <2>3 DEF IInv, Disjoint
  <2>5. ASSUME NEW a \in Asset PROVE AssetFit(a)' /\ (a \notin contested' => Fine(a)')
    <3>1. AssetFit(a) /\ (a \notin contested => Fine(a))
      BY DEF IInv, AssetsFit
    <3>2. AssetFit(a)'
      BY <2>1, <3>1, RunsRest, DesksRest DEF AssetFit, Has
    <3>3. ASSUME a \notin contested' PROVE Fine(a)'
      <4>1. Fine(a)
        BY <2>1, <3>1, <3>3
      <4>2. Alone(a)' /\ Visible(a)' /\ Made(a)' /\ Whole(a)'
        BY <2>1, <4>1, RunsRest, DesksRest DEF Fine, Alone, Visible, Made, Whole, Has
      <4>3. QED
        BY <4>2 DEF Fine
    <3>4. QED
      BY <3>2, <3>3
  <2>6. QED
    BY <2>2, <2>4, <2>5 DEF IInv, AssetsFit
<1>7. QED
  BY <1>1, <1>2, <1>3, <1>4, <1>5, <1>6 DEF Next, Use

\* The invariant holds in every state: what it says of each asset is kept by every
\* step of completeUpload, processMediaAsset, the pages and the removals.
THEOREM InductiveInvariant == Spec => []IInv
  BY InitInv, NextInv, PTL DEF Spec

\* Every variable has its type, and no asset has more rows of variants than there
\* are kinds: a job that runs again replaces them.
THEOREM TypeCorrect == Spec => []TypeOK
<1>1. IInv => TypeOK
  BY DEF IInv
<1>2. QED
  BY <1>1, InductiveInvariant, PTL

\* What is ready has copies, in the public bucket until a removal of it begins (and not
\* if one broke off half done), and what pages show is ready: however jobs, crashes and
\* storage failures come, until two operations of the asset overlap.
THEOREM ReadyHasItsObjects == Spec => []ReadyIsWhole
<1>1. IInv => ReadyIsWhole
  <2> SUFFICES ASSUME IInv, NEW a \in Asset \ contested
               PROVE  /\ Has(a, "ready") => rec[a].copies # {}
                      /\ Has(a, "ready") /\ ~Busy(a, "remove") /\ a \notin halfway
                           => rec[a].copies \subseteq public
                      /\ a \in shown => Has(a, "ready")
    BY DEF ReadyIsWhole
  <2>1. Visible(a) /\ Whole(a)
    BY DEF IInv, AssetsFit, Fine
  <2>2. ~Busy(a, "remove") => \A d \in Desk : ~Doing(d, a, "remove")
    BY DEF Busy, Doing, On
  <2>3. QED
    BY <2>1, <2>2 DEF Visible, Whole, Has
<1>2. QED
  BY <1>1, InductiveInvariant, PTL

-----------------------------------------------------------------------------
\* The file of an image that was submitted, whatever overlaps.

\* What is not ready is not shown, nor about to be.
Unshown(a) ==
  rec[a].status \in {"absent", "quarantined"} => a \notin shown /\ \A d \in Desk : ~Doing(d, a, "show")

Submitted(a) == rec[a].checked \/ \E d \in Desk : Doing(d, a, "complete") /\ desk[d].step = "checked"

\* A removal has deleted the file, and has the row to delete still, or broke off.
Lost(a) == a \in halfway \/ \E d \in Desk : Doing(d, a, "remove") /\ desk[d].step = "deleted"

Kept(a) == Has(a, "quarantined") /\ Submitted(a) /\ ~Lost(a) => a \in original

KeptInv == \A a \in Image : Unshown(a) /\ Kept(a)

\* Steps of jobs, and those that take no request further, neither delete a file nor
\* put an image back into quarantine.
LEMMA KeptAtRest ==
  ASSUME IInv, KeptInv, desk' = desk, halfway' = halfway, original \subseteq original', shown' \subseteq shown,
         \A a \in Image : /\ rec'[a].checked = rec[a].checked
                          /\ \/ rec'[a].status = rec[a].status
                             \/ rec'[a].status \in {"ready", "rejected"}
                             \/ Has(a, "absent")
  PROVE  KeptInv'
<1> SUFFICES ASSUME NEW a \in Image PROVE Unshown(a)' /\ Kept(a)'
  BY DEF KeptInv
<1>1. a \in Asset /\ Unshown(a) /\ Kept(a) /\ AssetFit(a)
  BY DEF KeptInv, IInv, AssetsFit, Asset
<1>2. /\ rec'[a].checked = rec[a].checked
      /\ \/ rec'[a].status = rec[a].status
         \/ rec'[a].status \in {"ready", "rejected"}
         \/ Has(a, "absent")
  OBVIOUS
<1>3. \A d \in Desk, op \in {"complete", "remove", "show"} : Doing(d, a, op)' <=> Doing(d, a, op)
  BY <1>1, DesksRest
<1>4. Unshown(a)'
  BY <1>1, <1>2, <1>3 DEF Unshown, Has
<1>5. Has(a, "absent") => ~Submitted(a)
  BY <1>1 DEF AssetFit, Submitted, Doing
<1>6. (Submitted(a)' <=> Submitted(a)) /\ (Lost(a)' <=> Lost(a))
  BY <1>2, <1>3 DEF Submitted, Lost
<1>7. Kept(a)'
  BY <1>1, <1>2, <1>5, <1>6 DEF Kept, Has
<1>8. QED
  BY <1>4, <1>7

\* A request that moves on touches its own asset alone.
LEMMA KeptElsewhere ==
  ASSUME KeptInv, NEW d \in Desk, NEW b \in Asset, NEW x, DeskGoes(d, b, x),
         \A a \in Asset \ {b} : /\ rec'[a] = rec[a] /\ (a \in original' <=> a \in original)
                                /\ (a \in shown' <=> a \in shown),
         halfway \subseteq halfway',
         b \in Image => Unshown(b)' /\ Kept(b)'
  PROVE  KeptInv'
<1> SUFFICES ASSUME NEW a \in Image, a # b PROVE Unshown(a)' /\ Kept(a)'
  BY DEF KeptInv
<1>1. a \in Asset /\ Unshown(a) /\ Kept(a)
  BY DEF KeptInv, Asset
<1>2. \A e \in Desk : (On(e, a)' <=> On(e, a)) /\ (On(e, a) => desk'[e] = desk[e])
  BY DEF DeskGoes, On
<1>3. \A e \in Desk, op \in {"complete", "remove", "show"} : Doing(e, a, op)' <=> Doing(e, a, op)
  BY <1>2 DEF Doing
<1>4. rec'[a] = rec[a] /\ (a \in original' <=> a \in original) /\ (a \in shown' <=> a \in shown)
  BY <1>1
<1>5. Unshown(a)'
  BY <1>1, <1>3, <1>4 DEF Unshown
<1>6. (Submitted(a)' <=> Submitted(a)) /\ (Lost(a) => Lost(a)')
  BY <1>2, <1>3, <1>4 DEF Submitted, Lost, Doing
<1>7. QED
  BY <1>1, <1>4, <1>5, <1>6 DEF Kept, Has

\* A request that leaves row, file and pages alone, and is not a completion: what it
\* worked on stays as it was.
LEMMA KeptIdle ==
  ASSUME IInv, KeptInv, NEW d \in Desk, NEW b \in Asset, NEW x \in Work \cup {None}, DeskGoes(d, b, x),
         UNCHANGED <<rec, original, shown>>, halfway \subseteq halfway',
         x # None => x.op = "remove" \/ (x.op = "complete" /\ b \in original),
         desk[d] # None /\ desk[d].op = "remove" /\ desk[d].step = "deleted" => b \in halfway'
  PROVE  KeptInv'
<1>1. ASSUME b \in Image PROVE Unshown(b)' /\ Kept(b)'
  <2>1. Unshown(b) /\ Kept(b)
    BY <1>1 DEF KeptInv
  <2>2. \A e \in Desk : Doing(e, b, "show")' => Doing(e, b, "show")
    BY DEF DeskGoes
  <2>3. Unshown(b)'
    BY <2>1, <2>2 DEF Unshown
  <2>4. Lost(b) => Lost(b)'
    BY DEF Lost, DeskGoes, Doing, On
  <2>5. Submitted(b)' => Submitted(b) \/ b \in original
    BY DEF Submitted, DeskGoes
  <2>6. QED
    BY <2>1, <2>3, <2>4, <2>5 DEF Kept, Has
<1>2. QED
  BY <1>1, KeptElsewhere

\* The steps of a completion.
LEMMA CompletionKeepsFile ==
  ASSUME IInv, KeptInv, NEW d \in Desk,
         \/ \E a \in Asset : BeginComplete(d, a)
         \/ Accept(d) \/ PublishDocument(d) \/ Decline(d) \/ DropOriginal(d)
         \/ \E o \in Object : Copy(d, o)
  PROVE  KeptInv'
<1>0. TypeOK /\ DesksFit
  BY DEF IInv
<1>1. ASSUME NEW b \in Asset, BeginComplete(d, b) PROVE KeptInv'
  <2> DEFINE x == [op |-> "complete", step |-> "checked", asset |-> b, copies |-> {}]
  <2>1. /\ desk[d] = None /\ b \in original /\ desk' = [desk EXCEPT ![d] = x]
        /\ UNCHANGED <<rec, original, shown, halfway>>
    BY <1>1 DEF BeginComplete, Take
  <2>2. x \in Work /\ x.asset = b /\ x.op = "complete"
    BY DEF Work
  <2> HIDE DEF x
  <2>3. DeskGoes(d, b, x)
    BY <1>0, <2>1, <2>2, DeskStep
  <2>4. QED
    BY <2>1, <2>2, <2>3, KeptIdle
<1>2. ASSUME At(d, "complete", "copied") \/ \E o \in Object : Copy(d, o) PROVE desk[d].asset \notin Image
  BY <1>0, <1>2, MediaAssumption DEF DesksFit, DeskFit, At, Copy
<1>3. ASSUME NEW o \in Object, Copy(d, o) PROVE KeptInv'
  <2>1. PICK b \in Asset : b = desk[d].asset /\ desk[d] # None
    BY <1>0, <1>3, WorkShape DEF Copy, At
  <2> DEFINE x == [desk[d] EXCEPT !.step = "copied", !.copies = {o}]
  <2>2. desk' = [desk EXCEPT ![d] = x] /\ UNCHANGED <<rec, original, shown, halfway>>
    BY <1>3 DEF Copy
  <2>3. x \in Work /\ x.asset = b
    BY <1>0, <2>1, WorkShape DEF Work
  <2> HIDE DEF x
  <2>4. DeskGoes(d, b, x)
    BY <1>0, <2>1, <2>2, <2>3, DeskStep
  <2>5. b \notin Image
    BY <1>2, <1>3, <2>1
  <2>6. QED
    BY <2>2, <2>4, <2>5, KeptElsewhere
<1>4. ASSUME PublishDocument(d) PROVE KeptInv'
  <2>1. PICK b \in Asset : b = desk[d].asset /\ desk[d] # None
    BY <1>0, <1>4, WorkShape DEF PublishDocument, At
  <2>2. b \notin Image
    BY <1>2, <1>4, <2>1 DEF PublishDocument
  <2>3. PICK x \in Work \cup {None} : desk' = [desk EXCEPT ![d] = x] /\ (x # None => x.asset = b)
    <3>1. [desk[d] EXCEPT !.step = "published"] \in Work /\ [desk[d] EXCEPT !.step = "published"].asset = b
      BY <1>0, <2>1, WorkShape DEF Work
    <3>2. \/ desk' = [desk EXCEPT ![d] = [desk[d] EXCEPT !.step = "published"]]
          \/ desk' = [desk EXCEPT ![d] = None]
      BY <1>4 DEF PublishDocument, Go, Leave
    <3>3. QED
      BY <3>1, <3>2
  <2>4. DeskGoes(d, b, x)
    BY <1>0, <2>1, <2>3, DeskStep
  <2>5. UNCHANGED <<original, shown, halfway>> /\ \A a \in Asset \ {b} : rec'[a] = rec[a]
    BY <1>0, <1>4, <2>1 DEF PublishDocument, TypeOK
  <2>6. QED
    BY <2>2, <2>4, <2>5, KeptElsewhere
<1>5. ASSUME Accept(d) PROVE KeptInv'
  <2>1. PICK b \in Asset : b = desk[d].asset
    BY <1>0, <1>5, WorkShape DEF Accept, At
  <2>2. /\ desk[d] # None /\ desk[d].op = "complete" /\ desk[d].step = "checked" /\ b \in Image
        /\ desk' = [desk EXCEPT ![d] = None] /\ UNCHANGED <<original, shown, halfway>>
    BY <1>5, <2>1 DEF Accept, At, Leave
  <2>3. /\ rec'[b].status = rec[b].status
        /\ \A a \in Asset \ {b} : rec'[a] = rec[a]
    BY <1>0, <1>5, <2>1, RecShape DEF Accept, TypeOK, Rec
  <2>4. DeskGoes(d, b, None)
    BY <1>0, <2>1, <2>2, DeskStep
  <2>5. Unshown(b) /\ Kept(b) /\ Submitted(b)
    BY <2>1, <2>2 DEF KeptInv, Submitted, Doing, On
  <2>6. Unshown(b)'
    BY <2>2, <2>3, <2>4, <2>5 DEF Unshown, DeskGoes
  <2>7. Lost(b) => Lost(b)'
    BY <2>2, <2>4 DEF Lost, DeskGoes, Doing
  <2>8. Kept(b)'
    BY <2>2, <2>3, <2>5, <2>7 DEF Kept, Has
  <2>9. QED
    BY <2>2, <2>3, <2>4, <2>6, <2>8, KeptElsewhere
<1>6. ASSUME Decline(d) PROVE KeptInv'
  <2>1. PICK b \in Asset : b = desk[d].asset /\ desk[d] # None /\ desk[d].op = "complete"
    BY <1>0, <1>6, WorkShape DEF Decline, At
  <2>2. PICK x \in Work \cup {None} : desk' = [desk EXCEPT ![d] = x] /\ (x # None => x.asset = b)
                                      /\ (Exists(b) \/ x = None)
    <3>1. [desk[d] EXCEPT !.step = "declined"] \in Work /\ [desk[d] EXCEPT !.step = "declined"].asset = b
      BY <1>0, <2>1, WorkShape DEF Work
    <3>2. \/ desk' = [desk EXCEPT ![d] = [desk[d] EXCEPT !.step = "declined"]] /\ Exists(b)
          \/ desk' = [desk EXCEPT ![d] = None]
      BY <1>6, <2>1 DEF Decline, Go, Leave
    <3>3. QED
      BY <3>1, <3>2
  <2>3. DeskGoes(d, b, x)
    BY <1>0, <2>1, <2>2, DeskStep
  <2>4. UNCHANGED <<original, shown, halfway>>
    BY <1>6 DEF Decline
  <2>5. CASE Exists(b)
    <3>1. rec'[b].status = "rejected" /\ \A a \in Asset \ {b} : rec'[a] = rec[a]
      BY <1>0, <1>6, <2>1, <2>5 DEF Decline, TypeOK, Rec
    <3>2. Unshown(b)' /\ Kept(b)'
      BY <3>1 DEF Unshown, Kept, Has
    <3>3. QED
      BY <2>3, <2>4, <3>1, <3>2, KeptElsewhere
  <2>6. CASE ~Exists(b)
    <3>1. rec' = rec /\ desk' = [desk EXCEPT ![d] = None]
      BY <1>6, <2>1, <2>6 DEF Decline, Leave
    <3>2. DeskGoes(d, b, None)
      BY <1>0, <2>1, <3>1, DeskStep
    <3>3. QED
      BY <2>1, <2>4, <3>1, <3>2, KeptIdle
  <2>7. QED
    BY <2>5, <2>6
<1>7. ASSUME DropOriginal(d) PROVE KeptInv'
  <2>1. PICK b \in Asset : /\ b = desk[d].asset /\ desk[d] # None
                           /\ desk[d].step \in {"published", "declined"}
    BY <1>0, <1>7, WorkShape DEF DropOriginal, At
  <2>2. /\ desk' = [desk EXCEPT ![d] = None] /\ UNCHANGED <<rec, shown, halfway>>
        /\ \A a \in Asset \ {b} : a \in original' <=> a \in original
    BY <1>7, <2>1 DEF DropOriginal, Leave
  <2>3. DeskGoes(d, b, None)
    BY <1>0, <2>1, <2>2, DeskStep
  <2>4. ~Has(b, "quarantined")
    BY <2>1 DEF IInv, AssetsFit, AssetFit, On
  <2>5. ASSUME b \in Image PROVE Unshown(b)' /\ Kept(b)'
    BY <2>2, <2>3, <2>4, <2>5 DEF KeptInv, Unshown, Kept, Has, DeskGoes
  <2>6. QED
    BY <2>2, <2>3, <2>5, KeptElsewhere
<1>8. QED
  BY <1>1, <1>3, <1>4, <1>5, <1>6, <1>7

\* The steps of pages and removals.
LEMMA RequestKeepsFile ==
  ASSUME IInv, KeptInv, NEW d \in Desk,
         \/ \E a \in Asset : BeginShow(d, a) \/ BeginRemove(d, a)
         \/ Show(d) \/ DeleteObjects(d) \/ DeleteOriginal(d) \/ DeleteRow(d) \/ GiveUp(d)
  PROVE  KeptInv'
<1>0. TypeOK /\ DesksFit
  BY DEF IInv
<1>1. ASSUME NEW b \in Asset, BeginShow(d, b) PROVE KeptInv'
  <2> DEFINE x == [op |-> "show", step |-> "checked", asset |-> b, copies |-> {}]
  <2>1. /\ desk[d] = None /\ Has(b, "ready") /\ desk' = [desk EXCEPT ![d] = x]
        /\ UNCHANGED <<rec, original, shown, halfway>>
    BY <1>1 DEF BeginShow, Take
  <2>2. x \in Work /\ x.asset = b
    BY DEF Work
  <2> HIDE DEF x
  <2>3. DeskGoes(d, b, x)
    BY <1>0, <2>1, <2>2, DeskStep
  <2>4. Unshown(b)' /\ Kept(b)'
    BY <2>1 DEF Unshown, Kept, Has
  <2>5. QED
    BY <2>1, <2>3, <2>4, KeptElsewhere
<1>2. ASSUME NEW b \in Asset, BeginRemove(d, b) PROVE KeptInv'
  <2>1. PICK c \in {rec[b].copies, {}} :
          desk' = [desk EXCEPT ![d] = [op |-> "remove", step |-> "checked", asset |-> b, copies |-> c]]
    BY <1>2 DEF BeginRemove, Take
  <2> DEFINE x == [op |-> "remove", step |-> "checked", asset |-> b, copies |-> c]
  <2>2. desk[d] = None /\ desk' = [desk EXCEPT ![d] = x] /\ UNCHANGED <<rec, original, shown, halfway>>
    BY <1>2, <2>1 DEF BeginRemove
  <2>3. x \in Work /\ x.asset = b /\ x.op = "remove"
    <3>1. c \in SUBSET Object
      BY <1>0, RecShape
    <3>2. QED
      BY <3>1 DEF Work
  <2> HIDE DEF x
  <2>4. DeskGoes(d, b, x)
    BY <1>0, <2>2, <2>3, DeskStep
  <2>5. QED
    BY <2>2, <2>3, <2>4, KeptIdle
<1>3. ASSUME Show(d) PROVE KeptInv'
  <2>1. PICK b \in Asset : b = desk[d].asset /\ desk[d] # None /\ desk[d].op = "show"
    BY <1>0, <1>3, WorkShape DEF Show, At
  <2>2. /\ desk' = [desk EXCEPT ![d] = None] /\ UNCHANGED <<rec, original, halfway>>
        /\ \A a \in Asset \ {b} : a \in shown' <=> a \in shown
    BY <1>3, <2>1 DEF Show, Leave
  <2>3. DeskGoes(d, b, None)
    BY <1>0, <2>1, <2>2, DeskStep
  <2>4. ASSUME b \in Image PROVE Unshown(b)' /\ Kept(b)'
    <3>1. Unshown(b)
      BY <2>4 DEF KeptInv
    <3>2. rec[b].status \notin {"absent", "quarantined"}
      BY <2>1, <3>1 DEF Unshown, Doing, On
    <3>3. QED
      BY <2>2, <3>2 DEF Unshown, Kept, Has
  <2>5. QED
    BY <2>2, <2>3, <2>4, KeptElsewhere
<1>4. ASSUME DeleteObjects(d) PROVE KeptInv'
  <2>1. PICK b \in Asset : /\ b = desk[d].asset /\ desk[d] # None /\ desk[d].op = "remove"
                           /\ desk[d].step = "checked"
    BY <1>0, <1>4, WorkShape DEF DeleteObjects, At
  <2> DEFINE x == [desk[d] EXCEPT !.step = "deleting", !.copies = {}]
  <2>2. desk' = [desk EXCEPT ![d] = x] /\ UNCHANGED <<rec, original, shown, halfway>>
    BY <1>4 DEF DeleteObjects
  <2>3. x \in Work /\ x.asset = b /\ x.op = "remove"
    BY <1>0, <2>1, WorkShape DEF Work
  <2> HIDE DEF x
  <2>4. DeskGoes(d, b, x)
    BY <1>0, <2>1, <2>2, <2>3, DeskStep
  <2>5. QED
    BY <2>1, <2>2, <2>3, <2>4, KeptIdle
<1>5. ASSUME DeleteOriginal(d) PROVE KeptInv'
  <2>1. PICK b \in Asset : b = desk[d].asset /\ desk[d] # None /\ desk[d].op = "remove"
    BY <1>0, <1>5, WorkShape DEF DeleteOriginal, At
  <2> DEFINE x == [desk[d] EXCEPT !.step = "deleted"]
  <2>2. /\ desk' = [desk EXCEPT ![d] = x] /\ UNCHANGED <<rec, shown, halfway>>
        /\ \A a \in Asset \ {b} : a \in original' <=> a \in original
    BY <1>5, <2>1 DEF DeleteOriginal, Go
  <2>3. x \in Work /\ x # None /\ x.asset = b /\ x.op = "remove" /\ x.step = "deleted"
    <3>1. x \in Work /\ x.asset = b /\ x.op = "remove" /\ x.step = "deleted"
      BY <1>0, <2>1, WorkShape DEF Work
    <3>2. QED
      BY <3>1, NotNone
  <2> HIDE DEF x
  <2>4. DeskGoes(d, b, x)
    BY <1>0, <2>1, <2>2, <2>3, DeskStep
  <2>5. Lost(b)'
    <3>1. Doing(d, b, "remove")' /\ desk'[d].step = "deleted"
      BY <2>3, <2>4 DEF DeskGoes
    <3>2. QED
      BY <3>1 DEF Lost
  <2>6. ASSUME b \in Image PROVE Unshown(b)' /\ Kept(b)'
    <3>1. Unshown(b)
      BY <2>6 DEF KeptInv
    <3>2. Unshown(b)'
      BY <2>2, <2>3, <2>4, <3>1 DEF Unshown, DeskGoes
    <3>3. QED
      BY <2>5, <3>2 DEF Kept
  <2>7. QED
    BY <2>2, <2>4, <2>6, KeptElsewhere
<1>6. ASSUME DeleteRow(d) PROVE KeptInv'
  <2>1. PICK b \in Asset : b = desk[d].asset /\ desk[d] # None /\ desk[d].op = "remove"
    BY <1>0, <1>6, WorkShape DEF DeleteRow, At
  <2>2. /\ desk' = [desk EXCEPT ![d] = None] /\ UNCHANGED <<original, shown, halfway>>
        /\ \A a \in Asset \ {b} : rec'[a] = rec[a]
    BY <1>0, <1>6, <2>1 DEF DeleteRow, Leave, TypeOK
  <2>3. DeskGoes(d, b, None)
    BY <1>0, <2>1, <2>2, DeskStep
  <2>4. \/ rec'[b].status = "gone"
        \/ rec' = rec /\ (b \in shown \/ ~Exists(b))
    BY <1>0, <1>6, <2>1 DEF DeleteRow, TypeOK
  <2>5. ASSUME b \in Image PROVE Unshown(b)' /\ Kept(b)'
    <3>1. Unshown(b) /\ AssetFit(b)
      BY <2>5 DEF KeptInv, IInv, AssetsFit
    <3>2. CASE rec'[b].status = "gone"
      BY <3>2 DEF Unshown, Kept, Has
    <3>3. CASE rec' = rec /\ (b \in shown \/ ~Exists(b))
      <4>1. ~Has(b, "quarantined")
        BY <3>1, <3>3 DEF Unshown, Exists, Has
      <4>2. Unshown(b)'
        BY <2>2, <2>3, <3>1, <3>3 DEF Unshown, DeskGoes
      <4>3. QED
        BY <3>3, <4>1, <4>2 DEF Kept, Has
    <3>4. QED
      BY <2>4, <3>2, <3>3
  <2>6. QED
    BY <2>2, <2>3, <2>5, KeptElsewhere
<1>7. ASSUME GiveUp(d) PROVE KeptInv'
  <2>1. PICK b \in Asset : b = desk[d].asset /\ desk[d] # None
    BY <1>0, <1>7, WorkShape DEF GiveUp
  <2>2. /\ desk' = [desk EXCEPT ![d] = None] /\ UNCHANGED <<rec, original, shown>>
        /\ halfway \subseteq halfway' /\ (desk[d].step = "deleted" => b \in halfway')
    BY <1>7, <2>1 DEF GiveUp, Leave
  <2>3. DeskGoes(d, b, None)
    BY <1>0, <2>1, <2>2, DeskStep
  <2>4. QED
    BY <2>2, <2>3, KeptIdle
<1>8. QED
  BY <1>1, <1>2, <1>3, <1>4, <1>5, <1>6, <1>7

LEMMA KeptNext == IInv /\ KeptInv /\ [Next]_vars => KeptInv'
<1> SUFFICES ASSUME IInv, KeptInv, [Next]_vars PROVE KeptInv'
  OBVIOUS
<1>0. TypeOK /\ \A a \in Image : a \in Asset
  BY DEF IInv, Asset
<1>1. CASE CompleteUpload
  BY <1>1, CompletionKeepsFile DEF CompleteUpload
<1>2. CASE \E a \in Asset : RequestUpload(a) \/ Upload(a) \/ Hide(a)
  <2>1. PICK a \in Asset : RequestUpload(a) \/ Upload(a) \/ Hide(a)
    BY <1>2
  <2>2. CASE RequestUpload(a)
    <3>1. /\ Has(a, "absent") /\ rec' = [rec EXCEPT ![a].status = "quarantined"]
          /\ UNCHANGED <<desk, halfway, original, shown>>
      BY <2>2 DEF RequestUpload
    <3>2. \A b \in Image : /\ rec'[b].checked = rec[b].checked
                           /\ rec'[b].status = rec[b].status \/ Has(b, "absent")
      BY <1>0, <3>1, RecShape DEF TypeOK, Rec
    <3>3. QED
      BY <3>1, <3>2, KeptAtRest
  <2>3. CASE Upload(a) \/ Hide(a)
    <3>1. UNCHANGED <<rec, desk, halfway>> /\ original \subseteq original' /\ shown' \subseteq shown
      BY <2>3 DEF Upload, Hide
    <3>2. QED
      BY <3>1, KeptAtRest
  <2>4. QED
    BY <2>1, <2>2, <2>3
<1>3. CASE \E d \in Desk :
             \/ \E a \in Asset : BeginShow(d, a) \/ BeginRemove(d, a)
             \/ Show(d) \/ DeleteObjects(d) \/ DeleteOriginal(d) \/ DeleteRow(d) \/ GiveUp(d)
  BY <1>3, RequestKeepsFile
<1>4. CASE \E w \in Worker : ProcessMediaAsset(w) \/ Die(w)
  <2>1. PICK w \in Worker : ProcessMediaAsset(w) \/ Die(w)
    BY <1>4
  <2>2. UNCHANGED <<desk, halfway, original, shown>>
    BY <2>1 DEF ProcessMediaAsset, Load, Read, Spoil, Publish, Put, ReadCopies, DeleteCopies, Clear, Mark, Die
  <2>3. \A b \in Image : /\ rec'[b].checked = rec[b].checked
                         /\ rec'[b].status = rec[b].status \/ rec'[b].status \in {"ready", "rejected"}
    <3>1. CASE rec' = rec
      BY <3>1
    <3>2. CASE Publish(w) \/ Clear(w) \/ Mark(w)
      BY <1>0, <3>2, RecShape DEF Publish, Clear, Mark, TypeOK, Rec
    <3>3. QED
      BY <2>1, <3>1, <3>2 DEF ProcessMediaAsset, Load, Read, Spoil, Put, ReadCopies, DeleteCopies, Die
  <2>4. QED
    BY <2>2, <2>3, KeptAtRest
<1>5. CASE UNCHANGED vars
  <2>1. UNCHANGED <<rec, desk, halfway, original, shown>>
    BY <1>5 DEF vars
  <2>2. QED
    BY <2>1, KeptAtRest
<1>6. QED
  BY <1>1, <1>2, <1>3, <1>4, <1>5 DEF Next, Use

\* A job that comes back finds the file it was requested for, however completions, jobs,
\* pages and removals overlap, unless a removal has deleted it, whose next step deletes
\* the row, or one broke off there.  The removal may be retention's, decided on before
\* the upload was submitted: nothing is promised against that.
THEOREM JobFindsItsFile == Spec => []SubmittedIsKept
<1>1. Init => KeptInv
  BY DEF Init, KeptInv, Unshown, Kept, Has, Doing, On, Asset
<1>2. IInv /\ KeptInv => SubmittedIsKept
  <2> SUFFICES ASSUME IInv, KeptInv, NEW a \in Image \ halfway, Has(a, "quarantined"), rec[a].checked
               PROVE  a \in original \/ \E d \in Desk : At(d, "remove", "deleted") /\ desk[d].asset = a
    BY DEF SubmittedIsKept
  <2>1. Kept(a)
    BY DEF KeptInv
  <2>2. QED
    BY <2>1 DEF Kept, Submitted, Lost, Doing, On, At
<1>3. QED
  BY <1>1, <1>2, KeptNext, InductiveInvariant, PTL DEF Spec

=============================================================================
