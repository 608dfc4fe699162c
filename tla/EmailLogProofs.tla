---------------------------- MODULE EmailLogProofs ----------------------------
(***************************************************************************)
(* Proofs about EmailLog: for any number of deliveries, letters, messages, *)
(* events and webhook requests, and any selection of verdicts.             *)
(***************************************************************************)
EXTENDS EmailLog, TLAPS

\* Until its outcome is noted a delivery is as it was recorded, and its letter is
\* with the provider only if the attempt knows it or is excused; what has a message
\* has been sent and noted.
SenderFit(r) ==
  LET step == sender[r].step
  IN /\ step = "idle" => entry[r] = None
     /\ step \in {"sending", "accepted", "refused", "unsent"} /\ entry[r] # None =>
          entry[r].status = "queued" /\ entry[r].message = None /\ entry[r].said = {}
     /\ step \in {"idle", "sending"} => r \notin posted
     /\ step = "accepted" => r \in posted
     /\ step = "refused" /\ r \notin excused => r \notin posted
     /\ entry[r] # None /\ entry[r].message # None => step = "over" /\ r \in posted

SendersFit == \A r \in Row : SenderFit(r)

\* A handler works on a delivery that has a message; unless another works on it too,
\* the delivery still has the status that was read.
HandlerFit(h) ==
  LET a == handler[h]
  IN a # None =>
       /\ entry[a.row] # None /\ entry[a.row].message # None /\ reports[a.event] # None
       /\ a.row \notin mixed => a.seen = entry[a.row].status

HandlersFit == \A h \in Handler : HandlerFit(h)

\* A delivery that is not mixed has one handler.
OneHandler ==
  \A g, h \in Handler :
    handler[g] # None /\ handler[h] # None /\ handler[g].row = handler[h].row /\ handler[g].row \notin mixed
      => g = h

DeskFits == desk # None => entry[desk] # None

IInv ==
  /\ TypeOK /\ SendersFit /\ HandlersFit /\ OneHandler /\ DeskFits
  /\ StatusIsMostMeaningful /\ LogIsTrue

-----------------------------------------------------------------------------
\* Data.

LEMMA Ranks ==
  /\ Status = {"queued", "delayed", "sent", "delivered", "failed", "bounced", "complained", "suppressed"}
  /\ \A s \in Status : Rank[s] \in Nat
  BY DEF Status, Rank

LEMMA EntryShape ==
  ASSUME TypeOK, NEW r \in Row
  PROVE  /\ entry[r] # None <=> entry[r] \in Entry
         /\ entry[r] # None =>
              /\ entry[r].letter \in Letter /\ entry[r].status \in Status
              /\ entry[r].message \in Message \cup {None} /\ entry[r].said \in SUBSET Status
              /\ entry[r].from \in Row \cup {None}
  BY NoneAssumption DEF TypeOK, Entry

LEMMA EntryWith ==
  ASSUME NEW e \in Entry, NEW t \in SUBSET Status, NEW s \in Status
  PROVE  [e EXCEPT !.said = t, !.status = s] =
           [letter |-> e.letter, status |-> s, message |-> e.message, said |-> t, from |-> e.from]
<1> DEFINE x == [e EXCEPT !.said = t, !.status = s]
<1>1. x \in Entry /\ x.said = t /\ x.status = s
  BY DEF Entry
<1>2. x.letter = e.letter /\ x.message = e.message /\ x.from = e.from
  BY DEF Entry
<1> HIDE DEF x
<1>3. x = [letter |-> x.letter, status |-> x.status, message |-> x.message, said |-> x.said, from |-> x.from]
  BY <1>1 DEF Entry
<1>4. QED
  BY <1>1, <1>2, <1>3 DEF x

LEMMA HandlingShape ==
  ASSUME TypeOK, NEW h \in Handler, handler[h] # None
  PROVE  /\ handler[h].event \in Event /\ handler[h].row \in Row /\ handler[h].seen \in Status
         /\ handler[h] \in Handling
  BY DEF TypeOK, Handling

LEMMA ReportShape ==
  ASSUME TypeOK, NEW e \in Event, reports[e] # None
  PROVE  reports[e].message \in Message /\ reports[e].says \in Verdict /\ reports[e].says \in Status \ {"queued"}
  BY EmailAssumption DEF TypeOK, Report

LEMMA SenderShape ==
  ASSUME TypeOK, NEW r \in Row
  PROVE  /\ sender[r] \in Sending
         /\ sender[r].step \in {"idle", "sending", "accepted", "refused", "over", "unsent"}
         /\ sender[r].letter \in Letter \cup {None} /\ sender[r].message \in Message \cup {None}
  BY DEF TypeOK, Sending

\* The status of which an event takes a delivery, with nothing read too early.
LEMMA MovedUp ==
  ASSUME NEW s \in Status, NEW v \in Status \ {"queued"}, NEW seen \in Status
  PROVE  /\ Moved(s, seen, v) \in {s, v}
         /\ s # "queued" => Moved(s, seen, v) # "queued"
         /\ seen = s => Rank[v] <= Rank[Moved(s, seen, v)] /\ Rank[s] <= Rank[Moved(s, seen, v)]
  BY Ranks DEF Moved

-----------------------------------------------------------------------------
\* Rows, one at a time.

Meaningful(r) ==
  entry[r] # None /\ r \notin mixed =>
    /\ entry[r].status \in entry[r].said \cup {"queued"}
    /\ \A s \in entry[r].said : Rank[s] <= Rank[entry[r].status]

Truthful(r) ==
  entry[r] # None /\ sender[r].step = "over" /\ r \notin excused =>
    /\ entry[r].status # "queued"
    /\ r \in posted <=> "sent" \in entry[r].said

RowFit(r) == SenderFit(r) /\ Meaningful(r) /\ Truthful(r)

LEMMA ByRows == IInv <=> TypeOK /\ HandlersFit /\ OneHandler /\ DeskFits /\ \A r \in Row : RowFit(r)
  BY DEF IInv, SendersFit, StatusIsMostMeaningful, LogIsTrue, RowFit, Meaningful, Truthful

LEMMA SameRow ==
  ASSUME NEW r \in Row, RowFit(r), entry'[r] = entry[r], sender'[r] = sender[r],
         r \in posted' <=> r \in posted, r \in excused => r \in excused', r \in mixed => r \in mixed'
  PROVE  RowFit(r)'
  BY DEF RowFit, SenderFit, Meaningful, Truthful

\* A step of a sender concerns one row, and no row that has a message.
LEMMA SenderStep ==
  ASSUME IInv, TypeOK', NEW r \in Row, RowFit(r)',
         \A q \in Row \ {r} : entry'[q] = entry[q] /\ sender'[q] = sender[q],
         \A q \in Row \ {r} : (q \in posted' <=> q \in posted) /\ (q \in excused => q \in excused'),
         UNCHANGED <<reports, handler, desk, mixed>>,
         entry[r] # None => entry'[r] # None,
         entry[r] # None /\ entry[r].message # None => entry'[r] = entry[r]
  PROVE  IInv'
<1>1. \A q \in Row : RowFit(q)'
  <2>1. ASSUME NEW q \in Row \ {r} PROVE RowFit(q)'
    BY <2>1, ByRows, SameRow
  <2>2. QED
    BY <2>1
<1>2. HandlersFit'
  <2>1. ASSUME NEW h \in Handler, handler[h] # None PROVE HandlerFit(h)'
    <3>1. handler[h].row \in Row
      BY <2>1, HandlingShape DEF IInv
    <3>2. HandlerFit(h)
      BY ByRows DEF HandlersFit
    <3>3. entry'[handler[h].row] = entry[handler[h].row]
      BY <2>1, <3>1, <3>2 DEF HandlerFit
    <3>4. QED
      BY <2>1, <3>2, <3>3 DEF HandlerFit
  <2>2. QED
    BY <2>1 DEF HandlersFit, HandlerFit
<1>3. OneHandler'
  BY ByRows DEF OneHandler
<1>4. DeskFits'
  BY DEF IInv, DeskFits, TypeOK
<1>5. QED
  BY <1>1, <1>2, <1>3, <1>4
  DEF IInv, SendersFit, StatusIsMostMeaningful, LogIsTrue, RowFit, Meaningful, Truthful

-----------------------------------------------------------------------------
\* Senders.

LEMMA RecordKeeps ==
  ASSUME IInv, NEW r \in Row, NEW l \in Letter, Record(r, l)
  PROVE  IInv'
<1> DEFINE new == [letter |-> l, status |-> "queued", message |-> None, said |-> {}, from |-> None]
<1>1. new \in Entry /\ new # None
  <2>1. new \in Entry
    BY Ranks DEF Entry
  <2>2. QED
    BY <2>1, NoneAssumption
<1>2. entry[r] = None /\ r \notin posted
  BY DEF Record, Unused, IInv, SendersFit, SenderFit
<1>3. [step |-> "sending", letter |-> l, message |-> None] \in Sending
  BY DEF Sending
<1> HIDE DEF new
<1>4. /\ entry' \in [Row -> Entry \cup {None}] /\ entry'[r] \in {new, None}
      /\ \A q \in Row \ {r} : entry'[q] = entry[q]
  BY <1>1, <1>2 DEF Record, IInv, TypeOK, new
<1>5. /\ sender' \in [Row -> Sending] /\ sender'[r].step = "sending"
      /\ \A q \in Row \ {r} : sender'[q] = sender[q]
  BY <1>3 DEF Record, IInv, TypeOK
<1>6. posted' = posted /\ excused' = excused /\ UNCHANGED <<taken, reports, applied, handler, desk, mixed>>
  BY DEF Record, outside
<1>7. TypeOK'
  BY <1>4, <1>5, <1>6 DEF IInv, TypeOK
<1>8. RowFit(r)'
  BY <1>1, <1>2, <1>4, <1>5, <1>6 DEF RowFit, SenderFit, Meaningful, Truthful, new
<1>9. QED
  BY <1>2, <1>4, <1>5, <1>6, <1>7, <1>8, SenderStep

\* Of a step of a sender that leaves the record alone.
LEMMA QuietSender ==
  ASSUME IInv, NEW r \in Row, UNCHANGED <<entry, reports, applied, handler, desk, mixed>>,
         taken' \in [Message -> Letter \cup {None}],
         NEW x \in Sending, sender' = [sender EXCEPT ![r] = x],
         x.step \in {"accepted", "refused", "over"},
         sender[r].step \in {"sending", "accepted", "refused"},
         posted' \in {posted, posted \cup {r}}, excused' \in {excused, excused \cup {r}},
         x.step = "accepted" => r \in posted',
         x.step = "refused" => r \in excused' \/ r \notin posted',
         x.step = "over" => r \in excused' \/ entry[r] = None
  PROVE  IInv'
<1>1. sender'[r] = x /\ \A q \in Row \ {r} : sender'[q] = sender[q]
  BY DEF IInv, TypeOK
<1>2. TypeOK'
  BY DEF IInv, TypeOK
<1>3. SenderFit(r)
  BY DEF IInv, SendersFit
<1>4. RowFit(r)'
  <2>1. SenderFit(r)'
    BY <1>1, <1>3 DEF SenderFit
  <2>2. Meaningful(r)'
    BY DEF IInv, StatusIsMostMeaningful, Meaningful
  <2>3. Truthful(r)'
    BY <1>1 DEF Truthful
  <2>4. QED
    BY <2>1, <2>2, <2>3 DEF RowFit
<1>5. QED
  BY <1>1, <1>2, <1>4, SenderStep

LEMMA TakeKeeps ==
  ASSUME IInv, NEW r \in Row, NEW m \in Message \cup {None}, Take(r, m)
  PROVE  IInv'
<1> DEFINE x == [sender[r] EXCEPT !.step = "accepted", !.message = m]
<1>1. x \in Sending /\ x.step = "accepted"
  BY SenderShape DEF IInv, Sending
<1>2. sender' = [sender EXCEPT ![r] = x] /\ sender[r].step = "sending"
  BY DEF Take
<1>3. taken' \in [Message -> Letter \cup {None}]
  BY EmailAssumption DEF Take, IInv, TypeOK, Letter
<1>4. UNCHANGED <<entry, reports, applied, handler, desk, mixed, excused>> /\ posted' = posted \cup {r}
  BY DEF Take
<1> HIDE DEF x
<1>5. QED
  BY <1>1, <1>2, <1>3, <1>4, QuietSender

LEMMA RejectKeeps ==
  ASSUME IInv, NEW r \in Row, Reject(r)
  PROVE  IInv'
<1> DEFINE x == [sender[r] EXCEPT !.step = "refused"]
<1>1. x \in Sending /\ x.step = "refused"
  BY SenderShape DEF IInv, Sending
<1>2. sender' = [sender EXCEPT ![r] = x] /\ sender[r].step = "sending" /\ r \notin posted
  BY DEF Reject, Turn, IInv, SendersFit, SenderFit
<1>3. UNCHANGED <<entry, posted, excused, taken, reports, applied, handler, desk, mixed>>
  BY DEF Reject, outside
<1>4. taken' \in [Message -> Letter \cup {None}]
  BY <1>3 DEF IInv, TypeOK
<1> HIDE DEF x
<1>5. QED
  BY <1>1, <1>2, <1>3, <1>4, QuietSender

LEMMA MisreadKeeps ==
  ASSUME IInv, NEW r \in Row, Misread(r)
  PROVE  IInv'
<1> DEFINE x == [sender[r] EXCEPT !.step = "refused"]
<1>1. x \in Sending /\ x.step = "refused"
  BY SenderShape DEF IInv, Sending
<1>2. sender' = [sender EXCEPT ![r] = x] /\ sender[r].step \in {"sending", "accepted"}
  BY DEF Misread, Turn
<1>3. /\ UNCHANGED <<entry, taken, reports, applied, handler, desk, mixed>>
      /\ posted' = posted \cup {r} /\ excused' = excused \cup {r}
  BY DEF Misread, outside
<1>4. taken' \in [Message -> Letter \cup {None}]
  BY <1>3 DEF IInv, TypeOK
<1> HIDE DEF x
<1>5. QED
  BY <1>1, <1>2, <1>3, <1>4, QuietSender

LEMMA DieKeeps ==
  ASSUME IInv, NEW r \in Row, Die(r)
  PROVE  IInv'
<1> DEFINE x == [sender[r] EXCEPT !.step = "over"]
<1>1. x \in Sending /\ x.step = "over"
  BY SenderShape DEF IInv, Sending
<1>2. sender' = [sender EXCEPT ![r] = x] /\ sender[r].step \in {"sending", "accepted", "refused"}
  BY DEF Die, Turn
<1>3. UNCHANGED <<entry, posted, taken, reports, applied, handler, desk, mixed>> /\ excused' = excused \cup {r}
  BY DEF Die, outside
<1>4. taken' \in [Message -> Letter \cup {None}]
  BY <1>3 DEF IInv, TypeOK
<1> HIDE DEF x
<1>5. QED
  BY <1>1, <1>2, <1>3, <1>4, QuietSender

LEMMA NoteKeeps ==
  ASSUME IInv, NEW r \in Row, Note(r)
  PROVE  IInv'
<1> DEFINE x == [sender[r] EXCEPT !.step = "over"]
<1>1. x \in Sending /\ x.step = "over"
  BY SenderShape DEF IInv, Sending
<1>2. sender' = [sender EXCEPT ![r] = x] /\ sender[r].step \in {"accepted", "refused"}
  BY DEF Note, Turn, Accept, Fail, Unrecorded
<1>3. UNCHANGED <<posted, taken, reports, applied, handler, desk, mixed>>
  BY DEF Note, outside
<1>4. taken' \in [Message -> Letter \cup {None}]
  BY <1>3 DEF IInv, TypeOK
<1> HIDE DEF x
<1>5. CASE UNCHANGED entry /\ (entry[r] = None \/ excused' = excused \cup {r}) /\ excused' \in {excused, excused \cup {r}}
  BY <1>1, <1>2, <1>3, <1>4, <1>5, QuietSender
<1>6. ASSUME NEW m \in Message \cup {None}, NEW s \in {"sent", "failed"}, entry[r] # None,
             sender[r].step = (IF s = "sent" THEN "accepted" ELSE "refused"), s = "failed" => m = None,
             entry' = [entry EXCEPT ![r].status = s, ![r].message = m, ![r].said = @ \cup {s}],
             UNCHANGED excused
      PROVE  IInv'
  <2>1. entry[r] \in Entry /\ entry[r].said = {} /\ entry[r].status = "queued" /\ entry[r].message = None
    BY <1>2, <1>6, EntryShape DEF IInv, SendersFit, SenderFit
  <2>2. entry'[r] = [letter |-> entry[r].letter, status |-> s, message |-> m, said |-> {s}, from |-> entry[r].from]
    <3>1. entry'[r] = [entry[r] EXCEPT !.status = s, !.message = m, !.said = @ \cup {s}]
      BY <1>6 DEF IInv, TypeOK
    <3>2. QED
      BY <2>1, <3>1 DEF Entry
  <2>3. entry'[r] \in Entry /\ entry'[r] # None
    <3>1. entry'[r] \in Entry
      <4>1. entry[r].letter \in Letter /\ entry[r].from \in Row \cup {None}
        BY <1>6, EntryShape DEF IInv
      <4>2. s \in Status /\ {s} \in SUBSET Status
        BY Ranks
      <4>3. m \in Message \cup {None}
        OBVIOUS
      <4>4. QED
        BY <2>2, <4>1, <4>2, <4>3 DEF Entry
    <3>2. QED
      BY <3>1, NoneAssumption
  <2>4. entry'[r].status = s /\ entry'[r].said = {s} /\ entry'[r].message = m
    BY <2>2
  <2>5. \A q \in Row \ {r} : entry'[q] = entry[q] /\ sender'[q] = sender[q]
    BY <1>2, <1>6 DEF IInv, TypeOK
  <2>6. sender'[r] = x
    BY <1>2 DEF IInv, TypeOK
  <2>7. TypeOK'
    <3>1. entry' \in [Row -> Entry \cup {None}]
      BY <1>6, <2>3, <2>5 DEF IInv, TypeOK
    <3>2. sender' \in [Row -> Sending]
      BY <1>1, <1>2 DEF IInv, TypeOK
    <3>3. QED
      BY <1>3, <1>6, <3>1, <3>2 DEF IInv, TypeOK
  <2>8. SenderFit(r)
    BY DEF IInv, SendersFit
  <2>9. (s = "sent" => r \in posted) /\ (s = "failed" /\ r \notin excused => r \notin posted)
    BY <1>6, <2>8 DEF SenderFit
  <2>10. RowFit(r)'
    <3>1. SenderFit(r)'
      BY <1>1, <1>3, <1>6, <2>3, <2>4, <2>6, <2>9 DEF SenderFit
    <3>2. Meaningful(r)'
      BY <2>4, Ranks DEF Meaningful
    <3>3. Truthful(r)'
      BY <1>3, <1>6, <2>4, <2>9 DEF Truthful
    <3>4. QED
      BY <3>1, <3>2, <3>3 DEF RowFit
  <2>11. QED
    BY <1>3, <1>6, <2>1, <2>3, <2>5, <2>7, <2>10, SenderStep
<1>7. CASE Unrecorded(r)
  BY <1>5, <1>7 DEF Unrecorded
<1>8. CASE Fail(r)
  <2>1. entry[r] # None /\ sender[r].step = "refused" /\ entry[r] \in Entry /\ entry[r].message = None
    BY <1>8, EntryShape DEF Fail, IInv, SendersFit, SenderFit
  <2>2. entry' = [entry EXCEPT ![r].status = "failed", ![r].message = None, ![r].said = @ \cup {"failed"}]
    BY <1>8, <2>1 DEF Fail, IInv, TypeOK, Entry
  <2>3. QED
    BY <1>6, <1>8, <2>1, <2>2 DEF Fail
<1>9. CASE Accept(r)
  <2>1. CASE Claimed(r)
    BY <1>5, <1>9, <2>1 DEF Accept
  <2>2. CASE ~Claimed(r)
    BY <1>6, <1>9, <2>2, SenderShape DEF Accept, IInv
  <2>3. QED
    BY <2>1, <2>2
<1>10. QED
  BY <1>7, <1>8, <1>9 DEF Note

-----------------------------------------------------------------------------
\* The provider.

LEMMA EmitKeeps ==
  ASSUME IInv, NEW e \in Event, NEW m \in Message, NEW v \in Verdict, Emit(e, m, v)
  PROVE  IInv'
<1> DEFINE new == [message |-> m, says |-> v]
<1>1. new \in Report /\ new # None
  BY NoneAssumption DEF Report
<1>2. reports' = [reports EXCEPT ![e] = new]
  BY DEF Emit
<1>3. UNCHANGED <<entry, sender, taken, applied, handler, desk, posted, excused, mixed>>
  BY DEF Emit
<1> HIDE DEF new
<1>4. TypeOK'
  BY <1>1, <1>2, <1>3 DEF IInv, TypeOK
<1>5. HandlersFit'
  <2>1. \A f \in Event : reports[f] # None => reports'[f] # None
    BY <1>1, <1>2 DEF IInv, TypeOK
  <2>2. QED
    BY <1>3, <2>1, HandlingShape DEF IInv, HandlersFit, HandlerFit
<1>6. \A r \in Row : RowFit(r)'
  BY <1>3, ByRows, SameRow
<1>7. OneHandler' /\ DeskFits'
  BY <1>3 DEF IInv, OneHandler, DeskFits
<1>8. QED
  BY <1>4, <1>5, <1>6, <1>7
  DEF IInv, SendersFit, StatusIsMostMeaningful, LogIsTrue, RowFit, Meaningful, Truthful

LEMMA ReceiveKeeps ==
  ASSUME IInv, NEW h \in Handler, NEW e \in Event, NEW r \in Row, Receive(h, e, r)
  PROVE  IInv'
<1> DEFINE new == [event |-> e, row |-> r, seen |-> entry[r].status]
<1>1. /\ handler[h] = None /\ reports[e] # None
      /\ entry[r] # None /\ entry[r].message = reports[e].message
      /\ handler' = [handler EXCEPT ![h] = new]
      /\ mixed' = IF \E g \in Handler : handler[g] # None /\ handler[g].row = r THEN mixed \cup {r} ELSE mixed
      /\ UNCHANGED <<entry, sender, taken, reports, applied, desk, posted, excused>>
  BY DEF Receive
<1>2. new \in Handling /\ new # None
  <2>1. new \in Handling
    BY <1>1, EntryShape DEF IInv, Handling
  <2>2. QED
    BY <2>1, NoneAssumption
<1>3. entry[r].message # None
  BY <1>1, ReportShape, EmailAssumption DEF IInv
<1>4. new.event = e /\ new.row = r /\ new.seen = entry[r].status
  OBVIOUS
<1> HIDE DEF new
<1>5. handler'[h] = new /\ \A g \in Handler \ {h} : handler'[g] = handler[g]
  BY <1>1 DEF IInv, TypeOK
<1>6. mixed \subseteq mixed' /\ TypeOK'
  BY <1>1, <1>2 DEF IInv, TypeOK
<1>7. HandlersFit'
  <2>1. ASSUME NEW g \in Handler \ {h} PROVE HandlerFit(g)'
    BY <1>1, <1>5, <1>6, <2>1 DEF IInv, HandlersFit, HandlerFit
  <2>2. HandlerFit(h)'
    BY <1>1, <1>3, <1>4, <1>5 DEF HandlerFit
  <2>3. QED
    BY <2>1, <2>2 DEF HandlersFit
<1>8. OneHandler'
  BY <1>1, <1>2, <1>4, <1>5, <1>6 DEF IInv, OneHandler
<1>9. \A q \in Row : RowFit(q)'
  BY <1>1, <1>6, ByRows, SameRow
<1>10. DeskFits'
  BY <1>1 DEF IInv, DeskFits
<1>11. QED
  BY <1>6, <1>7, <1>8, <1>9, <1>10
  DEF IInv, SendersFit, StatusIsMostMeaningful, LogIsTrue, RowFit, Meaningful, Truthful

\* Once a handler is done, the others are as they were.
LEMMA OneLess ==
  ASSUME IInv, NEW h \in Handler, handler' = [handler EXCEPT ![h] = None], mixed' = mixed
  PROVE  /\ handler' \in [Handler -> Handling \cup {None}]
         /\ handler'[h] = None /\ \A g \in Handler \ {h} : handler'[g] = handler[g]
         /\ OneHandler'
  BY DEF IInv, TypeOK, OneHandler

LEMMA DropKeeps ==
  ASSUME IInv, NEW h \in Handler, Drop(h)
  PROVE  IInv'
<1>1. /\ handler' = [handler EXCEPT ![h] = None]
      /\ UNCHANGED <<entry, sender, taken, reports, applied, desk, posted, excused, mixed>>
  BY DEF Drop
<1>2. /\ handler' \in [Handler -> Handling \cup {None}] /\ OneHandler'
      /\ handler'[h] = None /\ \A g \in Handler \ {h} : handler'[g] = handler[g]
  BY <1>1, OneLess
<1>3. TypeOK'
  BY <1>1, <1>2 DEF IInv, TypeOK
<1>4. HandlersFit'
  BY <1>1, <1>2 DEF IInv, HandlersFit, HandlerFit
<1>5. \A q \in Row : RowFit(q)'
  BY <1>1, ByRows, SameRow
<1>6. DeskFits'
  BY <1>1 DEF IInv, DeskFits
<1>7. QED
  BY <1>2, <1>3, <1>4, <1>5, <1>6
  DEF IInv, SendersFit, StatusIsMostMeaningful, LogIsTrue, RowFit, Meaningful, Truthful

LEMMA ApplyKeeps ==
  ASSUME IInv, NEW h \in Handler, Apply(h)
  PROVE  IInv'
<1> DEFINE a == handler[h]
           v == reports[a.event].says
<1>0. PICK r \in Row : r = a.row
  BY HandlingShape DEF IInv, Apply
<1> DEFINE new == [entry[r] EXCEPT !.said = @ \cup {v}, !.status = Moved(@, a.seen, v)]
<1>1. /\ a # None /\ handler' = [handler EXCEPT ![h] = None]
      /\ UNCHANGED <<sender, taken, reports, desk, posted, excused, mixed>>
      /\ \/ UNCHANGED <<applied, entry>>
         \/ /\ applied' = [applied EXCEPT ![a.event] = r]
            /\ entry' = [entry EXCEPT ![r] = new]
  BY <1>0 DEF Apply
<1>2. /\ handler' \in [Handler -> Handling \cup {None}] /\ OneHandler'
      /\ handler'[h] = None /\ \A g \in Handler \ {h} : handler'[g] = handler[g]
  BY <1>1, OneLess
<1>3. a.event \in Event /\ a.row = r /\ a.seen \in Status
  BY <1>0, <1>1, HandlingShape DEF IInv
<1>4. /\ entry[r] # None /\ entry[r].message # None /\ reports[a.event] # None
      /\ r \notin mixed => a.seen = entry[r].status
  BY <1>0, <1>1 DEF IInv, HandlersFit, HandlerFit
<1>5. v \in Status \ {"queued"}
  BY <1>3, <1>4, ReportShape DEF IInv
<1>6. /\ entry[r] \in Entry /\ entry[r].status \in Status /\ entry[r].said \in SUBSET Status
      /\ entry[r].letter \in Letter /\ entry[r].message \in Message \cup {None} /\ entry[r].from \in Row \cup {None}
  BY <1>3, <1>4, EntryShape DEF IInv
<1>7. sender[r].step = "over" /\ r \in posted
  BY <1>3, <1>4 DEF IInv, SendersFit, SenderFit
<1>8. new = [letter |-> entry[r].letter, status |-> Moved(entry[r].status, a.seen, v), message |-> entry[r].message,
             said |-> entry[r].said \cup {v}, from |-> entry[r].from]
  <2>1. Moved(entry[r].status, a.seen, v) \in Status
    BY <1>3, <1>5, <1>6, MovedUp
  <2>2. entry[r].said \cup {v} \in SUBSET Status
    BY <1>5, <1>6
  <2>3. QED
    BY <1>6, <2>1, <2>2, EntryWith
<1> HIDE DEF new, v, a
<1>9. /\ Moved(entry[r].status, a.seen, v) \in {entry[r].status, v}
      /\ entry[r].status # "queued" => Moved(entry[r].status, a.seen, v) # "queued"
      /\ a.seen = entry[r].status => /\ Rank[v] <= Rank[Moved(entry[r].status, a.seen, v)]
                                     /\ Rank[entry[r].status] <= Rank[Moved(entry[r].status, a.seen, v)]
  BY <1>3, <1>5, <1>6, MovedUp
<1>10. CASE UNCHANGED <<applied, entry>>
  <2>1. TypeOK'
    BY <1>1, <1>2, <1>10 DEF IInv, TypeOK
  <2>2. HandlersFit'
    BY <1>1, <1>2, <1>10 DEF IInv, HandlersFit, HandlerFit
  <2>3. \A q \in Row : RowFit(q)'
    BY <1>1, <1>10, ByRows, SameRow
  <2>4. DeskFits'
    BY <1>1, <1>10 DEF IInv, DeskFits
  <2>5. QED
    BY <1>2, <2>1, <2>2, <2>3, <2>4
    DEF IInv, SendersFit, StatusIsMostMeaningful, LogIsTrue, RowFit, Meaningful, Truthful
<1>11. ASSUME applied' = [applied EXCEPT ![a.event] = r], entry' = [entry EXCEPT ![r] = new]
       PROVE  IInv'
  <2>1. entry'[r] = new /\ \A q \in Row \ {r} : entry'[q] = entry[q]
    BY <1>3, <1>11 DEF IInv, TypeOK
  <2>2. new \in Entry /\ new # None
    <3>1. Moved(entry[r].status, a.seen, v) \in Status /\ entry[r].said \cup {v} \in SUBSET Status
      BY <1>5, <1>6, <1>9
    <3>2. new \in Entry
      BY <1>6, <1>8, <3>1 DEF Entry
    <3>3. QED
      BY <3>2, NoneAssumption
  <2>3. /\ new.status = Moved(entry[r].status, a.seen, v) /\ new.said = entry[r].said \cup {v}
        /\ new.message = entry[r].message
    BY <1>8
  <2>4. TypeOK'
    <3>1. entry' \in [Row -> Entry \cup {None}] /\ applied' \in [Event -> Row \cup {None}]
      BY <1>3, <1>11, <2>2 DEF IInv, TypeOK
    <3>2. QED
      BY <1>1, <1>2, <3>1 DEF IInv, TypeOK
  <2>5. HandlersFit'
    <3>1. ASSUME NEW g \in Handler \ {h}, handler[g] # None PROVE HandlerFit(g)'
      <4>1. HandlerFit(g) /\ handler[g].row \in Row
        BY <3>1, HandlingShape DEF IInv, HandlersFit
      <4>2. handler[g].row = r => r \in mixed
        BY <1>0, <1>1, <3>1 DEF IInv, OneHandler, a
      <4>3. QED
        BY <1>1, <1>2, <1>4, <2>1, <2>2, <2>3, <4>1, <4>2 DEF HandlerFit
    <3>2. QED
      BY <1>2, <3>1 DEF HandlersFit, HandlerFit
  <2>6. \A q \in Row : RowFit(q)'
    <3>1. ASSUME NEW q \in Row \ {r} PROVE RowFit(q)'
      BY <1>1, <2>1, <3>1, ByRows, SameRow
    <3>2. SenderFit(r)'
      BY <1>1, <1>7, <2>1, <2>2 DEF SenderFit
    <3>3. RowFit(r)
      BY <1>3, ByRows
    <3>4. Meaningful(r)'
      <4>1. SUFFICES ASSUME r \notin mixed
                     PROVE  /\ new.status \in new.said \cup {"queued"}
                            /\ \A s \in new.said : Rank[s] <= Rank[new.status]
        BY <1>1, <2>1 DEF Meaningful
      <4>2. /\ entry[r].status \in entry[r].said \cup {"queued"}
            /\ \A s \in entry[r].said : Rank[s] <= Rank[entry[r].status]
        BY <1>4, <3>3, <4>1 DEF RowFit, Meaningful
      <4>3. Rank[v] <= Rank[new.status] /\ Rank[entry[r].status] <= Rank[new.status]
        BY <1>4, <1>9, <2>3, <4>1
      <4>4. new.status \in Status
        BY <1>5, <1>6, <1>9, <2>3
      <4>5. \A s \in entry[r].said : Rank[s] \in Nat /\ Rank[entry[r].status] \in Nat /\ Rank[new.status] \in Nat
        BY <1>6, <4>4, Ranks
      <4>6. \A s \in entry[r].said : Rank[s] <= Rank[new.status]
        BY <4>2, <4>3, <4>5
      <4>7. QED
        BY <1>9, <2>3, <4>2, <4>3, <4>6
    <3>5. Truthful(r)'
      BY <1>1, <1>4, <1>7, <1>9, <2>1, <2>3, <3>3 DEF RowFit, Truthful
    <3>6. QED
      BY <3>1, <3>2, <3>4, <3>5 DEF RowFit
  <2>7. DeskFits'
    BY <1>1, <2>1, <2>2 DEF IInv, DeskFits, TypeOK
  <2>8. QED
    BY <1>2, <2>4, <2>5, <2>6, <2>7
    DEF IInv, SendersFit, StatusIsMostMeaningful, LogIsTrue, RowFit, Meaningful, Truthful
<1>12. QED
  BY <1>1, <1>10, <1>11

-----------------------------------------------------------------------------
\* The log's own operations.

LEMMA AskKeeps ==
  ASSUME IInv, NEW r \in Row, Ask(r)
  PROVE  IInv'
<1>1. /\ entry[r] # None /\ desk' = r
      /\ UNCHANGED <<entry, sender, taken, reports, applied, handler, posted, excused, mixed>>
  BY DEF Ask
<1>2. TypeOK' /\ OneHandler' /\ DeskFits'
  BY <1>1 DEF IInv, TypeOK, OneHandler, DeskFits
<1>3. HandlersFit'
  BY <1>1 DEF IInv, HandlersFit, HandlerFit
<1>4. \A q \in Row : RowFit(q)'
  BY <1>1, ByRows, SameRow
<1>5. QED
  BY <1>2, <1>3, <1>4
  DEF IInv, SendersFit, StatusIsMostMeaningful, LogIsTrue, RowFit, Meaningful, Truthful

LEMMA ReplaceKeeps ==
  ASSUME IInv, NEW r \in Row, Replace(r)
  PROVE  IInv'
<1> DEFINE l == entry[desk].letter
           new == [letter |-> l, status |-> "queued", message |-> None, said |-> {}, from |-> desk]
           x == [step |-> "unsent", letter |-> l, message |-> None]
<1>1. /\ desk # None /\ desk' = None /\ sender[r].step = "idle"
      /\ entry' = [entry EXCEPT ![r] = new] /\ sender' = [sender EXCEPT ![r] = x]
      /\ UNCHANGED <<taken, reports, applied, handler, posted, excused, mixed>>
  BY DEF Replace, Unused
<1>2. desk \in Row /\ entry[desk] # None
  BY <1>1 DEF IInv, TypeOK, DeskFits
<1>3. l \in Letter
  BY <1>2, EntryShape DEF IInv
<1>4. new \in Entry /\ new # None /\ x \in Sending
  <2>1. new \in Entry
    BY <1>2, <1>3, Ranks DEF Entry
  <2>2. QED
    BY <1>3, <2>1, NoneAssumption DEF Sending
<1>5. entry[r] = None /\ r \notin posted
  BY <1>1 DEF IInv, SendersFit, SenderFit
<1>6. new.status = "queued" /\ new.message = None /\ new.said = {} /\ x.step = "unsent"
  OBVIOUS
<1> HIDE DEF new, x, l
<1>7. /\ entry'[r] = new /\ \A q \in Row \ {r} : entry'[q] = entry[q]
      /\ sender'[r] = x /\ \A q \in Row \ {r} : sender'[q] = sender[q]
  BY <1>1 DEF IInv, TypeOK
<1>8. TypeOK'
  BY <1>1, <1>4 DEF IInv, TypeOK
<1>9. \A q \in Row : RowFit(q)'
  <2>1. ASSUME NEW q \in Row \ {r} PROVE RowFit(q)'
    BY <1>1, <1>7, ByRows, SameRow
  <2>2. RowFit(r)'
    BY <1>1, <1>5, <1>6, <1>7 DEF RowFit, SenderFit, Meaningful, Truthful
  <2>3. QED
    BY <2>1, <2>2
<1>10. HandlersFit'
  <2>1. ASSUME NEW g \in Handler, handler[g] # None PROVE HandlerFit(g)'
    <3>1. HandlerFit(g) /\ handler[g].row \in Row
      BY <2>1, HandlingShape DEF IInv, HandlersFit
    <3>2. handler[g].row # r
      BY <1>5, <2>1, <3>1 DEF HandlerFit
    <3>3. QED
      BY <1>1, <1>7, <3>1, <3>2 DEF HandlerFit
  <2>2. QED
    BY <1>1, <2>1 DEF HandlersFit, HandlerFit
<1>11. OneHandler' /\ DeskFits'
  BY <1>1 DEF IInv, OneHandler, DeskFits
<1>12. QED
  BY <1>8, <1>9, <1>10, <1>11
  DEF IInv, SendersFit, StatusIsMostMeaningful, LogIsTrue, RowFit, Meaningful, Truthful

LEMMA PurgeKeeps ==
  ASSUME IInv, NEW r \in Row, Purge(r)
  PROVE  IInv'
<1>1. /\ entry[r] # None /\ sender[r].step \in {"over", "unsent"} /\ desk # r
      /\ \A h \in Handler : handler[h] # None => handler[h].row # r
      /\ entry' = [q \in Row |-> IF q = r THEN None ELSE Without(r, q)]
      /\ applied' = [e \in Event |-> IF applied[e] = r THEN None ELSE applied[e]]
      /\ UNCHANGED <<sender, taken, reports, handler, desk, posted, excused, mixed>>
  BY DEF Purge
<1>2. ASSUME NEW q \in Row \ {r}, entry[q] # None
      PROVE  /\ entry'[q] \in Entry /\ entry'[q] # None
             /\ entry'[q].status = entry[q].status /\ entry'[q].message = entry[q].message
             /\ entry'[q].said = entry[q].said
  <2>1. entry'[q] = entry[q] \/ entry'[q] = [entry[q] EXCEPT !.from = None]
    BY <1>1, <1>2 DEF Without
  <2>2. entry[q] \in Entry
    BY <1>2, EntryShape DEF IInv
  <2>3. entry'[q] \in Entry /\ entry'[q].status = entry[q].status /\ entry'[q].message = entry[q].message
          /\ entry'[q].said = entry[q].said
    BY <2>1, <2>2 DEF Entry
  <2>4. QED
    BY <2>3, NoneAssumption
<1>3. entry'[r] = None /\ \A q \in Row \ {r} : entry[q] = None => entry'[q] = None
  BY <1>1 DEF Without
<1>4. TypeOK'
  <2>1. \A q \in Row : entry'[q] \in Entry \cup {None}
    BY <1>2, <1>3
  <2>2. entry' \in [Row -> Entry \cup {None}]
    BY <1>1, <2>1
  <2>3. applied' \in [Event -> Row \cup {None}]
    BY <1>1 DEF IInv, TypeOK
  <2>4. QED
    BY <1>1, <2>2, <2>3 DEF IInv, TypeOK
<1>5. \A q \in Row : RowFit(q)'
  <2>1. ASSUME NEW q \in Row \ {r} PROVE RowFit(q)'
    <3>1. RowFit(q)
      BY ByRows
    <3>2. CASE entry[q] = None
      BY <1>1, <1>3, <3>1, <3>2 DEF RowFit, SenderFit, Meaningful, Truthful
    <3>3. CASE entry[q] # None
      BY <1>1, <1>2, <3>1, <3>3 DEF RowFit, SenderFit, Meaningful, Truthful
    <3>4. QED
      BY <3>2, <3>3
  <2>2. RowFit(r)'
    BY <1>1, <1>3, ByRows DEF RowFit, SenderFit, Meaningful, Truthful
  <2>3. QED
    BY <2>1, <2>2
<1>6. HandlersFit'
  <2>1. ASSUME NEW g \in Handler, handler[g] # None PROVE HandlerFit(g)'
    <3>1. HandlerFit(g) /\ handler[g].row \in Row \ {r}
      BY <1>1, <2>1, HandlingShape DEF IInv, HandlersFit
    <3>2. QED
      BY <1>1, <1>2, <2>1, <3>1 DEF HandlerFit
  <2>2. QED
    BY <1>1, <2>1 DEF HandlersFit, HandlerFit
<1>7. OneHandler'
  BY <1>1 DEF IInv, OneHandler
<1>8. DeskFits'
  BY <1>1, <1>2 DEF IInv, DeskFits, TypeOK
<1>9. QED
  BY <1>4, <1>5, <1>6, <1>7, <1>8
  DEF IInv, SendersFit, StatusIsMostMeaningful, LogIsTrue, RowFit, Meaningful, Truthful

-----------------------------------------------------------------------------
LEMMA InitInv == Init => IInv
<1> SUFFICES ASSUME Init PROVE IInv
  OBVIOUS
<1>1. TypeOK
  BY DEF Init, TypeOK, Sending
<1>2. HandlersFit /\ OneHandler /\ DeskFits
  BY DEF Init, HandlersFit, HandlerFit, OneHandler, DeskFits
<1>3. SendersFit
  BY DEF Init, SendersFit, SenderFit
<1>4. StatusIsMostMeaningful /\ LogIsTrue
  BY DEF Init, StatusIsMostMeaningful, LogIsTrue
<1>5. QED
  BY <1>1, <1>2, <1>3, <1>4 DEF IInv

LEMMA NextInv == IInv /\ [Next]_vars => IInv'
<1> SUFFICES ASSUME IInv, [Next]_vars PROVE IInv'
  OBVIOUS
<1>1. CASE Send
  BY <1>1, RecordKeeps, TakeKeeps, RejectKeeps, MisreadKeeps, NoteKeeps, DieKeeps DEF Send
<1>2. CASE Listen
  BY <1>2, EmitKeeps, ApplyKeeps, DropKeeps, ReceiveKeeps DEF Listen
<1>3. CASE Keep
  BY <1>3, AskKeeps, ReplaceKeeps, PurgeKeeps DEF Keep
<1>4. CASE UNCHANGED vars
  <2>1. TypeOK' /\ OneHandler' /\ DeskFits' /\ HandlersFit'
    BY <1>4 DEF IInv, vars, TypeOK, OneHandler, DeskFits, HandlersFit, HandlerFit
  <2>2. \A q \in Row : RowFit(q)'
    BY <1>4, ByRows, SameRow DEF vars
  <2>3. QED
    BY <2>1, <2>2
    DEF IInv, SendersFit, StatusIsMostMeaningful, LogIsTrue, RowFit, Meaningful, Truthful
<1>5. QED
  BY <1>1, <1>2, <1>3, <1>4 DEF Next

\* The invariant holds throughout.
THEOREM InductiveInvariant == Spec => []IInv
  BY InitInv, NextInv, PTL DEF Spec

\* Every variable keeps its type, whatever senders, the provider and the log's own
\* operations do.
THEOREM TypeCorrect == Spec => []TypeOK
<1>1. IInv => TypeOK
  BY DEF IInv
<1>2. QED
  BY <1>1, InductiveInvariant, PTL

\* However many events a delivery gets, in whatever order and however often, its
\* status is the most meaningful of them unless two were handled at once
\* (applyProviderEvent).
THEOREM StatusShowsTheMost == Spec => []StatusIsMostMeaningful
<1>1. IInv => StatusIsMostMeaningful
  BY DEF IInv
<1>2. QED
  BY <1>1, InductiveInvariant, PTL

\* The log of a finished attempt says sent if the provider took the letter, and
\* failed otherwise, for any number of attempts, unless an answer or a write was lost
\* or the message was another delivery's (markSent, markFailed).
THEOREM LogTellsTheTruth == Spec => []LogIsTrue
<1>1. IInv => LogIsTrue
  BY DEF IInv
<1>2. QED
  BY <1>1, InductiveInvariant, PTL

=============================================================================
