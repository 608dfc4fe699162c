------------------------------- MODULE EmailLog -------------------------------
(***************************************************************************)
(* The delivery log of transactional email.  Whoever sends a letter        *)
(* records it, hands it to the provider and notes the outcome in steps of  *)
(* their own; the provider reports on it later by signed events that may   *)
(* come twice, late and in any order, each handled by reading the delivery *)
(* first and then changing it in a transaction; an administrator may ask   *)
(* for another attempt; the retention task deletes what is old.            *)
(*                                                                         *)
(* How often a letter is tried, and when two attempts of an enquiry        *)
(* overlap, is decided by the queue (module EnquiryDelivery): here any     *)
(* attempt may begin at any time.  Addresses, subjects, times and failure  *)
(* texts are data no decision depends on.                                  *)
(***************************************************************************)
EXTENDS Naturals

CONSTANTS
  Row,      \* email_deliveries
  Enquiry,  \* letters of the worker, which the log offers to send again
  Auth,     \* letters of the API: password resets and invitations
  Message,  \* identifiers the provider gives
  Event,    \* events of the provider, by its own identifiers
  Verdict,  \* what they say
  Handler,  \* requests to the webhook handled at once
  None

Letter == Enquiry \cup Auth

\* STATUS_RANK
Rank == [queued |-> 0, delayed |-> 1, sent |-> 2, delivered |-> 3, failed |-> 4,
         bounced |-> 5, complained |-> 6, suppressed |-> 6]

Status == DOMAIN Rank

ResendRefused == {"delivered", "complained", "suppressed"}

ASSUME EmailAssumption ==
  /\ Verdict \subseteq Status \ {"queued"}  \* EVENT_STATUS
  /\ Enquiry \cap Auth = {}
  /\ None \notin Row \cup Message

\* said: the statuses whose own times the row holds.
Entry == [letter : Letter, status : Status, message : Message \cup {None},
          said : SUBSET Status, from : Row \cup {None}]

Sending == [step : {"idle", "sending", "accepted", "refused", "over", "unsent"},
            letter : Letter \cup {None}, message : Message \cup {None}]

Report == [message : Message, says : Verdict]

Handling == [event : Event, row : Row, seen : Status]

ASSUME NoneAssumption == None \notin Entry \cup Report \cup Handling

VARIABLES
  entry,    \* the rows of email_deliveries
  sender,   \* the attempt that a row stands for
  taken,    \* the provider: the letter behind each message it has taken
  reports,  \* the provider: the events it sends, any number of times
  applied,  \* email_delivery_events: the row of each event recorded
  handler,
  desk,     \* the row an administrator has been allowed to send again
  posted,   \* history: attempts whose letter the provider has taken
  excused,  \* history: attempts of which an answer or a write was lost
  mixed     \* history: rows that two handlers worked on at once

vars == <<entry, sender, taken, reports, applied, handler, desk, posted, excused, mixed>>
outside == <<taken, reports, applied, handler, desk, mixed>>

TypeOK ==
  /\ entry \in [Row -> Entry \cup {None}]
  /\ sender \in [Row -> Sending]
  /\ taken \in [Message -> Letter \cup {None}]
  /\ reports \in [Event -> Report \cup {None}]
  /\ applied \in [Event -> Row \cup {None}]
  /\ handler \in [Handler -> Handling \cup {None}]
  /\ desk \in Row \cup {None}
  /\ posted \subseteq Row /\ excused \subseteq Row /\ mixed \subseteq Row

-----------------------------------------------------------------------------
\* Whoever sends: the API (RecordingMailer) and the worker (deliverEnquiry).

Turn(r, step) == sender' = [sender EXCEPT ![r].step = step]

Unused(r) == sender[r].step = "idle"

\* The attempt is recorded, or the record cannot be written and the letter goes
\* all the same.
Record(r, l) ==
  /\ Unused(r)
  /\ sender' = [sender EXCEPT ![r] = [step |-> "sending", letter |-> l, message |-> None]]
  /\ \/ entry' = [entry EXCEPT ![r] =
          [letter |-> l, status |-> "queued", message |-> None, said |-> {}, from |-> None]]
     \/ UNCHANGED entry
  /\ UNCHANGED <<posted, excused>> /\ UNCHANGED outside

\* The provider takes the letter.  An enquiry goes under a key of its own, so that
\* the provider answers with the message it has already, or with another once it
\* has forgotten the key, or without any; the API asks for none.
Take(r, m) ==
  LET l == sender[r].letter
  IN /\ sender[r].step = "sending"
     /\ \/ m = None /\ UNCHANGED taken
        \/ m # None /\ l \in Enquiry /\ taken[m] \in {None, l} /\ taken' = [taken EXCEPT ![m] = l]
     /\ sender' = [sender EXCEPT ![r].step = "accepted", ![r].message = m]
     /\ posted' = posted \cup {r}
     /\ UNCHANGED <<entry, excused, reports, applied, handler, desk, mixed>>

\* The provider refuses, or cannot be reached.
Reject(r) ==
  /\ sender[r].step = "sending"
  /\ Turn(r, "refused")
  /\ UNCHANGED <<entry, posted, excused>> /\ UNCHANGED outside

\* The provider takes the letter and its answer is lost, or the enquiry cannot be
\* marked as accepted: what is caught is noted as a failure.
Misread(r) ==
  /\ \/ sender[r].step = "sending"
     \/ sender[r].step = "accepted" /\ sender[r].letter \in Enquiry
  /\ Turn(r, "refused")
  /\ posted' = posted \cup {r} /\ excused' = excused \cup {r}
  /\ UNCHANGED entry /\ UNCHANGED outside

\* A message identifies one delivery: the second one that claims it stays as it is.
Claimed(r) ==
  sender[r].message # None /\ \E q \in Row \ {r} : entry[q] # None /\ entry[q].message = sender[r].message

Accept(r) ==
  /\ sender[r].step = "accepted" /\ entry[r] # None
  /\ IF Claimed(r)
     THEN excused' = excused \cup {r} /\ UNCHANGED entry
     ELSE /\ entry' = [entry EXCEPT ![r].status = "sent", ![r].message = sender[r].message, ![r].said = @ \cup {"sent"}]
          /\ UNCHANGED excused

\* Mutant: a failure is left for the next attempt to note.
FailUnnoted(r) ==
  /\ sender[r].step = "refused" /\ entry[r] # None
  /\ UNCHANGED <<entry, excused>>

Fail(r) ==
  /\ sender[r].step = "refused" /\ entry[r] # None
  /\ entry' = [entry EXCEPT ![r].status = "failed", ![r].said = @ \cup {"failed"}]
  /\ UNCHANGED excused

\* Nothing to note, for want of a record.
Unrecorded(r) ==
  /\ sender[r].step \in {"accepted", "refused"} /\ entry[r] = None
  /\ UNCHANGED <<entry, excused>>

\* markSent and markFailed, and their like in the worker.
Note(r) ==
  /\ Accept(r) \/ Fail(r) \/ Unrecorded(r)
  /\ Turn(r, "over")
  /\ UNCHANGED posted /\ UNCHANGED outside

\* The process dies, or the outcome cannot be written, which is only logged.
Die(r) ==
  /\ sender[r].step \in {"sending", "accepted", "refused"}
  /\ Turn(r, "over")
  /\ excused' = excused \cup {r}
  /\ UNCHANGED <<entry, posted>> /\ UNCHANGED outside

Send ==
  \E r \in Row :
    \/ \E l \in Letter : Record(r, l)
    \/ \E m \in Message \cup {None} : Take(r, m)
    \/ Reject(r) \/ Misread(r) \/ Note(r) \/ Die(r)

-----------------------------------------------------------------------------
\* Events of the provider.

Emit(e, m, v) ==
  /\ reports[e] = None /\ taken[m] # None
  /\ reports' = [reports EXCEPT ![e] = [message |-> m, says |-> v]]
  /\ UNCHANGED <<entry, sender, taken, applied, handler, desk, posted, excused, mixed>>

\* An event is received, be it for the second time: the delivery of its message is
\* read.  One that knows no delivery is acknowledged and never seen again.
Receive(h, e, r) ==
  /\ handler[h] = None /\ reports[e] # None
  /\ entry[r] # None /\ entry[r].message = reports[e].message
  /\ handler' = [handler EXCEPT ![h] = [event |-> e, row |-> r, seen |-> entry[r].status]]
  /\ mixed' = IF \E g \in Handler : handler[g] # None /\ handler[g].row = r THEN mixed \cup {r} ELSE mixed
  /\ UNCHANGED <<entry, sender, taken, reports, applied, desk, posted, excused>>

\* Mutant: the last event has the last word.
MovedByLast(status, seen, v) == v

\* The status moves only upwards of the one that was read.
Moved(status, seen, v) == IF Rank[v] > Rank[seen] THEN v ELSE status

\* The transaction of applyProviderEvent: an event recorded before changes nothing;
\* a new one adds its time and may move the status.
Apply(h) ==
  LET a == handler[h]
      v == reports[a.event].says
      row == entry[a.row]
  IN /\ a # None
     /\ IF applied[a.event] # None
        THEN UNCHANGED <<applied, entry>>
        ELSE /\ applied' = [applied EXCEPT ![a.event] = a.row]
             /\ entry' = [entry EXCEPT ![a.row] =
                  [row EXCEPT !.said = @ \cup {v}, !.status = Moved(@, a.seen, v)]]
     /\ handler' = [handler EXCEPT ![h] = None]
     /\ UNCHANGED <<sender, taken, reports, desk, posted, excused, mixed>>

\* The request fails, or its process dies; the provider sends the event again.
Drop(h) ==
  /\ handler[h] # None
  /\ handler' = [handler EXCEPT ![h] = None]
  /\ UNCHANGED <<entry, sender, taken, reports, applied, desk, posted, excused, mixed>>

Listen ==
  \/ \E e \in Event, m \in Message, v \in Verdict : Emit(e, m, v)
  \/ \E h \in Handler : Apply(h) \/ Drop(h) \/ \E e \in Event, r \in Row : Receive(h, e, r)

-----------------------------------------------------------------------------
\* The log's own operations.

\* prepareResend reads the delivery and refuses what has arrived, was complained
\* about or suppressed, and letters with a token in them.
Ask(r) ==
  /\ desk = None /\ entry[r] # None
  /\ entry[r].letter \in Enquiry /\ entry[r].status \notin ResendRefused
  /\ desk' = r
  /\ UNCHANGED <<entry, sender, taken, reports, applied, handler, posted, excused, mixed>>

\* Mutant: the new attempt does not say which letter it is.
ReplaceUnnamed(r) ==
  /\ desk # None /\ Unused(r)
  /\ entry' = [entry EXCEPT ![r] =
       [letter |-> None, status |-> "queued", message |-> None, said |-> {}, from |-> desk]]
  /\ Turn(r, "unsent")
  /\ desk' = None
  /\ UNCHANGED <<taken, reports, applied, handler, posted, excused, mixed>>

\* Then it writes the new attempt, which nothing sends.
Replace(r) ==
  /\ desk # None /\ Unused(r)
  /\ LET l == entry[desk].letter
     IN /\ entry' = [entry EXCEPT ![r] =
             [letter |-> l, status |-> "queued", message |-> None, said |-> {}, from |-> desk]]
        /\ sender' = [sender EXCEPT ![r] = [step |-> "unsent", letter |-> l, message |-> None]]
  /\ desk' = None
  /\ UNCHANGED <<taken, reports, applied, handler, posted, excused, mixed>>

\* The link of a replacement to a deleted original is dropped.
Without(r, q) == IF entry[q] # None /\ entry[q].from = r THEN [entry[q] EXCEPT !.from = None] ELSE entry[q]

\* The retention task deletes a delivery half a year after its last change, with its
\* events; nobody works on it any more.
Purge(r) ==
  /\ entry[r] # None /\ sender[r].step \in {"over", "unsent"} /\ desk # r
  /\ \A h \in Handler : handler[h] # None => handler[h].row # r
  /\ entry' = [q \in Row |-> IF q = r THEN None ELSE Without(r, q)]
  /\ applied' = [e \in Event |-> IF applied[e] = r THEN None ELSE applied[e]]
  /\ UNCHANGED <<sender, taken, reports, handler, desk, posted, excused, mixed>>

Keep == \E r \in Row : Ask(r) \/ Replace(r) \/ Purge(r)

-----------------------------------------------------------------------------
Init ==
  /\ entry = [r \in Row |-> None]
  /\ sender = [r \in Row |-> [step |-> "idle", letter |-> None, message |-> None]]
  /\ taken = [m \in Message |-> None]
  /\ reports = [e \in Event |-> None]
  /\ applied = [e \in Event |-> None]
  /\ handler = [h \in Handler |-> None]
  /\ desk = None
  /\ posted = {} /\ excused = {} /\ mixed = {}

Next == Send \/ Listen \/ Keep

Spec == Init /\ [][Next]_vars

-----------------------------------------------------------------------------
\* Properties.

\* Whatever the order and however often events come, a delivery shows the most
\* meaningful of the things that were said about it, unless two of its events were
\* handled at once (EmailDeliveryService.applyProviderEvent).
StatusIsMostMeaningful ==
  \A r \in Row : entry[r] # None /\ r \notin mixed =>
    /\ entry[r].status \in entry[r].said \cup {"queued"}
    /\ \A s \in entry[r].said : Rank[s] <= Rank[entry[r].status]

\* The log says of a finished attempt what became of it: it is neither queued for
\* ever, nor called a failure when the provider took the letter or accepted when it
\* did not, unless an answer or a write was lost or the message is another row's.
LogIsTrue ==
  \A r \in Row : entry[r] # None /\ sender[r].step = "over" /\ r \notin excused =>
    /\ entry[r].status # "queued"
    /\ r \in posted <=> "sent" \in entry[r].said
=============================================================================
