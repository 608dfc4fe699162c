------------------------------ MODULE Handoff ------------------------------
(***************************************************************************)
(* What the transactional outbox promises the rest of the system, without  *)
(* dispatchers, claims, attempts or crashes: every event that was written  *)
(* is waiting, has been handed to the queue, or was abandoned in view of   *)
(* the operators.  An event that was handed over stays handed over.        *)
(*                                                                         *)
(* Outbox implements this specification; EnquiryDelivery is built on it.   *)
(***************************************************************************)
CONSTANT Event       \* the ids of outbox rows

VARIABLE fate        \* what has become of each event

Fates == {"unwritten", "waiting", "handed", "abandoned"}

HandoffTypeOK == fate \in [Event -> Fates]

Becomes(e, f) == fate' = [fate EXCEPT ![e] = f]

HandoffInit == fate = [e \in Event |-> "unwritten"]

\* The row commits together with the change it describes.
Accept(e) == fate[e] = "unwritten" /\ Becomes(e, "waiting")

HandOver(e) == fate[e] = "waiting" /\ Becomes(e, "handed")

Abandon(e) == fate[e] = "waiting" /\ Becomes(e, "abandoned")

\* A dispatcher slower than the others can still hand over an event that
\* they gave up on, or put it back among the waiting ones.
Reprieve(e) == fate[e] = "abandoned" /\ \E f \in {"handed", "waiting"} : Becomes(e, f)

HandoffNext == \E e \in Event : Accept(e) \/ HandOver(e) \/ Abandon(e) \/ Reprieve(e)

\* No event waits for ever.
HandoffFairness == \A e \in Event : WF_fate(HandOver(e) \/ Abandon(e))

HandoffSafety == HandoffInit /\ [][HandoffNext]_fate

HandoffSpec == HandoffSafety /\ HandoffFairness

=============================================================================
