------------------------------ MODULE MCOutbox ------------------------------
(* Instances of Outbox for TLC. *)
EXTENDS Outbox

CONSTANTS e1, e2, d1, d2

MCEvent      == {e1, e2}
MCOneReplica == {d1}
MCConsumed   == {e1}
MCDispatcher == {d1, d2}

=============================================================================
