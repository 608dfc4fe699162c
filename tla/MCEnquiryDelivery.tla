-------------------------- MODULE MCEnquiryDelivery --------------------------
(* Instances of EnquiryDelivery for TLC. *)
EXTENDS EnquiryDelivery, TLC

CONSTANTS q1, e1, e2, w1, w2, a1, a2

MCEnquiry    == {q1}
MCEvent      == {e1, e2}
MCAbout      == [e \in Event |-> q1]
MCWorker     == {w1, w2}
MCAdmin      == {a1}
MCTwoAdmins  == {a1, a2}

SlotsAndAdmins == Permutations({w1, w2}) \cup Permutations({a1, a2})

=============================================================================
