------------------------------ MODULE MCAccess ------------------------------
(* Instances of Access for TLC. *)
EXTENDS Access, TLC

CONSTANTS a1, a2, r1, manage, q1, q2

MCAdmin      == {a1, a2}
MCRole       == {r1}
MCPermission == {manage}
MCRequest    == {q1, q2}

Requests == Permutations({q1, q2})

\* A super administrator, and an account that may be anything: one more, one
\* that does not exist yet, is invited or disabled, with a role that manages.
MCInit ==
  /\ Init
  /\ status[a1] = "active" /\ roles[a1] = {Super} /\ direct = [a \in Admin |-> {}]
  /\ roles[a2] \in IF status[a2] = "absent" THEN {{}} ELSE {{r1}, {Super, r1}}
  /\ standing[r1] = "absent" => carries[r1] = {}

MCSpec == MCInit /\ [][Next]_vars

=============================================================================
