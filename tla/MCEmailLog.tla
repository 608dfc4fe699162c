------------------------------ MODULE MCEmailLog ------------------------------
(* Instances of EmailLog for TLC. *)
EXTENDS EmailLog, TLC

CONSTANTS r1, r2, letter, invitation, g1, g2, e1, e2, e3, h1, h2

MCRow     == {r1, r2}
MCEnquiry == {letter}
MCAuth    == {invitation}
MCMessage == {g1, g2}
MCEvent   == {e1, e2, e3}
MCVerdict == {"sent", "delivered", "bounced", "complained"}
MCHandler == {h1, h2}

Alike == Permutations(MCRow) \cup Permutations(MCMessage) \cup Permutations(MCEvent) \cup Permutations(MCHandler)
=============================================================================
