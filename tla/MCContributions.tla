--------------------------- MODULE MCContributions ---------------------------
(* Instances of Contributions for TLC. *)
EXTENDS Contributions, TLC

CONSTANTS x1, x2, x3, b1, p1, m1, m2, v1, v2, k1

MCRow       == {x1, x2, x3}
MCBusiness  == {b1}
MCPost      == {p1}
MCStars     == {2}
MCModerator == {m1, m2}
MCVisitor   == {v1, v2}
MCKey       == {k1}

Alike == Permutations(MCRow) \cup Permutations(MCModerator) \cup Permutations(MCVisitor)
=============================================================================
