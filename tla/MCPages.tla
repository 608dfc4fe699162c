------------------------------- MODULE MCPages -------------------------------
(* Instances of Pages for TLC. *)
EXTENDS Pages, TLC

CONSTANTS p1, p2, s1, s2, terms, long, stub, e1, e2, w1

MCPage     == {p1, p2}
MCSlug     == {s1, s2, terms}
MCSystem   == {terms}
MCText     == {long, stub}
MCComplete == {long}
MCEditor   == {e1, e2}
MCWorker   == {w1}

\* The first page has a history; the second is there for its address.
MCMaxVersion == [p \in MCPage |-> IF p = p1 THEN 3 ELSE 2]

Alike == Permutations(MCEditor) \cup Permutations({s1, s2})

=============================================================================
