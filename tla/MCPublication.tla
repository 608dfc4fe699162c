--------------------------- MODULE MCPublication ---------------------------
(* Instances of Publication for TLC. *)
EXTENDS Publication

CONSTANTS p1, p2, s1, s2, s3, long, stub, a1, e1, w1

MCArticle    == {p1, p2}
MCSlug       == {s1, s2, s3}
MCText       == {long, stub}
MCComplete   == {long}
MCTerm       == {a1}
MCEditor     == {e1}
MCWorker     == {w1}

\* The first article has a history; the second is there for places and addresses.
MCMaxVersion == [p \in MCArticle |-> IF p = p1 THEN 4 ELSE 2]

=============================================================================
