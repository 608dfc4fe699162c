---------------------------- MODULE MCMediaLibrary ----------------------------
(* Instances of MediaLibrary for TLC. *)
EXTENDS MediaLibrary, TLC

CONSTANTS image, document, o1, o2, w1, w2, d1, d2

MCImage    == {image}
MCDocument == {document}
MCObject   == {o1, o2}
MCWorker   == {w1, w2}
MCDesk     == {d1, d2}

Alike == Permutations(MCObject) \cup Permutations(MCWorker) \cup Permutations(MCDesk)
=============================================================================
