--------------------------- MODULE MCScheduledTask ---------------------------
(* Instances of ScheduledTask for TLC. *)
EXTENDS ScheduledTask, TLC

CONSTANTS j1, j2, r1, r2, s1, s2, s3

MCJob    == {j1, j2}
MCManual == {j1}
MCRunner == {r1, r2}
MCSlot   == {s1, s2, s3}

\* The first process has two slots.
MCHome == (s1 :> r1) @@ (s2 :> r1) @@ (s3 :> r2)

=============================================================================
