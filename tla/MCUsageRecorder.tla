--------------------------- MODULE MCUsageRecorder ---------------------------
(* Model values and symmetry for TLC runs of UsageRecorder. *)
EXTENDS UsageRecorder, TLC

CONSTANTS s1, s2

MCTwoSessions == {s1, s2}

Symmetry == Permutations(MCTwoSessions)
=============================================================================
