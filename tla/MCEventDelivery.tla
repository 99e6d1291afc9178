--------------------------- MODULE MCEventDelivery ---------------------------
(* Model values and symmetry for TLC runs of EventDelivery. *)
EXTENDS EventDelivery, TLC

CONSTANTS e1, e2, e3, h1, h2

MCEvents2 == {e1, e2}
MCEvents3 == {e1, e2, e3}
MCHandlers1 == {h1}
MCHandlers2 == {h1, h2}
MCInstants == {0, 1}
MCOneInstant == {0}

\* Event ids and threads are interchangeable (safety runs only).
Symmetry == Permutations(MCEvents3) \cup Permutations(MCHandlers2)
=============================================================================
