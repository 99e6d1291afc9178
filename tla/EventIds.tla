------------------------------ MODULE EventIds ------------------------------
(* The identity of an event: the UUID the agent draws when the event occurs. *)
EXTENDS FiniteSets

CONSTANT Events   \* the ids the model can draw

ASSUME EventsFinite == IsFiniteSet(Events)
=============================================================================
