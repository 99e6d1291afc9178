---------------------------- MODULE EventLedger ----------------------------
(***************************************************************************)
(* What the agent's queue and the controller's ingestion promise together, *)
(* without queue, batch, request or handler: an event, once reported,      *)
(* stays open until it is stored by the controller or is dropped, and      *)
(* whoever closes it as delivered knows that it was stored.  EventDelivery *)
(* implements this specification.                                          *)
(***************************************************************************)
EXTENDS EventIds

VARIABLES reported,  \* events that ever occurred
          open,      \* events the device still answers for
          stored,    \* events the controller has
          dropped,   \* events the device gave up on
          forgotten  \* events that existed when the device was deleted

lvars == <<reported, open, stored, dropped, forgotten>>

Init ==
    /\ reported = {}
    /\ open = {}
    /\ stored = {}
    /\ dropped = {}
    /\ forgotten = {}

\* A new event occurs; room may have to be made for it, even its own.
Report ==
    /\ \E e \in Events \ reported :
          /\ reported' = reported \cup {e}
          /\ open' \subseteq open \cup {e}
          /\ dropped' = dropped \cup ((open \cup {e}) \ open')
    /\ UNCHANGED <<stored, forgotten>>

\* The controller stores an event, which may have been given up meanwhile.
Store ==
    /\ \E e \in reported \ stored : stored' = stored \cup {e}
    /\ UNCHANGED <<reported, open, dropped, forgotten>>

\* An event is closed as delivered: the controller has it, or had it until the device was deleted.
Deliver ==
    /\ \E e \in open \cap (stored \cup forgotten) : open' = open \ {e}
    /\ UNCHANGED <<reported, stored, dropped, forgotten>>

\* Events are given up.
Drop ==
    /\ open' \subseteq open
    /\ dropped' = dropped \cup (open \ open')
    /\ UNCHANGED <<reported, stored, forgotten>>

\* The device is deleted with everything the controller has of it.
Forget ==
    /\ stored' = {}
    /\ forgotten' = forgotten \cup reported
    /\ UNCHANGED <<reported, open, dropped>>

Next == Report \/ Store \/ Deliver \/ Drop \/ Forget

Spec == Init /\ [][Next]_lvars
=============================================================================
