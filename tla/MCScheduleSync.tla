--------------------------- MODULE MCScheduleSync ---------------------------
(* Schedules for TLC runs of ScheduleSync. *)
EXTENDS ScheduleSync

CONSTANTS night,  \* sleeps from instant 1 on
          halt,   \* shuts down from instant 0 on
          forced  \* forced off: sleeps from instant 0 on

MCMixed == {night, halt}
MCMixedSleepers == {night}
MCMixedOff == [s \in MCMixed |-> IF s = night THEN {1} ELSE {0, 1}]

MCForced == {forced}
MCForcedOff == [s \in MCForced |-> {0}]
=============================================================================
