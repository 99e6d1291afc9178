----------------------------- MODULE DevicePower -----------------------------
(***************************************************************************)
(* What the controller tells one device's agent to enforce: the schedules  *)
(* an administrator edits (schedule/ScheduleService.java), the device's    *)
(* row with its assignment, extension and power override                   *)
(* (device/DeviceService.java), and the status the dashboard shows         *)
(* (device/PowerStatus.java).                                              *)
(*                                                                         *)
(* Requests of the administrator are transactions that come one after      *)
(* another.  The agent's heartbeats and registrations and the sweep for    *)
(* offline devices write the row as well: they read it, change other       *)
(* columns and write all of them back, for the entity has no version and   *)
(* its updates name every column.  One such transaction may be open while  *)
(* requests commit (Read, then WriteBack).                                 *)
(*                                                                         *)
(* Names, the action (sleep or shutdown) and the columns no rule reads are *)
(* left out; so are the two refusals of a name that is taken, and the      *)
(* deletion of the device, after which there is nobody to tell.  Overrides *)
(* are a set: two that are alike count as one.                             *)
(***************************************************************************)
EXTENDS ScheduleResolver

CONSTANTS ScheduleIds,
          NoId,         \* no schedule is assigned
          NoSchedule,   \* no schedule has the id
          NotOpen,      \* no transaction is open
          Contents,     \* the zones and rows a request may give a schedule
          NewOverrides, \* the overrides a request may add
          Horizon,      \* AGENT_HORIZON, in days
          Ahead,        \* days extend looks ahead
          MaxGrace,     \* MAX_GRACE_MINUTES
          MaxHold,      \* MAX_HOLD_MINUTES
          MaxExtension, \* the most one extension may grant
          Forever,      \* FOREVER
          FirstInstant, LastInstant, \* bounds on the clock
          MaxEdits,     \* bound on the administrator's requests
          MaxWrites     \* bound on the row's other writers

ASSUME DevicePowerAssumption ==
    /\ Contents \subseteq [zone : Zones, rules : SUBSET Rules]
    /\ \A c \in Contents : IsFiniteSet(c.rules)
    /\ NewOverrides \subseteq Overrides
    /\ \A o \in NewOverrides : o.first <= o.last /\ IsValidWindow(o.start, o.end) /\ o.enabled
    /\ \A c \in Contents : \A r \in c.rules : r.days # {} /\ IsValidWindow(r.start, r.end)
    /\ Ahead \in Nat /\ Horizon \in Nat /\ Ahead < Horizon
    /\ MaxGrace \in Nat /\ MaxHold \in Nat /\ MaxExtension \in Nat
    /\ FirstInstant \in Nat /\ LastInstant \in Nat /\ FirstInstant <= LastInstant
    /\ Forever \in Nat /\ Forever > LastInstant + MaxGrace + MaxHold
    /\ Forever >= (Date(LastInstant) + Horizon) * DayLength
    /\ MaxEdits \in Nat /\ MaxWrites \in Nat
    /\ NoId \notin ScheduleIds
    /\ NoSchedule \notin [zone : Zones, rules : SUBSET Rules, overrides : SUBSET Overrides]

VARIABLES now,
          schedules,  \* tables schedule, schedule_rule and schedule_override, by id
          row,        \* the device's row
          seen,       \* the row as an open heartbeat, registration or sweep read it
          asked,      \* history: what the administrator last asked of the device's power
          edits, writes

vars == <<now, schedules, row, seen, asked, edits, writes>>

Null == -1   \* a column without an instant; instants are natural numbers

Schedules == [zone : Zones, rules : SUBSET Rules, overrides : SUBSET Overrides]
Instants == Nat \cup {Null}
DeviceRows == [scheduleId : ScheduleIds \cup {NoId}, extensionUntil : Instants,
               powerMode : {"ON", "OFF"}, offFrom : Instants,
               holdUntil : Instants, holdThenOff : BOOLEAN]

\* findById
ScheduleOf(id) == IF id = NoId THEN NoSchedule ELSE schedules[id]
Exists(id) == ScheduleOf(id) # NoSchedule

-----------------------------------------------------------------------------
(* What a row comes to. *)

\* applyExtension
ApplyExtension(windows, until) ==
    IF until = Null THEN windows
    ELSE {IF w.off < until THEN [on |-> w.on, off |-> until] ELSE w :
            w \in {v \in windows : v.on > until}}

Resolve(schedule, from, to) ==
    OffWindows(schedule.zone, schedule.rules, schedule.overrides, from, to)

\* Mutant: the horizon moves with the clock.
MutWindowsFor(schedule, until, time) ==
    IF schedule = NoSchedule THEN {}
    ELSE ApplyExtension(Resolve(schedule, time, time + Horizon * DayLength), until)

\* ScheduleService.scheduleFor: the windows up to a horizon on a UTC day boundary, none
\* without a schedule.
WindowsFor(schedule, until, time) ==
    IF schedule = NoSchedule THEN {}
    ELSE ApplyExtension(Resolve(schedule, time, (Date(time) + Horizon) * DayLength), until)

ForcedOff(from) == {[off |-> from, on |-> Forever]}

SwitchedOff(device) == device.powerMode = "OFF" /\ device.offFrom # Null

\* DeviceService.scheduleFor, for a device with that schedule, at that time.
ScheduleFor(device, schedule, time) ==
    IF SwitchedOff(device) THEN ForcedOff(device.offFrom)
    ELSE IF device.holdUntil # Null /\ device.holdThenOff THEN ForcedOff(device.holdUntil)
    ELSE WindowsFor(schedule,
                    IF device.holdUntil > time THEN device.holdUntil ELSE device.extensionUntil,
                    time)

\* effectiveWindows
EffectiveWindows(schedule, until, time) ==
    ApplyExtension(Resolve(schedule, time, time + Ahead * DayLength), until)

\* Mutant: a hold that is over leaves the device off, whatever was asked.
MutPowerState(device, time) ==
    IF SwitchedOff(device) THEN IF device.offFrom > time THEN "OFF_PENDING" ELSE "OFF"
    ELSE IF device.holdUntil > time THEN "HOLD"
    ELSE IF device.holdUntil # Null THEN "HOLD_ENDED_OFF"
    ELSE "SCHEDULE"

\* PowerStatus.of
PowerState(device, time) ==
    IF SwitchedOff(device) THEN IF device.offFrom > time THEN "OFF_PENDING" ELSE "OFF"
    ELSE IF device.holdUntil > time THEN "HOLD"
    ELSE IF device.holdUntil # Null /\ device.holdThenOff THEN "HOLD_ENDED_OFF"
    ELSE "SCHEDULE"

-----------------------------------------------------------------------------
(* The administrator's requests.  One that is refused changes nothing. *)

Cleared(device) ==
    [device EXCEPT !.powerMode = "ON", !.offFrom = Null, !.holdUntil = Null, !.holdThenOff = FALSE]

\* A request commits a new row.
SaveDevice(device) ==
    /\ edits < MaxEdits
    /\ edits' = edits + 1
    /\ row' = device
    /\ UNCHANGED <<now, schedules, seen, writes>>

PowerOn ==
    /\ SaveDevice(Cleared(row))
    /\ asked' = "SCHEDULE"

PowerOff(grace) ==
    /\ grace \in 0 .. MaxGrace
    /\ SaveDevice([Cleared(row) EXCEPT !.extensionUntil = Null, !.powerMode = "OFF",
                                       !.offFrom = now + grace])
    /\ asked' = "OFF"

HoldOn(minutes, thenOff) ==
    /\ minutes \in 1 .. MaxHold
    /\ SaveDevice([Cleared(row) EXCEPT !.extensionUntil = Null, !.holdUntil = now + minutes,
                                       !.holdThenOff = thenOff])
    /\ asked' = "HOLD"

\* Mutant: inside an off window it counts from the window's start.
MutExtend(minutes) ==
    /\ minutes \in 1 .. MaxExtension
    /\ PowerState(row, now) = "SCHEDULE"
    /\ Exists(row.scheduleId)
    /\ \E windows \in {EffectiveWindows(ScheduleOf(row.scheduleId), row.extensionUntil, now)} :
          /\ windows # {}
          /\ SaveDevice([row EXCEPT !.extensionUntil = Min({w.off : w \in windows}) + minutes])
    /\ UNCHANGED asked

\* The extension counts from the next off window's start, or from now inside one.
Extend(minutes) ==
    /\ minutes \in 1 .. MaxExtension
    /\ PowerState(row, now) = "SCHEDULE"
    /\ Exists(row.scheduleId)
    /\ \E windows \in {EffectiveWindows(ScheduleOf(row.scheduleId), row.extensionUntil, now)} :
          /\ windows # {}
          /\ SaveDevice([row EXCEPT !.extensionUntil =
                            Max({now, Min({w.off : w \in windows})}) + minutes])
    /\ UNCHANGED asked

ClearExtension ==
    /\ SaveDevice([row EXCEPT !.extensionUntil = Null])
    /\ UNCHANGED asked

AssignSchedule(id) ==
    /\ id = NoId \/ Exists(id)
    /\ SaveDevice([row EXCEPT !.scheduleId = id, !.extensionUntil = Null])
    /\ UNCHANGED asked

\* A request commits a schedule; the device's row is not written.
SaveSchedule(id, schedule) ==
    /\ edits < MaxEdits
    /\ edits' = edits + 1
    /\ schedules' = [schedules EXCEPT ![id] = schedule]
    /\ UNCHANGED <<now, seen, asked, writes>>

CreateSchedule(id, content) ==
    /\ ~Exists(id)
    /\ SaveSchedule(id, [zone |-> content.zone, rules |-> content.rules, overrides |-> {}])
    /\ UNCHANGED row

UpdateSchedule(id, content) ==
    /\ Exists(id)
    /\ SaveSchedule(id, [schedules[id] EXCEPT !.zone = content.zone, !.rules = content.rules])
    /\ UNCHANGED row

\* Mutant: the assignment is cleared with the wrong null.
MutDeleteSchedule(id) ==
    /\ Exists(id)
    /\ SaveSchedule(id, NoSchedule)
    /\ row' = IF row.scheduleId = id THEN [row EXCEPT !.scheduleId = NoSchedule] ELSE row

\* The foreign keys take the rows and overrides with the schedule and clear the assignment.
DeleteSchedule(id) ==
    /\ Exists(id)
    /\ SaveSchedule(id, NoSchedule)
    /\ row' = IF row.scheduleId = id THEN [row EXCEPT !.scheduleId = NoId] ELSE row

AddOverride(id, override) ==
    /\ Exists(id)
    /\ SaveSchedule(id, [schedules[id] EXCEPT !.overrides = @ \cup {override}])
    /\ UNCHANGED row

RemoveOverride(id, override) ==
    /\ Exists(id)
    /\ override \in schedules[id].overrides
    /\ SaveSchedule(id, [schedules[id] EXCEPT !.overrides = @ \ {override}])
    /\ UNCHANGED row

SetOverrideEnabled(id, override, enabled) ==
    /\ Exists(id)
    /\ override \in schedules[id].overrides
    /\ SaveSchedule(id, [schedules[id] EXCEPT
                            !.overrides = (@ \ {override}) \cup {[override EXCEPT !.enabled = enabled]}])
    /\ UNCHANGED row

-----------------------------------------------------------------------------
(* The row's other writers. *)

\* heartbeat, register or recomputeOnlineStatus reads the row.
Read ==
    /\ writes < MaxWrites
    /\ seen = NotOpen
    /\ seen' = row
    /\ writes' = writes + 1
    /\ UNCHANGED <<now, schedules, row, asked, edits>>

\* Mutant: nothing checks the foreign key.
MutWriteBack ==
    /\ seen # NotOpen
    /\ row' = seen
    /\ seen' = NotOpen
    /\ UNCHANGED <<now, schedules, asked, edits, writes>>

\* It writes back every column; a schedule that is gone breaks the foreign key, and the
\* transaction rolls back.
WriteBack ==
    /\ seen # NotOpen
    /\ row' = IF seen.scheduleId = NoId \/ Exists(seen.scheduleId) THEN seen ELSE row
    /\ seen' = NotOpen
    /\ UNCHANGED <<now, schedules, asked, edits, writes>>

Tick ==
    /\ now < LastInstant
    /\ now' = now + 1
    /\ UNCHANGED <<schedules, row, seen, asked, edits, writes>>

-----------------------------------------------------------------------------
\* A device as register creates it, or one assigned a schedule since, beside schedules
\* made earlier.
Init ==
    /\ now = FirstInstant
    /\ schedules \in [ScheduleIds ->
            {[zone |-> c.zone, rules |-> c.rules, overrides |-> {}] : c \in Contents} \cup {NoSchedule}]
    /\ row \in {[scheduleId |-> id, extensionUntil |-> Null, powerMode |-> "ON",
                 offFrom |-> Null, holdUntil |-> Null, holdThenOff |-> FALSE] :
                   id \in {NoId} \cup {i \in ScheduleIds : Exists(i)}}
    /\ seen = NotOpen
    /\ asked = "SCHEDULE"
    /\ edits = 0
    /\ writes = 0

DeviceRequest ==
    \/ PowerOn
    \/ \E grace \in 0 .. MaxGrace : PowerOff(grace)
    \/ \E minutes \in 1 .. MaxHold, thenOff \in BOOLEAN : HoldOn(minutes, thenOff)
    \/ \E minutes \in 1 .. MaxExtension : Extend(minutes)
    \/ ClearExtension
    \/ \E id \in ScheduleIds \cup {NoId} : AssignSchedule(id)

ScheduleRequest ==
    \E id \in ScheduleIds :
        \/ \E content \in Contents : CreateSchedule(id, content) \/ UpdateSchedule(id, content)
        \/ DeleteSchedule(id)
        \/ \E override \in NewOverrides : AddOverride(id, override)
        \/ \E override \in (IF Exists(id) THEN schedules[id].overrides ELSE {}) :
              \/ RemoveOverride(id, override)
              \/ \E enabled \in BOOLEAN : SetOverrideEnabled(id, override, enabled)

Next == DeviceRequest \/ ScheduleRequest \/ Read \/ WriteBack \/ Tick

Spec == Init /\ [][Next]_vars

-----------------------------------------------------------------------------
(* Properties. *)

\* Types: every schedule is one a request made, and the row's columns hold instants.
TypeOK ==
    /\ now \in Nat
    /\ schedules \in [ScheduleIds -> Schedules \cup {NoSchedule}]
    /\ \A id \in ScheduleIds : Exists(id) => /\ IsFiniteSet(schedules[id].rules)
                                             /\ IsFiniteSet(schedules[id].overrides)
    /\ row \in DeviceRows
    /\ seen \in DeviceRows \cup {NotOpen}
    /\ asked \in {"SCHEDULE", "OFF", "HOLD"}
    /\ edits \in Nat
    /\ writes \in Nat

\* The device is never assigned a schedule that is gone, though one may be deleted while
\* a heartbeat holds a copy of the row that names it (assignSchedule, delete, WriteBack).
AssignmentExists == row.scheduleId # NoId => Exists(row.scheduleId)

\* What the agent is told.
Told == ScheduleFor(row, ScheduleOf(row.scheduleId), now)

\* The instants, from now on, the controller tells of.
ToldOf == now .. (Date(now) + Horizon) * DayLength - 1

\* What the row asks of the device at t: off from the moment it was switched off or the
\* hold ended; otherwise what the schedule's rows say, once the hold or extension is over.
Demanded(t) ==
    IF SwitchedOff(row) THEN t >= row.offFrom
    ELSE IF row.holdUntil # Null /\ row.holdThenOff THEN t >= row.holdUntil
    ELSE /\ Exists(row.scheduleId)
         /\ t >= (IF row.holdUntil > now THEN row.holdUntil ELSE row.extensionUntil)
         /\ LET s == schedules[row.scheduleId]
            IN  MustBeOff(s.zone, s.rules, s.overrides, t)

\* The windows the agent gets put it off at an instant up to the horizon exactly if the
\* row and the schedule, read off the clock on the wall, say so (scheduleFor, offWindows);
\* only where the zone skips or repeats local times may the two differ.
ToldWhatHolds ==
    LET told == Told
    IN  \A t \in ToldOf :
           (Exists(row.scheduleId) => t \notin Shifted(schedules[row.scheduleId].zone))
               => (OffAt(told, t) <=> Demanded(t))

\* The status on the dashboard (PowerStatus.of) and the windows the agent enforces
\* (DeviceService.scheduleFor), decided apart, agree: off is off for good, a pending off
\* or a hold leaves the device on until its time, and a hold that is to end in off does.
StatusAgrees ==
    LET told == Told
        state == PowerState(row, now)
        off(from) == \A t \in from .. Forever - 1 : OffAt(told, t)
        on(until) == \A t \in now .. until - 1 : ~OffAt(told, t)
    IN  /\ state \in {"OFF", "HOLD_ENDED_OFF"} => off(now)
        /\ state = "OFF_PENDING" => on(row.offFrom) /\ off(row.offFrom)
        /\ state = "HOLD" => on(row.holdUntil)
        /\ state = "HOLD" /\ row.holdThenOff => off(row.holdUntil)

\* Once extended, the device stays on minutes longer than what it was told before: until
\* the next off window's start, or now if inside one, plus minutes; what it is told of the
\* time after that is unchanged (extend, applyExtension).
ExtendGrants ==
    [][\A minutes \in 1 .. MaxExtension :
          Extend(minutes) =>
             LET before == Told
                 after == ScheduleFor(row', ScheduleOf(row.scheduleId), now)
                 base == Max({now, Min({w.off : w \in before})})
             IN  \A t \in ToldOf :
                    OffAt(after, t) <=> (t >= base + minutes /\ OffAt(before, t))]_vars

\* What ends or begins when the clock reaches t: a day in UTC or where the schedule is, a
\* hold, or an off window the agent was told of.
SomethingReal(t) ==
    \/ Date(t) # Date(t - 1)
    \/ /\ Exists(row.scheduleId)
       /\ LET z == schedules[row.scheduleId].zone
          IN  Date(LocalOf(z, t)) # Date(LocalOf(z, t - 1))
    \/ row.holdUntil = t
    \/ \E w \in Told : w.on = t

\* The agent is told something new only if something real has happened: time alone does
\* not change the windows, and with them the revision agents poll for (scheduleFor's
\* horizon, offWindows' range).
RevisionStable ==
    [][Tick /\ ~SomethingReal(now + 1)
          => ScheduleFor(row, ScheduleOf(row.scheduleId), now + 1) = Told]_vars

\* Off is off until the administrator asks for something else.  It does not hold: a
\* heartbeat that read the row before the request writes the old columns back.
OffSticks == asked = "OFF" => SwitchedOff(row)
=============================================================================
