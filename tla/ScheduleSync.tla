---------------------------- MODULE ScheduleSync ----------------------------
(***************************************************************************)
(* How one device comes to know its schedule and enforces it: the          *)
(* controller's side (DeviceService.scheduleFor, the long poll of          *)
(* AgentController.schedule, DeviceWaiters), the agent's cache and its     *)
(* confirmation (Agent::apply_schedule, mark_schedule_synced,              *)
(* invalidate_schedule_sync, enforcement_view), the three exchanges that   *)
(* feed it (register, heartbeat_loop, schedule_poll_loop) and              *)
(* enforcement_loop, on a machine that sleeps, wakes and restarts.         *)
(*                                                                         *)
(* The loops of run_blocking are joined in one tokio task, so the code     *)
(* between two awaits is one step.  A schedule is its identity: the        *)
(* revision is a hash of what it says.  Off[s] is what its off windows     *)
(* cover; trusted time (now) passes from one window boundary to the next.  *)
(***************************************************************************)
EXTENDS Naturals, FiniteSets

CONSTANTS Schedules,    \* the schedules an administrator can set
          NoSchedule,   \* no schedule assigned (204)
          Sleepers,     \* the schedules whose action is SLEEP; the others shut down
          Off,          \* schedule -> the instants inside its off windows
          NtpEnabled,   \* config.ntp_enabled
          LastInstant,  \* bound on time
          MaxEdits,     \* bound on schedule changes
          MaxFaults     \* bound on crashes, deletions and sleeps the agent did not cause

ASSUME ScheduleSyncAssumption ==
    /\ NoSchedule \notin Schedules
    /\ Sleepers \subseteq Schedules
    /\ LastInstant \in Nat
    /\ NtpEnabled \in BOOLEAN
    /\ Off \in [Schedules -> SUBSET (0 .. LastInstant)]
    /\ MaxEdits \in Nat
    /\ MaxFaults \in Nat

VARIABLES want,       \* what scheduleFor returns for the device
          known,      \* the device is registered
          wakeDue,    \* a change is committed, deviceChanged has not been called for it
          net,        \* can the controller be reached?
          chan,       \* exchange -> its request, if one is under way
          machine,    \* "on" or "asleep"
          phase,      \* the agent process
          mustReg,    \* a heartbeat was answered 404: register again, holding the client lock
          cache,      \* Agent.schedule
          disk,       \* schedule.json
          confirmed,  \* ScheduleSync.confirmed
          grace,      \* since.elapsed() >= SCHEDULE_SYNC_GRACE
          clockReady, \* TrustedClock::is_ready
          enf,        \* where enforcement_loop is
          plan,       \* the schedule it has cloned and is acting on
          late,       \* the machine slept while enforcement_loop waited
          cooldown,   \* a shutdown was requested less than SHUTDOWN_COOLDOWN ago
          now,        \* trusted time
          edits, faults,
          replied,    \* history: schedules applied from replies computed since start or resume
          aged,       \* history: exchanges whose reply was computed before the last resume
          counted,    \* history: the grace period began since start or resume
          doubt       \* history: why the confirmation may be older than the last resume

cvars == <<want, known, wakeDue, net>>
svars == <<cache, disk, confirmed, grace, clockReady>>
evars == <<enf, plan, late, cooldown>>
hvars == <<replied, aged, counted, doubt>>
bounds == <<now, edits, faults>>
vars == <<cvars, chan, machine, phase, mustReg, svars, evars, bounds, hvars>>

Answers == Schedules \cup {NoSchedule}

Exchanges == {"register", "heartbeat", "poll"}

(***************************************************************************)
(* idle:    no request; the loop waits for its tick or backs off           *)
(* asked:   on its way to the controller, or being served                  *)
(* checked: a long poll whose revision was current, not parked yet         *)
(* parked:  a long poll waiting in DeviceWaiters                           *)
(* reply:   answered; the answer has not been applied                      *)
(* unknown: answered 404                                                   *)
(***************************************************************************)
Progress == {"idle", "asked", "checked", "parked", "reply", "unknown"}

Exchange == [st : Progress, sched : Answers]

(***************************************************************************)
(* unnoticed: the machine slept and enforcement_loop could not tell        *)
(* crossed:   a reply computed before the machine slept was applied after  *)
(***************************************************************************)
Doubts == {"unnoticed", "crossed"}

Quiet == [st |-> "idle", sched |-> NoSchedule]

\* The process runs and the machine is awake.
Awake == machine = "on" /\ phase # "down"

Inside(s) == s # NoSchedule /\ now \in Off[s]

Init ==
    /\ want \in Answers
    /\ known = TRUE
    /\ wakeDue = FALSE
    /\ net \in {"up", "down"}
    /\ chan = [x \in Exchanges |-> Quiet]
    /\ machine = "on"
    /\ phase = "down"
    /\ mustReg = FALSE
    /\ cache = NoSchedule
    /\ disk \in Answers
    /\ confirmed = FALSE
    /\ grace = FALSE
    /\ clockReady = ~NtpEnabled
    /\ enf = "none"
    /\ plan = NoSchedule
    /\ late = FALSE
    /\ cooldown = FALSE
    /\ now = 0
    /\ edits = 0
    /\ faults = 0
    /\ replied = {}
    /\ aged = {}
    /\ counted = TRUE
    /\ doubt = {}

-----------------------------------------------------------------------------
(* The process *)

\* Agent::new: the cache is loaded; nothing is confirmed.
Start ==
    /\ phase = "down"
    /\ phase' = "registering"
    /\ cache' = disk
    /\ UNCHANGED <<cvars, chan, machine, mustReg, disk, confirmed, grace, clockReady, evars,
                   bounds, hvars>>

\* The process ends: a crash, a service stop, a power-off.
Crash ==
    /\ faults < MaxFaults
    /\ faults' = faults + 1
    /\ phase # "down"
    /\ phase' = "down"
    /\ machine' = "on"
    /\ chan' = [x \in Exchanges |-> Quiet]
    /\ enf' = "none"
    /\ cache' = NoSchedule
    /\ plan' = NoSchedule
    /\ mustReg' = FALSE
    /\ confirmed' = FALSE
    /\ grace' = FALSE
    /\ clockReady' = ~NtpEnabled
    /\ late' = FALSE
    /\ cooldown' = FALSE
    /\ replied' = {}
    /\ aged' = {}
    /\ counted' = TRUE
    /\ doubt' = {}
    /\ UNCHANGED <<cvars, disk, now, edits>>

\* A lid is closed, a user picks Sleep.
Doze ==
    /\ faults < MaxFaults
    /\ faults' = faults + 1
    /\ Awake
    /\ machine' = "asleep"
    /\ UNCHANGED <<cvars, chan, phase, mustReg, svars, evars, now, edits, hvars>>

(***************************************************************************)
(* The machine wakes.  enforcement_loop, if it was waiting, wakes later    *)
(* than planned_wake by more than SLEEP_DETECT_SLACK or it does not: the   *)
(* sleep was short, ended before planned_wake, or the system clock was set *)
(* back.  Inside enforce it cannot notice: planned_wake is computed after. *)
(***************************************************************************)
Resume ==
    /\ machine = "asleep"
    /\ machine' = "on"
    /\ late' \in {late, late \/ enf = "wait"}
    /\ replied' = {}
    /\ aged' = {x \in Exchanges : chan[x].st = "reply"}
    /\ counted' = FALSE
    /\ doubt' = IF enf = "acting" \/ (enf = "wait" /\ ~late')
                THEN doubt \cup {"unnoticed"}
                ELSE doubt
    /\ UNCHANGED <<cvars, chan, phase, mustReg, svars, enf, plan, cooldown, bounds>>

-----------------------------------------------------------------------------
(* The exchanges: the agent's side *)

\* heartbeat_loop holds the client mutex over its request and over a re-registration.
ClientFree == chan["heartbeat"].st = "idle" /\ ~mustReg

MayAsk(x) ==
    CASE x = "register"  -> phase = "registering" \/ mustReg
      [] x = "heartbeat" -> phase = "running" /\ ~mustReg
      [] x = "poll"      -> phase = "running" /\ ClientFree

\* The long poll carries the revision of the cache.
Ask(x) ==
    /\ Awake
    /\ chan[x].st = "idle"
    /\ MayAsk(x)
    /\ chan' = [chan EXCEPT ![x] = [st |-> "asked",
                                    sched |-> IF x = "poll" THEN cache ELSE NoSchedule]]
    /\ UNCHANGED <<cvars, machine, phase, mustReg, svars, evars, bounds, hvars>>

\* The request, or its answer, is lost: an error or REQUEST_TIMEOUT, then a back-off.
Lose(x) ==
    /\ net = "down"
    /\ Awake
    /\ chan[x].st # "idle"
    /\ chan' = [chan EXCEPT ![x] = Quiet]
    /\ aged' = aged \ {x}
    /\ UNCHANGED <<cvars, machine, phase, mustReg, svars, evars, bounds, replied, counted, doubt>>

\* The reply to x is applied: what it says of the schedule is as old as the reply.
Heard(x, s) ==
    /\ replied' = IF x \in aged THEN replied ELSE replied \cup {s}
    /\ doubt' = IF x \in aged THEN doubt \cup {"crossed"} ELSE {}
    /\ aged' = aged \ {x}
    /\ UNCHANGED counted

\* apply_schedule and mark_schedule_synced; save may fail, which is only logged.
Apply(x, s) ==
    /\ cache' = s
    /\ \/ disk' = s
       \/ s # cache /\ disk' = disk
    /\ confirmed' = TRUE
    /\ Heard(x, s)
    /\ UNCHANGED <<grace, clockReady>>

\* Mutant: a re-registration starts enforcement_loop afresh.
MutRegistered ==
    /\ Awake
    /\ chan["register"].st = "reply"
    /\ Apply("register", chan["register"].sched)
    /\ phase' = "running"
    /\ mustReg' = FALSE
    /\ enf' = "wait"
    /\ chan' = [chan EXCEPT !["register"] = Quiet]
    /\ UNCHANGED <<cvars, machine, plan, late, cooldown, bounds>>

\* A registration returns: the loops start (enforcement_loop among them), or go on.
Registered ==
    /\ Awake
    /\ chan["register"].st = "reply"
    /\ Apply("register", chan["register"].sched)
    /\ phase' = "running"
    /\ mustReg' = FALSE
    /\ enf' = IF enf = "none" THEN "wait" ELSE enf
    /\ chan' = [chan EXCEPT !["register"] = Quiet]
    /\ UNCHANGED <<cvars, machine, plan, late, cooldown, bounds>>

\* An answer to heartbeat_loop or schedule_poll_loop.
Receive(x) ==
    /\ Awake
    /\ x \in {"heartbeat", "poll"}
    /\ chan[x].st = "reply"
    /\ Apply(x, chan[x].sched)
    /\ chan' = [chan EXCEPT ![x] = Quiet]
    /\ UNCHANGED <<cvars, machine, phase, mustReg, evars, bounds>>

\* Mutant: a 404 only makes the loop back off.
MutNotFound(x) ==
    /\ Awake
    /\ chan[x].st = "unknown"
    /\ chan' = [chan EXCEPT ![x] = Quiet]
    /\ UNCHANGED <<cvars, machine, phase, mustReg, svars, evars, bounds, hvars>>

\* A 404: the heartbeat loop registers again, the poll loop only backs off.
NotFound(x) ==
    /\ Awake
    /\ chan[x].st = "unknown"
    /\ mustReg' = (mustReg \/ x = "heartbeat")
    /\ chan' = [chan EXCEPT ![x] = Quiet]
    /\ UNCHANGED <<cvars, machine, phase, svars, evars, bounds, hvars>>

-----------------------------------------------------------------------------
(* The exchanges: the controller's side *)

Reply(x, s) == chan' = [chan EXCEPT ![x] = [st |-> "reply", sched |-> s]]

Unknown(x) == chan' = [chan EXCEPT ![x] = [st |-> "unknown", sched |-> NoSchedule]]

\* DeviceService.register, heartbeat; the first half of AgentController.schedule.
Serve(x) ==
    /\ net = "up"
    /\ chan[x].st = "asked"
    /\ \/ known /\ (x = "poll" => chan[x].sched # want) /\ Reply(x, want)
       \/ known /\ x = "poll" /\ chan[x].sched = want
          /\ chan' = [chan EXCEPT ![x] = [st |-> "checked", sched |-> NoSchedule]]
       \/ ~known /\ x = "register" /\ Reply(x, want)
       \/ ~known /\ x # "register" /\ Unknown(x)
    /\ known' = (known \/ x = "register")
    /\ UNCHANGED <<want, wakeDue, net, machine, phase, mustReg, svars, evars, bounds, hvars>>

\* scheduleChanges.await.  A change since the check is not noticed here.
Park ==
    /\ chan["poll"].st = "checked"
    /\ chan' = [chan EXCEPT !["poll"] = [st |-> "parked", sched |-> NoSchedule]]
    /\ UNCHANGED <<cvars, machine, phase, mustReg, svars, evars, bounds, hvars>>

\* What a parked request answers when it is woken or times out.
AnswerParked ==
    IF known THEN Reply("poll", want) ELSE Unknown("poll")

\* onTimeout, after waitSeconds.
PollTimesOut ==
    /\ chan["poll"].st = "parked"
    /\ AnswerParked
    /\ UNCHANGED <<cvars, machine, phase, mustReg, svars, evars, bounds, hvars>>

\* An administrator changes what scheduleFor returns: an edit, an override, an assignment, an
\* extension, a power button.  deviceChanged is called once the transaction is over.
Edit(s) ==
    /\ edits < MaxEdits
    /\ edits' = edits + 1
    /\ known
    /\ s # want
    /\ want' = s
    /\ wakeDue' = TRUE
    /\ UNCHANGED <<known, net, chan, machine, phase, mustReg, svars, evars, now, faults, hvars>>

\* deviceChanged.  The request may be missing from the list although it is parked: await's list
\* can be removed from the map before the waiter is added to it.
Wake ==
    /\ wakeDue
    /\ wakeDue' = FALSE
    /\ \/ chan["poll"].st = "parked" /\ AnswerParked
       \/ UNCHANGED chan
    /\ UNCHANGED <<want, known, net, machine, phase, mustReg, svars, evars, bounds, hvars>>

\* DeviceController.delete, then deviceChanged.  The row that register makes anew has no schedule.
Delete ==
    /\ faults < MaxFaults
    /\ faults' = faults + 1
    /\ known
    /\ known' = FALSE
    /\ want' = NoSchedule
    /\ wakeDue' = TRUE
    /\ UNCHANGED <<net, chan, machine, phase, mustReg, svars, evars, now, edits, hvars>>

-----------------------------------------------------------------------------
(* Enforcement *)

\* Mutant: the end of the grace period is not taken for an answer.
MutReady(c, g) == c /\ clockReady

\* enforcement_ready, with TrustedClock::is_ready.
Ready(c, g) == (c /\ clockReady) \/ g

\* The target is enforced now: inside an off window, and not a shutdown just asked for.
Enforceable(s) == Inside(s) /\ (s \in Sleepers \/ ~cooldown)

(***************************************************************************)
(* From one wait of enforcement_loop to the next, or to the first await    *)
(* of enforce: a wake-up later than planned invalidates the confirmation   *)
(* and restarts the grace period, then enforcement_view decides.           *)
(***************************************************************************)
EnforcementStep ==
    /\ Awake
    /\ enf = "wait"
    /\ confirmed' = (confirmed /\ ~late)
    /\ grace' = (grace /\ ~late)
    /\ late' = FALSE
    /\ counted' = (counted \/ late)
    /\ doubt' = IF late THEN {} ELSE doubt
    /\ IF Ready(confirmed', grace') /\ Enforceable(cache)
       THEN enf' = "acting" /\ plan' = cache
       ELSE UNCHANGED <<enf, plan>>
    /\ UNCHANGED <<cvars, chan, machine, phase, mustReg, cache, disk, clockReady, cooldown,
                   bounds, replied, aged>>

\* platform::suspend: blocks until the machine resumes, or fails.
Suspend ==
    /\ Awake
    /\ enf = "acting"
    /\ plan \in Sleepers
    /\ enf' = "acted"
    /\ machine' \in {"on", "asleep"}
    /\ UNCHANGED <<cvars, chan, phase, mustReg, svars, plan, late, cooldown, bounds, hvars>>

\* Mutant: the confirmation from before the sleep stands.
MutSuspended ==
    /\ Awake
    /\ enf = "acted"
    /\ enf' = "wait"
    /\ plan' = NoSchedule
    /\ UNCHANGED <<cvars, chan, machine, phase, mustReg, svars, late, cooldown, bounds, hvars>>

\* invalidate_schedule_sync("resumed after schedule sleep")
Suspended ==
    /\ Awake
    /\ enf = "acted"
    /\ enf' = "wait"
    /\ plan' = NoSchedule
    /\ confirmed' = FALSE
    /\ grace' = FALSE
    /\ counted' = TRUE
    /\ doubt' = {}
    /\ UNCHANGED <<cvars, chan, machine, phase, mustReg, cache, disk, clockReady, late, cooldown,
                   bounds, replied, aged>>

\* platform::shutdown: succeeds or fails; the machine stays up for a while in either case.
ShutDown ==
    /\ Awake
    /\ enf = "acting"
    /\ plan \notin Sleepers
    /\ enf' = "wait"
    /\ plan' = NoSchedule
    /\ cooldown' = TRUE
    /\ UNCHANGED <<cvars, chan, machine, phase, mustReg, svars, late, bounds, hvars>>

-----------------------------------------------------------------------------
(* Time and the network *)

GraceElapses ==
    /\ Awake
    /\ ~grace
    /\ grace' = TRUE
    /\ UNCHANGED <<cvars, chan, machine, phase, mustReg, cache, disk, confirmed, clockReady,
                   evars, bounds, hvars>>

CooldownElapses ==
    /\ Awake
    /\ cooldown
    /\ cooldown' = FALSE
    /\ UNCHANGED <<cvars, chan, machine, phase, mustReg, svars, enf, plan, late, bounds, hvars>>

\* clock_sync_loop gets its first measurement.
ClockMeasured ==
    /\ Awake
    /\ ~clockReady
    /\ clockReady' = TRUE
    /\ UNCHANGED <<cvars, chan, machine, phase, mustReg, cache, disk, confirmed, grace, evars,
                   bounds, hvars>>

Tick ==
    /\ now < LastInstant
    /\ now' = now + 1
    /\ UNCHANGED <<cvars, chan, machine, phase, mustReg, svars, evars, edits, faults, hvars>>

NetChanges ==
    /\ net' \in {"up", "down"} \ {net}
    /\ UNCHANGED <<want, known, wakeDue, chan, machine, phase, mustReg, svars, evars, bounds,
                   hvars>>

-----------------------------------------------------------------------------
Process == Start \/ Crash \/ Doze \/ Resume

\* The agent's steps of one exchange.
AgentStep(x) ==
    \/ Ask(x)
    \/ Lose(x)
    \/ Receive(x)
    \/ NotFound(x)
    \/ x = "register" /\ Registered

AgentSide == \E x \in Exchanges : AgentStep(x)

ControllerSide ==
    \/ \E x \in Exchanges : Serve(x)
    \/ Park
    \/ PollTimesOut
    \/ \E s \in Answers : Edit(s)
    \/ Wake
    \/ Delete

Enforcement == EnforcementStep \/ Suspend \/ Suspended \/ ShutDown

Environment == GraceElapses \/ CooldownElapses \/ ClockMeasured \/ Tick \/ NetChanges

Next == Process \/ AgentSide \/ ControllerSide \/ Enforcement \/ Environment

Spec == Init /\ [][Next]_vars

(***************************************************************************)
(* Fairness.  The service is started again, a sleeping machine is woken    *)
(* sooner or later, every request ends, every tick comes, tokio polls the  *)
(* joined loops while the machine is awake (strongly fair for each         *)
(* exchange, because sleeps may interrupt it again and again), threads of  *)
(* the controller run, and the grace period passes.  Nothing is assumed of *)
(* the network, of NTP or of time reaching another window.                 *)
(***************************************************************************)
Fairness ==
    /\ WF_vars(Start)
    /\ WF_vars(Resume)
    /\ \A x \in Exchanges : SF_vars(AgentStep(x)) /\ WF_vars(Serve(x))
    /\ WF_vars(Park \/ PollTimesOut)
    /\ WF_vars(Wake)
    /\ WF_vars(Enforcement)
    /\ WF_vars(GraceElapses)

FairSpec == Spec /\ Fairness

-----------------------------------------------------------------------------
TypeOK ==
    /\ want \in Answers
    /\ known \in BOOLEAN
    /\ wakeDue \in BOOLEAN
    /\ net \in {"up", "down"}
    /\ chan \in [Exchanges -> Exchange]
    /\ machine \in {"on", "asleep"}
    /\ phase \in {"down", "registering", "running"}
    /\ mustReg \in BOOLEAN
    /\ cache \in Answers
    /\ disk \in Answers
    /\ confirmed \in BOOLEAN
    /\ grace \in BOOLEAN
    /\ clockReady \in BOOLEAN
    /\ enf \in {"none", "wait", "acting", "acted"}
    /\ plan \in Answers
    /\ enf \in {"acting", "acted"} <=> plan # NoSchedule
    /\ late \in BOOLEAN
    /\ cooldown \in BOOLEAN
    /\ now \in 0 .. LastInstant
    /\ edits \in 0 .. MaxEdits
    /\ faults \in 0 .. MaxFaults
    /\ replied \subseteq Answers
    /\ aged \subseteq Exchanges
    /\ counted \in BOOLEAN
    /\ doubt \subseteq Doubts

\* enforcement_loop decides to act in this step.
Decides == enf = "wait" /\ enf' = "acting"

\* The schedule decided on was heard of since start or resume, or a grace period has passed since.
DecidesOnReply == Decides => plan' \in replied \/ (grace' /\ counted') \/ doubt' # {}

(***************************************************************************)
(* The cache left from before a restart or a sleep (the agent's own or     *)
(* not) is not enforced until a reply computed since has been applied, or  *)
(* a whole grace period has passed since (agent.rs, 685-686; schedule.rs,  *)
(* 67-70), although replies are applied in any order and a grace period    *)
(* may be over or half over when the machine sleeps.  Two cases are        *)
(* excepted (doubt), from the moment the code lets them happen until the   *)
(* next younger reply or the next invalidation: a sleep that               *)
(* enforcement_loop cannot notice, and a reply computed before the sleep   *)
(* and applied after it, which mark_schedule_synced takes for a            *)
(* confirmation.                                                           *)
(***************************************************************************)
GatedDecision == [][DecidesOnReply]_vars

(***************************************************************************)
(* Once the controller stays reachable, the cache settles on the           *)
(* controller's schedule, although answers overtake each other, a long     *)
(* poll can miss the change it waits for, saves fail and the device sleeps *)
(* or was deleted in between.                                              *)
(***************************************************************************)
Converges == <>[](net = "up") => <>[](cache = want)

Governing == enf \in {"acting", "acted"} \/ ~Inside(cache) \/ ~Awake \/ cooldown

(***************************************************************************)
(* While enforcement_loop runs, an awake device inside an off window of    *)
(* its cache is acted on, whether or not the controller or an NTP server   *)
(* can be reached.                                                         *)
(***************************************************************************)
Governed == (Awake /\ enf # "none" /\ Inside(cache)) ~> Governing

(***************************************************************************)
(* docs/scheduling.md, 160-161, of an agent that starts: "If the           *)
(* controller stays unreachable for 90 seconds it enforces the cache       *)
(* anyway, so an offline device is still governed".                        *)
(***************************************************************************)
GovernedFromStart ==
    [](net = "down") => ((Awake /\ Inside(cache)) ~> Governing)
=============================================================================
