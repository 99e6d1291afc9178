------------------------- MODULE ScheduleSyncProofs -------------------------
(***************************************************************************)
(* Machine-checked proofs about ScheduleSync: types, and GatedDecision,    *)
(* for every set of schedules and every bound.                             *)
(*                                                                         *)
(* GatedDecision is a property of one step of enforcement_loop, but what   *)
(* makes it true is spread over the other loops: that the cache was heard  *)
(* of since the last start or resume whenever the loop believes in a       *)
(* confirmation, or in a grace period that began before.  Confirmed below  *)
(* is that fact; it holds between a decision and its execution too,        *)
(* because a shutdown, unlike a sleep, does not invalidate.                *)
(***************************************************************************)
EXTENDS ScheduleSync, TLAPS

\* enforcement_loop and the exchanges after registration exist only once it has returned.
Started ==
    /\ phase = "running" <=> enf # "none"
    /\ enf = "none" => /\ ~confirmed
                       /\ chan["heartbeat"].st = "idle"
                       /\ chan["poll"].st = "idle"

\* What the loop would act on was heard of since the last start or resume, or will be doubted.
Confirmed ==
    enf \in {"wait", "acting"} /\ ~late /\ doubt = {} /\ (confirmed \/ ~counted)
        => cache \in replied

GateInv == TypeOK /\ Started /\ Confirmed

\* An exchange that is not under way is in order.
LEMMA QuietExchange == Quiet \in Exchange
  BY DEF Quiet, Exchange, Progress, Answers

\* A step of one exchange leaves the others alone.
LEMMA ChanStep ==
    ASSUME chan \in [Exchanges -> Exchange], NEW x \in Exchanges, NEW r \in Exchange,
           chan' = [chan EXCEPT ![x] = r]
    PROVE  /\ chan' \in [Exchanges -> Exchange]
           /\ chan'[x] = r
           /\ \A y \in Exchanges \ {x} : chan'[y] = chan[y]
  OBVIOUS

\* At first nothing runs and nothing is confirmed.
LEMMA InitGate == Init => GateInv
  <1> SUFFICES ASSUME Init PROVE GateInv
    OBVIOUS
  <1> USE ScheduleSyncAssumption DEF Init
  <1>0. clockReady \in BOOLEAN /\ chan \in [Exchanges -> Exchange]
    <2>1. clockReady \in BOOLEAN
      OBVIOUS
    <2>2. chan \in [Exchanges -> Exchange]
      BY QuietExchange
    <2> QED
      BY <2>1, <2>2
  <1>1. TypeOK
    <2>1. now \in 0 .. LastInstant /\ edits \in 0 .. MaxEdits /\ faults \in 0 .. MaxFaults
      OBVIOUS
    <2>2. cache \in Answers /\ plan \in Answers /\ replied \subseteq Answers
      BY DEF Answers
    <2> QED
      BY <1>0, <2>1, <2>2, Zenon DEF TypeOK
  <1>2. Started
    BY DEF Started, Quiet, Exchanges
  <1> QED
    BY <1>1, <1>2 DEF GateInv, Confirmed

(***************************************************************************)
(* Steps that touch neither the process nor enforcement nor confirmation.  *)
(***************************************************************************)
LEMMA FrameGate ==
    ASSUME GateInv, TypeOK', UNCHANGED <<machine, phase, enf, late>>,
           UNCHANGED <<cache, confirmed, counted, doubt, replied>>,
           chan'["heartbeat"].st = "idle" \/ phase = "running",
           chan'["poll"].st = "idle" \/ phase = "running"
    PROVE  GateInv'
  <1> USE DEF GateInv
  <1>1. Started'
    BY DEF Started
  <1>2. Confirmed'
    BY DEF Confirmed
  <1> QED
    BY <1>1, <1>2

\* The same for the exchanges.
LEMMA ExchangeGate ==
    ASSUME GateInv, NEW x \in Exchanges, NEW r \in Exchange, chan' = [chan EXCEPT ![x] = r],
           x # "register" => phase = "running" \/ r.st = "idle",
           UNCHANGED <<machine, phase, svars, evars, replied, counted, doubt, bounds>>,
           aged' \subseteq aged,
           want' = want, wakeDue' \in BOOLEAN, net' = net,
           known' \in BOOLEAN, mustReg' \in BOOLEAN
    PROVE  GateInv'
  <1>1. TypeOK /\ chan \in [Exchanges -> Exchange]
    BY DEF GateInv, TypeOK
  <1>2. TypeOK'
    BY <1>1, ChanStep DEF TypeOK, svars, evars, bounds
  <1>3. /\ chan'["heartbeat"].st = "idle" \/ phase = "running"
        /\ chan'["poll"].st = "idle" \/ phase = "running"
    BY <1>1, ChanStep DEF GateInv, Started, Exchanges
  <1> QED
    BY <1>2, <1>3, FrameGate DEF svars, evars

\* Start, crash, sleep and resume: each takes the confirmation, or is on record.
LEMMA ProcessGate == ASSUME GateInv, Process PROVE GateInv'
  <1> USE DEF GateInv
  <1>1. CASE Start
    <2>1. TypeOK'
      BY <1>1 DEF Start, TypeOK, cvars, evars, bounds, hvars
    <2>2. Started' /\ Confirmed'
      BY <1>1 DEF Start, evars, Started, Confirmed
    <2> QED
      BY <2>1, <2>2
  <1>2. CASE Crash
    <2>0. clockReady' \in BOOLEAN /\ chan' \in [Exchanges -> Exchange]
      <3>1. clockReady' \in BOOLEAN
        BY <1>2, ScheduleSyncAssumption DEF Crash
      <3>2. chan' \in [Exchanges -> Exchange]
        BY <1>2, QuietExchange DEF Crash
      <3> QED
        BY <3>1, <3>2
    <2>1. TypeOK'
      <3>1. faults' \in 0 .. MaxFaults
        BY <1>2, ScheduleSyncAssumption DEF Crash, TypeOK
      <3>2. /\ cache' \in Answers /\ plan' \in Answers
            /\ replied' \subseteq Answers
        BY <1>2 DEF Crash, Answers
      <3>3. UNCHANGED <<want, known, wakeDue, net, disk, now, edits>>
        BY <1>2 DEF Crash, cvars
      <3> QED
        BY <1>2, <2>0, <3>1, <3>2, <3>3, Zenon DEF Crash, TypeOK
    <2>2. Started' /\ Confirmed'
      BY <1>2 DEF Crash, Started, Confirmed, Quiet, Exchanges
    <2> QED
      BY <2>1, <2>2
  <1>3. CASE Doze
    <2>1. TypeOK'
      BY <1>3, ScheduleSyncAssumption DEF Doze, TypeOK, cvars, svars, evars, hvars
    <2>2. Started' /\ Confirmed'
      BY <1>3 DEF Doze, Awake, svars, evars, hvars, Started, Confirmed, TypeOK
    <2> QED
      BY <2>1, <2>2
  <1>4. CASE Resume
    <2>1. TypeOK'
      <3>1. /\ late' \in BOOLEAN /\ aged' \subseteq Exchanges /\ replied' \subseteq Answers
            /\ counted' \in BOOLEAN
        BY <1>4 DEF Resume, TypeOK
      <3>2. doubt' \subseteq Doubts
        BY <1>4 DEF Resume, TypeOK, Doubts
      <3>3. /\ machine' = "on"
            /\ UNCHANGED <<want, known, wakeDue, net, chan, phase, mustReg, enf, plan, cooldown>>
            /\ UNCHANGED <<cache, disk, confirmed, grace, clockReady, now, edits, faults>>
        BY <1>4 DEF Resume, cvars, svars, bounds
      <3> QED
        BY <3>1, <3>2, <3>3 DEF TypeOK
    <2>2. Started' /\ Confirmed'
      BY <1>4 DEF Resume, svars, Started, Confirmed, TypeOK
    <2> QED
      BY <2>1, <2>2
  <1> QED
    BY <1>1, <1>2, <1>3, <1>4 DEF Process

\* apply_schedule and mark_schedule_synced in any loop that has started.
LEMMA ApplyGate ==
    ASSUME GateInv, NEW x \in Exchanges, Apply(x, chan[x].sched),
           chan' = [chan EXCEPT ![x] = Quiet],
           phase' = "running", enf' \in {"wait", "acting", "acted"},
           enf = "none" => enf' = "wait", enf # "none" => enf' = enf,
           mustReg' \in BOOLEAN, UNCHANGED <<cvars, machine, plan, late, cooldown, bounds>>
    PROVE  GateInv'
  <1> USE DEF GateInv
  <1>1. TypeOK /\ chan \in [Exchanges -> Exchange] /\ chan[x].sched \in Answers
    BY DEF TypeOK, Exchange
  <1>2. chan' \in [Exchanges -> Exchange]
    BY <1>1, ChanStep, QuietExchange
  <1>3. /\ cache' = chan[x].sched /\ disk' \in Answers /\ confirmed' = TRUE
        /\ UNCHANGED <<grace, clockReady>>
    BY <1>1 DEF Apply, TypeOK
  <1>4. /\ replied' \subseteq Answers /\ aged' \subseteq Exchanges
        /\ counted' \in BOOLEAN /\ doubt' \subseteq Doubts
    BY <1>1 DEF Apply, Heard, TypeOK, Doubts
  <1>5. TypeOK'
    BY <1>1, <1>2, <1>3, <1>4 DEF TypeOK, cvars, bounds
  <1>6. Started'
    BY DEF Started
  <1>7. Confirmed'
    <2>1. doubt' = {} => cache' \in replied'
      BY <1>3 DEF Apply, Heard
    <2> QED
      BY <2>1 DEF Confirmed
  <1> QED
    BY <1>5, <1>6, <1>7

\* The agent's side of an exchange: only a reply confirms.
LEMMA AgentGate == ASSUME GateInv, NEW x \in Exchanges, AgentStep(x) PROVE GateInv'
  <1>0. TypeOK /\ Started /\ chan[x] \in Exchange
    BY DEF GateInv, TypeOK
  <1>1. CASE Ask(x)
    <2> DEFINE r == [st |-> "asked", sched |-> IF x = "poll" THEN cache ELSE NoSchedule]
    <2>1. r \in Exchange
      BY <1>0 DEF Exchange, Progress, TypeOK, Answers
    <2>2. x # "register" => phase = "running"
      BY <1>1 DEF Ask, MayAsk, Exchanges
    <2> QED
      BY <1>0, <1>1, <2>1, <2>2, ExchangeGate DEF hvars, Ask, TypeOK, cvars
  <1>2. CASE Lose(x)
    BY <1>0, <1>2, QuietExchange, ExchangeGate DEF hvars, Lose, TypeOK, cvars, Quiet
  <1>3. CASE Receive(x)
    <2>1. phase = "running" /\ enf # "none"
      BY <1>0, <1>3 DEF Receive, Started
    <2> QED
      BY <1>0, <1>3, <2>1, ApplyGate DEF Receive, evars, TypeOK
  <1>4. CASE NotFound(x)
    <2>1. mustReg' \in BOOLEAN
      BY <1>0, <1>4 DEF NotFound, TypeOK
    <2> QED
      BY <1>0, <1>4, <2>1, QuietExchange, ExchangeGate DEF hvars, NotFound, TypeOK, cvars, Quiet
  <1>5. CASE x = "register" /\ Registered
    BY <1>0, <1>5, ApplyGate DEF Registered, TypeOK
  <1> QED
    BY <1>1, <1>2, <1>3, <1>4, <1>5 DEF AgentStep

\* The controller's steps touch no state of the gate.
LEMMA ControllerGate == ASSUME GateInv, ControllerSide PROVE GateInv'
  <1>0. TypeOK /\ Started /\ chan \in [Exchanges -> Exchange]
    BY DEF GateInv, TypeOK
  <1>1. ASSUME NEW s \in Answers PROVE [st |-> "reply", sched |-> s] \in Exchange
    BY <1>1 DEF Exchange, Progress
  <1>2. \A st \in Progress : [st |-> st, sched |-> NoSchedule] \in Exchange
    BY DEF Exchange, Answers
  <1>3. ASSUME NEW x \in Exchanges, Serve(x) PROVE GateInv'
    <2>1. PICK r \in Exchange : chan' = [chan EXCEPT ![x] = r]
      BY <1>0, <1>1, <1>2, <1>3 DEF Serve, Reply, Unknown, TypeOK, Progress
    <2>2. x # "register" => phase = "running"
      BY <1>0, <1>3 DEF Serve, Started, Exchanges
    <2>3. known' \in BOOLEAN
      BY <1>0, <1>3 DEF Serve, TypeOK
    <2> QED
      BY <1>0, <1>3, <2>1, <2>2, <2>3, ExchangeGate DEF hvars, Serve, TypeOK
  <1>4. ASSUME chan["poll"].st \in {"checked", "parked"},
               Park \/ PollTimesOut \/ (Wake /\ AnswerParked)
        PROVE  GateInv'
    <2>1. PICK r \in Exchange : chan' = [chan EXCEPT !["poll"] = r]
      BY <1>0, <1>1, <1>2, <1>4
      DEF Park, PollTimesOut, AnswerParked, Reply, Unknown, TypeOK, Progress
    <2>2. phase = "running"
      BY <1>0, <1>4 DEF Started
    <2>3. /\ wakeDue' \in BOOLEAN
          /\ UNCHANGED <<want, known, net, machine, phase, mustReg, svars, evars, bounds, hvars>>
      BY <1>0, <1>4 DEF Park, PollTimesOut, Wake, cvars, TypeOK
    <2> QED
      BY <1>0, <2>1, <2>2, <2>3, ExchangeGate DEF Exchanges, TypeOK, hvars
  <1>5. CASE Park \/ PollTimesOut
    BY <1>4, <1>5 DEF Park, PollTimesOut
  <1>6. CASE Wake
    <2>1. CASE chan["poll"].st = "parked" /\ AnswerParked
      BY <1>4, <1>6, <2>1
    <2>2. CASE UNCHANGED chan
      <3>0. /\ wakeDue' \in BOOLEAN
            /\ UNCHANGED <<want, known, net, chan, machine, phase, mustReg>>
            /\ UNCHANGED <<cache, disk, confirmed, grace, clockReady, enf, plan, late, cooldown>>
            /\ UNCHANGED <<now, edits, faults, replied, aged, counted, doubt>>
        BY <1>6, <2>2 DEF Wake, svars, evars, bounds, hvars
      <3>1. TypeOK'
        BY <1>0, <3>0 DEF TypeOK
      <3> QED
        BY <1>0, <1>6, <2>2, <3>1, FrameGate DEF Wake, Started, svars, evars, hvars
    <2> QED
      BY <1>6, <2>1, <2>2 DEF Wake
  <1>7. ASSUME NEW s \in Answers, Edit(s) PROVE GateInv'
    <2>1. TypeOK'
      BY <1>0, <1>7, ScheduleSyncAssumption DEF Edit, TypeOK, svars, evars, hvars
    <2> QED
      BY <1>0, <1>7, <2>1, FrameGate DEF Edit, Started, svars, evars, hvars
  <1>8. CASE Delete
    <2>1. TypeOK'
      <3>1. faults' \in 0 .. MaxFaults
        BY <1>0, <1>8, ScheduleSyncAssumption DEF Delete, TypeOK
      <3>2. want' \in Answers
        BY <1>0, <1>8 DEF Delete, Answers, TypeOK
      <3>3. /\ known' \in BOOLEAN /\ wakeDue' \in BOOLEAN
            /\ UNCHANGED <<net, chan, machine, phase, mustReg>>
            /\ UNCHANGED <<cache, disk, confirmed, grace, clockReady, enf, plan, late, cooldown>>
            /\ UNCHANGED <<now, edits, replied, aged, counted, doubt>>
        BY <1>8 DEF Delete, svars, evars, hvars
      <3> QED
        BY <1>0, <3>1, <3>2, <3>3 DEF TypeOK
    <2> QED
      BY <1>0, <1>8, <2>1, FrameGate DEF Delete, Started, svars, evars, hvars
  <1> QED
    BY <1>3, <1>5, <1>6, <1>7, <1>8 DEF ControllerSide

\* enforcement_loop and enforce: a decision follows the gate.
LEMMA EnforcementGate == ASSUME GateInv, Enforcement PROVE GateInv'
  <1> USE DEF GateInv
  <1>1. CASE EnforcementStep
    <2>1. confirmed' \in BOOLEAN /\ grace' \in BOOLEAN /\ late' = FALSE
      BY <1>1 DEF EnforcementStep, TypeOK
    <2>2. \/ enf' = "acting" /\ plan' = cache /\ cache # NoSchedule
          \/ enf' = "wait" /\ plan' = plan
      BY <1>1 DEF EnforcementStep, Enforceable, Inside
    <2>3. UNCHANGED <<cvars, chan, machine, phase, mustReg, cache, disk, clockReady, cooldown,
                      bounds, replied, aged>>
      BY <1>1 DEF EnforcementStep
    <2>4. enf = "wait" /\ machine = "on" /\ phase # "down"
      BY <1>1 DEF EnforcementStep, Awake
    <2>5. counted' \in BOOLEAN /\ doubt' \subseteq Doubts
      BY <1>1 DEF EnforcementStep, TypeOK
    <2>6. TypeOK'
      BY <2>1, <2>2, <2>3, <2>4, <2>5 DEF TypeOK, cvars, bounds
    <2>7. Started'
      BY <2>2, <2>3, <2>4, <1>1 DEF Started, EnforcementStep
    <2>8. confirmed' \/ ~counted' => ~late /\ (confirmed \/ ~counted)
      BY <1>1 DEF EnforcementStep
    <2>9. ~late => doubt' = doubt
      BY <1>1 DEF EnforcementStep
    <2>10. Confirmed'
      BY <2>3, <2>4, <2>8, <2>9 DEF Confirmed
    <2> QED
      BY <2>6, <2>7, <2>10
  <1>2. CASE Suspend
    <2>1. TypeOK'
      BY <1>2 DEF Suspend, TypeOK, cvars, svars, bounds, hvars
    <2>2. Started' /\ Confirmed'
      BY <1>2 DEF Suspend, svars, hvars, Started, Confirmed
    <2> QED
      BY <2>1, <2>2
  <1>3. CASE Suspended
    <2>1. TypeOK'
      <3>1. plan' \in Answers
        BY <1>3 DEF Suspended, Answers
      <3> QED
        BY <1>3, <3>1, Zenon DEF Suspended, TypeOK, cvars, bounds, hvars
    <2>2. Started' /\ Confirmed'
      BY <1>3 DEF Suspended, Started, Confirmed
    <2> QED
      BY <2>1, <2>2
  <1>4. CASE ShutDown
    <2>1. TypeOK'
      BY <1>4, ScheduleSyncAssumption DEF ShutDown, TypeOK, cvars, svars, bounds, hvars, Answers
    <2>2. Started' /\ Confirmed'
      BY <1>4 DEF ShutDown, svars, hvars, Started, Confirmed
    <2> QED
      BY <2>1, <2>2
  <1> QED
    BY <1>1, <1>2, <1>3, <1>4 DEF Enforcement

\* Grace period, clocks and network.
LEMMA EnvironmentGate == ASSUME GateInv, Environment \/ UNCHANGED vars PROVE GateInv'
  <1>0. TypeOK /\ Started
    BY DEF GateInv
  <1>1. TypeOK'
    <2>1. CASE GraceElapses
      BY <1>0, <2>1 DEF GraceElapses, TypeOK, cvars, evars, bounds, hvars
    <2>2. CASE CooldownElapses
      <3>1. /\ cooldown' \in BOOLEAN
            /\ UNCHANGED <<want, known, wakeDue, net, chan, machine, phase, mustReg>>
            /\ UNCHANGED <<cache, disk, confirmed, grace, clockReady, enf, plan, late>>
            /\ UNCHANGED <<now, edits, faults, replied, aged, counted, doubt>>
        BY <2>2 DEF CooldownElapses, cvars, svars, bounds, hvars
      <3> QED
        BY <1>0, <3>1 DEF TypeOK
    <2>3. CASE ClockMeasured
      BY <1>0, <2>3 DEF ClockMeasured, TypeOK, cvars, evars, bounds, hvars
    <2>4. CASE Tick
      BY <1>0, <2>4, ScheduleSyncAssumption DEF Tick, TypeOK, cvars, svars, evars, hvars
    <2>5. CASE NetChanges
      BY <1>0, <2>5 DEF NetChanges, TypeOK, svars, evars, bounds, hvars
    <2>6. CASE UNCHANGED vars
      BY <1>0, <2>6 DEF vars, TypeOK, cvars, svars, evars, bounds, hvars
    <2> QED
      BY <2>1, <2>2, <2>3, <2>4, <2>5, <2>6 DEF Environment
  <1>2. /\ UNCHANGED <<chan, machine, phase, enf, late>>
        /\ UNCHANGED <<cache, confirmed, counted, doubt, replied>>
    BY DEF Environment, GraceElapses, CooldownElapses, ClockMeasured, Tick, NetChanges, vars,
           svars, evars, hvars
  <1>3. /\ chan["heartbeat"].st = "idle" \/ phase = "running"
        /\ chan["poll"].st = "idle" \/ phase = "running"
    BY <1>0 DEF Started
  <1> QED
    BY <1>1, <1>2, <1>3, FrameGate

\* Every step keeps the invariant.
LEMMA NextGate == GateInv /\ [Next]_vars => GateInv'
  BY ProcessGate, AgentGate, ControllerGate, EnforcementGate, EnvironmentGate
  DEF Next, AgentSide

-----------------------------------------------------------------------------
(* The results. *)

\* The inductive invariant holds in every reachable state.
THEOREM GateInvariant == Spec => []GateInv
  BY InitGate, NextGate, PTL DEF Spec

\* Every variable keeps its type, and a plan exists exactly while enforce runs.
THEOREM TypeCorrect == Spec => []TypeOK
  <1>1. GateInv => TypeOK
    BY DEF GateInv
  <1> QED
    BY <1>1, GateInvariant, PTL

(***************************************************************************)
(* enforcement_loop never decides on a cache left from before a restart or *)
(* a sleep until a reply or the end of the grace period has come since.    *)
(***************************************************************************)
THEOREM DecisionsAreGated == Spec => GatedDecision
  <1>1. ASSUME GateInv, [Next]_vars PROVE [DecidesOnReply]_vars
    <2> SUFFICES ASSUME Decides, ~(grace' /\ counted'), doubt' = {} PROVE plan' \in replied
      BY DEF DecidesOnReply
    <2>0. TypeOK /\ Confirmed
      BY <1>1 DEF GateInv
    <2>1. EnforcementStep
      <3>1. ~UNCHANGED enf /\ enf = "wait" /\ enf' = "acting"
        BY DEF Decides
      <3>2. ~Process /\ ~ControllerSide /\ ~Environment /\ ~UNCHANGED vars
        BY <3>1
        DEF Process, Start, Crash, Doze, Resume, ControllerSide, Serve, Park, PollTimesOut, Edit,
            Wake, Delete, Environment, GraceElapses, CooldownElapses, ClockMeasured, Tick,
            NetChanges, vars, evars
      <3>3. ~AgentSide
        BY <3>1 DEF AgentSide, AgentStep, Ask, Lose, Receive, NotFound, Registered, evars
      <3> QED
        BY <1>1, <3>1, <3>2, <3>3 DEF Next, Enforcement, Suspend, Suspended, ShutDown
    <2>2. Ready(confirmed', grace') /\ plan' = cache
      BY <2>1 DEF EnforcementStep, Decides
    <2>3. confirmed' \/ grace'
      BY <2>2 DEF Ready
    <2>4. ~late
      BY <2>1, <2>3 DEF EnforcementStep
    <2>5. doubt = {} /\ (confirmed \/ ~counted)
      BY <2>1, <2>3, <2>4 DEF EnforcementStep
    <2> QED
      BY <2>0, <2>2, <2>4, <2>5 DEF Confirmed, Decides
  <1> QED
    BY <1>1, GateInvariant, PTL DEF Spec, GatedDecision
=============================================================================
