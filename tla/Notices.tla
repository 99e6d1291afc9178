------------------------------ MODULE Notices ------------------------------
(***************************************************************************)
(* How a user is warned before the device is switched off: the agent's     *)
(* notifier pipe (agent/src/notify_pipe.rs), which answers from the        *)
(* schedule enforcement would use, and the notifier of one user session    *)
(* (notifier/src/main.rs, engine.rs, transport.rs, ui.rs), which polls the *)
(* pipe, shows a toast at each threshold and takes it back when the action *)
(* is no longer pending.                                                   *)
(*                                                                         *)
(* Time is counted in whole seconds of some unit.  The service judges by   *)
(* its trusted clock (TrustedClock), which may be stepped; to the notifier *)
(* such a step and a sleep of the machine look the same.  Whether the      *)
(* cached schedule may be announced is decided by enforcement_view         *)
(* (ScheduleSync), here the flag gate.                                     *)
(***************************************************************************)
EXTENDS Integers, FiniteSets

CONSTANTS Schedules,   \* records [action, windows]; a window is [off, on]
          Thresholds,  \* THRESHOLDS, in seconds before the action
          FastPoll,    \* FAST_POLL
          SlowPoll,    \* SLOW_POLL, also the wait after a failure
          FastWithin,  \* FAST_POLL_WITHIN_SECONDS
          Horizon,     \* HORIZON_SECONDS
          Shifts,      \* how far the trusted clock can be stepped
          MaxTime,     \* bound on time
          MaxChanges   \* bound on everything that disturbs the notifier

ASSUME NoticesAssumption ==
    /\ \A s \in Schedules : \A w \in s.windows : w.off \in Int /\ w.on \in Int
    /\ Thresholds \subseteq Nat
    /\ FastPoll \in Nat \ {0} /\ SlowPoll \in Nat /\ FastWithin \in Nat /\ Horizon \in Nat
    /\ FastPoll =< SlowPoll /\ FastWithin =< Horizon
    /\ \A t \in Thresholds : t =< Horizon
    /\ Shifts \subseteq Int
    /\ MaxTime \in Nat /\ MaxChanges \in Nat

VARIABLES time,      \* monotonic time
          ahead,     \* the service's trusted clock minus time
          cache,     \* Agent.schedule
          gate,      \* does enforcement_view let the cache be used?
          service,   \* down; open: serving the pipe; gone: running without it
          notifier,  \* off; idle: in thread::sleep; reading: the answer is on its way
          sleep,     \* seconds left to sleep
          reply,     \* the answer being read
          fired,     \* Engine.fired
          known,     \* Engine.known
          screen,    \* action -> the threshold of the toast that shows it
          changes,   \* disturbances so far
          quiet,     \* history: seconds since the last one
          warned,    \* history: warnings not taken back before their time
          orphans    \* history: toasts left by a notifier that ended

svars == <<cache, gate, service>>
nvars == <<notifier, sleep, reply, fired, known, screen, warned, orphans>>
vars == <<time, ahead, svars, nvars, changes, quiet>>

Now == time + ahead

\* The id of an action is a hash of what it does and when: the pair itself.
Action(w) == <<cache.action, w.off>>
At(a) == a[2]

NoReply == [now |-> 0, actions |-> {}]
Blank == [a \in {} |-> 0]

Init ==
    /\ time = 0
    /\ ahead = 0
    /\ cache \in Schedules
    /\ gate = FALSE
    /\ service = "down"
    /\ notifier = "off"
    /\ sleep = 0
    /\ reply = NoReply
    /\ fired = {} /\ known = {}
    /\ screen = Blank
    /\ changes = 0
    /\ quiet = 0
    /\ warned = {} /\ orphans = {}

-----------------------------------------------------------------------------
(* The service *)

Disturbs ==
    /\ changes < MaxChanges
    /\ changes' = changes + 1
    /\ quiet' = 0

\* A schedule is adopted: apply_schedule.
Adopt(s) ==
    /\ Disturbs
    /\ service # "down"
    /\ s # cache
    /\ cache' = s
    /\ UNCHANGED <<time, ahead, gate, service, nvars>>

\* enforcement_view opens (a confirmation, the end of the grace period) ...
GateOpens ==
    /\ service # "down"
    /\ ~gate
    /\ gate' = TRUE
    /\ quiet' = 0
    /\ UNCHANGED <<time, ahead, cache, service, nvars, changes>>

\* ... or closes: invalidate_schedule_sync, after the agent's own sleep or another.
GateCloses ==
    /\ Disturbs
    /\ gate
    /\ gate' = FALSE
    /\ UNCHANGED <<time, ahead, cache, service, nvars>>

\* The trusted clock is corrected or moved, or the machine sleeps.
ClockSteps(d) ==
    /\ Disturbs
    /\ ahead' = ahead + d
    /\ UNCHANGED <<time, svars, nvars>>

\* A new process: nothing is confirmed, and serve creates the pipe or gives up for good.
ServiceStarts ==
    /\ service = "down"
    /\ service' \in {"open", "gone"}
    /\ service' = "open" \/ changes < MaxChanges
    /\ changes' = IF service' = "open" THEN changes ELSE changes + 1
    /\ gate' = FALSE
    /\ quiet' = 0
    /\ UNCHANGED <<time, ahead, cache, nvars>>

\* The process ends; or create fails for the next instance, and serve returns.
ServiceStops ==
    /\ Disturbs
    /\ service # "down"
    /\ \/ service' = "down" /\ gate' = FALSE
       \/ service = "open" /\ service' = "gone" /\ UNCHANGED gate
    /\ UNCHANGED <<time, ahead, cache, nvars>>

\* Mutant: the cache is announced whether or not it may be enforced.
MutAnnounced == cache.windows

\* schedule_for_notices: the windows it lets the pipe announce.
Announced == IF gate THEN cache.windows ELSE {}

\* upcoming_actions
Upcoming(W, now) == {Action(w) : w \in {x \in W : now < x.off /\ x.off =< now + Horizon}}

-----------------------------------------------------------------------------
(* The notifier *)

\* main, up to the first poll; ui::init lets one instance run in a session.
NotifierStarts ==
    /\ notifier = "off"
    /\ notifier' = "idle"
    /\ sleep' = 0
    /\ quiet' = 0
    /\ UNCHANGED <<time, ahead, svars, reply, fired, known, screen, warned, orphans, changes>>

\* The session ends, or the process does: its toasts stay where they are.
NotifierStops ==
    /\ Disturbs
    /\ notifier # "off"
    /\ notifier' = "off"
    /\ sleep' = 0
    /\ reply' = NoReply
    /\ fired' = {} /\ known' = {}
    /\ orphans' = DOMAIN screen
    /\ UNCHANGED <<time, ahead, svars, screen, warned>>

\* transport::call(GetPending) as the service sees it: handle_line.
Poll ==
    /\ notifier = "idle" /\ sleep = 0
    /\ service = "open"
    /\ notifier' = "reading"
    /\ reply' = [now |-> Now, actions |-> Upcoming(Announced, Now)]
    /\ UNCHANGED <<time, ahead, svars, sleep, fired, known, screen, warned, orphans, changes, quiet>>

\* The Err arm: no pipe, the answer is lost with the service, or the pipe is busy.
PollFails ==
    /\ \/ notifier = "idle" /\ sleep = 0
       \/ notifier = "reading"
    /\ IF service = "open" THEN Disturbs ELSE UNCHANGED <<changes, quiet>>
    /\ notifier' = "idle"
    /\ sleep' = SlowPoll
    /\ reply' = NoReply
    /\ UNCHANGED <<time, ahead, svars, fired, known, screen, warned, orphans>>

\* The thresholds that the time left until action a has crossed, and the tightest of them.
Crossed(a, now) == {t \in Thresholds : At(a) - now =< t}
Tightest(a, now) == CHOOSE t \in Crossed(a, now) : \A u \in Crossed(a, now) : t =< u

\* Mutant: a mark once fired is never forgotten.
MutRetained(live) == fired

\* self.fired.retain
Retained(live) == {f \in fired : f[1] \in live}

\* Mutant: the interval is judged by the last threshold instead.
MutNextPoll(live, now) == IF \E a \in live : At(a) - now =< FastPoll THEN FastPoll ELSE SlowPoll

NextPoll(live, now) == IF \E a \in live : At(a) - now =< FastWithin THEN FastPoll ELSE SlowPoll

(***************************************************************************)
(* The Ok arm: Engine::update on the service's own time, then              *)
(* ui::dismiss_warning and ui::show_warning, keyed by the action.          *)
(***************************************************************************)
Update ==
    LET live == reply.actions
        cancelled == known \ live
        toasts == {<<a, Tightest(a, reply.now)>> : a \in {x \in live : Crossed(x, reply.now) # {}}}
                      \ Retained(live)
        shown == {f[1] : f \in toasts}
    IN  /\ notifier = "reading"
        /\ fired' = Retained(live) \cup toasts
        /\ known' = live
        /\ screen' = [a \in (DOMAIN screen \ cancelled) \cup shown |->
                         IF a \in shown THEN Tightest(a, reply.now) ELSE screen[a]]
        /\ warned' = {f \in warned : f[1] \notin cancelled \/ At(f[1]) =< reply.now} \cup toasts
        /\ orphans' = orphans \ shown
        /\ sleep' = NextPoll(live, reply.now)
        /\ notifier' = "idle"
        /\ reply' = NoReply
        /\ UNCHANGED <<time, ahead, svars, changes, quiet>>

\* A second passes.  A poll that is due, or being answered, is over before it does.
Tick ==
    /\ time < MaxTime
    /\ notifier = "off" \/ (notifier = "idle" /\ sleep > 0)
    /\ time' = time + 1
    /\ sleep' = IF notifier = "idle" THEN sleep - 1 ELSE sleep
    /\ quiet' = IF notifier # "off" /\ service = "open" THEN quiet + 1 ELSE quiet
    /\ UNCHANGED <<ahead, svars, notifier, reply, fired, known, screen, warned, orphans, changes>>

Service ==
    \/ \E s \in Schedules : Adopt(s)
    \/ GateOpens
    \/ GateCloses
    \/ \E d \in Shifts : ClockSteps(d)
    \/ ServiceStarts
    \/ ServiceStops

Notifier == NotifierStarts \/ NotifierStops \/ Poll \/ PollFails \/ Update

Next == Service \/ Notifier \/ Tick

Spec == Init /\ [][Next]_vars

-----------------------------------------------------------------------------
Actions == {<<s.action, w.off>> : s \in Schedules, w \in UNION {x.windows : x \in Schedules}}

TypeOK ==
    /\ time \in 0 .. MaxTime
    /\ ahead \in Int
    /\ cache \in Schedules
    /\ gate \in BOOLEAN
    /\ service \in {"down", "open", "gone"}
    /\ notifier \in {"off", "idle", "reading"}
    /\ sleep \in 0 .. SlowPoll
    /\ reply \in [now : Int, actions : SUBSET Actions]
    /\ known \subseteq Actions
    /\ DOMAIN screen \subseteq known \cup orphans
    /\ fired \subseteq known \X Thresholds
    /\ warned \subseteq Actions \X Thresholds
    /\ changes \in 0 .. MaxChanges
    /\ quiet \in 0 .. time

\* How late a warning may come: thresholds well inside FastWithin are met by the fast polls.
Latency(t) == IF t + SlowPoll =< FastWithin THEN FastPoll ELSE SlowPoll

\* The notifier has polled since the last disturbance and is not in the middle of a poll.
Settled == notifier = "idle" /\ sleep > 0 /\ quiet > SlowPoll

\* Action a was announced for threshold t or a tighter one, and the warning stood.
Warned(a, t) == \E u \in Thresholds : u =< t /\ <<a, u>> \in warned

(***************************************************************************)
(* Each threshold warns in time: an action that is pending, and announced  *)
(* undisturbed, is on the screen and was shown with a warning at least as  *)
(* tight as every threshold it had crossed one polling interval ago.  A    *)
(* toast dismissed with a cancelled action must come back with it          *)
(* (Engine.fired), and the interval must shrink before a threshold is      *)
(* near.  (After the clock is stepped back the toast may show a looser     *)
(* warning again.)                                                         *)
(***************************************************************************)
WarnedInTime ==
    Settled /\ gate => \A a \in Upcoming(cache.windows, Now), t \in Thresholds :
                  At(a) - Now + Latency(t) =< t => a \in DOMAIN screen /\ Warned(a, t)

(***************************************************************************)
(* No false alarm stays: a toast is for an action that enforcement would   *)
(* carry out, or whose time came at most one poll ago; "a stale cache      *)
(* doesn't produce a warning that disappears" (agent.rs, 178-179).  Toasts *)
(* of a notifier that has ended are the exception: orphans.                *)
(***************************************************************************)
NoFalseAlarm ==
    Settled => \A a \in DOMAIN screen \ orphans :
                  /\ gate
                  /\ \E w \in cache.windows : a = Action(w) /\ w.off > Now - SlowPoll

(***************************************************************************)
(* Nobody is switched off unwarned: when an off window has begun and the   *)
(* gate is open, so that enforcement_loop acts, the last warning had been  *)
(* shown and stood, provided the notifier had one undisturbed polling      *)
(* interval before the window.                                             *)
(***************************************************************************)
StruckIsWarned ==
    \A w \in cache.windows, t \in Thresholds :
        /\ gate /\ w.off =< Now /\ Now < w.on
        /\ quiet > Now - w.off + SlowPoll
        /\ Latency(t) =< t
        => Warned(Action(w), t)
=============================================================================
