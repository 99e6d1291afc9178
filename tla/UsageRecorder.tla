---------------------------- MODULE UsageRecorder ----------------------------
(***************************************************************************)
(* Usage sessions on one device: the tracker that turns Windows session    *)
(* and power notifications into spans of use (agent/src/tracker.rs), the   *)
(* table that keeps them (store.rs), the recorder that ties the two to the *)
(* event queue and to the heartbeat's snapshot (lib.rs, UsageRecorder),    *)
(* and the notification pump that feeds it (platform/windows.rs), with     *)
(* crashes, restarts, clean stops, starts that fail and failing writes.    *)
(*                                                                         *)
(* The user's side (world, asleep) is external: what Windows reports.      *)
(* Console and remote connections differ only in the text of end_reason    *)
(* and are one kind here.  A user name is the session it belongs to.       *)
(***************************************************************************)
EXTENDS Naturals, Sequences, FiniteSets

CONSTANTS Sessions,    \* Windows session ids
          MaxChanges,  \* bound on what users (who can set the clock back) and the machine do
          MaxFaults,   \* bound on crashes, clean stops and failed writes
          MaxTime      \* bound on the clock

ASSUME UsageRecorderAssumption ==
    /\ IsFiniteSet(Sessions)
    /\ MaxChanges \in Nat
    /\ MaxFaults \in Nat
    /\ MaxTime \in Nat

VARIABLES world,      \* session -> how it stands: see Standings
          asleep,     \* the machine is suspended
          mail,       \* notifications the pump has not dispatched
          proc,       \* the agent process
          seeds,      \* sessions seed_active_sessions has still to announce
          relock,     \* the session it has announced and is about to mark as locked
          sess,       \* UsageTracker.sessions: session -> "none", "visible" or "hidden"
          suspended,  \* UsageTracker.suspended
          openSince,  \* UsageTracker.open_since
          openId,     \* UsageRecorder.open_session_id, as an index into rows; 0 for None
          named,      \* keys of UsageRecorder.session_usernames
          snap,       \* SessionSnapshot.state, which heartbeats carry
          pending,    \* what handle_at has still to put into the event queue
          rows,       \* table usage_session
          told,       \* the last word on activity in the event queue
          now,        \* Utc::now(), the raw system clock
          changes, faults,
          torn,       \* history: a write to the table failed
          misreported,\* history: the queue's last word was lost, or is not about the open session
          turned,     \* history: how many rows were begun before the clock was last set back
          overlooked  \* history: sessions whose user could not be looked up at startup

wvars == <<world, asleep, mail>>
seedvars == <<proc, seeds, relock>>
tvars == <<sess, suspended, openSince>>
rvars == <<openId, named, snap, pending>>
bounds == <<now, changes, faults>>
hvars == <<torn, misreported, turned, overlooked>>
vars == <<wvars, seedvars, tvars, rvars, rows, told, bounds, hvars>>

\* A session does not exist, or is unlocked or locked, on a screen or disconnected.
Standings == {"absent", "unlocked", "locked", "unlocked away", "locked away"}

Kinds == {"logon", "logoff", "lock", "unlock", "connect", "disconnect", "suspend", "resume"}

\* A SessionEvent: its kind and its session, if it has one.
SessionEvent == [kind : Kinds, who : SUBSET Sessions]

NoTime == MaxTime + 1

Reasons == {"none", "Lock", "Logoff", "Suspend", "Disconnect", "AgentShutdown", "AgentRestart"}

UsageSession == [start : 0 .. MaxTime, end : 0 .. NoTime, reason : Reasons]

\* Rows with end_utc NULL.
Dangling(r) == {i \in DOMAIN r : r[i].end = NoTime}

(***************************************************************************)
(* down:      not running                                                  *)
(* listening: registered for notifications, sessions not enumerated yet    *)
(* seeding:   announcing the sessions found                                *)
(* running:   the message loop                                             *)
(* stopping:  UsageRecorder::shutdown is done, AGENT_STOPPING not queued   *)
(***************************************************************************)
Phases == {"down", "listening", "seeding", "running", "stopping"}

Init ==
    /\ world \in [Sessions -> Standings]
    /\ asleep = FALSE
    /\ mail = <<>>
    /\ proc = "down"
    /\ seeds = {}
    /\ relock = {}
    /\ sess = [s \in Sessions |-> "none"]
    /\ suspended = FALSE
    /\ openSince = NoTime
    /\ openId = 0
    /\ named = {}
    /\ snap = "NO_SESSION"
    /\ pending = "none"
    /\ rows = <<>>
    /\ told = "nothing"
    /\ now = 0
    /\ changes = 0
    /\ faults = 0
    /\ torn = FALSE
    /\ misreported = FALSE
    /\ turned = 0
    /\ overlooked = {}

-----------------------------------------------------------------------------
(* Users and the machine *)

\* The step of a session that Windows reports as the given kind.
Moves(kind, from, to) ==
    CASE kind = "logon"      -> from = "absent" /\ to = "unlocked"
      [] kind = "logoff"     -> from # "absent" /\ to = "absent"
      [] kind = "lock"       -> from = "unlocked" /\ to = "locked"
      [] kind = "unlock"     -> from = "locked" /\ to = "unlocked"
      [] kind = "disconnect" -> \/ from = "unlocked" /\ to = "unlocked away"
                                \/ from = "locked" /\ to = "locked away"
      [] kind = "connect"    -> \/ from = "unlocked away" /\ to = "unlocked"
                                \/ from = "locked away" /\ to = "locked"
      [] OTHER               -> FALSE

\* WM_WTSSESSION_CHANGE, WM_POWERBROADCAST: posted from the registration on.
Notify(kind, who) ==
    mail' = IF proc \in {"listening", "seeding", "running"}
            THEN Append(mail, [kind |-> kind, who |-> who]) ELSE mail

UserActs(s, kind, st) ==
    /\ changes < MaxChanges
    /\ changes' = changes + 1
    /\ ~asleep
    /\ Moves(kind, world[s], st)
    /\ world' = [world EXCEPT ![s] = st]
    /\ Notify(kind, {s})
    /\ UNCHANGED <<asleep, seedvars, tvars, rvars, rows, told, now, faults, hvars>>

MachineSleeps ==
    /\ changes < MaxChanges
    /\ changes' = changes + 1
    /\ ~asleep
    /\ asleep' = TRUE
    /\ Notify("suspend", {})
    /\ UNCHANGED <<world, seedvars, tvars, rvars, rows, told, now, faults, hvars>>

MachineWakes ==
    /\ asleep
    /\ asleep' = FALSE
    /\ Notify("resume", {})
    /\ UNCHANGED <<world, seedvars, tvars, rvars, rows, told, bounds, hvars>>

Tick ==
    /\ now < MaxTime
    /\ now' = now + 1
    /\ UNCHANGED <<wvars, seedvars, tvars, rvars, rows, told, changes, faults, hvars>>

\* A user, or a correction, sets the system clock back; the recorder is not told.
SetBack(t) ==
    /\ changes < MaxChanges
    /\ changes' = changes + 1
    /\ t < now
    /\ now' = t
    /\ turned' = Len(rows)
    /\ UNCHANGED <<wvars, seedvars, tvars, rvars, rows, told, faults, torn, misreported,
                   overlooked>>

-----------------------------------------------------------------------------
(* UsageTracker *)

\* What apply makes of the session an event is about.
Presence(kind) ==
    IF kind \in {"logon", "unlock", "connect"} THEN "visible"
    ELSE IF kind = "logoff" THEN "none" ELSE "hidden"

SessAfter(e) == [s \in Sessions |-> IF s \in e.who THEN Presence(e.kind) ELSE sess[s]]

\* Mutant: Resume does not clear the flag.
MutSuspendedAfter(e) == e.kind = "suspend" \/ suspended

SuspendedAfter(e) == e.kind = "suspend" \/ (suspended /\ e.kind # "resume")

\* any_visible, once e is applied.
ActiveAfter(e) == ~SuspendedAfter(e) /\ \E s \in Sessions : SessAfter(e)[s] = "visible"

\* Mutant: the event's own name is stored.
MutEndReason(e) == e.kind

EndReason(e) ==
    CASE e.kind = "lock"       -> "Lock"
      [] e.kind = "disconnect" -> "Disconnect"
      [] e.kind = "suspend"    -> "Suspend"
      [] OTHER                 -> "Logoff"

\* recompute
Recompute(e) ==
    /\ sess' = SessAfter(e)
    /\ suspended' = SuspendedAfter(e)
    /\ openSince' = IF ~ActiveAfter(e) THEN NoTime
                    ELSE IF openSince = NoTime THEN now ELSE openSince

-----------------------------------------------------------------------------
(* UsageRecorder and Store *)

\* Store::end_session
End(i, why) == [rows EXCEPT ![i].end = now, ![i].reason = why]

\* refresh_snapshot
SnapshotState(e, known) ==
    IF ActiveAfter(e) THEN IF known # {} THEN "ACTIVE" ELSE "LOCKED"
    ELSE CASE e.kind = "suspend"    -> "SUSPENDED"
           [] e.kind = "lock"       -> "LOCKED"
           [] e.kind = "disconnect" -> "DISCONNECTED"
           [] OTHER                 -> "NO_SESSION"

\* The rest of handle_at once the store has been written; report is left for Report.
Finish(e, known, report) ==
    /\ named' = IF e.kind = "logoff" THEN known \ e.who ELSE known
    /\ snap' = SnapshotState(e, named')
    /\ pending' = report
    /\ UNCHANGED <<faults, torn>>

NoChange(e, known) ==
    /\ ActiveAfter(e) <=> openSince # NoTime
    /\ Finish(e, known, "none")
    /\ UNCHANGED <<openId, rows>>

Started(e, known) ==
    /\ ActiveAfter(e) /\ openSince = NoTime
    /\ rows' = Append(rows, [start |-> now, end |-> NoTime, reason |-> "none"])
    /\ openId' = Len(rows) + 1
    /\ Finish(e, known, "active")

\* Mutant: the row is not updated, a closed one is inserted.
MutEnded(e, known) ==
    /\ ~ActiveAfter(e) /\ openSince # NoTime
    /\ rows' = Append(rows, [start |-> openSince, end |-> now, reason |-> EndReason(e)])
    /\ openId' = 0
    /\ Finish(e, known, IF e.kind = "logoff" THEN "logoff" ELSE "inactive")

Ended(e, known) ==
    /\ ~ActiveAfter(e) /\ openSince # NoTime
    /\ rows' = IF openId # 0 THEN End(openId, EndReason(e))
               ELSE Append(rows, [start |-> openSince, end |-> now, reason |-> EndReason(e)])
    /\ openId' = 0
    /\ Finish(e, known, IF e.kind = "logoff" THEN "logoff" ELSE "inactive")

\* Mutant: a failed statement is followed by an insert of an open row.
MutWriteFails(e, known) ==
    /\ ~(ActiveAfter(e) <=> openSince # NoTime)
    /\ faults < MaxFaults
    /\ faults' = faults + 1
    /\ torn' = TRUE
    /\ openId' = IF ActiveAfter(e) THEN openId ELSE 0
    /\ named' = known
    /\ rows' = Append(rows, [start |-> now, end |-> NoTime, reason |-> "none"])
    /\ UNCHANGED <<snap, pending>>

\* The statement fails: handle_at returns early, with the tracker already changed and
\* open_session_id already taken.
WriteFails(e, known) ==
    /\ ~(ActiveAfter(e) <=> openSince # NoTime)
    /\ faults < MaxFaults
    /\ faults' = faults + 1
    /\ torn' = TRUE
    /\ openId' = IF ActiveAfter(e) THEN openId ELSE 0
    /\ named' = known
    /\ UNCHANGED <<rows, snap, pending>>

Repeated(e) == e.kind = "logon" /\ \E s \in e.who : sess[s] # "none"

\* handle_at up to the event queue.
Handle(e, known) ==
    \/ /\ Repeated(e)
       /\ UNCHANGED <<tvars, rvars, rows, faults, torn>>
    \/ /\ ~Repeated(e)
       /\ Recompute(e)
       /\ NoChange(e, known) \/ Started(e, known) \/ Ended(e, known) \/ WriteFails(e, known)

\* Mutant: only ACTIVE is reported.
MutReport ==
    /\ ~asleep
    /\ pending # "none"
    /\ told' = IF pending = "active" THEN pending ELSE told
    /\ pending' = "none"
    /\ misreported' = FALSE
    /\ UNCHANGED <<wvars, seedvars, tvars, openId, named, snap, rows, bounds, torn, turned,
                   overlooked>>

\* handle_at puts the activity transition into the queue, after the event itself; a failure is
\* only logged.
Report ==
    /\ ~asleep
    /\ pending # "none"
    /\ \/ told' = pending /\ misreported' = FALSE /\ faults' = faults
       \/ /\ faults < MaxFaults
          /\ faults' = faults + 1
          /\ misreported' = TRUE
          /\ told' = told
    /\ pending' = "none"
    /\ UNCHANGED <<wvars, seedvars, tvars, openId, named, snap, rows, now, changes, torn, turned,
                   overlooked>>

-----------------------------------------------------------------------------
(* The process *)

\* Store::find_dangling_session: the row with the latest start_utc.
Recoverable ==
    {i \in Dangling(rows) : \A j \in Dangling(rows) : rows[j].start =< rows[i].start}

\* Mutant: a row left open is not recovered.
MutStart ==
    /\ proc = "down"
    /\ ~asleep
    /\ proc' = "listening"
    /\ UNCHANGED <<wvars, seeds, relock, tvars, rvars, rows, told, bounds, hvars>>

\* UsageRecorder::from_store, then the registration for notifications.
Start ==
    /\ proc = "down"
    /\ ~asleep
    /\ proc' = "listening"
    /\ \/ \E i \in Recoverable : openId' = i /\ openSince' = rows[i].start
       \/ Recoverable = {} /\ UNCHANGED <<openId, openSince>>
    /\ UNCHANGED <<wvars, seeds, relock, sess, suspended, named, snap, pending, rows, told,
                   bounds, hvars>>

\* create_message_window or a registration fails and run returns, the recorder not shut down:
\* a row left open stays open.  AGENT_STOPPING is queued all the same, or that fails too.
RunFails ==
    /\ proc = "down"
    /\ ~asleep
    /\ \/ told' = "stopped" /\ misreported' = (Dangling(rows) # {})
       \/ UNCHANGED <<told, misreported>>
    /\ UNCHANGED <<wvars, seedvars, tvars, rvars, rows, bounds, torn, turned, overlooked>>

\* WTSEnumerateSessionsW, and a user name for each session found.
Enumerate ==
    /\ proc = "listening"
    /\ ~asleep
    /\ proc' = "seeding"
    /\ LET found == {s \in Sessions : world[s] \in {"unlocked", "locked"}}
       IN  \E S \in SUBSET found : seeds' = S /\ overlooked' = found \ S
    /\ UNCHANGED <<wvars, relock, tvars, rvars, rows, told, bounds, torn, misreported,
                   turned>>

\* The handler is free for another call.
Ready == ~asleep /\ pending = "none"

SeedLogon(s) ==
    /\ proc = "seeding" /\ Ready
    /\ s \in seeds
    /\ relock = {}
    /\ seeds' = seeds \ {s}
    /\ Handle([kind |-> "logon", who |-> {s}], named \cup {s})
    /\ \/ relock' = IF world[s] \in {"locked", "locked away"} THEN {s} ELSE {}
       \/ relock' = {}
    /\ UNCHANGED <<wvars, proc, told, now, changes, misreported, turned, overlooked>>

SeedLock ==
    /\ proc = "seeding" /\ Ready
    /\ relock # {}
    /\ relock' = {}
    /\ Handle([kind |-> "lock", who |-> relock], named)
    /\ UNCHANGED <<wvars, proc, seeds, told, now, changes, misreported, turned, overlooked>>

Seeded ==
    /\ proc = "seeding" /\ Ready
    /\ seeds = {} /\ relock = {}
    /\ proc' = "running"
    /\ UNCHANGED <<wvars, seeds, relock, tvars, rvars, rows, told, bounds, hvars>>

\* wndproc and dispatch
Dispatch ==
    /\ proc = "running" /\ Ready
    /\ mail # <<>>
    /\ mail' = Tail(mail)
    /\ LET e == Head(mail)
       IN  /\ \E known \in {named, named \cup e.who} : Handle(e, known)
           /\ overlooked' = overlooked \ e.who
    /\ UNCHANGED <<world, asleep, seedvars, told, now, changes, misreported, turned>>

\* WM_QUIT, then UsageRecorder::shutdown, whose write may fail.
Stop ==
    /\ proc = "running" /\ Ready
    /\ faults < MaxFaults
    /\ faults' = faults + 1
    /\ proc' = "stopping"
    /\ mail' = <<>>
    /\ \/ openId # 0 /\ openSince # NoTime /\ rows' = End(openId, "AgentShutdown") /\ torn' = torn
       \/ openId # 0 /\ openSince # NoTime /\ rows' = rows /\ torn' = TRUE
       \/ (openId = 0 \/ openSince = NoTime) /\ UNCHANGED <<rows, torn>>
    /\ openSince' = NoTime
    /\ openId' = 0
    /\ UNCHANGED <<world, asleep, seeds, relock, sess, suspended, named, snap, pending, told, now,
                   changes, misreported, turned, overlooked>>

\* The memory of the process is gone.
Forget ==
    /\ proc' = "down"
    /\ mail' = <<>>
    /\ seeds' = {}
    /\ relock' = {}
    /\ sess' = [s \in Sessions |-> "none"]
    /\ suspended' = FALSE
    /\ openSince' = NoTime
    /\ openId' = 0
    /\ named' = {}
    /\ snap' = "NO_SESSION"
    /\ pending' = "none"
    /\ overlooked' = {}

\* AGENT_STOPPING is queued, or that fails, and the process ends.
Stopped ==
    /\ proc = "stopping"
    /\ ~asleep
    /\ Forget
    /\ \/ told' = "stopped" /\ misreported' = FALSE
       \/ told' = told /\ misreported' = TRUE
    /\ UNCHANGED <<world, asleep, rows, bounds, torn, turned>>

\* The process is killed, or the power fails and every session with it.
Crash ==
    /\ proc # "down"
    /\ faults < MaxFaults
    /\ faults' = faults + 1
    /\ Forget
    /\ misreported' = (misreported \/ pending # "none" \/ proc = "stopping")
    /\ \/ UNCHANGED <<world, asleep>>
       \/ world' = [s \in Sessions |-> "absent"] /\ asleep' = FALSE
    /\ UNCHANGED <<rows, told, now, changes, torn, turned>>

-----------------------------------------------------------------------------
Outside ==
    \/ \E s \in Sessions, kind \in Kinds, st \in Standings : UserActs(s, kind, st)
    \/ MachineSleeps
    \/ MachineWakes
    \/ Tick
    \/ \E t \in 0 .. MaxTime : SetBack(t)

Agent ==
    \/ Start
    \/ RunFails
    \/ Enumerate
    \/ \E s \in Sessions : SeedLogon(s)
    \/ SeedLock
    \/ Seeded
    \/ Dispatch
    \/ Report
    \/ Stop
    \/ Stopped
    \/ Crash

Next == Outside \/ Agent

Spec == Init /\ [][Next]_vars

-----------------------------------------------------------------------------
TypeOK ==
    /\ world \in [Sessions -> Standings]
    /\ asleep \in BOOLEAN
    /\ mail \in Seq(SessionEvent)
    /\ proc \in Phases
    /\ seeds \subseteq Sessions
    /\ relock \subseteq Sessions
    /\ sess \in [Sessions -> {"none", "visible", "hidden"}]
    /\ suspended \in BOOLEAN
    /\ openSince \in 0 .. NoTime
    /\ rows \in Seq(UsageSession)
    /\ openId \in 0 .. Len(rows)
    /\ named \subseteq Sessions
    /\ snap \in {"NO_SESSION", "ACTIVE", "LOCKED", "SUSPENDED", "DISCONNECTED"}
    /\ pending \in {"none", "active", "inactive", "logoff"}
    /\ told \in {"nothing", "active", "inactive", "logoff", "stopped"}
    /\ now \in 0 .. MaxTime
    /\ changes \in 0 .. MaxChanges
    /\ faults \in 0 .. MaxFaults
    /\ torn \in BOOLEAN
    /\ misreported \in BOOLEAN
    /\ turned \in 0 .. Len(rows)
    /\ overlooked \subseteq Sessions

Alive == proc \in {"listening", "seeding", "running"}

(***************************************************************************)
(* Tracker and table agree about the open session, across restarts that    *)
(* recover it: the only row without an end is the tracker's, and it began  *)
(* when the tracker says.                                                  *)
(***************************************************************************)
StoreAgrees ==
    Alive /\ ~torn =>
        /\ openId = 0 <=> openSince = NoTime
        /\ Dangling(rows) = IF openId = 0 THEN {} ELSE {openId}
        /\ openId # 0 => rows[openId].start = openSince

(***************************************************************************)
(* No stretch of time is counted twice: recorded sessions follow one       *)
(* another, and only the last may still be open.  The recorder stamps them *)
(* with the system clock as it stands (lib.rs, 138): when that is set back *)
(* the sessions begun before may reach into those begun after, and those   *)
(* begun since are in order among themselves again, also when a session    *)
(* from before was open across it or was recovered after a crash.          *)
(***************************************************************************)
SpansDisjoint ==
    ~torn => \A i, j \in DOMAIN rows : turned < i /\ i < j => rows[i].end =< rows[j].start

(***************************************************************************)
(* What has been reported (ACTIVE, INACTIVE, LOGOFF, AGENT_STOPPING) is    *)
(* what the tracker holds: no ACTIVE is repeated and none is missing,      *)
(* across crashes, recoveries and clean stops.  Excepted (misreported) is  *)
(* the time from a report that was lost, by a failed enqueue or a crash    *)
(* before it, or from the AGENT_STOPPING of a start that failed while a    *)
(* row was open, to the next report.                                       *)
(***************************************************************************)
ReportsAgree ==
    Alive /\ pending = "none" /\ ~torn /\ ~misreported => (told = "active" <=> openSince # NoTime)

(***************************************************************************)
(* When every notification has been dispatched, a device with an unlocked  *)
(* session on a screen is in use to the tracker: also when the session     *)
(* changed while it was being announced at startup, or the machine slept.  *)
(* (Unless its user could not be looked up then.)                          *)
(***************************************************************************)
UseIsTracked ==
    proc = "running" /\ mail = <<>> /\ ~asleep =>
        ((\E s \in Sessions \ overlooked : world[s] = "unlocked") => openSince # NoTime)

\* Every failed write or crash leaves at most one more row without an end.
DanglingBounded == Cardinality(Dangling(rows)) =< 1 + faults
=============================================================================
