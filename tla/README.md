# TimeLord in TLA+

Models of the TimeLord agent (Rust, `agent/`, `notifier/`, `ipc/`) and controller (Java,
`controller/`), checked with TLC and proved with TLAPS. Paths below are relative to the repository.

The project states and checks what the code promises where tests hardly reach: two processes on one
SQLite queue, answers lost between two machines, long polls that miss their wake-up, a machine that
sleeps in the middle of anything, crashes between two writes, notifications that race a startup scan,
a clock moved while it is being measured, a configuration file that two processes rewrite.

## 1. The system

| Part | State it keeps | Operations | Interacts with |
|---|---|---|---|
| Event queue, `agent/src/queue.rs` | table `event_queue`: attempt count, `created_at`, `next_attempt_at` | enqueue with size limit, due_batch, mark_delivered, mark_failed | every task of the agent, the `test-event` command |
| Delivery loop, `agent/src/agent.rs` | the batch in hand, `connected` | deliver_due_batch, flush on enqueue | queue, controller |
| Controller ingestion, `event/EventService.java`, `DeviceEventWriter.java` | `device`, `device_event` | submit, insertIfAbsent | agents, device deletion |
| Schedule synchronisation, `agent.rs`, `agent/AgentController.java`, `DeviceWaiters.java` | cached schedule, `schedule.json`, confirmation, parked requests | register, heartbeat, long poll, apply, invalidate | device service, enforcement |
| Enforcement, `agent.rs`, `schedule.rs` | planned wake-up, shutdown cool-down | enforcement_loop, enforce | cache, trusted clock, Windows |
| Trusted clock, `clock.rs`, `clock_sync_loop` | offset to NTP time, last look at the system clock | measure, retry, resync, watch, now, is_ready | enforcement, notifier, messages |
| Usage recorder, `lib.rs`, `tracker.rs`, `store.rs` | sessions, open span, table `usage_session`, snapshot | handle, recover, shutdown | notification pump, event queue, heartbeats |
| Notification pump, `platform/windows.rs` | window message queue | wndproc, seed_active_sessions | Windows, recorder |
| Messages, `messages.rs`, `message/MessageService.java` | messages with a sequence number and an expiry, cursor | send, poll, apply, live | long poll, notifier |
| Notifier, `notifier/src/engine.rs`, `main.rs`; pipe, `notify_pipe.rs` | thresholds already announced, actions known, messages already shown | poll the pipe, warn, take back | agent |
| Schedule resolution, `schedule/ScheduleResolver.java`, `ScheduleService.java` | rules and dated overrides | windows for four weeks, merge, complement | device service |
| Power, hold and extension, `device/DeviceService.java`, `PowerStatus.java` | powerOn, powerOff, extension | on, off, hold, clear, extend | schedule resolution |
| Device registry, `DeviceService.java` | device rows, online status | register, heartbeat, delete, status sweep | all agent endpoints |
| Device sessions, `DeviceSessionService.java` | none (computed) | sessions from events | events |
| Configuration, `config.rs`, `main.rs` | `agent.toml`: device id, controller URL | load, resolve, persist | service, command line |
| Discovery, `discovery.rs`, `discovery/*.java` | the replies of a sweep | sweep, validate, select, retry | configuration, registration |
| Service life, `run_blocking`, `service_win.rs` | pump thread, shutdown channel | start, stop request, flush | everything above |
| Legacy schedules, `LegacyScheduleConverter.java`, `V5__OnWindows.java` | none (migration) | off windows to on windows | schedules |
| Dashboard, browser push, retention, packaging | | | views, timers and scripts around the above |

What is hard in it:

- *delivery*: an answer is lost although the batch was stored; a submission that timed out is still
  being served while it is retried; the queue's lock is released during the request;
- *synchronisation*: three exchanges answer out of order; the check and the parking of a long poll
  are two steps; the machine sleeps between a reply and its use; the cache outlives the process;
- *enforcement*: must wait for a confirmation and must not wait for ever;
- *usage*: one open span spread over memory, a table and an event queue that are not written
  together; notifications that arrive during the startup scan; failing writes;
- *messages*: numbers drawn in one order and visible in another; *windows*: local time, overlaps and
  complements; *extension*: inside and outside windows, twice, after expiry;
- *clock*: the answers to one measurement may belong to two settings of the clock; NTP's 32-bit seconds
  wrap in 2036; few servers answer, one of them wrongly;
- *warnings*: thresholds met by polling, an action that is cancelled and comes back, a schedule that
  may not be announced yet, a notifier and a service that restart independently;
- *start and stop*: `agent.toml` is read, changed and rewritten without a lock; replies come late; a stop
  reaches a service that is still searching.

`PROJECT.json` lists these as hazards, each at its line, with the property that covers it.

## 2. Modules

| Module | Models | Extends |
|---|---|---|
| `EventIds` | event ids, shared | |
| `EventQueue` | `queue.rs` | `EventIds` |
| `EventIngest` | `EventService`, `DeviceEventWriter`, the deletion of a device | `EventIds` |
| `EventDelivery` | the delivery loop, registration, the `test-event` command, network and crashes; composes the two above | `EventQueue`, `EventIngest` |
| `EventLedger` | abstract: what queue and ingestion promise together; `EventDelivery` implements it | `EventIds` |
| `EventDeliveryProofs` | proofs, the refinement too | `EventDelivery` |
| `ScheduleSync` | cache, exchanges, long poll, enforcement, sleep | |
| `ScheduleSyncProofs` | proofs | `ScheduleSync` |
| `UsageRecorder` | tracker, store, recorder, notification pump | |
| `UsageRecorderProofs` | proofs | `UsageRecorder` |
| `MessageDelivery` | sending, fetching and showing of administrator messages | |
| `MessageDeliveryProofs` | proofs | `MessageDelivery` |
| `ScheduleResolver` | `ScheduleResolver.java`: rows and overrides to windows, merge, complement | |
| `DevicePower` | schedules, power, hold and extension, and the other writers of the device's row | `ScheduleResolver` |
| `DevicePowerProofs` | proofs, those of `ScheduleResolver` too | `DevicePower` |
| `TrustedClock` | NTP exchange, median, `clock_sync_loop` | |
| `TrustedClockProofs` | proofs | `TrustedClock` |
| `Notices` | the pipe's announcements, `Engine`, the notifier's polls and toasts | |
| `NoticesProofs` | proofs | `Notices` |
| `Startup` | `agent.toml`, discovery, the service's start and stop | |
| `StartupProofs` | proofs | `Startup` |
| `MC...` | model values, schedules and symmetry for TLC | the module named |

### 2.1 Event delivery

State. `rows` is the queue's table: event id to attempt count, creation instant and whether its
`next_attempt_at` has passed. `recorded` is `device_event`, `registered` the device's row, `handler`
the controller's threads, each in the middle of one `submit`. `phase` and `batch` are the delivery
loop, `cli` and `cliEvent` the command. `acked`, `expired`, `evicted` and `purged` are history: why
an event is no longer where it was.

Actions. `TakeBatch`, `Send`, `SendFails`, `SendTimesOut`, `ReplyOk`, `ReplyError`, `Mark` and
`MarkErrors` are `deliver_due_batch` between its awaits and, while marking, row by row, because a row
can fail while the others do not. `HeartbeatNotFound`, `LockClient`, `RegisterFails` and `Reregister` are
a re-registration, which takes the client mutex and keeps it while register retries without end: until it
returns, the delivery loop, which has taken its batch, can neither send nor fail (`ClientFree`). `Serve` is a controller thread: device check, then for each item
the check and the insert apart, in any order of items; `InsertConflicts` is the constraint violation,
answered DUPLICATE. A timed-out request keeps being served with nobody to read its answer
(`Disown`). `Occur` is any other enqueue: session events, SYSTEM_BOOT, HEARTBEAT_SENT, enforcement.
The INSERT and the DELETE of `enqueue` are two transactions. Between them the process may end (`Crash`), the
second may fail (`Enqueue`), and the agent's own steps may come between those of the command, which shares
no mutex with it (`CliInsert`, `CliEnforce`); each leaves a row over the limit, counted by the history
variable `cut` until enforce_max_size runs again. Without such a fault they are one step: within the agent
the queue's mutex is held over both.

Abstractions. Payloads are event ids. Back-off is a flag that time sets (`TimePasses`): no property
depends on its length. `created_at` is an instant drawn from a small set, which lets the clock repeat
or step back. A row that does not parse, which makes `due_batch` fail as a whole, is left out: only
this program writes the rows.

`EventLedger` says the same without a queue, a batch, a request or a handler: an event is reported,
is open until it is stored or dropped, and is closed as delivered only if the controller has it (or
had it until the device was deleted). The refinement mapping takes `born` for `reported`, the events
in the table for `open`, `recorded` for `stored`, `expired` and `evicted` together for `dropped`, and
`purged` for `forgotten`. `KeepsLedger` makes `Ledger!Spec` a property of the runs and a theorem; it
contains `AckedIsRecorded`, which is proved and has no run of its own.

### 2.2 Schedule synchronisation and enforcement

State. `want` is what `scheduleFor` returns; power, hold, extension and edits all appear as a change
of it (`Edit`). `chan` has the three exchanges; a long poll goes through check, parking and answer in
separate steps, so it can miss a change; `wakeDue` is a change committed whose `deviceChanged` has
not been called. `cache`, `disk`, `confirmed`, `grace` and `clockReady` are the agent's. `enf` and
`plan` are `enforcement_loop`: what it cloned before the awaits of `enforce`, and whether it has
acted. `late` says that the loop will find its wake-up more than SLEEP_DETECT_SLACK behind the planned
one: after a sleep while it waited that may be so or not, for a short sleep is within the slack, and after
a sleep inside `enforce` it is not. `replied`, `aged`, `counted` and `doubt` are history: the schedules
applied from replies computed since start or resume, the exchanges whose reply is older than the resume,
whether the grace period began since, and why the confirmation may be older than the resume.

The four loops of `run_blocking` are joined in one task, so the code between two awaits is one step.
The client mutex is modelled: a re-registration holds it and blocks polls (`ClientFree`).

Abstractions. A schedule is its identity, `Off[s]` the instants its windows cover. The interval
between polls and heartbeats is unconstrained. Time (`now`) is trusted time; `clock.rs` itself is
reduced to whether it is ready.

### 2.3 Usage recorder

State. `world` and `asleep` are what the users and the machine do (external, Windows). `mail` is the
window's message queue. `sess`, `suspended` and `openSince` are `UsageTracker`; `openId`, `named`,
`snap` are `UsageRecorder`; `rows` is `usage_session`; `told` is the last activity event queued,
`pending` the one `handle_at` has still to queue after it has written the row: a crash can come
between. `overlooked` is history: sessions whose user could not be looked up at startup.

Actions. `Handle` is `handle_at` up to the queue (early return for a repeated logon, no change,
start, end, failed write); `Report` the rest. `SeedLogon`, `SeedLock` and `Dispatch` are its three
callers. `Start` recovers a dangling row, `Stop` and `Stopped` are the clean end in its two writes,
`Crash` may take the power and all sessions with it. `RunFails` is a start whose `platform::run` returns
early with an error: the recorder is not shut down and AGENT_STOPPING is queued all the same. `Report` and
`Stopped` may fail to enqueue, which is only logged. `SetBack` is a user setting the system clock back:
spans are stamped with it as it stands. `torn`, `misreported` and `turned` are history: whether a write to
the table failed, whether the queue's last word was lost or is not about the open session (until the next
report), and how many rows were begun before the clock was last set back.

Abstractions. Console and remote connections, which differ only in the text of `end_reason`, are one
kind. User names are session ids.

### 2.4 Administrator messages

State. `tx`, `seq`, `last` and `expires` are the rows of `device_message` with the transaction that
inserts each; `wake` are commits whose `afterCommit` has not run. `req` is the long poll, its answer
included. `cursor`, `held` and `saved` are `MessageStore` and `messages.json`; `shown`, `file` and
`dirty` the notifier's `MessageTracker` and `notifier-shown.json`. `now` is the controller's clock
and `ahead` how far the agent's trusted clock is before it. `overtaken`, `lapsed`, `unsaved` and
`disturbed` are history: what the properties except, and why.

Actions. `Insert` and `Commit` are `send` and `sendToAll` at the two moments that matter, the draw of
`seq` and its visibility. `Serve`, `Park`, `Wake` and `PollTimesOut` are `AgentController.messages`:
the check and the parking are two steps, and `deviceChanged` may take away the list a request is just
being added to (`unheard`). `Receive` is `apply_messages`: a store that changed is saved, or the save
fails. `Look` and `SaveShown` are `show_new_messages` before and after it writes its file. A file that
cannot be read or does not parse is an empty one to the agent (`AgentStarts`) and to the notifier
(`NotifierStarts`), which then shows every live message again; those are noted in `unsaved`.

Abstractions. One device, one user. Titles, texts and their checks are left out, and so is
`delivered_at`, which only the dashboard shows. A clock behind the controller's is left out: it shows
expired messages longer and skips nothing.

### 2.5 Windows, power, hold and extension

`ScheduleResolver` is pure. An instant and a local date-time are integers in one unit; a zone has one
change of offset, and `LocalOf`, `InstantOf` and `StartOfDay` do what java.time does where a local time
is skipped or occurs twice. Offsets are within a day of UTC (java's are within 18 hours), and no zone's
clocks go back from ahead of UTC to behind it (`Zones`; section 4 says why). Lists of windows are sets: `merge` sorts its argument, and neither the
order nor repetitions of what `offWindows` returns reach a property. `Merge` and `Gaps` say of the
whole list what the loops compute element by element: a window begins a new group if everything that
begins before it has ended, and the cursor at a window is how far the windows before it reach.
`MustBeOff` is the reference: the rows and overrides read off the clock on the wall, with no windows.

State of `DevicePower`. `schedules` are the three schedule tables, `row` the device's assignment,
extension and power columns, `seen` the row as an open heartbeat, registration or sweep read it, `asked`
history. Actions are the requests of `ScheduleService` and `DeviceService`, each a transaction; `Read`
and `WriteBack` are the two ends of a transaction that saves a whole row, which the foreign key
refuses if its schedule is gone. That requests of the administrator do not interleave with each other
is a simplification: one open transaction at a time stands for the writer that is always there, the agent.

Abstractions. The action (sleep or shutdown), names and the dashboard's forms are left out. Requests
that are refused change nothing and are guards. The ASSUME on `Contents` and `NewOverrides` is what
`validate` and `addOverride` let through.

### 2.6 Trusted clock

State. Real time passes outside the model: `skew` is the system clock minus real time, so the trusted
time is wrong by `skew + offset`. `offset` and `synced` are `TrustedClock`; `loop`, `due`, `resync` and
`mark` are `clock_sync_loop` (`mark` for `last_system` and `last_tick`, whose difference from the clocks
is all that matters); `asked` and `answers` the measurement. `clean`, `sound` and `ignored` are
history: whether the clock was moved during the measurement, whether most answers were honest, how
many small moves the watch let pass.

Actions. `Query` is one exchange with one server: sent at a real time, answered with an error of the
server's, delayed differently in each direction, with a move of the clock while the answer travels;
the timestamps go through `ToNtp` and `FromNtp`, which wrap and unwrap the era, and an answer is
believed only if its round trip is. `EndMeasure` takes the median, `WatchTick` compares the clocks,
`TimerFires`, `RequestResync` and `TakeResync` make a measurement due.

Abstractions. Milliseconds are units and the seconds' wrap is a wrap of units; what is lost below a
millisecond is left out. A server's processing time is zero. The checks of `parse_reply` decide only
whether there is an answer. Retry intervals are unconstrained.

### 2.7 Warnings

State. `cache` and `gate` are the service's schedule and whether `enforcement_view` lets it be used
(in `ScheduleSync`: confirmed or past the grace period); `ahead` is the trusted clock against
monotonic time. `service` distinguishes a process without a pipe. `fired` and `known` are `Engine`,
`screen` what Windows shows, keyed by action as the toast's tag is, `sleep` the rest of `thread::sleep`.
`quiet` (seconds since the last disturbance), `warned` and `orphans` are history.

Actions. `Poll` and `Update` are the two ends of one `transport::call`, between which the schedule may
change; `PollFails` is each way it fails. `Update` is `Engine::update` with the dismissals and toasts
that follow it. `Tick` is a second; a poll that is due happens before it, which is the only real-time
assumption. Everything else is a disturbance.

Abstractions. The hash that names an action is the pair it hashes. The countdown list of `Tick` is
left out: nothing uses it. Texts are left out.

### 2.8 Start and stop

State. `file` is `agent.toml` (device id and URL; empty, which parses as the default, and `Broken`). `pc`
and `mem` are the service's and a command-line process's place and memory, `found` the replies a sweep
has collected, `alive` the controllers that ran during it; `main` and `quit` are the service's main
thread and the WM_QUIT in its queue. `byHand`, `early` and `mixed` are history: the URL the
administrator wrote, the processes that had read the file before, and whether two updates overlapped
or one was left or read half done.

Actions. `Load`, `Merge`, `Create` and `Write` are `config::load` and `persist_*` at the moments another
process can come between: read, read again, truncate, fill. Each may fail, the last with the file
truncated or half written; the service only warns of a URL it could not save and runs on (`SaveFailed`).
`Sweep`, `Receive` and `Close` are
`discover`, with replies to this or to an earlier request; `Discover` is `discover --force` in one step.
`Enter`, `Stop`, `PumpEnds`, `Flushed` are `run_blocking` and `request_stop`; `Join` notes whether the
loops subscribe to the shutdown channel before or after the stop (`deaf`).

Abstractions. Interfaces, subnets and probes are one step: what matters is who may answer. Response
times are the order of replies. The other fields of the file are read once and never written.

## 3. Runs

Bounds are small because each hazard needs few actors: two submissions of one event, one change
during one poll, one crash between two writes.

| Run | Bounds | Shows |
|---|---|---|
| `delivery_safety` | 3 events, capacity 1, 2 attempts, batch 2, 2 threads, 1 fault; symmetry | `NoEventLost`, `AnswerMatchesBatch`, `BatchIsCurrent`, `QueueBounded`, `ExpiresOnlyAtLimit`, `KeepsLedger` (refinement) |
| `delivery_live` | 2 events, batch 1, 1 thread, 1 fault | `EveryRowSettles` |
| `sync_converge` | one schedule or none, 1 edit, 1 fault | `Converges` |
| `sync_governed` | a sleep and a shutdown schedule, 2 instants, 1 fault, NTP required | `GatedDecision`, `Governed` |
| `sync_offline` | controller unreachable | `GovernedFromStart` is violated |
| `usage_safety` | 2 sessions, 2 changes (settings of the clock included), 1 fault, 2 instants; symmetry | `StoreAgrees`, `SpansDisjoint`, `ReportsAgree`, `DanglingBounded`, `UseIsTracked` |
| `message_delivery` | 2 messages, 2 instants, clock 0 or 1 ahead, 1 fault | `CursorIsHonest`, `ShownOnce`, `EventuallyShown` |
| `power_windows` | 4 zones, 8 sets of rows, 1 override, 8 instants, 2 requests, 1 heartbeat | `AssignmentExists`, `ToldWhatHolds`, `StatusAgrees`, `ExtendGrants`, `RevisionStable` |
| `power_off` | 1 request, 1 heartbeat | `OffSticks` is violated |
| `trusted_clock` | 3 servers, 1 wrong; delays 0 or 3, moves -3 or 1, 2 of them; an era of 64 units that ends between the two times of asking | `Trusted`, `Corrected` |
| `notices` | 4 schedules, thresholds 4 and 2, polls every 1 or 3 of 12 units, clock steps -2 and 3, 3 disturbances | `WarnedInTime`, `NoFalseAlarm`, `StruckIsWarned` |
| `startup` | service and one command, 2 controllers, 2 replies, 1 URL by hand, an unusable override, 2 ids, 2 events | `IdentityKept`, `ManualUrlKept`, `AdoptsBestOfSweep`, `StopEnds`, `FindsController` |

Three events with capacity 1 make eviction happen, also of two rows at once after an enqueue that was cut
short, and equal creation times leave open which rows go; a batch of 1 leaves out a row that is due;
two attempts make the first failure a retry and the second an expiry; two threads let a retry race
the request it repeats. Two instants put a device outside and then inside a window. Two changes reach
a logon or a lock that races the scan at startup, and with a crash the recovery of an open row. Two
messages can commit in the order opposite to their numbers, and a clock one instant ahead expires a
message that is not over. A day of six units and a week of two days are enough for rows that touch,
overlap, lie in one another, end at midnight or go over it, and for days with none; a horizon of two
days takes both days and both sides of each change of offset, and the clock runs over more than a day,
so that horizon, range and hold all move under it. `extend` looks ahead less far than the agent's
horizon here as in the code (2 days of 28), which `ExtendGrants` needs.
Three servers of which one is wrong are the default configuration and the smallest in which a median
differs from a mean; a move of 1 is below the watch's threshold and one of 3 above it. In `notices` the
thresholds lie on both sides of the change to fast polls, two schedules differ only in what they do and
one has two windows in one horizon; three disturbances cancel an action, bring it back and break a
poll. In `startup` two controllers of different priority can answer one sweep in either order, or one
answer late; two ids tell a new identity from the old one; two events are an edit and a crash.
What a second fault or a longer history could add is covered for the
proved invariants by the proofs, which bound nothing.

The usage, power and notices runs do not check for deadlock: with all changes and faults spent and the clock at its
bound, nothing is left to happen.

### What the violations show

- `sync_offline`: `run_blocking` resolves the controller and registers before it starts
  `enforcement_loop`, and both retry without end. An agent started while the controller is down
  enforces nothing, though `docs/scheduling.md` says that after 90 seconds it enforces the cache.
- `power_off`: a heartbeat reads the device's row, the administrator switches the device off, the
  heartbeat saves the row with all its columns: the device is on again, and nobody asked for it.

Seen while modelling and left to the reader, without a run of their own. Where a property is about such a
case it excepts it by the history variable named with it; `FindsController` instead assumes it away by its
fairness, and the cases with no name are outside what any property says.

*Schedules, messages, usage.* A reply computed before a sleep and read after it counts as confirmation
since the resume, so a schedule edited during the sleep can be enforced once in its old form, while
`schedule.rs` (67-70) gives the gate as the protection against it (`crossed`, in `doubt`). A sleep within
SLEEP_DETECT_SLACK of the planned wake-up, or one that strikes inside `enforce`, is not noticed, and the
confirmation from before it stands (`unnoticed`, in `doubt`). `seq` is drawn at insert: when of two
overlapping sends the later number commits first and is fetched, the cursor passes the earlier message,
which is never delivered (`overtaken`), while `docs/notifier.md` (46-47) says that a message is held until
it expires. Reconnecting to a locked session makes it visible, against the comment on the field
(`tracker.rs`, 110), and so counts as use: `UseIsTracked`, which says that no use is missed, would not
catch it. When the clock is set back, sessions begun before may reach into those begun after, and a
session can end before it began (`turned`). A start that fails in `platform::run` queues AGENT_STOPPING
while the session a crash left open stays open, and a report that cannot be queued is lost
(`misreported`). The session a crash leaves
open is resumed, while `docs/agent.md` (154-156) says it is closed with AGENT_RESTART, which nothing
produces; a session found at startup with an unknown lock state is reported ACTIVE, while the comment
at `platform/windows.rs` (307-310) says LOCKED; and a message hidden while the agent's clock was ahead
is shown again after the clock is corrected (`ShownOnce` excepts it), while `engine.rs` (82-83) says
that each appears once.

*Windows and power.* Switching a device off with a grace period inside a
scheduled off window lets it on until the grace is over, since the endless window replaces the
schedule's; an extension outlives an update of the schedule and can delay or drop the new windows; a
row that begins in a skipped hour and ends soon after it becomes a window inside out, which covers
nothing, so that the gaps around it overlap (`GapsCover` holds of such windows too); and where clocks
are put back over midnight the range of `offWindows` can end before `to`. The windows the agent gets are
not touched by that in any zone there is, because their `to` is a UTC midnight (`RangeReaches`).

*Clock.* `docs/agent.md` (77-78) and `clock.rs` (173-174) say that one wrong server cannot move the clock;
where only one or two servers answer it can (`sound`). A move of the clock while the servers are being
asked spoils the measurement, and the watch, which reads the clock again afterwards, cannot see it
(`clean`); the next measurement, up to 15 minutes later, puts it right (`Corrected`).

*Warnings.* When the trusted clock is stepped back, a toast may return to a looser threshold. A toast of a
notifier that ends stays on the screen and no later notifier takes it back (`orphans`). If the pipe cannot
be created, or the next instance of it, there are no warnings until the service restarts.

*Start and stop.* An override that is no UUID, even an empty `--device-id`, makes `load` replace a good
id in the file. Two first starts at once give two ids. `fs::write` truncates before it writes: another
process that reads in between sees the default and makes a new id, and a power failure or a write that
fails can leave a file that no start can read (`mixed`, all four; the service runs on after a URL it could
not write). A service that began before the administrator wrote a URL overwrites it when
discovery succeeds, against `docs/agent.md` (112-114) (`early`). `discovery_enabled` and `--no-discovery` are
resolved and never consulted. An error of `recv_from` ends the window early (`discovery.rs`,
289-292), and a subnet of more than MAX_SWEEP_HOSTS_PER_SUBNET hosts is skipped (189-193): if that happens
to every window, or to the subnet the controller is on, it is never found. A stop before the pump has
its thread id is lost, while the comment in `service_win.rs` (80-82) has run_blocking end at any
`request_stop`. On Windows `notify_pipe::serve` has no shutdown signal, so the networking task never
ends by itself and SHUTDOWN_FLUSH_TIMEOUT always elapses.

*Without a property.* The online status compares the controller's clock with times the agent sent
(`DeviceService.java`, 105). `enforcement_loop` clones the schedule before the await of `enqueue` and acts
on it afterwards, so an extension that arrives in between comes too late (`agent.rs`, 687). A system clock
stepped back postpones the delivery of events (`queue.rs`, 171).

### Fairness

- `EventDelivery`: the service manager starts the agent again, the delivery interval keeps ticking, a
  submission that could be sent is sent and ends (REQUEST_TIMEOUT), the rows of a batch are all marked,
  back-off passes, controller threads run. Every submission may fail, and nothing is said of who gets the
  client mutex first. Apart from this, `EveryRowSettles` assumes of the network that a registration which
  is retried without end is answered in the end (`RegistrationAnswered`); without it the property is false:
  a re-registration that never returns keeps the client mutex, and no row is delivered or given up.
- `ScheduleSync`: the agent is started again, a sleeping machine is woken, every request ends, tokio
  polls the joined loops, controller threads run, the grace period passes. Each exchange is strongly
  fair, because sleeps can interrupt it again and again. Nothing is assumed of network or NTP;
  `Converges` takes a network that stays up as its hypothesis.
- `MessageDelivery`: controller threads run and a parked request times out, the agent is started
  again and polls on, and somebody is logged on again and again long enough for one look (strong
  fairness: log-offs interrupt). `EventuallyShown` takes a network that stays up as its hypothesis.
- `TrustedClock`: tokio runs `clock_sync_loop`, its timer fires, every query ends in an answer, an error or
  QUERY_TIMEOUT. `Corrected` takes measurements with a majority of honest answers as its hypothesis.
- `Startup`: Windows dispatches WM_QUIT, the timers that end the flush, the window and the back-off fire,
  and a reply that is possible in sweep after sweep arrives in one (strong fairness: the network does not
  lose every packet for ever, not every window is ended early by an error of `recv_from`, and the
  controller is on a subnet that is swept). Nobody is assumed to start the service or to keep a controller up;
  `FindsController` takes the latter as its hypothesis.
- `UsageRecorder`, `DevicePower` and `Notices` have safety properties only.

## 4. Proofs

Proved by TLAPS for every value of the constants that satisfies the ASSUMEs. These bound nothing but what
the requests' own checks bound: limits are natural numbers or positive, sets finite where a cardinality
is taken, rows and overrides valid, `extend` looks ahead less far than the horizon, `Forever` is no earlier
than any horizon, and what a command line or the environment overrides is an id and a URL like those of
the file. `Zones` is the one restriction of the environment, and the proof of `RangeReaches` found it.

**Event delivery.** `NoEventLost` is not inductive: a row is deleted on the controller's word.
`DeliveryInv` follows that word: every result in a handler is of an event that is recorded or purged
(`HandlerSound`, past a deletion between check and insert); the answer awaited is for the batch in
hand (`AnswerMatchesBatch`), so while an accepted batch is marked its events are known to the
controller; so `acked` is within what is known; and `Accounted` says that nothing leaves the table
otherwise than acknowledged, expired or evicted. `QueueBounded` holds because an INSERT that is cut short
is counted, and enforce_max_size brings the table to its capacity however many there were. Theorems: `TypeCorrect`, `EventsSurvive`,
`AckedRecorded`, `AnswersMatch`, `BatchStaysCurrent`, `QueueStaysBounded`, `ExpiryAtLimit`.
`ImplementsLedger` is the refinement: the enqueues are reports (with the evictions they cause), an
insert stores, a mark closes what `DeliveryInv` knows to be recorded or drops what expired, a deletion
forgets, and every other step leaves the mapped variables alone.

**Schedule.** `GatedDecision` is about one step of one loop; its reason is spread over the others: a
confirmation that is believed, or a grace period that began before the last resume, goes with a cache from
a reply computed since the last start or resume, unless the loop is about to notice a sleep or `doubt` says
why it cannot (`Confirmed`); this needs that no exchange but registration exists before the loops do
(`Started`). Each of the two doubts is needed: without either exception TLC finds a decision on an old
cache. Theorems: `TypeCorrect`, `DecisionsAreGated`.

**Usage.** `Books` ties tracker, table and reports together in every phase of the process. A recovery
is right because at most one row is open, and that one is the last (`Lone`: with the clock set back the
order of the stamps does not say so, the order of insertion does), and because, for a process that is
down, the last report, unless it was lost, still says whether there is one; what is still to be reported
is what the tracker holds (`Promised`).
Theorems: `UsageInvariant`, `UsageTypes`, `OpenSessionAgrees`, `RecordedOnce`,
`ReportedAsHeld`. `DanglingBounded` needs to know which of the open rows is the tracker's own (`Spare`):
`FewDangle`. `UseIsTracked` speaks of an empty message queue only; `Follows` says what a queue that is not
empty still has to bring: of each session that is unlocked, that the tracker sees it, or the scan has yet
to announce it and will not lock it again, or the latest notification about it makes it visible (`Shown`);
of each that is gone, that it is forgotten or its log-off is on its way (`Gone`); and that a suspended
tracker has a resume coming (`Rouses`). Each dispatch takes the oldest notification away, and what `Follows`
says of the latest is then left or has come true: `UseTracked`.

**Messages.** A cursor is the `seq` of a committed message (`Origin`), so what commits below it is on
record as overtaken; an answer under way is complete up to its last message (`Complete`), so applying
it leaves no gap; and a message shown is, until it expires, still in `messages.json` and still
remembered by the notifier, in memory or in its file, unless it is in `unsaved` (`Remembered`). Theorems: `MessageInvariant`, `MessageTypes`,
`CursorLeavesNoGap`, `EachShownOnce`.

**Windows.** `GapsCover`: within the range an instant is in a gap exactly if no window contains it. If
it is in none, let the next window to begin after it be w (or none): everything before w has ended, or
else contained it, so w's gap contains the instant. This needs that a finite set of windows has a
first one and that `Max` and `Min` are what they should be; without induction both come from the
well-foundedness of strict inclusion on finite subsets (`GreatestExists`). `MergeCovers` is the same
argument for `merge`; `OffWindowsExact` puts them together with the three filters, for every zone,
rows, overrides and range. From windows to the clock on the wall it takes one fact of a zone with a
change of offset of any size, forward or back: away from the change, `InstantOf(l) <= t` exactly if
`l <= LocalOf(t)` (`InstantReached`), so a row's window on a day contains t exactly if the wall shows
that day and a time the row covers (`WindowMeansClock`). It remains that the days the resolver expands
are enough: its range begins before `from` (`RangeStartsBefore`) and ends after the horizon
(`RangeReaches`). The second is not true of every zone: where clocks go back from ahead of UTC to
behind it at a UTC midnight, that midnight occurs twice on the wall and `offWindows` ends its range at
the first. TLC shows it with offsets 1 and -1; no zone in use does this, and `Zones` leaves it out.
Theorem: `ResolverMeansClock`.

**Power.** The inductive invariant is `TypeOK /\ AssignmentExists`; the types carry the finiteness of
each schedule's rows and overrides, without which `Min` in `extend` has no value. Deleting a schedule
keeps it because the foreign key clears the assignment, and a stale write-back because the foreign key
refuses it. `StatusAgrees` follows from the types alone, by the cases of `PowerStatus.of`, for every
clock value and zone; `ToldWhatHolds` from the invariant, `ResolverMeansClock` and what an extension does
to windows (`ExtensionDelays`), once the clock is known not to pass its bound, so that no horizon passes
`Forever`. `ExtendGrants` compares two resolutions: `extend` looks two days ahead, the agent has been told
of twenty-eight, and each is cut, merged and filtered at its own end. Both put the device off at the same
instants as far as both reach (`RowsAlike`), and what `extend` counts from is the first such instant
(`BaseIsFirst`), so it is the same (`SameBase`); an extension that goes beyond the horizon is a case of its
own. `RevisionStable` holds because the range depends on dates only and the filters drop only what has
ended. Theorems: `PowerTypes`, `AssignmentsExist`, `StatusIsTrue`, `ToldIsRight`, `ExtensionGrants`,
`RevisionIsStable`.

**Clock.** `NtpRoundTrip` says that `FromNtp` undoes `ToNtp` for every time between 1968 and 2104, across
the wrap, and `SampleRight` that an honest answer believed while the clock stood still is wrong by at
most half the greatest round trip. `MedianBetween`: if more than half of a finite set of answers lie
between two numbers, so does the median, by counting (`KthBetween`), without sorting. `ClockInv` carries
this bound through the loop: it holds of the offset as of the clock the watch last saw, plus one
threshold for each small move it ignored, until something makes a measurement due. Theorems:
`ClockInvariant`, `ClockTypeCorrect`, `ClockIsTrusted`.

**Warnings.** The three properties speak of the present, the notifier knows only its last poll. `NoticeInv`
bridges the two: as long as nothing has disturbed it for longer than the poll is ago, what is pending now
was announced then (`ReplyIsCurrent`, `LastPollHolds`), what is announced and fired is on the screen and
has warned (`FiredIsShown`), and what has begun since was warned of before (`PastIsWarned`), since the
interval chosen then ends before the next threshold can be missed by more than `Latency`. Thresholds,
intervals and horizon are any that satisfy `NoticesAssumption`. Theorems: `NoticeInvariant`,
`NoticesTypeCorrect`, `ThresholdsWarnInTime`, `ToastsAreTrue`, `NobodyIsStruckUnwarned`.

**Start and stop.** While a process rewrites `agent.toml`, what the file said is in that process's memory
only. `Tidy` follows it: unless updates got mixed, at most one process is between truncating and filling
the file, and its `base`, or else the file, is right about the device's id and the URL written by hand;
an update of the id only replaces one that is unusable; and a service that is searching, and has not read
the file before that URL was in it, proves that there is none (`Seeking`). `Working` says that the draft
is `base` with one field changed. Each process is the other's environment: what one has loaded is right
because the other's save keeps the field it does not own. `AdoptsBestOfSweep` needs that replies collected are
from controllers that ran during the sweep (`Heard`), and that among any number of replies there is one
of the highest priority, the first of equals, which `select_best` returns (`BestExists`, `SelectsBest`);
without induction this comes from the well-foundedness of `<`.
Theorems: `TypeCorrect`, `ContentsKept`, `IdentitySurvives`, `ManualUrlSurvives`, `SweepAdoptsBest`.

Every invariant and action property of a passing run is stated by a theorem. Only model-checked are the
liveness properties `EveryRowSettles`, `Converges`, `Governed`, `EventuallyShown`, `Corrected`, `StopEnds` and
`FindsController`: they need fairness and ENABLED, which are out of this prover's reach, as is induction
over data.

## 5. Plan

Done: event delivery with its abstract ledger, schedule synchronisation and enforcement, usage recorder,
messages, schedule resolution, power, trusted clock, warnings, start and stop, with the proofs of
section 4. Next, in this order:

1. The safety part of the liveness arguments, as theorems: that an exchange, a parked poll or a marked
   batch always has the step that ends it among those the fairness is about.
2. The readiness of `TrustedClock` in place of the flag `clockReady` of `ScheduleSync`, and the gate of
   `ScheduleSync` in place of the flag `gate` of `Notices`.
3. `DeviceWaiters` in detail (map, lists and futures), implementing the park-and-wake of `ScheduleSync`.

## 6. Not modelled

Drawing, texts and log files of the notifier; HTML, paging and form parsing of the dashboard; the
browser push, which only prompts a reload; retention of heartbeats, one delete statement; Win32 calls
other than by their effects; installation and packaging.

The online status of a device is a column that the dashboard shows and no other code reads. The history
of a device's sessions is computed from stored events for one page. The conversion of legacy schedules
runs once, inside one database migration. The controller's periodic discovery announcements have no
listener in the agent, and its identity row is written once, at its start. `PROJECT.json` gives the
reason for each part.
