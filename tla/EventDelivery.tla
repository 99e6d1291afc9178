---------------------------- MODULE EventDelivery ----------------------------
(***************************************************************************)
(* Delivery of events from one device to the controller: the agent's       *)
(* delivery loop (agent/src/agent.rs, deliver_due_batch) over its durable  *)
(* queue (EventQueue), the `timelord-agent test-event` command working on  *)
(* the same queue from a process of its own, and the controller's          *)
(* ingestion (EventIngest) on the other side of an HTTP connection that    *)
(* may refuse a request, or lose the answer to one that is still being     *)
(* served.  Agent and controller crash and restart; an administrator may   *)
(* delete the device.                                                      *)
(***************************************************************************)
EXTENDS EventQueue, EventIngest

VARIABLES phase,      \* where the agent and its delivery loop are
          batch,      \* event id -> attempt count, the pending vector of deliver_due_batch
          accepted,   \* did the submission return Ok?
          connected,  \* Agent.connected
          rereg,      \* where heartbeat_loop is with a re-registration
          cli,        \* where the test-event command is
          cliEvent,   \* the event it has enqueued
          purged      \* history: events that existed when the device was deleted

avars == <<phase, batch, accepted, connected, rereg>>
cvars == <<cli, cliEvent>>
hvars == <<purged, faults>>
vars == <<qvars, ivars, avars, cvars, hvars>>

(***************************************************************************)
(* down:     the process is not running                                    *)
(* starting: run_blocking has begun; register has not returned             *)
(* idle:     delivery_loop waits for its interval or a flush               *)
(* taken:    due_batch returned rows; the request is not sent              *)
(* sent:     submit_events is awaited                                      *)
(* marking:  the queue is locked and the batch is marked row by row        *)
(***************************************************************************)
Phases == {"down", "starting", "idle", "taken", "sent", "marking"}

Running == phase \in {"idle", "taken", "sent", "marking"}

(***************************************************************************)
(* rereg:  no      no re-registration is under way                         *)
(*         wanted  a heartbeat was answered 404; heartbeat_loop waits for  *)
(*                 the client mutex                                        *)
(*         held    register runs, and repeats itself until it succeeds,    *)
(*                 with the mutex held                                     *)
(* A submission holds the same mutex (phase sent), so it can neither begin *)
(* under held nor be under way when held begins.                           *)
(***************************************************************************)
Reregs == {"no", "wanted", "held"}

ClientFree == phase # "sent" /\ rereg # "held"

\* The queue's mutex is free for another task of the agent.
QueueFree == phase # "down" /\ phase # "marking"

NoBatch == [e \in {} |-> 0]

Init ==
    /\ QueueInit
    /\ IngestInit
    /\ phase = "down"
    /\ batch = NoBatch
    /\ accepted = FALSE
    /\ connected = FALSE
    /\ rereg = "no"
    /\ cli = "idle"
    /\ cliEvent = {}
    /\ purged = {}
    /\ faults = 0

-----------------------------------------------------------------------------
(* The agent's tasks other than the delivery loop. *)

\* run_blocking up to the networking task: AGENT_STARTED is enqueued.
Start ==
    /\ phase = "down"
    /\ phase' = "starting"
    /\ EnqueueFresh
    /\ UNCHANGED <<ivars, batch, accepted, connected, rereg, cvars, hvars>>

\* Any task enqueues an event: Agent::enqueue, UsageRecorder::handle_at.
Occur ==
    /\ QueueFree
    /\ \E e \in Events \ born, now \in Instants : Enqueue(e, now)
    /\ UNCHANGED <<ivars, avars, cvars, hvars>>

\* Agent::register returns: REGISTRATION_SUCCEEDED is enqueued.
Register ==
    /\ phase = "starting"
    /\ RegisterDevice
    /\ EnqueueFresh
    /\ connected' = TRUE
    /\ phase' = "idle"
    /\ UNCHANGED <<batch, accepted, rereg, cvars, hvars>>

\* An attempt of Agent::register fails, at startup or in heartbeat_loop, on the way there or
\* back: REGISTRATION_FAILED is enqueued, and the attempt is repeated.
RegisterFails ==
    /\ QueueFree
    /\ phase = "starting" \/ rereg = "held"
    /\ EnqueueFresh
    /\ RegisterDevice \/ UNCHANGED ivars
    /\ UNCHANGED <<avars, cvars, hvars>>

\* note_connected / note_disconnected: an event on the edge only.
NoteConnected ==
    /\ connected' = TRUE
    /\ IF connected THEN UNCHANGED qvars ELSE EnqueueFresh

NoteDisconnected ==
    /\ connected' = FALSE
    /\ IF connected THEN EnqueueFresh ELSE UNCHANGED qvars

\* heartbeat_loop, answered.  HEARTBEAT_SENT is enqueued later, by Occur.
HeartbeatOk ==
    /\ Running /\ QueueFree
    /\ rereg = "no"
    /\ registered
    /\ NoteConnected
    /\ UNCHANGED <<ivars, phase, batch, accepted, rereg, cvars, hvars>>

\* heartbeat_loop, no answer or an error.
HeartbeatFails ==
    /\ Running /\ QueueFree
    /\ rereg = "no"
    /\ NoteDisconnected
    /\ UNCHANGED <<ivars, phase, batch, accepted, rereg, cvars, hvars>>

\* heartbeat_loop, 404: the device is to be re-registered.
HeartbeatNotFound ==
    /\ Running /\ QueueFree
    /\ rereg = "no"
    /\ ~registered
    /\ NoteDisconnected
    /\ rereg' = "wanted"
    /\ UNCHANGED <<ivars, phase, batch, accepted, cvars, hvars>>

\* heartbeat_loop gets the client mutex for the re-registration.
LockClient ==
    /\ rereg = "wanted"
    /\ ClientFree
    /\ rereg' = "held"
    /\ UNCHANGED <<qvars, ivars, phase, batch, accepted, connected, cvars, hvars>>

\* Agent::register from heartbeat_loop returns, and the mutex is released.
Reregister ==
    /\ rereg = "held"
    /\ QueueFree
    /\ RegisterDevice
    /\ EnqueueFresh
    /\ connected' = TRUE
    /\ rereg' = "no"
    /\ UNCHANGED <<phase, batch, accepted, cvars, hvars>>

-----------------------------------------------------------------------------
(* deliver_due_batch *)

\* Mutant: due_batch removes the rows it returns.
MutTakeBatch ==
    /\ phase = "idle"
    /\ Due # {}
    /\ \E B \in DueBatch : /\ batch' = [e \in B |-> rows[e].attempt]
                           /\ rows' = Keep(rows, queued \ B)
    /\ phase' = "taken"
    /\ UNCHANGED <<born, acked, expired, evicted, cut>>
    /\ UNCHANGED <<ivars, accepted, connected, rereg, cvars, hvars>>

TakeBatch ==
    /\ phase = "idle"
    /\ Due # {}
    /\ \E B \in DueBatch : batch' = [e \in B |-> rows[e].attempt]
    /\ phase' = "taken"
    /\ UNCHANGED <<qvars, ivars, accepted, connected, rereg, cvars, hvars>>

Send(h) ==
    /\ phase = "taken"
    /\ ClientFree
    /\ Arrive(h, "loop", DOMAIN batch)
    /\ phase' = "sent"
    /\ UNCHANGED <<qvars, batch, accepted, connected, rereg, cvars, hvars>>

\* The Err arm up to the queue's lock.
SubmissionFails ==
    /\ NoteDisconnected
    /\ accepted' = FALSE
    /\ phase' = "marking"
    /\ UNCHANGED <<batch, rereg, cvars, hvars>>

\* The controller cannot be reached.
SendFails ==
    /\ phase = "taken"
    /\ ClientFree
    /\ SubmissionFails
    /\ UNCHANGED ivars

\* REQUEST_TIMEOUT: the request may still be served.
SendTimesOut ==
    /\ phase = "sent"
    /\ SubmissionFails
    /\ Disown("loop")
    /\ UNCHANGED <<registered, recorded>>

\* An error status, 404 included.
ReplyError(h) ==
    /\ phase = "sent"
    /\ handler[h].client = "loop"
    /\ AnswersError(h)
    /\ SubmissionFails
    /\ Finish(h)

\* The Ok arm up to the queue's lock.
ReplyOk(h) ==
    /\ phase = "sent"
    /\ handler[h].client = "loop"
    /\ AnswersOk(h)
    /\ Finish(h)
    /\ NoteConnected
    /\ accepted' = TRUE
    /\ phase' = "marking"
    /\ UNCHANGED <<batch, rereg, cvars, hvars>>

\* The batch has one row less to mark; after the last the loop waits again.
Marked(e) ==
    /\ phase = "marking"
    /\ e \in DOMAIN batch
    /\ batch' = [x \in DOMAIN batch \ {e} |-> batch[x]]
    /\ phase' = IF DOMAIN batch = {e} THEN "idle" ELSE "marking"
    /\ UNCHANGED <<ivars, accepted, connected, rereg, cvars, purged>>

\* Mutant: the rows of a batch are done with, whatever the answer was.
MutMark(e) ==
    /\ Marked(e)
    /\ MarkDelivered(e)
    /\ UNCHANGED faults

Mark(e) ==
    /\ Marked(e)
    /\ IF accepted THEN MarkDelivered(e) ELSE MarkFailed(e, batch[e])
    /\ UNCHANGED faults

\* The statement fails; the error is logged and the row is left as it was.
MarkErrors(e) ==
    /\ faults + cut < MaxFaults
    /\ faults' = faults + 1
    /\ Marked(e)
    /\ UNCHANGED qvars

(* The process ends at any point, between the two statements of an enqueue too: a power cut, a  *)
(* crash, the end of the shutdown grace period.                                                 *)
Crash ==
    /\ faults + cut < MaxFaults
    /\ faults' = faults + 1
    /\ phase # "down"
    /\ phase' = "down"
    /\ batch' = NoBatch
    /\ accepted' = FALSE
    /\ connected' = FALSE
    /\ rereg' = "no"
    /\ Disown("loop")
    /\ \/ UNCHANGED qvars
       \/ QueueFree /\ \E e \in Events \ born, now \in Instants : InsertOnly(e, now)
    /\ UNCHANGED <<registered, recorded, cvars, purged>>

-----------------------------------------------------------------------------
(* timelord-agent test-event, in a process of its own *)

CliEnqueue ==
    /\ cli = "idle"
    /\ \E e \in Events \ born, now \in Instants :
          /\ InsertAndEnforce(e, now)
          /\ cliEvent' = {e}
    /\ cli' = "queued"
    /\ UNCHANGED <<ivars, avars, hvars>>

\* The two statements of its enqueue with steps of the agent between them: no mutex is shared.
CliInsert ==
    /\ cli = "idle"
    /\ faults + cut < MaxFaults
    /\ faults' = faults + 1
    /\ \E e \in Events \ born, now \in Instants :
          /\ InsertOnly(e, now)
          /\ cliEvent' = {e}
    /\ cli' = "inserted"
    /\ UNCHANGED <<ivars, avars, purged>>

CliEnforce ==
    /\ cli = "inserted"
    /\ EnforceMaxSize(rows)
    /\ cli' = "queued"
    /\ UNCHANGED <<born, acked, expired, ivars, avars, cliEvent, hvars>>

CliRegister ==
    /\ cli = "queued"
    /\ RegisterDevice
    /\ cli' = "registered"
    /\ UNCHANGED <<qvars, avars, cliEvent, hvars>>

CliSend(h) ==
    /\ cli = "registered"
    /\ Arrive(h, "cli", cliEvent)
    /\ cli' = "sent"
    /\ UNCHANGED <<qvars, avars, cliEvent, hvars>>

CliReplyOk(h) ==
    /\ cli = "sent"
    /\ handler[h].client = "cli"
    /\ AnswersOk(h)
    /\ Finish(h)
    /\ \E e \in cliEvent : MarkDelivered(e)
    /\ cli' = "idle"
    /\ cliEvent' = {}
    /\ UNCHANGED <<avars, hvars>>

\* Mutant: test-event counts its own failed attempt.
MutCliGivesUp ==
    /\ cli # "idle"
    /\ cli' = "idle"
    /\ cliEvent' = {}
    /\ Disown("cli")
    /\ \E e \in cliEvent : MarkFailed(e, 0)
    /\ UNCHANGED <<registered, recorded, avars, hvars>>

\* enforce_max_size failed, there is no controller URL, registration or delivery failed, or the command was interrupted.
CliGivesUp ==
    /\ cli # "idle"
    /\ cli' = "idle"
    /\ cliEvent' = {}
    /\ Disown("cli")
    /\ UNCHANGED <<qvars, registered, recorded, avars, hvars>>

-----------------------------------------------------------------------------
(* The controller's steps *)

Serve(h) ==
    /\ \/ CheckDevice(h)
       \/ \E e \in Events : CheckItem(h, e)
       \/ InsertItem(h)
       \/ InsertConflicts(h)
       \/ FinishUnread(h)
    /\ UNCHANGED <<qvars, avars, cvars, hvars>>

AdminDeletes ==
    /\ faults + cut < MaxFaults
    /\ faults' = faults + 1
    /\ DeleteDevice
    /\ purged' = purged \cup born
    /\ UNCHANGED <<qvars, avars, cvars>>

ControllerRestarts ==
    /\ faults + cut < MaxFaults
    /\ faults' = faults + 1
    /\ RestartController
    /\ UNCHANGED <<qvars, avars, cvars, purged>>

TimePasses(e) ==
    /\ BackoffElapses(e)
    /\ UNCHANGED <<ivars, avars, cvars, hvars>>

DeliveryLoop ==
    \/ TakeBatch
    \/ \E h \in Handlers : Send(h) \/ ReplyError(h) \/ ReplyOk(h)
    \/ SendFails
    \/ SendTimesOut
    \/ \E e \in Events : Mark(e) \/ MarkErrors(e)

AgentTasks ==
    \/ Start
    \/ Occur
    \/ Register
    \/ RegisterFails
    \/ HeartbeatOk
    \/ HeartbeatFails
    \/ HeartbeatNotFound
    \/ LockClient
    \/ Reregister
    \/ Crash

Cli ==
    \/ CliEnqueue
    \/ CliInsert
    \/ CliEnforce
    \/ CliRegister
    \/ \E h \in Handlers : CliSend(h) \/ CliReplyOk(h)
    \/ CliGivesUp

Controller ==
    \/ \E h \in Handlers : Serve(h)
    \/ AdminDeletes
    \/ ControllerRestarts

Next ==
    \/ AgentTasks
    \/ DeliveryLoop
    \/ Cli
    \/ Controller
    \/ \E e \in Events : TimePasses(e)

Spec == Init /\ [][Next]_vars

(***************************************************************************)
(* Fairness.  tokio runs every task that is ready, intervals keep ticking, *)
(* a submission that could be sent is sent and ends (answer or             *)
(* REQUEST_TIMEOUT), the controller's threads run, time passes, and a      *)
(* service is started again.  Nothing is assumed of whether a submission   *)
(* succeeds, nor of who gets the client mutex first.                       *)
(***************************************************************************)
Fairness ==
    /\ WF_vars(Start)
    /\ WF_vars(TakeBatch)
    /\ WF_vars(SendFails \/ \E h \in Handlers : Send(h))
    /\ WF_vars(SendTimesOut \/ \E h \in Handlers : ReplyError(h) \/ ReplyOk(h))
    /\ \A e \in Events : WF_vars(Mark(e)) /\ WF_vars(TimePasses(e))
    /\ \A h \in Handlers : WF_vars(Serve(h))

(***************************************************************************)
(* An assumption on the network, not on the code: an attempt of register   *)
(* is answered in the end.  Without it register repeats itself for ever,   *)
(* before the delivery loop exists or, from heartbeat_loop, with the       *)
(* client mutex held, and no event is delivered or given up.               *)
(***************************************************************************)
RegistrationAnswered == WF_vars(Register) /\ WF_vars(Reregister)

FairSpec == Spec /\ Fairness /\ RegistrationAnswered

-----------------------------------------------------------------------------
TypeOK ==
    /\ QueueTypeOK
    /\ IngestTypeOK
    /\ phase \in Phases
    /\ DOMAIN batch \subseteq Events
    /\ batch \in [DOMAIN batch -> 0 .. (MaxAttempts - 1)]
    /\ accepted \in BOOLEAN
    /\ connected \in BOOLEAN
    /\ rereg \in Reregs
    /\ cli \in {"idle", "inserted", "queued", "registered", "sent"}
    /\ cliEvent \subseteq Events
    /\ purged \subseteq Events
    /\ faults \in 0 .. MaxFaults

(***************************************************************************)
(* The queue's promise (queue.rs, 1-4): an event that was enqueued is      *)
(* still in the table, or is in the controller's table, unless it was      *)
(* discarded by one of the queue's two limits or the device it belongs to  *)
(* was deleted.  Crashes, lost answers, racing duplicates and the          *)
(* test-event command must not open a gap.                                 *)
(***************************************************************************)
NoEventLost ==
    born \subseteq queued \cup recorded \cup expired \cup evicted \cup purged

(***************************************************************************)
(* ACCEPTED and DUPLICATE are both "delivered" (deliver_due_batch): a row  *)
(* deleted on the controller's word is in device_event, though the word    *)
(* was given before the answer travelled, and for another handler's insert *)
(* in the case of DUPLICATE.                                               *)
(***************************************************************************)
AckedIsRecorded == acked \subseteq recorded \cup purged

(***************************************************************************)
(* An answer is applied to the batch it answers: the submission awaited by *)
(* the delivery loop carries exactly the rows that will be marked, and a   *)
(* submission that timed out can no longer answer.                         *)
(***************************************************************************)
AnswerMatchesBatch ==
    \A h \in Handlers :
        handler[h].client = "loop" => /\ phase = "sent"
                                      /\ handler[h].events = DOMAIN batch
                                      /\ \A g \in Handlers \ {h} : handler[g].client # "loop"

(***************************************************************************)
(* deliver_due_batch reads attempt counts under the queue's lock, releases *)
(* it for the request and writes count + 1 under a new lock: the counts it *)
(* read are still the table's when it writes.                              *)
(***************************************************************************)
BatchIsCurrent ==
    \A e \in DOMAIN batch \cap queued : batch[e] = rows[e].attempt

(***************************************************************************)
(* The table holds no more than MAX_QUEUE_SIZE rows and those inserted     *)
(* since enforce_max_size last ran: however many enqueues were cut short   *)
(* between INSERT and DELETE, by a crash, an error or the other process,   *)
(* the next one that is not makes good for all of them.                    *)
(***************************************************************************)
QueueBounded == Cardinality(queued) =< QueueCap + cut

\* The rows this step discards as undeliverable had failed for the last time.
AllAtLimit ==
    \A e \in expired' \ expired :
        /\ phase = "marking"
        /\ ~accepted
        /\ rows[e].attempt = MaxAttempts - 1

(***************************************************************************)
(* A row is discarded as undeliverable only from the last permitted        *)
(* attempt, and only by the delivery loop on a failed submission: never by *)
(* a crash, a late answer or a success.                                    *)
(***************************************************************************)
ExpiresOnlyAtLimit == [][AllAtLimit]_vars

Ledger == INSTANCE EventLedger WITH reported <- born, open <- queued, stored <- recorded,
                                   dropped <- expired \cup evicted, forgotten <- purged

(***************************************************************************)
(* The whole exchange implements EventLedger: whatever crashes, timeouts,  *)
(* duplicates, limits and deletions do, each step adds, stores, closes or  *)
(* drops at most what the ledger allows, and a row is closed as delivered  *)
(* (mark_delivered) only when the controller has the event.                *)
(***************************************************************************)
KeepsLedger == Ledger!Spec

(***************************************************************************)
(* Every row leaves the table: acknowledged, expired or evicted, provided  *)
(* that no registration is retried for ever (RegistrationAnswered).  With  *)
(* NoEventLost, no event then stays undecided, whatever becomes of the     *)
(* submissions, though a re-registration can hold the client mutex at any  *)
(* moment and a batch has no room for every row that is due.               *)
(***************************************************************************)
EveryRowSettles == \A e \in Events : e \in queued ~> e \notin queued
=============================================================================
