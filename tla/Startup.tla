------------------------------ MODULE Startup ------------------------------
(***************************************************************************)
(* How an agent starts and stops: agent.toml, read and rewritten by the    *)
(* service and by the timelord-agent command line at the same time         *)
(* (agent/src/config.rs, main.rs); the search for a controller by a sweep  *)
(* of the local network (discovery.rs, resolve_controller_url of agent.rs, *)
(* DiscoveryUdpListener of the controller); and the service's life from    *)
(* the SCM's start to its stop (run_blocking of agent.rs, service_win.rs,  *)
(* platform/windows.rs).                                                   *)
(*                                                                         *)
(* Of the configuration the model keeps the device id and the controller's *)
(* URL.  A missing or empty file parses as the default.  A UDP reply can   *)
(* be lost, late or repeated, and may reach the socket of a later sweep    *)
(* that was given the same port.                                           *)
(***************************************************************************)
EXTENDS Integers, Sequences, FiniteSets

CONSTANTS Controllers,  \* the controllers of the network; a name is also the public URL
          Valid,        \* those whose public URL starts with http:// or https://
          Priority,     \* controller -> its priority
          HandUrls,     \* URLs the administrator may write into the file
          NoUrl,        \* ""
          Overrides,    \* process -> its possible TIMELORD_* variables and arguments: [id, url]
          NoId, BadId,  \* no device id; one that is not a UUID
          Broken,       \* a file that does not parse
          MaxId,        \* bound on the ids generated; ids are 1 .. MaxId
          MaxFound,     \* bound on the replies a sweep collects
          MaxEvents     \* bound on crashes, edits, and controllers coming and going

ASSUME StartupAssumption ==
    /\ Valid \subseteq Controllers
    /\ Priority \in [Controllers -> Int]
    /\ MaxId \in Nat \ {0} /\ MaxFound \in Nat /\ MaxEvents \in Nat
    /\ NoId \notin 1 .. MaxId /\ BadId \notin 1 .. MaxId /\ NoId # BadId
    /\ NoUrl \notin Controllers \cup HandUrls

Ids == 1 .. MaxId
Urls == Controllers \cup HandUrls \cup {NoUrl}
Files == [id : Ids \cup {NoId, BadId}, url : Urls]
Procs == {"service", "cli"}

Memories ==
    [env : Files, cfg : Files, saving : {"id", "url"}, draft : Files, base : Files]

ASSUME FilesAssumption ==
    /\ Overrides \in [Procs -> SUBSET Files]
    /\ Broken \notin Files

Places == {"off", "load", "merge", "create", "write", "ready", "search", "await", "join", "loops",
           "deaf"}

VARIABLES file,    \* agent.toml: [id, url], or Broken
          pc,      \* where each process is: see Places
          mem,     \* what each process remembers: see Blank
          up,      \* the controllers that are running
          alive,   \* the service's sweep: controllers that ran at some time during it
          found,   \* discover's found: controllers in the order of their replies
          main,    \* the service's main thread: down, starting, pump, stopping
          quit,    \* WM_QUIT is in the pump's queue
          ids,     \* ids generated so far
          events,  \* events of the environment so far
          byHand,  \* history: the URL written by hand and not rightly replaced
          early,   \* history: processes that read the file before it was edited
          mixed    \* history: two updates overlapped, or one was read or left half done

pvars == <<pc, mem>>
fvars == <<file, mixed, byHand>>
dvars == <<alive, found>>
svars == <<main, quit, early, dvars>>
evars == <<up, events>>
vars == <<pvars, fvars, svars, evars, ids>>

Default == [id |-> NoId, url |-> NoUrl]

Blank ==
    [env     |-> Default,  \* the overrides
     cfg     |-> Default,  \* AgentConfig, and the URL that discovery found
     saving  |-> "id",     \* the field being persisted
     draft   |-> Default,  \* the file as read and changed by persist_*
     base    |-> Default]  \* history: the file as persist_* read it

Init ==
    /\ file \in {Default} \cup [id : {1}, url : HandUrls \cup {NoUrl}]
    /\ pc = [p \in Procs |-> "off"]
    /\ mem = [p \in Procs |-> Blank]
    /\ up = {}
    /\ alive = {} /\ found = <<>>
    /\ main = "down"
    /\ quit = FALSE
    /\ ids = IF file = Default THEN 0 ELSE 1
    /\ events = 0
    /\ byHand = file.url
    /\ early = {}
    /\ mixed = FALSE

Goto(p, l) == pc' = [pc EXCEPT ![p] = l]
Remember(p, m) == mem' = [mem EXCEPT ![p] = m]

\* The end of process p; a file it was writing stays as it is.
Ended(p) ==
    /\ Goto(p, "off")
    /\ Remember(p, Blank)
    /\ early' = early \ {p}
    /\ main' = IF p = "service" THEN "down" ELSE main
    /\ quit' = (quit /\ p # "service")
    /\ IF p = "service"
       THEN alive' = {} /\ found' = <<>>
       ELSE UNCHANGED dvars

\* Process p has not returned from config::load.
InLoad(p) == pc[p] = "load" \/ (pc[p] \in {"merge", "create", "write"} /\ mem[p].saving = "id")

\* Some process has emptied the file and not yet filled it.
HalfWritten == \E p \in Procs : pc[p] = "write"

-----------------------------------------------------------------------------
(* config.rs *)

\* A process begins, with environment variables and arguments.
Start(p, e) ==
    /\ pc[p] = "off"
    /\ Goto(p, "load")
    /\ Remember(p, [Blank EXCEPT !.env = e])
    /\ main' = IF p = "service" THEN "starting" ELSE main
    /\ UNCHANGED <<fvars, evars, dvars, ids, quit, early>>

\* The first value that is there: or_else.
First(override, filed, none) == IF override # none THEN override ELSE filed

(***************************************************************************)
(* load_file and resolve.  An id that is missing or does not parse is      *)
(* replaced by a new one, also where the unusable one is an override and   *)
(* the file has a good one.  A file that does not parse ends the process.  *)
(***************************************************************************)
Load(p) ==
    LET id == First(mem[p].env.id, file.id, NoId)
        url == First(mem[p].env.url, file.url, NoUrl)
    IN  /\ pc[p] = "load"
        /\ \/ file = Broken /\ Ended(p) /\ UNCHANGED ids
           \/ /\ file # Broken
              /\ id \in Ids
              /\ Remember(p, [mem[p] EXCEPT !.cfg = [id |-> id, url |-> url]])
              /\ Goto(p, "ready")
              /\ UNCHANGED <<svars, ids>>
           \/ /\ file # Broken
              /\ id \notin Ids
              /\ ids < MaxId
              /\ ids' = ids + 1
              /\ Remember(p, [mem[p] EXCEPT !.cfg = [id |-> ids', url |-> url]])
              /\ Goto(p, "merge")
              /\ UNCHANGED svars
        /\ mixed' = (mixed \/ HalfWritten)
        /\ UNCHANGED <<file, byHand, evars>>

\* What process p keeps when persist_* is over.
Kept(p) == [mem[p] EXCEPT !.saving = "id", !.draft = Default, !.base = Default]

\* Where a process goes on when persist_* has succeeded.
Saved(p) ==
    IF mem[p].saving = "url" /\ p = "cli"
    THEN Ended(p)
    ELSE /\ Goto(p, IF mem[p].saving = "id" THEN "ready" ELSE "join")
         /\ Remember(p, Kept(p))
         /\ UNCHANGED svars

\* ... or failed: the service only warns of a URL not saved.
SaveFailed(p) ==
    IF mem[p].saving = "url" /\ p = "service"
    THEN Goto(p, "join") /\ Remember(p, Kept(p)) /\ UNCHANGED svars
    ELSE Ended(p)

\* Mutant: the file is written anew, without the other fields.
MutMerged(p) == [Default EXCEPT ![mem[p].saving] = mem[p].cfg[mem[p].saving]]

Merged(p) == [file EXCEPT ![mem[p].saving] = mem[p].cfg[mem[p].saving]]

\* persist_device_id and persist_controller_url read the file again ...
Merge(p) ==
    /\ pc[p] = "merge"
    /\ \/ file = Broken /\ SaveFailed(p)
       \/ /\ file # Broken
          /\ Remember(p, [mem[p] EXCEPT !.draft = Merged(p), !.base = file])
          /\ Goto(p, "create")
          /\ UNCHANGED svars
    /\ mixed' = (mixed \/ HalfWritten
                       \/ (file # Broken /\ mem[p].saving = "id" /\ file.id \in Ids))
    /\ UNCHANGED <<file, byHand, evars, ids>>

\* ... and save_file writes it: fs::write empties the file first,
Create(p) ==
    /\ pc[p] = "create"
    /\ \/ /\ file' = Default
          /\ Goto(p, "write")
          /\ mixed' = (mixed \/ HalfWritten \/ file # mem[p].base)
          /\ UNCHANGED <<mem, svars>>
       \/ SaveFailed(p) /\ UNCHANGED <<file, mixed>>
    /\ UNCHANGED <<byHand, evars, ids>>

\* ... then fills it, or fails and leaves it empty or half written.
Write(p) ==
    /\ pc[p] = "write"
    /\ \/ /\ file' = mem[p].draft
          /\ Saved(p)
          /\ mixed' = (mixed \/ file # Default)
          /\ byHand' = IF mem[p].saving = "url" /\ (p = "cli" \/ p \in early) THEN NoUrl ELSE byHand
       \/ /\ file' \in {file, Broken}
          /\ SaveFailed(p)
          /\ mixed' = TRUE
          /\ UNCHANGED byHand
    /\ UNCHANGED <<evars, ids>>

-----------------------------------------------------------------------------
(* discovery.rs and the controller's listener *)

\* Mutant: discovery runs although a URL is configured.
MutSearches(p) == TRUE

\* resolve_controller_url: a configured URL wins.
Searches(p) == mem[p].cfg.url = NoUrl

\* The service's networking task begins.
Resolve ==
    /\ pc["service"] = "ready"
    /\ Goto("service", IF Searches("service") THEN "search" ELSE "join")
    /\ UNCHANGED <<mem, fvars, svars, evars, ids>>

(***************************************************************************)
(* The command line after load: discover --force searches.  For the file,  *)
(* status, test-event and discover without --force are over.               *)
(***************************************************************************)
Command ==
    /\ pc["cli"] = "ready"
    /\ \/ Goto("cli", "search") /\ UNCHANGED <<mem, svars>>
       \/ Ended("cli")
    /\ UNCHANGED <<fvars, evars, ids>>

(***************************************************************************)
(* discover, for the service (whose variables these are) in four kinds of  *)
(* step: the sweep, up to the last probe sent, with a new request id and a *)
(* new socket;                                                             *)
(***************************************************************************)
Sweep ==
    /\ pc["service"] = "search"
    /\ Goto("service", "await")
    /\ alive' = up
    /\ UNCHANGED <<mem, found, main, quit, early, fvars, evars, ids>>

\* Mutant: the request id is not compared.
MutBelieved(c, same) == c \in Valid

\* validate_response: the request id is the same, the URL is one.
Believed(c, same) == same /\ c \in Valid

(***************************************************************************)
(* ... recv_from within the window: controller c's reply (handlePacket) to *)
(* this sweep's request, or one to another request, sent to a socket that  *)
(* had the same port, however late (what is not believed is ignored);      *)
(***************************************************************************)
Receive(c, same) ==
    /\ pc["service"] = "await"
    /\ same => c \in alive
    /\ Believed(c, same)
    /\ Len(found) < MaxFound
    /\ found' = Append(found, c)
    /\ UNCHANGED <<pvars, alive, main, quit, early, fvars, evars, ids>>

\* select_best: the highest priority, then the fastest reply.
SelectBest(s) ==
    s[CHOOSE i \in DOMAIN s : \A j \in DOMAIN s :
         Priority[s[j]] < Priority[s[i]] \/ (Priority[s[j]] = Priority[s[i]] /\ i =< j)]

\* Mutant: the service searches once.
MutNotFound == "idle"

\* Nobody answered: again, after RECONNECT_BACKOFF.
NotFound == "search"

\* The URL of controller c is to be persisted.
Persist(p, c) ==
    /\ Goto(p, "merge")
    /\ Remember(p, [mem[p] EXCEPT !.saving = "url", !.cfg.url = c])

\* ... the window closes, or receiving fails; the best controller found is persisted.
Close ==
    /\ pc["service"] = "await"
    /\ \/ found = <<>> /\ Goto("service", NotFound) /\ UNCHANGED mem
       \/ found # <<>> /\ Persist("service", SelectBest(found))
    /\ found' = <<>>
    /\ alive' = {}
    /\ UNCHANGED <<fvars, main, quit, early, evars, ids>>

\* The same for discover --force in one step: what it finds is one that is running, or nothing.
Discover ==
    /\ pc["cli"] = "search"
    /\ \/ \E c \in up \cap Valid : Persist("cli", c) /\ UNCHANGED svars
       \/ Ended("cli")
    /\ UNCHANGED <<fvars, evars, ids>>

-----------------------------------------------------------------------------
(* The service's life *)

\* register succeeds, and the loops subscribe to the shutdown channel: before or after the stop.
Join ==
    /\ pc["service"] = "join"
    /\ mem["service"].cfg.url \in up \cup HandUrls
    /\ Goto("service", IF main = "stopping" THEN "deaf" ELSE "loops")
    /\ UNCHANGED <<mem, fvars, svars, evars, ids>>

\* Mutant: the pump is entered while the configuration is being loaded.
MutEnter ==
    /\ main = "starting"
    /\ main' = "pump"
    /\ UNCHANGED <<pvars, fvars, evars, dvars, ids, quit, early>>

\* run_blocking after load: the databases are opened, the tasks spawned and the pump entered.
Enter ==
    /\ main = "starting"
    /\ ~InLoad("service")
    /\ main' = "pump"
    /\ UNCHANGED <<pvars, fvars, evars, dvars, ids, quit, early>>

\* ServiceControl::Stop or Shutdown: request_stop, which is lost before the pump has a queue.
Stop ==
    /\ main \in {"starting", "pump"}
    /\ ~quit
    /\ quit' = (main = "pump")
    /\ UNCHANGED <<pvars, fvars, evars, dvars, ids, main, early>>

\* GetMessageW ends the pump: agent_stopping is queued, begin_shutdown.
PumpEnds ==
    /\ main = "pump"
    /\ quit
    /\ main' = "stopping"
    /\ UNCHANGED <<pvars, fvars, evars, dvars, ids, quit, early>>

\* Mutant: no SHUTDOWN_FLUSH_TIMEOUT: the networking task is waited for.
MutFlushed ==
    /\ main = "stopping"
    /\ pc["service"] = "loops"
    /\ Ended("service")
    /\ UNCHANGED <<fvars, evars, ids>>

(***************************************************************************)
(* The networking task ends, or SHUTDOWN_FLUSH_TIMEOUT does, and then the  *)
(* process.  A task that is searching, registering or deaf never ends, and *)
(* neither does one that serves the notifier's pipe.                       *)
(***************************************************************************)
Flushed ==
    /\ main = "stopping"
    /\ Ended("service")
    /\ mixed' = (mixed \/ pc["service"] = "write")
    /\ UNCHANGED <<file, byHand, evars, ids>>

-----------------------------------------------------------------------------
(* The environment *)

Event == events < MaxEvents /\ events' = events + 1

\* The process is killed, or an error ends it; a power failure can spoil a file being written.
Crash(p) ==
    /\ Event
    /\ pc[p] # "off"
    /\ Ended(p)
    /\ file' \in IF pc[p] = "write" THEN {file, Broken} ELSE {file}
    /\ mixed' = (mixed \/ pc[p] = "write")
    /\ UNCHANGED <<byHand, up, ids>>

\* The administrator writes a URL into the file.
Edit(u) ==
    /\ Event
    /\ file # Broken
    /\ file' = [file EXCEPT !.url = u]
    /\ byHand' = u
    /\ early' = {p \in Procs : pc[p] \notin {"off", "load"}}
    /\ mixed' = (mixed \/ HalfWritten)
    /\ UNCHANGED <<pvars, up, main, quit, dvars, ids>>

\* A controller starts or stops.
Toggle(c) ==
    /\ Event
    /\ up' = IF c \in up THEN up \ {c} ELSE up \cup {c}
    /\ alive' = IF pc["service"] = "await" THEN alive \cup {c} ELSE alive
    /\ UNCHANGED <<pvars, fvars, main, quit, early, found, ids>>

Process(p) ==
    \/ \E e \in Overrides[p] : Start(p, e)
    \/ Load(p)
    \/ Merge(p)
    \/ Create(p)
    \/ Write(p)
    \/ Crash(p)

Next ==
    \/ \E p \in Procs : Process(p)
    \/ Resolve
    \/ Sweep
    \/ \E c \in Controllers, same \in BOOLEAN : Receive(c, same)
    \/ Close
    \/ Command
    \/ Discover
    \/ Join
    \/ Enter
    \/ Stop
    \/ PumpEnds
    \/ Flushed
    \/ \E u \in HandUrls : Edit(u)
    \/ \E c \in Controllers : Toggle(c)

Spec == Init /\ [][Next]_vars

(***************************************************************************)
(* Fairness: Windows dispatches WM_QUIT, tokio's timers end the wait for   *)
(* the networking task, the back-off and the window, and the network does  *)
(* not lose every probe and reply for ever.                                *)
(***************************************************************************)
FairSpec ==
    /\ Spec
    /\ WF_vars(PumpEnds) /\ WF_vars(Flushed)
    /\ WF_vars(Sweep) /\ WF_vars(Close)
    /\ SF_vars(\E c \in Controllers : Receive(c, TRUE))

-----------------------------------------------------------------------------
TypeOK ==
    /\ file \in Files \cup {Broken}
    /\ pc \in [Procs -> Places]
    /\ mem \in [Procs -> Memories]
    /\ up \subseteq Controllers /\ alive \subseteq Controllers
    /\ found \in Seq(Valid)
    /\ main \in {"down", "starting", "pump", "stopping"}
    /\ (main = "down") <=> (pc["service"] = "off")
    /\ quit \in BOOLEAN /\ (quit => main \in {"pump", "stopping"})
    /\ main # "starting" => ~InLoad("service")
    /\ ids \in 0 .. MaxId /\ events \in 0 .. MaxEvents
    /\ byHand \in Urls /\ early \subseteq Procs /\ mixed \in BOOLEAN

(***************************************************************************)
(* "the next run - sees the same ID" (config.rs, 246): every running       *)
(* process without an override goes by the id in the file, which survives  *)
(* restarts, failed saves, edits, and saves of the URL.  A new id is a new *)
(* device to the controller.  The exception, mixed: two processes without  *)
(* locks write the file at once, one reads or leaves it half written, or   *)
(* an unusable override replaces a good id.                                *)
(***************************************************************************)
IdentityKept ==
    ~mixed /\ ~HalfWritten => \A p \in Procs :
        pc[p] # "off" /\ ~InLoad(p) /\ mem[p].env.id = NoId => mem[p].cfg.id = file.id

(***************************************************************************)
(* "a manually-configured URL is never silently overwritten" (docs/        *)
(* agent.md, 112): only by discover --force, or by a process that had read *)
(* the file before the URL was written into it.                            *)
(***************************************************************************)
ManualUrlKept ==
    ~mixed /\ ~HalfWritten /\ byHand # NoUrl => file.url = byHand

(***************************************************************************)
(* The controller a sweep settles on was running during that sweep, and no *)
(* better one answered: a late reply to an earlier sweep is not taken for  *)
(* an answer.                                                              *)
(***************************************************************************)
AdoptsBestOfSweep ==
    [][Close /\ found # <<>> =>
          LET c == mem'["service"].cfg.url
          IN  c \in alive /\ \A i \in DOMAIN found : Priority[found[i]] =< Priority[c]]_vars

\* A stop that reached the pump ends the service, whatever the networking task is doing.
StopEnds == quit ~> main = "down"

(***************************************************************************)
(* The search never gives up: with a controller that stays up, the service *)
(* that has none finds one, or it is stopped.                              *)
(***************************************************************************)
FindsController ==
    <>[](up \cap Valid # {}) =>
        [](pc["service"] = "search" => <>(pc["service"] \in {"merge", "off"}))
=============================================================================
