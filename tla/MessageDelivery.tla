--------------------------- MODULE MessageDelivery ---------------------------
(***************************************************************************)
(* Administrator messages to one device: MessageService.send in a          *)
(* transaction, the long poll of AgentController.messages, the agent's     *)
(* message_poll_loop with its cursor and cache (agent/src/messages.rs),    *)
(* the pipe, and the notifier that shows each message to its user          *)
(* (notifier/src/main.rs, engine.rs, MessageTracker, and state.rs).        *)
(*                                                                         *)
(* A message is its id; titles and texts are left out.  seq is drawn when  *)
(* the row is inserted, and the row is visible when its transaction        *)
(* commits.  The agent judges expiry by TrustedClock, which may be ahead   *)
(* of the controller's clock until NTP has been measured.                  *)
(***************************************************************************)
EXTENDS Naturals, FiniteSets

CONSTANTS Messages,   \* ids of the messages administrators may send
          MaxLife,    \* expiresInMinutes, at most
          MaxAhead,   \* how far the agent's clock may be ahead
          MaxTime,    \* bound on the clock
          MaxFaults   \* bound on crashes, failed or unreadable files and moved clocks

ASSUME MessageDeliveryAssumption ==
    /\ IsFiniteSet(Messages)
    /\ MaxLife \in Nat \ {0}
    /\ MaxAhead \in Nat
    /\ MaxTime \in Nat
    /\ MaxFaults \in Nat

VARIABLES tx,         \* message -> "unsent", "inserted", "committed" or "aborted"
          seq,        \* message -> device_message.seq; 0 before it is drawn
          last,       \* the last seq drawn
          expires,    \* message -> expires_at
          wake,       \* messages committed, deviceChanged not called for them
          req,        \* the request of message_poll_loop
          net,        \* can the controller be reached?
          agent,      \* "up" or "down"
          cursor,     \* MessageStore.last_seq
          held,       \* MessageStore.messages
          saved,      \* messages.json
          notifier,   \* "on" or "off"
          shown,      \* MessageTracker.shown
          file,       \* notifier-shown.json
          dirty,      \* show_new_messages has shown messages and not saved yet
          times,      \* message -> how many times it has been shown
          now,        \* the controller's clock
          ahead,      \* the agent's clock is that much ahead
          faults,
          overtaken,  \* history: messages committed after a message with a later seq
          lapsed,     \* history: messages the agent has dropped as expired
          unsaved,    \* history: messages shown and not saved, or saved and not read back
          disturbed   \* history: the agent lost its cache, or its clock was set back

rowvars == <<tx, seq, last, expires>>
storevars == <<cursor, held>>
nvars == <<notifier, shown, file, dirty, times>>
clocks == <<now, ahead>>
hvars == <<overtaken, lapsed, unsaved, disturbed>>
vars == <<rowvars, wake, req, net, agent, storevars, saved, nvars, clocks, faults, hvars>>

Committed == {m \in Messages : tx[m] = "committed"}

Store == [cursor : Nat, held : SUBSET Messages]

\* MessageStore::default
Empty == [cursor |-> 0, held |-> {}]

(***************************************************************************)
(* idle:    no request                                                     *)
(* asked:   sent with after = the cursor                                   *)
(* checked: pending found nothing; not parked yet                          *)
(* parked:  waiting in DeviceWaiters                                       *)
(* unheard: waiting in a list deviceChanged has already taken away         *)
(* reply:   answered with got; the answer has not been applied             *)
(***************************************************************************)
Progress == {"idle", "asked", "checked", "parked", "unheard", "reply"}

Request == [st : Progress, after : Nat, got : SUBSET Messages]

Quiet == [st |-> "idle", after |-> 0, got |-> {}]

\* Agent::now
AgentNow == now + ahead

Init ==
    /\ tx = [m \in Messages |-> "unsent"]
    /\ seq = [m \in Messages |-> 0]
    /\ last = 0
    /\ expires = [m \in Messages |-> 0]
    /\ wake = {}
    /\ req = Quiet
    /\ net \in {"up", "down"}
    /\ agent = "down"
    /\ cursor = 0
    /\ held = {}
    /\ saved = Empty
    /\ notifier = "off"
    /\ shown = {}
    /\ file = {}
    /\ dirty = FALSE
    /\ times = [m \in Messages |-> 0]
    /\ now = 0
    /\ ahead \in 0 .. MaxAhead
    /\ faults = 0
    /\ overtaken = {}
    /\ lapsed = {}
    /\ unsaved = {}
    /\ disturbed = FALSE

Fault ==
    /\ faults < MaxFaults
    /\ faults' = faults + 1

-----------------------------------------------------------------------------
(* The controller *)

\* Mutant: parked polls are woken at the insert.
MutInsert(m, life) ==
    /\ tx[m] = "unsent"
    /\ tx' = [tx EXCEPT ![m] = "inserted"]
    /\ seq' = [seq EXCEPT ![m] = last + 1]
    /\ last' = last + 1
    /\ expires' = [expires EXCEPT ![m] = now + life]
    /\ wake' = wake \cup {m}
    /\ UNCHANGED <<req, net, agent, storevars, saved, nvars, clocks, faults, hvars>>

\* MessageService.queue inside the transaction of send or sendToAll.
Insert(m, life) ==
    /\ tx[m] = "unsent"
    /\ tx' = [tx EXCEPT ![m] = "inserted"]
    /\ seq' = [seq EXCEPT ![m] = last + 1]
    /\ last' = last + 1
    /\ expires' = [expires EXCEPT ![m] = now + life]
    /\ UNCHANGED <<wake, req, net, agent, storevars, saved, nvars, clocks, faults, hvars>>

\* The transaction commits; afterCommit is still to run.
Commit(m) ==
    /\ tx[m] = "inserted"
    /\ tx' = [tx EXCEPT ![m] = "committed"]
    /\ wake' = wake \cup {m}
    /\ overtaken' = IF \E c \in Committed : seq[c] > seq[m] THEN overtaken \cup {m} ELSE overtaken
    /\ UNCHANGED <<seq, last, expires, req, net, agent, storevars, saved, nvars, clocks, faults,
                   lapsed, unsaved, disturbed>>

\* sendToAll fails for another device.
Rollback(m) ==
    /\ tx[m] = "inserted"
    /\ tx' = [tx EXCEPT ![m] = "aborted"]
    /\ UNCHANGED <<seq, last, expires, wake, req, net, agent, storevars, saved, nvars, clocks, faults,
                   hvars>>

\* findUndelivered
Pending(after) == {m \in Committed : seq[m] > after /\ expires[m] > now}

Answer(S) == req' = [req EXCEPT !.st = "reply", !.got = S]

\* AgentController.messages
Serve ==
    /\ req.st = "asked"
    /\ IF Pending(req.after) # {} THEN Answer(Pending(req.after))
       ELSE req' = [req EXCEPT !.st = "checked"]
    /\ UNCHANGED <<rowvars, wake, net, agent, storevars, saved, nvars, clocks, faults, hvars>>

\* DeviceWaiters.await
Park ==
    /\ req.st = "checked"
    /\ req' = [req EXCEPT !.st = "parked"]
    /\ UNCHANGED <<rowvars, wake, net, agent, storevars, saved, nvars, clocks, faults, hvars>>

\* Mutant: only a request still in the map times out.
MutPollTimesOut ==
    /\ req.st = "parked"
    /\ Answer({})
    /\ UNCHANGED <<rowvars, wake, net, agent, storevars, saved, nvars, clocks, faults, hvars>>

PollTimesOut ==
    /\ req.st \in {"parked", "unheard"}
    /\ Answer({})
    /\ UNCHANGED <<rowvars, wake, net, agent, storevars, saved, nvars, clocks, faults, hvars>>

\* afterCommit calls DeviceWaiters.deviceChanged, which may take the list from under await.
Wake(m) ==
    /\ m \in wake
    /\ wake' = wake \ {m}
    /\ \/ req.st = "parked" /\ Answer(Pending(req.after))
       \/ req.st = "checked" /\ req' = [req EXCEPT !.st = "unheard"]
       \/ req.st # "parked" /\ UNCHANGED req
    /\ UNCHANGED <<rowvars, net, agent, storevars, saved, nvars, clocks, faults, hvars>>

ControllerRestarts ==
    /\ Fault
    /\ tx' = [m \in Messages |-> IF tx[m] = "inserted" THEN "aborted" ELSE tx[m]]
    /\ wake' = {}
    /\ req' = Quiet
    /\ UNCHANGED <<seq, last, expires, net, agent, storevars, saved, nvars, clocks, hvars>>

-----------------------------------------------------------------------------
(* The agent *)

Poll ==
    /\ agent = "up"
    /\ req.st = "idle"
    /\ req' = [Quiet EXCEPT !.st = "asked", !.after = cursor]
    /\ UNCHANGED <<rowvars, wake, net, agent, storevars, saved, nvars, clocks, faults, hvars>>

\* The request fails; its answer, if there was one, is gone.
Lose ==
    /\ net = "down"
    /\ req.st # "idle"
    /\ req' = Quiet
    /\ UNCHANGED <<rowvars, wake, net, agent, storevars, saved, nvars, clocks, faults, hvars>>

Expired(S) == {m \in S : expires[m] =< AgentNow}

\* MessageStore::apply, in memory.
Apply(got) ==
    /\ \E c \in {seq[m] : m \in got} \cup {cursor} :
          /\ c >= cursor /\ \A m \in got : c >= seq[m]
          /\ cursor' = c
    /\ held' = (held \cup got) \ Expired(held \cup got)
    /\ lapsed' = lapsed \cup Expired(held \cup got)

\* Mutant: the cursor is saved with the messages held before.
MutReceive ==
    /\ req.st = "reply"
    /\ req' = Quiet
    /\ Apply(req.got)
    /\ saved' = [cursor |-> cursor', held |-> held]
    /\ UNCHANGED <<faults, disturbed>>
    /\ UNCHANGED <<rowvars, wake, net, agent, nvars, clocks, overtaken, unsaved>>

\* apply_messages: a store that has changed is saved, or cannot be.
Receive ==
    /\ req.st = "reply"
    /\ req' = Quiet
    /\ Apply(req.got)
    /\ \/ /\ UNCHANGED storevars
          /\ UNCHANGED <<saved, faults, disturbed>>
       \/ /\ storevars' # storevars
          /\ saved' = [cursor |-> cursor', held |-> held']
          /\ UNCHANGED <<faults, disturbed>>
       \/ /\ storevars' # storevars
          /\ Fault
          /\ disturbed' = TRUE
          /\ UNCHANGED saved
    /\ UNCHANGED <<rowvars, wake, net, agent, nvars, clocks, overtaken, unsaved>>

\* Agent::new, messages::load: an unreadable file is an empty store.
AgentStarts ==
    /\ agent = "down"
    /\ agent' = "up"
    /\ \/ /\ cursor' = saved.cursor
          /\ held' = saved.held
          /\ UNCHANGED <<faults, disturbed>>
       \/ /\ Fault
          /\ cursor' = 0
          /\ held' = {}
          /\ disturbed' = TRUE
    /\ UNCHANGED <<rowvars, wake, req, net, saved, nvars, clocks, overtaken, lapsed, unsaved>>

AgentEnds ==
    /\ agent = "up"
    /\ Fault
    /\ agent' = "down"
    /\ req' = Quiet
    /\ cursor' = 0
    /\ held' = {}
    /\ UNCHANGED <<rowvars, wake, net, saved, nvars, clocks, hvars>>

-----------------------------------------------------------------------------
(* The notifier *)

\* Agent::live_messages, and GetMessages of handle_line.
Reported == held \ Expired(held)

Fresh == Reported \ shown

\* Mutant: only what was shown last is remembered.
MutShownAfter == Fresh

\* MessageTracker::take_new forgets what is no longer reported.
ShownAfter == (shown \cup Fresh) \cap Reported

\* show_new_messages up to the save.
Look ==
    /\ notifier = "on" /\ ~dirty
    /\ agent = "up"
    /\ times' = [m \in Messages |-> IF m \in Fresh THEN times[m] + 1 ELSE times[m]]
    /\ shown' = ShownAfter
    /\ dirty' = (shown' # shown)
    /\ UNCHANGED <<rowvars, wake, req, net, agent, storevars, saved, notifier, file, clocks, faults,
                   hvars>>

\* state::save_shown
SaveShown ==
    /\ notifier = "on" /\ dirty
    /\ dirty' = FALSE
    /\ \/ /\ file' = shown
          /\ UNCHANGED <<faults, unsaved>>
       \/ /\ Fault
          /\ unsaved' = unsaved \cup (shown \ file)
          /\ UNCHANGED file
    /\ UNCHANGED <<rowvars, wake, req, net, agent, storevars, saved, notifier, shown, times, clocks,
                   overtaken, lapsed, disturbed>>

\* MessageTracker::with_shown(state::load_shown): an unreadable file is an empty list.
NotifierStarts ==
    /\ notifier = "off"
    /\ notifier' = "on"
    /\ \/ /\ shown' = file
          /\ UNCHANGED <<faults, unsaved>>
       \/ /\ Fault
          /\ shown' = {}
          /\ unsaved' = unsaved \cup file
    /\ UNCHANGED <<rowvars, wake, req, net, agent, storevars, saved, file, dirty, times, clocks,
                   overtaken, lapsed, disturbed>>

\* The user logs off, between two polls or (a fault) between showing and saving.
NotifierEnds ==
    /\ notifier = "on"
    /\ notifier' = "off"
    /\ shown' = {}
    /\ dirty' = FALSE
    /\ \/ ~dirty /\ UNCHANGED <<faults, unsaved>>
       \/ dirty /\ Fault /\ unsaved' = unsaved \cup (shown \ file)
    /\ UNCHANGED <<rowvars, wake, req, net, agent, storevars, saved, file, times, clocks,
                   overtaken, lapsed, disturbed>>

-----------------------------------------------------------------------------
(* Clocks and network *)

Tick ==
    /\ now < MaxTime
    /\ now' = now + 1
    /\ UNCHANGED <<rowvars, wake, req, net, agent, storevars, saved, nvars, ahead, faults, hvars>>

\* TrustedClock::set_offset_ms after a measurement.
ClockMeasured ==
    /\ ahead > 0
    /\ ahead' = 0
    /\ disturbed' = TRUE
    /\ UNCHANGED <<rowvars, wake, req, net, agent, storevars, saved, nvars, now, faults,
                   overtaken, lapsed, unsaved>>

\* The system clock is moved; the offset is wrong until it is measured again.
ClockMoved ==
    /\ Fault
    /\ \E a \in ahead + 1 .. MaxAhead : ahead' = a
    /\ UNCHANGED <<rowvars, wake, req, net, agent, storevars, saved, nvars, now, hvars>>

NetChanges ==
    /\ net' = IF net = "up" THEN "down" ELSE "up"
    /\ UNCHANGED <<rowvars, wake, req, agent, storevars, saved, nvars, clocks, faults, hvars>>

-----------------------------------------------------------------------------
Controller ==
    \/ \E m \in Messages : \/ \E life \in 1 .. MaxLife : Insert(m, life)
                           \/ Commit(m)
                           \/ Rollback(m)
                           \/ Wake(m)
    \/ Serve
    \/ Park
    \/ PollTimesOut
    \/ ControllerRestarts

Agent == Poll \/ Lose \/ Receive \/ AgentStarts \/ AgentEnds

Notifier == Look \/ SaveShown \/ NotifierStarts \/ NotifierEnds

Environment == Tick \/ ClockMeasured \/ ClockMoved \/ NetChanges

Next == Controller \/ Agent \/ Notifier \/ Environment

Spec == Init /\ [][Next]_vars

(***************************************************************************)
(* Fairness.  Controller threads run and a parked request times out; the   *)
(* agent is started again and its loop goes on; every transaction ends     *)
(* (not assumed: a message not committed is not promised); somebody is     *)
(* logged on again and again long enough for one look (SF: log-offs may    *)
(* interrupt).  Nothing is assumed of the network, the clocks or NTP.      *)
(***************************************************************************)
Fairness ==
    /\ WF_vars(Serve)
    /\ WF_vars(Park)
    /\ WF_vars(PollTimesOut \/ Receive)
    /\ WF_vars(Poll)
    /\ WF_vars(AgentStarts)
    /\ WF_vars(NotifierStarts)
    /\ WF_vars(SaveShown)
    /\ SF_vars(Look)

FairSpec == Spec /\ Fairness

-----------------------------------------------------------------------------
TypeOK ==
    /\ tx \in [Messages -> {"unsent", "inserted", "committed", "aborted"}]
    /\ seq \in [Messages -> Nat]
    /\ last \in Nat
    /\ expires \in [Messages -> Nat]
    /\ wake \subseteq Committed
    /\ req \in Request
    /\ net \in {"up", "down"}
    /\ agent \in {"up", "down"}
    /\ cursor \in Nat
    /\ held \subseteq Messages
    /\ saved \in Store
    /\ notifier \in {"on", "off"}
    /\ shown \subseteq Messages
    /\ file \subseteq Messages
    /\ dirty \in BOOLEAN
    /\ times \in [Messages -> Nat]
    /\ now \in 0 .. MaxTime
    /\ ahead \in 0 .. MaxAhead
    /\ faults \in 0 .. MaxFaults
    /\ overtaken \subseteq Messages
    /\ lapsed \subseteq Messages
    /\ unsaved \subseteq Messages
    /\ disturbed \in BOOLEAN

\* A message the cursor c has passed is among the messages kept with it, or over.
Honest(c, kept, m) ==
    seq[m] =< c => m \in kept \cup lapsed \/ expires[m] =< now

(***************************************************************************)
(* The cursor never passes a message the agent does not have: neither in   *)
(* memory nor in messages.json, whatever answers are lost, saves fail,     *)
(* files are unreadable and processes restart.  Excepted are messages      *)
(* committed after a later one.                                            *)
(***************************************************************************)
CursorIsHonest ==
    \A m \in Committed \ overtaken :
        /\ agent = "up" => Honest(cursor, held, m)
        /\ Honest(saved.cursor, saved.held, m)

(***************************************************************************)
(* A message is shown once, across lost answers, repeated fetches, log-ons *)
(* and restarts of the agent, as long as the agent keeps its cache and its *)
(* clock is not set back (disturbed), and the notifier saved the message   *)
(* and could read it back each time it started (else it is unsaved).       *)
(***************************************************************************)
ShownOnce == ~disturbed => \A m \in Messages \ unsaved : times[m] =< 1

(***************************************************************************)
(* With a controller that stays reachable, a committed message is shown in *)
(* the end or expires first, although the long poll may miss its wake-up.  *)
(* A message dropped while the clock was ahead is over, even if the clock  *)
(* is corrected afterwards (lapsed).                                       *)
(***************************************************************************)
EventuallyShown ==
    <>[](net = "up") =>
        \A m \in Messages :
            m \in Committed \ (overtaken \cup lapsed) ~> times[m] > 0 \/ expires[m] =< AgentNow
=============================================================================
