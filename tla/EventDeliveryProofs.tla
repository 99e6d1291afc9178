------------------------- MODULE EventDeliveryProofs -------------------------
(***************************************************************************)
(* Machine-checked proofs about EventDelivery, for every pool of events,   *)
(* every number of controller threads and every value of the limits.       *)
(*                                                                         *)
(* NoEventLost is not inductive.  A row leaves the queue on the            *)
(* controller's word, so the proof has to follow that word back: from the  *)
(* marking phase to the answer, from the answer to the handler's result    *)
(* set done, from there to the insert, past a deletion of the device that  *)
(* may strike anywhere in between.  DeliveryInv below is that chain.       *)
(***************************************************************************)
EXTENDS EventDelivery, FiniteSetTheorems, TLAPS

\* What the controller has, or had when the device was deleted.
Known == recorded \cup purged

\* Everything in flight was enqueued before.
InFlightIsBorn ==
    /\ queued \subseteq born
    /\ DOMAIN batch \subseteq born
    /\ cliEvent \subseteq born
    /\ recorded \cup purged \subseteq born
    /\ \A h \in Handlers : handler[h].events \subseteq born

\* No event leaves the table without a reason.
Accounted == born \subseteq queued \cup acked \cup expired \cup evicted

(***************************************************************************)
(* A handler's results are true: an item with a result is known to the     *)
(* controller; once past the device check, a handler that finds the device *)
(* missing is serving events that were purged.                             *)
(***************************************************************************)
HandlerSound(h) ==
    /\ handler[h].done \subseteq Known
    /\ handler[h].st \in {"loop", "insert"} /\ ~registered => handler[h].events \subseteq purged
    /\ handler[h].st = "insert" => \E e \in handler[h].events : handler[h].cur = {e}

\* The submission the test-event command waits for is the one it made.
CliMatches(h) ==
    handler[h].client = "cli" => /\ cli = "sent"
                                 /\ handler[h].events = cliEvent
                                 /\ \A g \in Handlers \ {h} : handler[g].client # "cli"

DeliveryInv ==
    /\ TypeOK
    /\ InFlightIsBorn
    /\ Accounted
    /\ acked \subseteq Known
    /\ \A h \in Handlers : HandlerSound(h) /\ CliMatches(h)
    /\ AnswerMatchesBatch
    /\ BatchIsCurrent
    /\ phase = "marking" /\ accepted => DOMAIN batch \subseteq Known

-----------------------------------------------------------------------------
(* What the queue's operations do, whatever the rest of the system does. *)

\* enforce_max_size keeps a part of the table and records the rest in evicted.
LEMMA EnforceEffect ==
    ASSUME NEW t, DOMAIN t \subseteq Events, t \in [DOMAIN t -> Row], EnforceMaxSize(t)
    PROVE  /\ queued' \subseteq DOMAIN t
           /\ rows' \in [queued' -> Row]
           /\ \A x \in queued' : rows'[x] = t[x]
           /\ evicted' = evicted \cup (DOMAIN t \ queued')
           /\ cut' = 0
  <1>1. PICK discarded \in Oldest(t, DOMAIN t, Overflow(Cardinality(DOMAIN t))) :
           /\ rows' = Keep(t, DOMAIN t \ discarded)
           /\ evicted' = evicted \cup discarded
    BY DEF EnforceMaxSize
  <1>2. discarded \subseteq DOMAIN t
    BY DEF Oldest
  <1>3. queued' = DOMAIN t \ discarded /\ \A x \in queued' : rows'[x] = t[x]
    BY <1>1 DEF Keep, queued
  <1>4. rows' \in [queued' -> Row]
    BY <1>1, <1>3 DEF Keep
  <1> QED
    BY <1>1, <1>2, <1>3, <1>4 DEF EnforceMaxSize

\* An enqueue, whole or cut short after its INSERT.
Inserts(e, now) == InsertAndEnforce(e, now) \/ InsertOnly(e, now)

\* The table after the INSERT.
LEMMA WithRowTable ==
    ASSUME QueueTypeOK, NEW e \in Events, NEW now \in Instants
    PROVE  /\ DOMAIN WithRow(e, now) = queued \cup {e}
           /\ WithRow(e, now) \in [queued \cup {e} -> Row]
           /\ \A x \in queued \ {e} : WithRow(e, now)[x] = rows[x]
  <1>1. [attempt |-> 0, createdAt |-> now, due |-> TRUE] \in Row
    BY EventQueueAssumption DEF Row
  <1> QED
    BY <1>1 DEF WithRow, QueueTypeOK

\* enqueue adds a fresh event and discards only with a record in evicted.
LEMMA EnqueueEffect ==
    ASSUME QueueTypeOK, queued \subseteq born,
           NEW e \in Events, NEW now \in Instants, Inserts(e, now)
    PROVE  /\ QueueTypeOK'
           /\ born' = born \cup {e}
           /\ queued' \subseteq queued \cup {e}
           /\ evicted' = evicted \cup ((queued \cup {e}) \ queued')
           /\ acked' = acked /\ expired' = expired
           /\ \A x \in queued' \cap queued : rows'[x] = rows[x]
           /\ e \notin born
  <1> DEFINE table == WithRow(e, now)
  <1>1. /\ e \notin born
        /\ born' = born \cup {e}
        /\ acked' = acked /\ expired' = expired
    BY DEF Inserts, InsertAndEnforce, InsertOnly, Reported
  <1>2. /\ DOMAIN table = queued \cup {e} /\ DOMAIN table \subseteq Events
        /\ table \in [DOMAIN table -> Row]
        /\ \A x \in queued \ {e} : table[x] = rows[x]
    <2>1. /\ DOMAIN table = queued \cup {e}
          /\ table \in [queued \cup {e} -> Row]
          /\ \A x \in queued \ {e} : table[x] = rows[x]
      BY WithRowTable
    <2>2. queued \cup {e} \subseteq Events
      BY DEF QueueTypeOK
    <2> HIDE DEF table
    <2> QED
      BY <2>1, <2>2
  <1>3. /\ queued' \subseteq queued \cup {e}
        /\ rows' \in [queued' -> Row]
        /\ \A x \in queued' : rows'[x] = table[x]
        /\ evicted' = evicted \cup ((queued \cup {e}) \ queued')
        /\ cut' \in Nat
    <2>1. CASE InsertAndEnforce(e, now)
      <3>1. EnforceMaxSize(table)
        BY <2>1 DEF InsertAndEnforce
      <3> HIDE DEF table
      <3>2. /\ queued' \subseteq DOMAIN table
            /\ rows' \in [queued' -> Row]
            /\ \A x \in queued' : rows'[x] = table[x]
            /\ evicted' = evicted \cup (DOMAIN table \ queued')
            /\ cut' = 0
        BY <1>2, <3>1, EnforceEffect
      <3> QED
        BY <1>2, <3>2
    <2>2. CASE InsertOnly(e, now)
      <3>1. rows' = table /\ evicted' = evicted /\ cut' = cut + 1
        BY <2>2 DEF InsertOnly
      <3> HIDE DEF table
      <3>2. queued' = queued \cup {e}
        BY <1>2, <3>1 DEF queued
      <3> QED
        BY <1>2, <3>1, <3>2 DEF QueueTypeOK
    <2> QED
      BY <2>1, <2>2 DEF Inserts
  <1> HIDE DEF table
  <1>4. QueueTypeOK'
    BY <1>1, <1>3 DEF QueueTypeOK
  <1>5. \A x \in queued' \cap queued : rows'[x] = rows[x]
    BY <1>1, <1>2, <1>3
  <1> QED
    BY <1>1, <1>3, <1>4, <1>5

(***************************************************************************)
(* What every step that enqueues, or may enqueue, does to the queue.       *)
(***************************************************************************)
Grown ==
    /\ QueueTypeOK'
    /\ born \subseteq born'
    /\ queued' \subseteq queued \cup (born' \ born)
    /\ queued \cup (born' \ born) \subseteq queued' \cup evicted'
    /\ acked' = acked /\ expired' = expired /\ evicted \subseteq evicted'
    /\ \A x \in queued' \cap queued : rows'[x] = rows[x]

\* A step that leaves the queue alone.
LEMMA UnchangedGrown == QueueTypeOK /\ UNCHANGED qvars => Grown
  BY DEF QueueTypeOK, qvars, Grown, queued

\* Some event is enqueued.
SomeInsert == \E e \in Events \ born, now \in Instants : Inserts(e, now)

\* The agent's enqueue is whole or cut short.
LEMMA FreshInserts == EnqueueFresh => SomeInsert \/ UNCHANGED qvars
  BY DEF EnqueueFresh, Enqueue, SomeInsert, Inserts

\* An enqueue grows the queue.
LEMMA InsertGrown == QueueTypeOK /\ queued \subseteq born /\ SomeInsert => Grown
  <1> SUFFICES ASSUME QueueTypeOK, queued \subseteq born, SomeInsert PROVE Grown
    OBVIOUS
  <1>1. PICK e \in Events \ born, now \in Instants : Inserts(e, now)
    BY DEF SomeInsert
  <1> QED
    BY <1>1, EnqueueEffect DEF Grown

\* Agent::enqueue of an event that has just occurred.
LEMMA FreshGrown == QueueTypeOK /\ queued \subseteq born /\ EnqueueFresh => Grown
  BY FreshInserts, UnchangedGrown, InsertGrown

\* note_connected and note_disconnected at most enqueue.
LEMMA NoteGrown ==
    QueueTypeOK /\ queued \subseteq born /\ (NoteConnected \/ NoteDisconnected)
        => Grown /\ connected' \in BOOLEAN
  BY FreshGrown, UnchangedGrown DEF NoteConnected, NoteDisconnected

\* mark_delivered removes the row, if it is there, on the controller's word.
LEMMA MarkDeliveredEffect ==
    ASSUME QueueTypeOK, NEW e \in Events, MarkDelivered(e)
    PROVE  /\ QueueTypeOK'
           /\ queued' = queued \ {e}
           /\ acked' = acked \cup ({e} \cap queued)
           /\ born' = born /\ expired' = expired /\ evicted' = evicted
           /\ \A x \in queued' : rows'[x] = rows[x]
  BY DEF MarkDelivered, Keep, QueueTypeOK, queued

\* mark_failed removes the row at the limit, and otherwise only counts the attempt.
LEMMA MarkFailedEffect ==
    ASSUME QueueTypeOK, NEW e \in Events, NEW n \in 0 .. (MaxAttempts - 1), MarkFailed(e, n)
    PROVE  /\ QueueTypeOK'
           /\ queued' \cup {e} = queued \cup {e}
           /\ queued' \subseteq queued
           /\ queued \subseteq queued' \cup expired'
           /\ expired \subseteq expired'
           /\ born' = born /\ acked' = acked /\ evicted' = evicted
           /\ \A x \in queued' \ {e} : rows'[x] = rows[x]
  <1>1. CASE n + 1 >= MaxAttempts
    BY <1>1 DEF MarkFailed, Discard, Reschedule, Keep, QueueTypeOK, queued
  <1>2. CASE ~(n + 1 >= MaxAttempts)
    <2>1. rows' = [x \in queued |->
                      IF x = e THEN [rows[x] EXCEPT !.attempt = n + 1, !.due = FALSE]
                               ELSE rows[x]]
      BY <1>2 DEF MarkFailed, Discard, Reschedule
    <2>2. n + 1 \in 0 .. (MaxAttempts - 1)
      BY <1>2, EventQueueAssumption
    <2>3. \A x \in queued : [rows[x] EXCEPT !.attempt = n + 1, !.due = FALSE] \in Row
      BY <2>2 DEF QueueTypeOK, Row
    <2>4. queued' = queued /\ rows' \in [queued -> Row]
      BY <2>1, <2>3 DEF QueueTypeOK, queued
    <2> QED
      BY <1>2, <2>1, <2>4 DEF MarkFailed, Discard, Reschedule, QueueTypeOK
  <1> QED
    BY <1>1, <1>2

\* The passing of a row's delay changes nothing else.
LEMMA BackoffEffect ==
    ASSUME QueueTypeOK, NEW e \in Events, BackoffElapses(e)
    PROVE  /\ QueueTypeOK'
           /\ queued' = queued
           /\ born' = born /\ acked' = acked /\ expired' = expired /\ evicted' = evicted
           /\ \A x \in queued : rows'[x].attempt = rows[x].attempt
  <1>1. e \in queued /\ rows' = [rows EXCEPT ![e] = [rows[e] EXCEPT !.due = TRUE]]
    BY DEF BackoffElapses
  <1>2. [rows[e] EXCEPT !.due = TRUE] \in Row
    BY <1>1 DEF QueueTypeOK, Row
  <1>3. queued' = queued /\ rows' \in [queued -> Row]
    BY <1>1, <1>2 DEF QueueTypeOK, queued
  <1>4. \A x \in queued : rows'[x].attempt = rows[x].attempt
    BY <1>1 DEF QueueTypeOK, Row
  <1> QED
    BY <1>3, <1>4 DEF BackoffElapses, QueueTypeOK

-----------------------------------------------------------------------------
(* The inductive step, one lemma per group of actions. *)

\* An empty queue, no request, nothing recorded.
LEMMA InitInv == Init => DeliveryInv
  <1> SUFFICES ASSUME Init PROVE DeliveryInv
    OBVIOUS
  <1>1. queued = {} /\ DOMAIN batch = {}
    BY DEF Init, QueueInit, NoBatch, queued
  <1>2. \A h \in Handlers : handler[h] = Free
    BY DEF Init, IngestInit
  <1>3. rows \in [queued -> Row] /\ batch \in [DOMAIN batch -> 0 .. (MaxAttempts - 1)]
    BY <1>1 DEF Init, QueueInit, NoBatch, queued
  <1>4. TypeOK
    <2>1. Free \in Request
      BY DEF Free, Request, HandlerStates, Clients
    <2>2. IngestTypeOK
      BY <2>1 DEF Init, IngestInit, IngestTypeOK
    <2>3. QueueTypeOK
      BY <1>1, <1>3 DEF Init, QueueInit, QueueTypeOK
    <2>4. faults \in 0 .. MaxFaults
      BY EventQueueAssumption DEF Init
    <2>5. phase \in Phases /\ rereg \in Reregs
      BY DEF Init, Phases, Reregs
    <2> QED
      BY <1>1, <1>3, <2>2, <2>3, <2>4, <2>5 DEF Init, TypeOK
  <1>5. InFlightIsBorn /\ Accounted /\ BatchIsCurrent
    BY <1>1, <1>2 DEF Init, QueueInit, IngestInit, Free, InFlightIsBorn, Accounted, BatchIsCurrent
  <1>6. (\A h \in Handlers : HandlerSound(h) /\ CliMatches(h)) /\ AnswerMatchesBatch
    BY <1>2 DEF Free, HandlerSound, CliMatches, AnswerMatchesBatch
  <1> QED
    BY <1>4, <1>5, <1>6 DEF Init, QueueInit, DeliveryInv

\* A thread without a request is in order.
LEMMA FreeRequest == Free \in Request
  BY DEF Free, Request, HandlerStates, Clients

\* A request may lose its client, or be over; otherwise it is untouched.
Released ==
    /\ handler' \in [Handlers -> Request]
    /\ \A h \in Handlers :
          handler'[h] \in {handler[h], Free, [handler[h] EXCEPT !.client = "gone"]}

\* Letting go of requests leaves the results in the other threads sound.
LEMMA ReleasedSound ==
    ASSUME DeliveryInv, Released, UNCHANGED <<recorded, purged>>,
           registered' \in BOOLEAN, registered => registered'
    PROVE  \A h \in Handlers :
             /\ HandlerSound(h)'
             /\ handler'[h].events \subseteq born
             /\ handler'[h].client # "gone" => handler'[h] = handler[h]
  <1> SUFFICES ASSUME NEW h \in Handlers
               PROVE  /\ HandlerSound(h)'
                      /\ handler'[h].events \subseteq born
                      /\ handler'[h].client # "gone" => handler'[h] = handler[h]
    OBVIOUS
  <1>1. handler[h] \in Request /\ HandlerSound(h) /\ handler[h].events \subseteq born
    BY DEF DeliveryInv, TypeOK, IngestTypeOK, InFlightIsBorn
  <1>2. CASE handler'[h] = handler[h]
    BY <1>1, <1>2 DEF HandlerSound, Known
  <1>3. CASE handler'[h] = Free
    BY <1>3 DEF HandlerSound, Free
  <1>4. CASE handler'[h] = [handler[h] EXCEPT !.client = "gone"]
    <2>1. /\ handler'[h].client = "gone"
          /\ handler'[h].st = handler[h].st /\ handler'[h].events = handler[h].events
          /\ handler'[h].done = handler[h].done /\ handler'[h].cur = handler[h].cur
      BY <1>1, <1>4 DEF Request
    <2> QED
      BY <1>1, <2>1 DEF HandlerSound, Known
  <1> QED
    BY <1>2, <1>3, <1>4 DEF Released

(***************************************************************************)
(* A step that may enqueue and may release requests, and leaves the        *)
(* tables of the controller, the batch in flight and the test-event        *)
(* command as they are.                                                    *)
(***************************************************************************)
LEMMA GrownInv ==
    ASSUME DeliveryInv, Grown, Released,
           UNCHANGED <<recorded, batch, cvars, purged>>,
           registered' \in BOOLEAN, registered => registered',
           phase' \in Phases, accepted' \in BOOLEAN,
           \A h \in Handlers : handler'[h].client = "loop" => phase' = "sent",
           phase' = "marking" /\ accepted' => DOMAIN batch \subseteq Known,
           connected' \in BOOLEAN, rereg' \in Reregs, faults' \in 0 .. MaxFaults
    PROVE  DeliveryInv'
  <1>0. \A h \in Handlers : /\ HandlerSound(h)'
                            /\ handler'[h].events \subseteq born
                            /\ handler'[h].client # "gone" => handler'[h] = handler[h]
    BY ReleasedSound
  <1>1. TypeOK'
    BY DEF DeliveryInv, TypeOK, IngestTypeOK, Grown, cvars, Released
  <1>2. InFlightIsBorn' /\ Accounted'
    BY <1>0 DEF DeliveryInv, InFlightIsBorn, Accounted, Grown, cvars
  <1>3. (acked \subseteq Known)'
    BY DEF DeliveryInv, Grown, Known
  <1>4. (\A h \in Handlers : HandlerSound(h) /\ CliMatches(h))'
    BY <1>0 DEF DeliveryInv, CliMatches, cvars
  <1>5. AnswerMatchesBatch'
    BY <1>0 DEF DeliveryInv, AnswerMatchesBatch
  <1>6. BatchIsCurrent'
    BY DEF DeliveryInv, BatchIsCurrent, InFlightIsBorn, Grown
  <1>7. (phase = "marking" /\ accepted => DOMAIN batch \subseteq Known)'
    BY DEF Known
  <1> QED
    BY <1>1, <1>2, <1>3, <1>4, <1>5, <1>6, <1>7 DEF DeliveryInv

\* The special case in which the controller and the awaited submission are not involved.
LEMMA EnqueueOnlyInv ==
    ASSUME DeliveryInv, Grown,
           UNCHANGED <<recorded, handler, batch, accepted, cvars, purged>>,
           registered' \in BOOLEAN, registered => registered',
           phase' \in Phases, phase = "sent" <=> phase' = "sent", phase' # "marking",
           connected' \in BOOLEAN, rereg' \in Reregs, faults' \in 0 .. MaxFaults
    PROVE  DeliveryInv'
  <1>1. Released
    BY DEF Released, DeliveryInv, TypeOK, IngestTypeOK
  <1>2. \A h \in Handlers : handler'[h].client = "loop" => phase' = "sent"
    BY DEF DeliveryInv, AnswerMatchesBatch
  <1>3. accepted' \in BOOLEAN
    BY DEF DeliveryInv, TypeOK
  <1> QED
    BY <1>1, <1>2, <1>3, GrownInv

\* A client that gives up is answered by no thread any more.
LEMMA DisownReleases ==
    ASSUME handler \in [Handlers -> Request], NEW c \in Clients, c # "gone", Disown(c)
    PROVE  Released /\ \A h \in Handlers : handler'[h].client # c
  BY DEF Disown, Released, Request, Clients

\* A thread whose answer was read is free; the others are untouched.
LEMMA FinishReleases ==
    ASSUME handler \in [Handlers -> Request], NEW h \in Handlers, Finish(h)
    PROVE  /\ Released /\ UNCHANGED <<registered, recorded>>
           /\ handler'[h].client = "gone"
           /\ \A g \in Handlers \ {h} : handler'[g] = handler[g]
  BY FreeRequest DEF Finish, Released, Free

\* Start, registration, heartbeats and other enqueues of the agent.
LEMMA AgentTasksInv == ASSUME DeliveryInv, AgentTasks PROVE DeliveryInv'
  <1> USE DEF DeliveryInv
  <1>0. QueueTypeOK /\ queued \subseteq born
    BY DEF TypeOK, InFlightIsBorn
  <1>1. CASE Start
    BY <1>0, <1>1, FreshGrown, EnqueueOnlyInv
    DEF Start, ivars, hvars, cvars, TypeOK, IngestTypeOK, Phases
  <1>2. CASE Occur
    <2>1. Grown
      BY <1>0, <1>2, FreshGrown DEF Occur, EnqueueFresh
    <2> QED
      BY <1>2, <2>1, EnqueueOnlyInv DEF Occur, ivars, avars, hvars, cvars, TypeOK, IngestTypeOK, QueueFree
  <1>3. CASE Register
    BY <1>0, <1>3, FreshGrown, EnqueueOnlyInv
    DEF Register, RegisterDevice, hvars, cvars, TypeOK, IngestTypeOK, Phases
  <1>4. CASE RegisterFails
    <2>1. Grown
      BY <1>0, <1>4, FreshGrown DEF RegisterFails
    <2>2. /\ UNCHANGED <<recorded, handler>>
          /\ registered' \in BOOLEAN /\ (registered => registered')
      <3>1. registered \in BOOLEAN
        BY DEF TypeOK, IngestTypeOK
      <3>2. CASE RegisterDevice
        BY <3>2 DEF RegisterDevice
      <3>3. CASE UNCHANGED ivars
        BY <3>1, <3>3 DEF ivars
      <3> QED
        BY <1>4, <3>2, <3>3 DEF RegisterFails
    <2>3. UNCHANGED <<phase, batch, accepted, connected, rereg, cvars, purged, faults>>
      BY <1>4 DEF RegisterFails, avars, hvars
    <2> QED
      BY <1>4, <2>1, <2>2, <2>3, EnqueueOnlyInv DEF RegisterFails, QueueFree, TypeOK, Phases
  <1>5. CASE HeartbeatOk \/ HeartbeatFails \/ HeartbeatNotFound
    <2>1. Grown /\ connected' \in BOOLEAN
      BY <1>0, <1>5, NoteGrown DEF HeartbeatOk, HeartbeatFails, HeartbeatNotFound
    <2> QED
      BY <1>5, <2>1, EnqueueOnlyInv
      DEF HeartbeatOk, HeartbeatFails, HeartbeatNotFound, ivars, hvars, cvars, TypeOK,
          IngestTypeOK, QueueFree, Reregs
  <1>6. CASE Reregister
    BY <1>0, <1>6, FreshGrown, EnqueueOnlyInv
    DEF Reregister, RegisterDevice, hvars, cvars, TypeOK, IngestTypeOK, QueueFree, Reregs
  <1>8. CASE LockClient
    <2>1. Grown
      BY <1>0, <1>8, UnchangedGrown DEF LockClient
    <2>2. /\ UNCHANGED <<registered, recorded, handler, phase, batch, accepted, connected, cvars,
                         purged, faults>>
          /\ rereg' = "held"
      BY <1>8 DEF LockClient, ivars, hvars
    <2>3. Released /\ \A h \in Handlers : handler'[h].client = "loop" => phase' = "sent"
      BY <2>2 DEF Released, TypeOK, IngestTypeOK, AnswerMatchesBatch
    <2>4. /\ registered' \in BOOLEAN /\ (registered => registered')
          /\ phase' \in Phases /\ accepted' \in BOOLEAN /\ connected' \in BOOLEAN
          /\ rereg' \in Reregs /\ faults' \in 0 .. MaxFaults
          /\ (phase' = "marking" /\ accepted' => DOMAIN batch \subseteq Known)
      BY <2>2 DEF TypeOK, IngestTypeOK, Reregs
    <2> QED
      BY <2>1, <2>2, <2>3, <2>4, GrownInv
  <1>7. CASE Crash
    <2>0. Grown
      <3>1. SomeInsert \/ UNCHANGED qvars
        BY <1>7 DEF Crash, SomeInsert, Inserts
      <3> QED
        BY <1>0, <3>1, InsertGrown, UnchangedGrown
    <2>1. /\ UNCHANGED <<registered, recorded, cvars, purged>>
          /\ batch' = NoBatch /\ DOMAIN batch' = {} /\ phase' = "down"
      BY <1>7 DEF Crash, NoBatch
    <2>2. Released /\ \A h \in Handlers : handler'[h].client # "loop"
      BY <1>7, DisownReleases DEF Crash, TypeOK, IngestTypeOK, Clients
    <2>3. \A h \in Handlers : /\ HandlerSound(h)'
                              /\ handler'[h].events \subseteq born
                              /\ handler'[h].client # "gone" => handler'[h] = handler[h]
      BY <2>1, <2>2, ReleasedSound DEF TypeOK, IngestTypeOK
    <2>4. TypeOK'
      <3>1. QueueTypeOK' /\ rereg' \in Reregs
        BY <1>7, <2>0 DEF Crash, Grown, Reregs
      <3>2. IngestTypeOK'
        BY <2>1, <2>2 DEF TypeOK, IngestTypeOK, Released
      <3>3. batch' \in [DOMAIN batch' -> 0 .. (MaxAttempts - 1)]
        BY <2>1 DEF NoBatch
      <3>4. faults' \in 0 .. MaxFaults
        BY <1>7, EventQueueAssumption DEF Crash, TypeOK, QueueTypeOK
      <3>5. phase' \in Phases
        BY <2>1 DEF Phases
      <3> QED
        BY <1>7, <2>1, <3>1, <3>2, <3>3, <3>4, <3>5 DEF Crash, TypeOK, cvars
    <2>5. InFlightIsBorn' /\ Accounted'
      BY <2>0, <2>1, <2>3 DEF InFlightIsBorn, Accounted, Grown, cvars
    <2>6. (\A h \in Handlers : HandlerSound(h) /\ CliMatches(h))'
      BY <2>1, <2>3 DEF CliMatches, cvars
    <2>7. AnswerMatchesBatch' /\ BatchIsCurrent'
      BY <2>1, <2>2 DEF AnswerMatchesBatch, BatchIsCurrent
    <2> QED
      BY <2>0, <2>1, <2>4, <2>5, <2>6, <2>7 DEF Known, Grown
  <1> QED
    BY <1>1, <1>2, <1>3, <1>4, <1>5, <1>6, <1>7, <1>8 DEF AgentTasks

\* A submission that failed: the batch is to be marked failed, and nobody answers it.
LEMMA SubmissionFailsInv ==
    ASSUME DeliveryInv, SubmissionFails, Released, UNCHANGED <<registered, recorded>>,
           \A h \in Handlers : handler'[h].client # "loop"
    PROVE  DeliveryInv'
  <1>1. Grown /\ connected' \in BOOLEAN
    BY NoteGrown DEF SubmissionFails, DeliveryInv, TypeOK, InFlightIsBorn
  <1>2. /\ phase' = "marking" /\ accepted' = FALSE
        /\ UNCHANGED <<batch, rereg, cvars, purged, faults>>
    BY DEF SubmissionFails, hvars
  <1>3. phase' \in Phases /\ accepted' \in BOOLEAN
    BY <1>2 DEF Phases
  <1>4. /\ registered' \in BOOLEAN /\ (registered => registered')
        /\ rereg' \in Reregs /\ faults' \in 0 .. MaxFaults
    BY <1>2 DEF DeliveryInv, TypeOK, IngestTypeOK
  <1> QED
    BY <1>1, <1>2, <1>3, <1>4, GrownInv

\* deliver_due_batch reads the rows that are due.
LEMMA TakeBatchInv == ASSUME DeliveryInv, TakeBatch PROVE DeliveryInv'
  <1> USE DEF DeliveryInv
  <1>1. PICK B \in DueBatch : batch' = [e \in B |-> rows[e].attempt]
    BY DEF TakeBatch
  <1>2. B \subseteq queued
    BY DEF DueBatch, Oldest, Due
  <1>3. DOMAIN batch' = B /\ \A e \in B : batch'[e] = rows[e].attempt
    BY <1>1
  <1>4. \A e \in B : rows[e].attempt \in 0 .. (MaxAttempts - 1)
    BY <1>2 DEF TypeOK, QueueTypeOK, Row
  <1>5. /\ UNCHANGED <<qvars, queued, ivars, accepted, connected, rereg, cvars, hvars>>
        /\ phase = "idle" /\ phase' = "taken"
    BY DEF TakeBatch, qvars, queued
  <1>6. TypeOK'
    <2>1. batch' \in [DOMAIN batch' -> 0 .. (MaxAttempts - 1)] /\ DOMAIN batch' \subseteq Events
      BY <1>1, <1>2, <1>3, <1>4 DEF TypeOK, QueueTypeOK
    <2>2. QueueTypeOK' /\ IngestTypeOK'
      BY <1>5 DEF TypeOK, QueueTypeOK, IngestTypeOK, qvars, ivars
    <2> QED
      BY <1>5, <2>1, <2>2 DEF TypeOK, Phases, cvars, hvars
  <1>7. InFlightIsBorn' /\ Accounted'
    BY <1>2, <1>3, <1>5 DEF InFlightIsBorn, Accounted, qvars, ivars, cvars, hvars
  <1>8. (\A h \in Handlers : HandlerSound(h) /\ CliMatches(h))'
    BY <1>5 DEF HandlerSound, CliMatches, Known, ivars, cvars, hvars
  <1>9. AnswerMatchesBatch'
    BY <1>5 DEF AnswerMatchesBatch, ivars
  <1>10. BatchIsCurrent'
    BY <1>3, <1>5 DEF BatchIsCurrent, qvars
  <1> QED
    BY <1>5, <1>6, <1>7, <1>8, <1>9, <1>10 DEF Known, qvars, ivars, hvars

\* A request begins: nothing is promised about its events yet.
LEMMA ArriveEffect ==
    ASSUME DeliveryInv, NEW h \in Handlers, NEW c \in Clients, NEW S \in SUBSET born, Arrive(h, c, S)
    PROVE  /\ IngestTypeOK'
           /\ UNCHANGED <<registered, recorded>>
           /\ handler'[h].client = c /\ handler'[h].events = S
           /\ handler'[h].done = {} /\ handler'[h].st = "check"
           /\ \A g \in Handlers \ {h} : handler'[g] = handler[g]
  <1>1. handler' = [handler EXCEPT ![h] = [st |-> "check", client |-> c, events |-> S,
                                           done |-> {}, cur |-> {}]]
    BY DEF Arrive
  <1>2. [st |-> "check", client |-> c, events |-> S, done |-> {}, cur |-> {}] \in Request
    BY DEF Request, HandlerStates, DeliveryInv, TypeOK, QueueTypeOK
  <1> QED
    BY <1>1, <1>2 DEF Arrive, DeliveryInv, TypeOK, IngestTypeOK

\* The batch goes to a controller thread.
LEMMA SendInv == ASSUME DeliveryInv, NEW h \in Handlers, Send(h) PROVE DeliveryInv'
  <1> USE DEF DeliveryInv
  <1>1. /\ phase = "taken" /\ phase' = "sent"
        /\ UNCHANGED <<qvars, queued, batch, accepted, connected, rereg, cvars, purged, faults>>
    BY DEF Send, hvars, qvars, queued
  <1>2. /\ IngestTypeOK' /\ UNCHANGED <<registered, recorded>>
        /\ handler'[h].client = "loop" /\ handler'[h].events = DOMAIN batch
        /\ handler'[h].done = {} /\ handler'[h].st = "check"
        /\ \A g \in Handlers \ {h} : handler'[g] = handler[g]
    BY ArriveEffect DEF Send, InFlightIsBorn, Clients
  <1>3. TypeOK'
    <2>1. QueueTypeOK'
      BY <1>1 DEF TypeOK, QueueTypeOK, qvars
    <2> QED
      BY <1>1, <1>2, <2>1 DEF TypeOK, Phases, cvars
  <1>4. InFlightIsBorn' /\ Accounted'
    BY <1>1, <1>2 DEF InFlightIsBorn, Accounted, qvars, cvars
  <1>5. (\A g \in Handlers : HandlerSound(g) /\ CliMatches(g))'
    BY <1>1, <1>2 DEF HandlerSound, CliMatches, Known, cvars
  <1>6. AnswerMatchesBatch'
    BY <1>1, <1>2 DEF AnswerMatchesBatch
  <1>7. BatchIsCurrent'
    BY <1>1 DEF BatchIsCurrent, qvars
  <1> QED
    BY <1>1, <1>2, <1>3, <1>4, <1>5, <1>6, <1>7 DEF Known, qvars

\* The answer is read: each result is of an event the controller knows.
LEMMA ReplyOkInv == ASSUME DeliveryInv, NEW h \in Handlers, ReplyOk(h) PROVE DeliveryInv'
  <1>1. Released /\ UNCHANGED <<registered, recorded>>
        /\ \A g \in Handlers : handler'[g].client # "loop"
    BY FinishReleases DEF ReplyOk, DeliveryInv, TypeOK, IngestTypeOK, AnswerMatchesBatch
  <1>2. Grown /\ connected' \in BOOLEAN
    BY NoteGrown DEF ReplyOk, DeliveryInv, TypeOK, InFlightIsBorn
  <1>3. DOMAIN batch \subseteq Known
    BY DEF ReplyOk, AnswersOk, DeliveryInv, AnswerMatchesBatch, HandlerSound
  <1>4. /\ phase' = "marking" /\ accepted' = TRUE
        /\ UNCHANGED <<batch, rereg, cvars, purged, faults>>
    BY DEF ReplyOk, hvars
  <1>5. /\ registered' \in BOOLEAN /\ (registered => registered')
        /\ rereg' \in Reregs /\ faults' \in 0 .. MaxFaults
    BY <1>1, <1>4 DEF DeliveryInv, TypeOK, IngestTypeOK
  <1>6. phase' \in Phases /\ accepted' \in BOOLEAN
    BY <1>4 DEF Phases
  <1> QED
    BY <1>1, <1>2, <1>3, <1>4, <1>5, <1>6, GrownInv

(***************************************************************************)
(* A row of the batch is marked: the queue loses at most that row, and     *)
(* only with a reason; the batch keeps the rest.                           *)
(***************************************************************************)
LEMMA MarkedInv ==
    ASSUME DeliveryInv, NEW e \in Events, Marked(e), faults' \in 0 .. MaxFaults,
           QueueTypeOK', born' = born,
           queued' \subseteq queued, queued \subseteq queued' \cup acked' \cup expired',
           acked \subseteq acked', acked' \subseteq acked \cup (IF accepted THEN {e} ELSE {}),
           expired \subseteq expired', evicted' = evicted,
           \A x \in queued' \ {e} : rows'[x] = rows[x]
    PROVE  DeliveryInv'
  <1> USE DEF DeliveryInv
  <1>1. /\ phase = "marking" /\ e \in DOMAIN batch
        /\ batch' = [x \in DOMAIN batch \ {e} |-> batch[x]]
        /\ phase' \in {"idle", "marking"}
        /\ UNCHANGED <<registered, recorded, handler, accepted, connected, rereg, cvars, purged>>
    BY DEF Marked, ivars
  <1>2. DOMAIN batch' = DOMAIN batch \ {e} /\ \A x \in DOMAIN batch' : batch'[x] = batch[x]
    BY <1>1
  <1>3. TypeOK'
    <2>1. batch' \in [DOMAIN batch' -> 0 .. (MaxAttempts - 1)] /\ DOMAIN batch' \subseteq Events
      BY <1>1, <1>2 DEF TypeOK
    <2>2. IngestTypeOK'
      BY <1>1 DEF TypeOK, IngestTypeOK
    <2>3. phase' \in Phases
      BY <1>1 DEF Phases
    <2> QED
      BY <1>1, <2>1, <2>2, <2>3 DEF TypeOK, cvars
  <1>4. InFlightIsBorn' /\ Accounted'
    BY <1>1, <1>2 DEF InFlightIsBorn, Accounted, cvars
  <1>5. (acked \subseteq Known)'
    BY <1>1 DEF Known
  <1>6. (\A h \in Handlers : HandlerSound(h) /\ CliMatches(h))'
    BY <1>1 DEF HandlerSound, CliMatches, Known, cvars
  <1>7. AnswerMatchesBatch'
    BY <1>1 DEF AnswerMatchesBatch
  <1>8. BatchIsCurrent'
    BY <1>2 DEF BatchIsCurrent
  <1>9. (phase = "marking" /\ accepted => DOMAIN batch \subseteq Known)'
    BY <1>1, <1>2 DEF Known
  <1> QED
    BY <1>3, <1>4, <1>5, <1>6, <1>7, <1>8, <1>9

\* One row of the batch is marked by its result.
LEMMA MarkInv == ASSUME DeliveryInv, NEW e \in Events, Mark(e) PROVE DeliveryInv'
  <1>1. Marked(e) /\ e \in DOMAIN batch /\ faults' \in 0 .. MaxFaults /\ QueueTypeOK
    BY DEF Mark, Marked, DeliveryInv, TypeOK
  <1>2. CASE accepted
    <2>1. MarkDelivered(e)
      BY <1>2 DEF Mark
    <2> QED
      BY <1>1, <1>2, <2>1, MarkDeliveredEffect, MarkedInv
  <1>3. CASE ~accepted
    <2>1. MarkFailed(e, batch[e])
      BY <1>3 DEF Mark
    <2>2. batch[e] \in 0 .. (MaxAttempts - 1)
      BY <1>1 DEF DeliveryInv, TypeOK
    <2> QED
      BY <1>1, <1>3, <2>1, <2>2, MarkFailedEffect, MarkedInv
  <1> QED
    BY <1>2, <1>3

\* Marking one row fails; the row stays as it is.
LEMMA MarkErrorsInv == ASSUME DeliveryInv, NEW e \in Events, MarkErrors(e) PROVE DeliveryInv'
  <1>1. faults' \in 0 .. MaxFaults
    BY EventQueueAssumption DEF MarkErrors, DeliveryInv, TypeOK, QueueTypeOK
  <1>2. UNCHANGED <<qvars, queued>> /\ Marked(e)
    BY DEF MarkErrors, qvars, queued
  <1>3. QueueTypeOK'
    BY <1>2 DEF DeliveryInv, TypeOK, QueueTypeOK, qvars
  <1> QED
    BY <1>1, <1>2, <1>3, MarkedInv DEF qvars

\* All steps of the delivery loop.
LEMMA DeliveryLoopInv == ASSUME DeliveryInv, DeliveryLoop PROVE DeliveryInv'
  <1>0. handler \in [Handlers -> Request]
    BY DEF DeliveryInv, TypeOK, IngestTypeOK
  <1>1. CASE TakeBatch
    BY <1>1, TakeBatchInv
  <1>2. ASSUME NEW h \in Handlers, Send(h) PROVE DeliveryInv'
    BY <1>2, SendInv
  <1>3. ASSUME NEW h \in Handlers, ReplyError(h) PROVE DeliveryInv'
    <2>1. Released /\ UNCHANGED <<registered, recorded>>
          /\ \A g \in Handlers : handler'[g].client # "loop"
      BY <1>0, <1>3, FinishReleases DEF ReplyError, DeliveryInv, AnswerMatchesBatch
    <2> QED
      BY <1>3, <2>1, SubmissionFailsInv DEF ReplyError
  <1>4. ASSUME NEW h \in Handlers, ReplyOk(h) PROVE DeliveryInv'
    BY <1>4, ReplyOkInv
  <1>5. CASE SendFails
    <2>1. Released /\ \A h \in Handlers : handler'[h].client # "loop"
      BY <1>0, <1>5 DEF SendFails, ivars, Released, DeliveryInv, AnswerMatchesBatch
    <2> QED
      BY <1>5, <2>1, SubmissionFailsInv DEF SendFails, ivars
  <1>6. CASE SendTimesOut
    <2>1. Released /\ \A h \in Handlers : handler'[h].client # "loop"
      BY <1>0, <1>6, DisownReleases DEF SendTimesOut, Clients
    <2> QED
      BY <1>6, <2>1, SubmissionFailsInv DEF SendTimesOut
  <1>7. ASSUME NEW e \in Events, Mark(e) \/ MarkErrors(e) PROVE DeliveryInv'
    BY <1>7, MarkInv, MarkErrorsInv
  <1> QED
    BY <1>1, <1>2, <1>3, <1>4, <1>5, <1>6, <1>7 DEF DeliveryLoop

\* The test-event command, on the same queue.
LEMMA CliInv == ASSUME DeliveryInv, Cli PROVE DeliveryInv'
  <1> USE DEF DeliveryInv
  <1>0. handler \in [Handlers -> Request] /\ QueueTypeOK /\ queued \subseteq born
    BY DEF TypeOK, IngestTypeOK, InFlightIsBorn
  <1>1. CASE CliEnqueue \/ CliInsert
    <2>1. PICK e \in Events \ born, now \in Instants : Inserts(e, now) /\ cliEvent' = {e}
      BY <1>1 DEF CliEnqueue, CliInsert, Inserts
    <2>2. Grown /\ cliEvent' \subseteq born' /\ born' = born \cup {e}
      BY <1>0, <2>1, EnqueueEffect, InsertGrown DEF SomeInsert
    <2>3. /\ cli = "idle" /\ cli' \in {"inserted", "queued"}
          /\ UNCHANGED <<registered, recorded, handler, phase, batch, accepted, connected, rereg,
                         purged>>
          /\ faults' \in 0 .. MaxFaults
      <3>1. CASE CliEnqueue
        BY <3>1 DEF CliEnqueue, ivars, avars, hvars, TypeOK
      <3>2. CASE CliInsert
        BY <3>2, EventQueueAssumption DEF CliInsert, ivars, avars, TypeOK, QueueTypeOK
      <3> QED
        BY <1>1, <3>1, <3>2
    <2>4. TypeOK'
      <3>1. QueueTypeOK' /\ IngestTypeOK'
        BY <2>2, <2>3 DEF Grown, TypeOK, IngestTypeOK
      <3> QED
        BY <2>1, <2>3, <3>1 DEF TypeOK
    <2>5. InFlightIsBorn' /\ Accounted'
      BY <2>2, <2>3 DEF InFlightIsBorn, Accounted, Grown
    <2>6. (\A h \in Handlers : HandlerSound(h) /\ CliMatches(h))'
      BY <2>3 DEF HandlerSound, CliMatches, Known
    <2>7. AnswerMatchesBatch' /\ (acked \subseteq Known)'
      BY <2>2, <2>3 DEF AnswerMatchesBatch, Known, Grown
    <2>8. BatchIsCurrent'
      BY <2>2, <2>3 DEF BatchIsCurrent, Grown, InFlightIsBorn
    <2> QED
      BY <2>3, <2>4, <2>5, <2>6, <2>7, <2>8 DEF Known
  <1>6. CASE CliEnforce
    <2>1. /\ UNCHANGED <<born, acked, expired, registered, recorded, handler, phase, batch, accepted,
                         connected, rereg, cliEvent, purged, faults>>
          /\ cli = "inserted" /\ cli' = "queued" /\ EnforceMaxSize(rows)
      BY <1>6 DEF CliEnforce, ivars, avars, hvars
    <2>2. /\ queued' \subseteq queued
          /\ rows' \in [queued' -> Row]
          /\ \A x \in queued' : rows'[x] = rows[x]
          /\ evicted' = evicted \cup (queued \ queued')
          /\ cut' = 0
      BY <1>0, <2>1, EnforceEffect DEF QueueTypeOK, queued
    <2>3. TypeOK'
      <3>1. QueueTypeOK' /\ IngestTypeOK'
        BY <1>0, <2>1, <2>2 DEF TypeOK, QueueTypeOK, IngestTypeOK
      <3> QED
        BY <2>1, <3>1 DEF TypeOK
    <2>4. InFlightIsBorn' /\ Accounted' /\ BatchIsCurrent'
      BY <2>1, <2>2 DEF InFlightIsBorn, Accounted, BatchIsCurrent
    <2>5. (\A h \in Handlers : HandlerSound(h) /\ CliMatches(h))' /\ AnswerMatchesBatch'
      BY <2>1 DEF HandlerSound, CliMatches, AnswerMatchesBatch, Known
    <2> QED
      BY <2>1, <2>3, <2>4, <2>5 DEF Known
  <1>2. CASE CliRegister
    <2>1. /\ UNCHANGED <<qvars, queued, recorded, handler, phase, batch, accepted, connected, rereg,
                         cliEvent, purged, faults>>
          /\ cli = "queued" /\ cli' = "registered" /\ registered' = TRUE
      BY <1>2 DEF CliRegister, RegisterDevice, avars, hvars, qvars, queued
    <2>2. TypeOK'
      <3>1. QueueTypeOK' /\ IngestTypeOK'
        BY <2>1 DEF TypeOK, QueueTypeOK, IngestTypeOK, qvars
      <3> QED
        BY <2>1, <3>1 DEF TypeOK
    <2>3. InFlightIsBorn' /\ Accounted' /\ BatchIsCurrent'
      BY <2>1 DEF InFlightIsBorn, Accounted, BatchIsCurrent, qvars
    <2>4. (\A h \in Handlers : HandlerSound(h) /\ CliMatches(h))' /\ AnswerMatchesBatch'
      BY <2>1 DEF HandlerSound, CliMatches, AnswerMatchesBatch, Known
    <2> QED
      BY <2>1, <2>2, <2>3, <2>4 DEF Known, qvars
  <1>3. ASSUME NEW h \in Handlers, CliSend(h) PROVE DeliveryInv'
    <2>1. /\ UNCHANGED <<qvars, queued, phase, batch, accepted, connected, rereg, cliEvent, purged,
                         faults>>
          /\ cli = "registered" /\ cli' = "sent"
      BY <1>3 DEF CliSend, avars, hvars, qvars, queued
    <2>2. /\ IngestTypeOK' /\ UNCHANGED <<registered, recorded>>
          /\ handler'[h].client = "cli" /\ handler'[h].events = cliEvent
          /\ handler'[h].done = {} /\ handler'[h].st = "check"
          /\ \A g \in Handlers \ {h} : handler'[g] = handler[g]
      BY <1>3, ArriveEffect DEF CliSend, InFlightIsBorn, Clients
    <2>3. TypeOK'
      <3>1. QueueTypeOK'
        BY <2>1 DEF TypeOK, QueueTypeOK, qvars
      <3> QED
        BY <2>1, <2>2, <3>1 DEF TypeOK
    <2>4. InFlightIsBorn' /\ Accounted' /\ BatchIsCurrent'
      BY <2>1, <2>2 DEF InFlightIsBorn, Accounted, BatchIsCurrent, qvars
    <2>5. (\A g \in Handlers : HandlerSound(g) /\ CliMatches(g))' /\ AnswerMatchesBatch'
      BY <2>1, <2>2 DEF HandlerSound, CliMatches, AnswerMatchesBatch, Known
    <2> QED
      BY <2>1, <2>2, <2>3, <2>4, <2>5 DEF Known, qvars
  <1>4. ASSUME NEW h \in Handlers, CliReplyOk(h) PROVE DeliveryInv'
    <2>1. PICK e \in cliEvent : MarkDelivered(e)
      BY <1>4 DEF CliReplyOk
    <2>2. e \in Events /\ e \in Known
      BY <1>4, <2>1
      DEF CliReplyOk, AnswersOk, HandlerSound, CliMatches, TypeOK
    <2>3. /\ QueueTypeOK' /\ queued' = queued \ {e} /\ acked' = acked \cup ({e} \cap queued)
          /\ born' = born /\ expired' = expired /\ evicted' = evicted
          /\ \A x \in queued' : rows'[x] = rows[x]
      BY <1>0, <2>1, <2>2, MarkDeliveredEffect
    <2>4. /\ Released /\ UNCHANGED <<registered, recorded>>
          /\ handler'[h].client = "gone"
          /\ \A g \in Handlers \ {h} : handler'[g] = handler[g]
      BY <1>0, <1>4, FinishReleases DEF CliReplyOk
    <2>5. /\ UNCHANGED <<phase, batch, accepted, connected, rereg, purged, faults>>
          /\ cli' = "idle" /\ cliEvent' = {}
      BY <1>4 DEF CliReplyOk, avars, hvars
    <2>6. \A g \in Handlers : /\ HandlerSound(g)' /\ handler'[g].events \subseteq born
                              /\ handler'[g].client # "gone" => handler'[g] = handler[g]
      BY <2>4, <2>5, ReleasedSound DEF TypeOK, IngestTypeOK
    <2>7. TypeOK'
      <3>1. IngestTypeOK'
        BY <2>4 DEF TypeOK, IngestTypeOK, Released
      <3> QED
        BY <2>3, <2>5, <3>1 DEF TypeOK
    <2>8. InFlightIsBorn' /\ Accounted' /\ BatchIsCurrent'
      BY <2>3, <2>4, <2>5, <2>6 DEF InFlightIsBorn, Accounted, BatchIsCurrent
    <2>9. (\A g \in Handlers : CliMatches(g))'
      BY <1>4, <2>4 DEF CliReplyOk, CliMatches
    <2>10. AnswerMatchesBatch' /\ (acked \subseteq Known)'
      BY <2>2, <2>3, <2>4, <2>5, <2>6 DEF Known, AnswerMatchesBatch
    <2> QED
      BY <2>4, <2>5, <2>6, <2>7, <2>8, <2>9, <2>10 DEF Known
  <1>5. CASE CliGivesUp
    <2>1. Released /\ \A h \in Handlers : handler'[h].client # "cli"
      BY <1>0, <1>5, DisownReleases DEF CliGivesUp, Clients
    <2>2. /\ UNCHANGED <<qvars, queued, registered, recorded, phase, batch, accepted, connected,
                         rereg, purged, faults>>
          /\ cli' = "idle" /\ cliEvent' = {}
      BY <1>5 DEF CliGivesUp, avars, hvars, qvars, queued
    <2>3. \A g \in Handlers : /\ HandlerSound(g)' /\ handler'[g].events \subseteq born
                              /\ handler'[g].client # "gone" => handler'[g] = handler[g]
      BY <2>1, <2>2, ReleasedSound DEF TypeOK, IngestTypeOK
    <2>4. TypeOK'
      <3>1. QueueTypeOK' /\ IngestTypeOK'
        BY <2>1, <2>2 DEF TypeOK, QueueTypeOK, IngestTypeOK, Released, qvars
      <3> QED
        BY <2>2, <3>1 DEF TypeOK
    <2>5. InFlightIsBorn' /\ Accounted' /\ BatchIsCurrent'
      BY <2>2, <2>3 DEF InFlightIsBorn, Accounted, BatchIsCurrent, qvars
    <2>6. (\A g \in Handlers : CliMatches(g))' /\ AnswerMatchesBatch'
      BY <2>1, <2>2, <2>3 DEF CliMatches, AnswerMatchesBatch
    <2> QED
      BY <2>2, <2>3, <2>4, <2>5, <2>6 DEF Known, qvars
  <1> QED
    BY <1>1, <1>2, <1>3, <1>4, <1>5, <1>6 DEF Cli

(***************************************************************************)
(* A handler's step: its own request changes, the table may gain the       *)
(* event it inserts, and its results stay true.                            *)
(***************************************************************************)
Served(h) ==
    /\ recorded \subseteq recorded' /\ recorded' \subseteq born
    /\ handler' \in [Handlers -> Request]
    /\ handler'[h].client = handler[h].client /\ handler'[h].events = handler[h].events
    /\ \A g \in Handlers \ {h} : handler'[g] = handler[g]
    /\ HandlerSound(h)'

\* A step of one controller thread that leaves its results sound.
LEMMA ServedInv ==
    ASSUME DeliveryInv, NEW h \in Handlers, Served(h), registered' = registered,
           UNCHANGED <<qvars, queued, phase, batch, accepted, connected, rereg, cvars, purged, faults>>
    PROVE  DeliveryInv'
  <1> USE DEF DeliveryInv
  <1>1. TypeOK'
    <2>1. QueueTypeOK' /\ IngestTypeOK'
      BY DEF TypeOK, QueueTypeOK, IngestTypeOK, qvars, Served
    <2> QED
      BY <2>1 DEF TypeOK, cvars
  <1>2. InFlightIsBorn' /\ Accounted' /\ BatchIsCurrent'
    BY DEF InFlightIsBorn, Accounted, BatchIsCurrent, qvars, cvars, Served
  <1>3. ASSUME NEW g \in Handlers PROVE HandlerSound(g)' /\ CliMatches(g)'
    <2>1. CliMatches(g)'
      BY DEF CliMatches, Served, cvars
    <2>2. HandlerSound(g)'
      BY DEF HandlerSound, Served, Known
    <2> QED
      BY <2>1, <2>2
  <1>4. AnswerMatchesBatch'
    BY DEF AnswerMatchesBatch, Served
  <1>5. /\ (acked \subseteq Known)'
        /\ (phase = "marking" /\ accepted => DOMAIN batch \subseteq Known)'
    BY DEF Known, Served, qvars
  <1> QED
    BY <1>1, <1>2, <1>3, <1>4, <1>5

\* EventService.submit, step by step.
LEMMA ServeInv == ASSUME DeliveryInv, NEW h \in Handlers, Serve(h) PROVE DeliveryInv'
  <1>0. /\ handler \in [Handlers -> Request] /\ handler[h] \in Request
        /\ HandlerSound(h) /\ handler[h].events \subseteq born
        /\ recorded \subseteq born /\ registered \in BOOLEAN
    BY DEF DeliveryInv, TypeOK, IngestTypeOK, InFlightIsBorn
  <1>1. /\ UNCHANGED <<qvars, queued, phase, batch, accepted, connected, rereg, cvars, purged, faults>>
        /\ registered' = registered
    BY DEF Serve, CheckDevice, CheckItem, InsertItem, InsertConflicts, FinishUnread, Finish,
           avars, hvars, qvars, queued
  <1>2. CASE FinishUnread(h)
    <2>1. Released /\ UNCHANGED <<registered, recorded>>
      BY <1>0, <1>2, FinishReleases DEF FinishUnread
    <2>2. Grown
      BY <1>1, UnchangedGrown DEF DeliveryInv, TypeOK
    <2>3. \A g \in Handlers : handler'[g].client = "loop" => phase' = "sent"
      BY <1>0, <1>1, <1>2, FinishReleases DEF FinishUnread, DeliveryInv, AnswerMatchesBatch
    <2>4. /\ registered' \in BOOLEAN /\ (registered => registered')
          /\ phase' \in Phases /\ accepted' \in BOOLEAN /\ connected' \in BOOLEAN
          /\ rereg' \in Reregs /\ faults' \in 0 .. MaxFaults
      BY <1>1 DEF DeliveryInv, TypeOK, IngestTypeOK
    <2>5. phase' = "marking" /\ accepted' => DOMAIN batch \subseteq Known
      BY <1>1 DEF DeliveryInv
    <2> QED
      BY <1>1, <2>1, <2>2, <2>3, <2>4, <2>5, GrownInv
  <1>3. CASE CheckDevice(h)
    <2>1. Served(h)
      BY <1>0, <1>1, <1>3 DEF CheckDevice, Served, HandlerSound, Known, Request, HandlerStates
    <2> QED
      BY <1>1, <2>1, ServedInv
  <1>4. ASSUME NEW e \in Events, CheckItem(h, e) PROVE DeliveryInv'
    <2>1. CASE e \in recorded
      <3>1. handler' = [handler EXCEPT ![h] = [handler[h] EXCEPT !.done = handler[h].done \cup {e}]]
        BY <1>4, <2>1 DEF CheckItem
      <3>2. Served(h)
        BY <1>0, <1>1, <1>4, <2>1, <3>1 DEF CheckItem, Served, HandlerSound, Known, Request
      <3> QED
        BY <1>1, <3>2, ServedInv
    <2>2. CASE e \notin recorded
      <3>1. handler' = [handler EXCEPT ![h] = [handler[h] EXCEPT !.st = "insert", !.cur = {e}]]
        BY <1>0, <1>4, <2>2 DEF CheckItem, Request
      <3>2. Served(h)
        BY <1>0, <1>1, <1>4, <2>2, <3>1
        DEF CheckItem, Served, HandlerSound, Known, Request, HandlerStates
      <3> QED
        BY <1>1, <3>2, ServedInv
    <2> QED
      BY <2>1, <2>2
  <1>5. CASE InsertItem(h)
    <2>1. handler' = [handler EXCEPT ![h] = [handler[h] EXCEPT !.st = "loop",
                          !.done = handler[h].done \cup handler[h].cur, !.cur = {}]]
      BY <1>0, <1>5 DEF InsertItem, Request
    <2>2. Served(h)
      BY <1>0, <1>1, <1>5, <2>1 DEF InsertItem, Served, HandlerSound, Known, Request, HandlerStates
    <2> QED
      BY <1>1, <2>2, ServedInv
  <1>6. CASE InsertConflicts(h)
    <2>1. handler[h].cur \subseteq Known
      BY <1>0, <1>6 DEF InsertConflicts, HandlerSound, Known
    <2>2. CASE handler' = [handler EXCEPT ![h].st = "loop",
                              ![h].done = @ \cup handler[h].cur, ![h].cur = {}]
      <3>1. handler' = [handler EXCEPT ![h] = [handler[h] EXCEPT !.st = "loop",
                            !.done = handler[h].done \cup handler[h].cur, !.cur = {}]]
        BY <1>0, <2>2 DEF Request
      <3>2. Served(h)
        BY <1>0, <1>1, <1>6, <2>1, <3>1
        DEF InsertConflicts, Served, HandlerSound, Known, Request, HandlerStates
      <3> QED
        BY <1>1, <3>2, ServedInv
    <2>3. CASE handler' = [handler EXCEPT ![h].st = "error", ![h].cur = {}]
      <3>1. handler' = [handler EXCEPT ![h] = [handler[h] EXCEPT !.st = "error", !.cur = {}]]
        BY <1>0, <2>3 DEF Request
      <3>2. Served(h)
        BY <1>0, <1>1, <1>6, <3>1
        DEF InsertConflicts, Served, HandlerSound, Known, Request, HandlerStates
      <3> QED
        BY <1>1, <3>2, ServedInv
    <2> QED
      BY <1>6, <2>2, <2>3 DEF InsertConflicts
  <1> QED
    BY <1>2, <1>3, <1>4, <1>5, <1>6 DEF Serve

\* Controller threads, deletion of the device and restarts.
LEMMA ControllerInv == ASSUME DeliveryInv, Controller PROVE DeliveryInv'
  <1>1. ASSUME NEW h \in Handlers, Serve(h) PROVE DeliveryInv'
    BY <1>1, ServeInv
  <1>2. CASE AdminDeletes
    <2> USE DEF DeliveryInv
    <2>1. /\ UNCHANGED <<qvars, queued, handler, phase, batch, accepted, connected, rereg, cvars>>
          /\ recorded' = {} /\ registered' = FALSE /\ purged' = purged \cup born
      BY <1>2 DEF AdminDeletes, DeleteDevice, avars, qvars, queued
    <2>2. Known \subseteq Known' /\ born \subseteq Known'
      BY <2>1 DEF Known, InFlightIsBorn
    <2>3. faults' \in 0 .. MaxFaults
      BY <1>2, EventQueueAssumption DEF AdminDeletes, TypeOK, QueueTypeOK
    <2>4. TypeOK'
      <3>1. QueueTypeOK' /\ IngestTypeOK' /\ purged' \subseteq Events
        BY <2>1 DEF TypeOK, QueueTypeOK, IngestTypeOK, qvars
      <3> QED
        BY <2>1, <2>3, <3>1 DEF TypeOK, cvars
    <2>5. InFlightIsBorn' /\ Accounted' /\ BatchIsCurrent'
      BY <2>1 DEF InFlightIsBorn, Accounted, BatchIsCurrent, qvars, cvars
    <2>6. (\A h \in Handlers : HandlerSound(h) /\ CliMatches(h))' /\ AnswerMatchesBatch'
      BY <2>1, <2>2 DEF HandlerSound, CliMatches, AnswerMatchesBatch, InFlightIsBorn, cvars
    <2> QED
      BY <2>1, <2>2, <2>4, <2>5, <2>6 DEF qvars
  <1>3. CASE ControllerRestarts
    <2>1. /\ UNCHANGED <<qvars, queued, registered, recorded, phase, batch, accepted, connected,
                         rereg, cvars, purged>>
          /\ handler' = [h \in Handlers |-> Free]
      BY <1>3 DEF ControllerRestarts, RestartController, avars, qvars, queued
    <2>2. Released /\ \A h \in Handlers : handler'[h].client # "loop"
      BY <2>1, FreeRequest DEF Released, Free
    <2>3. Grown
      BY <2>1, UnchangedGrown DEF DeliveryInv, TypeOK
    <2>4. faults' \in 0 .. MaxFaults
      BY <1>3, EventQueueAssumption DEF ControllerRestarts, DeliveryInv, TypeOK, QueueTypeOK
    <2>5. /\ registered' \in BOOLEAN /\ (registered => registered')
          /\ phase' \in Phases /\ accepted' \in BOOLEAN /\ connected' \in BOOLEAN
          /\ rereg' \in Reregs
          /\ (phase' = "marking" /\ accepted' => DOMAIN batch \subseteq Known)
      BY <2>1 DEF DeliveryInv, TypeOK, IngestTypeOK
    <2> QED
      BY <2>1, <2>2, <2>3, <2>4, <2>5, GrownInv
  <1> QED
    BY <1>1, <1>2, <1>3 DEF Controller

\* Time passing changes no row but its due flag.
LEMMA QuietInv ==
    ASSUME DeliveryInv, QueueTypeOK', queued' = queued,
           UNCHANGED <<born, acked, expired, evicted, ivars, avars, cvars, hvars>>,
           \A x \in queued : rows'[x].attempt = rows[x].attempt
    PROVE  DeliveryInv'
  <1> USE DEF DeliveryInv, ivars, avars, cvars, hvars
  <1>1. TypeOK'
    <2>1. IngestTypeOK'
      BY DEF TypeOK, IngestTypeOK
    <2> QED
      BY <2>1 DEF TypeOK
  <1>2. InFlightIsBorn' /\ Accounted' /\ BatchIsCurrent'
    BY DEF InFlightIsBorn, Accounted, BatchIsCurrent
  <1>3. (\A h \in Handlers : HandlerSound(h) /\ CliMatches(h))' /\ AnswerMatchesBatch'
    BY DEF HandlerSound, CliMatches, AnswerMatchesBatch, Known
  <1> QED
    BY <1>1, <1>2, <1>3 DEF Known

\* Every step keeps the invariant.
LEMMA NextInv == DeliveryInv /\ [Next]_vars => DeliveryInv'
  <1> SUFFICES ASSUME DeliveryInv, [Next]_vars PROVE DeliveryInv'
    OBVIOUS
  <1>1. ASSUME NEW e \in Events, TimePasses(e) PROVE DeliveryInv'
    BY <1>1, BackoffEffect, QuietInv DEF TimePasses, DeliveryInv, TypeOK
  <1>2. CASE UNCHANGED vars
    <2>1. UNCHANGED <<qvars, ivars, avars, cvars, hvars>>
      BY <1>2 DEF vars
    <2>2. QueueTypeOK' /\ queued' = queued
      BY <2>1 DEF qvars, queued, DeliveryInv, TypeOK, QueueTypeOK
    <2> QED
      BY <2>1, <2>2, QuietInv DEF qvars
  <1> QED
    BY <1>1, <1>2, AgentTasksInv, DeliveryLoopInv, CliInv, ControllerInv DEF Next

-----------------------------------------------------------------------------
(* The results. *)

\* The inductive invariant holds in every reachable state.
THEOREM DeliveryInvariant == Spec => []DeliveryInv
  BY InitInv, NextInv, PTL DEF Spec

\* Every variable of the delivery model keeps its type, for all constants.
THEOREM TypeCorrect == Spec => []TypeOK
  <1>1. DeliveryInv => TypeOK
    BY DEF DeliveryInv
  <1> QED
    BY <1>1, DeliveryInvariant, PTL

(***************************************************************************)
(* What deliver_due_batch deletes as delivered, ACCEPTED or DUPLICATE, is  *)
(* in the controller's table, for any number of threads, crashes,          *)
(* timeouts, and racing test-event commands.                               *)
(***************************************************************************)
THEOREM AckedRecorded == Spec => []AckedIsRecorded
  <1>1. DeliveryInv => AckedIsRecorded
    BY DEF DeliveryInv, Known, AckedIsRecorded
  <1> QED
    BY <1>1, DeliveryInvariant, PTL

(***************************************************************************)
(* An enqueued event is in the queue or on the controller unless one of    *)
(* the queue's limits discarded it or the device was deleted.              *)
(***************************************************************************)
THEOREM EventsSurvive == Spec => []NoEventLost
  <1>1. DeliveryInv => NoEventLost
    BY DEF DeliveryInv, Accounted, Known, NoEventLost
  <1> QED
    BY <1>1, DeliveryInvariant, PTL

\* A late answer is never applied to another batch.
THEOREM AnswersMatch == Spec => []AnswerMatchesBatch
  <1>1. DeliveryInv => AnswerMatchesBatch
    BY DEF DeliveryInv
  <1> QED
    BY <1>1, DeliveryInvariant, PTL

\* The attempt counts read before the request are current when they are written back.
THEOREM BatchStaysCurrent == Spec => []BatchIsCurrent
  <1>1. DeliveryInv => BatchIsCurrent
    BY DEF DeliveryInv
  <1> QED
    BY <1>1, DeliveryInvariant, PTL

(***************************************************************************)
(* mark_failed discards a row only at its last permitted attempt, and only *)
(* after a failed submission.                                              *)
(***************************************************************************)
THEOREM ExpiryAtLimit == Spec => ExpiresOnlyAtLimit
  <1>1. ASSUME DeliveryInv, [Next]_vars PROVE [AllAtLimit]_vars
    <2> SUFFICES ASSUME NEW x \in expired' \ expired
                 PROVE  phase = "marking" /\ ~accepted /\ rows[x].attempt = MaxAttempts - 1
      BY DEF AllAtLimit
    <2>0. QueueTypeOK /\ queued \subseteq born
      BY <1>1 DEF DeliveryInv, TypeOK, InFlightIsBorn
    <2>1. ~Grown /\ ~UNCHANGED expired
      BY DEF Grown
    <2>2. ~EnqueueFresh /\ ~NoteConnected /\ ~NoteDisconnected
      BY <2>0, <2>1, FreshGrown, NoteGrown
    <2>3. ~\E e \in Events \ born, now \in Instants : Enqueue(e, now) \/ Inserts(e, now)
      <3>1. ~\E e \in Events \ born, now \in Instants : Inserts(e, now)
        BY <2>0, <2>1, InsertGrown DEF SomeInsert
      <3> QED
        BY <3>1 DEF Enqueue, Inserts
    <2>4. ~AgentTasks
      BY <2>1, <2>2, <2>3
      DEF AgentTasks, Start, Occur, Register, RegisterFails, HeartbeatOk, HeartbeatFails,
          HeartbeatNotFound, LockClient, Reregister, Crash, Inserts, qvars
    <2>5. ~Cli
      BY <2>1, <2>3
      DEF Cli, CliEnqueue, CliInsert, CliEnforce, CliRegister, CliSend, CliReplyOk, CliGivesUp,
          MarkDelivered, Inserts, qvars
    <2>6. ~Controller /\ ~(\E e \in Events : TimePasses(e)) /\ ~UNCHANGED vars
      BY <2>1
      DEF Controller, Serve, AdminDeletes, ControllerRestarts, TimePasses, BackoffElapses, vars, qvars
    <2>7. PICK e \in Events : Mark(e)
      BY <1>1, <2>1, <2>2, <2>4, <2>5, <2>6
      DEF Next, DeliveryLoop, TakeBatch, Send, ReplyError, ReplyOk, SendFails, SendTimesOut,
          SubmissionFails, MarkErrors, qvars
    <2>8. ~accepted /\ MarkFailed(e, batch[e]) /\ phase = "marking" /\ e \in DOMAIN batch
      BY <2>1, <2>7 DEF Mark, Marked, MarkDelivered
    <2>9. batch[e] + 1 >= MaxAttempts /\ x = e /\ e \in queued
      BY <2>1, <2>8 DEF MarkFailed, Discard, Reschedule
    <2>10. batch[e] = rows[e].attempt /\ batch[e] \in 0 .. (MaxAttempts - 1)
      BY <1>1, <2>8, <2>9 DEF DeliveryInv, BatchIsCurrent, TypeOK
    <2>11. batch[e] = MaxAttempts - 1
      BY <2>9, <2>10, EventQueueAssumption
    <2> QED
      BY <2>8, <2>9, <2>10, <2>11
  <1> QED
    BY <1>1, DeliveryInvariant, PTL DEF Spec, ExpiresOnlyAtLimit

\* enforce_max_size, when it runs to its end, leaves the table within its cap.
LEMMA EnforceBounded ==
    ASSUME NEW t, DOMAIN t \subseteq Events, EnforceMaxSize(t)
    PROVE  QueueBounded'
  <1> DEFINE keys == DOMAIN t
             n == Cardinality(keys)
  <1>1. PICK discarded \in Oldest(t, keys, Overflow(n)) : rows' = Keep(t, keys \ discarded)
    BY DEF EnforceMaxSize
  <1>2. discarded \subseteq keys /\ Cardinality(discarded) = Overflow(n)
    BY DEF Oldest
  <1>3. queued' = keys \ discarded
    BY <1>1 DEF Keep, queued
  <1>4. IsFiniteSet(keys) /\ n \in Nat
    <2>1. IsFiniteSet(keys)
      BY EventsFinite, FS_Subset
    <2> QED
      BY <2>1, FS_CardinalityType
  <1>5. Cardinality(keys \ discarded) = n - Cardinality(keys \cap discarded)
    BY <1>4, FS_Difference, <1>2, FS_Subset
  <1>6. keys \cap discarded = discarded
    BY <1>2
  <1>7. Cardinality(queued') = n - Overflow(n)
    BY <1>2, <1>3, <1>5, <1>6
  <1>8. cut' = 0
    BY DEF EnforceMaxSize
  <1> HIDE DEF n
  <1> QED
    BY <1>4, <1>7, <1>8, EventQueueAssumption DEF Overflow, QueueBounded

\* enqueue restores the limit, or is cut short and counted.
LEMMA EnqueueBounded ==
    ASSUME QueueTypeOK, QueueBounded, NEW e \in Events, NEW now \in Instants, Inserts(e, now)
    PROVE  QueueBounded'
  <1>1. CASE InsertAndEnforce(e, now)
    <2>1. EnforceMaxSize(WithRow(e, now))
      BY <1>1 DEF InsertAndEnforce
    <2>2. DOMAIN WithRow(e, now) = queued \cup {e}
      BY WithRowTable
    <2>3. DOMAIN WithRow(e, now) \subseteq Events
      BY <2>2 DEF QueueTypeOK
    <2> QED
      BY <2>1, <2>3, EnforceBounded
  <1>2. CASE InsertOnly(e, now)
    <2>1. queued' = queued \cup {e} /\ cut' = cut + 1
      BY <1>2 DEF InsertOnly, WithRow, queued
    <2>2. IsFiniteSet(queued) /\ Cardinality(queued) \in Nat
      BY EventsFinite, FS_Subset, FS_CardinalityType DEF QueueTypeOK
    <2>3. \/ Cardinality(queued \cup {e}) = Cardinality(queued)
          \/ Cardinality(queued \cup {e}) = Cardinality(queued) + 1
      BY <2>2, FS_AddElement
    <2>4. Cardinality(queued') \in Nat /\ Cardinality(queued') =< Cardinality(queued) + 1
      BY <2>1, <2>2, <2>3
    <2> QED
      BY <2>1, <2>2, <2>4, EventQueueAssumption DEF QueueBounded, QueueTypeOK
  <1> QED
    BY <1>1, <1>2 DEF Inserts

\* A queue that loses rows stays within its bound.
LEMMA ShrinkBounded ==
    ASSUME QueueTypeOK, QueueBounded, queued' \subseteq queued, cut' = cut
    PROVE  QueueBounded'
  <1>1. IsFiniteSet(queued)
    BY EventsFinite, FS_Subset DEF QueueTypeOK
  <1>2. Cardinality(queued) \in Nat /\ Cardinality(queued') \in Nat
        /\ Cardinality(queued') =< Cardinality(queued)
    BY <1>1, FS_Subset, FS_CardinalityType
  <1> QED
    BY <1>2, EventQueueAssumption DEF QueueBounded, QueueTypeOK

\* An operation of the queue other than an enqueue only removes keys.
LEMMA NextBounded ==
    ASSUME DeliveryInv, QueueBounded, [Next]_vars
    PROVE  QueueBounded'
  <1>0. QueueTypeOK
    BY DEF DeliveryInv, TypeOK
  <1>1. ASSUME UNCHANGED qvars PROVE QueueBounded'
    BY <1>1 DEF qvars, QueueBounded, queued
  <1>2. ASSUME NEW e \in Events, NEW now \in Instants, Enqueue(e, now) \/ Inserts(e, now)
        PROVE  QueueBounded'
    BY <1>0, <1>2, EnqueueBounded DEF Enqueue, Inserts
  <1>3. ASSUME EnqueueFresh PROVE QueueBounded'
    BY <1>1, <1>2, <1>3 DEF EnqueueFresh
  <1>4. ASSUME NoteConnected \/ NoteDisconnected PROVE QueueBounded'
    BY <1>1, <1>3, <1>4 DEF NoteConnected, NoteDisconnected
  <1>5. ASSUME NEW e \in Events, MarkDelivered(e) PROVE QueueBounded'
    <2>1. queued' \subseteq queued /\ cut' = cut
      BY <1>5 DEF MarkDelivered, Keep, queued
    <2> QED
      BY <1>0, <2>1, ShrinkBounded
  <1>6. ASSUME NEW e \in Events, NEW n, MarkFailed(e, n) PROVE QueueBounded'
    <2>1. queued' \subseteq queued /\ cut' = cut
      BY <1>6 DEF MarkFailed, Discard, Reschedule, Keep, queued
    <2> QED
      BY <1>0, <2>1, ShrinkBounded
  <1>7. CASE AgentTasks
    BY <1>1, <1>2, <1>3, <1>4, <1>7
    DEF AgentTasks, Start, Occur, Register, RegisterFails, HeartbeatOk, HeartbeatFails,
        HeartbeatNotFound, LockClient, Reregister, Crash, Inserts
  <1>8. CASE DeliveryLoop
    <2>1. ASSUME NEW e \in Events, Mark(e) \/ MarkErrors(e) PROVE QueueBounded'
      BY <1>1, <1>5, <1>6, <2>1 DEF Mark, MarkErrors
    <2> QED
      BY <1>1, <1>4, <1>8, <2>1
      DEF DeliveryLoop, TakeBatch, Send, ReplyError, ReplyOk, SendFails, SendTimesOut,
          SubmissionFails
  <1>9. CASE Cli
    <2>1. DeliveryInv /\ cliEvent \subseteq Events
      BY DEF DeliveryInv, TypeOK
    <2>2. CASE CliEnforce
      BY <1>0, <2>2, EnforceBounded DEF CliEnforce, QueueTypeOK, queued
    <2>3. CASE CliEnqueue \/ CliInsert
      BY <1>2, <2>3 DEF CliEnqueue, CliInsert, Inserts
    <2> QED
      BY <1>1, <1>5, <1>9, <2>1, <2>2, <2>3 DEF Cli, CliRegister, CliSend, CliReplyOk, CliGivesUp
  <1>10. CASE Controller \/ UNCHANGED vars
    BY <1>1, <1>10 DEF Controller, Serve, AdminDeletes, ControllerRestarts, vars
  <1>11. ASSUME NEW e \in Events, TimePasses(e) PROVE QueueBounded'
    <2>1. queued' \subseteq queued /\ cut' = cut
      BY <1>11 DEF TimePasses, BackoffElapses, queued
    <2> QED
      BY <1>0, <2>1, ShrinkBounded
  <1> QED
    BY <1>7, <1>8, <1>9, <1>10, <1>11 DEF Next

(***************************************************************************)
(* The table exceeds MAX_QUEUE_SIZE by no more than the rows inserted      *)
(* since enforce_max_size last ran, however many enqueues were cut short,  *)
(* in whichever process, and however far the clock was stepped back: one   *)
(* enqueue that is not cut short restores the limit.                       *)
(***************************************************************************)
THEOREM QueueStaysBounded == Spec => []QueueBounded
  <1>1. Init => QueueBounded
    <2> SUFFICES ASSUME Init PROVE QueueBounded
      OBVIOUS
    <2>1. queued = {} /\ cut = 0
      BY DEF Init, QueueInit, queued
    <2>2. Cardinality(queued) = 0
      BY <2>1, FS_EmptySet
    <2> QED
      BY <2>1, <2>2, EventQueueAssumption DEF QueueBounded
  <1> QED
    BY <1>1, NextBounded, DeliveryInvariant, PTL DEF Spec
-----------------------------------------------------------------------------
(* The refinement: every step is a step of EventLedger, or none. *)

\* The ledger as EventDelivery's variables give it.
LedgerVars == <<born, queued, recorded, expired \cup evicted, purged>>

\* enqueue reports one event, and drops what enforce_max_size discards.
LEMMA EnqueueReports ==
    ASSUME NEW e \in Events, NEW now \in Instants, Inserts(e, now),
           QueueTypeOK, queued \subseteq born, UNCHANGED <<recorded, purged>>
    PROVE  Ledger!Report
  <1>1. /\ born' = born \cup {e} /\ e \in Events \ born
        /\ queued' \subseteq queued \cup {e}
        /\ evicted' = evicted \cup ((queued \cup {e}) \ queued')
        /\ expired' = expired
    BY EnqueueEffect
  <1>2. (expired \cup evicted)' = (expired \cup evicted) \cup ((queued \cup {e}) \ queued')
    BY <1>1
  <1> QED
    BY <1>1, <1>2 DEF Ledger!Report

\* A step that may enqueue, and touches nothing of the controller's, is Report or nothing.
LEMMA FreshReports ==
    ASSUME QueueTypeOK, queued \subseteq born, UNCHANGED <<recorded, purged>>,
           EnqueueFresh \/ SomeInsert \/ UNCHANGED qvars
    PROVE  Ledger!Report \/ UNCHANGED LedgerVars
  <1>1. CASE UNCHANGED qvars
    BY <1>1 DEF LedgerVars, qvars, queued
  <1>2. CASE SomeInsert
    BY <1>2, EnqueueReports DEF SomeInsert
  <1> QED
    BY <1>1, <1>2, FreshInserts

\* mark_delivered of an event the controller knows is Deliver, or nothing when the row is gone.
LEMMA MarkDelivers ==
    ASSUME QueueTypeOK, UNCHANGED <<recorded, purged>>,
           NEW e \in Events, e \in Known, MarkDelivered(e)
    PROVE  Ledger!Deliver \/ UNCHANGED LedgerVars
  <1>1. /\ queued' = queued \ {e}
        /\ born' = born /\ expired' = expired /\ evicted' = evicted
    BY MarkDeliveredEffect
  <1>2. CASE e \in queued
    BY <1>1, <1>2 DEF Ledger!Deliver, Known
  <1>3. CASE e \notin queued
    BY <1>1, <1>3 DEF LedgerVars
  <1> QED
    BY <1>2, <1>3

\* mark_failed is Drop at the limit, and nothing before it.
LEMMA MarkDrops ==
    ASSUME UNCHANGED <<recorded, purged>>, NEW e \in Events, NEW n, MarkFailed(e, n)
    PROVE  Ledger!Drop \/ UNCHANGED LedgerVars
  <1>1. CASE Discard(e)
    <2>1. queued' = queued \ {e} /\ born' = born /\ evicted' = evicted
      BY <1>1 DEF Discard, Keep, queued
    <2>2. (expired \cup evicted)' = (expired \cup evicted) \cup ({e} \cap queued)
      BY <1>1 DEF Discard
    <2>3. CASE e \in queued
      BY <2>1, <2>2, <2>3 DEF Ledger!Drop
    <2>4. CASE e \notin queued
      BY <2>1, <2>2, <2>4 DEF LedgerVars
    <2> QED
      BY <2>3, <2>4
  <1>2. CASE Reschedule(e, n + 1)
    BY <1>2 DEF Reschedule, LedgerVars, queued
  <1> QED
    BY <1>1, <1>2 DEF MarkFailed

\* The agent's tasks report, or do nothing the ledger sees.
LEMMA AgentTasksLedger ==
    ASSUME DeliveryInv, AgentTasks PROVE Ledger!Report \/ UNCHANGED LedgerVars
  <1>1. UNCHANGED <<recorded, purged>>
    BY DEF AgentTasks, Start, Occur, Register, RegisterFails, HeartbeatOk, HeartbeatFails,
           HeartbeatNotFound, LockClient, Reregister, Crash, RegisterDevice, ivars, hvars
  <1>2. EnqueueFresh \/ SomeInsert \/ UNCHANGED qvars
    BY DEF AgentTasks, Start, Occur, Register, RegisterFails, HeartbeatOk, HeartbeatFails,
           HeartbeatNotFound, LockClient, Reregister, Crash, NoteConnected, NoteDisconnected,
           SomeInsert, Inserts, Enqueue
  <1> QED
    BY <1>1, <1>2, FreshReports DEF DeliveryInv, TypeOK, InFlightIsBorn

\* The delivery loop reports, closes what the controller knows, or drops.
LEMMA DeliveryLoopLedger ==
    ASSUME DeliveryInv, DeliveryLoop
    PROVE  Ledger!Report \/ Ledger!Deliver \/ Ledger!Drop \/ UNCHANGED LedgerVars
  <1>0. QueueTypeOK /\ queued \subseteq born
    BY DEF DeliveryInv, TypeOK, InFlightIsBorn
  <1>1. UNCHANGED <<recorded, purged>>
    BY DEF DeliveryLoop, TakeBatch, Send, ReplyError, ReplyOk, SendFails, SendTimesOut,
           SubmissionFails, Arrive, Finish, Mark, MarkErrors, Marked, ivars, hvars
  <1>2. CASE \E e \in Events : Mark(e)
    <2>1. PICK e \in Events : Mark(e)
      BY <1>2
    <2>2. phase = "marking" /\ e \in DOMAIN batch
      BY <2>1 DEF Mark, Marked
    <2>3. CASE accepted
      <3>1. e \in Known /\ MarkDelivered(e)
        BY <2>1, <2>2, <2>3 DEF DeliveryInv, Mark
      <3> QED
        BY <1>0, <1>1, <3>1, MarkDelivers
    <2>4. CASE ~accepted
      BY <1>1, <2>1, <2>4, MarkDrops DEF Mark
    <2> QED
      BY <2>3, <2>4
  <1>3. CASE ~\E e \in Events : Mark(e)
    <2>1. EnqueueFresh \/ UNCHANGED qvars
      BY <1>3 DEF DeliveryLoop, TakeBatch, Send, ReplyError, ReplyOk, SendFails, SendTimesOut,
                  SubmissionFails, MarkErrors, NoteConnected, NoteDisconnected
    <2> QED
      BY <1>0, <1>1, <2>1, FreshReports
  <1> QED
    BY <1>2, <1>3

\* The test-event command reports, evicts, or closes the event it was told the controller has.
LEMMA CliLedger ==
    ASSUME DeliveryInv, Cli
    PROVE  Ledger!Report \/ Ledger!Deliver \/ Ledger!Drop \/ UNCHANGED LedgerVars
  <1>0. QueueTypeOK /\ queued \subseteq born
    BY DEF DeliveryInv, TypeOK, InFlightIsBorn
  <1>1. UNCHANGED <<recorded, purged>>
    BY DEF Cli, CliEnqueue, CliInsert, CliEnforce, CliRegister, CliSend, CliReplyOk, CliGivesUp, Arrive, Finish,
           RegisterDevice, ivars, hvars
  <1>2. CASE \E h \in Handlers : CliReplyOk(h)
    <2>1. PICK h \in Handlers : CliReplyOk(h)
      BY <1>2
    <2>2. handler[h].client = "cli" /\ handler[h].done = handler[h].events
      BY <2>1 DEF CliReplyOk, AnswersOk
    <2>3. handler[h].events = cliEvent /\ cliEvent \subseteq Known /\ cliEvent \subseteq Events
      BY <2>2 DEF DeliveryInv, HandlerSound, CliMatches, TypeOK
    <2>4. PICK e \in cliEvent : MarkDelivered(e)
      BY <2>1 DEF CliReplyOk
    <2> QED
      BY <1>0, <1>1, <2>3, <2>4, MarkDelivers
  <1>3. CASE CliEnforce
    <2>1. born' = born /\ expired' = expired /\ EnforceMaxSize(rows)
      BY <1>3 DEF CliEnforce
    <2>2. queued' \subseteq queued /\ evicted' = evicted \cup (queued \ queued')
      BY <1>0, <2>1, EnforceEffect DEF QueueTypeOK, queued
    <2>3. (expired \cup evicted)' = (expired \cup evicted) \cup (queued \ queued')
      BY <2>1, <2>2
    <2> QED
      BY <1>1, <2>1, <2>2, <2>3 DEF Ledger!Drop
  <1>4. CASE ~CliEnforce /\ ~\E h \in Handlers : CliReplyOk(h)
    <2>1. SomeInsert \/ UNCHANGED qvars
      BY <1>4
      DEF Cli, CliEnqueue, CliInsert, CliRegister, CliSend, CliGivesUp, SomeInsert, Inserts
    <2> QED
      BY <1>0, <1>1, <2>1, FreshReports
  <1> QED
    BY <1>2, <1>3, <1>4

\* The controller stores an event that was reported, or forgets the device.
LEMMA ControllerLedger ==
    ASSUME DeliveryInv, Controller
    PROVE  Ledger!Store \/ Ledger!Forget \/ UNCHANGED LedgerVars
  <1>1. ASSUME NEW h \in Handlers, Serve(h) PROVE Ledger!Store \/ UNCHANGED LedgerVars
    <2>1. UNCHANGED <<born, queued, expired \cup evicted, purged>>
      BY <1>1 DEF Serve, qvars, hvars, queued
    <2>2. CASE InsertItem(h)
      <3>1. PICK e \in handler[h].events : handler[h].cur = {e}
        BY <2>2 DEF InsertItem, DeliveryInv, HandlerSound
      <3>2. e \in born \ recorded /\ recorded' = recorded \cup {e}
        BY <2>2, <3>1 DEF InsertItem, DeliveryInv, InFlightIsBorn
      <3> QED
        BY <2>1, <3>2 DEF Ledger!Store
    <2>3. CASE ~InsertItem(h)
      <3>1. recorded' = recorded
        BY <1>1, <2>3 DEF Serve, CheckDevice, CheckItem, InsertConflicts, FinishUnread, Finish
      <3> QED
        BY <2>1, <3>1 DEF LedgerVars
    <2> QED
      BY <2>2, <2>3
  <1>2. CASE AdminDeletes
    BY <1>2 DEF AdminDeletes, DeleteDevice, qvars, queued, Ledger!Forget
  <1>3. CASE ControllerRestarts
    BY <1>3 DEF ControllerRestarts, RestartController, qvars, queued, LedgerVars
  <1> QED
    BY <1>1, <1>2, <1>3 DEF Controller

(***************************************************************************)
(* The delivery of events implements EventLedger: what deliver_due_batch,  *)
(* mark_delivered, mark_failed, enqueue and EventService.submit do, in any *)
(* order and with any faults, is a step of the ledger or no step of it.    *)
(***************************************************************************)
THEOREM ImplementsLedger == Spec => KeepsLedger
  <1>1. Init => Ledger!Init
    <2> SUFFICES ASSUME Init PROVE Ledger!Init
      OBVIOUS
    <2>1. queued = {}
      BY DEF Init, QueueInit, queued
    <2>2. expired \cup evicted = {}
      BY DEF Init, QueueInit
    <2> QED
      BY <2>1, <2>2 DEF Init, QueueInit, IngestInit, Ledger!Init
  <1>2. ASSUME DeliveryInv, [Next]_vars PROVE [Ledger!Next]_(Ledger!lvars)
    <2>1. UNCHANGED LedgerVars => UNCHANGED Ledger!lvars
      BY DEF LedgerVars, Ledger!lvars
    <2>2. CASE UNCHANGED vars \/ \E e \in Events : TimePasses(e)
      <3>1. QueueTypeOK
        BY <1>2 DEF DeliveryInv, TypeOK
      <3>2. UNCHANGED LedgerVars
        BY <2>2, <3>1, BackoffEffect
        DEF TimePasses, vars, qvars, ivars, hvars, queued, LedgerVars
      <3> QED
        BY <2>1, <3>2
    <2> QED
      BY <1>2, <2>1, <2>2, AgentTasksLedger, DeliveryLoopLedger, CliLedger, ControllerLedger
      DEF Next, Ledger!Next
  <1> QED
    BY <1>1, <1>2, DeliveryInvariant, PTL DEF Spec, KeepsLedger, Ledger!Spec
=============================================================================
