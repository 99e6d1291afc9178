----------------------------- MODULE EventIngest -----------------------------
(***************************************************************************)
(* The controller's side of event submission for one device:               *)
(* AgentController.events -> EventService.submit ->                        *)
(* DeviceEventWriter.insertIfAbsent, the tables device and device_event,   *)
(* device registration and device deletion.                                *)
(*                                                                         *)
(* A request is served by one of the controller's threads (a handler).     *)
(* Every item is written in a transaction of its own, in which the         *)
(* existence check and the insert are separate statements: another thread, *)
(* serving a resubmission of the same events, can run between them.        *)
(***************************************************************************)
EXTENDS EventIds

CONSTANT Handlers    \* the threads that serve submissions

VARIABLES registered,  \* is the device's row in table device?
          recorded,    \* the ids in table device_event
          handler      \* handler -> the request it serves

ivars == <<registered, recorded, handler>>

Clients == {"loop", "cli", "gone"}

(***************************************************************************)
(* check:  before the existsById(deviceId) test of EventService.submit     *)
(* loop:   between two items; done holds the items with a result           *)
(* insert: cur passed existsById(eventId) and is about to be inserted      *)
(* error:  the request has failed and answers with an error status         *)
(***************************************************************************)
HandlerStates == {"free", "check", "loop", "insert", "error"}

Request == [st : HandlerStates, client : Clients, events : SUBSET Events,
            done : SUBSET Events, cur : SUBSET Events]

Free == [st |-> "free", client |-> "gone", events |-> {}, done |-> {}, cur |-> {}]

IngestInit ==
    /\ registered = FALSE
    /\ recorded = {}
    /\ handler = [h \in Handlers |-> Free]

Arrive(h, c, batch) ==
    /\ handler[h] = Free
    /\ handler' = [handler EXCEPT ![h] = [st |-> "check", client |-> c, events |-> batch,
                                          done |-> {}, cur |-> {}]]
    /\ UNCHANGED <<registered, recorded>>

\* 404 DEVICE_NOT_FOUND, or on to the items.
CheckDevice(h) ==
    /\ handler[h].st = "check"
    /\ handler' = [handler EXCEPT ![h].st = IF registered THEN "loop" ELSE "error"]
    /\ UNCHANGED <<registered, recorded>>

\* existsById(eventId): a recorded id is a DUPLICATE, any other goes on to the insert.
CheckItem(h, e) ==
    /\ handler[h].st = "loop"
    /\ e \in handler[h].events \ handler[h].done
    /\ handler' = IF e \in recorded
                  THEN [handler EXCEPT ![h].done = @ \cup {e}]
                  ELSE [handler EXCEPT ![h].st = "insert", ![h].cur = {e}]
    /\ UNCHANGED <<registered, recorded>>

\* saveAndFlush succeeds: ACCEPTED.
InsertItem(h) ==
    /\ handler[h].st = "insert"
    /\ registered
    /\ handler[h].cur \cap recorded = {}
    /\ recorded' = recorded \cup handler[h].cur
    /\ handler' = [handler EXCEPT ![h].st = "loop", ![h].done = @ \cup handler[h].cur,
                                  ![h].cur = {}]
    /\ UNCHANGED registered

(***************************************************************************)
(* saveAndFlush raises DataIntegrityViolationException: another handler    *)
(* has inserted the id, or the device's row is gone (foreign key).  The    *)
(* catch clause answers DUPLICATE; but the exception has crossed           *)
(* saveAndFlush's own transactional proxy, which marks the joined          *)
(* transaction rollback-only, so the commit on leaving insertIfAbsent may  *)
(* raise in turn and fail the request.  Either outcome is allowed here.    *)
(***************************************************************************)
InsertConflicts(h) ==
    /\ handler[h].st = "insert"
    /\ ~registered \/ handler[h].cur \cap recorded # {}
    /\ \/ handler' = [handler EXCEPT ![h].st = "loop", ![h].done = @ \cup handler[h].cur,
                                     ![h].cur = {}]
       \/ handler' = [handler EXCEPT ![h].st = "error", ![h].cur = {}]
    /\ UNCHANGED <<registered, recorded>>

\* The response of submit: a result (ACCEPTED or DUPLICATE) for every item ...
AnswersOk(h) == handler[h].st = "loop" /\ handler[h].done = handler[h].events

\* ... or an error status.
AnswersError(h) == handler[h].st = "error"

\* The client has the response, or nobody waits for it any more.
Finish(h) ==
    /\ handler' = [handler EXCEPT ![h] = Free]
    /\ UNCHANGED <<registered, recorded>>

\* Mutant: the answer to a request given up on is still read.
MutDisown(c) == UNCHANGED handler

\* Client c no longer waits (a timeout, a crash): its request is served to the end.
Disown(c) ==
    handler' = [h \in Handlers |->
                   IF handler[h].client = c THEN [handler[h] EXCEPT !.client = "gone"]
                                            ELSE handler[h]]

FinishUnread(h) ==
    /\ handler[h].client = "gone"
    /\ AnswersOk(h) \/ AnswersError(h)
    /\ Finish(h)

\* DeviceService.register: the device's row is there afterwards, new or updated.
RegisterDevice ==
    /\ registered' = TRUE
    /\ UNCHANGED <<recorded, handler>>

\* DeviceService.delete: the device, its events and its heartbeats, in one transaction.
DeleteDevice ==
    /\ registered
    /\ registered' = FALSE
    /\ recorded' = {}
    /\ UNCHANGED handler

\* The controller stops and starts again: threads are lost, tables are not.
RestartController ==
    /\ handler' = [h \in Handlers |-> Free]
    /\ UNCHANGED <<registered, recorded>>

IngestTypeOK ==
    /\ registered \in BOOLEAN
    /\ recorded \subseteq Events
    /\ handler \in [Handlers -> Request]
=============================================================================
