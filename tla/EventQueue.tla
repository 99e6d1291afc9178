----------------------------- MODULE EventQueue -----------------------------
(***************************************************************************)
(* The agent's durable event queue: the SQLite table event_queue of        *)
(* agent/src/queue.rs, opened by the agent service and by the              *)
(* `timelord-agent test-event` command.                                    *)
(*                                                                         *)
(* The table is the partial function rows, keyed by event id.  The column  *)
(* id is AUTOINCREMENT and event_id is UNIQUE, so neither is ever reused   *)
(* and each names the same row: one key stands for both.  The column       *)
(* next_attempt_at is kept as what due_batch asks of it, whether it has    *)
(* passed (due); created_at is kept, because it is the system clock's      *)
(* reading and the clock can be stepped back.                              *)
(*                                                                         *)
(* Each operator below is the part of a step that touches the queue; the   *)
(* modules that use it say what happens to the rest of the system.         *)
(***************************************************************************)
EXTENDS Integers, FiniteSets, EventIds

CONSTANTS Instants,     \* the readings the system clock can show
          MaxAttempts,  \* failed attempts after which a row is discarded (48)
          QueueCap,     \* rows the table may hold (5000)
          BatchSize,    \* rows submitted in one request (100)
          MaxFaults     \* bound on crashes, restarts, deletions, SQLite errors, overtakings

ASSUME EventQueueAssumption ==
    /\ Instants \subseteq Nat
    /\ Instants # {}
    /\ MaxAttempts \in Nat \ {0}
    /\ QueueCap \in Nat \ {0}
    /\ BatchSize \in Nat \ {0}
    /\ MaxFaults \in Nat

VARIABLES rows,     \* event id -> row, for the events in the table
          born,     \* history: events that were ever enqueued
          acked,    \* history: rows deleted on the controller's word
          expired,  \* history: rows discarded after MaxAttempts failures
          evicted,  \* history: rows discarded to respect QueueCap
          cut,      \* history: rows inserted since enforce_max_size last ran
          faults    \* faults so far, counted by the module that uses the queue

qvars == <<rows, born, acked, expired, evicted, cut>>

queued == DOMAIN rows

Row == [attempt : 0 .. (MaxAttempts - 1), createdAt : Instants, due : BOOLEAN]

(***************************************************************************)
(* The first n of the rows of table r, restricted to the keys S, in the    *)
(* order ORDER BY created_at ASC: every choice the ties leave open.        *)
(***************************************************************************)
Oldest(r, S, n) ==
    {V \in SUBSET S : /\ Cardinality(V) = n
                      /\ \A v \in V, u \in S \ V : r[v].createdAt =< r[u].createdAt}

Keep(r, S) == [e \in S |-> r[e]]

Smaller(a, b) == IF a < b THEN a ELSE b

Due == {e \in queued : rows[e].due}

QueueInit ==
    /\ rows = [e \in {} |-> 0]
    /\ born = {}
    /\ acked = {}
    /\ expired = {}
    /\ evicted = {}
    /\ cut = 0

\* The table after enqueue's INSERT: attempt_count 0, next_attempt_at = created_at = now.
WithRow(e, now) ==
    [x \in queued \cup {e} |->
        IF x = e THEN [attempt |-> 0, createdAt |-> now, due |-> TRUE] ELSE rows[x]]

\* An event id is new: Uuid::new_v4.
Reported(e) ==
    /\ e \notin born
    /\ born' = born \cup {e}
    /\ UNCHANGED <<acked, expired>>

\* Mutant: enforce_max_size makes room for the row just inserted and no more.
MutOverflow(n) == IF n > QueueCap THEN 1 ELSE 0

Overflow(n) == IF n > QueueCap THEN n - QueueCap ELSE 0

(***************************************************************************)
(* enforce_max_size on the table t.  The row just inserted is itself       *)
(* discarded when the clock has been stepped back behind every other row.  *)
(***************************************************************************)
EnforceMaxSize(t) ==
    /\ \E discarded \in Oldest(t, DOMAIN t, Overflow(Cardinality(DOMAIN t))) :
          /\ rows' = Keep(t, DOMAIN t \ discarded)
          /\ evicted' = evicted \cup discarded
    /\ cut' = 0

(***************************************************************************)
(* The INSERT of enqueue alone, a transaction of its own: the row stays    *)
(* when the process ends before enforce_max_size, or enforce_max_size      *)
(* fails.                                                                  *)
(***************************************************************************)
InsertOnly(e, now) ==
    /\ Reported(e)
    /\ rows' = WithRow(e, now)
    /\ cut' = cut + 1
    /\ UNCHANGED evicted

\* enqueue, both statements.
InsertAndEnforce(e, now) == Reported(e) /\ EnforceMaxSize(WithRow(e, now))

(* enqueue by the agent, whose tasks keep the queue to themselves with a    *)
(* mutex.  enforce_max_size may fail (SQLITE_BUSY, a full disk); the bound  *)
(* on faults covers the failures that are not made good yet.                *)
Enqueue(e, now) ==
    \/ InsertAndEnforce(e, now)
    \/ faults + cut < MaxFaults /\ InsertOnly(e, now)

(* The pool of ids is the model's bound: once it is spent the agent reports *)
(* nothing more.                                                            *)
EnqueueFresh ==
    \/ \E e \in Events \ born, now \in Instants : Enqueue(e, now)
    \/ born = Events /\ UNCHANGED qvars

\* The batches due_batch may return.
DueBatch == Oldest(rows, Due, Smaller(BatchSize, Cardinality(Due)))

\* mark_delivered, mark_delivered_by_event_id: a no-op when the row is gone.
MarkDelivered(e) ==
    /\ rows' = Keep(rows, queued \ {e})
    /\ acked' = acked \cup ({e} \cap queued)
    /\ UNCHANGED <<born, expired, evicted, cut>>

Reschedule(e, n) ==
    /\ rows' = [x \in queued |->
                   IF x = e THEN [rows[x] EXCEPT !.attempt = n, !.due = FALSE] ELSE rows[x]]
    /\ UNCHANGED <<born, acked, expired, evicted, cut>>

Discard(e) ==
    /\ rows' = Keep(rows, queued \ {e})
    /\ expired' = expired \cup ({e} \cap queued)
    /\ UNCHANGED <<born, acked, evicted, cut>>

\* Mutants of mark_failed: > for >=, the limit reached one attempt early, no limit at all.
MutMarkFailedLate(e, n) == IF n + 1 > MaxAttempts THEN Discard(e) ELSE Reschedule(e, n + 1)
MutMarkFailedEarly(e, n) == IF n + 2 >= MaxAttempts THEN Discard(e) ELSE Reschedule(e, n + 1)
MutMarkFailedForever(e, n) == Reschedule(e, Smaller(n + 1, MaxAttempts - 1))

(* mark_failed: n is the attempt count read when the batch was taken.  Both *)
(* statements are no-ops when the row is gone.                              *)
MarkFailed(e, n) == IF n + 1 >= MaxAttempts THEN Discard(e) ELSE Reschedule(e, n + 1)

\* The delay of backoff_delay has passed: next_attempt_at <= now.
BackoffElapses(e) ==
    /\ e \in queued
    /\ ~rows[e].due
    /\ rows' = [rows EXCEPT ![e].due = TRUE]
    /\ UNCHANGED <<born, acked, expired, evicted, cut>>

QueueTypeOK ==
    /\ queued \subseteq Events
    /\ rows \in [queued -> Row]
    /\ born \subseteq Events
    /\ acked \subseteq Events
    /\ expired \subseteq Events
    /\ evicted \subseteq Events
    /\ cut \in Nat
=============================================================================
