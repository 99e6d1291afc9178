------------------------ MODULE MessageDeliveryProofs ------------------------
(***************************************************************************)
(* Proofs about MessageDelivery for any messages, lives, clocks and faults.*)
(*                                                                         *)
(* CursorIsHonest: a cursor is the seq of a committed message, so a        *)
(* message that commits at or below it is overtaken by that one (Origin);  *)
(* and an answer under way is complete up to its last message (Complete),  *)
(* so applying it leaves no gap.                                           *)
(*                                                                         *)
(* ShownOnce: a message shown, unless it has expired on the agent's clock, *)
(* is still in messages.json and still remembered by the notifier, in      *)
(* memory or on disk (Remembered); while nothing disturbs the agent, its   *)
(* memory is its file and its clock does not go back.                      *)
(***************************************************************************)
EXTENDS MessageDelivery, TLAPS

\* seq is drawn once, in order.
Numbered ==
    /\ \A m \in Messages : tx[m] # "unsent" => 1 =< seq[m] /\ seq[m] =< last
    /\ \A m, n \in Messages : tx[m] # "unsent" /\ tx[n] # "unsent" /\ m # n => seq[m] # seq[n]

Origin(c) == c = 0 \/ \E m \in Committed : c = seq[m]

\* The answer under way has every message up to its last one.
Complete ==
    \A m \in Committed \ overtaken : \A g \in req.got :
        cursor < seq[m] /\ seq[m] =< seq[g] => m \in req.got \/ expires[m] =< now

Exchange ==
    /\ req.got \subseteq Committed
    /\ req.st # "reply" => req.got = {}
    /\ req.st # "idle" => agent = "up" /\ req.after = cursor
    /\ Complete

Kept ==
    /\ held \subseteq Committed
    /\ saved.held \subseteq Committed
    /\ Origin(cursor)
    /\ Origin(saved.cursor)

\* Agent and notifier still know of a message that was shown.
Remembered(m) ==
    \/ expires[m] =< AgentNow
    \/ /\ m \in saved.held
       /\ notifier = "on" => m \in shown /\ (dirty \/ m \in file)
       /\ notifier = "off" => m \in file

ShownState ==
    /\ \A m \in Messages : times[m] > 0 => m \in Committed
    /\ ~disturbed => /\ agent = "up" => held = saved.held
                     /\ \A m \in Messages \ unsaved :
                          times[m] =< 1 /\ (times[m] = 1 => Remembered(m))

MInv == TypeOK /\ Numbered /\ Exchange /\ Kept /\ CursorIsHonest /\ ShownState

-----------------------------------------------------------------------------
(* The controller's steps *)

\* A message inserted by send draws a number no other has; nothing else changes.
LEMMA InsertInv ==
  ASSUME MInv, NEW m \in Messages, NEW life \in 1 .. MaxLife, Insert(m, life)
  PROVE  MInv'
  <1> USE MessageDeliveryAssumption DEF MInv
  <1>1. /\ UNCHANGED <<wake, req, net, agent, cursor, held, saved, notifier, shown, file, dirty>>
        /\ UNCHANGED <<times, now, ahead, faults, overtaken, lapsed, unsaved, disturbed>>
        /\ tx[m] = "unsent" /\ last' = last + 1
    BY DEF Insert, storevars, nvars, clocks, hvars
  <1>2. /\ tx' \in [Messages -> {"unsent", "inserted", "committed", "aborted"}]
        /\ seq' \in [Messages -> Nat] /\ expires' \in [Messages -> Nat]
    BY DEF Insert, TypeOK
  <1>3. /\ tx'[m] = "inserted" /\ seq'[m] = last + 1
        /\ \A n \in Messages \ {m} : tx'[n] = tx[n] /\ seq'[n] = seq[n] /\ expires'[n] = expires[n]
    BY DEF Insert, TypeOK
  <1>4. Committed' = Committed /\ m \notin Committed
    BY <1>1, <1>3 DEF Committed, TypeOK
  <1>5. \A n \in Committed : n # m /\ seq'[n] = seq[n] /\ expires'[n] = expires[n]
    BY <1>3, <1>4 DEF Committed
  <1>6. TypeOK'
    BY <1>1, <1>2, <1>4 DEF TypeOK
  <1>7. Numbered'
    BY <1>1, <1>3 DEF Numbered, TypeOK
  <1>8. Exchange'
    <2>1. \A g \in req.got : g \in Committed
      BY DEF Exchange
    <2>2. Complete'
      BY <1>1, <1>4, <1>5, <2>1 DEF Complete, Exchange
    <2> QED
      BY <1>1, <1>4, <2>2 DEF Exchange
  <1>9. Kept'
    BY <1>1, <1>4, <1>5 DEF Kept, Origin
  <1>10. CursorIsHonest'
    BY <1>1, <1>4, <1>5 DEF CursorIsHonest, Honest
  <1>11. ShownState'
    <2>1. \A n \in Messages : times[n] = 1 => n # m
      BY <1>4 DEF ShownState
    <2>2. \A n \in Messages \ {m} : Remembered(n) => Remembered(n)'
      BY <1>1, <1>3 DEF Remembered, AgentNow
    <2> QED
      BY <1>1, <1>4, <2>1, <2>2 DEF ShownState
  <1> QED
    BY <1>6, <1>7, <1>8, <1>9, <1>10, <1>11

\* A message that commits below a cursor, or below a message of the answer under way, is overtaken.
LEMMA CommitInv ==
  ASSUME MInv, NEW m \in Messages, Commit(m)
  PROVE  MInv'
  <1> USE DEF MInv
  <1>1. /\ UNCHANGED <<seq, last, expires, req, net, agent, cursor, held, saved, notifier, shown>>
        /\ UNCHANGED <<file, dirty, times, now, ahead, faults, lapsed, unsaved, disturbed>>
        /\ tx[m] = "inserted" /\ wake' = wake \cup {m}
    BY DEF Commit, storevars, nvars, clocks
  <1>2. tx' \in [Messages -> {"unsent", "inserted", "committed", "aborted"}]
    BY DEF Commit, TypeOK
  <1>3. tx'[m] = "committed" /\ \A n \in Messages \ {m} : tx'[n] = tx[n]
    BY DEF Commit, TypeOK
  <1>4. Committed' = Committed \cup {m} /\ m \notin Committed
    BY <1>1, <1>3 DEF Committed
  <1>5. overtaken \subseteq overtaken' /\ overtaken' \subseteq overtaken \cup {m}
    BY DEF Commit
  <1>6. \A c \in Committed : seq[c] >= seq[m] => m \in overtaken'
    <2>1. SUFFICES ASSUME NEW c \in Committed, seq[c] >= seq[m] PROVE m \in overtaken'
      OBVIOUS
    <2>2. seq[c] # seq[m] /\ seq[c] \in Nat /\ seq[m] \in Nat
      BY <1>1, <1>4 DEF Numbered, Committed, TypeOK
    <2> QED
      BY <2>1, <2>2 DEF Commit
  <1>7. TypeOK'
    BY <1>1, <1>2, <1>4, <1>5 DEF TypeOK
  <1>8. Numbered'
    BY <1>1, <1>3 DEF Numbered
  <1>9. Exchange'
    <2>1. \A g \in req.got : seq[m] =< seq[g] => m \in overtaken'
      BY <1>6 DEF Exchange, Committed, TypeOK
    <2>2. Complete'
      BY <1>1, <1>4, <1>5, <2>1 DEF Exchange, Complete
    <2> QED
      BY <1>1, <1>4, <2>2 DEF Exchange
  <1>10. Kept'
    BY <1>1, <1>4 DEF Kept, Origin
  <1>11. \A c \in Nat : Origin(c) /\ seq[m] =< c => m \in overtaken'
    BY <1>1, <1>6 DEF Origin, Numbered, TypeOK
  <1>12. CursorIsHonest'
    <2>1. SUFFICES ASSUME NEW n \in Committed' \ overtaken'
                   PROVE  /\ agent = "up" => Honest(cursor, held, n)
                          /\ Honest(saved.cursor, saved.held, n)
      BY <1>1 DEF CursorIsHonest, Honest
    <2>2. cursor \in Nat /\ saved.cursor \in Nat /\ Origin(cursor) /\ Origin(saved.cursor)
      BY DEF TypeOK, Store, Kept
    <2>3. CASE n = m
      BY <1>11, <2>1, <2>2, <2>3 DEF Honest
    <2>4. CASE n # m
      BY <1>4, <1>5, <2>1, <2>4 DEF CursorIsHonest
    <2> QED
      BY <2>3, <2>4
  <1>13. ShownState'
    <2>1. \A n \in Messages : Remembered(n) => Remembered(n)'
      BY <1>1 DEF Remembered, AgentNow
    <2> QED
      BY <1>1, <1>4, <2>1 DEF ShownState
  <1> QED
    BY <1>7, <1>8, <1>9, <1>10, <1>12, <1>13

\* Transactions that end without a message: committed messages and all else stay.
LEMMA AbortInv ==
  ASSUME MInv, (\E m \in Messages : Rollback(m)) \/ ControllerRestarts
  PROVE  MInv'
  <1> USE MessageDeliveryAssumption DEF MInv
  <1>1. /\ UNCHANGED <<seq, last, expires, net, agent, cursor, held, saved, notifier, shown>>
        /\ UNCHANGED <<file, dirty, times, now, ahead, overtaken, lapsed, unsaved, disturbed>>
    BY DEF Rollback, ControllerRestarts, storevars, nvars, clocks, hvars
  <1>2. /\ tx' \in [Messages -> {"unsent", "inserted", "committed", "aborted"}]
        /\ \A m \in Messages : tx'[m] = tx[m] \/ (tx[m] = "inserted" /\ tx'[m] = "aborted")
    <2>1. tx \in [Messages -> {"unsent", "inserted", "committed", "aborted"}]
      BY DEF TypeOK
    <2>2. CASE \E m \in Messages : Rollback(m)
      <3>1. PICK m \in Messages : Rollback(m)
        BY <2>2
      <3>2. tx[m] = "inserted" /\ tx' = [tx EXCEPT ![m] = "aborted"]
        BY <3>1 DEF Rollback
      <3> QED
        BY <2>1, <3>2
    <2>3. CASE ControllerRestarts
      <3>1. tx' = [m \in Messages |-> IF tx[m] = "inserted" THEN "aborted" ELSE tx[m]]
        BY <2>3 DEF ControllerRestarts
      <3> QED
        BY <2>1, <3>1
    <2> QED
      BY <2>2, <2>3
  <1>3. wake' \subseteq wake /\ (req' = req \/ req' = Quiet) /\ faults' \in 0 .. MaxFaults
    BY DEF Rollback, ControllerRestarts, Fault, TypeOK
  <1>4. Committed' = Committed
    BY <1>2 DEF Committed
  <1>5. TypeOK'
    <2>1. req' \in Request
      BY <1>3 DEF TypeOK, Quiet, Request, Progress
    <2> QED
      BY <1>1, <1>2, <1>3, <1>4, <2>1 DEF TypeOK
  <1>6. Numbered'
    BY <1>1, <1>2 DEF Numbered
  <1>7. Exchange'
    <2>1. CASE req' = req
      BY <1>1, <1>4, <2>1 DEF Exchange, Complete
    <2>2. CASE req' = Quiet
      BY <1>1, <1>4, <2>2 DEF Exchange, Complete, Quiet
    <2> QED
      BY <1>3, <2>1, <2>2
  <1>8. Kept'
    BY <1>1, <1>4 DEF Kept, Origin
  <1>9. CursorIsHonest'
    BY <1>1, <1>4 DEF CursorIsHonest, Honest
  <1>10. ShownState'
    <2>1. \A n \in Messages : Remembered(n) => Remembered(n)'
      BY <1>1 DEF Remembered, AgentNow
    <2> QED
      BY <1>1, <1>4, <2>1 DEF ShownState
  <1> QED
    BY <1>5, <1>6, <1>7, <1>8, <1>9, <1>10

\* The steps of the exchange before its answer is applied.
LEMMA ExchangeInv ==
  ASSUME MInv, Serve \/ Park \/ PollTimesOut \/ (\E m \in Messages : Wake(m)) \/ Poll \/ Lose
  PROVE  MInv'
  <1> USE DEF MInv
  <1>1. /\ UNCHANGED <<tx, seq, last, expires, net, agent, cursor, held, saved, notifier, shown>>
        /\ UNCHANGED <<file, dirty, times, now, ahead, faults, overtaken, lapsed, unsaved, disturbed>>
        /\ wake' \subseteq wake
    BY DEF Serve, Park, PollTimesOut, Wake, Poll, Lose, rowvars, storevars, nvars, clocks, hvars
  <1>2. Committed' = Committed /\ Committed \subseteq Messages
    BY <1>1 DEF Committed
  <1>3. Pending(req.after) \subseteq Committed
    BY DEF Pending
  <1>4. \/ req' = req \/ req' = Quiet
        \/ req.st \in {"asked", "checked"} /\ req' = [req EXCEPT !.st = "checked"]
        \/ req.st \in {"asked", "checked"} /\ req' = [req EXCEPT !.st = "parked"]
        \/ req.st \in {"asked", "checked"} /\ req' = [req EXCEPT !.st = "unheard"]
        \/ req.st # "idle" /\ req' = [req EXCEPT !.st = "reply", !.got = {}]
        \/ req.st # "idle" /\ req' = [req EXCEPT !.st = "reply", !.got = Pending(req.after)]
        \/ agent = "up" /\ req' = [Quiet EXCEPT !.st = "asked", !.after = cursor]
    BY DEF Serve, Park, PollTimesOut, Wake, Poll, Lose, Answer
  <1>5. req \in Request /\ cursor \in Nat
    BY DEF TypeOK
  <1>6. req' \in Request
    <2>1. /\ Quiet \in Request
          /\ [Quiet EXCEPT !.st = "asked", !.after = cursor] \in Request
      BY <1>5 DEF Request, Quiet, Progress
    <2>2. /\ [req EXCEPT !.st = "checked"] \in Request
          /\ [req EXCEPT !.st = "parked"] \in Request
          /\ [req EXCEPT !.st = "unheard"] \in Request
          /\ [req EXCEPT !.st = "reply", !.got = {}] \in Request
      BY <1>5 DEF Request, Progress
    <2>3. [req EXCEPT !.st = "reply", !.got = Pending(req.after)] \in Request
      BY <1>2, <1>3, <1>5 DEF Request, Progress
    <2> QED
      BY <1>4, <1>5, <2>1, <2>2, <2>3
  <1>7. TypeOK'
    BY <1>1, <1>2, <1>6 DEF TypeOK
  <1>8. Numbered'
    BY <1>1 DEF Numbered
  <1>9. Exchange'
    <2>1. CASE req' = req
      BY <1>1, <1>2, <2>1 DEF Exchange, Complete
    <2>2. CASE \/ req' = Quiet
               \/ agent = "up" /\ req' = [Quiet EXCEPT !.st = "asked", !.after = cursor]
      <3>1. req'.got = {} /\ (req'.st = "idle" \/ (agent' = "up" /\ req'.after = cursor'))
        <4>1. CASE req' = Quiet
          BY <4>1 DEF Quiet
        <4>2. CASE agent = "up" /\ req' = [Quiet EXCEPT !.st = "asked", !.after = cursor]
          BY <1>1, <4>2 DEF Quiet
        <4> QED
          BY <2>2, <4>1, <4>2
      <3>2. Complete'
        BY <3>1 DEF Complete
      <3> QED
        BY <3>1, <3>2 DEF Exchange
    <2>3. CASE \/ req.st \in {"asked", "checked"} /\ req' = [req EXCEPT !.st = "checked"]
               \/ req.st \in {"asked", "checked"} /\ req' = [req EXCEPT !.st = "parked"]
               \/ req.st \in {"asked", "checked"} /\ req' = [req EXCEPT !.st = "unheard"]
               \/ req.st # "idle" /\ req' = [req EXCEPT !.st = "reply", !.got = {}]
      <3>1. req'.got = {} /\ req'.after = req.after /\ req.st # "idle"
        BY <1>5, <2>3 DEF Exchange, Request
      <3> QED
        BY <1>1, <3>1 DEF Exchange, Complete
    <2>4. CASE req.st # "idle" /\ req' = [req EXCEPT !.st = "reply", !.got = Pending(req.after)]
      <3>1. /\ req'.got = Pending(req.after) /\ req'.after = req.after /\ req'.st = "reply"
            /\ req.after = cursor /\ agent = "up"
        BY <1>5, <2>4 DEF Exchange, Request
      <3>2. \A n \in Committed : cursor < seq[n] => n \in req'.got \/ expires[n] =< now
        BY <1>2, <3>1 DEF Pending, TypeOK
      <3>3. Complete'
        BY <1>1, <1>2, <3>2 DEF Complete
      <3> QED
        BY <1>1, <1>2, <1>3, <3>1, <3>3 DEF Exchange
    <2> QED
      BY <1>4, <2>1, <2>2, <2>3, <2>4
  <1>10. Kept'
    BY <1>1, <1>2 DEF Kept, Origin
  <1>11. CursorIsHonest'
    BY <1>1, <1>2 DEF CursorIsHonest, Honest
  <1>12. ShownState'
    <2>1. \A n \in Messages : Remembered(n) => Remembered(n)'
      BY <1>1 DEF Remembered, AgentNow
    <2> QED
      BY <1>1, <1>2, <2>1 DEF ShownState
  <1> QED
    BY <1>7, <1>8, <1>9, <1>10, <1>11, <1>12

-----------------------------------------------------------------------------
(* The agent's steps *)

\* Applying an answer leaves no gap: it is complete from the cursor to the new cursor.
LEMMA ReceiveInv ==
  ASSUME MInv, Receive
  PROVE  MInv'
  <1> USE MessageDeliveryAssumption DEF MInv
  <1>1. /\ UNCHANGED <<tx, seq, last, expires, wake, net, agent, notifier, shown, file, dirty>>
        /\ UNCHANGED <<times, now, ahead, overtaken, unsaved>>
        /\ req.st = "reply" /\ req' = Quiet
    BY DEF Receive, rowvars, nvars, clocks
  <1>2. agent = "up" /\ req.got \subseteq Committed /\ Complete
    BY <1>1 DEF Exchange
  <1>3. /\ cursor \in Nat /\ held \subseteq Messages /\ saved \in Store
        /\ seq \in [Messages -> Nat] /\ expires \in [Messages -> Nat]
        /\ lapsed \subseteq Messages /\ Committed \subseteq Messages
    BY DEF TypeOK, Committed
  <1>4. Committed' = Committed
    BY <1>1 DEF Committed
  <1>5. /\ cursor' = cursor \/ (\E g \in req.got : cursor' = seq[g])
        /\ cursor' >= cursor
        /\ held' = (held \cup req.got) \ Expired(held \cup req.got)
        /\ lapsed' = lapsed \cup Expired(held \cup req.got)
    BY DEF Receive, Apply
  <1>6. /\ cursor' \in Nat /\ held' \subseteq Committed /\ lapsed' \subseteq Messages
        /\ lapsed \subseteq lapsed' /\ held \cup req.got \subseteq held' \cup lapsed'
    BY <1>2, <1>3, <1>5 DEF Expired, Kept
  <1>7. \/ (UNCHANGED <<cursor, held, saved, faults, disturbed>>)
        \/ (saved' = [cursor |-> cursor', held |-> held'] /\ UNCHANGED <<faults, disturbed>>)
        \/ (saved' = saved /\ faults' \in 0 .. MaxFaults /\ disturbed')
    BY DEF Receive, storevars, Fault, TypeOK
  <1>8. TypeOK'
    <2>1. disturbed' \in BOOLEAN
      BY DEF Receive, TypeOK
    <2>2. saved' \in Store
      BY <1>3, <1>6, <1>7 DEF Store
    <2>3. req' \in Request
      BY <1>1 DEF Quiet, Request, Progress
    <2>4. faults' \in 0 .. MaxFaults
      BY <1>7 DEF TypeOK
    <2> QED
      BY <1>1, <1>3, <1>4, <1>6, <2>1, <2>2, <2>3, <2>4 DEF TypeOK
  <1>9. Numbered'
    BY <1>1 DEF Numbered
  <1>10. Exchange'
    BY <1>1 DEF Exchange, Complete, Quiet
  <1>11. Kept'
    <2>1. Origin(cursor')
      BY <1>2, <1>5 DEF Kept, Origin
    <2>2. Origin(cursor)'
      BY <1>1, <1>4, <2>1 DEF Origin
    <2>3. saved' = saved \/ saved' = [cursor |-> cursor', held |-> held']
      BY <1>7
    <2>4. CASE saved' = saved
      BY <1>1, <1>4, <1>6, <2>2, <2>4 DEF Kept, Origin
    <2>5. CASE saved' = [cursor |-> cursor', held |-> held']
      <3>1. saved'.cursor = cursor' /\ saved'.held = held'
        BY <2>5
      <3> QED
        BY <1>4, <1>6, <2>2, <3>1 DEF Kept, Origin
    <2> QED
      BY <2>3, <2>4, <2>5
  <1>12. CursorIsHonest'
    <2>1. SUFFICES ASSUME NEW n \in Committed \ overtaken
                   PROVE  Honest(cursor, held, n)' /\ Honest(saved.cursor, saved.held, n)'
      BY <1>1, <1>4 DEF CursorIsHonest
    <2>2. Honest(cursor, held, n) /\ Honest(saved.cursor, saved.held, n) /\ seq[n] \in Nat
      BY <1>2, <1>3 DEF CursorIsHonest
    <2>3. seq[n] =< cursor' => n \in held' \cup lapsed' \/ expires[n] =< now
      <3>1. CASE seq[n] =< cursor
        BY <1>6, <2>2, <3>1 DEF Honest
      <3>2. CASE cursor < seq[n] /\ seq[n] =< cursor'
        <4>1. PICK g \in req.got : cursor' = seq[g]
          BY <1>3, <1>5, <2>2, <3>2
        <4>2. n \in req.got \/ expires[n] =< now
          BY <1>2, <3>2, <4>1 DEF Complete
        <4> QED
          BY <1>6, <4>2
      <3> QED
        BY <1>3, <2>2, <3>1, <3>2
    <2>4. Honest(cursor, held, n)'
      BY <1>1, <2>3 DEF Honest
    <2>5. CASE saved' = saved
      BY <1>1, <1>6, <2>2, <2>4, <2>5 DEF Honest
    <2>6. CASE saved' = [cursor |-> cursor', held |-> held']
      <3>1. saved'.cursor = cursor' /\ saved'.held = held'
        BY <2>6
      <3> QED
        BY <1>1, <2>3, <2>4, <3>1 DEF Honest
    <2> QED
      BY <1>7, <2>5, <2>6
  <1>13. ShownState'
    <2>1. \A n \in Messages : times'[n] > 0 => n \in Committed'
      BY <1>1, <1>4 DEF ShownState
    <2>2. SUFFICES ASSUME ~disturbed'
                   PROVE  /\ held' = saved'.held
                          /\ \A n \in Messages \ unsaved' :
                               times'[n] =< 1 /\ (times'[n] = 1 => Remembered(n)')
      BY <2>1 DEF ShownState
    <2>3. ~disturbed /\ held = saved.held
      BY <1>2, <1>7, <2>2 DEF ShownState
    <2>4. held' = saved'.held
      BY <1>7, <2>2, <2>3
    <2>5. \A n \in Messages : Remembered(n) => Remembered(n)'
      <3>1. SUFFICES ASSUME NEW n \in Messages, Remembered(n), ~(expires[n] =< AgentNow)
                     PROVE  Remembered(n)'
        BY <1>1 DEF Remembered, AgentNow
      <3>2. n \in held'
        BY <1>5, <2>3, <3>1 DEF Remembered, Expired
      <3> QED
        BY <1>1, <2>4, <3>1, <3>2 DEF Remembered
    <2> QED
      BY <1>1, <2>3, <2>4, <2>5 DEF ShownState
  <1> QED
    BY <1>8, <1>9, <1>10, <1>11, <1>12, <1>13

\* A store read back from messages.json, or lost, passes no message either.
LEMMA RestartInv ==
  ASSUME MInv, AgentStarts \/ AgentEnds
  PROVE  MInv'
  <1> USE MessageDeliveryAssumption DEF MInv
  <1>1. /\ UNCHANGED <<tx, seq, last, expires, wake, net, saved, notifier, shown, file, dirty>>
        /\ UNCHANGED <<times, now, ahead, overtaken, lapsed, unsaved>>
    BY DEF AgentStarts, AgentEnds, rowvars, nvars, clocks, hvars
  <1>2. Committed' = Committed
    BY <1>1 DEF Committed
  <1>3. /\ saved \in Store /\ saved.cursor \in Nat /\ saved.held \subseteq Messages
        /\ req \in Request /\ seq \in [Messages -> Nat]
    BY DEF TypeOK, Store
  <1>4. req'.st = "idle" /\ req'.got = {} /\ req' \in Request
    <2>1. CASE AgentStarts
      <3>1. req' = req /\ agent = "down"
        BY <2>1 DEF AgentStarts
      <3> QED
        BY <1>3, <3>1 DEF Exchange
    <2>2. CASE AgentEnds
      <3>1. req' = Quiet
        BY <2>2 DEF AgentEnds
      <3> QED
        BY <3>1 DEF Quiet, Request, Progress
    <2> QED
      BY <2>1, <2>2
  <1>5. /\ agent' \in {"up", "down"} /\ faults' \in 0 .. MaxFaults
        /\ \/ cursor' = saved.cursor /\ held' = saved.held
           \/ cursor' = 0 /\ held' = {}
        /\ \/ agent' = "down" \/ disturbed'
           \/ held' = saved.held
        /\ disturbed => disturbed'
    BY DEF AgentStarts, AgentEnds, Fault, TypeOK, hvars
  <1>6. TypeOK'
    <2>1. disturbed' \in BOOLEAN
      BY DEF AgentStarts, AgentEnds, hvars, TypeOK
    <2> QED
      BY <1>1, <1>2, <1>3, <1>4, <1>5, <2>1 DEF TypeOK
  <1>7. Numbered'
    BY <1>1 DEF Numbered
  <1>8. Exchange'
    BY <1>4 DEF Exchange, Complete
  <1>9. Kept'
    BY <1>1, <1>2, <1>5 DEF Kept, Origin
  <1>10. CursorIsHonest'
    <2>1. \A n \in Committed : 1 =< seq[n] /\ seq[n] \in Nat
      BY <1>3 DEF Numbered, Committed
    <2> QED
      BY <1>1, <1>2, <1>5, <2>1 DEF CursorIsHonest, Honest
  <1>11. ShownState'
    <2>1. \A n \in Messages : Remembered(n) => Remembered(n)'
      BY <1>1 DEF Remembered, AgentNow
    <2> QED
      BY <1>1, <1>2, <1>5, <2>1 DEF ShownState
  <1> QED
    BY <1>6, <1>7, <1>8, <1>9, <1>10, <1>11

-----------------------------------------------------------------------------
(* The notifier's steps *)

\* What the notifier's steps leave alone.
LEMMA NotifierFrame ==
  ASSUME MInv,
         UNCHANGED <<tx, seq, last, expires, wake, req, net, agent, cursor, held, saved, now, ahead>>,
         UNCHANGED <<overtaken, lapsed, disturbed>>
  PROVE  Committed' = Committed /\ Numbered' /\ Exchange' /\ Kept' /\ CursorIsHonest'
  <1> USE DEF MInv
  <1>1. Committed' = Committed
    BY DEF Committed
  <1>2. Numbered'
    BY DEF Numbered
  <1>3. Exchange'
    BY <1>1 DEF Exchange, Complete
  <1>4. Kept'
    BY <1>1 DEF Kept, Origin
  <1>5. CursorIsHonest'
    BY <1>1 DEF CursorIsHonest, Honest
  <1> QED
    BY <1>1, <1>2, <1>3, <1>4, <1>5

\* A message the notifier finds new has not been shown.
LEMMA LookInv ==
  ASSUME MInv, Look
  PROVE  MInv'
  <1> USE DEF MInv
  <1>1. /\ UNCHANGED <<tx, seq, last, expires, wake, req, net, agent, cursor, held, saved, now, ahead>>
        /\ UNCHANGED <<overtaken, lapsed, disturbed>>
        /\ UNCHANGED <<notifier, file, faults, unsaved>>
        /\ notifier = "on" /\ ~dirty /\ agent = "up"
    BY DEF Look, rowvars, storevars, clocks, hvars
  <1>2. Committed' = Committed /\ Numbered' /\ Exchange' /\ Kept' /\ CursorIsHonest'
    BY <1>1, NotifierFrame
  <1>3. /\ times' = [m \in Messages |-> IF m \in Fresh THEN times[m] + 1 ELSE times[m]]
        /\ shown' = ShownAfter /\ (shown' # shown => dirty')
    BY DEF Look
  <1>4. times \in [Messages -> Nat] /\ held \subseteq Messages
    BY DEF TypeOK
  <1>5. times' \in [Messages -> Nat]
    BY <1>3, <1>4
  <1>6. shown' \subseteq Messages
    BY <1>3, <1>4 DEF ShownAfter, Reported
  <1>7. dirty' \in BOOLEAN
    BY DEF Look
  <1>8. TypeOK'
    BY <1>1, <1>2, <1>5, <1>6, <1>7 DEF TypeOK
  <1>9. ShownState'
    <2>1. \A n \in Messages : times'[n] > 0 => n \in Committed
      BY <1>3, <1>4 DEF ShownState, Fresh, Reported, Kept
    <2>2. SUFFICES ASSUME ~disturbed, NEW n \in Messages \ unsaved
                   PROVE  times'[n] =< 1 /\ (times'[n] = 1 => Remembered(n)')
      BY <1>1, <1>2, <2>1 DEF ShownState
    <2>3. held = saved.held /\ times[n] =< 1 /\ (times[n] = 1 => Remembered(n)) /\ times[n] \in Nat
      BY <1>1, <1>4, <2>2 DEF ShownState
    <2>4. CASE n \in Fresh
      <3>1. n \in held /\ ~(expires[n] =< AgentNow) /\ n \notin shown
        BY <2>4 DEF Fresh, Reported, Expired
      <3>2. times[n] = 0
        BY <1>1, <2>3, <3>1 DEF Remembered
      <3>3. times'[n] = 1
        BY <1>3, <2>4, <3>2
      <3>4. n \in shown' /\ dirty'
        BY <1>3, <2>4, <3>1 DEF ShownAfter, Fresh
      <3> QED
        BY <1>1, <2>3, <3>1, <3>3, <3>4 DEF Remembered
    <2>5. CASE n \notin Fresh
      <3>1. times'[n] = times[n]
        BY <1>3, <2>5
      <3>2. Remembered(n) => Remembered(n)'
        <4>1. SUFFICES ASSUME Remembered(n), ~(expires[n] =< AgentNow)
                       PROVE  Remembered(n)'
          BY <1>1 DEF Remembered, AgentNow
        <4>2. n \in held /\ n \in shown /\ n \in file
          BY <1>1, <2>3, <4>1 DEF Remembered
        <4>3. n \in shown'
          BY <1>3, <4>1, <4>2 DEF ShownAfter, Reported, Expired
        <4> QED
          BY <1>1, <2>3, <4>2, <4>3 DEF Remembered
      <3> QED
        BY <2>3, <3>1, <3>2
    <2> QED
      BY <2>4, <2>5
  <1> QED
    BY <1>2, <1>8, <1>9

\* What the notifier remembers outlives it, unless it was cut off before the save or cannot
\* read it back.
LEMMA NotifierInv ==
  ASSUME MInv, SaveShown \/ NotifierStarts \/ NotifierEnds
  PROVE  MInv'
  <1> USE MessageDeliveryAssumption DEF MInv
  <1>1. /\ UNCHANGED <<tx, seq, last, expires, wake, req, net, agent, cursor, held, saved, now, ahead>>
        /\ UNCHANGED <<overtaken, lapsed, disturbed>>
        /\ UNCHANGED times
    BY DEF SaveShown, NotifierStarts, NotifierEnds, rowvars, storevars, clocks, hvars
  <1>2. Committed' = Committed /\ Numbered' /\ Exchange' /\ Kept' /\ CursorIsHonest'
    BY <1>1, NotifierFrame
  <1>3. shown \subseteq Messages /\ file \subseteq Messages /\ unsaved \subseteq Messages
    BY DEF TypeOK
  <1>4. /\ notifier' \in {"on", "off"} /\ shown' \subseteq Messages /\ file' \subseteq Messages
        /\ unsaved' \subseteq Messages /\ faults' \in 0 .. MaxFaults
    BY <1>3 DEF SaveShown, NotifierStarts, NotifierEnds, Fault, TypeOK, hvars
  <1>5. dirty' \in BOOLEAN
    BY DEF SaveShown, NotifierStarts, NotifierEnds, TypeOK
  <1>6. TypeOK'
    BY <1>1, <1>2, <1>4, <1>5 DEF TypeOK
  <1>7. unsaved \subseteq unsaved'
    BY DEF SaveShown, NotifierStarts, NotifierEnds, hvars
  <1>8. \A n \in Messages \ unsaved' : Remembered(n) => Remembered(n)'
    <2>1. SUFFICES ASSUME NEW n \in Messages \ unsaved', Remembered(n), ~(expires[n] =< AgentNow)
                   PROVE  Remembered(n)'
      BY <1>1 DEF Remembered, AgentNow
    <2>2. CASE SaveShown
      <3>1. notifier = "on" /\ notifier' = "on" /\ shown' = shown
        BY <2>2 DEF SaveShown
      <3>2. n \in file'
        BY <2>1, <2>2, <3>1 DEF SaveShown, Remembered
      <3> QED
        BY <1>1, <2>1, <3>1, <3>2 DEF Remembered
    <2>3. CASE NotifierStarts
      <3>1. notifier = "off" /\ notifier' = "on" /\ file' = file /\ n \in file
        BY <2>1, <2>3 DEF NotifierStarts, Remembered, TypeOK
      <3>2. n \in shown'
        BY <2>1, <2>3, <3>1 DEF NotifierStarts
      <3> QED
        BY <1>1, <2>1, <3>1, <3>2 DEF Remembered
    <2>4. CASE NotifierEnds
      <3>1. notifier = "on" /\ notifier' = "off" /\ file' = file
        BY <2>4 DEF NotifierEnds
      <3>2. n \in file
        BY <2>1, <2>4, <3>1 DEF NotifierEnds, Remembered
      <3> QED
        BY <1>1, <2>1, <3>1, <3>2 DEF Remembered
    <2> QED
      BY <2>2, <2>3, <2>4
  <1>9. ShownState'
    BY <1>1, <1>2, <1>7, <1>8 DEF ShownState
  <1> QED
    BY <1>2, <1>6, <1>9

-----------------------------------------------------------------------------
(* Clocks and network *)

\* Clocks and network: what expires by a moved clock is on record as disturbed.
LEMMA EnvironmentInv ==
  ASSUME MInv, Environment
  PROVE  MInv'
  <1> USE MessageDeliveryAssumption DEF MInv
  <1>1. /\ UNCHANGED <<tx, seq, last, expires, wake, req, agent, cursor, held, saved, notifier>>
        /\ UNCHANGED <<shown, file, dirty, times, overtaken, lapsed, unsaved>>
    BY DEF Environment, Tick, ClockMeasured, ClockMoved, NetChanges,
           rowvars, storevars, nvars, clocks, hvars
  <1>2. Committed' = Committed
    BY <1>1 DEF Committed
  <1>3. now \in 0 .. MaxTime /\ ahead \in 0 .. MaxAhead /\ expires \in [Messages -> Nat]
    BY DEF TypeOK
  <1>4. /\ now' \in 0 .. MaxTime /\ now' >= now /\ ahead' \in 0 .. MaxAhead
        /\ faults' \in 0 .. MaxFaults /\ net' \in {"up", "down"}
        /\ ahead' >= ahead \/ disturbed'
        /\ disturbed => disturbed'
    BY <1>3 DEF Environment, Tick, ClockMeasured, ClockMoved, NetChanges, Fault, TypeOK, clocks, hvars
  <1>5. TypeOK'
    <2>1. disturbed' \in BOOLEAN
      BY DEF Environment, Tick, ClockMeasured, ClockMoved, NetChanges, TypeOK, hvars
    <2> QED
      BY <1>1, <1>2, <1>4, <2>1 DEF TypeOK
  <1>6. \A n \in Messages : expires[n] =< now => expires[n] =< now'
    BY <1>3, <1>4
  <1>7. Numbered'
    BY <1>1 DEF Numbered
  <1>8. Exchange'
    <2>1. Complete'
      BY <1>1, <1>2, <1>6 DEF Exchange, Complete, Committed
    <2> QED
      BY <1>1, <1>2, <2>1 DEF Exchange
  <1>9. Kept'
    BY <1>1, <1>2 DEF Kept, Origin
  <1>10. CursorIsHonest'
    BY <1>1, <1>2, <1>6 DEF CursorIsHonest, Honest, Committed
  <1>11. ShownState'
    <2>1. \A n \in Messages : ~disturbed' /\ Remembered(n) => Remembered(n)'
      <3>1. ~disturbed' => \A n \in Messages : expires[n] =< now + ahead => expires[n] =< now' + ahead'
        BY <1>3, <1>4
      <3> QED
        BY <1>1, <3>1 DEF Remembered, AgentNow
    <2> QED
      BY <1>1, <1>2, <1>4, <2>1 DEF ShownState
  <1> QED
    BY <1>5, <1>7, <1>8, <1>9, <1>10, <1>11

-----------------------------------------------------------------------------
\* A new agent, an empty table and a notifier that has shown nothing.
LEMMA InitInv == Init => MInv
  <1> SUFFICES ASSUME Init PROVE MInv
    OBVIOUS
  <1> USE MessageDeliveryAssumption
  <1>1. Committed = {}
    BY DEF Init, Committed
  <1>2. req = Quiet /\ saved = Empty /\ Quiet \in Request /\ Empty \in Store
    BY DEF Init, Quiet, Request, Progress, Empty, Store
  <1>3. TypeOK
    <2>1. dirty \in BOOLEAN /\ disturbed \in BOOLEAN
      BY DEF Init
    <2>2. /\ tx \in [Messages -> {"unsent", "inserted", "committed", "aborted"}]
          /\ seq \in [Messages -> Nat] /\ expires \in [Messages -> Nat] /\ times \in [Messages -> Nat]
          /\ last \in Nat /\ cursor \in Nat /\ now \in 0 .. MaxTime
          /\ ahead \in 0 .. MaxAhead /\ faults \in 0 .. MaxFaults
      BY DEF Init
    <2>3. /\ wake = {} /\ held = {} /\ shown = {} /\ file = {}
          /\ overtaken = {} /\ lapsed = {} /\ unsaved = {}
          /\ net \in {"up", "down"} /\ agent \in {"up", "down"} /\ notifier \in {"on", "off"}
      BY DEF Init
    <2> QED
      BY <1>2, <2>1, <2>2, <2>3 DEF TypeOK
  <1>4. Numbered
    BY DEF Init, Numbered
  <1>5. Exchange
    BY <1>2 DEF Quiet, Exchange, Complete
  <1>6. Kept
    BY <1>2 DEF Init, Kept, Origin, Empty
  <1>7. CursorIsHonest
    BY <1>1 DEF CursorIsHonest
  <1>8. ShownState
    <2>1. \A n \in Messages : times[n] = 0
      BY DEF Init
    <2> QED
      BY <2>1 DEF Init, ShownState
  <1> QED
    BY <1>3, <1>4, <1>5, <1>6, <1>7, <1>8 DEF MInv

\* A step of nobody.
LEMMA StutterInv ==
  ASSUME MInv, UNCHANGED vars
  PROVE  MInv'
  <1> USE DEF MInv
  <1>1. /\ UNCHANGED <<tx, seq, last, expires, wake, req, net, agent, cursor, held, saved, now, ahead>>
        /\ UNCHANGED <<overtaken, lapsed, disturbed>>
        /\ UNCHANGED <<notifier, shown, file, dirty, times, faults, unsaved>>
    BY DEF vars, rowvars, storevars, nvars, clocks, hvars
  <1>2. Committed' = Committed /\ Numbered' /\ Exchange' /\ Kept' /\ CursorIsHonest'
    BY <1>1, NotifierFrame
  <1>3. TypeOK'
    BY <1>1, <1>2 DEF TypeOK
  <1>4. ShownState'
    <2>1. \A n \in Messages : Remembered(n) => Remembered(n)'
      BY <1>1 DEF Remembered, AgentNow
    <2> QED
      BY <1>1, <1>2, <2>1 DEF ShownState
  <1> QED
    BY <1>2, <1>3, <1>4

(***************************************************************************)
(* The inductive invariant holds in every reachable state: the exchange of *)
(* agent and controller, the cursors in memory and on disk and the memory  *)
(* of the notifier agree on which messages there are.                      *)
(***************************************************************************)
THEOREM MessageInvariant == Spec => []MInv
  <1>1. Init => MInv
    BY InitInv
  <1>2. MInv /\ [Next]_vars => MInv'
    <2> SUFFICES ASSUME MInv, [Next]_vars PROVE MInv'
      OBVIOUS
    <2>1. CASE UNCHANGED vars
      BY <2>1, StutterInv
    <2>2. CASE Controller
      BY <2>2, InsertInv, CommitInv, AbortInv, ExchangeInv DEF Controller
    <2>3. CASE Agent
      BY <2>3, ExchangeInv, ReceiveInv, RestartInv DEF Agent
    <2>4. CASE Notifier
      BY <2>4, LookInv, NotifierInv DEF Notifier
    <2>5. CASE Environment
      BY <2>5, EnvironmentInv
    <2> QED
      BY <2>1, <2>2, <2>3, <2>4, <2>5 DEF Next
  <1> QED
    BY <1>1, <1>2, PTL DEF Spec

(* The state of the message service, the agent's store and the notifier    *)
(* keeps its types.                                                        *)
THEOREM MessageTypes == Spec => []TypeOK
  <1>1. MInv => TypeOK
    BY DEF MInv
  <1> QED
    BY <1>1, MessageInvariant, PTL

(* MessageStore.last_seq never passes a message the agent does not have,   *)
(* in memory or in messages.json, unless it committed after a later one.   *)
THEOREM CursorLeavesNoGap == Spec => []CursorIsHonest
  <1>1. MInv => CursorIsHonest
    BY DEF MInv
  <1> QED
    BY <1>1, MessageInvariant, PTL

(* MessageTracker shows a message once across log-ons, restarts and        *)
(* repeated fetches, while the agent keeps its cache, its clock does not   *)
(* go back and the notifier can save and read what it has shown.           *)
THEOREM EachShownOnce == Spec => []ShownOnce
  <1>1. MInv => ShownOnce
    BY DEF MInv, ShownState, ShownOnce
  <1> QED
    BY <1>1, MessageInvariant, PTL
=============================================================================
