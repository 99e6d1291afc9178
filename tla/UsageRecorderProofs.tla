------------------------- MODULE UsageRecorderProofs -------------------------
(***************************************************************************)
(* Proofs about UsageRecorder for any number of sessions, changes and      *)
(* faults and any span of time.                                            *)
(*                                                                         *)
(* StoreAgrees, SpansDisjoint and ReportsAgree are not inductive one by    *)
(* one: a recovery after a crash is right because the table has at most    *)
(* one open row (Lone, also after the clock has been set back, when the    *)
(* order of the rows no longer shows it), and the report made before the   *)
(* crash still describes that row.  Books ties the three together, also    *)
(* for a process that is down.  Promised says that the next report will be *)
(* right whatever became of the last.                                      *)
(*                                                                         *)
(* DanglingBounded needs Spare, which tells the tracker's own open row     *)
(* from those a fault has left; UseIsTracked needs Follows, which says     *)
(* what the notifications that are waiting will still bring about.         *)
(***************************************************************************)
EXTENDS UsageRecorder, SequenceTheorems, FiniteSetTheorems, TLAPS

\* The rows begun since the clock was last set back follow one another, and lie in the past.
InOrder ==
    \A i, j \in DOMAIN rows : turned < i /\ i < j => rows[i].end =< rows[j].start

InPast == \A i \in DOMAIN rows : turned < i => /\ rows[i].start =< now
                                               /\ rows[i].end =< now \/ rows[i].end = NoTime

\* The table has at most one open row, and no row after it.
Lone == \A i \in Dangling(rows) : i = Len(rows)

\* Tracker and table, while the process is up.
Ledger ==
    /\ openId = 0 <=> openSince = NoTime
    /\ Dangling(rows) = IF openId = 0 THEN {} ELSE {openId}
    /\ openId # 0 => rows[openId].start = openSince

\* What is to be reported is what the tracker holds.
Promised ==
    /\ pending = "active" => openSince # NoTime
    /\ pending \in {"inactive", "logoff"} => openSince = NoTime

\* Tracker and reports, while the process is up.
Word == pending = "none" => (told = "active" <=> openSince # NoTime)

Idle ==
    /\ pending = "none"
    /\ openId = 0
    /\ openSince = NoTime

Books ==
    ~torn =>
        /\ InOrder
        /\ InPast
        /\ Lone
        /\ Alive => Ledger /\ Promised
        /\ ~Alive => Idle
        /\ proc = "stopping" => Dangling(rows) = {}
        /\ ~misreported /\ Alive => Word
        /\ ~misreported /\ proc = "down" => (told = "active" <=> Dangling(rows) # {})

UInv == TypeOK /\ Books

(***************************************************************************)
(* Of the rows without an end one may be the tracker's; each of the others *)
(* was left by a fault.                                                    *)
(***************************************************************************)
Spare ==
    /\ openId # 0 => openId \in Dangling(rows) /\ openSince # NoTime
    /\ proc = "stopping" => openId = 0
    /\ Cardinality(Dangling(rows)) =< faults + (IF openId # 0 THEN 1 ELSE 0)

\* The notifications about session s that wait in the pump.
Mine(s) == {i \in DOMAIN mail : s \in mail[i].who}

Latest(s, i) == i \in Mine(s) /\ \A j \in Mine(s) : j =< i

\* Notification i, the last about session s, will make it visible; a logon does only when the
\* tracker does not hold the session as hidden by then.
WillShow(s, i) ==
    /\ mail[i].kind \in {"logon", "unlock", "connect"}
    /\ mail[i].kind = "logon" =>
          \/ Mine(s) = {i} /\ sess[s] # "hidden" /\ s \notin relock
          \/ \E j \in Mine(s) : /\ j < i /\ mail[j].kind = "logoff"
                                /\ \A k \in Mine(s) : k =< j \/ i =< k

\* A session that is unlocked is visible to the tracker, or what makes it so is on its way.
Shown(s) ==
    world[s] = "unlocked" =>
        \/ \E i \in DOMAIN mail : Latest(s, i) /\ WillShow(s, i)
        \/ /\ Mine(s) = {}
           /\ s \notin overlooked =>
                 /\ proc = "running" => sess[s] = "visible"
                 /\ proc = "seeding" => /\ s \notin relock
                                        /\ sess[s] = "visible" \/ (sess[s] = "none" /\ s \in seeds)

\* A session that does not exist is unknown to the tracker, or will be.
Gone(s) ==
    world[s] = "absent" =>
        \/ \E i \in DOMAIN mail : Latest(s, i) /\ mail[i].kind = "logoff"
        \/ Mine(s) = {} /\ sess[s] = "none" /\ s \notin seeds /\ s \notin relock

\* The tracker leaves the suspended state when the machine is awake, or what makes it is
\* on its way.
Rouses ==
    ~asleep =>
        /\ suspended => \E j \in DOMAIN mail : mail[j].kind = "resume"
        /\ \A i \in DOMAIN mail : mail[i].kind = "suspend" =>
              \E j \in DOMAIN mail : i < j /\ mail[j].kind = "resume"

\* What the phases of the process leave in its memory, and the sessions of notifications.
Phased ==
    /\ proc \in {"down", "listening"} =>
          /\ sess = [s \in Sessions |-> "none"]
          /\ seeds = {} /\ relock = {} /\ suspended = FALSE
    /\ proc = "running" => seeds = {} /\ relock = {}
    /\ proc = "down" => mail = <<>>
    /\ \A i \in DOMAIN mail : \A s, t \in mail[i].who : s = t

\* The tracker counts a visible session as use.
Counted ==
    ~suspended /\ (\E s \in Sessions : sess[s] = "visible") => openSince # NoTime

Follows ==
    /\ Phased
    /\ Alive => Counted /\ Rouses /\ \A s \in Sessions : Shown(s) /\ Gone(s)

\* The part of TypeOK that handle_at can disturb.
RecorderOK ==
    /\ sess \in [Sessions -> {"none", "visible", "hidden"}]
    /\ suspended \in BOOLEAN
    /\ openSince \in 0 .. NoTime
    /\ rows \in Seq(UsageSession)
    /\ openId \in 0 .. Len(rows)
    /\ named \subseteq Sessions
    /\ snap \in {"NO_SESSION", "ACTIVE", "LOCKED", "SUSPENDED", "DISCONNECTED"}
    /\ pending \in {"none", "active", "inactive", "logoff"}
    /\ faults \in 0 .. MaxFaults
    /\ torn \in BOOLEAN

-----------------------------------------------------------------------------
(* Rows: what an insert and an update do to a table *)

\* Store::start_session and insert_closed_session add one row at the end.
LEMMA InsertRow ==
  ASSUME NEW r \in Seq(UsageSession), NEW x \in UsageSession
  PROVE  /\ Append(r, x) \in Seq(UsageSession)
         /\ Len(Append(r, x)) = Len(r) + 1
         /\ DOMAIN Append(r, x) = DOMAIN r \cup {Len(r) + 1}
         /\ \A i \in DOMAIN r : Append(r, x)[i] = r[i] /\ i < Len(r) + 1
         /\ Append(r, x)[Len(r) + 1] = x
  OBVIOUS

\* Store::end_session changes the end of one row and nothing else.
LEMMA UpdateRow ==
  ASSUME rows \in Seq(UsageSession), NEW i \in DOMAIN rows, NEW why \in Reasons,
         now \in 0 .. MaxTime, MaxTime \in Nat
  PROVE  /\ End(i, why) \in Seq(UsageSession)
         /\ Len(End(i, why)) = Len(rows)
         /\ DOMAIN End(i, why) = DOMAIN rows
         /\ End(i, why)[i].end = now
         /\ End(i, why)[i].start = rows[i].start
         /\ \A j \in DOMAIN rows \ {i} : End(i, why)[j] = rows[j]
  <1>1. now \in 0 .. NoTime
    BY DEF NoTime
  <1>2. rows[i] \in UsageSession
    OBVIOUS
  <1>3. [rows[i] EXCEPT !.end = now, !.reason = why] \in UsageSession
    BY <1>1, <1>2 DEF UsageSession
  <1>4. End(i, why) = [rows EXCEPT ![i] = [rows[i] EXCEPT !.end = now, !.reason = why]]
    BY <1>2 DEF End, UsageSession
  <1>5. End(i, why) \in Seq(UsageSession) /\ Len(End(i, why)) = Len(rows)
    BY <1>3, <1>4
  <1> QED
    BY <1>2, <1>4, <1>5 DEF UsageSession

-----------------------------------------------------------------------------
(* handle_at *)

\* handle_at keeps the types of tracker, recorder and table, and deletes no row.
LEMMA HandleTypes ==
  ASSUME TypeOK, NEW e \in SessionEvent, NEW known \in SUBSET Sessions, Handle(e, known)
  PROVE  RecorderOK' /\ Len(rows) =< Len(rows')
  <1> USE UsageRecorderAssumption
  <1>1. CASE Repeated(e) /\ UNCHANGED <<tvars, rvars, rows, faults, torn>>
    <2>1. rows' = rows /\ Len(rows) \in Nat
      BY <1>1 DEF TypeOK
    <2> QED
      BY <1>1, <2>1 DEF RecorderOK, TypeOK, tvars, rvars
  <1>2. CASE /\ ~Repeated(e)
             /\ Recompute(e)
             /\ NoChange(e, known) \/ Started(e, known) \/ Ended(e, known) \/ WriteFails(e, known)
    <2>1. sess' \in [Sessions -> {"none", "visible", "hidden"}]
      BY <1>2 DEF Recompute, SessAfter, Presence, TypeOK
    <2>2. suspended' \in BOOLEAN
      BY <1>2 DEF Recompute, SuspendedAfter
    <2>3. openSince' \in 0 .. NoTime
      BY <1>2 DEF Recompute, TypeOK, NoTime
    <2>4. EndReason(e) \in Reasons
      BY DEF EndReason, Reasons
    <2>5. named' \subseteq Sessions
      BY <1>2 DEF NoChange, Started, Ended, WriteFails, Finish
    <2>6. snap' \in {"NO_SESSION", "ACTIVE", "LOCKED", "SUSPENDED", "DISCONNECTED"}
      BY <1>2 DEF NoChange, Started, Ended, WriteFails, Finish, SnapshotState, TypeOK
    <2>7. pending' \in {"none", "active", "inactive", "logoff"}
      BY <1>2 DEF NoChange, Started, Ended, WriteFails, Finish, TypeOK
    <2>8. faults' \in 0 .. MaxFaults
      BY <1>2 DEF NoChange, Started, Ended, WriteFails, Finish, TypeOK
    <2>9. torn' \in BOOLEAN
      BY <1>2 DEF NoChange, Started, Ended, WriteFails, Finish, TypeOK
    <2>10. rows' \in Seq(UsageSession) /\ openId' \in 0 .. Len(rows') /\ Len(rows) =< Len(rows')
      <3>1. CASE NoChange(e, known)
        BY <3>1 DEF NoChange, TypeOK
      <3>2. CASE Started(e, known)
        <4>1. [start |-> now, end |-> NoTime, reason |-> "none"] \in UsageSession
          BY DEF UsageSession, TypeOK, NoTime, Reasons
        <4> QED
          BY <3>2, <4>1, InsertRow DEF Started, TypeOK
      <3>3. CASE Ended(e, known) /\ openId # 0
        <4>1. openId \in DOMAIN rows /\ rows' = End(openId, EndReason(e))
          BY <3>3 DEF TypeOK, Ended
        <4> QED
          BY <3>3, <4>1, <2>4, UpdateRow DEF Ended, TypeOK
      <3>4. CASE Ended(e, known) /\ openId = 0
        <4>1. [start |-> openSince, end |-> now, reason |-> EndReason(e)] \in UsageSession
          BY <3>4, <2>4 DEF UsageSession, TypeOK, NoTime, Ended
        <4> QED
          BY <3>4, <4>1, InsertRow DEF Ended, TypeOK
      <3>5. CASE WriteFails(e, known)
        BY <3>5 DEF WriteFails, TypeOK
      <3> QED
        BY <1>2, <3>1, <3>2, <3>3, <3>4, <3>5
    <2> QED
      BY <2>1, <2>2, <2>3, <2>5, <2>6, <2>7, <2>8, <2>9, <2>10 DEF RecorderOK, TypeOK
  <1> QED
    BY <1>1, <1>2 DEF Handle

\* handle_at keeps tracker, table and reports together, whichever way it returns.
LEMMA HandleBooks ==
  ASSUME TypeOK, Books, Alive, pending = "none",
         NEW e \in SessionEvent, NEW known \in SUBSET Sessions, Handle(e, known),
         UNCHANGED <<proc, told, now, misreported, turned>>
  PROVE  Books'
  <1> USE UsageRecorderAssumption
  <1>1. CASE Repeated(e) /\ UNCHANGED <<tvars, rvars, rows, faults, torn>>
    BY <1>1 DEF Books, InOrder, InPast, Lone, Alive, Ledger, Promised, Word, Idle, tvars, rvars
  <1>2. CASE /\ ~Repeated(e)
             /\ Recompute(e)
             /\ NoChange(e, known) \/ Started(e, known) \/ Ended(e, known) \/ WriteFails(e, known)
    <2>1. SUFFICES ASSUME ~torn'
                   PROVE  /\ InOrder' /\ InPast' /\ Lone' /\ Ledger' /\ Promised'
                          /\ Word \/ misreported => Word' \/ misreported
      BY <1>2 DEF Books, Alive, NoChange, Started, Ended, WriteFails, Finish
    <2>2. ~torn /\ ~WriteFails(e, known)
      BY <1>2, <2>1 DEF NoChange, Started, Ended, WriteFails, Finish
    <2>3. InOrder /\ InPast /\ Lone /\ Ledger
      BY <2>2 DEF Books
    <2>4. \A i \in DOMAIN rows : rows[i] \in UsageSession
      BY DEF TypeOK
    <2>5. CASE NoChange(e, known)
      <3>1. UNCHANGED <<rows, openId, openSince, pending>>
        BY <1>2, <2>5 DEF NoChange, Finish, Recompute
      <3>2. InOrder' /\ InPast' /\ Lone' /\ Ledger'
        BY <2>3, <3>1 DEF InOrder, InPast, Lone, Ledger
      <3>3. Promised' /\ (Word' <=> Word)
        BY <3>1 DEF Promised, Word
      <3> QED
        BY <3>2, <3>3
    <2>6. CASE Started(e, known)
      <3> DEFINE x == [start |-> now, end |-> NoTime, reason |-> "none"]
      <3>1. /\ rows' = Append(rows, x)
            /\ openId' = Len(rows) + 1 /\ openSince' = now /\ openSince = NoTime
            /\ pending' = "active"
        BY <1>2, <2>6 DEF Started, Finish, Recompute
      <3>2. x \in UsageSession
        BY DEF UsageSession, TypeOK, NoTime, Reasons
      <3>3. \A i \in DOMAIN rows : rows[i].end # NoTime /\ (turned < i => rows[i].end =< now)
        BY <2>3, <3>1 DEF Ledger, Dangling, InPast
      <3>4. /\ DOMAIN rows' = DOMAIN rows \cup {Len(rows) + 1}
            /\ \A i \in DOMAIN rows : rows'[i] = rows[i] /\ i < Len(rows) + 1
            /\ rows'[Len(rows) + 1] = x
            /\ Len(rows') = Len(rows) + 1
        BY <3>1, <3>2, InsertRow DEF TypeOK
      <3>5. Len(rows) + 1 \in Nat \ {0} /\ now # NoTime
        BY DEF TypeOK, NoTime
      <3> HIDE DEF x
      <3>6. x.start = now /\ x.end = NoTime
        BY DEF x
      <3>7. InOrder'
        BY <2>3, <2>4, <3>3, <3>4, <3>6 DEF InOrder, TypeOK
      <3>8. InPast'
        BY <2>3, <3>4, <3>6 DEF InPast, TypeOK
      <3>9. Dangling(rows') = {Len(rows) + 1}
        BY <3>3, <3>4, <3>6 DEF Dangling
      <3>10. Ledger' /\ Lone'
        BY <3>1, <3>4, <3>5, <3>6, <3>9 DEF Ledger, Lone
      <3> QED
        BY <3>1, <3>5, <3>7, <3>8, <3>10 DEF Word, Promised
    <2>7. CASE Ended(e, known)
      <3>1. /\ openSince # NoTime /\ openSince' = NoTime
            /\ openId # 0 /\ openId' = 0
            /\ rows' = End(openId, EndReason(e))
            /\ pending' \in {"inactive", "logoff"}
        BY <1>2, <2>3, <2>7 DEF Ended, Finish, Recompute, Ledger
      <3>2. openId \in DOMAIN rows /\ EndReason(e) \in Reasons
        BY <3>1 DEF TypeOK, EndReason, Reasons
      <3>3. /\ DOMAIN rows' = DOMAIN rows
            /\ rows'[openId].end = now
            /\ rows'[openId].start = rows[openId].start
            /\ \A j \in DOMAIN rows \ {openId} : rows'[j] = rows[j]
        BY <3>1, <3>2, UpdateRow DEF TypeOK
      <3>4. \A j \in DOMAIN rows \ {openId} : rows[j].end # NoTime
        BY <2>3, <3>1 DEF Ledger, Dangling
      <3>5. openId = Len(rows)
        BY <2>3, <3>1 DEF Ledger, Lone
      <3>6. \A j \in DOMAIN rows : ~(openId < j)
        BY <3>5 DEF TypeOK
      <3>7. InOrder'
        BY <2>3, <3>2, <3>3, <3>6 DEF InOrder
      <3>8. InPast'
        BY <2>3, <3>2, <3>3 DEF InPast, TypeOK
      <3>9. Dangling(rows') = {}
        BY <3>2, <3>3, <3>4 DEF Dangling, TypeOK, NoTime
      <3>10. Ledger' /\ Lone'
        BY <3>1, <3>9 DEF Ledger, Lone
      <3> QED
        BY <3>1, <3>7, <3>8, <3>10 DEF Word, Promised
    <2> QED
      BY <1>2, <2>2, <2>5, <2>6, <2>7
  <1> QED
    BY <1>1, <1>2 DEF Handle

-----------------------------------------------------------------------------
(* The steps *)

\* Steps that leave recorder, store and reports alone.
LEMMA FrameBooks ==
  ASSUME Books, now' >= now, now \in Nat, now' \in Nat,
         UNCHANGED <<proc, openSince, openId, pending, rows, told, torn, misreported, turned>>,
         rows \in Seq(UsageSession)
  PROVE  Books'
  <1>1. \A i \in DOMAIN rows : rows[i] \in UsageSession
    OBVIOUS
  <1>2. InPast => InPast'
    <2>1. SUFFICES ASSUME InPast, NEW i \in DOMAIN rows, turned < i
                   PROVE  rows[i].start =< now' /\ (rows[i].end =< now' \/ rows[i].end = NoTime)
      BY DEF InPast
    <2>2. rows[i].start =< now /\ (rows[i].end =< now \/ rows[i].end = NoTime)
      BY <2>1 DEF InPast
    <2>3. rows[i].start \in Int /\ rows[i].end \in Int
      BY <1>1, <2>1, UsageRecorderAssumption DEF UsageSession, NoTime
    <2> QED
      BY <2>2, <2>3
  <1> QED
    BY <1>2 DEF Books, InOrder, Lone, Ledger, Promised, Word, Idle, Alive

\* What Windows posts is a notification.
LEMMA NotifyType ==
  ASSUME mail \in Seq(SessionEvent), NEW kind \in Kinds, NEW who \in SUBSET Sessions,
         Notify(kind, who)
  PROVE  mail' \in Seq(SessionEvent)
  <1> DEFINE x == [kind |-> kind, who |-> who]
  <1>1. x \in SessionEvent
    BY DEF SessionEvent
  <1>2. mail' = Append(mail, x) \/ mail' = mail
    BY DEF Notify
  <1> HIDE DEF x
  <1>3. Append(mail, x) \in Seq(SessionEvent)
    BY <1>1
  <1> QED
    BY <1>2, <1>3

\* What the users, the machine and the clock do leaves the recorder's books alone.
LEMMA OutsideInv ==
  ASSUME UInv, Outside
  PROVE  UInv'
  <1> USE UsageRecorderAssumption DEF UInv
  <1>0. now \in Nat
    BY DEF TypeOK
  <1>1. ASSUME NEW s \in Sessions, NEW kind \in Kinds, NEW st \in Standings,
               UserActs(s, kind, st)
        PROVE  UInv'
    <2>1. mail' \in Seq(SessionEvent)
      <3>1. {s} \in SUBSET Sessions /\ Notify(kind, {s}) /\ mail \in Seq(SessionEvent)
        BY <1>1 DEF UserActs, TypeOK
      <3> QED
        BY <1>1, <3>1, NotifyType
    <2>2. changes' \in 0 .. MaxChanges /\ world' \in [Sessions -> Standings]
      BY <1>1 DEF UserActs, TypeOK
    <2>3. /\ UNCHANGED <<asleep, proc, seeds, relock, sess, suspended, openSince>>
          /\ UNCHANGED <<openId, named, snap, pending, rows, told, now, faults>>
          /\ UNCHANGED <<torn, misreported, turned, overlooked>>
      BY <1>1 DEF UserActs, seedvars, tvars, rvars, hvars
    <2>4. TypeOK'
      BY <2>1, <2>2, <2>3 DEF TypeOK
    <2> QED
      BY <1>0, <2>3, <2>4, FrameBooks DEF TypeOK
  <1>2. CASE MachineSleeps
    <2>1. mail' \in Seq(SessionEvent)
      <3>1. "suspend" \in Kinds /\ Notify("suspend", {}) /\ mail \in Seq(SessionEvent)
        BY <1>2 DEF MachineSleeps, TypeOK, Kinds
      <3> QED
        BY <3>1, NotifyType
    <2>2. changes' \in 0 .. MaxChanges /\ asleep' \in BOOLEAN
      BY <1>2 DEF MachineSleeps, TypeOK
    <2>3. /\ UNCHANGED <<world, proc, seeds, relock, sess, suspended, openSince>>
          /\ UNCHANGED <<openId, named, snap, pending, rows, told, now, faults>>
          /\ UNCHANGED <<torn, misreported, turned, overlooked>>
      BY <1>2 DEF MachineSleeps, seedvars, tvars, rvars, hvars
    <2>4. TypeOK'
      BY <2>1, <2>2, <2>3 DEF TypeOK
    <2> QED
      BY <1>0, <2>3, <2>4, FrameBooks DEF TypeOK
  <1>3. CASE MachineWakes
    <2>1. mail' \in Seq(SessionEvent)
      <3>1. "resume" \in Kinds /\ Notify("resume", {}) /\ mail \in Seq(SessionEvent)
        BY <1>3 DEF MachineWakes, TypeOK, Kinds
      <3> QED
        BY <3>1, NotifyType
    <2>2. asleep' \in BOOLEAN
      BY <1>3 DEF MachineWakes
    <2>3. /\ UNCHANGED <<world, proc, seeds, relock, sess, suspended, openSince>>
          /\ UNCHANGED <<openId, named, snap, pending, rows, told, now, changes, faults>>
          /\ UNCHANGED <<torn, misreported, turned, overlooked>>
      BY <1>3 DEF MachineWakes, seedvars, tvars, rvars, hvars, bounds
    <2>4. TypeOK'
      BY <2>1, <2>2, <2>3 DEF TypeOK
    <2> QED
      BY <1>0, <2>3, <2>4, FrameBooks DEF TypeOK
  <1>4. CASE Tick
    <2>1. now' \in 0 .. MaxTime /\ now' = now + 1
      BY <1>4 DEF Tick, TypeOK
    <2>2. /\ UNCHANGED <<world, asleep, mail, proc, seeds, relock, sess, suspended, openSince>>
          /\ UNCHANGED <<openId, named, snap, pending, rows, told, changes, faults>>
          /\ UNCHANGED <<torn, misreported, turned, overlooked>>
      BY <1>4 DEF Tick, wvars, seedvars, tvars, rvars, hvars
    <2>3. TypeOK'
      BY <2>1, <2>2 DEF TypeOK
    <2> QED
      BY <1>0, <2>1, <2>2, <2>3, FrameBooks DEF TypeOK
  <1>5. ASSUME NEW t \in 0 .. MaxTime, SetBack(t) PROVE UInv'
    <2>1. /\ now' \in 0 .. MaxTime /\ changes' \in 0 .. MaxChanges
          /\ turned' = Len(rows) /\ Len(rows) \in Nat
      BY <1>5 DEF SetBack, TypeOK
    <2>2. /\ UNCHANGED <<world, asleep, mail, proc, seeds, relock, sess, suspended, openSince>>
          /\ UNCHANGED <<openId, named, snap, pending, rows, told, faults>>
          /\ UNCHANGED <<torn, misreported, overlooked>>
      BY <1>5 DEF SetBack, wvars, seedvars, tvars, rvars
    <2>3. TypeOK'
      BY <2>1, <2>2 DEF TypeOK
    <2>4. \A i \in DOMAIN rows : ~(turned' < i)
      BY <2>1 DEF TypeOK
    <2>5. InOrder' /\ InPast'
      BY <2>2, <2>4 DEF InOrder, InPast
    <2>6. Books'
      BY <2>2, <2>5 DEF Books, Lone, Ledger, Promised, Word, Idle, Alive
    <2> QED
      BY <2>3, <2>6
  <1> QED
    BY <1>1, <1>2, <1>3, <1>4, <1>5 DEF Outside

\* A call of handle_at from one of the two loops.
LEMMA CallInv ==
  ASSUME UInv, Alive, pending = "none",
         NEW e \in SessionEvent, NEW known \in SUBSET Sessions, Handle(e, known),
         UNCHANGED <<world, asleep, proc, told, now, changes, misreported, turned>>,
         mail' \in Seq(SessionEvent), seeds' \subseteq Sessions, relock' \subseteq Sessions,
         overlooked' \subseteq Sessions
  PROVE  UInv'
  <1>1. RecorderOK'
    BY HandleTypes DEF UInv
  <1>2. TypeOK'
    <2>1. Len(rows) =< Len(rows') /\ turned \in 0 .. Len(rows) /\ Len(rows) \in Nat
      BY HandleTypes DEF UInv, TypeOK
    <2>2. turned' \in 0 .. Len(rows')
      BY <1>1, <2>1 DEF RecorderOK
    <2> QED
      BY <1>1, <2>2 DEF RecorderOK, UInv, TypeOK
  <1>3. Books'
    BY HandleBooks DEF UInv
  <1> QED
    BY <1>2, <1>3 DEF UInv

\* The three callers of handle_at.
LEMMA LoopsInv ==
  ASSUME UInv, (\E s \in Sessions : SeedLogon(s)) \/ SeedLock \/ Dispatch
  PROVE  UInv'
  <1> USE DEF UInv
  <1>1. ASSUME NEW s \in Sessions, SeedLogon(s) PROVE UInv'
    <2>1. [kind |-> "logon", who |-> {s}] \in SessionEvent /\ named \cup {s} \in SUBSET Sessions
      BY DEF SessionEvent, Kinds, TypeOK
    <2>2. /\ Alive /\ pending = "none"
          /\ Handle([kind |-> "logon", who |-> {s}], named \cup {s})
          /\ UNCHANGED <<world, asleep, mail, proc, told, now, changes, misreported, turned, overlooked>>
      BY <1>1 DEF SeedLogon, Ready, Alive, wvars
    <2>3. seeds' \subseteq Sessions /\ relock' \subseteq Sessions
      BY <1>1 DEF SeedLogon, TypeOK
    <2> QED
      BY <2>1, <2>2, <2>3, CallInv DEF TypeOK
  <1>2. CASE SeedLock
    <2>1. [kind |-> "lock", who |-> relock] \in SessionEvent /\ named \in SUBSET Sessions
      BY DEF SessionEvent, Kinds, TypeOK
    <2>2. /\ Alive /\ pending = "none"
          /\ Handle([kind |-> "lock", who |-> relock], named)
          /\ UNCHANGED <<world, asleep, mail, proc, told, now, changes, misreported, turned, overlooked>>
      BY <1>2 DEF SeedLock, Ready, Alive, wvars
    <2>3. seeds' \subseteq Sessions /\ relock' \subseteq Sessions
      BY <1>2 DEF SeedLock, TypeOK
    <2> QED
      BY <2>1, <2>2, <2>3, CallInv DEF TypeOK
  <1>3. CASE Dispatch
    <2>1. Head(mail) \in SessionEvent /\ mail' \in Seq(SessionEvent)
      BY <1>3 DEF Dispatch, TypeOK
    <2>2. PICK known \in {named, named \cup Head(mail).who} : Handle(Head(mail), known)
      BY <1>3 DEF Dispatch
    <2>3. known \in SUBSET Sessions
      BY <2>1, <2>2 DEF SessionEvent, TypeOK
    <2>4. /\ Alive /\ pending = "none"
          /\ UNCHANGED <<world, asleep, proc, seeds, relock, told, now, changes, misreported, turned>>
      BY <1>3 DEF Dispatch, Ready, Alive, seedvars
    <2>5. overlooked' \subseteq Sessions
      BY <1>3 DEF Dispatch, TypeOK
    <2>6. seeds' \subseteq Sessions /\ relock' \subseteq Sessions
      BY <2>4 DEF TypeOK
    <2> QED
      BY <2>1, <2>2, <2>3, <2>4, <2>5, <2>6, CallInv
  <1> QED
    BY <1>1, <1>2, <1>3

\* UsageRecorder::from_store: the row left open, if any, is the one recovered.
LEMMA StartInv ==
  ASSUME UInv, Start
  PROVE  UInv'
  <1> USE UsageRecorderAssumption DEF UInv
  <1>1. /\ UNCHANGED <<world, asleep, mail, seeds, relock, sess, suspended, named, snap, pending>>
        /\ UNCHANGED <<rows, told, now, changes, faults, torn, misreported, turned, overlooked>>
        /\ proc = "down" /\ proc' = "listening"
    BY DEF Start, wvars, bounds, hvars
  <1>2. \A i \in DOMAIN rows : rows[i] \in UsageSession
    BY DEF TypeOK
  <1>3. \/ \E i \in Recoverable : openId' = i /\ openSince' = rows[i].start
        \/ Recoverable = {} /\ UNCHANGED <<openId, openSince>>
    BY DEF Start
  <1>4. Recoverable \subseteq Dangling(rows) /\ Dangling(rows) \subseteq DOMAIN rows
    BY DEF Recoverable, Dangling
  <1>5. openId' \in 0 .. Len(rows) /\ openSince' \in 0 .. NoTime
    BY <1>2, <1>3, <1>4 DEF TypeOK, UsageSession, NoTime
  <1>6. TypeOK'
    BY <1>1, <1>4, <1>5 DEF TypeOK, Phases
  <1>7. ASSUME ~torn'
        PROVE  /\ InOrder' /\ InPast' /\ Lone' /\ Ledger' /\ Promised'
               /\ ~misreported => Word'
    <2>1. /\ InOrder /\ InPast /\ Lone /\ Idle
          /\ ~misreported => (told = "active" <=> Dangling(rows) # {})
      BY <1>1, <1>7 DEF Books, Alive
    <2>2. InOrder' /\ InPast' /\ Lone' /\ Promised'
      BY <1>1, <2>1 DEF InOrder, InPast, Lone, Promised, Idle
    <2>3. \A i, j \in Dangling(rows) : i = j
      BY <2>1 DEF Lone
    <2>4. Recoverable = Dangling(rows)
      <3>1. \A i \in Dangling(rows) : rows[i].start =< rows[i].start
        BY <1>2, <1>4 DEF UsageSession
      <3> QED
        BY <2>3, <3>1 DEF Recoverable
    <2>5. CASE Dangling(rows) = {}
      <3>1. UNCHANGED <<openId, openSince>>
        BY <1>3, <2>4, <2>5
      <3> QED
        BY <1>1, <2>1, <2>2, <2>5, <3>1 DEF Ledger, Word, Idle
    <2>6. CASE Dangling(rows) # {}
      <3>1. PICK i \in Dangling(rows) : openId' = i /\ openSince' = rows[i].start
        BY <1>3, <2>4, <2>6
      <3>2. Dangling(rows) = {i}
        BY <2>3, <3>1
      <3>3. i # 0 /\ rows[i].start # NoTime
        BY <1>2, <1>4, <3>1 DEF UsageSession, NoTime, TypeOK
      <3>4. Ledger'
        BY <1>1, <3>1, <3>2, <3>3 DEF Ledger
      <3>5. ~misreported => Word'
        BY <1>1, <2>1, <2>6, <3>1, <3>3 DEF Word, Idle
      <3> QED
        BY <2>2, <3>4, <3>5
    <2> QED
      BY <2>5, <2>6
  <1>8. Books'
    BY <1>1, <1>7 DEF Books, Alive
  <1> QED
    BY <1>6, <1>8

\* The startup steps that touch neither tracker nor store.
LEMMA SeedingInv ==
  ASSUME UInv, Enumerate \/ Seeded
  PROVE  UInv'
  <1> USE DEF UInv
  <1>1. /\ UNCHANGED <<world, asleep, mail, relock, sess, suspended, openSince, openId, named, snap>>
        /\ UNCHANGED <<pending, rows, told, now, changes, faults, torn, misreported, turned>>
        /\ Alive /\ Alive' /\ proc' \in Phases
    BY DEF Enumerate, Seeded, wvars, tvars, rvars, bounds, hvars, Alive, Phases
  <1>2. seeds' \subseteq Sessions /\ overlooked' \subseteq Sessions
    BY DEF Enumerate, Seeded, hvars, TypeOK
  <1>3. TypeOK'
    BY <1>1, <1>2 DEF TypeOK
  <1>4. proc' \notin {"down", "stopping"}
    BY <1>1 DEF Alive
  <1>5. Books'
    BY <1>1, <1>4 DEF Books, InOrder, InPast, Lone, Ledger, Promised, Word
  <1> QED
    BY <1>3, <1>5

\* The report is a write of its own, after the row's.
LEMMA ReportInv ==
  ASSUME UInv, Report
  PROVE  UInv'
  <1> USE UsageRecorderAssumption DEF UInv
  <1>1. /\ UNCHANGED <<world, asleep, mail, proc, seeds, relock, sess, suspended, openSince>>
        /\ UNCHANGED <<openId, named, snap, rows, now, changes, torn, turned, overlooked>>
        /\ pending # "none" /\ pending' = "none"
    BY DEF Report, wvars, seedvars, tvars
  <1>2. \/ told' = pending /\ misreported' = FALSE /\ faults' = faults
        \/ told' = told /\ misreported' = TRUE /\ faults' = faults + 1 /\ faults < MaxFaults
    BY DEF Report
  <1>3. pending \in {"active", "inactive", "logoff"}
    BY <1>1 DEF TypeOK
  <1>4. /\ told' \in {"nothing", "active", "inactive", "logoff", "stopped"}
        /\ misreported' \in BOOLEAN /\ faults' \in 0 .. MaxFaults
    <2>1. told' \in {"nothing", "active", "inactive", "logoff", "stopped"}
      BY <1>2, <1>3 DEF TypeOK
    <2>2. misreported' \in BOOLEAN
      BY <1>2
    <2>3. faults' \in 0 .. MaxFaults
      BY <1>2 DEF TypeOK
    <2> QED
      BY <2>1, <2>2, <2>3
  <1>5. TypeOK'
    BY <1>1, <1>4 DEF TypeOK
  <1>6. ASSUME ~torn'
        PROVE  /\ Alive /\ InOrder' /\ InPast' /\ Lone' /\ Ledger' /\ Promised'
               /\ ~misreported' => Word'
    <2>1. Alive /\ InOrder /\ InPast /\ Lone /\ Ledger /\ Promised
      BY <1>1, <1>6 DEF Books, Idle
    <2>2. ~misreported' => Word'
      BY <1>1, <1>2, <1>3, <2>1 DEF Word, Promised
    <2> QED
      BY <1>1, <2>1, <2>2 DEF InOrder, InPast, Lone, Ledger, Promised
  <1>7. Books'
    BY <1>1, <1>6 DEF Books, Alive
  <1> QED
    BY <1>5, <1>7

\* A start that fails leaves the table alone, and its last word is wrong of a row left open.
LEMMA RunFailsInv ==
  ASSUME UInv, RunFails
  PROVE  UInv'
  <1> USE DEF UInv
  <1>1. /\ UNCHANGED <<world, asleep, mail, proc, seeds, relock, sess, suspended, openSince>>
        /\ UNCHANGED <<openId, named, snap, pending, rows, now, changes, faults, torn, turned>>
        /\ UNCHANGED overlooked /\ proc = "down"
    BY DEF RunFails, wvars, seedvars, tvars, rvars, bounds
  <1>2. \/ told' = "stopped" /\ misreported' = (Dangling(rows) # {})
        \/ UNCHANGED <<told, misreported>>
    BY DEF RunFails
  <1>3. /\ told' \in {"nothing", "active", "inactive", "logoff", "stopped"}
        /\ misreported' \in BOOLEAN
    BY <1>2 DEF TypeOK
  <1>4. TypeOK'
    BY <1>1, <1>3 DEF TypeOK
  <1>5. Books'
    BY <1>1, <1>2 DEF Books, InOrder, InPast, Lone, Idle, Alive
  <1> QED
    BY <1>4, <1>5

\* UsageRecorder::shutdown closes the open row, or its write fails.
LEMMA StopInv ==
  ASSUME UInv, Stop
  PROVE  UInv'
  <1> USE UsageRecorderAssumption DEF UInv
  <1>1. /\ UNCHANGED <<world, asleep, seeds, relock, sess, suspended, named, snap, pending>>
        /\ UNCHANGED <<told, now, changes, misreported, turned, overlooked>>
        /\ proc = "running" /\ proc' = "stopping" /\ mail' = <<>> /\ pending = "none"
        /\ openSince' = NoTime /\ openId' = 0
    BY DEF Stop, Ready
  <1>2. faults' \in 0 .. MaxFaults
    BY DEF Stop, TypeOK
  <1>3. \/ openId # 0 /\ openSince # NoTime /\ rows' = End(openId, "AgentShutdown") /\ torn' = torn
        \/ rows' = rows /\ torn' = TRUE
        \/ (openId = 0 \/ openSince = NoTime) /\ UNCHANGED <<rows, torn>>
    BY DEF Stop
  <1>4. "AgentShutdown" \in Reasons
    BY DEF Reasons
  <1>5. torn' \in BOOLEAN
    BY <1>3 DEF TypeOK
  <1>6. rows' \in Seq(UsageSession) /\ Len(rows') = Len(rows)
    <2>1. CASE openId # 0 /\ rows' = End(openId, "AgentShutdown")
      <3>1. openId \in DOMAIN rows
        BY <2>1 DEF TypeOK
      <3> QED
        BY <1>4, <2>1, <3>1, UpdateRow DEF TypeOK
    <2>2. CASE rows' = rows
      BY <2>2 DEF TypeOK
    <2> QED
      BY <1>3, <2>1, <2>2
  <1>7. mail' \in Seq(SessionEvent) /\ openId' \in 0 .. Len(rows') /\ openSince' \in 0 .. NoTime
    BY <1>1, <1>6 DEF NoTime
  <1>8. TypeOK'
    BY <1>1, <1>2, <1>5, <1>6, <1>7 DEF TypeOK, Phases
  <1>9. ASSUME ~torn' PROVE InOrder' /\ InPast' /\ Dangling(rows') = {}
    <2>1. ~torn /\ InOrder /\ InPast /\ Lone /\ Ledger
      BY <1>1, <1>3, <1>9 DEF Books, Alive
    <2>2. CASE openId = 0
      <3>1. rows' = rows /\ Dangling(rows) = {}
        BY <1>3, <2>1, <2>2, <1>9 DEF Ledger
      <3> QED
        BY <1>1, <2>1, <3>1 DEF InOrder, InPast
    <2>3. CASE openId # 0
      <3>1. rows' = End(openId, "AgentShutdown") /\ openId \in DOMAIN rows
        BY <1>3, <1>9, <2>1, <2>3 DEF Ledger, TypeOK
      <3>2. /\ DOMAIN rows' = DOMAIN rows
            /\ rows'[openId].end = now
            /\ rows'[openId].start = rows[openId].start
            /\ \A j \in DOMAIN rows \ {openId} : rows'[j] = rows[j]
        BY <1>4, <3>1, UpdateRow DEF TypeOK
      <3>3. Dangling(rows) = {openId} /\ rows[openId].end = NoTime
        BY <2>1, <2>3 DEF Ledger, Dangling
      <3>4. \A j \in DOMAIN rows : ~(openId < j)
        BY <2>1, <3>3 DEF Lone, TypeOK
      <3>5. InOrder'
        BY <1>1, <2>1, <3>1, <3>2, <3>4 DEF InOrder
      <3>6. InPast'
        BY <1>1, <2>1, <3>1, <3>2 DEF InPast, TypeOK
      <3>7. Dangling(rows') = {}
        BY <3>1, <3>2, <3>3 DEF Dangling, TypeOK, NoTime
      <3> QED
        BY <3>5, <3>6, <3>7
    <2> QED
      BY <2>2, <2>3
  <1>10. Books'
    BY <1>1, <1>9 DEF Books, Lone, Alive, Idle
  <1> QED
    BY <1>8, <1>10

\* The end of the process, clean or not: what is left is the table and the queue.
LEMMA EndInv ==
  ASSUME UInv, Stopped \/ Crash
  PROVE  UInv'
  <1> USE UsageRecorderAssumption DEF UInv
  <1>1. /\ proc' = "down" /\ mail' = <<>> /\ seeds' = {} /\ relock' = {}
        /\ sess' = [s \in Sessions |-> "none"]
        /\ openSince' = NoTime /\ openId' = 0 /\ named' = {} /\ snap' = "NO_SESSION"
        /\ pending' = "none" /\ overlooked' = {}
        /\ UNCHANGED <<rows, now, changes, torn, turned>>
    BY DEF Stopped, Crash, Forget, bounds
  <1>2. suspended' \in BOOLEAN
    BY DEF Stopped, Crash, Forget
  <1>3. misreported' \in BOOLEAN
    BY DEF Stopped, Crash, TypeOK
  <1>4. faults' \in 0 .. MaxFaults
    BY DEF Stopped, Crash, TypeOK, bounds
  <1>5. world' \in [Sessions -> Standings]
    BY DEF Stopped, Crash, TypeOK, Standings
  <1>6. asleep' \in BOOLEAN
    BY DEF Stopped, Crash, TypeOK
  <1>7. told' \in {"nothing", "active", "inactive", "logoff", "stopped"}
    BY DEF Stopped, Crash, TypeOK
  <1>8. mail' \in Seq(SessionEvent) /\ openId' \in 0 .. Len(rows') /\ openSince' \in 0 .. NoTime
    BY <1>1 DEF NoTime, TypeOK
  <1>9. sess' \in [Sessions -> {"none", "visible", "hidden"}]
    BY <1>1
  <1>10. proc' \in Phases
    BY <1>1 DEF Phases
  <1>11. TypeOK'
    BY <1>1, <1>2, <1>3, <1>4, <1>5, <1>6, <1>7, <1>8, <1>9, <1>10 DEF TypeOK
  <1>12. ASSUME ~torn'
         PROVE  /\ InOrder' /\ InPast' /\ Lone'
                /\ ~misreported' => (told' = "active" <=> Dangling(rows') # {})
    <2>1. ~torn /\ InOrder /\ InPast /\ Lone
      BY <1>1, <1>12 DEF Books
    <2>2. InOrder' /\ InPast' /\ Lone'
      BY <1>1, <2>1 DEF InOrder, InPast, Lone
    <2>3. CASE Stopped
      <3>1. (told' = "stopped" \/ misreported') /\ Dangling(rows) = {}
        BY <2>1, <2>3 DEF Stopped, Books
      <3> QED
        BY <1>1, <2>2, <3>1
    <2>4. CASE Crash
      <3> SUFFICES ASSUME ~misreported' PROVE told' = "active" <=> Dangling(rows') # {}
        BY <2>2
      <3>1. told' = told /\ ~misreported /\ Alive /\ pending = "none"
        BY <2>4 DEF Crash, Alive, TypeOK, Phases
      <3>2. Ledger /\ Word
        BY <2>1, <3>1 DEF Books
      <3> QED
        BY <1>1, <3>1, <3>2 DEF Ledger, Word
    <2> QED
      BY <2>3, <2>4
  <1>13. Books'
    BY <1>1, <1>12 DEF Books, Alive, Idle
  <1> QED
    BY <1>11, <1>13

-----------------------------------------------------------------------------
(* The theorems *)

(***************************************************************************)
(* The inductive invariant: types, and the books that tracker.rs, store.rs *)
(* and the event queue keep of the open session, in every order of         *)
(* notifications, crashes, restarts and failed writes.                     *)
(***************************************************************************)
THEOREM UsageInvariant == Spec => []UInv
  <1>1. Init => UInv
    <2>1. SUFFICES ASSUME Init PROVE UInv
      OBVIOUS
    <2>2. /\ suspended \in BOOLEAN /\ asleep \in BOOLEAN /\ torn \in BOOLEAN
          /\ misreported \in BOOLEAN
      BY <2>1 DEF Init
    <2>3. /\ mail \in Seq(SessionEvent) /\ rows \in Seq(UsageSession)
          /\ openId \in 0 .. Len(rows) /\ openSince \in 0 .. NoTime /\ DOMAIN rows = {}
          /\ turned \in 0 .. Len(rows)
      BY <2>1, UsageRecorderAssumption DEF Init, NoTime
    <2>4. /\ now \in 0 .. MaxTime /\ changes \in 0 .. MaxChanges /\ faults \in 0 .. MaxFaults
          /\ world \in [Sessions -> Standings] /\ proc \in Phases
          /\ sess \in [Sessions -> {"none", "visible", "hidden"}]
      BY <2>1, UsageRecorderAssumption DEF Init, Phases
    <2>5. TypeOK
      BY <2>1, <2>2, <2>3, <2>4 DEF TypeOK, Init
    <2>6. InOrder /\ InPast /\ Dangling(rows) = {}
      BY <2>3 DEF InOrder, InPast, Dangling
    <2>7. Books
      BY <2>1, <2>6 DEF Books, Init, Idle, Lone, Alive
    <2> QED
      BY <2>5, <2>7 DEF UInv
  <1>2. UInv /\ [Next]_vars => UInv'
    <2>1. SUFFICES ASSUME UInv, [Next]_vars PROVE UInv'
      OBVIOUS
    <2>2. CASE UNCHANGED vars
      <3>1. /\ UNCHANGED <<world, asleep, mail, proc, seeds, relock, sess, suspended, openSince>>
            /\ UNCHANGED <<openId, named, snap, pending, rows, told, now, changes, faults>>
            /\ UNCHANGED <<torn, misreported, turned, overlooked>>
        BY <2>2 DEF vars, wvars, seedvars, tvars, rvars, bounds, hvars
      <3>2. TypeOK'
        BY <2>1, <3>1 DEF UInv, TypeOK
      <3>3. now \in Nat /\ rows \in Seq(UsageSession)
        BY <2>1, UsageRecorderAssumption DEF UInv, TypeOK
      <3> QED
        BY <2>1, <3>1, <3>2, <3>3, FrameBooks DEF UInv
    <2> QED
      BY <2>1, <2>2, OutsideInv, LoopsInv, StartInv, RunFailsInv, SeedingInv, ReportInv,
         StopInv, EndInv
         DEF Next, Agent
  <1> QED
    BY <1>1, <1>2, PTL DEF Spec

\* Every variable keeps its type; in particular end_reason is one of the seven reasons.
THEOREM UsageTypes == Spec => []TypeOK
  <1>1. UInv => TypeOK
    BY DEF UInv
  <1> QED
    BY <1>1, UsageInvariant, PTL

(***************************************************************************)
(* Tracker and table agree about the open session while the agent runs,    *)
(* also when it was recovered from a crash (lib.rs, from_store).           *)
(***************************************************************************)
THEOREM OpenSessionAgrees == Spec => []StoreAgrees
  <1>1. UInv => StoreAgrees
    BY DEF UInv, Books, StoreAgrees, Ledger
  <1> QED
    BY <1>1, UsageInvariant, PTL

(***************************************************************************)
(* No stretch of time is recorded twice (store.rs: start_session,          *)
(* end_session) among the sessions begun since the clock was set back.     *)
(***************************************************************************)
THEOREM RecordedOnce == Spec => []SpansDisjoint
  <1>1. UInv => SpansDisjoint
    BY DEF UInv, Books, SpansDisjoint, InOrder
  <1> QED
    BY <1>1, UsageInvariant, PTL

(***************************************************************************)
(* The last activity event in the queue is what the tracker holds (lib.rs, *)
(* handle_at), unless it was lost or a start failed, until the next one.   *)
(***************************************************************************)
THEOREM ReportedAsHeld == Spec => []ReportsAgree
  <1>1. UInv => ReportsAgree
    BY DEF UInv, Books, ReportsAgree, Word, Alive
  <1> QED
    BY <1>1, UsageInvariant, PTL

-----------------------------------------------------------------------------
(* How many rows can be left without an end *)

\* A table is finite, and so are its open rows.
LEMMA DanglingFinite ==
  ASSUME NEW r \in Seq(UsageSession)
  PROVE  IsFiniteSet(Dangling(r)) /\ Cardinality(Dangling(r)) \in Nat
  <1>1. Len(r) \in Nat /\ Dangling(r) \subseteq 1 .. Len(r)
    BY DEF Dangling
  <1>2. IsFiniteSet(1 .. Len(r))
    BY <1>1, FS_Interval
  <1> QED
    BY <1>1, <1>2, FS_Subset, FS_CardinalityType

\* An insert adds one open row, or none.
LEMMA DanglingInsert ==
  ASSUME NEW r \in Seq(UsageSession), NEW x \in UsageSession
  PROVE  /\ x.end = NoTime => /\ Len(r) + 1 \in Dangling(Append(r, x))
                              /\ Cardinality(Dangling(Append(r, x))) = Cardinality(Dangling(r)) + 1
         /\ x.end # NoTime => Dangling(Append(r, x)) = Dangling(r)
  <1>1. Len(r) + 1 \notin Dangling(r) /\ Len(r) + 1 \notin DOMAIN r
    BY DEF Dangling
  <1>2. ASSUME x.end = NoTime
        PROVE  Dangling(Append(r, x)) = Dangling(r) \cup {Len(r) + 1}
    BY <1>1, <1>2, InsertRow DEF Dangling
  <1>3. ASSUME x.end # NoTime
        PROVE  Dangling(Append(r, x)) = Dangling(r)
    BY <1>1, <1>3, InsertRow DEF Dangling
  <1>4. Cardinality(Dangling(r) \cup {Len(r) + 1}) = Cardinality(Dangling(r)) + 1
    BY <1>1, DanglingFinite, FS_AddElement
  <1> QED
    BY <1>2, <1>3, <1>4

\* Ending an open row leaves one less.
LEMMA DanglingEnd ==
  ASSUME TypeOK, NEW i \in Dangling(rows), NEW why \in Reasons
  PROVE  Cardinality(Dangling(End(i, why))) = Cardinality(Dangling(rows)) - 1
  <1> USE UsageRecorderAssumption
  <1>1. rows \in Seq(UsageSession) /\ i \in DOMAIN rows /\ now \in 0 .. MaxTime
    BY DEF TypeOK, Dangling
  <1>2. now # NoTime
    BY <1>1 DEF NoTime
  <1>3. Dangling(End(i, why)) = Dangling(rows) \ {i}
    BY <1>1, <1>2, UpdateRow DEF Dangling
  <1> QED
    BY <1>1, <1>3, DanglingFinite, FS_RemoveElement

\* handle_at opens a row only when the tracker has none.
LEMMA HandleSpare ==
  ASSUME TypeOK, Spare, NEW e \in SessionEvent, NEW known \in SUBSET Sessions, Handle(e, known),
         proc' # "stopping"
  PROVE  Spare'
  <1> USE UsageRecorderAssumption
  <1>1. CASE UNCHANGED <<tvars, rvars, rows, faults, torn>>
    BY <1>1 DEF Spare, tvars, rvars
  <1>2. CASE /\ Recompute(e)
             /\ NoChange(e, known) \/ Started(e, known) \/ Ended(e, known) \/ WriteFails(e, known)
    <2>1. /\ rows \in Seq(UsageSession) /\ faults \in Nat /\ openId \in Nat
          /\ Cardinality(Dangling(rows)) \in Nat
          /\ now \in 0 .. MaxTime /\ openSince \in 0 .. NoTime /\ now # NoTime
      BY DanglingFinite DEF TypeOK, NoTime
    <2>2. openSince' = NoTime <=> ~ActiveAfter(e)
      BY <1>2, <2>1 DEF Recompute
    <2>3. CASE NoChange(e, known)
      <3>1. UNCHANGED <<openId, rows, faults>> /\ (ActiveAfter(e) <=> openSince # NoTime)
        BY <2>3 DEF NoChange, Finish
      <3> QED
        BY <2>2, <3>1 DEF Spare
    <2>4. CASE Started(e, known)
      <3> DEFINE x == [start |-> now, end |-> NoTime, reason |-> "none"]
      <3>1. x \in UsageSession /\ x.end = NoTime
        BY <2>1 DEF UsageSession, NoTime, Reasons
      <3>2. /\ rows' = Append(rows, x) /\ openId' = Len(rows) + 1 /\ faults' = faults
            /\ ActiveAfter(e) /\ openSince = NoTime
        BY <2>4 DEF Started, Finish
      <3> HIDE DEF x
      <3>3. openId = 0 /\ Cardinality(Dangling(rows)) =< faults
        BY <2>1, <3>2 DEF Spare
      <3>4. openId' # 0 /\ openId' \in Dangling(rows')
            /\ Cardinality(Dangling(rows')) = Cardinality(Dangling(rows)) + 1
        BY <2>1, <3>1, <3>2, DanglingInsert
      <3> QED
        BY <2>1, <2>2, <3>2, <3>3, <3>4 DEF Spare
    <2>5. CASE Ended(e, known)
      <3>1. EndReason(e) \in Reasons /\ EndReason(e) # "none"
        BY DEF EndReason, Reasons
      <3>2. openId' = 0 /\ faults' = faults /\ openSince # NoTime
        BY <2>5 DEF Ended, Finish
      <3>3. CASE openId # 0
        <4>1. rows' = End(openId, EndReason(e)) /\ openId \in Dangling(rows)
          BY <2>5, <3>3 DEF Ended, Spare
        <4>2. Cardinality(Dangling(rows')) = Cardinality(Dangling(rows)) - 1
          BY <3>1, <4>1, DanglingEnd
        <4> QED
          BY <2>1, <3>2, <3>3, <4>2 DEF Spare
      <3>4. CASE openId = 0
        <4> DEFINE x == [start |-> openSince, end |-> now, reason |-> EndReason(e)]
        <4>1. x \in UsageSession /\ x.end # NoTime
          BY <2>1, <3>1, <3>2 DEF UsageSession, NoTime
        <4>2. rows' = Append(rows, x)
          BY <2>5, <3>4 DEF Ended
        <4> HIDE DEF x
        <4>3. Dangling(rows') = Dangling(rows)
          BY <2>1, <4>1, <4>2, DanglingInsert
        <4> QED
          BY <2>1, <3>2, <3>4, <4>3 DEF Spare
      <3> QED
        BY <3>3, <3>4
    <2>6. CASE WriteFails(e, known)
      <3>1. /\ rows' = rows /\ faults' = faults + 1 /\ ~(ActiveAfter(e) <=> openSince # NoTime)
            /\ openId' = IF ActiveAfter(e) THEN openId ELSE 0
        BY <2>6 DEF WriteFails
      <3>2. openId' = 0
        BY <3>1 DEF Spare
      <3>3. Cardinality(Dangling(rows')) =< faults + 1
        BY <2>1, <3>1 DEF Spare
      <3> QED
        BY <3>1, <3>2, <3>3, <2>1 DEF Spare
    <2> QED
      BY <1>2, <2>3, <2>4, <2>5, <2>6
  <1> QED
    BY <1>1, <1>2 DEF Handle

\* The three callers of handle_at.
LEMMA CallTypes ==
  ASSUME TypeOK, (\E s \in Sessions : SeedLogon(s)) \/ SeedLock \/ Dispatch
  PROVE  \E e \in SessionEvent, known \in SUBSET Sessions : Handle(e, known)
  <1>1. ASSUME NEW s \in Sessions, SeedLogon(s)
        PROVE  \E e \in SessionEvent, known \in SUBSET Sessions : Handle(e, known)
    <2>1. [kind |-> "logon", who |-> {s}] \in SessionEvent /\ named \cup {s} \in SUBSET Sessions
      BY DEF SessionEvent, Kinds, TypeOK
    <2> QED
      BY <1>1, <2>1 DEF SeedLogon
  <1>2. CASE SeedLock
    <2>1. [kind |-> "lock", who |-> relock] \in SessionEvent /\ named \in SUBSET Sessions
      BY DEF SessionEvent, Kinds, TypeOK
    <2> QED
      BY <1>2, <2>1 DEF SeedLock
  <1>3. CASE Dispatch
    <2>1. mail \in Seq(SessionEvent) /\ mail # <<>>
      BY <1>3 DEF Dispatch, TypeOK
    <2>2. Head(mail) \in SessionEvent
      BY <2>1
    <2>3. named \in SUBSET Sessions /\ named \cup Head(mail).who \in SUBSET Sessions
      BY <2>2 DEF TypeOK, SessionEvent
    <2> QED
      BY <1>3, <2>2, <2>3 DEF Dispatch
  <1> QED
    BY <1>1, <1>2, <1>3

\* The tracker's row and the rows that faults left, through every step.
LEMMA SpareStep ==
  ASSUME TypeOK, TypeOK', Spare, [Next]_vars
  PROVE  Spare'
  <1> USE UsageRecorderAssumption
  <1>1. /\ rows \in Seq(UsageSession) /\ faults \in Nat /\ Cardinality(Dangling(rows)) \in Nat
        /\ now \in 0 .. MaxTime /\ openId \in Nat
    BY DanglingFinite DEF TypeOK
  <1>2. ASSUME UNCHANGED <<openId, openSince, rows, faults>>, proc' = "stopping" => proc = "stopping"
        PROVE  Spare'
    BY <1>2 DEF Spare
  <1>3. CASE Outside
    <2>1. UNCHANGED <<openId, openSince, rows, faults, proc>>
      BY <1>3 DEF Outside, UserActs, MachineSleeps, MachineWakes, Tick, SetBack, tvars, rvars, bounds,
         seedvars
    <2> QED
      BY <1>2, <2>1
  <1>4. CASE (\E s \in Sessions : SeedLogon(s)) \/ SeedLock \/ Dispatch
    <2>1. proc' # "stopping"
      BY <1>4 DEF SeedLogon, SeedLock, Dispatch, seedvars
    <2> QED
      BY <1>4, <2>1, CallTypes, HandleSpare
  <1>5. CASE Enumerate \/ Seeded \/ RunFails
    BY <1>2, <1>5 DEF Enumerate, Seeded, RunFails, tvars, rvars, bounds, seedvars
  <1>6. CASE Start
    <2>1. UNCHANGED <<rows, faults>> /\ proc' = "listening"
      BY <1>6 DEF Start, bounds
    <2>2. CASE UNCHANGED <<openId, openSince>>
      BY <1>2, <2>1, <2>2
    <2>3. ASSUME NEW i \in Recoverable, openId' = i, openSince' = rows[i].start PROVE Spare'
      <3>1. i \in Dangling(rows) /\ rows[i] \in UsageSession
        BY <1>1 DEF Recoverable, Dangling
      <3>2. rows[i].start # NoTime /\ i # 0
        BY <1>1, <3>1 DEF UsageSession, NoTime, Dangling
      <3>3. Cardinality(Dangling(rows)) =< faults + 1
        BY <1>1 DEF Spare
      <3> QED
        BY <2>1, <2>3, <3>1, <3>2, <3>3 DEF Spare
    <2> QED
      BY <1>6, <2>2, <2>3 DEF Start
  <1>7. CASE Stop
    <2>1. openId' = 0 /\ faults' = faults + 1
      BY <1>7 DEF Stop
    <2>2. Cardinality(Dangling(rows)) =< faults + 1
      BY <1>1 DEF Spare
    <2>3. CASE rows' = rows
      BY <1>1, <2>1, <2>2, <2>3 DEF Spare
    <2>4. CASE openId # 0 /\ rows' = End(openId, "AgentShutdown")
      <3>1. openId \in Dangling(rows) /\ "AgentShutdown" \in Reasons
        BY <2>4 DEF Spare, Reasons
      <3>2. Cardinality(Dangling(rows')) = Cardinality(Dangling(rows)) - 1
        BY <2>4, <3>1, DanglingEnd
      <3> QED
        BY <1>1, <2>1, <2>2, <3>2 DEF Spare
    <2> QED
      BY <1>7, <2>3, <2>4 DEF Stop
  <1>8. CASE Stopped \/ Crash
    <2>1. openId' = 0 /\ rows' = rows /\ proc' = "down"
      BY <1>8 DEF Stopped, Crash, Forget
    <2>2. CASE Crash
      BY <1>1, <2>1, <2>2 DEF Crash, Spare
    <2>3. CASE Stopped
      BY <1>1, <2>1, <2>3 DEF Stopped, Spare, bounds
    <2> QED
      BY <1>8, <2>2, <2>3
  <1>9. CASE UNCHANGED vars
    BY <1>2, <1>9 DEF vars, tvars, rvars, bounds, seedvars
  <1>10. CASE Report
    <2>1. UNCHANGED <<openId, openSince, rows, proc>> /\ faults' \in {faults, faults + 1}
      BY <1>10 DEF Report, tvars, seedvars
    <2> QED
      BY <1>1, <2>1 DEF Spare
  <1> QED
    BY <1>3, <1>4, <1>5, <1>6, <1>7, <1>8, <1>9, <1>10 DEF Next, Agent

(***************************************************************************)
(* A failed write, a crash or a stop leaves at most one more row without   *)
(* an end, however many there are and in whatever order (store.rs, lib.rs, *)
(* from_store and shutdown).                                               *)
(***************************************************************************)
THEOREM FewDangle == Spec => []DanglingBounded
  <1>1. Init => Spare
    <2> SUFFICES ASSUME Init PROVE Spare
      OBVIOUS
    <2>1. Dangling(rows) = {} /\ faults = 0 /\ openId = 0 /\ proc = "down"
      BY DEF Init, Dangling
    <2> QED
      BY <2>1, FS_EmptySet DEF Spare
  <1>2. TypeOK /\ TypeOK' /\ Spare /\ [Next]_vars => Spare'
    BY SpareStep
  <1>3. TypeOK /\ Spare => DanglingBounded
    <2> SUFFICES ASSUME TypeOK, Spare PROVE DanglingBounded
      OBVIOUS
    <2>1. faults \in Nat /\ Cardinality(Dangling(rows)) \in Nat
      BY DanglingFinite DEF TypeOK
    <2> QED
      BY <2>1 DEF Spare, DanglingBounded
  <1> QED
    BY <1>1, <1>2, <1>3, UsageTypes, PTL DEF Spec

-----------------------------------------------------------------------------
(* What waits in the pump *)

\* A notification is posted behind the others.
LEMMA Posted ==
  ASSUME mail \in Seq(SessionEvent), NEW kind \in Kinds, NEW who \in SUBSET Sessions, Alive,
         Notify(kind, who)
  PROVE  /\ DOMAIN mail' = DOMAIN mail \cup {Len(mail) + 1}
         /\ Len(mail) + 1 \in Nat
         /\ \A i \in DOMAIN mail : i \in Nat /\ i < Len(mail) + 1 /\ mail'[i] = mail[i]
         /\ mail'[Len(mail) + 1] = [kind |-> kind, who |-> who]
         /\ \A s \in Sessions \ who : Mine(s)' = Mine(s)
         /\ \A s \in who : Mine(s)' = Mine(s) \cup {Len(mail) + 1}
  <1> DEFINE x == [kind |-> kind, who |-> who]
  <1>1. mail' = Append(mail, x)
    BY DEF Notify, Alive
  <1>2. x \in SessionEvent /\ x.kind = kind /\ x.who = who
    BY DEF SessionEvent
  <1> HIDE DEF x
  <1>3. /\ DOMAIN mail' = DOMAIN mail \cup {Len(mail) + 1}
        /\ Len(mail) + 1 \in Nat
        /\ \A i \in DOMAIN mail : i \in Nat /\ i < Len(mail) + 1 /\ mail'[i] = mail[i]
        /\ mail'[Len(mail) + 1] = x
    BY <1>1, <1>2
  <1>4. Len(mail) + 1 \notin DOMAIN mail
    OBVIOUS
  <1>5. \A s \in Sessions \ who : Mine(s)' = Mine(s)
    BY <1>2, <1>3, <1>4 DEF Mine
  <1>6. \A s \in who : Mine(s)' = Mine(s) \cup {Len(mail) + 1}
    BY <1>2, <1>3, <1>4 DEF Mine
  <1> QED
    BY <1>3, <1>5, <1>6 DEF x

\* The first notification leaves the pump, and the others move up.
LEMMA Taken ==
  ASSUME mail \in Seq(SessionEvent), mail # <<>>, mail' = Tail(mail)
  PROVE  /\ Head(mail) = mail[1] /\ 1 \in DOMAIN mail
         /\ \A i \in DOMAIN mail' : /\ i \in Nat /\ 1 =< i
                                    /\ i + 1 \in DOMAIN mail /\ mail'[i] = mail[i + 1]
         /\ \A i \in DOMAIN mail : /\ i \in Nat /\ i - 1 \in Int /\ 1 =< i
                                   /\ i # 1 => i - 1 \in DOMAIN mail' /\ mail'[i - 1] = mail[i]
  <1>1. /\ Len(mail) \in Nat /\ Len(mail) >= 1 /\ DOMAIN mail = 1 .. Len(mail)
        /\ DOMAIN mail' = 1 .. Len(mail) - 1
        /\ \A i \in 1 .. Len(mail) - 1 : mail'[i] = mail[i + 1]
    OBVIOUS
  <1>2. Head(mail) = mail[1]
    OBVIOUS
  <1>3. \A i \in DOMAIN mail : i # 1 => i - 1 \in 1 .. Len(mail) - 1 /\ (i - 1) + 1 = i
    BY <1>1
  <1> QED
    BY <1>1, <1>2, <1>3

\* The notifications about one session move up with the others.
LEMMA MineTaken ==
  ASSUME mail \in Seq(SessionEvent), mail # <<>>, mail' = Tail(mail), NEW s
  PROVE  /\ 1 \in Mine(s) <=> s \in Head(mail).who
         /\ \A i \in Mine(s)' : i \in Nat /\ 1 =< i /\ i + 1 \in Mine(s)
         /\ \A i \in Mine(s) : i \in Nat /\ (i # 1 => i - 1 \in Mine(s)')
  BY Taken DEF Mine

\* What handle_at does to the tracker.
LEMMA HandleTracker ==
  ASSUME TypeOK, NEW e \in SessionEvent, NEW known, Handle(e, known)
  PROVE  /\ \/ Repeated(e) /\ UNCHANGED <<sess, suspended, openSince>>
            \/ ~Repeated(e) /\ sess' = SessAfter(e) /\ suspended' = SuspendedAfter(e)
         /\ Counted => Counted'
  <1>1. CASE Repeated(e) /\ UNCHANGED <<tvars, rvars, rows, faults, torn>>
    BY <1>1 DEF tvars, Counted
  <1>2. CASE ~Repeated(e) /\ Recompute(e)
    <2>1. openSince' = NoTime => ~ActiveAfter(e)
      BY <1>2, UsageRecorderAssumption DEF Recompute, TypeOK, NoTime
    <2>2. sess' = SessAfter(e) /\ suspended' = SuspendedAfter(e)
      BY <1>2 DEF Recompute
    <2> QED
      BY <1>2, <2>1, <2>2 DEF Counted, ActiveAfter
  <1> QED
    BY <1>1, <1>2 DEF Handle

\* A session about which nothing was posted is as it was.
LEMMA SessionKept ==
  ASSUME NEW s, Shown(s), Gone(s), Mine(s)' = Mine(s), DOMAIN mail \subseteq DOMAIN mail',
         \A i \in DOMAIN mail : mail'[i] = mail[i],
         world'[s] = world[s], UNCHANGED <<proc, seeds, relock, sess, overlooked>>
  PROVE  Shown(s)' /\ Gone(s)'
  <1>1. \A i \in DOMAIN mail : Latest(s, i) => Latest(s, i)'
    BY DEF Latest
  <1>2. \A i \in DOMAIN mail : Latest(s, i) /\ WillShow(s, i) => WillShow(s, i)'
    BY DEF WillShow, Mine, Latest
  <1>3. Shown(s)'
    BY <1>1, <1>2 DEF Shown
  <1>4. Gone(s)'
    BY <1>1 DEF Gone
  <1> QED
    BY <1>3, <1>4

\* A user's step and the notification of it.
LEMMA UserFollows ==
  ASSUME TypeOK, Follows, NEW s \in Sessions, NEW kind \in Kinds, NEW st \in Standings,
         UserActs(s, kind, st)
  PROVE  Follows'
  <1>1. /\ ~asleep /\ asleep' = asleep
        /\ UNCHANGED <<proc, seeds, relock, sess, suspended, openSince, overlooked>>
        /\ world' = [world EXCEPT ![s] = st] /\ Moves(kind, world[s], st) /\ Notify(kind, {s})
        /\ mail \in Seq(SessionEvent)
    BY DEF UserActs, seedvars, tvars, hvars, TypeOK
  <1>2. CASE ~Alive
    <2>1. mail' = mail /\ ~Alive'
      BY <1>1, <1>2 DEF Notify, Alive
    <2> QED
      BY <1>1, <1>2, <2>1 DEF Follows, Phased
  <1>3. CASE Alive
    <2>0. PICK n \in Nat :
             /\ DOMAIN mail' = DOMAIN mail \cup {n}
             /\ \A i \in DOMAIN mail : i \in Nat /\ i < n /\ mail'[i] = mail[i]
             /\ mail'[n] = [kind |-> kind, who |-> {s}]
             /\ \A t \in Sessions \ {s} : Mine(t)' = Mine(t)
             /\ \A t \in {s} : Mine(t)' = Mine(t) \cup {n}
      <3>1. {s} \in SUBSET Sessions
        OBVIOUS
      <3> QED
        BY <1>1, <1>3, <3>1, Posted
    <2>1. /\ DOMAIN mail' = DOMAIN mail \cup {n} /\ n \in Nat
          /\ \A i \in DOMAIN mail : i \in Nat /\ i < n /\ mail'[i] = mail[i]
          /\ mail'[n].kind = kind /\ mail'[n].who = {s}
          /\ \A t \in Sessions \ {s} : Mine(t)' = Mine(t)
          /\ Mine(s)' = Mine(s) \cup {n}
      BY <2>0
    <2>2. Phased'
      BY <1>1, <1>3, <2>1 DEF Follows, Phased, Alive
    <2>3. Counted' /\ Alive'
      BY <1>1, <1>3 DEF Follows, Counted, Alive
    <2>4. kind \notin {"suspend", "resume"}
      BY <1>1 DEF Moves
    <2>5. Rouses'
      BY <1>1, <1>3, <2>1, <2>4 DEF Follows, Rouses
    <2>6. ASSUME NEW t \in Sessions, t # s PROVE Shown(t)' /\ Gone(t)'
      <3>1. Shown(t) /\ Gone(t)
        BY <1>3 DEF Follows
      <3>2. world'[t] = world[t] /\ Mine(t)' = Mine(t)
        BY <1>1, <2>1, <2>6 DEF TypeOK
      <3> QED
        BY <1>1, <2>1, <3>1, <3>2, SessionKept
    <2>7. n \in DOMAIN mail' /\ Latest(s, n)' /\ world'[s] = st
      BY <1>1, <2>1 DEF Latest, Mine, TypeOK
    <2>8. Gone(s)'
      <3>1. st = "absent" => kind = "logoff"
        BY <1>1 DEF Moves, Standings
      <3> QED
        BY <2>1, <2>7, <3>1 DEF Gone
    <2>9. Shown(s)'
      <3>1. st = "unlocked" => /\ kind \in {"logon", "unlock", "connect"}
                               /\ kind = "logon" => world[s] = "absent"
        BY <1>1 DEF Moves, Standings
      <3>2. ASSUME kind = "logon", world[s] = "absent" PROVE WillShow(s, n)'
        <4>1. Gone(s)
          BY <1>3 DEF Follows
        <4>2. CASE Mine(s) = {} /\ sess[s] = "none" /\ s \notin relock
          BY <1>1, <2>1, <3>2, <4>2 DEF WillShow
        <4>3. ASSUME NEW j \in DOMAIN mail, Latest(s, j), mail[j].kind = "logoff"
              PROVE  WillShow(s, n)'
          <5>1. j \in Mine(s)' /\ j < n /\ mail'[j].kind = "logoff"
            BY <2>1, <4>3 DEF Latest
          <5>2. \A k \in Mine(s)' : k =< j \/ n =< k
            BY <2>1, <4>3 DEF Latest
          <5> QED
            BY <2>1, <3>2, <5>1, <5>2 DEF WillShow
        <4> QED
          BY <3>2, <4>1, <4>2, <4>3 DEF Gone
      <3>3. ASSUME kind \in {"unlock", "connect"} PROVE WillShow(s, n)'
        BY <2>1, <3>3 DEF WillShow
      <3> QED
        BY <2>7, <3>1, <3>2, <3>3 DEF Shown
    <2> QED
      BY <2>2, <2>3, <2>5, <2>6, <2>8, <2>9 DEF Follows
  <1> QED
    BY <1>2, <1>3

\* The machine sleeps and wakes: no session changes.
LEMMA MachineFollows ==
  ASSUME TypeOK, Follows, MachineSleeps \/ MachineWakes
  PROVE  Follows'
  <1>1. PICK kind \in {"suspend", "resume"} :
          /\ Notify(kind, {})
          /\ asleep' = (kind = "suspend")
          /\ UNCHANGED <<world, proc, seeds, relock, sess, suspended, openSince, overlooked>>
    BY DEF MachineSleeps, MachineWakes, seedvars, tvars, hvars
  <1>2. mail \in Seq(SessionEvent) /\ kind \in Kinds /\ {} \in SUBSET Sessions
    BY DEF TypeOK, Kinds
  <1>3. CASE ~Alive
    <2>1. mail' = mail /\ ~Alive'
      BY <1>1, <1>3 DEF Notify, Alive
    <2> QED
      BY <1>1, <1>3, <2>1 DEF Follows, Phased
  <1>4. CASE Alive
    <2>0. PICK n \in Nat :
             /\ DOMAIN mail' = DOMAIN mail \cup {n}
             /\ \A i \in DOMAIN mail : i \in Nat /\ i < n /\ mail'[i] = mail[i]
             /\ mail'[n] = [kind |-> kind, who |-> {}]
             /\ \A t \in Sessions \ {} : Mine(t)' = Mine(t)
      BY <1>1, <1>2, <1>4, Posted
    <2>1. /\ DOMAIN mail' = DOMAIN mail \cup {n} /\ n \in Nat
          /\ \A i \in DOMAIN mail : i \in Nat /\ i < n /\ mail'[i] = mail[i]
          /\ mail'[n].kind = kind /\ mail'[n].who = {}
          /\ \A t \in Sessions : Mine(t)' = Mine(t)
      BY <2>0
    <2>2. Phased'
      BY <1>1, <1>4, <2>1 DEF Follows, Phased, Alive
    <2>3. Counted' /\ Alive'
      BY <1>1, <1>4 DEF Follows, Counted, Alive
    <2>4. Rouses'
      BY <1>1, <1>4, <2>1 DEF Rouses
    <2>5. ASSUME NEW t \in Sessions PROVE Shown(t)' /\ Gone(t)'
      <3>1. Shown(t) /\ Gone(t)
        BY <1>4 DEF Follows
      <3> QED
        BY <1>1, <2>1, <3>1, SessionKept
    <2> QED
      BY <2>2, <2>3, <2>4, <2>5 DEF Follows
  <1> QED
    BY <1>3, <1>4

\* A session the process finds at startup is announced, and one found locked is hidden.
LEMMA SeedFollows ==
  ASSUME TypeOK, Follows, (\E s \in Sessions : SeedLogon(s)) \/ SeedLock
  PROVE  Follows'
  <1>1. /\ proc = "seeding" /\ UNCHANGED <<world, asleep, mail, proc, overlooked>>
        /\ Alive /\ Alive'
    BY DEF SeedLogon, SeedLock, wvars, Alive
  <1>2. /\ Phased /\ Counted /\ Rouses
        /\ \A s \in Sessions : Shown(s) /\ Gone(s)
    BY <1>1 DEF Follows
  <1>3. Phased'
    BY <1>1, <1>2 DEF Phased
  <1>4. ASSUME NEW e \in SessionEvent, NEW known, Handle(e, known), e.kind \in {"logon", "lock"}
        PROVE  Counted' /\ suspended' = suspended
    <2>1. suspended \in BOOLEAN
      BY DEF TypeOK
    <2> QED
      BY <1>2, <1>4, <2>1, HandleTracker DEF SuspendedAfter
  <1>5. ASSUME suspended' = suspended PROVE Rouses'
    BY <1>1, <1>2, <1>5 DEF Rouses
  <1>6. \A s : Mine(s)' = Mine(s) /\ \A i : (Latest(s, i)' <=> Latest(s, i))
    BY <1>1 DEF Mine, Latest
  <1>7. ASSUME NEW s \in Sessions, sess'[s] = sess[s], s \notin relock',
               s \in seeds' <=> s \in seeds
        PROVE  Shown(s)' /\ Gone(s)'
    <2>1. \A i : WillShow(s, i) => WillShow(s, i)'
      BY <1>1, <1>6, <1>7 DEF WillShow
    <2>2. Shown(s)'
      BY <1>1, <1>2, <1>6, <1>7, <2>1 DEF Shown
    <2>3. Gone(s)'
      BY <1>1, <1>2, <1>6, <1>7 DEF Gone
    <2> QED
      BY <2>2, <2>3
  <1>8. ASSUME NEW s \in Sessions, SeedLogon(s) PROVE Follows'
    <2> DEFINE e == [kind |-> "logon", who |-> {s}]
    <2>1. e \in SessionEvent /\ e.kind = "logon" /\ e.who = {s}
      BY DEF SessionEvent, Kinds
    <2>2. /\ s \in seeds /\ seeds' = seeds \ {s} /\ Handle(e, named \cup {s})
          /\ relock' = {} \/ (relock' = {s} /\ world[s] \in {"locked", "locked away"})
      BY <1>8 DEF SeedLogon
    <2> HIDE DEF e
    <2>3. Counted' /\ Rouses'
      BY <1>4, <1>5, <2>1, <2>2
    <2>4. /\ sess'[s] = (IF sess[s] = "none" THEN "visible" ELSE sess[s])
          /\ \A t \in Sessions \ {s} : sess'[t] = sess[t]
      <3>1. \/ Repeated(e) /\ sess' = sess
            \/ ~Repeated(e) /\ sess' = SessAfter(e)
        BY <2>1, <2>2, HandleTracker
      <3>2. Repeated(e) <=> sess[s] # "none"
        BY <2>1 DEF Repeated
      <3>3. SessAfter(e)[s] = "visible" /\ \A t \in Sessions \ {s} : SessAfter(e)[t] = sess[t]
        BY <2>1 DEF SessAfter, Presence
      <3> QED
        BY <3>1, <3>2, <3>3
    <2>5. ASSUME NEW t \in Sessions, t # s PROVE Shown(t)' /\ Gone(t)'
      BY <1>7, <2>2, <2>4, <2>5
    <2>6. Gone(s)'
      BY <1>1, <1>2, <1>6, <2>2 DEF Gone
    <2>7. Shown(s)'
      <3> SUFFICES ASSUME world[s] = "unlocked" PROVE Shown(s)'
        BY <1>1 DEF Shown
      <3>1. relock' = {}
        BY <2>2
      <3>2. \A i : WillShow(s, i) => WillShow(s, i)'
        BY <1>1, <1>6, <2>4, <3>1 DEF WillShow
      <3>3. CASE \E i \in DOMAIN mail : Latest(s, i) /\ WillShow(s, i)
        BY <1>1, <1>6, <3>2, <3>3 DEF Shown
      <3>4. CASE /\ Mine(s) = {}
                 /\ s \notin overlooked => sess[s] \in {"visible", "none"}
        BY <1>1, <1>6, <2>4, <3>1, <3>4 DEF Shown
      <3> QED
        BY <1>1, <1>2, <3>3, <3>4 DEF Shown
    <2> QED
      BY <1>1, <1>3, <2>3, <2>5, <2>6, <2>7 DEF Follows
  <1>9. CASE SeedLock
    <2> DEFINE e == [kind |-> "lock", who |-> relock]
    <2>1. e \in SessionEvent /\ e.kind = "lock" /\ e.who = relock
      BY DEF SessionEvent, Kinds, TypeOK
    <2>2. relock' = {} /\ seeds' = seeds /\ Handle(e, named)
      BY <1>9 DEF SeedLock
    <2> HIDE DEF e
    <2>3. Counted' /\ Rouses'
      BY <1>4, <1>5, <2>1, <2>2
    <2>4. \A t \in Sessions \ relock : sess'[t] = sess[t]
      BY <2>1, <2>2, HandleTracker DEF Repeated, SessAfter, TypeOK
    <2>5. ASSUME NEW t \in Sessions, t \notin relock PROVE Shown(t)' /\ Gone(t)'
      BY <1>7, <2>2, <2>4, <2>5
    <2>6. ASSUME NEW t \in Sessions, t \in relock PROVE Shown(t)' /\ Gone(t)'
      <3>1. \A i : WillShow(t, i) => WillShow(t, i)'
        BY <1>1, <1>6, <2>6 DEF WillShow
      <3>2. Shown(t)'
        BY <1>1, <1>2, <1>6, <2>6, <3>1 DEF Shown
      <3>3. Gone(t)'
        BY <1>1, <1>2, <1>6, <2>6 DEF Gone
      <3> QED
        BY <3>2, <3>3
    <2> QED
      BY <1>1, <1>3, <2>3, <2>5, <2>6 DEF Follows
  <1> QED
    BY <1>8, <1>9

\* The pump dispatches its first notification.
LEMMA DispatchFollows ==
  ASSUME TypeOK, Follows, Dispatch
  PROVE  Follows'
  <1> DEFINE e == Head(mail)
  <1>1. /\ proc = "running" /\ UNCHANGED <<world, asleep, proc, seeds, relock>>
        /\ mail # <<>> /\ mail' = Tail(mail) /\ mail \in Seq(SessionEvent)
        /\ overlooked' = overlooked \ e.who
        /\ \E known : Handle(e, known)
        /\ Alive /\ Alive'
    BY DEF Dispatch, seedvars, Alive, TypeOK
  <1>2. /\ Phased /\ Counted /\ Rouses
        /\ \A s \in Sessions : Shown(s) /\ Gone(s)
        /\ seeds = {} /\ relock = {}
    BY <1>1 DEF Follows, Phased
  <1>3. /\ e = mail[1] /\ 1 \in DOMAIN mail /\ e \in SessionEvent
        /\ \A i \in DOMAIN mail' : i \in Nat /\ i + 1 \in DOMAIN mail /\ mail'[i] = mail[i + 1]
        /\ \A i \in DOMAIN mail : /\ i \in Nat /\ i - 1 \in Int /\ 1 =< i
                                  /\ i # 1 => i - 1 \in DOMAIN mail' /\ mail'[i - 1] = mail[i]
    BY <1>1, Taken
  <1>4. PICK f \in SessionEvent : f = e
    BY <1>3
  <1> HIDE DEF e
  <1>5. /\ \/ Repeated(f) /\ UNCHANGED <<sess, suspended, openSince>>
           \/ ~Repeated(f) /\ sess' = SessAfter(f) /\ suspended' = SuspendedAfter(f)
        /\ Counted'
    BY <1>1, <1>2, <1>3, <1>4, HandleTracker
  <1>6. Phased'
    BY <1>1, <1>2, <1>3 DEF Phased
  <1>7. Rouses'
    <2> SUFFICES ASSUME ~asleep PROVE Rouses'
      BY <1>1 DEF Rouses
    <2>1. ASSUME NEW j \in DOMAIN mail, j # 1, mail[j].kind = "resume"
          PROVE  \E k \in DOMAIN mail' : mail'[k].kind = "resume"
      BY <1>3, <2>1
    <2>2. suspended' => \E j \in DOMAIN mail' : mail'[j].kind = "resume"
      <3>1. CASE f.kind = "suspend"
        <4>1. PICK j \in DOMAIN mail : 1 < j /\ mail[j].kind = "resume"
          BY <1>2, <1>3, <1>4, <3>1 DEF Rouses
        <4> QED
          BY <2>1, <4>1
      <3>2. CASE f.kind = "resume"
        BY <1>5, <3>2 DEF SuspendedAfter, Repeated
      <3>3. CASE f.kind \notin {"suspend", "resume"}
        <4>1. suspended' => suspended
          BY <1>5, <3>3 DEF SuspendedAfter, TypeOK
        <4>2. suspended => \E j \in DOMAIN mail : mail[j].kind = "resume" /\ j # 1
          BY <1>2, <1>3, <1>4, <3>3 DEF Rouses
        <4> QED
          BY <2>1, <4>1, <4>2
      <3> QED
        BY <3>1, <3>2, <3>3
    <2>3. ASSUME NEW i \in DOMAIN mail', mail'[i].kind = "suspend"
          PROVE  \E j \in DOMAIN mail' : i < j /\ mail'[j].kind = "resume"
      <3>1. i \in Nat /\ i + 1 \in DOMAIN mail /\ mail[i + 1].kind = "suspend"
        BY <1>3, <2>3
      <3>2. PICK j \in DOMAIN mail : i + 1 < j /\ mail[j].kind = "resume"
        BY <1>2, <3>1 DEF Rouses
      <3>3. j \in Nat /\ j - 1 \in DOMAIN mail' /\ i < j - 1 /\ mail'[j - 1] = mail[j]
        BY <1>3, <3>1, <3>2
      <3> QED
        BY <3>2, <3>3
    <2> QED
      BY <2>2, <2>3 DEF Rouses
  <1>8. ASSUME NEW s \in Sessions PROVE Shown(s)' /\ Gone(s)'
    <2>1. /\ 1 \in Mine(s) <=> s \in f.who
          /\ \A i \in Mine(s)' : i \in Nat /\ 1 =< i /\ i + 1 \in Mine(s)
          /\ \A i \in Mine(s) : i \in Nat /\ i - 1 \in Int /\ (i # 1 => i - 1 \in Mine(s)')
      BY <1>1, <1>3, <1>4, MineTaken DEF e
    <2>2. ASSUME NEW i \in Mine(s), Latest(s, i), i # 1
          PROVE  i - 1 \in DOMAIN mail' /\ Latest(s, i - 1)' /\ mail'[i - 1] = mail[i]
      <3>1. i - 1 \in DOMAIN mail' /\ mail'[i - 1] = mail[i] /\ i - 1 \in Mine(s)'
        BY <1>3, <2>1, <2>2 DEF Mine
      <3>2. \A j \in Mine(s)' : j =< i - 1
        BY <2>1, <2>2 DEF Latest
      <3>3. \A m \in Int : m = i - 1 => Latest(s, m)'
        BY <3>1, <3>2 DEF Latest
      <3> QED
        BY <2>1, <3>1, <3>3
    <2>3. ASSUME Latest(s, 1) PROVE Mine(s)' = {}
      BY <2>1, <2>3 DEF Latest
    <2>4. s \notin f.who => sess'[s] = sess[s]
      BY <1>5 DEF SessAfter
    <2>5. s \in f.who => f.who = {s} /\ 1 \in Mine(s)
      BY <1>2, <1>3, <1>4, <2>1 DEF Phased
    <2>6. s \in f.who /\ f.kind = "logoff" => sess'[s] = "none"
      BY <1>5 DEF SessAfter, Presence, Repeated
    <2>7. s \in f.who /\ f.kind \in {"unlock", "connect"} => sess'[s] = "visible"
      BY <1>5 DEF SessAfter, Presence, Repeated
    <2>8. s \in f.who /\ f.kind = "logon" /\ sess[s] # "hidden" => sess'[s] = "visible"
      BY <1>5, <2>5 DEF SessAfter, Presence, Repeated, TypeOK
    <2>9. Gone(s)'
      <3> SUFFICES ASSUME world[s] = "absent" PROVE Gone(s)'
        BY <1>1 DEF Gone
      <3>1. CASE Mine(s) = {} /\ sess[s] = "none"
        <4>1. Mine(s)' = {} /\ sess'[s] = "none"
          BY <2>1, <2>4, <3>1
        <4> QED
          BY <1>1, <1>2, <4>1 DEF Gone
      <3>2. ASSUME NEW i \in DOMAIN mail, Latest(s, i), mail[i].kind = "logoff" PROVE Gone(s)'
        <4>1. i \in Mine(s)
          BY <3>2 DEF Latest
        <4>2. CASE i = 1
          <5>1. Mine(s)' = {} /\ sess'[s] = "none"
            BY <1>3, <1>4, <2>1, <2>3, <2>6, <3>2, <4>1, <4>2
          <5> QED
            BY <1>1, <1>2, <5>1 DEF Gone
        <4>3. CASE i # 1
          <5>1. i - 1 \in DOMAIN mail' /\ Latest(s, i - 1)' /\ mail'[i - 1].kind = "logoff"
            BY <2>2, <3>2, <4>1, <4>3
          <5>2. \E k \in DOMAIN mail' : Latest(s, k)' /\ mail'[k].kind = "logoff"
            BY <5>1
          <5> QED
            BY <5>2 DEF Gone
        <4> QED
          BY <4>2, <4>3
      <3> QED
        BY <1>2, <3>1, <3>2 DEF Gone
    <2>10. Shown(s)'
      <3> SUFFICES ASSUME world[s] = "unlocked" PROVE Shown(s)'
        BY <1>1 DEF Shown
      <3>1. CASE Mine(s) = {} /\ (s \notin overlooked => sess[s] = "visible")
        <4>1. Mine(s)' = {} /\ sess'[s] = sess[s] /\ (s \notin overlooked' => s \notin overlooked)
          BY <1>1, <1>4, <2>1, <2>4, <3>1
        <4> QED
          BY <1>1, <3>1, <4>1 DEF Shown
      <3>2. ASSUME NEW i \in DOMAIN mail, Latest(s, i), WillShow(s, i) PROVE Shown(s)'
        <4>1. i \in Mine(s) /\ i \in Nat
          BY <2>1, <3>2 DEF Latest
        <4>2. CASE i = 1
          <5>1. mail[1] = f /\ s \in f.who
            BY <1>3, <1>4, <2>1, <4>1, <4>2
          <5>2. f.kind = "logon" => sess[s] # "hidden"
            BY <2>1, <3>2, <4>2, <5>1 DEF WillShow, Latest
          <5>3. sess'[s] = "visible"
            BY <2>7, <2>8, <3>2, <4>2, <5>1, <5>2 DEF WillShow
          <5> QED
            BY <1>1, <2>3, <3>2, <4>2, <5>3 DEF Shown
        <4>3. CASE i # 1
          <5>1. PICK m \in Int : m = i - 1
            BY <4>1
          <5>2. m \in DOMAIN mail' /\ Latest(s, m)' /\ mail'[m] = mail[i]
            BY <2>2, <3>2, <4>1, <4>3, <5>1
          <5>3. WillShow(s, m)'
            <6>1. CASE mail[i].kind # "logon"
              BY <3>2, <5>2, <6>1 DEF WillShow
            <6>2. CASE Mine(s) = {i} /\ sess[s] # "hidden"
              <7>1. Mine(s)' = {m}
                BY <2>1, <4>1, <4>3, <5>1, <6>2
              <7>2. sess'[s] = sess[s]
                BY <2>1, <2>4, <4>3, <6>2
              <7> QED
                BY <1>1, <1>2, <3>2, <5>2, <6>2, <7>1, <7>2 DEF WillShow
            <6>3. ASSUME NEW j \in Mine(s), j < i, mail[j].kind = "logoff",
                         \A k \in Mine(s) : k =< j \/ i =< k
                  PROVE  WillShow(s, m)'
              <7>1. j \in Nat /\ j \in DOMAIN mail
                BY <2>1, <6>3 DEF Mine
              <7>2. CASE j = 1
                <8>1. s \in f.who /\ f.kind = "logoff"
                  BY <1>3, <1>4, <2>1, <6>3, <7>2
                <8>2. \A k \in Mine(s)' : k = m
                  BY <2>1, <3>2, <4>1, <5>1, <6>3, <7>2 DEF Latest
                <8>3. Mine(s)' = {m}
                  BY <5>2, <8>2 DEF Latest
                <8> QED
                  BY <1>1, <1>2, <2>6, <3>2, <5>2, <8>1, <8>3 DEF WillShow
              <7>3. CASE j # 1
                <8>1. PICK n \in Int : n = j - 1
                  BY <7>1
                <8>2. n \in Mine(s)' /\ n < m /\ mail'[n].kind = "logoff"
                  BY <1>3, <2>1, <4>1, <5>1, <6>3, <7>1, <7>3, <8>1
                <8>3. \A k \in Mine(s)' : k =< n \/ m =< k
                  BY <2>1, <4>1, <5>1, <6>3, <7>1, <8>1
                <8> QED
                  BY <3>2, <5>2, <8>2, <8>3 DEF WillShow
              <7> QED
                BY <7>2, <7>3
            <6> QED
              BY <3>2, <6>1, <6>2, <6>3 DEF WillShow
          <5> QED
            BY <5>2, <5>3 DEF Shown
        <4> QED
          BY <4>2, <4>3
      <3> QED
        BY <1>1, <1>2, <3>1, <3>2 DEF Shown
    <2> QED
      BY <2>9, <2>10
  <1> QED
    BY <1>1, <1>5, <1>6, <1>7, <1>8 DEF Follows

\* The rest of the process's life: nothing is known before the sessions are announced.
LEMMA LifeFollows ==
  ASSUME TypeOK, Follows, Start \/ Enumerate \/ Seeded \/ Stop \/ Stopped \/ Crash
  PROVE  Follows'
  <1>1. CASE Start
    <2>1. /\ proc = "down" /\ proc' = "listening"
          /\ UNCHANGED <<world, asleep, mail, seeds, relock, sess, suspended, overlooked>>
      BY <1>1 DEF Start, wvars, hvars
    <2>2. /\ mail = <<>> /\ sess = [s \in Sessions |-> "none"] /\ seeds = {} /\ relock = {}
          /\ suspended = FALSE /\ Phased
      BY <2>1 DEF Follows, Phased
    <2>3. DOMAIN mail' = {} /\ \A s : Mine(s)' = {}
      BY <2>1, <2>2 DEF Mine
    <2>4. Phased'
      BY <2>1, <2>2, <2>3 DEF Phased
    <2>5. Counted' /\ Rouses'
      BY <2>1, <2>2, <2>3 DEF Counted, Rouses
    <2>6. \A s \in Sessions : Shown(s)' /\ Gone(s)'
      BY <2>1, <2>2, <2>3 DEF Shown, Gone
    <2> QED
      BY <2>4, <2>5, <2>6 DEF Follows
  <1>2. CASE Enumerate
    <2>1. /\ proc = "listening" /\ proc' = "seeding"
          /\ UNCHANGED <<world, asleep, mail, relock, sess, suspended, openSince>>
      BY <1>2 DEF Enumerate, wvars, tvars
    <2>2. \A s \in Sessions : /\ world[s] = "unlocked" => s \in seeds' \/ s \in overlooked'
                              /\ world[s] = "absent" => s \notin seeds'
      BY <1>2 DEF Enumerate
    <2>3. /\ sess = [s \in Sessions |-> "none"] /\ relock = {} /\ Phased /\ Counted /\ Rouses
          /\ \A s \in Sessions : Shown(s) /\ Gone(s)
      BY <2>1 DEF Follows, Phased, Alive
    <2>4. \A s : Mine(s)' = Mine(s) /\ \A i : (Latest(s, i)' <=> Latest(s, i))
      BY <2>1 DEF Mine, Latest
    <2>5. Phased' /\ Counted' /\ Rouses'
      BY <2>1, <2>3 DEF Phased, Counted, Rouses
    <2>6. ASSUME NEW s \in Sessions PROVE Shown(s)' /\ Gone(s)'
      <3>1. \A i : WillShow(s, i) => WillShow(s, i)'
        BY <2>1, <2>4 DEF WillShow
      <3>2. Shown(s)'
        BY <2>1, <2>2, <2>3, <2>4, <3>1 DEF Shown
      <3>3. Gone(s)'
        BY <2>1, <2>2, <2>3, <2>4 DEF Gone
      <3> QED
        BY <3>2, <3>3
    <2> QED
      BY <2>5, <2>6 DEF Follows
  <1>3. CASE Seeded
    <2>1. /\ proc = "seeding" /\ proc' = "running" /\ seeds = {} /\ relock = {}
          /\ UNCHANGED <<world, asleep, mail, seeds, relock, sess, suspended, openSince, overlooked>>
      BY <1>3 DEF Seeded, wvars, tvars, hvars
    <2>2. /\ Phased /\ Counted /\ Rouses
          /\ \A s \in Sessions : Shown(s) /\ Gone(s)
      BY <2>1 DEF Follows, Alive
    <2>3. \A s : Mine(s)' = Mine(s) /\ \A i : (Latest(s, i)' <=> Latest(s, i))
      BY <2>1 DEF Mine, Latest
    <2>4. Phased' /\ Counted' /\ Rouses'
      BY <2>1, <2>2 DEF Phased, Counted, Rouses
    <2>5. ASSUME NEW s \in Sessions PROVE Shown(s)' /\ Gone(s)'
      <3>1. \A i : WillShow(s, i) => WillShow(s, i)'
        BY <2>1, <2>3 DEF WillShow
      <3>2. Shown(s)'
        BY <2>1, <2>2, <2>3, <3>1 DEF Shown
      <3>3. Gone(s)'
        BY <2>1, <2>2, <2>3 DEF Gone
      <3> QED
        BY <3>2, <3>3
    <2> QED
      BY <2>4, <2>5 DEF Follows
  <1>4. CASE Stop
    <2>1. proc' = "stopping" /\ mail' = <<>>
      BY <1>4 DEF Stop
    <2> QED
      BY <2>1 DEF Follows, Phased, Alive
  <1>5. CASE Stopped \/ Crash
    <2>1. Forget
      BY <1>5 DEF Stopped, Crash
    <2> QED
      BY <2>1 DEF Forget, Follows, Phased, Alive
  <1> QED
    BY <1>1, <1>2, <1>3, <1>4, <1>5

\* Time passes, or a report is queued: nothing that the tracker follows.
LEMMA FollowsKept ==
  ASSUME Follows, UNCHANGED <<world, asleep, mail, proc, seeds, relock, sess, suspended, openSince>>,
         UNCHANGED overlooked
  PROVE  Follows'
  <1>1. \A s : Mine(s)' = Mine(s) /\ \A i : (Latest(s, i)' <=> Latest(s, i))
    BY DEF Mine, Latest
  <1>2. \A s, i : WillShow(s, i)' <=> WillShow(s, i)
    BY <1>1 DEF WillShow
  <1>3. \A s : (Shown(s)' <=> Shown(s)) /\ (Gone(s)' <=> Gone(s))
    BY <1>1, <1>2 DEF Shown, Gone
  <1>4. Phased' /\ (Counted' <=> Counted) /\ (Rouses' <=> Rouses) /\ (Alive' <=> Alive)
    BY DEF Follows, Phased, Counted, Rouses, Alive
  <1> QED
    BY <1>3, <1>4 DEF Follows

(***************************************************************************)
(* Once the pump is empty an unlocked session on a screen counts as use:   *)
(* for any number of sessions and any order of what users, the machine and *)
(* the process do, startup and recovery included (tracker.rs; platform/    *)
(* windows.rs, seed_active_sessions and dispatch).                         *)
(***************************************************************************)
THEOREM UseTracked == Spec => []UseIsTracked
  <1>1. Init => Follows
    <2> SUFFICES ASSUME Init PROVE Follows
      OBVIOUS
    <2>1. proc = "down" /\ DOMAIN mail = {}
      BY DEF Init
    <2> QED
      BY <2>1 DEF Init, Follows, Phased, Alive
  <1>2. TypeOK /\ Follows /\ [Next]_vars => Follows'
    <2> SUFFICES ASSUME TypeOK, Follows, [Next]_vars PROVE Follows'
      OBVIOUS
    <2>1. CASE Tick
      BY <2>1, FollowsKept DEF Tick, wvars, seedvars, tvars, hvars
    <2>2. CASE Report
      BY <2>2, FollowsKept DEF Report, wvars, seedvars, tvars
    <2>4. CASE RunFails
      BY <2>4, FollowsKept DEF RunFails, wvars, seedvars, tvars
    <2>5. ASSUME NEW t \in 0 .. MaxTime, SetBack(t) PROVE Follows'
      BY <2>5, FollowsKept DEF SetBack, wvars, seedvars, tvars
    <2>3. CASE UNCHANGED vars
      BY <2>3, FollowsKept DEF vars, wvars, seedvars, tvars, hvars
    <2> QED
      BY <2>1, <2>2, <2>3, <2>4, <2>5, UserFollows, MachineFollows, SeedFollows, DispatchFollows, LifeFollows
         DEF Next, Outside, Agent
  <1>3. Follows => UseIsTracked
    <2> SUFFICES ASSUME Follows, proc = "running", mail = <<>>, ~asleep,
                        NEW s \in Sessions \ overlooked, world[s] = "unlocked"
                 PROVE  openSince # NoTime
      BY DEF UseIsTracked
    <2>1. Counted /\ Rouses /\ Shown(s) /\ DOMAIN mail = {}
      BY DEF Follows, Alive
    <2>2. ~suspended
      BY <2>1 DEF Rouses
    <2>3. sess[s] = "visible"
      BY <2>1 DEF Shown
    <2> QED
      BY <2>1, <2>2, <2>3 DEF Counted
  <1> QED
    BY <1>1, <1>2, <1>3, UsageTypes, PTL DEF Spec
=============================================================================
