--------------------------- MODULE NoticesProofs ---------------------------
(***************************************************************************)
(* Machine-checked proofs about Notices, for any schedules, thresholds and *)
(* polling intervals that NoticesAssumption allows.                        *)
(*                                                                         *)
(* What is warned now was decided at the last poll, so the invariant says  *)
(* what that poll saw (SawAt) and how long ago it can have been: a         *)
(* notifier that has been left alone for longer than it can sleep has      *)
(* polled since (quiet + sleep > SlowPoll).                                *)
(***************************************************************************)
EXTENDS Notices, WellFoundedInduction, TLAPS

\* The notifier's last poll was answered at time p of the service's clock and still holds.
SawAt(p) ==
    /\ p =< Now
    /\ Now - p + sleep = NextPoll(known, p)
    /\ known = Upcoming(Announced, p)
    /\ \A a \in known : Crossed(a, p) # {} =>
          a \in DOMAIN screen /\ <<a, Tightest(a, p)>> \in warned

\* Somebody is there to count, or nothing has been counted.
QuietIsServed == (service # "open" \/ notifier = "off") => quiet = 0

ReplyIsCurrent ==
    notifier = "reading" /\ quiet > 0 =>
        reply.now = Now /\ reply.actions = Upcoming(Announced, Now)

LastPollHolds ==
    notifier = "idle" /\ quiet + sleep > SlowPoll => \E p \in Int : SawAt(p)

\* What the engine takes for shown is shown.
FiredIsShown == \A f \in fired : f \in warned /\ f[1] \in DOMAIN screen

\* StruckIsWarned, also after the window's end.
PastIsWarned ==
    gate => \A w \in cache.windows, t \in Thresholds :
               /\ w.off =< Now
               /\ quiet > Now - w.off + SlowPoll
               /\ Latency(t) =< t
               => Warned(Action(w), t)

NoticeInv ==
    /\ TypeOK
    /\ QuietIsServed
    /\ ReplyIsCurrent
    /\ LastPollHolds
    /\ FiredIsShown
    /\ PastIsWarned

-----------------------------------------------------------------------------
(* Thresholds, actions and intervals *)

\* A set of naturals has a least element.
LEMMA LeastNat ==
    ASSUME NEW S \in SUBSET Nat, S # {}
    PROVE  \E n \in S : \A m \in S : n =< m
  <1>1. PICK x \in S : \A y \in S : ~ (<<y, x>> \in OpToRel(<, Nat))
    BY WFMin, NatLessThanWellFounded
  <1>2. \A y \in S : ~(y < x)
    BY <1>1 DEF OpToRel
  <1> QED
    BY <1>2

\* The tightest of the thresholds crossed.
LEMMA TightestIsLeast ==
    ASSUME NEW a, NEW now, Crossed(a, now) # {}
    PROVE  /\ Tightest(a, now) \in Thresholds
           /\ Tightest(a, now) \in Crossed(a, now)
           /\ \A t \in Crossed(a, now) : Tightest(a, now) =< t
  <1>1. Crossed(a, now) \in SUBSET Nat /\ Crossed(a, now) \subseteq Thresholds
    BY NoticesAssumption DEF Crossed
  <1>2. \E t \in Crossed(a, now) : \A u \in Crossed(a, now) : t =< u
    BY <1>1, LeastNat
  <1> QED
    BY <1>1, <1>2 DEF Tightest

\* The constants are numbers.
LEMMA Numbers ==
    /\ FastPoll \in Nat /\ FastPoll > 0 /\ SlowPoll \in Nat /\ FastWithin \in Nat /\ Horizon \in Nat
    /\ FastPoll =< SlowPoll /\ FastWithin =< Horizon
    /\ \A t \in Thresholds : t \in Nat /\ t =< Horizon
  BY NoticesAssumption

\* The interval to the next poll is one of two.
LEMMA NextPollType ==
    ASSUME NEW live, NEW now
    PROVE  NextPoll(live, now) \in {FastPoll, SlowPoll} /\ NextPoll(live, now) \in 0 .. SlowPoll
  BY Numbers DEF NextPoll

\* The time of an action of the cache is its window's start.
LEMMA ActionTime ==
    ASSUME TypeOK, NEW w \in cache.windows
    PROVE  Action(w) \in Actions /\ At(Action(w)) = w.off /\ w.off \in Int
  BY NoticesAssumption DEF TypeOK, Action, Actions, At

\* What is announced is an action of the cache, ahead and within the horizon.
LEMMA UpcomingIs ==
    ASSUME TypeOK, NEW now \in Int, NEW a
    PROVE  a \in Upcoming(Announced, now)
             <=> /\ gate
                 /\ \E w \in cache.windows : /\ a = Action(w)
                                             /\ now < w.off /\ w.off =< now + Horizon
  BY DEF Upcoming, Announced

\* ... and an action.
LEMMA UpcomingType ==
    ASSUME TypeOK, NEW now \in Int
    PROVE  Upcoming(Announced, now) \subseteq Actions
  BY UpcomingIs, ActionTime

\* Actions happen at whole seconds.
LEMMA ActionsType == \A a \in Actions : At(a) \in Int
  BY NoticesAssumption DEF Actions, At

\* The trusted time is a whole number of seconds.
LEMMA NowType == TypeOK => Now \in Int
  BY NoticesAssumption DEF TypeOK, Now

-----------------------------------------------------------------------------
(* What follows from the last poll *)

(***************************************************************************)
(* An action of the cache whose threshold t was crossed at least Latency   *)
(* ago, or is due next second at the latest, has been warned of: the last  *)
(* poll was recent enough to see it.                                       *)
(***************************************************************************)
LEMMA SeenIsWarned ==
    ASSUME TypeOK, gate, sleep > 0, NEW p \in Int, SawAt(p),
           NEW w \in cache.windows, NEW t \in Thresholds,
           Now < w.off,
           \/ w.off - Now + Latency(t) =< t
           \/ w.off = Now + 1 /\ Latency(t) =< t
    PROVE  Action(w) \in DOMAIN screen /\ Warned(Action(w), t)
  <1> DEFINE a == Action(w)
             i == NextPoll(known, p)
  <1>1. /\ Now \in Int /\ w.off \in Int /\ At(a) = w.off /\ sleep \in Int
        /\ t \in Nat /\ t =< Horizon
    BY NowType, ActionTime, Numbers DEF TypeOK
  <1>2. p =< Now /\ Now - p + sleep = i /\ i \in {FastPoll, SlowPoll}
    BY NextPollType DEF SawAt
  <1>3. w.off - p =< w.off - Now + i - 1
    BY <1>1, <1>2, Numbers
  <1>4. w.off - p =< t
    <2>1. CASE i =< Latency(t)
      BY <1>1, <1>2, <1>3, <2>1, Numbers DEF Latency
    <2>2. CASE ~(i =< Latency(t))
      <3>1. i = SlowPoll /\ Latency(t) = FastPoll /\ t + SlowPoll =< FastWithin
        BY <1>2, <2>2, Numbers DEF Latency
      <3>2. SlowPoll # FastPoll
        BY <2>2, <3>1, Numbers
      <3>3. \A b \in known : ~(At(b) - p =< FastWithin)
        BY <3>1, <3>2 DEF NextPoll
      <3>4. w.off - Now =< t
        BY <1>1, <3>1, Numbers
      <3>5. w.off - p =< FastWithin /\ w.off =< p + Horizon /\ p < w.off
        BY <1>1, <1>2, <1>3, <3>1, <3>4, Numbers
      <3>6. a \in known
        BY <3>5, UpcomingIs DEF SawAt
      <3> QED
        BY <1>1, <3>3, <3>5, <3>6
    <2> QED
      BY <2>1, <2>2
  <1>5. a \in known
    <2>1. p < w.off /\ w.off =< p + Horizon
      BY <1>1, <1>2, <1>4, Numbers
    <2> QED
      BY <2>1, UpcomingIs DEF SawAt
  <1>6. t \in Crossed(a, p)
    BY <1>1, <1>4 DEF Crossed
  <1>7. /\ Tightest(a, p) \in Thresholds
        /\ Tightest(a, p) =< t
    BY <1>6, TightestIsLeast
  <1>8. a \in DOMAIN screen /\ <<a, Tightest(a, p)>> \in warned
    BY <1>5, <1>6 DEF SawAt
  <1> QED
    BY <1>7, <1>8 DEF Warned

-----------------------------------------------------------------------------
(* The inductive step *)

\* A schedule somewhere, nobody running.
LEMMA InitInv == Init => NoticeInv
  <1> SUFFICES ASSUME Init PROVE NoticeInv
    OBVIOUS
  <1>1. DOMAIN screen = {}
    BY DEF Init, Blank
  <1>2. reply \in [now : Int, actions : SUBSET Actions]
    BY DEF Init, NoReply
  <1>3. TypeOK
    <2>1. /\ time \in 0 .. MaxTime /\ ahead \in Int /\ sleep \in 0 .. SlowPoll
          /\ changes \in 0 .. MaxChanges /\ quiet \in 0 .. time
      BY NoticesAssumption DEF Init
    <2>2. /\ cache \in Schedules /\ gate \in BOOLEAN
          /\ service \in {"down", "open", "gone"} /\ notifier \in {"off", "idle", "reading"}
      BY DEF Init
    <2>3. /\ known \subseteq Actions /\ DOMAIN screen \subseteq known \cup orphans
          /\ fired \subseteq known \X Thresholds /\ warned \subseteq Actions \X Thresholds
      BY <1>1 DEF Init
    <2> QED
      BY <1>2, <2>1, <2>2, <2>3 DEF TypeOK
  <1>4. QuietIsServed /\ ReplyIsCurrent /\ LastPollHolds /\ FiredIsShown
    BY DEF Init, QuietIsServed, ReplyIsCurrent, LastPollHolds, FiredIsShown
  <1>5. PastIsWarned
    BY DEF Init, PastIsWarned
  <1> QED
    BY <1>3, <1>4, <1>5 DEF NoticeInv

\* After a disturbance the invariant asks for little.
LEMMA DisturbedInv ==
    ASSUME TypeOK', FiredIsShown', quiet' = 0
    PROVE  NoticeInv'
  <1>1. QuietIsServed' /\ ReplyIsCurrent'
    BY DEF QuietIsServed, ReplyIsCurrent
  <1>2. LastPollHolds'
    <2>1. PICK n \in 0 .. SlowPoll : n = sleep'
      BY DEF TypeOK
    <2>2. \A m \in 0 .. SlowPoll : ~(0 + m > SlowPoll)
      BY Numbers
    <2>3. ~(quiet' + sleep' > SlowPoll)
      BY <2>1, <2>2
    <2> QED
      BY <2>3 DEF LastPollHolds
  <1>3. PastIsWarned'
    <2> SUFFICES ASSUME NEW w \in cache'.windows, w.off =< Now', quiet' > Now' - w.off + SlowPoll
                 PROVE  FALSE
      BY DEF PastIsWarned
    <2>1. Now' \in Int /\ w.off \in Int
      BY NoticesAssumption DEF TypeOK, Now
    <2>2. PICK n \in Int : n = Now'
      BY <2>1
    <2>3. w.off =< n /\ 0 > n - w.off + SlowPoll
      BY <2>2
    <2> QED
      BY <2>1, <2>2, <2>3, Numbers
  <1> QED
    BY <1>1, <1>2, <1>3 DEF NoticeInv

\* Whatever happens to the service alone disturbs the notifier and nothing else.
LEMMA ServiceOnly ==
    ASSUME NoticeInv, quiet' = 0, UNCHANGED <<time, nvars>>,
           ahead' \in Int, cache' \in Schedules, gate' \in BOOLEAN,
           service' \in {"down", "open", "gone"}, changes' \in 0 .. MaxChanges
    PROVE  NoticeInv'
  <1>1. 0 \in 0 .. time
    BY NoticesAssumption DEF NoticeInv, TypeOK
  <1>2. quiet' \in 0 .. time'
    BY <1>1
  <1>3. TypeOK'
    BY <1>2 DEF NoticeInv, TypeOK, nvars
  <1>4. FiredIsShown'
    BY DEF NoticeInv, FiredIsShown, nvars
  <1> QED
    BY <1>3, <1>4, DisturbedInv

\* A disturbance is counted within the bound.
LEMMA DisturbsCounts == TypeOK /\ Disturbs => changes' \in 0 .. MaxChanges /\ quiet' = 0
  BY NoticesAssumption DEF TypeOK, Disturbs

\* The steps of the service.
LEMMA ServiceInv == NoticeInv /\ Service => NoticeInv'
  <1> SUFFICES ASSUME NoticeInv, Service PROVE NoticeInv'
    OBVIOUS
  <1>0. TypeOK
    BY DEF NoticeInv
  <1>1. ASSUME NEW s \in Schedules, Adopt(s) PROVE NoticeInv'
    BY <1>0, <1>1, ServiceOnly, DisturbsCounts DEF Adopt, TypeOK
  <1>2. CASE GateOpens
    BY <1>0, <1>2, ServiceOnly DEF GateOpens, TypeOK
  <1>3. CASE GateCloses
    BY <1>0, <1>3, ServiceOnly, DisturbsCounts DEF GateCloses, TypeOK
  <1>4. ASSUME NEW d \in Shifts, ClockSteps(d) PROVE NoticeInv'
    <2>1. ahead + d \in Int
      BY <1>0, NoticesAssumption DEF TypeOK
    <2> QED
      BY <1>0, <1>4, <2>1, ServiceOnly, DisturbsCounts DEF ClockSteps, TypeOK, svars
  <1>5. CASE ServiceStarts
    <2>1. changes' \in 0 .. MaxChanges
      BY <1>0, <1>5, NoticesAssumption DEF ServiceStarts, TypeOK
    <2> QED
      BY <1>0, <1>5, <2>1, ServiceOnly DEF ServiceStarts, TypeOK
  <1>6. CASE ServiceStops
    BY <1>0, <1>6, ServiceOnly, DisturbsCounts DEF ServiceStops, TypeOK
  <1> QED
    BY <1>1, <1>2, <1>3, <1>4, <1>5, <1>6 DEF Service

\* The notifier comes and goes; its last poll, if any, is forgotten.
LEMMA NotifierComesAndGoes == NoticeInv /\ (NotifierStarts \/ NotifierStops) => NoticeInv'
  <1> SUFFICES ASSUME NoticeInv, NotifierStarts \/ NotifierStops PROVE NoticeInv'
    OBVIOUS
  <1>0. TypeOK /\ FiredIsShown /\ 0 \in 0 .. time /\ 0 \in 0 .. SlowPoll
    BY NoticesAssumption DEF NoticeInv, TypeOK
  <1>1. CASE NotifierStarts
    <2>1. TypeOK'
      BY <1>0, <1>1 DEF NotifierStarts, TypeOK, svars
    <2>2. FiredIsShown' /\ quiet' = 0
      BY <1>0, <1>1 DEF NotifierStarts, FiredIsShown
    <2> QED
      BY <2>1, <2>2, DisturbedInv
  <1>2. CASE NotifierStops
    <2>1. changes' \in 0 .. MaxChanges /\ quiet' = 0
      BY <1>0, <1>2, DisturbsCounts DEF NotifierStops
    <2>2. NoReply \in [now : Int, actions : SUBSET Actions]
      BY DEF NoReply
    <2>3. TypeOK'
      BY <1>0, <1>2, <2>1, <2>2 DEF NotifierStops, TypeOK, svars
    <2>4. FiredIsShown'
      BY <1>2 DEF NotifierStops, FiredIsShown
    <2> QED
      BY <2>1, <2>3, <2>4, DisturbedInv
  <1> QED
    BY <1>1, <1>2

\* A poll that fails is a disturbance, or nobody has been counting.
LEMMA PollFailsInv == NoticeInv /\ PollFails => NoticeInv'
  <1> SUFFICES ASSUME NoticeInv, PollFails PROVE NoticeInv'
    OBVIOUS
  <1>0. TypeOK /\ FiredIsShown /\ QuietIsServed /\ 0 \in 0 .. time /\ SlowPoll \in 0 .. SlowPoll
    BY NoticesAssumption DEF NoticeInv, TypeOK
  <1>1. changes' \in 0 .. MaxChanges /\ quiet' = 0
    <2>1. CASE service = "open"
      BY <1>0, <2>1, DisturbsCounts DEF PollFails
    <2>2. CASE service # "open"
      BY <1>0, <2>2 DEF PollFails, QuietIsServed, TypeOK
    <2> QED
      BY <2>1, <2>2
  <1>2. NoReply \in [now : Int, actions : SUBSET Actions]
    BY DEF NoReply
  <1>3. TypeOK'
    BY <1>0, <1>1, <1>2 DEF PollFails, TypeOK, svars
  <1>4. FiredIsShown'
    BY <1>0 DEF PollFails, FiredIsShown
  <1> QED
    BY <1>1, <1>3, <1>4, DisturbedInv

\* The answer is current when it is given.
LEMMA PollInv == NoticeInv /\ Poll => NoticeInv'
  <1> SUFFICES ASSUME NoticeInv, Poll PROVE NoticeInv'
    OBVIOUS
  <1>0. TypeOK
    BY DEF NoticeInv
  <1>1. /\ UNCHANGED <<time, ahead, cache, gate, service, sleep, fired, known, screen, warned,
                       orphans, changes, quiet>>
        /\ notifier' = "reading" /\ notifier = "idle"
        /\ reply' = [now |-> Now, actions |-> Upcoming(Announced, Now)]
    BY DEF Poll, svars
  <1>2. TypeOK'
    <2>1. reply' \in [now : Int, actions : SUBSET Actions]
      BY <1>0, <1>1, NowType, UpcomingType
    <2> QED
      BY <1>0, <1>1, <2>1 DEF TypeOK
  <1>3. Now' = Now /\ Upcoming(Announced, Now)' = Upcoming(Announced, Now)
    BY <1>1 DEF Now, Upcoming, Announced, Action
  <1>4. ReplyIsCurrent'
    BY <1>1, <1>3 DEF ReplyIsCurrent
  <1>5. QuietIsServed'
    BY <1>1 DEF NoticeInv, QuietIsServed
  <1>6. LastPollHolds'
    BY <1>1 DEF LastPollHolds
  <1>7. FiredIsShown'
    BY <1>1 DEF NoticeInv, FiredIsShown
  <1>8. PastIsWarned'
    BY <1>1, <1>3 DEF NoticeInv, PastIsWarned, Warned, Action, Latency
  <1> QED
    BY <1>2, <1>4, <1>5, <1>6, <1>7, <1>8 DEF NoticeInv

\* The engine sees what the pipe answered.
LEMMA UpdateInv == NoticeInv /\ Update => NoticeInv'
  <1> SUFFICES ASSUME NoticeInv, Update PROVE NoticeInv'
    OBVIOUS
  <1> DEFINE live == reply.actions
             now == reply.now
             cancelled == known \ live
             toasts == {<<a, Tightest(a, now)>> : a \in {x \in live : Crossed(x, now) # {}}}
                           \ Retained(live)
             shown == {f[1] : f \in toasts}
  <1>0. TypeOK /\ FiredIsShown /\ live \subseteq Actions /\ now \in Int
    BY DEF NoticeInv, TypeOK
  <1>1. /\ notifier = "reading" /\ notifier' = "idle"
        /\ fired' = Retained(live) \cup toasts
        /\ known' = live
        /\ DOMAIN screen' = (DOMAIN screen \ cancelled) \cup shown
        /\ warned' = {f \in warned : f[1] \notin cancelled \/ At(f[1]) =< now} \cup toasts
        /\ orphans' = orphans \ shown
        /\ sleep' = NextPoll(live, now)
        /\ reply' = NoReply
        /\ UNCHANGED <<time, ahead, cache, gate, service, changes, quiet>>
    BY DEF Update, svars
  <1>2. toasts \subseteq live \X Thresholds /\ shown \subseteq live
    <2>1. \A a \in live : Crossed(a, now) # {} => Tightest(a, now) \in Thresholds
      BY TightestIsLeast
    <2> QED
      BY <2>1
  <1>3. Retained(live) \subseteq live \X Thresholds
    BY <1>0 DEF Retained, TypeOK
  <1>4. TypeOK'
    <2>1. fired' \subseteq known' \X Thresholds /\ warned' \subseteq Actions \X Thresholds
      BY <1>0, <1>1, <1>2, <1>3 DEF TypeOK
    <2>2. DOMAIN screen' \subseteq known' \cup orphans'
      BY <1>0, <1>1, <1>2 DEF TypeOK
    <2>3. sleep' \in 0 .. SlowPoll
      BY <1>1, NextPollType
    <2>4. reply' \in [now : Int, actions : SUBSET Actions]
      BY <1>1 DEF NoReply
    <2> QED
      BY <1>0, <1>1, <2>1, <2>2, <2>3, <2>4 DEF TypeOK
  <1>5. FiredIsShown'
    <2> SUFFICES ASSUME NEW f \in fired' PROVE f \in warned' /\ f[1] \in DOMAIN screen'
      BY DEF FiredIsShown
    <2>1. CASE f \in Retained(live)
      <3>1. f \in fired /\ f[1] \in live
        BY <2>1 DEF Retained
      <3>2. f \in warned /\ f[1] \in DOMAIN screen
        BY <1>0, <3>1 DEF FiredIsShown
      <3> QED
        BY <1>1, <3>1, <3>2
    <2>2. CASE f \in toasts
      <3>1. f[1] \in shown
        BY <2>2
      <3> QED
        BY <1>1, <2>2, <3>1
    <2> QED
      BY <1>1, <2>1, <2>2
  <1>6. CASE quiet = 0
    BY <1>1, <1>4, <1>5, <1>6, DisturbedInv
  <1>7. CASE quiet # 0
    <2>1. quiet > 0
      BY <1>0, <1>7, NoticesAssumption DEF TypeOK
    <2>2. Now \in Int /\ Now' = Now /\ now = Now /\ live = Upcoming(Announced, Now)
      BY <1>0, <1>1, <2>1, NowType DEF NoticeInv, ReplyIsCurrent, Now
    <2>3. QuietIsServed' /\ ReplyIsCurrent'
      BY <1>1 DEF NoticeInv, QuietIsServed, ReplyIsCurrent
    <2>4. \A a \in live : Crossed(a, now) # {} =>
              a \in DOMAIN screen' /\ <<a, Tightest(a, now)>> \in warned'
      <3> SUFFICES ASSUME NEW a \in live, Crossed(a, now) # {}
                   PROVE  a \in DOMAIN screen' /\ <<a, Tightest(a, now)>> \in warned'
        OBVIOUS
      <3>1. <<a, Tightest(a, now)>> \in fired'
        BY <1>1
      <3>2. \A f \in fired' : f \in warned' /\ f[1] \in DOMAIN screen'
        BY <1>5 DEF FiredIsShown
      <3> QED
        BY <3>1, <3>2
    <2>5. SawAt(Now)'
      <3>1. Now - Now + NextPoll(live, Now) = NextPoll(live, Now)
        BY <2>2, NextPollType, Numbers
      <3>2. Upcoming(Announced, Now)' = Upcoming(Announced, Now)
        BY <1>1, <2>2 DEF Upcoming, Announced, Action
      <3> QED
        BY <1>1, <2>2, <2>4, <3>1, <3>2 DEF SawAt
    <2>6. LastPollHolds'
      BY <2>2, <2>5 DEF LastPollHolds
    <2>7. PastIsWarned'
      <3> SUFFICES ASSUME gate, NEW w \in cache.windows, NEW t \in Thresholds,
                          w.off =< Now, quiet > Now - w.off + SlowPoll, Latency(t) =< t
                   PROVE  \E u \in Thresholds : u =< t /\ <<Action(w), u>> \in warned'
        BY <1>1, <2>2 DEF PastIsWarned, Warned, Action, Latency
      <3>1. PICK u \in Thresholds : u =< t /\ <<Action(w), u>> \in warned
        BY DEF NoticeInv, PastIsWarned, Warned
      <3>2. At(Action(w)) = w.off
        BY <1>0, ActionTime
      <3> QED
        BY <1>1, <2>2, <3>1, <3>2
    <2> QED
      BY <1>4, <1>5, <2>3, <2>6, <2>7 DEF NoticeInv
  <1> QED
    BY <1>6, <1>7

\* A second passes.
LEMMA TickInv == NoticeInv /\ Tick => NoticeInv'
  <1> SUFFICES ASSUME NoticeInv, Tick PROVE NoticeInv'
    OBVIOUS
  <1>0. TypeOK /\ time \in Nat /\ quiet \in Int /\ sleep \in Int
    BY NoticesAssumption DEF NoticeInv, TypeOK
  <1>1. /\ time' = time + 1 /\ time < MaxTime
        /\ UNCHANGED <<ahead, cache, gate, service, notifier, reply, fired, known, screen,
                       warned, orphans, changes>>
    BY DEF Tick, svars
  <1>2. TypeOK'
    <2>1. time + 1 \in 0 .. MaxTime /\ quiet \in 0 .. time + 1 /\ quiet + 1 \in 0 .. time + 1
      BY <1>0, <1>1, NoticesAssumption DEF TypeOK
    <2>2. sleep > 0 => sleep - 1 \in 0 .. SlowPoll
      BY <1>0, NoticesAssumption DEF TypeOK
    <2>3. sleep' \in 0 .. SlowPoll
      BY <1>0, <2>2 DEF Tick, TypeOK
    <2>4. quiet' \in 0 .. time'
      BY <1>1, <2>1 DEF Tick
    <2> QED
      BY <1>0, <1>1, <2>1, <2>3, <2>4 DEF TypeOK
  <1>3. FiredIsShown'
    BY <1>1 DEF NoticeInv, FiredIsShown
  <1>4. CASE ~(notifier # "off" /\ service = "open")
    <2>1. quiet' = 0
      BY <1>4 DEF Tick, NoticeInv, QuietIsServed
    <2> QED
      BY <1>2, <1>3, <2>1, DisturbedInv
  <1>5. CASE notifier # "off" /\ service = "open"
    <2>1. notifier = "idle" /\ sleep > 0 /\ sleep' = sleep - 1 /\ quiet' = quiet + 1
      BY <1>5 DEF Tick
    <2>2. Now \in Int /\ Now' = Now + 1
      BY <1>0, <1>1, NowType DEF Now, TypeOK
    <2>3. QuietIsServed' /\ ReplyIsCurrent'
      BY <1>1, <1>5, <2>1 DEF QuietIsServed, ReplyIsCurrent
    <2>4. LastPollHolds'
      <3> SUFFICES ASSUME (quiet + 1) + (sleep - 1) > SlowPoll
                   PROVE  \E p \in Int : SawAt(p)'
        BY <2>1 DEF LastPollHolds
      <3>1. quiet + sleep > SlowPoll
        BY <1>0, Numbers
      <3>2. PICK p \in Int : SawAt(p)
        BY <2>1, <3>1 DEF NoticeInv, LastPollHolds
      <3>3. p =< Now + 1 /\ (Now + 1) - p + (sleep - 1) = Now - p + sleep
        BY <1>0, <2>2, <3>2 DEF SawAt
      <3>4. known' = Upcoming(Announced, p)'
        BY <1>1, <3>2 DEF SawAt, Upcoming, Announced, Action
      <3>5. SawAt(p)'
        BY <1>1, <2>1, <2>2, <3>2, <3>3, <3>4 DEF SawAt
      <3> QED
        BY <3>5
    <2>5. PastIsWarned'
      <3> SUFFICES ASSUME gate, NEW w \in cache.windows, NEW t \in Thresholds,
                          w.off =< Now + 1, quiet + 1 > (Now + 1) - w.off + SlowPoll,
                          Latency(t) =< t
                   PROVE  Warned(Action(w), t)
        BY <1>1, <2>1, <2>2 DEF PastIsWarned, Warned, Action, Latency
      <3>1. w.off \in Int
        BY <1>0, ActionTime
      <3>2. CASE w.off =< Now
        <4>1. quiet > Now - w.off + SlowPoll
          BY <1>0, <2>2, <3>1, Numbers
        <4> QED
          BY <3>2, <4>1 DEF NoticeInv, PastIsWarned
      <3>3. CASE ~(w.off =< Now)
        <4>1. w.off = Now + 1 /\ Now < w.off
          BY <2>2, <3>1, <3>3
        <4>2. quiet + sleep > SlowPoll
          BY <1>0, <2>1, <2>2, <4>1, Numbers
        <4>3. PICK p \in Int : SawAt(p)
          BY <2>1, <4>2 DEF NoticeInv, LastPollHolds
        <4> QED
          BY <1>0, <2>1, <4>1, <4>3, SeenIsWarned
      <3> QED
        BY <3>2, <3>3
    <2> QED
      BY <1>2, <1>3, <2>3, <2>4, <2>5 DEF NoticeInv
  <1> QED
    BY <1>4, <1>5

\* Nothing happens.
LEMMA StutterInv == NoticeInv /\ UNCHANGED vars => NoticeInv'
  <1> SUFFICES ASSUME NoticeInv, UNCHANGED vars PROVE NoticeInv'
    OBVIOUS
  <1>1. UNCHANGED <<time, ahead, cache, gate, service, notifier, sleep, reply, fired, known,
                    screen, changes, quiet, warned, orphans>>
    BY DEF vars, svars, nvars
  <1>2. TypeOK' /\ QuietIsServed' /\ FiredIsShown'
    BY <1>1 DEF NoticeInv, TypeOK, QuietIsServed, FiredIsShown
  <1>3. Now' = Now /\ \A p : Upcoming(Announced, p)' = Upcoming(Announced, p)
    BY <1>1 DEF Now, Upcoming, Announced, Action
  <1>4. ReplyIsCurrent'
    BY <1>1, <1>3 DEF NoticeInv, ReplyIsCurrent, Now, Upcoming, Announced, Action
  <1>5. LastPollHolds'
    BY <1>1 DEF NoticeInv, LastPollHolds, SawAt, Now, Upcoming, Announced, Action
  <1>6. PastIsWarned'
    BY <1>1, <1>3 DEF NoticeInv, PastIsWarned, Warned, Action, Latency
  <1> QED
    BY <1>2, <1>4, <1>5, <1>6 DEF NoticeInv

-----------------------------------------------------------------------------
(* The theorems *)

\* What the notifier has warned of was seen at a poll recent enough.
THEOREM NoticeInvariant == Spec => []NoticeInv
  <1>1. ASSUME NoticeInv, [Next]_vars PROVE NoticeInv'
    BY <1>1, ServiceInv, NotifierComesAndGoes, PollInv, PollFailsInv, UpdateInv, TickInv,
       StutterInv DEF Next, Notifier
  <1> QED
    BY <1>1, InitInv, PTL DEF Spec

\* Every variable of the service and of the notifier keeps its type.
THEOREM NoticesTypeCorrect == Spec => []TypeOK
  <1>1. NoticeInv => TypeOK
    BY DEF NoticeInv
  <1> QED
    BY <1>1, NoticeInvariant, PTL

\* Each threshold warns within one polling interval, for any schedule and any intervals.
THEOREM ThresholdsWarnInTime == Spec => []WarnedInTime
  <1>1. ASSUME NoticeInv PROVE WarnedInTime
    <2> SUFFICES ASSUME Settled, gate, NEW a \in Upcoming(cache.windows, Now),
                        NEW t \in Thresholds, At(a) - Now + Latency(t) =< t
                 PROVE  a \in DOMAIN screen /\ Warned(a, t)
      BY DEF WarnedInTime
    <2>1. TypeOK /\ quiet \in Int /\ sleep \in Int /\ Now \in Int
      BY <1>1, NowType, NoticesAssumption DEF NoticeInv, TypeOK
    <2>2. PICK w \in cache.windows : a = Action(w) /\ Now < w.off
      BY DEF Upcoming
    <2>3. At(a) = w.off
      BY <2>1, <2>2, ActionTime
    <2>4. quiet + sleep > SlowPoll
      BY <2>1, Numbers DEF Settled
    <2>5. PICK p \in Int : SawAt(p)
      BY <1>1, <2>4 DEF NoticeInv, LastPollHolds, Settled
    <2> QED
      BY <2>1, <2>2, <2>3, <2>5, SeenIsWarned DEF Settled
  <1> QED
    BY <1>1, NoticeInvariant, PTL

\* A toast of the running notifier is for an action enforcement would carry out.
THEOREM ToastsAreTrue == Spec => []NoFalseAlarm
  <1>1. ASSUME NoticeInv PROVE NoFalseAlarm
    <2> SUFFICES ASSUME Settled, NEW a \in DOMAIN screen \ orphans
                 PROVE  gate /\ \E w \in cache.windows : a = Action(w) /\ w.off > Now - SlowPoll
      BY DEF NoFalseAlarm
    <2>1. TypeOK /\ quiet \in Int /\ sleep \in Int /\ Now \in Int
      BY <1>1, NowType, NoticesAssumption DEF NoticeInv, TypeOK
    <2>2. quiet + sleep > SlowPoll
      BY <2>1, Numbers DEF Settled
    <2>3. PICK p \in Int : SawAt(p)
      BY <1>1, <2>2 DEF NoticeInv, LastPollHolds, Settled
    <2>4. a \in known
      BY <2>1 DEF TypeOK
    <2>5. a \in Upcoming(Announced, p)
      BY <2>3, <2>4 DEF SawAt
    <2>6. gate /\ \E w \in cache.windows : a = Action(w) /\ p < w.off
      BY <2>1, <2>5, UpcomingIs
    <2>7. PICK w \in cache.windows : a = Action(w) /\ p < w.off
      BY <2>6
    <2>8. NextPoll(known, p) \in 0 .. SlowPoll /\ w.off \in Int
      BY <2>1, NextPollType, ActionTime
    <2>9. w.off > Now - SlowPoll
      BY <2>1, <2>3, <2>7, <2>8, Numbers DEF SawAt, Settled
    <2> QED
      BY <2>6, <2>7, <2>9
  <1> QED
    BY <1>1, NoticeInvariant, PTL

\* Nobody is switched off unwarned.
THEOREM NobodyIsStruckUnwarned == Spec => []StruckIsWarned
  <1>1. NoticeInv => StruckIsWarned
    BY DEF NoticeInv, PastIsWarned, StruckIsWarned
  <1> QED
    BY <1>1, NoticeInvariant, PTL
=============================================================================
