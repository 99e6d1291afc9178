---------------------------- MODULE TrustedClock ----------------------------
(***************************************************************************)
(* The clock the agent compares the schedule with (agent/src/clock.rs and  *)
(* clock_sync_loop of agent/src/agent.rs): the system clock, which the     *)
(* person at the keyboard can move, plus an offset measured against NTP    *)
(* servers.                                                                *)
(*                                                                         *)
(* Real time passes outside the model; the system clock is represented by  *)
(* how far it is ahead of it (skew), so the trusted time is wrong by       *)
(* skew + offset.  Clock readings are whole units; what rounding a         *)
(* timestamp to a millisecond loses is not modelled.  NTP checking is      *)
(* switched on (ntp_enabled, the default).                                 *)
(***************************************************************************)
EXTENDS Integers, FiniteSets

CONSTANTS NumServers,     \* how many NTP servers are configured; they are 1 .. NumServers
          Honest,         \* those that know the real time
          Wrong,          \* how far the others may be from it
          Delays,         \* the times a packet may take in one direction
          Epochs,         \* real times (Unix time) at which a request may be sent
          Steps,          \* how far the system clock can be moved at once
          MaxJumps,       \* bound on the moves
          MaxRoundTrip,   \* MAX_ROUND_TRIP_MS
          JumpThreshold,  \* CLOCK_JUMP_THRESHOLD
          Era,            \* the range of an NTP timestamp's seconds (2^32)
          NtpUnixDelta    \* NTP_UNIX_DELTA

ASSUME TrustedClockAssumption ==
    /\ NumServers \in Nat /\ Honest \subseteq 1 .. NumServers
    /\ Wrong \subseteq Int /\ Steps \subseteq Int
    /\ Delays \subseteq Nat /\ Epochs \subseteq Nat
    /\ MaxJumps \in Nat /\ MaxRoundTrip \in Nat /\ JumpThreshold \in Nat
    /\ Era \in Nat \ {0} /\ NtpUnixDelta \in Nat

\* Honest timestamps lie between 1968 and 2104, the years from_ntp can tell apart.
ASSUME InEraAssumption ==
    \A t \in Epochs, d \in Delays :
        /\ Era \div 2 =< t + d + NtpUnixDelta
        /\ t + d + NtpUnixDelta < Era + (Era \div 2)

VARIABLES skew,     \* the system clock minus the real time
          jumps,    \* moves of the system clock so far
          offset,   \* TrustedClock.offset_ms
          synced,   \* TrustedClock.synced
          loop,     \* clock_sync_loop: waiting in select!, or asking the servers
          due,      \* next_sync has come
          resync,   \* the permit of clock_resync
          mark,     \* skew when last_system and last_tick were read
          asked,    \* how many of the servers this measurement has asked
          answers,  \* server -> the offset its answer gives
          clean,    \* history: the clock was not moved during the measurement
          sound,    \* history: most of the answers to the last measurement were honest ones
          ignored   \* history: moves below the threshold seen since the last measurement

mvars == <<loop, asked, answers, clean>>
clockVars == <<skew, jumps, offset, synced, due, resync, mark, sound, ignored, mvars>>

Abs(n) == IF n < 0 THEN -n ELSE n

\* Rust's i64 division, which truncates towards zero.
Half(n) == IF n < 0 THEN -((-n) \div 2) ELSE n \div 2

NoAnswers == [s \in {} |-> 0]

ClockInit ==
    /\ skew \in Steps \cup {0}
    /\ jumps = 0
    /\ offset = 0
    /\ synced = FALSE
    /\ loop = "wait"
    /\ due = TRUE
    /\ resync = FALSE
    /\ mark = skew
    /\ asked = 0
    /\ answers = NoAnswers
    /\ clean = FALSE
    /\ sound = FALSE
    /\ ignored = 0

\* The person at the keyboard, or Windows itself, moves the system clock.
MoveClock(d) ==
    /\ jumps < MaxJumps
    /\ jumps' = jumps + 1
    /\ skew' = skew + d
    /\ clean' = (clean /\ loop = "wait")
    /\ UNCHANGED <<offset, synced, loop, due, resync, mark, asked, answers, sound, ignored>>

-----------------------------------------------------------------------------
(* clock.rs *)

\* offset_ms and delay_ms
OffsetMs(t1, t2, t3, t4) == Half((t2 - t1) + (t3 - t4))
DelayMs(t1, t2, t3, t4) == (t4 - t1) - (t3 - t2)

\* to_ntp: the seconds are cast to 32 bits, and wrap in 2036.
ToNtp(unix) == (unix + NtpUnixDelta) % Era

\* from_ntp: seconds with the top bit clear are in the next era.
FromNtp(n) == (IF n < Era \div 2 THEN n + Era ELSE n) - NtpUnixDelta

TrustedDelay(d) == 0 =< d /\ d =< MaxRoundTrip

\* Server s gave an answer that query turns into o.
Answered(s, o) ==
    answers' = [x \in DOMAIN answers \cup {s} |-> IF x = s THEN o ELSE answers[x]]

(***************************************************************************)
(* query, answered and believed: sent at real time t, there after d1, back *)
(* after d2; the server is wrong by err, and the clock is moved by j while *)
(* the answer travels.                                                     *)
(***************************************************************************)
Sample(s, t, d1, d2, err, j) ==
    LET t1 == t + skew
        t2 == FromNtp(ToNtp(t + d1 + err))
        t4 == t + d1 + d2 + skew + j
    IN  /\ TrustedDelay(DelayMs(t1, t2, t2, t4))
        /\ Answered(s, OffsetMs(t1, t2, t2, t4))
        /\ skew' = skew + j
        /\ clean' = (clean /\ j = 0)

\* query of one server, asked in turn by measure: an answer, or an error or time-out.
Query(s) ==
    /\ loop = "ask"
    /\ s = asked + 1
    /\ asked' = s
    /\ \/ \E t \in Epochs, d1 \in Delays, d2 \in Delays, j \in Steps \cup {0},
             err \in (IF s \in Honest THEN {0} ELSE Wrong) :
             /\ jumps' = IF j = 0 THEN jumps ELSE jumps + 1
             /\ jumps' =< MaxJumps
             /\ Sample(s, t, d1, d2, err, j)
       \/ UNCHANGED <<skew, jumps, answers, clean>>
    /\ UNCHANGED <<offset, synced, loop, due, resync, mark, sound, ignored>>

\* The value at position k (from 0) of the sorted values of f.
Kth(f, k) ==
    {v \in {f[s] : s \in DOMAIN f} :
        /\ Cardinality({s \in DOMAIN f : f[s] < v}) =< k
        /\ k < Cardinality({s \in DOMAIN f : f[s] =< v})}

\* median, of one value or more
Median(f) ==
    LET mid == Cardinality(DOMAIN f) \div 2
    IN  IF Cardinality(DOMAIN f) % 2 = 1
        THEN Kth(f, mid)
        ELSE {Half(lo + hi) : lo \in Kth(f, mid - 1), hi \in Kth(f, mid)}

-----------------------------------------------------------------------------
(* clock_sync_loop *)

BeginMeasure ==
    /\ loop = "wait"
    /\ due
    /\ loop' = "ask"
    /\ due' = FALSE
    /\ clean' = TRUE
    /\ UNCHANGED <<skew, jumps, offset, synced, resync, mark, asked, answers, sound, ignored>>

MostAreHonest ==
    2 * Cardinality(DOMAIN answers \cap Honest) > Cardinality(DOMAIN answers)

(***************************************************************************)
(* measure returns, and next_sync is set: the offset is stored if a server *)
(* answered, and kept otherwise.  Either way last_system is read again, so *)
(* a move of the clock during the measurement is not seen by the watch.    *)
(***************************************************************************)
EndMeasure ==
    /\ loop = "ask"
    /\ asked = NumServers
    /\ IF DOMAIN answers = {}
       THEN UNCHANGED <<offset, synced>>
       ELSE /\ offset' \in Median(answers)
            /\ synced' = TRUE
    /\ loop' = "wait"
    /\ mark' = skew
    /\ asked' = 0
    /\ answers' = NoAnswers
    /\ sound' = MostAreHonest
    /\ ignored' = 0
    /\ UNCHANGED <<skew, jumps, due, resync, clean>>

\* Mutant: once measured, the clock is measured again only after a jump.
MutTimerFires ==
    /\ loop = "wait"
    /\ ~due /\ ~synced
    /\ due' = TRUE
    /\ UNCHANGED <<skew, jumps, offset, synced, resync, mark, sound, ignored, mvars>>

\* sleep_until(next_sync): 15 minutes after a success, 30 s or 5 minutes after a failure.
TimerFires ==
    /\ loop = "wait"
    /\ ~due
    /\ due' = TRUE
    /\ UNCHANGED <<skew, jumps, offset, synced, resync, mark, sound, ignored, mvars>>

\* invalidate_schedule_sync leaves a permit, which is kept during a measurement ...
RequestResync ==
    /\ resync' = TRUE
    /\ UNCHANGED <<skew, jumps, offset, synced, due, mark, sound, ignored, mvars>>

\* ... and taken by select!.
TakeResync ==
    /\ loop = "wait"
    /\ resync
    /\ resync' = FALSE
    /\ due' = TRUE
    /\ UNCHANGED <<skew, jumps, offset, synced, mark, sound, ignored, mvars>>

\* Mutant: only a clock put forward is noticed.
MutJumped(drift) == drift > JumpThreshold

Jumped(drift) == Abs(drift) > JumpThreshold

\* watch.tick: the system clock is compared with the monotonic one.
WatchTick ==
    /\ loop = "wait"
    /\ due' = (due \/ Jumped(skew - mark))
    /\ mark' = skew
    /\ ignored' = IF skew = mark \/ Jumped(skew - mark) THEN ignored ELSE ignored + 1
    /\ UNCHANGED <<skew, jumps, offset, synced, resync, sound, mvars>>

ClockLoop ==
    \/ BeginMeasure
    \/ \E s \in 1 .. NumServers : Query(s)
    \/ EndMeasure
    \/ TimerFires
    \/ TakeResync
    \/ WatchTick

ClockNext ==
    \/ ClockLoop
    \/ RequestResync
    \/ \E d \in Steps : MoveClock(d)

ClockSpec == ClockInit /\ [][ClockNext]_clockVars

(***************************************************************************)
(* Fairness: tokio runs the loop, sleep_until ends, and a query ends in an *)
(* answer, an error or QUERY_TIMEOUT.                                      *)
(***************************************************************************)
ClockFairSpec ==
    /\ ClockSpec
    /\ WF_clockVars(BeginMeasure)
    /\ WF_clockVars(\E s \in 1 .. NumServers : Query(s))
    /\ WF_clockVars(EndMeasure)
    /\ WF_clockVars(TimerFires)

-----------------------------------------------------------------------------
ClockTypeOK ==
    /\ skew \in Int /\ offset \in Int /\ mark \in Int
    /\ jumps \in 0 .. MaxJumps
    /\ ignored \in Nat
    /\ loop \in {"wait", "ask"}
    /\ asked \in 0 .. NumServers
    /\ DOMAIN answers \subseteq 1 .. asked
    /\ answers \in [DOMAIN answers -> Int]
    /\ synced \in BOOLEAN /\ due \in BOOLEAN /\ resync \in BOOLEAN
    /\ clean \in BOOLEAN /\ sound \in BOOLEAN

\* What a believed answer of an honest server can be wrong by: half the round trip.
MaxError == (MaxRoundTrip + 1) \div 2

(***************************************************************************)
(* "A clock the person at the keyboard can't move" (clock.rs, 1): after a  *)
(* measurement in which most of the answers were honest, the trusted time  *)
(* is right but for the error of the measurement and for moves too small   *)
(* for the watch, as of the watch's last look, until a new measurement is  *)
(* due.  A move made while the servers are being asked is the exception:   *)
(* clean.                                                                  *)
(***************************************************************************)
Trusted ==
    loop = "wait" /\ ~due /\ clean /\ sound
        => Abs(mark + offset) =< MaxError + JumpThreshold * ignored

(***************************************************************************)
(* However the clock has been moved, noticed or not, the trusted time      *)
(* becomes right for good once the moves end and the measurements succeed. *)
(***************************************************************************)
Corrected == <>[]sound => <>[](Abs(skew + offset) =< MaxError)
=============================================================================
