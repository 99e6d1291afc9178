------------------------- MODULE TrustedClockProofs -------------------------
(***************************************************************************)
(* Machine-checked proofs about TrustedClock, for any number of servers,   *)
(* honest or not, any delays and any moves of the system clock.            *)
(*                                                                         *)
(* Trusted speaks of the offset stored; it follows from what is known of   *)
(* the answers while the servers are being asked (AnswersRight) and from   *)
(* where a median can lie when most of the values are right (MedianRight). *)
(***************************************************************************)
EXTENDS TrustedClock, FiniteSetTheorems, TLAPS

\* Value o, given by a server or stored, is right up to the measurement's error.
Right(o, sk) == o + sk \in Int /\ 0 - MaxError =< o + sk /\ o + sk =< MaxError

\* While nobody moves the clock, what the honest servers have answered is right.
AnswersRight ==
    loop = "ask" /\ clean => \A s \in DOMAIN answers \cap Honest : Right(answers[s], skew)

ClockInv ==
    /\ ClockTypeOK
    /\ loop = "wait" => DOMAIN answers = {}
    /\ AnswersRight
    /\ Trusted

-----------------------------------------------------------------------------
(* The arithmetic of one answer *)

\* The 32-bit seconds of an honest timestamp are read back as what was written.
LEMMA NtpRoundTrip ==
    ASSUME NEW u \in Int,
           Era \div 2 =< u + NtpUnixDelta,
           u + NtpUnixDelta < Era + (Era \div 2)
    PROVE  FromNtp(ToNtp(u)) = u
  <1> DEFINE x == u + NtpUnixDelta
             h == Era \div 2
  <1>1. Era \in Nat \ {0} /\ NtpUnixDelta \in Nat /\ x \in Int
    BY TrustedClockAssumption
  <1>2. h \in Nat /\ 2 * h =< Era /\ Era =< 2 * h + 1
    BY <1>1
  <1>3. CASE x < Era
    <2>1. x % Era = x
      BY <1>1, <1>2, <1>3
    <2> QED
      BY <1>1, <1>2, <1>3, <2>1 DEF FromNtp, ToNtp
  <1>4. CASE x >= Era
    <2>1. x % Era = x - Era
      <3>1. /\ x - Era \in 0 .. (Era - 1)
            /\ x = Era * 1 + (x - Era)
        BY <1>1, <1>2, <1>4
      <3> QED
        BY <1>1, <3>1
    <2> QED
      BY <1>1, <1>2, <1>4, <2>1 DEF FromNtp, ToNtp
  <1> QED
    BY <1>1, <1>3, <1>4

\* An answer of an honest server that query believes is right, if the clock stands still.
LEMMA SampleRight ==
    ASSUME ClockTypeOK,
           NEW s, NEW t \in Epochs, NEW d1 \in Delays, NEW d2 \in Delays, Sample(s, t, d1, d2, 0, 0)
    PROVE  /\ s \in DOMAIN answers'
           /\ \A x \in DOMAIN answers' : x # s => x \in DOMAIN answers /\ answers'[x] = answers[x]
           /\ Right(answers'[s], skew)
  <1> DEFINE t1 == t + skew
             t2 == FromNtp(ToNtp(t + d1 + 0))
             t4 == t + d1 + d2 + skew + 0
             o == OffsetMs(t1, t2, t2, t4)
  <1>1. t \in Nat /\ d1 \in Nat /\ d2 \in Nat /\ skew \in Int /\ MaxRoundTrip \in Nat
    BY TrustedClockAssumption DEF ClockTypeOK
  <1>2. t2 = t + d1
    <2>1. t + d1 + 0 = t + d1 /\ t + d1 \in Int
      BY <1>1
    <2>2. FromNtp(ToNtp(t + d1)) = t + d1
      BY <1>1, <2>1, NtpRoundTrip, InEraAssumption
    <2> QED
      BY <2>1, <2>2
  <1>3. d1 + d2 =< MaxRoundTrip
    BY <1>1, <1>2 DEF Sample, TrustedDelay, DelayMs
  <1>4. o = Half(d1 - d2 - 2 * skew)
    BY <1>1, <1>2 DEF OffsetMs
  <1>5. Right(o, skew)
    BY <1>1, <1>3, <1>4 DEF Half, Right, MaxError
  <1>6. answers' = [x \in DOMAIN answers \cup {s} |-> IF x = s THEN o ELSE answers[x]]
    BY DEF Sample, Answered
  <1> QED
    BY <1>5, <1>6

-----------------------------------------------------------------------------
(* Where a median lies *)

(***************************************************************************)
(* The value at position k lies between bounds that hold for most values,  *)
(* when fewer than k + 1 values can be below and fewer than n - k above.   *)
(***************************************************************************)
LEMMA KthBetween ==
    ASSUME NEW f, IsFiniteSet(DOMAIN f), f \in [DOMAIN f -> Int],
           NEW G \in SUBSET DOMAIN f, NEW lo \in Int, NEW hi \in Int,
           \A s \in G : lo =< f[s] /\ f[s] =< hi,
           NEW k \in Nat,
           Cardinality(DOMAIN f) - Cardinality(G) =< k,
           k < Cardinality(G),
           NEW v \in Kth(f, k)
    PROVE  v \in Int /\ lo =< v /\ v =< hi
  <1> DEFINE S == DOMAIN f
             below == {s \in S : f[s] < v}
             upto == {s \in S : f[s] =< v}
  <1>1. /\ v \in Int
        /\ Cardinality(below) =< k
        /\ k < Cardinality(upto)
    BY DEF Kth
  <1>2. /\ IsFiniteSet(G) /\ IsFiniteSet(below) /\ IsFiniteSet(upto) /\ IsFiniteSet(S \ G)
        /\ Cardinality(S) \in Nat /\ Cardinality(G) \in Nat /\ Cardinality(below) \in Nat
        /\ Cardinality(upto) \in Nat /\ Cardinality(S \ G) \in Nat
    <2>1. IsFiniteSet(G) /\ IsFiniteSet(below) /\ IsFiniteSet(upto) /\ IsFiniteSet(S \ G)
      BY FS_Subset
    <2> QED
      BY <2>1, FS_CardinalityType
  <1>3. Cardinality(S \ G) = Cardinality(S) - Cardinality(G)
    <2>1. Cardinality(S \ G) = Cardinality(S) - Cardinality(S \cap G)
      BY <1>2, FS_Difference
    <2>2. S \cap G = G
      OBVIOUS
    <2> QED
      BY <2>1, <2>2
  <1>4. CASE v < lo
    <2>1. upto \subseteq S \ G
      BY <1>1, <1>4
    <2>2. Cardinality(upto) =< Cardinality(S \ G)
      BY <1>2, <2>1, FS_Subset
    <2> QED
      BY <1>1, <1>2, <1>3, <2>2
  <1>5. CASE v > hi
    <2>1. G \subseteq below
      BY <1>1, <1>5
    <2>2. Cardinality(G) =< Cardinality(below)
      BY <1>2, <2>1, FS_Subset
    <2> QED
      BY <1>1, <1>2, <2>2
  <1> QED
    BY <1>1, <1>4, <1>5

\* The median of values of which more than half lie between two bounds lies there too.
LEMMA MedianBetween ==
    ASSUME NEW f, IsFiniteSet(DOMAIN f), f \in [DOMAIN f -> Int],
           NEW G \in SUBSET DOMAIN f, NEW lo \in Int, NEW hi \in Int,
           \A s \in G : lo =< f[s] /\ f[s] =< hi,
           2 * Cardinality(G) > Cardinality(DOMAIN f),
           NEW v \in Median(f)
    PROVE  v \in Int /\ lo =< v /\ v =< hi
  <1> DEFINE n == Cardinality(DOMAIN f)
             g == Cardinality(G)
             mid == n \div 2
  <1>1. n \in Nat /\ g \in Nat /\ g =< n
    BY FS_CardinalityType, FS_Subset
  <1>2. mid \in Nat /\ (n = 2 * mid \/ n = 2 * mid + 1)
    BY <1>1
  <1>3. CASE n % 2 = 1
    <2>1. n = 2 * mid + 1
      BY <1>1, <1>2, <1>3
    <2>2. v \in Kth(f, mid)
      BY <1>3 DEF Median
    <2>3. n - g =< mid /\ mid < g
      BY <1>1, <1>2, <2>1
    <2> HIDE DEF mid
    <2> QED
      BY <1>2, <2>2, <2>3, KthBetween
  <1>4. CASE n % 2 # 1
    <2>1. n = 2 * mid /\ mid \in Nat \ {0} /\ mid - 1 \in Nat
      BY <1>1, <1>2, <1>4
    <2>2. PICK a \in Kth(f, mid - 1), b \in Kth(f, mid) : v = Half(a + b)
      BY <1>4 DEF Median
    <2>3. n - g =< mid - 1 /\ mid < g
      BY <1>1, <2>1
    <2>4. n - g =< mid /\ mid - 1 < g
      BY <1>1, <2>1, <2>3
    <2> HIDE DEF mid
    <2>5. a \in Int /\ lo =< a /\ a =< hi
      BY <2>1, <2>2, <2>3, <2>4, KthBetween
    <2>6. b \in Int /\ lo =< b /\ b =< hi
      BY <2>1, <2>2, <2>3, <2>4, KthBetween
    <2> QED
      BY <2>2, <2>5, <2>6 DEF Half
  <1> QED
    BY <1>3, <1>4
-----------------------------------------------------------------------------
(* The inductive step *)

\* A clock that has not been measured promises nothing.
LEMMA ClockInitInv == ClockInit => ClockInv
  <1> SUFFICES ASSUME ClockInit PROVE ClockInv
    OBVIOUS
  <1>1. DOMAIN answers = {} /\ answers \in [DOMAIN answers -> Int]
    BY DEF ClockInit, NoAnswers
  <1>2. ClockTypeOK
    <2>1. skew \in Int /\ mark = skew
      BY TrustedClockAssumption DEF ClockInit
    <2>2. mark \in Int
      BY <2>1
    <2>3. jumps \in 0 .. MaxJumps /\ asked \in 0 .. NumServers
      BY TrustedClockAssumption DEF ClockInit
    <2>4. offset \in Int /\ ignored \in Nat /\ loop \in {"wait", "ask"}
      BY DEF ClockInit
    <2>5. /\ synced \in BOOLEAN /\ due \in BOOLEAN /\ resync \in BOOLEAN
          /\ clean \in BOOLEAN /\ sound \in BOOLEAN
      BY DEF ClockInit
    <2>6. DOMAIN answers \subseteq 1 .. asked
      BY <1>1
    <2> QED
      BY <1>1, <2>1, <2>2, <2>3, <2>4, <2>5, <2>6 DEF ClockTypeOK
  <1> QED
    BY <1>1, <1>2 DEF ClockInit, ClockInv, AnswersRight, Trusted

\* A step of the loop that neither asks nor ends a measurement, or a step outside it.
LEMMA OutsideInv ==
    ASSUME ClockInv,
           \/ BeginMeasure \/ TimerFires \/ TakeResync \/ RequestResync
           \/ \E d \in Steps : MoveClock(d)
           \/ UNCHANGED clockVars
    PROVE  ClockInv'
  <1>1. CASE BeginMeasure
    BY <1>1 DEF ClockInv, ClockTypeOK, AnswersRight, Trusted, BeginMeasure
  <1>2. CASE TimerFires
    BY <1>2 DEF ClockInv, ClockTypeOK, AnswersRight, Trusted, TimerFires, mvars
  <1>3. CASE TakeResync
    BY <1>3 DEF ClockInv, ClockTypeOK, AnswersRight, Trusted, TakeResync, mvars
  <1>4. CASE RequestResync
    BY <1>4 DEF ClockInv, ClockTypeOK, AnswersRight, Trusted, RequestResync, mvars
  <1>5. ASSUME NEW d \in Steps, MoveClock(d) PROVE ClockInv'
    <2>1. skew' \in Int /\ jumps' \in 0 .. MaxJumps
      <3>1. skew + d \in Int /\ skew' = skew + d
        BY <1>5, TrustedClockAssumption DEF ClockInv, ClockTypeOK, MoveClock
      <3>2. jumps + 1 \in 0 .. MaxJumps /\ jumps' = jumps + 1
        BY <1>5, TrustedClockAssumption DEF ClockInv, ClockTypeOK, MoveClock
      <3> QED
        BY <3>1, <3>2
    <2> QED
      BY <1>5, <2>1 DEF ClockInv, ClockTypeOK, AnswersRight, Trusted, MoveClock
  <1>6. CASE UNCHANGED clockVars
    BY <1>6 DEF ClockInv, ClockTypeOK, AnswersRight, Trusted, clockVars, mvars
  <1> QED
    BY <1>1, <1>2, <1>3, <1>4, <1>5, <1>6

\* query adds one answer at most, and a right one if the server is honest and the clock stood.
LEMMA QueryInv == ASSUME ClockInv, NEW s \in 1 .. NumServers, Query(s) PROVE ClockInv'
  <1>1. /\ loop = "ask" /\ s = asked + 1 /\ asked' = s
        /\ UNCHANGED <<offset, synced, loop, due, resync, mark, sound, ignored>>
    BY DEF Query
  <1>2. CASE UNCHANGED <<skew, jumps, answers, clean>>
    BY <1>1, <1>2, TrustedClockAssumption DEF ClockInv, ClockTypeOK, AnswersRight, Trusted
  <1>3. ASSUME NEW t \in Epochs, NEW d1 \in Delays, NEW d2 \in Delays, NEW j \in Steps \cup {0},
               NEW err \in (IF s \in Honest THEN {0} ELSE Wrong),
               jumps' = IF j = 0 THEN jumps ELSE jumps + 1,
               jumps' =< MaxJumps,
               Sample(s, t, d1, d2, err, j)
        PROVE  ClockInv'
    <2> DEFINE t1 == t + skew
               t2 == FromNtp(ToNtp(t + d1 + err))
               t4 == t + d1 + d2 + skew + j
               o == OffsetMs(t1, t2, t2, t4)
    <2>1. /\ answers' = [x \in DOMAIN answers \cup {s} |-> IF x = s THEN o ELSE answers[x]]
          /\ skew' = skew + j
          /\ clean' = (clean /\ j = 0)
      BY <1>3 DEF Sample, Answered
    <2>2. /\ t \in Int /\ d1 \in Int /\ d2 \in Int /\ j \in Int /\ err \in Int /\ skew \in Int
          /\ Era \in Nat \ {0} /\ NtpUnixDelta \in Int
      BY TrustedClockAssumption DEF ClockInv, ClockTypeOK
    <2>3. o \in Int
      <3>1. t + d1 + err \in Int
        BY <2>2
      <3>2. ToNtp(t + d1 + err) \in Int
        BY <2>2, <3>1 DEF ToNtp
      <3>3. t2 \in Int
        BY <2>2, <3>2 DEF FromNtp
      <3> HIDE DEF t2
      <3> QED
        BY <2>2, <3>3 DEF OffsetMs, Half
    <2> HIDE DEF o
    <2>4. ClockTypeOK'
      BY <1>1, <1>3, <2>1, <2>2, <2>3, TrustedClockAssumption DEF ClockInv, ClockTypeOK
    <2>5. AnswersRight'
      <3> SUFFICES ASSUME clean', NEW x \in DOMAIN answers' \cap Honest
                   PROVE  Right(answers'[x], skew')
        BY DEF AnswersRight
      <3>1. clean /\ j = 0 /\ skew' = skew
        <4>1. clean /\ j = 0
          BY <2>1
        <4>2. skew + j = skew
          BY <2>2, <4>1
        <4> QED
          BY <2>1, <4>1, <4>2
      <3>2. CASE x # s
        BY <1>1, <2>1, <3>1, <3>2 DEF ClockInv, AnswersRight
      <3>3. CASE x = s
        <4>1. err = 0
          BY <3>3
        <4>2. Sample(s, t, d1, d2, 0, 0)
          BY <1>3, <3>1, <4>1
        <4> QED
          BY <3>1, <3>3, <4>2, SampleRight DEF ClockInv
      <3> QED
        BY <3>2, <3>3
    <2> QED
      BY <1>1, <2>4, <2>5 DEF ClockInv, Trusted
  <1> QED
    BY <1>2, <1>3 DEF Query

\* The end of a measurement: the median of mostly honest answers is right.
LEMMA EndMeasureInv == ASSUME ClockInv, EndMeasure PROVE ClockInv'
  <1>1. /\ loop = "ask" /\ loop' = "wait"
        /\ mark' = skew /\ asked' = 0 /\ answers' = NoAnswers /\ ignored' = 0
        /\ sound' = MostAreHonest
        /\ UNCHANGED <<skew, jumps, due, resync, clean>>
    BY DEF EndMeasure
  <1>2. IsFiniteSet(DOMAIN answers) /\ answers \in [DOMAIN answers -> Int]
    <2>1. DOMAIN answers \subseteq 1 .. asked /\ asked \in Int
      BY TrustedClockAssumption DEF ClockInv, ClockTypeOK
    <2>2. IsFiniteSet(1 .. asked)
      BY <2>1, FS_Interval
    <2> QED
      BY <2>1, <2>2, FS_Subset DEF ClockInv, ClockTypeOK
  <1> DEFINE G == DOMAIN answers \cap Honest
  <1>3. skew \in Int /\ MaxError \in Int
    BY TrustedClockAssumption DEF ClockInv, ClockTypeOK, MaxError
  <1>4. MostAreHonest \in BOOLEAN
    BY DEF MostAreHonest
  <1>5. Cardinality(DOMAIN answers) \in Nat /\ Cardinality(G) \in Nat
        /\ Cardinality(G) =< Cardinality(DOMAIN answers)
    BY <1>2, FS_CardinalityType, FS_Subset
  <1>6. CASE DOMAIN answers = {}
    <2>1. UNCHANGED <<offset, synced>>
      BY <1>6 DEF EndMeasure
    <2>2. Cardinality(DOMAIN answers) = 0
      BY <1>6, FS_EmptySet
    <2>3. ~sound' /\ sound' \in BOOLEAN
      <3>1. ~MostAreHonest
        BY <1>5, <2>2 DEF MostAreHonest
      <3> QED
        BY <1>1, <1>4, <3>1
    <2>4. DOMAIN answers' = {} /\ answers' \in [DOMAIN answers' -> Int]
      BY <1>1 DEF NoAnswers
    <2>5. ClockTypeOK'
      BY <1>1, <2>1, <2>3, <2>4, TrustedClockAssumption DEF ClockInv, ClockTypeOK
    <2> QED
      BY <1>1, <2>3, <2>4, <2>5 DEF ClockInv, AnswersRight, Trusted
  <1>7. CASE DOMAIN answers # {}
    <2>1. offset' \in Median(answers) /\ synced' = TRUE
      BY <1>7 DEF EndMeasure
    <2>2. offset' \in Int
      <3>1. CASE Cardinality(DOMAIN answers) % 2 = 1
        <4>1. offset' \in {answers[s] : s \in DOMAIN answers}
          BY <2>1, <3>1 DEF Median, Kth
        <4> QED
          BY <1>2, <4>1
      <3>2. CASE Cardinality(DOMAIN answers) % 2 # 1
        <4> DEFINE mid == Cardinality(DOMAIN answers) \div 2
        <4>1. PICK a \in Kth(answers, mid - 1), b \in Kth(answers, mid) : offset' = Half(a + b)
          BY <2>1, <3>2 DEF Median
        <4>2. a \in Int /\ b \in Int
          BY <1>2 DEF Kth
        <4> QED
          BY <4>1, <4>2 DEF Half
      <3> QED
        BY <3>1, <3>2
    <2>3. clean /\ MostAreHonest => 0 - MaxError =< skew + offset' /\ skew + offset' =< MaxError
      <3> SUFFICES ASSUME clean, MostAreHonest
                   PROVE  0 - MaxError =< skew + offset' /\ skew + offset' =< MaxError
        OBVIOUS
      <3>1. \A s \in G : (0 - MaxError) - skew =< answers[s] /\ answers[s] =< MaxError - skew
        BY <1>1, <1>2, <1>3 DEF ClockInv, AnswersRight, Right
      <3>2. 2 * Cardinality(G) > Cardinality(DOMAIN answers)
        BY DEF MostAreHonest
      <3>3. (0 - MaxError) - skew \in Int /\ MaxError - skew \in Int
        BY <1>3
      <3>4. G \in SUBSET DOMAIN answers
        OBVIOUS
      <3> HIDE DEF G
      <3>5. (0 - MaxError) - skew =< offset' /\ offset' =< MaxError - skew
        BY <1>2, <2>1, <3>1, <3>2, <3>3, <3>4, MedianBetween
      <3>6. PICK o \in Int : o = offset'
        BY <2>2
      <3>7. (0 - MaxError) - skew =< o /\ o =< MaxError - skew
        BY <3>5, <3>6
      <3>8. 0 - MaxError =< skew + o /\ skew + o =< MaxError
        BY <1>3, <3>7
      <3> QED
        BY <3>6, <3>8
    <2>4. DOMAIN answers' = {} /\ answers' \in [DOMAIN answers' -> Int]
      BY <1>1 DEF NoAnswers
    <2>5. ClockTypeOK'
      BY <1>1, <1>4, <2>1, <2>2, <2>4, TrustedClockAssumption DEF ClockInv, ClockTypeOK
    <2>6. Trusted'
      <3> SUFFICES ASSUME clean, MostAreHonest
                   PROVE  Abs(skew + offset') =< MaxError + JumpThreshold * 0
        BY <1>1 DEF Trusted, MaxError
      <3>1. JumpThreshold * 0 = 0
        BY TrustedClockAssumption
      <3>2. PICK o \in Int : o = offset'
        BY <2>2
      <3>3. 0 - MaxError =< skew + o /\ skew + o =< MaxError
        BY <2>3, <3>2
      <3>4. Abs(skew + o) =< MaxError + 0
        BY <1>3, <3>3 DEF Abs
      <3> QED
        BY <3>1, <3>2, <3>4
    <2> QED
      BY <1>1, <2>4, <2>5, <2>6 DEF ClockInv, AnswersRight
  <1> QED
    BY <1>6, <1>7

\* The watch either asks for a measurement or adds a move below the threshold to the error.
LEMMA WatchTickInv == ASSUME ClockInv, WatchTick PROVE ClockInv'
  <1>1. /\ loop = "wait" /\ mark' = skew
        /\ due' = (due \/ Jumped(skew - mark))
        /\ ignored' = IF skew = mark \/ Jumped(skew - mark) THEN ignored ELSE ignored + 1
        /\ UNCHANGED <<skew, jumps, offset, synced, resync, sound, loop, asked, answers, clean>>
    BY DEF WatchTick, mvars
  <1>2. /\ skew \in Int /\ mark \in Int /\ offset \in Int /\ ignored \in Nat
        /\ JumpThreshold \in Nat /\ MaxError \in Int
    BY TrustedClockAssumption DEF ClockInv, ClockTypeOK, MaxError
  <1>3. ClockTypeOK'
    BY <1>1, <1>2 DEF ClockInv, ClockTypeOK
  <1>4. Trusted'
    <2> SUFFICES ASSUME ~due', clean, sound
                 PROVE  Abs(skew + offset) =< MaxError + JumpThreshold * ignored'
      BY <1>1 DEF Trusted, MaxError
    <2>1. ~due /\ ~Jumped(skew - mark)
      BY <1>1
    <2>2. Abs(mark + offset) =< MaxError + JumpThreshold * ignored
      BY <1>1, <2>1 DEF ClockInv, Trusted
    <2>3. CASE skew = mark
      BY <1>1, <2>2, <2>3
    <2>4. CASE skew # mark
      <3>1. ignored' = ignored + 1
        BY <1>1, <2>1, <2>4
      <3>2. JumpThreshold * (ignored + 1) = JumpThreshold * ignored + JumpThreshold
        BY <1>2
      <3>3. Abs(skew - mark) =< JumpThreshold
        BY <1>2, <2>1 DEF Jumped, Abs
      <3> DEFINE e == JumpThreshold * ignored
      <3>4. e \in Int
        BY <1>2
      <3> HIDE DEF e
      <3>5. Abs(skew + offset) =< MaxError + (e + JumpThreshold)
        BY <1>2, <2>2, <3>3, <3>4 DEF Abs, e
      <3> QED
        BY <3>1, <3>2, <3>5 DEF e
    <2> QED
      BY <2>3, <2>4
  <1> QED
    BY <1>1, <1>3, <1>4 DEF ClockInv, AnswersRight

\* ClockInv holds throughout.
THEOREM ClockInvariant == ClockSpec => []ClockInv
  <1>1. ClockInv /\ [ClockNext]_clockVars => ClockInv'
    BY OutsideInv, QueryInv, EndMeasureInv, WatchTickInv DEF ClockNext, ClockLoop
  <1> QED
    BY <1>1, ClockInitInv, PTL DEF ClockSpec

(***************************************************************************)
(* The person at the keyboard cannot move the trusted clock: it is right   *)
(* but for the error of an NTP answer and for moves below                  *)
(* CLOCK_JUMP_THRESHOLD, whatever a minority of the servers answers.       *)
(***************************************************************************)
THEOREM ClockIsTrusted == ClockSpec => []Trusted
  <1>1. ClockInv => Trusted
    BY DEF ClockInv
  <1> QED
    BY <1>1, ClockInvariant, PTL

\* Types, as ClockTypeOK states them.
THEOREM ClockTypeCorrect == ClockSpec => []ClockTypeOK
  <1>1. ClockInv => ClockTypeOK
    BY DEF ClockInv
  <1> QED
    BY <1>1, ClockInvariant, PTL
=============================================================================
