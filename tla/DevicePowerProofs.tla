-------------------------- MODULE DevicePowerProofs --------------------------
(***************************************************************************)
(* The controller's side of a schedule, for any schedules, zones, bounds   *)
(* and horizon.  First the resolver: merging covers what the windows cover *)
(* (MergeCovers), the gaps are what is left (GapsCover), the off windows   *)
(* are exactly the time outside the rows' and overrides' windows           *)
(* (OffWindowsExact), and that is what the clock on the wall says          *)
(* (ResolverMeansClock).  Then DevicePower: its types, that no device is   *)
(* assigned a schedule that is gone, that the dashboard's status and the   *)
(* windows the agent gets agree, that those windows are what the row and   *)
(* the schedule ask for, that an extension grants what it says, and that   *)
(* time alone does not change them.                                        *)
(*                                                                         *)
(* The windows between a given one and the next, on which the resolver     *)
(* turns, exist because a finite set of integers has a least and a         *)
(* greatest element, which is proved first: a finite set without one would *)
(* have a smallest subset without one.  What the windows mean rests on one *)
(* fact of the zone, InstantReached, and on the range the resolver looks   *)
(* at being wide enough (RangeStartsBefore, RangeReaches).                 *)
(***************************************************************************)
EXTENDS DevicePower, FiniteSetTheorems, WellFoundedInduction, TLAPS

\* Some window, of those in which the device is allowed on, contains t.
Covered(windows, t) == \E w \in windows : w.on <= t /\ t < w.off

-----------------------------------------------------------------------------
(* Least and greatest elements. *)

\* A finite set of integers has a greatest element.
LEMMA GreatestExists ==
    ASSUME NEW S \in SUBSET Int, IsFiniteSet(S), S # {}
    PROVE  \E x \in S : \A y \in S : x >= y
<1> DEFINE Bad == {T \in SUBSET S : T # {} /\ ~\E x \in T : \A y \in T : x >= y}
<1> SUFFICES ASSUME Bad # {} PROVE FALSE
  OBVIOUS
<1>1. Bad \subseteq FiniteSubsetsOf(S)
  BY FS_FiniteSubsetsOfFinite
<1> HIDE DEF Bad
<1>2. PICK T \in Bad : \A U \in Bad : ~(<<U, T>> \in StrictSubsetOrdering(S))
  BY <1>1, WFMin, FS_StrictSubsetOrderingWellFounded
<1>3. T \in SUBSET S /\ T # {} /\ ~\E x \in T : \A y \in T : x >= y
  BY DEF Bad
<1>4. PICK e \in T : TRUE
  BY <1>3
<1> DEFINE U == T \ {e}
<1>5. U \in SUBSET S /\ <<U, T>> \in StrictSubsetOrdering(S)
  BY <1>3, <1>4 DEF StrictSubsetOrdering
<1>6. U \notin Bad
  BY <1>2, <1>5
<1>7. U = {} \/ \E x \in U : \A y \in U : x >= y
  BY <1>5, <1>6 DEF Bad
<1>8. CASE U = {}
  <2>1. \A y \in T : y = e
    BY <1>8
  <2> QED
    BY <2>1, <1>3, <1>4
<1>9. CASE \E x \in U : \A y \in U : x >= y
  <2>1. PICK m \in U : \A y \in U : m >= y
    BY <1>9
  <2>2. m \in Int /\ e \in Int /\ m \in T /\ \A y \in T : y \in Int /\ (y = e \/ m >= y)
    BY <2>1, <1>3, <1>4
  <2>3. CASE m >= e
    BY <2>2, <2>3, <1>3
  <2>4. CASE e >= m
    BY <2>2, <2>4, <1>3, <1>4
  <2> QED
    BY <2>2, <2>3, <2>4
<1> QED
  BY <1>7, <1>8, <1>9

\* Max(S) is that element.
LEMMA MaxOf ==
    ASSUME NEW S \in SUBSET Int, IsFiniteSet(S), S # {}
    PROVE  Max(S) \in S /\ \A y \in S : Max(S) >= y
BY GreatestExists DEF Max

\* It has a least one too: the greatest of the opposites.
LEMMA LeastExists ==
    ASSUME NEW S \in SUBSET Int, IsFiniteSet(S), S # {}
    PROVE  \E x \in S : \A y \in S : x <= y
<1> DEFINE N == {-x : x \in S}
           f == [x \in S |-> -x]
<1>1. f \in Surjection(S, N)
  BY DEF Surjection
<1>2. IsFiniteSet(N)
  BY <1>1, FS_Surjection
<1>3. N \in SUBSET Int /\ N # {}
  OBVIOUS
<1> HIDE DEF N
<1>4. PICK m \in N : \A y \in N : m >= y
  BY <1>2, <1>3, GreatestExists
<1> QED
  BY <1>4 DEF N

\* Min(S) is that element.
LEMMA MinOf ==
    ASSUME NEW S \in SUBSET Int, IsFiniteSet(S), S # {}
    PROVE  Min(S) \in S /\ \A y \in S : Min(S) <= y
BY LeastExists DEF Min

\* The lesser of two instants.
LEMMA MinPair ==
    ASSUME NEW a \in Int, NEW b \in Int
    PROVE  Min({a, b}) = IF a <= b THEN a ELSE b
<1> DEFINE m == IF a <= b THEN a ELSE b
<1>1. m \in {a, b} /\ \A y \in {a, b} : m <= y
  OBVIOUS
<1>2. \A x \in {a, b} : (\A y \in {a, b} : x <= y) => x = m
  OBVIOUS
<1> HIDE DEF m
<1>3. Min({a, b}) = m
  BY <1>1, <1>2 DEF Min
<1> QED
  BY <1>3 DEF m

\* The greater of two instants.
LEMMA MaxPair ==
    ASSUME NEW a \in Int, NEW b \in Int
    PROVE  Max({a, b}) = IF a >= b THEN a ELSE b
<1> DEFINE m == IF a >= b THEN a ELSE b
<1>1. m \in {a, b} /\ \A y \in {a, b} : m >= y
  OBVIOUS
<1>2. \A x \in {a, b} : (\A y \in {a, b} : x >= y) => x = m
  OBVIOUS
<1> HIDE DEF m
<1>3. Max({a, b}) = m
  BY <1>1, <1>2 DEF Max
<1> QED
  BY <1>3 DEF m

\* The starts and the ends of finitely many windows are finite sets of integers.
LEMMA EndsFinite ==
    ASSUME NEW W \in SUBSET Windows, IsFiniteSet(W)
    PROVE  /\ IsFiniteSet({w.on : w \in W}) /\ {w.on : w \in W} \in SUBSET Int
           /\ IsFiniteSet({w.off : w \in W}) /\ {w.off : w \in W} \in SUBSET Int
<1> DEFINE on == [w \in W |-> w.on]
           off == [w \in W |-> w.off]
<1>1. on \in Surjection(W, {w.on : w \in W})
  BY DEF Surjection
<1>2. off \in Surjection(W, {w.off : w \in W})
  BY DEF Surjection
<1>3. IsFiniteSet({w.on : w \in W})
  BY <1>1, FS_Surjection
<1>4. IsFiniteSet({w.off : w \in W})
  BY <1>2, FS_Surjection
<1> QED
  BY <1>3, <1>4 DEF Windows

\* Of finitely many windows one begins first.
LEMMA FirstWindow ==
    ASSUME NEW W \in SUBSET Windows, IsFiniteSet(W), W # {}
    PROVE  \E w \in W : \A v \in W : w.on <= v.on
<1> DEFINE S == {w.on : w \in W}
<1>1. IsFiniteSet(S) /\ S \in SUBSET Int /\ S # {}
  BY EndsFinite
<1>2. \A v \in W : v.on \in S
  OBVIOUS
<1>3. \A x \in S : \E w \in W : x = w.on
  OBVIOUS
<1> HIDE DEF S
<1>4. PICK x \in S : \A y \in S : x <= y
  BY <1>1, LeastExists
<1> QED
  BY <1>2, <1>3, <1>4

-----------------------------------------------------------------------------
(* Gaps. *)

\* The greatest of an instant and the ends of windows is one of them and no less than any.
LEMMA Reach ==
    ASSUME NEW W \in SUBSET Windows, IsFiniteSet(W), NEW start \in Int
    PROVE  LET c == Max({start} \cup {w.off : w \in W})
           IN  /\ c \in Int
               /\ start <= c
               /\ \A w \in W : w.off <= c
               /\ c = start \/ \E w \in W : c = w.off
<1> DEFINE S == {start} \cup {w.off : w \in W}
<1>1. IsFiniteSet(S)
  BY EndsFinite, FS_Singleton, FS_Union
<1>2. S \in SUBSET Int /\ S # {}
  BY EndsFinite
<1> HIDE DEF S
<1>3. Max(S) \in S /\ \A y \in S : Max(S) >= y
  BY <1>1, <1>2, MaxOf
<1>4. Max(S) \in Int
  BY <1>2, <1>3
<1>5. start \in S /\ \A w \in W : w.off \in S
  BY DEF S
<1>6. start <= Max(S) /\ \A w \in W : w.off <= Max(S)
  BY <1>2, <1>3, <1>4, <1>5
<1>7. Max(S) = start \/ \E w \in W : Max(S) = w.off
  BY <1>3 DEF S
<1> QED
  BY <1>4, <1>6, <1>7 DEF S

\* The same of the cursor when offWindows comes to a window that begins at s.
LEMMA CursorReach ==
    ASSUME NEW W \in SUBSET Windows, IsFiniteSet(W), NEW start \in Int, NEW s \in Int
    PROVE  /\ Cursor(W, start, s) \in Int
           /\ start <= Cursor(W, start, s)
           /\ \A w \in W : w.on < s => w.off <= Cursor(W, start, s)
           /\ \/ Cursor(W, start, s) = start
              \/ \E w \in W : w.on < s /\ Cursor(W, start, s) = w.off
<1> DEFINE V == {v \in W : v.on < s}
<1>1. V \in SUBSET Windows /\ IsFiniteSet(V)
  BY FS_Subset
<1>2. Cursor(W, start, s) = Max({start} \cup {w.off : w \in V})
  BY DEF Cursor
<1>3. \A w \in W : w.on < s => w \in V
  OBVIOUS
<1>4. \A w \in V : w \in W /\ w.on < s
  OBVIOUS
<1> HIDE DEF V
<1> QED
  BY <1>1, <1>2, <1>3, <1>4, Reach

\* The gaps are finitely many windows.
LEMMA GapsType ==
    ASSUME NEW W \in SUBSET Windows, IsFiniteSet(W), NEW start \in Int, NEW end \in Int
    PROVE  Gaps(W, start, end) \in SUBSET Windows /\ IsFiniteSet(Gaps(W, start, end))
<1> DEFINE V == {v \in W : v.on > Cursor(W, start, v.on)}
           before(w) == [off |-> Cursor(W, start, w.on), on |-> Min({w.on, end})]
           S == {before(w) : w \in V}
           last == [off |-> Max({start} \cup {w.off : w \in W}), on |-> end]
           f == [w \in V |-> before(w)]
<1>1. Gaps(W, start, end) = S \cup {g \in {last} : g.off < end}
  BY DEF Gaps
<1>2. ASSUME NEW w \in W PROVE before(w) \in Windows
  <2>1. w.on \in Int
    BY DEF Windows
  <2>2. Min({w.on, end}) \in Int
    BY <2>1, MinPair
  <2> QED
    BY <2>1, <2>2, CursorReach DEF Windows
<1>3. last \in Windows
  BY Reach DEF Windows
<1>4. IsFiniteSet(V) /\ V \in SUBSET W
  BY FS_Subset
<1> HIDE DEF V, before, last
<1>5. f \in Surjection(V, S)
  BY DEF Surjection
<1>6. IsFiniteSet(S)
  BY <1>4, <1>5, FS_Surjection
<1>7. IsFiniteSet({g \in {last} : g.off < end})
  BY FS_Singleton, FS_Subset
<1>8. S \in SUBSET Windows
  BY <1>2, <1>4
<1> HIDE DEF S
<1> QED
  BY <1>1, <1>3, <1>6, <1>7, <1>8, FS_Union

\* Inside the range an instant is in a gap exactly if no window contains it, be the
\* windows merged or not, in order or not, or even inside out as a skipped hour makes them
\* (offWindows).
THEOREM GapsCover ==
    ASSUME NEW W \in SUBSET Windows, IsFiniteSet(W),
           NEW start \in Int, NEW end \in Int, NEW t \in start .. end - 1
    PROVE  OffAt(Gaps(W, start, end), t) <=> ~Covered(W, t)
<1> DEFINE last == Max({start} \cup {w.off : w \in W})
<1>1. t \in Int /\ start <= t /\ t < end /\ \A w \in W : w.on \in Int /\ w.off \in Int
  BY DEF Windows
<1>2. last \in Int /\ \A w \in W : w.off <= last
  BY Reach
<1>3. last = start \/ \E w \in W : last = w.off
  BY Reach
<1>4. Gaps(W, start, end) =
         {[off |-> Cursor(W, start, w.on), on |-> Min({w.on, end})] :
             w \in {v \in W : v.on > Cursor(W, start, v.on)}}
         \cup {g \in {[off |-> last, on |-> end]} : g.off < end}
  BY DEF Gaps
<1> HIDE DEF last
<1>5. ASSUME OffAt(Gaps(W, start, end), t), NEW v \in W, v.on <= t, t < v.off PROVE FALSE
  <2>1. PICK g \in Gaps(W, start, end) : g.off <= t /\ t < g.on
    BY <1>5 DEF OffAt
  <2>2. CASE g = [off |-> last, on |-> end]
    BY <2>1, <2>2, <1>1, <1>2, <1>5
  <2>3. CASE \E w \in W : g = [off |-> Cursor(W, start, w.on), on |-> Min({w.on, end})]
    <3>1. PICK w \in W : g = [off |-> Cursor(W, start, w.on), on |-> Min({w.on, end})]
      BY <2>3
    <3>2. t < w.on
      BY <3>1, <2>1, <1>1, MinPair
    <3>3. v.off <= Cursor(W, start, w.on) /\ Cursor(W, start, w.on) \in Int
      BY <3>2, <1>1, <1>5, CursorReach
    <3> QED
      BY <3>1, <3>3, <2>1, <1>1, <1>5
  <2> QED
    BY <2>1, <2>2, <2>3, <1>4
<1>6. ASSUME ~Covered(W, t) PROVE OffAt(Gaps(W, start, end), t)
  <2>1. \A w \in W : w.on <= t => w.off <= t
    BY <1>6, <1>1 DEF Covered
  <2>2. CASE \A w \in W : w.on <= t
    <3>1. last <= t
      BY <2>1, <2>2, <1>1, <1>3
    <3>2. [off |-> last, on |-> end] \in Gaps(W, start, end)
      BY <3>1, <1>1, <1>2, <1>4
    <3> QED
      BY <3>1, <3>2, <1>1 DEF OffAt
  <2>3. CASE \E w \in W : ~(w.on <= t)
    <3> DEFINE V == {w \in W : t < w.on}
    <3>1. V \in SUBSET Windows /\ IsFiniteSet(V) /\ V # {}
      BY <2>3, <1>1, FS_Subset
    <3>2. \A w \in W : t < w.on => w \in V
      OBVIOUS
    <3>3. \A w \in V : w \in W /\ t < w.on
      OBVIOUS
    <3> HIDE DEF V
    <3>4. PICK w \in V : \A v \in V : w.on <= v.on
      BY <3>1, FirstWindow
    <3>5. w \in W /\ t < w.on /\ \A v \in W : v.on < w.on => v.on <= t
      BY <3>2, <3>3, <3>4, <1>1
    <3>6. Cursor(W, start, w.on) \in Int /\ Cursor(W, start, w.on) <= t
      BY <3>5, <2>1, <1>1, CursorReach
    <3>7. w.on > Cursor(W, start, w.on)
      BY <3>5, <3>6, <1>1
    <3>8. [off |-> Cursor(W, start, w.on), on |-> Min({w.on, end})] \in Gaps(W, start, end)
      BY <3>5, <3>7, <1>4
    <3>9. t < Min({w.on, end})
      BY <3>5, <1>1, MinPair
    <3> QED
      BY <3>6, <3>8, <3>9 DEF OffAt
  <2> QED
    BY <2>2, <2>3
<1> QED
  BY <1>5, <1>6 DEF Covered

-----------------------------------------------------------------------------
(* Merging. *)

\* The instants at which merge begins a new window.
Starts(W) == {s \in {w.on : w \in W} : \A w \in W : w.on < s => w.off < s}

\* A merged window ends with one of its group and no earlier than any other.
LEMMA GroupEnd ==
    ASSUME NEW W \in SUBSET Windows, IsFiniteSet(W), NEW s \in Starts(W)
    PROVE  LET G == Group(W, Starts(W), s)
           IN  /\ s \in Int
               /\ \E v \in G : Max({w.off : w \in G}) = v.off
               /\ \A v \in G : v.off <= Max({w.off : w \in G})
               /\ Max({w.off : w \in G}) \in Int
<1> DEFINE G == Group(W, Starts(W), s)
           S == {w.off : w \in G}
<1>1. \A w \in W : w.on \in Int /\ w.off \in Int
  BY DEF Windows
<1>2. PICK u \in W : u.on = s /\ \A w \in W : w.on < s => w.off < s
  BY DEF Starts
<1>3. s \in Int /\ u \in G
  BY <1>1, <1>2 DEF Group
<1>4. G \in SUBSET W /\ IsFiniteSet(G)
  BY FS_Subset DEF Group
<1> HIDE DEF G
<1>5. IsFiniteSet(S) /\ S \in SUBSET Int /\ S # {}
  BY <1>3, <1>4, EndsFinite
<1>6. Max(S) \in S /\ \A y \in S : Max(S) >= y
  BY <1>5, MaxOf
<1>7. \A w \in G : w.off \in S /\ w.off \in Int
  BY <1>1, <1>4
<1>8. Max(S) \in Int /\ \A w \in G : w.off <= Max(S)
  BY <1>5, <1>6, <1>7
<1>9. \E w \in G : Max(S) = w.off
  BY <1>6
<1> QED
  BY <1>3, <1>8, <1>9 DEF G

\* Merged windows are finitely many windows.
LEMMA MergeType ==
    ASSUME NEW W \in SUBSET Windows, IsFiniteSet(W)
    PROVE  Merge(W) \in SUBSET Windows /\ IsFiniteSet(Merge(W))
<1> DEFINE E(s) == Max({w.off : w \in Group(W, Starts(W), s)})
           f == [s \in Starts(W) |-> [on |-> s, off |-> E(s)]]
<1>1. Merge(W) = {[on |-> s, off |-> E(s)] : s \in Starts(W)}
  BY DEF Merge, Starts
<1>2. \A s \in Starts(W) : s \in Int /\ E(s) \in Int
  BY GroupEnd
<1>3. IsFiniteSet(Starts(W))
  BY EndsFinite, FS_Subset DEF Starts
<1> HIDE DEF E
<1>4. f \in Surjection(Starts(W), Merge(W))
  BY <1>1 DEF Surjection
<1>5. IsFiniteSet(Merge(W))
  BY <1>3, <1>4, FS_Surjection
<1> QED
  BY <1>1, <1>2, <1>5 DEF Windows

\* merge leaves the covered time as it is.
THEOREM MergeCovers ==
    ASSUME NEW W \in SUBSET Windows, IsFiniteSet(W), NEW t \in Int
    PROVE  Covered(Merge(W), t) <=> Covered(W, t)
<1> DEFINE G(s) == Group(W, Starts(W), s)
           E(s) == Max({w.off : w \in G(s)})
<1>1. Merge(W) = {[on |-> s, off |-> E(s)] : s \in Starts(W)}
  BY DEF Merge, Starts
<1>2. \A w \in W : w.on \in Int /\ w.off \in Int
  BY DEF Windows
<1>3. \A s \in Starts(W) : s \in Int
  BY <1>2 DEF Starts
<1>4. \A s \in Starts(W) : /\ \E w \in G(s) : E(s) = w.off
                           /\ \A w \in G(s) : w.off <= E(s)
                           /\ E(s) \in Int
  BY GroupEnd
<1> HIDE DEF E
<1>5. ASSUME Covered(Merge(W), t) PROVE Covered(W, t)
  <2>1. PICK s \in Starts(W) : s <= t /\ t < E(s)
    BY <1>5, <1>1 DEF Covered
  <2>2. PICK w \in G(s) : E(s) = w.off
    BY <1>4
  <2>3. w \in W /\ s <= w.on /\ \A next \in Starts(W) : s < next => w.on < next
    BY <2>2 DEF Group
  <2> SUFFICES ASSUME ~Covered(W, t) PROVE FALSE
    OBVIOUS
  <2>4. \A v \in W : v.on <= t => v.off <= t
    BY <1>2 DEF Covered
  <2>5. t < w.on
    BY <2>1, <2>2, <2>3, <2>4, <1>2
  <2> DEFINE V == {v \in W : t < v.on}
  <2>6. V \in SUBSET Windows /\ IsFiniteSet(V) /\ w \in V
    BY <2>3, <2>5, FS_Subset
  <2>7. \A v \in W : t < v.on => v \in V
    OBVIOUS
  <2>8. \A v \in V : v \in W /\ t < v.on
    OBVIOUS
  <2> HIDE DEF V, G
  <2>9. PICK n \in V : \A v \in V : n.on <= v.on
    BY <2>6, FirstWindow
  <2>10. n \in W /\ n.on \in Int /\ t < n.on /\ n.on <= w.on
    BY <2>6, <2>8, <2>9, <1>2
  <2>11. \A u \in W : u.on < n.on => u.on <= t
    BY <2>7, <2>9, <2>10, <1>2
  <2>12. \A u \in W : u.on < n.on => u.off < n.on
    BY <2>4, <2>10, <2>11, <1>2
  <2>13. n.on \in Starts(W)
    BY <2>10, <2>12 DEF Starts
  <2>14. s \in Int /\ s < n.on
    BY <2>1, <2>10, <1>3
  <2>15. w.on < n.on
    BY <2>3, <2>13, <2>14
  <2> QED
    BY <2>3, <2>10, <2>15, <1>2
<1>6. ASSUME Covered(W, t) PROVE Covered(Merge(W), t)
  <2>1. PICK w \in W : w.on <= t /\ t < w.off
    BY <1>6 DEF Covered
  <2> DEFINE S == {s \in Starts(W) : s <= w.on}
  <2>2. S # {}
    <3>1. PICK v \in W : \A u \in W : v.on <= u.on
      BY <2>1, FirstWindow
    <3>2. \A u \in W : ~(u.on < v.on)
      BY <3>1, <1>2
    <3>3. v.on \in Starts(W)
      BY <3>1, <3>2 DEF Starts
    <3> QED
      BY <3>1, <3>3
  <2>3. S \in SUBSET Int /\ IsFiniteSet(S)
    <3>1. S \subseteq {v.on : v \in W}
      BY DEF Starts
    <3> QED
      BY <3>1, EndsFinite, FS_Subset
  <2>4. \A u \in Starts(W) : u <= w.on => u \in S
    OBVIOUS
  <2>5. \A u \in S : u \in Starts(W) /\ u <= w.on
    OBVIOUS
  <2> HIDE DEF S
  <2>6. PICK s \in S : \A u \in S : s >= u
    BY <2>2, <2>3, GreatestExists
  <2>7. \A next \in Starts(W) : s < next => w.on < next
    BY <2>3, <2>4, <2>6, <1>2, <1>3
  <2>8. s \in Starts(W) /\ s \in Int /\ s <= w.on /\ w \in G(s)
    BY <2>3, <2>5, <2>6, <2>7 DEF Group
  <2>9. E(s) \in Int /\ w.off <= E(s)
    BY <2>8, <1>4
  <2>10. s <= t /\ t < E(s)
    BY <2>1, <2>8, <2>9, <1>2
  <2> DEFINE m == [on |-> s, off |-> E(s)]
  <2>11. m \in Merge(W)
    BY <2>8, <1>1
  <2>12. m.on = s /\ m.off = E(s)
    OBVIOUS
  <2> HIDE DEF m
  <2> QED
    BY <2>10, <2>11, <2>12 DEF Covered
<1> QED
  BY <1>5, <1>6

-----------------------------------------------------------------------------
(* Dates, and the clock on the wall. *)

\* A zone's offsets and the instant they change at are integers.
LEMMA ZoneType ==
    ASSUME NEW zone \in Zones
    PROVE  /\ DayLength \in Int /\ DayLength > 0
           /\ zone.before \in Int /\ zone.after \in Int /\ zone.at \in Int
           /\ -DayLength <= zone.before /\ zone.before <= DayLength
           /\ -DayLength <= zone.after /\ zone.after <= DayLength
           /\ ~(zone.after < 0 /\ 0 < zone.before)
BY ResolverAssumption DEF Zones, Offsets

\* Dates and instants are integers.
LEMMA InstantTypes ==
    ASSUME NEW zone \in Zones, NEW i \in Int
    PROVE  /\ LocalOf(zone, i) \in Int
           /\ InstantOf(zone, i) \in Int
           /\ Date(i) \in Int
           /\ StartOfDay(zone, i) \in Int
<1>1. DayLength \in Int /\ DayLength > 0 /\ zone.before \in Int /\ zone.after \in Int /\ zone.at \in Int
  BY ZoneType
<1>2. \A l \in Int : InstantOf(zone, l) \in Int
  BY <1>1 DEF InstantOf
<1>3. i * DayLength \in Int
  BY <1>1
<1> QED
  BY <1>1, <1>2, <1>3 DEF LocalOf, Date, StartOfDay

\* An instant or local date-time is a date and a time of that day.
LEMMA DateTime ==
    ASSUME NEW l \in Int
    PROVE  /\ Date(l) \in Int /\ TimeOfDay(l) \in Int
           /\ 0 <= TimeOfDay(l) /\ TimeOfDay(l) < DayLength
           /\ l = Date(l) * DayLength + TimeOfDay(l)
BY ResolverAssumption DEF Date, TimeOfDay

\* Its date is d or later exactly if it is not before the start of d.
LEMMA DateAtLeast ==
    ASSUME NEW l \in Int, NEW d \in Int
    PROVE  /\ d * DayLength \in Int
           /\ (d + 1) * DayLength = d * DayLength + DayLength
           /\ d <= Date(l) <=> d * DayLength <= l
<1>1. DayLength \in Int /\ DayLength > 0
  BY ResolverAssumption
<1>2. PICK n \in Int, m \in Int : n = Date(l) /\ 0 <= m /\ m < DayLength /\ l = n * DayLength + m
  BY DateTime
<1>3. n * DayLength \in Int
  BY <1>1
<1>4. d * DayLength \in Int /\ (d + 1) * DayLength = d * DayLength + DayLength
  BY <1>1
<1>5. d <= n => d * DayLength <= n * DayLength
  BY <1>1
<1>6. n + 1 <= d => n * DayLength + DayLength <= d * DayLength
  BY <1>1
<1> QED
  BY <1>1, <1>2, <1>3, <1>4, <1>5, <1>6

\* Away from a change of offset, an instant is not before a local time exactly if the clock
\* on the wall there shows that time or a later one; be the change forward or back, and
\* however large.
LEMMA InstantReached ==
    ASSUME NEW zone \in Zones, NEW l \in Int, NEW t \in Int, t \notin Shifted(zone)
    PROVE  InstantOf(zone, l) <= t <=> l <= LocalOf(zone, t)
BY ZoneType DEF InstantOf, LocalOf, Shifted

\* A local day, midnight skipped or repeated or not, starts when the clock on the wall has
\* reached it, and what begins later on that clock begins no earlier.
LEMMA DayStarts ==
    ASSUME NEW zone \in Zones, NEW d \in Int
    PROVE  LET start == StartOfDay(zone, d)
               local == LocalOf(zone, start)
           IN  /\ start \in Int /\ local \in Int /\ local >= d * DayLength
               /\ \A t \in Int : t \notin Shifted(zone) => (start <= t <=> local <= LocalOf(zone, t))
               /\ \A l \in Int : l > local => InstantOf(zone, l) >= start
<1>1. PICK m \in Int : m = d * DayLength
  BY DateAtLeast
<1>2. StartOfDay(zone, d) = IF zone.at + zone.before <= m /\ m < zone.at + zone.after
                            THEN zone.at ELSE InstantOf(zone, m)
  BY <1>1 DEF StartOfDay
<1>3. PICK start \in Int : start = StartOfDay(zone, d)
  BY InstantTypes
<1>4. PICK local \in Int : local = LocalOf(zone, start)
  BY InstantTypes
<1>5. local >= m
  BY <1>2, <1>3, <1>4, ZoneType DEF LocalOf, InstantOf
<1>6. ASSUME NEW t \in Int, t \notin Shifted(zone)
      PROVE  start <= t <=> local <= LocalOf(zone, t)
  BY <1>2, <1>3, <1>4, <1>6, ZoneType DEF LocalOf, InstantOf, Shifted
<1>7. ASSUME NEW l \in Int, l > local
      PROVE  InstantOf(zone, l) >= start
  BY <1>2, <1>3, <1>4, <1>7, ZoneType DEF LocalOf, InstantOf
<1> QED
  BY <1>1, <1>3, <1>4, <1>5, <1>6, <1>7

\* The range the resolver looks at starts before the time it is asked from,
LEMMA RangeStartsBefore ==
    ASSUME NEW zone \in Zones, NEW from \in Int
    PROVE  RangeStart(zone, from) \in Int /\ RangeStart(zone, from) <= from
<1>1. PICK local \in Int : local = LocalOf(zone, from)
  BY InstantTypes
<1>2. PICK d \in Int : d = Date(local)
  BY InstantTypes
<1>3. PICK m \in Int : m = (d - 1) * DayLength /\ m <= local
  BY <1>2, DateAtLeast
<1>4. RangeStart(zone, from) = IF zone.at + zone.before <= m /\ m < zone.at + zone.after
                               THEN zone.at ELSE InstantOf(zone, m)
  BY <1>1, <1>2, <1>3 DEF RangeStart, StartOfDay
<1> QED
  BY <1>1, <1>3, <1>4, ZoneType DEF LocalOf, InstantOf

\* and ends after the horizon, if that is on a UTC day boundary.  This is where a zone
\* whose clocks go back from ahead of UTC to behind it is excluded: midnight would be
\* repeated around the horizon, and the range would end at the first of the two.
LEMMA RangeReaches ==
    ASSUME NEW zone \in Zones, NEW k \in Int
    PROVE  /\ RangeEnd(zone, k * DayLength) \in Int
           /\ RangeEnd(zone, k * DayLength) > k * DayLength
<1>1. PICK to \in Int : to = k * DayLength
  BY DateAtLeast
<1>2. PICK local \in Int : local = LocalOf(zone, to)
  BY InstantTypes
<1>3. PICK d \in Int : d = Date(local)
  BY InstantTypes
<1>4. PICK m \in Int : m = (d + 1) * DayLength
  BY DateAtLeast
<1>5. m > local
  BY <1>3, <1>4, DateAtLeast
<1>6. /\ local >= to => m >= to + DayLength
      /\ local >= to - DayLength => m >= to
  <2>1. k * DayLength = (k - 1) * DayLength + DayLength /\ (k - 1) * DayLength \in Int
    BY ZoneType
  <2>2. local >= to => d >= k
    BY <1>1, <1>3, DateAtLeast
  <2>3. local >= to - DayLength => d >= k - 1
    BY <2>1, <1>1, <1>3, DateAtLeast, ZoneType
  <2>4. d >= k => m >= to + DayLength
    BY <1>1, <1>4, ZoneType
  <2>5. d >= k - 1 => m >= to
    BY <1>1, <1>4, ZoneType
  <2> QED
    BY <2>2, <2>3, <2>4, <2>5
<1>7. RangeEnd(zone, to) = IF zone.at + zone.before <= m /\ m < zone.at + zone.after
                           THEN zone.at ELSE InstantOf(zone, m)
  BY <1>2, <1>3, <1>4 DEF RangeEnd, StartOfDay
<1>8. RangeEnd(zone, to) \in Int /\ RangeEnd(zone, to) > to
  BY <1>2, <1>5, <1>6, <1>7, ZoneType DEF LocalOf, InstantOf
<1> QED
  BY <1>1, <1>8

-----------------------------------------------------------------------------
(* The rows' windows. *)

\* On one day a row or an override has at most one window.
LEMMA WindowType ==
    ASSUME NEW zone \in Zones, NEW d \in Int, NEW start \in TimesOfDay, NEW end \in TimesOfDay
    PROVE  \E w \in Windows : Window(zone, d, start, end) \in SUBSET {w}
<1>1. DayLength \in Int /\ start \in Int /\ end \in Int
  BY ResolverAssumption DEF TimesOfDay
<1>2. d * DayLength \in Int /\ (d + 1) * DayLength \in Int
  BY <1>1
<1> DEFINE off == IF end = Midnight THEN (d + 1) * DayLength ELSE d * DayLength + end
           w == [on |-> InstantOf(zone, d * DayLength + start), off |-> InstantOf(zone, off)]
<1>3. d * DayLength + start \in Int /\ off \in Int
  BY <1>1, <1>2
<1> HIDE DEF off
<1>4. w \in Windows
  BY <1>3, InstantTypes DEF Windows
<1>5. Window(zone, d, start, end) \in SUBSET {w}
  BY DEF Window, off
<1> QED
  BY <1>4, <1>5

\* The windows of the rows, and of the overrides, on finitely many days are finitely many.
LEMMA RowsOnDates ==
    ASSUME NEW zone \in Zones, NEW dates \in SUBSET Int, IsFiniteSet(dates)
    PROVE  /\ \A rules \in SUBSET Rules : IsFiniteSet(rules) =>
                 /\ RuleWindows(zone, rules, dates) \in SUBSET Windows
                 /\ IsFiniteSet(RuleWindows(zone, rules, dates))
           /\ \A overrides \in SUBSET Overrides : IsFiniteSet(overrides) =>
                 /\ OverrideWindows(zone, overrides, dates) \in SUBSET Windows
                 /\ IsFiniteSet(OverrideWindows(zone, overrides, dates))
<1> DEFINE One(d, r) == CHOOSE w \in Windows : Window(zone, d, r.start, r.end) \in SUBSET {w}
<1>1. ASSUME NEW R, IsFiniteSet(R), NEW W,
             \A r \in R : r.start \in TimesOfDay /\ r.end \in TimesOfDay,
             \A w \in W : \E d \in dates, r \in R : w \in Window(zone, d, r.start, r.end)
      PROVE  W \in SUBSET Windows /\ IsFiniteSet(W)
  <2> DEFINE f == [p \in dates \X R |-> One(p[1], p[2])]
             S == {One(p[1], p[2]) : p \in dates \X R}
  <2>1. \A d \in dates, r \in R : /\ One(d, r) \in Windows
                                  /\ Window(zone, d, r.start, r.end) \in SUBSET {One(d, r)}
    BY <1>1, WindowType
  <2> HIDE DEF One
  <2>2. IsFiniteSet(dates \X R)
    BY <1>1, FS_Product
  <2>3. f \in Surjection(dates \X R, S)
    BY DEF Surjection
  <2>4. IsFiniteSet(S)
    BY <2>2, <2>3, FS_Surjection
  <2>5. ASSUME NEW w \in W PROVE w \in S /\ w \in Windows
    <3>1. PICK d \in dates, r \in R : w \in Window(zone, d, r.start, r.end)
      BY <1>1
    <3>2. w = One(d, r) /\ w \in Windows
      BY <2>1, <3>1
    <3> DEFINE p == <<d, r>>
    <3>3. p \in dates \X R /\ p[1] = d /\ p[2] = r
      OBVIOUS
    <3> HIDE DEF p
    <3>4. w = One(p[1], p[2])
      BY <3>2, <3>3
    <3> QED
      BY <3>2, <3>3, <3>4
  <2> HIDE DEF S
  <2>6. W \in SUBSET S
    BY <2>5
  <2>7. IsFiniteSet(W)
    BY <2>4, <2>6, FS_Subset
  <2> QED
    BY <2>5, <2>7
<1> HIDE DEF One
<1>2. ASSUME NEW rules \in SUBSET Rules, IsFiniteSet(rules)
      PROVE  /\ RuleWindows(zone, rules, dates) \in SUBSET Windows
             /\ IsFiniteSet(RuleWindows(zone, rules, dates))
  <2>1. \A r \in rules : r.start \in TimesOfDay /\ r.end \in TimesOfDay
    BY DEF Rules
  <2>2. \A w \in RuleWindows(zone, rules, dates) :
            \E d \in dates, r \in rules : w \in Window(zone, d, r.start, r.end)
    BY DEF RuleWindows
  <2> QED
    BY <2>1, <2>2, <1>1, <1>2
<1>3. ASSUME NEW overrides \in SUBSET Overrides, IsFiniteSet(overrides)
      PROVE  /\ OverrideWindows(zone, overrides, dates) \in SUBSET Windows
             /\ IsFiniteSet(OverrideWindows(zone, overrides, dates))
  <2>1. \A r \in overrides : r.start \in TimesOfDay /\ r.end \in TimesOfDay
    BY DEF Overrides
  <2>2. \A w \in OverrideWindows(zone, overrides, dates) :
            \E d \in dates, r \in overrides : w \in Window(zone, d, r.start, r.end)
    BY DEF OverrideWindows
  <2> QED
    BY <2>1, <2>2, <1>1, <1>3
<1> QED
  BY <1>2, <1>3

\* The windows the resolver starts from.
LEMMA RowWindowsType ==
    ASSUME NEW zone \in Zones, NEW rules \in SUBSET Rules, IsFiniteSet(rules),
           NEW overrides \in SUBSET Overrides, IsFiniteSet(overrides),
           NEW from \in Int, NEW to \in Int
    PROVE  /\ RowWindows(zone, rules, overrides, from, to) \in SUBSET Windows
           /\ IsFiniteSet(RowWindows(zone, rules, overrides, from, to))
<1> DEFINE dates == Date(LocalOf(zone, from)) - 1 .. Date(LocalOf(zone, to))
<1>1. dates \in SUBSET Int /\ IsFiniteSet(dates)
  <2> DEFINE first == Date(LocalOf(zone, from)) - 1
             last == Date(LocalOf(zone, to))
  <2>1. first \in Int /\ last \in Int
    BY InstantTypes
  <2> HIDE DEF first, last
  <2>2. IsFiniteSet(first .. last) /\ first .. last \in SUBSET Int
    BY <2>1, FS_Interval
  <2> QED
    BY <2>2 DEF first, last
<1>2. RowWindows(zone, rules, overrides, from, to)
        = RuleWindows(zone, rules, dates) \cup OverrideWindows(zone, overrides, dates)
  BY DEF RowWindows
<1> HIDE DEF dates
<1> QED
  BY <1>1, <1>2, RowsOnDates, FS_Union

\* The gaps the resolver finds end after they begin, and are what no row and no override
\* covers.
LEMMA GapsExact ==
    ASSUME NEW zone \in Zones, NEW rules \in SUBSET Rules, IsFiniteSet(rules),
           NEW overrides \in SUBSET Overrides, IsFiniteSet(overrides),
           NEW start \in Int, NEW end \in Int
    PROVE  LET gaps == Gaps(AllowedWindows(zone, rules, overrides, start, end), start, end)
           IN  /\ gaps \in SUBSET Windows /\ IsFiniteSet(gaps)
               /\ \A g \in gaps : g.off < g.on /\ g.on <= end
               /\ \A t \in start .. end - 1 :
                     OffAt(gaps, t) <=> ~Covered(RowWindows(zone, rules, overrides, start, end), t)
<1> DEFINE rows == RowWindows(zone, rules, overrides, start, end)
           allowed == AllowedWindows(zone, rules, overrides, start, end)
           gaps == Gaps(allowed, start, end)
<1>1. rows \in SUBSET Windows /\ IsFiniteSet(rows)
  BY RowWindowsType
<1>2. allowed = {w \in Merge(rows) : w.off > start /\ w.on < end}
  BY DEF AllowedWindows
<1> HIDE DEF rows, allowed
<1>3. Merge(rows) \in SUBSET Windows /\ IsFiniteSet(Merge(rows))
  BY <1>1, MergeType
<1>4. allowed \in SUBSET Windows /\ IsFiniteSet(allowed)
  BY <1>2, <1>3, FS_Subset
<1>5. gaps \in SUBSET Windows /\ IsFiniteSet(gaps)
  BY <1>4, GapsType
<1>6. ASSUME NEW g \in gaps PROVE g.off < g.on /\ g.on <= end
  <2> DEFINE last == Max({start} \cup {w.off : w \in allowed})
  <2>1. CASE \E w \in allowed : /\ w.on > Cursor(allowed, start, w.on)
                                /\ g = [off |-> Cursor(allowed, start, w.on), on |-> Min({w.on, end})]
    <3>1. PICK w \in allowed :
              /\ w.on > Cursor(allowed, start, w.on)
              /\ g = [off |-> Cursor(allowed, start, w.on), on |-> Min({w.on, end})]
      BY <2>1
    <3>2. w.on \in Int /\ w.on < end
      BY <1>2, <1>3 DEF Windows
    <3>3. g.on = w.on
      BY <3>1, <3>2, MinPair
    <3>4. g.off = Cursor(allowed, start, w.on)
      BY <3>1
    <3> QED
      BY <3>1, <3>2, <3>3, <3>4
  <2>2. CASE g = [off |-> last, on |-> end] /\ g.off < end
    <3> HIDE DEF last
    <3>1. g.on = end
      BY <2>2
    <3> QED
      BY <2>2, <3>1
  <2> QED
    BY <2>1, <2>2 DEF Gaps
<1>7. ASSUME NEW t \in start .. end - 1 PROVE OffAt(gaps, t) <=> ~Covered(rows, t)
  <2>1. t \in Int /\ start <= t /\ t < end
    BY <1>7
  <2>2. Covered(allowed, t) <=> Covered(Merge(rows), t)
    <3>1. \A w \in Merge(rows) : w.on \in Int /\ w.off \in Int
      BY <1>3 DEF Windows
    <3> QED
      BY <3>1, <2>1, <1>2 DEF Covered
  <2>3. Covered(Merge(rows), t) <=> Covered(rows, t)
    BY <2>1, <1>1, MergeCovers
  <2>4. OffAt(gaps, t) <=> ~Covered(allowed, t)
    BY <1>4, <1>7, GapsCover
  <2> QED
    BY <2>2, <2>3, <2>4
<1> HIDE DEF gaps
<1> QED
  BY <1>5, <1>6, <1>7 DEF gaps, rows, allowed

\* Windows that are not over yet and end after they begin.
Proper(windows, from) == \A w \in windows : w.off < w.on /\ from < w.on

\* What the off windows from an instant to another are: finitely many, not over yet, begun
\* before the end; off only where no window of a row or an override contains the instant, and,
\* up to the end, everywhere there.
LEMMA OffWindowsShape ==
    ASSUME NEW zone \in Zones, NEW rules \in SUBSET Rules, IsFiniteSet(rules),
           NEW overrides \in SUBSET Overrides, IsFiniteSet(overrides),
           NEW from \in Int, NEW to \in Int
    PROVE  LET end == RangeEnd(zone, to)
               rows == RowWindows(zone, rules, overrides, RangeStart(zone, from), end)
               off == OffWindows(zone, rules, overrides, from, to)
               enabled == \E r \in rules : r.enabled
           IN  /\ end \in Int
               /\ off \in SUBSET Windows /\ IsFiniteSet(off)
               /\ Proper(off, from) /\ \A g \in off : g.off < to
               /\ \A t \in Int : from <= t /\ OffAt(off, t) => t < end /\ enabled /\ ~Covered(rows, t)
               /\ \A t \in Int : from <= t /\ t < to /\ t < end /\ enabled /\ ~Covered(rows, t)
                                    => OffAt(off, t)
<1> DEFINE start == RangeStart(zone, from)
           end == RangeEnd(zone, to)
           rows == RowWindows(zone, rules, overrides, start, end)
           gaps == Gaps(AllowedWindows(zone, rules, overrides, start, end), start, end)
           off == OffWindows(zone, rules, overrides, from, to)
           enabled == \E r \in rules : r.enabled
<1>1. start \in Int /\ end \in Int /\ start <= from
  BY RangeStartsBefore, InstantTypes DEF RangeEnd
<1>2. off = {g \in gaps : enabled /\ g.on > from /\ g.off < to}
  BY DEF OffWindows
<1> HIDE DEF start, end
<1>3. /\ gaps \in SUBSET Windows /\ IsFiniteSet(gaps)
      /\ \A g \in gaps : g.off < g.on /\ g.on <= end
      /\ \A t \in start .. end - 1 : OffAt(gaps, t) <=> ~Covered(rows, t)
  BY <1>1, GapsExact
<1> HIDE DEF rows, gaps, off, enabled
<1>4. off \in SUBSET Windows /\ IsFiniteSet(off)
  BY <1>2, <1>3, FS_Subset
<1>5. \A g \in gaps : g.on \in Int /\ g.off \in Int
  BY <1>3 DEF Windows
<1>6. Proper(off, from) /\ \A g \in off : g.off < to
  BY <1>2, <1>3, <1>5 DEF Proper
<1>7. ASSUME NEW t \in Int, from <= t, OffAt(off, t)
      PROVE  t < end /\ enabled /\ ~Covered(rows, t)
  <2>1. OffAt(gaps, t) /\ t < end /\ enabled
    BY <1>1, <1>2, <1>3, <1>5, <1>7 DEF OffAt
  <2> QED
    BY <2>1, <1>1, <1>3, <1>7
<1>8. ASSUME NEW t \in Int, from <= t, t < to, t < end, enabled, ~Covered(rows, t)
      PROVE  OffAt(off, t)
  <2>1. OffAt(gaps, t)
    BY <1>1, <1>3, <1>8
  <2> QED
    BY <2>1, <1>2, <1>5, <1>8 DEF OffAt
<1> QED
  BY <1>1, <1>4, <1>6, <1>7, <1>8 DEF start, end, rows, off, enabled

\* The device is told to be off, at an instant from which it is asked to one it is told
\* of, exactly if some row is enabled and no window of a row or an override contains the
\* instant (ScheduleResolver.offWindows).
THEOREM OffWindowsExact ==
    ASSUME NEW zone \in Zones, NEW rules \in SUBSET Rules, IsFiniteSet(rules),
           NEW overrides \in SUBSET Overrides, IsFiniteSet(overrides),
           NEW from \in Int, NEW to \in Int, NEW t \in from .. to - 1,
           t \in RangeStart(zone, from) .. RangeEnd(zone, to) - 1
    PROVE  OffAt(OffWindows(zone, rules, overrides, from, to), t) <=>
             /\ \E r \in rules : r.enabled
             /\ ~Covered(RowWindows(zone, rules, overrides,
                                    RangeStart(zone, from), RangeEnd(zone, to)), t)
BY OffWindowsShape, RangeStartsBefore

-----------------------------------------------------------------------------
(* What the windows mean on the clock on the wall. *)

\* Away from a change of offset, the window of a row on one day contains an instant exactly
\* if the clock on the wall shows that day there and a time the row covers.
LEMMA WindowMeansClock ==
    ASSUME NEW zone \in Zones, NEW d \in Int, NEW r, r.start \in TimesOfDay, r.end \in TimesOfDay,
           NEW t \in Int, t \notin Shifted(zone)
    PROVE  LET local == LocalOf(zone, t)
           IN  Covered(Window(zone, d, r.start, r.end), t)
                 <=> d = Date(local) /\ Covers(r, TimeOfDay(local))
<1>1. PICK s \in Int, e \in Int : s = r.start /\ e = r.end /\ 0 <= s /\ s < DayLength
                                /\ 0 <= e /\ e < DayLength
  BY ZoneType DEF TimesOfDay
<1>2. PICK local \in Int : local = LocalOf(zone, t)
  BY InstantTypes
<1>3. PICK n \in Int, time \in Int : /\ n = Date(local) /\ time = TimeOfDay(local)
                                    /\ 0 <= time /\ time < DayLength
                                    /\ local = n * DayLength + time
  BY DateTime
<1>4. PICK m \in Int : m = d * DayLength /\ (d + 1) * DayLength = m + DayLength
  BY DateAtLeast
<1>5. PICK l \in Int : l = IF e = 0 THEN m + DayLength ELSE m + e
  BY <1>1, ZoneType
<1>6. Covered(Window(zone, d, s, e), t) <=>
        (e = 0 \/ e > s) /\ InstantOf(zone, m + s) <= t /\ t < InstantOf(zone, l)
  <2> DEFINE w == [on |-> InstantOf(zone, m + s), off |-> InstantOf(zone, l)]
  <2>1. Window(zone, d, s, e) = {v \in {w} : e = 0 \/ e > s}
    BY <1>4, <1>5 DEF Window, IsValidWindow, Midnight
  <2>2. w.on = InstantOf(zone, m + s) /\ w.off = InstantOf(zone, l)
    OBVIOUS
  <2> HIDE DEF w
  <2> QED
    BY <2>1, <2>2 DEF Covered
<1>7. InstantOf(zone, m + s) <= t <=> m + s <= local
  BY <1>2, InstantReached
<1>8. t < InstantOf(zone, l) <=> local < l
  <2>1. InstantOf(zone, l) \in Int
    BY InstantTypes
  <2> QED
    BY <2>1, <1>2, InstantReached
<1>9. n * DayLength \in Int /\ (n = d => n * DayLength = m)
  BY <1>4, ZoneType
<1>10. /\ n < d => n * DayLength + DayLength <= m
       /\ d < n => m + DayLength <= n * DayLength
  <2>1. n < d => (n + 1) * DayLength <= d * DayLength
    BY ZoneType
  <2>2. d < n => (d + 1) * DayLength <= n * DayLength
    BY ZoneType
  <2> QED
    BY <2>1, <2>2, <1>4, DateAtLeast
<1>11. Covered(Window(zone, d, s, e), t) <=> d = n /\ s <= time /\ (e = 0 \/ time < e)
  BY <1>1, <1>3, <1>5, <1>6, <1>7, <1>8, <1>9, <1>10, ZoneType
<1> QED
  BY <1>1, <1>2, <1>3, <1>11 DEF Covers, Midnight

\* The windows of rows and overrides on some days contain what the one of some row or
\* override on one of those days does.
LEMMA WindowOf ==
    ASSUME NEW zone, NEW rules, NEW overrides, NEW dates, NEW t
    PROVE  Covered(RuleWindows(zone, rules, dates) \cup OverrideWindows(zone, overrides, dates), t) <=>
             \/ \E d \in dates, r \in rules : /\ r.enabled /\ DayOfWeek(d) \in r.days
                                             /\ Covered(Window(zone, d, r.start, r.end), t)
             \/ \E d \in dates, o \in overrides : /\ o.enabled /\ o.first <= d /\ d <= o.last
                                                 /\ Covered(Window(zone, d, o.start, o.end), t)
<1>1. \A w : w \in RuleWindows(zone, rules, dates) <=>
                \E d \in dates, r \in rules : /\ r.enabled /\ DayOfWeek(d) \in r.days
                                             /\ w \in Window(zone, d, r.start, r.end)
  BY DEF RuleWindows
<1>2. \A w : w \in OverrideWindows(zone, overrides, dates) <=>
                \E d \in dates, o \in overrides : /\ o.enabled /\ o.first <= d /\ d <= o.last
                                                 /\ w \in Window(zone, d, o.start, o.end)
  BY DEF OverrideWindows
<1> QED
  BY <1>1, <1>2, Zenon DEF Covered

\* Of the windows of all days in the range, some one contains an instant up to the horizon
\* exactly if a row or an override covers the time the clock on the wall shows there.
LEMMA RowsMeanClock ==
    ASSUME NEW zone \in Zones, NEW rules \in SUBSET Rules, NEW overrides \in SUBSET Overrides,
           NEW from \in Int, NEW k \in Int, NEW t \in from .. k * DayLength - 1, t \notin Shifted(zone)
    PROVE  LET date == Date(LocalOf(zone, t))
               time == TimeOfDay(LocalOf(zone, t))
           IN  Covered(RowWindows(zone, rules, overrides, RangeStart(zone, from),
                                  RangeEnd(zone, k * DayLength)), t) <=>
                 \/ \E r \in rules : r.enabled /\ DayOfWeek(date) \in r.days /\ Covers(r, time)
                 \/ \E o \in overrides : o.enabled /\ o.first <= date /\ date <= o.last /\ Covers(o, time)
<1> DEFINE start == RangeStart(zone, from)
           end == RangeEnd(zone, k * DayLength)
           date == Date(LocalOf(zone, t))
           time == TimeOfDay(LocalOf(zone, t))
           dates == Date(LocalOf(zone, start)) - 1 .. Date(LocalOf(zone, end))
<1>1. t \in Int /\ from <= t /\ t < k * DayLength /\ k * DayLength \in Int
  BY DateAtLeast
<1>2. start \in Int /\ end \in Int /\ start <= t /\ t < end
  BY <1>1, RangeStartsBefore, RangeReaches
<1>3. PICK first \in Int, last \in Int : start = StartOfDay(zone, first) /\ end = StartOfDay(zone, last)
  <2>1. /\ Date(LocalOf(zone, from)) - 1 \in Int
        /\ Date(LocalOf(zone, k * DayLength)) + 1 \in Int
    BY <1>1, InstantTypes
  <2> QED
    BY <2>1 DEF RangeStart, RangeEnd
<1> HIDE DEF start, end
<1>4. PICK local \in Int : local = LocalOf(zone, t)
  BY <1>1, InstantTypes
<1>5. LocalOf(zone, start) <= local /\ ~(LocalOf(zone, end) <= local)
  BY <1>1, <1>2, <1>3, <1>4, DayStarts
<1>6. date \in dates
  <2>1. PICK l \in Int, h \in Int : l = LocalOf(zone, start) /\ h = LocalOf(zone, end)
    BY <1>2, InstantTypes
  <2>2. PICK dl \in Int, dh \in Int, n \in Int : dl = Date(l) /\ dh = Date(h) /\ n = Date(local)
    BY InstantTypes
  <2>3. dl <= n
    <3>1. dl * DayLength <= l /\ dl * DayLength \in Int
      BY <2>2, DateAtLeast
    <3>2. dl * DayLength <= local
      BY <3>1, <2>1, <1>5
    <3> QED
      BY <3>2, <2>2, DateAtLeast
  <2>4. n <= dh
    <3>1. n * DayLength <= local /\ n * DayLength \in Int
      BY <2>2, DateAtLeast
    <3>2. n * DayLength <= h
      BY <3>1, <2>1, <1>5
    <3> QED
      BY <3>2, <2>2, DateAtLeast
  <2> QED
    BY <2>1, <2>2, <2>3, <2>4, <1>4
<1>7. dates \in SUBSET Int
  <2>1. Date(LocalOf(zone, start)) - 1 \in Int /\ Date(LocalOf(zone, end)) \in Int
    BY <1>2, InstantTypes
  <2> QED
    BY <2>1
<1>8. RowWindows(zone, rules, overrides, start, end)
        = RuleWindows(zone, rules, dates) \cup OverrideWindows(zone, overrides, dates)
  BY DEF RowWindows
<1>9. \A r \in rules : r.start \in TimesOfDay /\ r.end \in TimesOfDay
  BY DEF Rules
<1>10. \A o \in overrides : o.start \in TimesOfDay /\ o.end \in TimesOfDay
  BY DEF Overrides
<1> HIDE DEF dates
<1>11. \A d \in dates : /\ \A r \in rules : Covered(Window(zone, d, r.start, r.end), t)
                                             <=> d = date /\ Covers(r, time)
                        /\ \A o \in overrides : Covered(Window(zone, d, o.start, o.end), t)
                                             <=> d = date /\ Covers(o, time)
  BY <1>1, <1>7, <1>9, <1>10, WindowMeansClock
<1> HIDE DEF date, time
<1>12. Covered(RuleWindows(zone, rules, dates) \cup OverrideWindows(zone, overrides, dates), t) <=>
                 \/ \E r \in rules : r.enabled /\ DayOfWeek(date) \in r.days /\ Covers(r, time)
                 \/ \E o \in overrides : o.enabled /\ o.first <= date /\ date <= o.last /\ Covers(o, time)
  <2>2. (\E d \in dates, r \in rules : /\ r.enabled /\ DayOfWeek(d) \in r.days
                                      /\ Covered(Window(zone, d, r.start, r.end), t))
          <=> \E r \in rules : r.enabled /\ DayOfWeek(date) \in r.days /\ Covers(r, time)
    BY <1>6, <1>11
  <2>3. (\E d \in dates, o \in overrides : /\ o.enabled /\ o.first <= d /\ d <= o.last
                                          /\ Covered(Window(zone, d, o.start, o.end), t))
          <=> \E o \in overrides : o.enabled /\ o.first <= date /\ date <= o.last /\ Covers(o, time)
    BY <1>6, <1>11
  <2> QED
    BY <2>2, <2>3, WindowOf
<1> QED
  BY <1>8, <1>12 DEF start, end, date, time

\* Up to a horizon on a UTC day boundary the off windows, resolved day by day, merged and
\* inverted, put the device off exactly where the schedule, read off the clock on the wall,
\* says it must be (ScheduleResolver.offWindows); only where the zone skips or repeats local
\* times may the two differ.
THEOREM ResolverMeansClock ==
    ASSUME NEW zone \in Zones, NEW rules \in SUBSET Rules, IsFiniteSet(rules),
           NEW overrides \in SUBSET Overrides, IsFiniteSet(overrides),
           NEW from \in Int, NEW k \in Int, NEW t \in from .. k * DayLength - 1, t \notin Shifted(zone)
    PROVE  OffAt(OffWindows(zone, rules, overrides, from, k * DayLength), t)
             <=> MustBeOff(zone, rules, overrides, t)
<1> DEFINE to == k * DayLength
           rows == RowWindows(zone, rules, overrides, RangeStart(zone, from), RangeEnd(zone, to))
           date == Date(LocalOf(zone, t))
           time == TimeOfDay(LocalOf(zone, t))
<1>1. to \in Int /\ t \in Int /\ from <= t /\ t < to
  BY DateAtLeast
<1>2. t \in RangeStart(zone, from) .. RangeEnd(zone, to) - 1
  BY <1>1, RangeStartsBefore, RangeReaches
<1>3. OffAt(OffWindows(zone, rules, overrides, from, to), t)
        <=> (\E r \in rules : r.enabled) /\ ~Covered(rows, t)
  BY <1>1, <1>2, OffWindowsExact
<1>4. Covered(rows, t) <=>
        \/ \E r \in rules : r.enabled /\ DayOfWeek(date) \in r.days /\ Covers(r, time)
        \/ \E o \in overrides : o.enabled /\ o.first <= date /\ date <= o.last /\ Covers(o, time)
  BY RowsMeanClock
<1> HIDE DEF rows
<1>5. MustBeOff(zone, rules, overrides, t) <=>
        /\ \E r \in rules : r.enabled
        /\ \A r \in rules : ~(r.enabled /\ DayOfWeek(date) \in r.days /\ Covers(r, time))
        /\ \A o \in overrides : ~(o.enabled /\ o.first <= date /\ date <= o.last /\ Covers(o, time))
  BY DEF MustBeOff
<1> HIDE DEF date, time
<1> QED
  BY <1>3, <1>4, <1>5

-----------------------------------------------------------------------------
(* What the agent is told is made of windows. *)

\* An extension turns windows into windows, none of which begins before it ends.
LEMMA ApplyExtensionType ==
    ASSUME NEW W \in SUBSET Windows, IsFiniteSet(W), NEW until \in Instants
    PROVE  /\ ApplyExtension(W, until) \in SUBSET Windows
           /\ IsFiniteSet(ApplyExtension(W, until))
           /\ until # Null => \A w \in ApplyExtension(W, until) : w.off >= until
<1>1. CASE until = Null
  BY <1>1 DEF ApplyExtension
<1>2. CASE until # Null
  <2> DEFINE V == {v \in W : v.on > until}
             moved(w) == IF w.off < until THEN [on |-> w.on, off |-> until] ELSE w
             f == [w \in V |-> moved(w)]
  <2>1. until \in Int
    BY DEF Instants, Null
  <2>2. ApplyExtension(W, until) = {moved(w) : w \in V}
    BY <1>2 DEF ApplyExtension
  <2>3. V \in SUBSET W /\ IsFiniteSet(V)
    BY FS_Subset
  <2>4. \A w \in W : moved(w) \in Windows /\ moved(w).off >= until
    BY <2>1 DEF Windows
  <2> HIDE DEF V, moved
  <2>5. f \in Surjection(V, {moved(w) : w \in V})
    BY DEF Surjection
  <2>6. IsFiniteSet({moved(w) : w \in V})
    BY <2>3, <2>5, FS_Surjection
  <2>7. \A w \in {moved(v) : v \in V} : w \in Windows /\ w.off >= until
    BY <2>3, <2>4
  <2> QED
    BY <2>2, <2>6, <2>7
<1> QED
  BY <1>1, <1>2

\* The windows of a schedule, in any range.
LEMMA ResolveType ==
    ASSUME NEW s \in Schedules, IsFiniteSet(s.rules), IsFiniteSet(s.overrides),
           NEW from \in Int, NEW to \in Int
    PROVE  Resolve(s, from, to) \in SUBSET Windows /\ IsFiniteSet(Resolve(s, from, to))
<1>1. s.zone \in Zones /\ s.rules \in SUBSET Rules /\ s.overrides \in SUBSET Overrides
  BY DEF Schedules
<1> QED
  BY <1>1, OffWindowsShape DEF Resolve

\* An extension, or a hold, puts the device off exactly where it was, from its end on.
LEMMA ExtensionDelays ==
    ASSUME NEW W \in SUBSET Windows, NEW until \in Instants, NEW t \in Nat
    PROVE  OffAt(ApplyExtension(W, until), t) <=> t >= until /\ OffAt(W, t)
<1>1. until \in Int /\ \A w \in W : w.on \in Int /\ w.off \in Int
  BY DEF Instants, Null, Windows
<1>2. CASE until = Null
  BY <1>2 DEF ApplyExtension, Null
<1>3. CASE until # Null
  <2> DEFINE moved(w) == IF w.off < until THEN [on |-> w.on, off |-> until] ELSE w
  <2>1. \A w \in W : /\ moved(w).on = w.on
                     /\ moved(w).off = IF w.off < until THEN until ELSE w.off
    OBVIOUS
  <2>2. ApplyExtension(W, until) = {moved(w) : w \in {v \in W : v.on > until}}
    BY <1>3 DEF ApplyExtension
  <2> HIDE DEF moved
  <2>3. OffAt(ApplyExtension(W, until), t)
          <=> \E w \in W : w.on > until /\ moved(w).off <= t /\ t < moved(w).on
    BY <2>2 DEF OffAt
  <2> QED
    BY <2>1, <2>3, <1>1 DEF OffAt
<1> QED
  BY <1>2, <1>3

\* Windows that an extension has moved are not over yet either.
LEMMA ExtendedShape ==
    ASSUME NEW W \in SUBSET Windows, NEW until \in Instants, NEW from \in Int, Proper(W, from)
    PROVE  /\ Proper(ApplyExtension(W, until), from)
           /\ \A w \in ApplyExtension(W, until) : w.off = until \/ \E v \in W : w.off = v.off
<1>1. until \in Int /\ \A w \in W : w.on \in Int /\ w.off \in Int
  BY DEF Instants, Null, Windows
<1>2. CASE until = Null
  BY <1>2 DEF ApplyExtension, Proper
<1>3. CASE until # Null
  <2> DEFINE moved(w) == IF w.off < until THEN [on |-> w.on, off |-> until] ELSE w
  <2>1. \A w \in W : /\ moved(w).on = w.on
                     /\ moved(w).off = IF w.off < until THEN until ELSE w.off
    OBVIOUS
  <2>2. ApplyExtension(W, until) = {moved(w) : w \in {v \in W : v.on > until}}
    BY <1>3 DEF ApplyExtension
  <2> HIDE DEF moved
  <2> QED
    BY <2>1, <2>2, <1>1 DEF Proper
<1> QED
  BY <1>2, <1>3

-----------------------------------------------------------------------------
(* The status and the windows. *)

\* Where the types are right, the dashboard's status and what the agent is told agree.
LEMMA StatusFromTypes == TypeOK => StatusAgrees
<1> SUFFICES ASSUME TypeOK PROVE StatusAgrees
  OBVIOUS
<1> DEFINE told == Told
           off(from) == \A t \in from .. Forever - 1 : OffAt(told, t)
           on(until) == \A t \in now .. until - 1 : ~OffAt(told, t)
<1>1. /\ now \in Nat
      /\ row.offFrom \in Int /\ row.holdUntil \in Int
      /\ row.offFrom \in Instants /\ row.holdUntil \in Instants
      /\ row.holdThenOff \in BOOLEAN
      /\ Forever \in Int
  BY DevicePowerAssumption DEF TypeOK, DeviceRows, Instants, Null
<1>2. ASSUME NEW from \in Int, told = ForcedOff(from)
      PROVE  /\ on(from)
             /\ off(from)
             /\ from <= now => off(now)
  <2>1. \A t \in Int : OffAt(told, t) <=> from <= t /\ t < Forever
    BY <1>2 DEF OffAt, ForcedOff
  <2> QED
    BY <2>1, <1>1
<1>3. CASE SwitchedOff(row)
  <2>1. told = ForcedOff(row.offFrom)
    BY <1>3 DEF Told, ScheduleFor
  <2>2. PowerState(row, now) = IF row.offFrom > now THEN "OFF_PENDING" ELSE "OFF"
    BY <1>3 DEF PowerState
  <2>3. on(row.offFrom) /\ off(row.offFrom) /\ (row.offFrom <= now => off(now))
    BY <2>1, <1>1, <1>2
  <2> HIDE DEF told
  <2> QED
    BY <2>2, <2>3, <1>1 DEF StatusAgrees, told
<1>4. CASE ~SwitchedOff(row) /\ row.holdUntil # Null /\ row.holdThenOff
  <2>1. told = ForcedOff(row.holdUntil)
    BY <1>4 DEF Told, ScheduleFor
  <2>2. PowerState(row, now) = IF row.holdUntil > now THEN "HOLD" ELSE "HOLD_ENDED_OFF"
    BY <1>4 DEF PowerState
  <2>3. on(row.holdUntil) /\ off(row.holdUntil) /\ (row.holdUntil <= now => off(now))
    BY <2>1, <1>1, <1>2
  <2> QED
    BY <2>2, <2>3, <1>1 DEF StatusAgrees
<1>5. CASE ~SwitchedOff(row) /\ ~(row.holdUntil # Null /\ row.holdThenOff)
  <2>1. PowerState(row, now) = IF row.holdUntil > now THEN "HOLD" ELSE "SCHEDULE"
    BY <1>5 DEF PowerState
  <2>2. row.holdUntil > now => ~row.holdThenOff /\ row.holdUntil # Null
    BY <1>1, <1>5 DEF Null
  <2>3. ASSUME row.holdUntil > now PROVE on(row.holdUntil)
    <3>1. told = WindowsFor(ScheduleOf(row.scheduleId), row.holdUntil, now)
      BY <1>5, <2>3 DEF Told, ScheduleFor
    <3>2. CASE ScheduleOf(row.scheduleId) = NoSchedule
      BY <3>1, <3>2 DEF WindowsFor, OffAt
    <3>3. CASE ScheduleOf(row.scheduleId) # NoSchedule
      <4> DEFINE s == ScheduleOf(row.scheduleId)
                 to == (Date(now) + Horizon) * DayLength
                 W == Resolve(s, now, to)
      <4>1. s \in Schedules /\ IsFiniteSet(s.rules) /\ IsFiniteSet(s.overrides)
        <5>1. row.scheduleId \in ScheduleIds
          BY <3>3 DEF TypeOK, DeviceRows, ScheduleOf
        <5>2. s = schedules[row.scheduleId] /\ Exists(row.scheduleId)
          BY <3>3, <5>1, DevicePowerAssumption DEF ScheduleOf, Exists
        <5> QED
          BY <3>3, <5>1, <5>2 DEF TypeOK
      <4>2. to \in Int
        <5>1. Date(now) \in Int /\ Horizon \in Int /\ DayLength \in Int
          BY <1>1, DevicePowerAssumption, ResolverAssumption DEF Date
        <5> QED
          BY <5>1
      <4>3. told = ApplyExtension(W, row.holdUntil)
        BY <3>1, <3>3 DEF WindowsFor
      <4> HIDE DEF s, to, told
      <4>4. W \in SUBSET Windows /\ IsFiniteSet(W)
        BY <4>1, <4>2, <1>1, ResolveType
      <4> HIDE DEF W
      <4>5. told \in SUBSET Windows /\ \A w \in told : w.off >= row.holdUntil
        BY <4>3, <4>4, <2>2, <2>3, <1>1, ApplyExtensionType
      <4>6. \A w \in told : w.off \in Int
        BY <4>5 DEF Windows
      <4> QED
        BY <4>5, <4>6, <1>1 DEF OffAt
    <3> QED
      BY <3>2, <3>3
  <2> HIDE DEF told
  <2> QED
    BY <2>1, <2>2, <2>3, <1>1 DEF StatusAgrees, told
<1> QED
  BY <1>3, <1>4, <1>5

-----------------------------------------------------------------------------
(* The invariant. *)

Inv == TypeOK /\ AssignmentExists /\ now <= LastInstant

\* The effective windows extend starts from are finitely many.
LEMMA EffectiveType ==
    ASSUME TypeOK, Exists(row.scheduleId)
    PROVE  LET W == EffectiveWindows(ScheduleOf(row.scheduleId), row.extensionUntil, now)
           IN  W \in SUBSET Windows /\ IsFiniteSet(W)
<1> DEFINE s == ScheduleOf(row.scheduleId)
           to == now + Ahead * DayLength
<1>1. s \in Schedules /\ IsFiniteSet(s.rules) /\ IsFiniteSet(s.overrides)
  BY DEF TypeOK, DeviceRows, ScheduleOf, Exists
<1>2. to \in Int /\ now \in Int
  <2>1. Ahead \in Int /\ DayLength \in Int /\ now \in Int
    BY DevicePowerAssumption, ResolverAssumption DEF TypeOK
  <2> QED
    BY <2>1
<1>3. row.extensionUntil \in Instants
  BY DEF TypeOK, DeviceRows
<1> HIDE DEF s, to
<1>4. Resolve(s, now, to) \in SUBSET Windows /\ IsFiniteSet(Resolve(s, now, to))
  BY <1>1, <1>2, ResolveType
<1> QED
  BY <1>3, <1>4, ApplyExtensionType DEF EffectiveWindows, s, to

\* A device as it is registered, or assigned a schedule that exists.
LEMMA InitInv == Init => Inv
<1> SUFFICES ASSUME Init PROVE Inv
  OBVIOUS
<1>1. now \in Nat /\ asked \in {"SCHEDULE", "OFF", "HOLD"} /\ edits \in Nat /\ writes \in Nat
      /\ now <= LastInstant
  BY DevicePowerAssumption DEF Init
<1>2. \A c \in Contents : /\ c.zone \in Zones /\ c.rules \in SUBSET Rules
                          /\ IsFiniteSet(c.rules)
  BY DevicePowerAssumption
<1>3. \A id \in ScheduleIds :
          \/ schedules[id] = NoSchedule
          \/ /\ schedules[id] \in Schedules
             /\ IsFiniteSet(schedules[id].rules) /\ IsFiniteSet(schedules[id].overrides)
  <2> SUFFICES ASSUME NEW id \in ScheduleIds, schedules[id] # NoSchedule
               PROVE  /\ schedules[id] \in Schedules
                      /\ IsFiniteSet(schedules[id].rules) /\ IsFiniteSet(schedules[id].overrides)
    OBVIOUS
  <2>1. PICK c \in Contents : schedules[id] = [zone |-> c.zone, rules |-> c.rules, overrides |-> {}]
    BY DEF Init
  <2> QED
    BY <2>1, <1>2, FS_EmptySet DEF Schedules
<1>4. schedules \in [ScheduleIds -> Schedules \cup {NoSchedule}]
  BY <1>3 DEF Init
<1>5. PICK id \in {NoId} \cup {i \in ScheduleIds : Exists(i)} :
          row = [scheduleId |-> id, extensionUntil |-> Null, powerMode |-> "ON",
                 offFrom |-> Null, holdUntil |-> Null, holdThenOff |-> FALSE]
  BY DEF Init
<1>6. row \in DeviceRows
  BY <1>5 DEF DeviceRows, Instants
<1>7. AssignmentExists
  BY <1>5 DEF AssignmentExists
<1>8. \A i \in ScheduleIds : Exists(i) => /\ IsFiniteSet(schedules[i].rules)
                                          /\ IsFiniteSet(schedules[i].overrides)
  BY <1>3, DevicePowerAssumption DEF Exists, ScheduleOf
<1> QED
  BY <1>1, <1>4, <1>6, <1>7, <1>8 DEF Inv, TypeOK, Init

\* A request that writes the row keeps the invariant if the new row is one, and is
\* assigned a schedule that exists.
LEMMA SaveDeviceInv ==
    ASSUME Inv, NEW device \in DeviceRows,
           device.scheduleId # NoId => Exists(device.scheduleId),
           SaveDevice(device), asked' \in {"SCHEDULE", "OFF", "HOLD"}
    PROVE  Inv'
<1>1. row' = device /\ edits' = edits + 1
  BY DEF SaveDevice
<1>2. UNCHANGED <<now, schedules, seen, writes>>
  BY DEF SaveDevice
<1>3. \A id : Exists(id)' <=> Exists(id)
  BY <1>2 DEF Exists, ScheduleOf
<1>4. TypeOK'
  BY <1>1, <1>2, <1>3 DEF Inv, TypeOK
<1>5. AssignmentExists'
  BY <1>1, <1>3 DEF AssignmentExists
<1> QED
  BY <1>2, <1>4, <1>5 DEF Inv

\* A request that writes a schedule keeps the invariant, with the row as it is.
LEMMA SaveScheduleInv ==
    ASSUME Inv, NEW id \in ScheduleIds, NEW schedule \in Schedules,
           IsFiniteSet(schedule.rules), IsFiniteSet(schedule.overrides),
           SaveSchedule(id, schedule), row' = row
    PROVE  Inv'
<1>1. schedules' = [schedules EXCEPT ![id] = schedule] /\ edits' = edits + 1
  BY DEF SaveSchedule
<1>2. UNCHANGED <<now, seen, asked, writes>>
  BY DEF SaveSchedule
<1>3. schedules \in [ScheduleIds -> Schedules \cup {NoSchedule}]
  BY DEF Inv, TypeOK
<1>4. schedule # NoSchedule
  BY DevicePowerAssumption DEF Schedules
<1>5. schedules' \in [ScheduleIds -> Schedules \cup {NoSchedule}]
  BY <1>1, <1>3
<1>6. schedules'[id] = schedule /\ \A i \in ScheduleIds : i # id => schedules'[i] = schedules[i]
  BY <1>1, <1>3
<1>7. \A i \in ScheduleIds : Exists(i) => Exists(i)'
  BY <1>4, <1>6, DevicePowerAssumption DEF Exists, ScheduleOf
<1>8. \A i \in ScheduleIds : Exists(i)' => /\ IsFiniteSet(schedules'[i].rules)
                                           /\ IsFiniteSet(schedules'[i].overrides)
  <2> SUFFICES ASSUME NEW i \in ScheduleIds, Exists(i)'
               PROVE  IsFiniteSet(schedules'[i].rules) /\ IsFiniteSet(schedules'[i].overrides)
    OBVIOUS
  <2>1. CASE i = id
    BY <2>1, <1>6
  <2>2. CASE i # id
    <3>1. Exists(i)
      BY <2>2, <1>6 DEF Exists, ScheduleOf
    <3> QED
      BY <2>2, <3>1, <1>6 DEF Inv, TypeOK
  <2> QED
    BY <2>1, <2>2
<1>9. TypeOK'
  BY <1>1, <1>2, <1>5, <1>8 DEF Inv, TypeOK
<1>10. AssignmentExists'
  BY <1>7, DevicePowerAssumption DEF Inv, AssignmentExists, TypeOK, DeviceRows
<1> QED
  BY <1>2, <1>9, <1>10 DEF Inv

\* The administrator's requests on the device keep the invariant.
LEMMA DeviceRequestInv == Inv /\ DeviceRequest => Inv'
<1> SUFFICES ASSUME Inv, DeviceRequest PROVE Inv'
  OBVIOUS
<1>1. /\ now \in Nat /\ row \in DeviceRows /\ asked \in {"SCHEDULE", "OFF", "HOLD"}
      /\ row.scheduleId # NoId => Exists(row.scheduleId)
  BY DEF Inv, TypeOK, AssignmentExists
<1>2. Cleared(row) \in DeviceRows /\ Cleared(row).scheduleId = row.scheduleId
  BY <1>1 DEF Cleared, DeviceRows, Instants
<1>3. CASE PowerOn
  BY <1>1, <1>2, <1>3, SaveDeviceInv DEF PowerOn
<1>4. ASSUME NEW grace \in 0 .. MaxGrace, PowerOff(grace) PROVE Inv'
  <2> DEFINE device == [Cleared(row) EXCEPT !.extensionUntil = Null, !.powerMode = "OFF",
                                            !.offFrom = now + grace]
  <2>1. now + grace \in Instants /\ Null \in Instants
    BY <1>1 DEF Instants
  <2>2. device \in DeviceRows /\ device.scheduleId = row.scheduleId
    BY <2>1, <1>2 DEF DeviceRows
  <2>3. SaveDevice(device) /\ asked' = "OFF"
    BY <1>4 DEF PowerOff
  <2> HIDE DEF device
  <2> QED
    BY <2>2, <2>3, <1>1, SaveDeviceInv
<1>5. ASSUME NEW minutes \in 1 .. MaxHold, NEW thenOff \in BOOLEAN, HoldOn(minutes, thenOff) PROVE Inv'
  <2> DEFINE device == [Cleared(row) EXCEPT !.extensionUntil = Null, !.holdUntil = now + minutes,
                                            !.holdThenOff = thenOff]
  <2>1. now + minutes \in Instants /\ Null \in Instants
    BY <1>1 DEF Instants
  <2>2. device \in DeviceRows /\ device.scheduleId = row.scheduleId
    BY <2>1, <1>2 DEF DeviceRows
  <2>3. SaveDevice(device) /\ asked' = "HOLD"
    BY <1>5 DEF HoldOn
  <2> HIDE DEF device
  <2> QED
    BY <2>2, <2>3, <1>1, SaveDeviceInv
<1>6. ASSUME NEW minutes \in 1 .. MaxExtension, Extend(minutes) PROVE Inv'
  <2> DEFINE W == EffectiveWindows(ScheduleOf(row.scheduleId), row.extensionUntil, now)
             base == Max({now, Min({w.off : w \in W})})
             device == [row EXCEPT !.extensionUntil = base + minutes]
  <2>1. Exists(row.scheduleId) /\ W # {} /\ SaveDevice(device) /\ asked' = asked
    BY <1>6 DEF Extend
  <2>2. W \in SUBSET Windows /\ IsFiniteSet(W)
    BY <2>1, EffectiveType DEF Inv
  <2> HIDE DEF W
  <2>3. PICK m \in Int : m = Min({w.off : w \in W})
    <3>1. IsFiniteSet({w.off : w \in W}) /\ {w.off : w \in W} \in SUBSET Int /\ {w.off : w \in W} # {}
      BY <2>1, <2>2, EndsFinite
    <3> QED
      BY <3>1, MinOf
  <2>4. base \in Nat
    BY <2>3, <1>1, MaxPair
  <2> HIDE DEF base
  <2>5. base + minutes \in Instants
    BY <2>4 DEF Instants
  <2>6. device \in DeviceRows /\ device.scheduleId = row.scheduleId
    BY <2>5, <1>1 DEF DeviceRows
  <2> HIDE DEF device
  <2> QED
    BY <2>1, <2>6, <1>1, SaveDeviceInv
<1>7. CASE ClearExtension
  <2> DEFINE device == [row EXCEPT !.extensionUntil = Null]
  <2>1. device \in DeviceRows /\ device.scheduleId = row.scheduleId
    BY <1>1 DEF DeviceRows, Instants
  <2>2. SaveDevice(device) /\ asked' = asked
    BY <1>7 DEF ClearExtension
  <2> HIDE DEF device
  <2> QED
    BY <2>1, <2>2, <1>1, SaveDeviceInv
<1>8. ASSUME NEW id \in ScheduleIds \cup {NoId}, AssignSchedule(id) PROVE Inv'
  <2> DEFINE device == [row EXCEPT !.scheduleId = id, !.extensionUntil = Null]
  <2>1. device \in DeviceRows /\ device.scheduleId = id
    BY <1>1 DEF DeviceRows, Instants
  <2>2. SaveDevice(device) /\ asked' = asked /\ (id = NoId \/ Exists(id))
    BY <1>8 DEF AssignSchedule
  <2> HIDE DEF device
  <2> QED
    BY <2>1, <2>2, <1>1, SaveDeviceInv
<1> QED
  BY <1>3, <1>4, <1>5, <1>6, <1>7, <1>8 DEF DeviceRequest

\* So do the requests on schedules; deletion clears the assignment with the schedule.
LEMMA ScheduleRequestInv == Inv /\ ScheduleRequest => Inv'
<1> SUFFICES ASSUME Inv, NEW id \in ScheduleIds,
                    \/ \E content \in Contents : CreateSchedule(id, content) \/ UpdateSchedule(id, content)
                    \/ DeleteSchedule(id)
                    \/ \E override \in NewOverrides : AddOverride(id, override)
                    \/ \E override \in (IF Exists(id) THEN schedules[id].overrides ELSE {}) :
                          \/ RemoveOverride(id, override)
                          \/ \E enabled \in BOOLEAN : SetOverrideEnabled(id, override, enabled)
             PROVE  Inv'
  BY DEF ScheduleRequest
<1>1. ASSUME Exists(id)
      PROVE  /\ schedules[id] \in Schedules
             /\ IsFiniteSet(schedules[id].rules) /\ IsFiniteSet(schedules[id].overrides)
             /\ schedules[id].overrides \in SUBSET Overrides
  <2>1. schedules[id] \in Schedules
    BY <1>1, DevicePowerAssumption DEF Inv, TypeOK, Exists, ScheduleOf
  <2>2. schedules[id].overrides \in SUBSET Overrides
    BY <2>1 DEF Schedules
  <2> QED
    BY <2>1, <2>2, <1>1 DEF Inv, TypeOK
<1>2. \A c \in Contents : c.zone \in Zones /\ c.rules \in SUBSET Rules /\ IsFiniteSet(c.rules)
  BY DevicePowerAssumption
<1>3. ASSUME NEW content \in Contents, CreateSchedule(id, content) PROVE Inv'
  <2> DEFINE s == [zone |-> content.zone, rules |-> content.rules, overrides |-> {}]
  <2>1. s \in Schedules /\ IsFiniteSet(s.rules) /\ IsFiniteSet(s.overrides)
    BY <1>2, FS_EmptySet DEF Schedules
  <2>2. SaveSchedule(id, s) /\ row' = row
    BY <1>3 DEF CreateSchedule
  <2> HIDE DEF s
  <2> QED
    BY <2>1, <2>2, SaveScheduleInv
<1>4. ASSUME NEW content \in Contents, UpdateSchedule(id, content) PROVE Inv'
  <2> DEFINE s == [schedules[id] EXCEPT !.zone = content.zone, !.rules = content.rules]
  <2>1. Exists(id) /\ SaveSchedule(id, s) /\ row' = row
    BY <1>4 DEF UpdateSchedule
  <2>2. s \in Schedules /\ s.rules = content.rules /\ s.overrides = schedules[id].overrides
    BY <2>1, <1>1, <1>2 DEF Schedules
  <2> HIDE DEF s
  <2> QED
    BY <2>1, <2>2, <1>1, <1>2, SaveScheduleInv
<1>5. ASSUME NEW overrides \in SUBSET Overrides, IsFiniteSet(overrides), Exists(id), row' = row,
             SaveSchedule(id, [schedules[id] EXCEPT !.overrides = overrides])
      PROVE  Inv'
  <2> DEFINE s == [schedules[id] EXCEPT !.overrides = overrides]
  <2>1. s \in Schedules /\ s.rules = schedules[id].rules /\ s.overrides = overrides
    BY <1>1, <1>5 DEF Schedules
  <2>2. SaveSchedule(id, s)
    BY <1>5
  <2> HIDE DEF s
  <2> QED
    BY <2>1, <2>2, <1>1, <1>5, SaveScheduleInv
<1>6. ASSUME NEW override \in NewOverrides, AddOverride(id, override) PROVE Inv'
  <2>1. schedules[id].overrides \cup {override} \in SUBSET Overrides
        /\ IsFiniteSet(schedules[id].overrides \cup {override})
    BY <1>1, <1>6, FS_AddElement, DevicePowerAssumption DEF AddOverride
  <2> QED
    BY <2>1, <1>5, <1>6 DEF AddOverride
<1>7. ASSUME NEW override, RemoveOverride(id, override) PROVE Inv'
  <2>1. schedules[id].overrides \ {override} \in SUBSET Overrides
        /\ IsFiniteSet(schedules[id].overrides \ {override})
    BY <1>1, <1>7, FS_RemoveElement DEF RemoveOverride
  <2> QED
    BY <2>1, <1>5, <1>7 DEF RemoveOverride
<1>8. ASSUME NEW override, NEW enabled \in BOOLEAN, SetOverrideEnabled(id, override, enabled)
      PROVE  Inv'
  <2> DEFINE o == [override EXCEPT !.enabled = enabled]
             rest == schedules[id].overrides \ {override}
  <2>1. Exists(id) /\ override \in schedules[id].overrides /\ row' = row
        /\ SaveSchedule(id, [schedules[id] EXCEPT !.overrides = rest \cup {o}])
    BY <1>8 DEF SetOverrideEnabled
  <2>2. o \in Overrides
    BY <2>1, <1>1 DEF Overrides
  <2>3. rest \in SUBSET Overrides /\ IsFiniteSet(rest)
    BY <2>1, <1>1, FS_RemoveElement
  <2> HIDE DEF o, rest
  <2>4. rest \cup {o} \in SUBSET Overrides /\ IsFiniteSet(rest \cup {o})
    BY <2>2, <2>3, FS_AddElement
  <2> QED
    BY <2>1, <2>4, <1>5
<1>9. CASE DeleteSchedule(id)
  <2>1. /\ schedules' = [schedules EXCEPT ![id] = NoSchedule] /\ edits' = edits + 1
        /\ UNCHANGED <<now, seen, asked, writes>>
        /\ row' = IF row.scheduleId = id THEN [row EXCEPT !.scheduleId = NoId] ELSE row
    BY <1>9 DEF DeleteSchedule, SaveSchedule
  <2>2. schedules \in [ScheduleIds -> Schedules \cup {NoSchedule}] /\ row \in DeviceRows
    BY DEF Inv, TypeOK
  <2>3. /\ schedules' \in [ScheduleIds -> Schedules \cup {NoSchedule}]
        /\ schedules'[id] = NoSchedule
        /\ \A i \in ScheduleIds : i # id => schedules'[i] = schedules[i]
    BY <2>1, <2>2
  <2>4. row' \in DeviceRows
    BY <2>1, <2>2 DEF DeviceRows
  <2>5. \A i \in ScheduleIds : /\ Exists(i)' => i # id /\ Exists(i)
                               /\ i # id /\ Exists(i) => Exists(i)'
    BY <2>3, DevicePowerAssumption DEF Exists, ScheduleOf
  <2>6. TypeOK'
    BY <2>1, <2>3, <2>4, <2>5 DEF Inv, TypeOK
  <2>7. row'.scheduleId # NoId => row'.scheduleId = row.scheduleId /\ row.scheduleId # id
    BY <2>1, <2>2 DEF DeviceRows
  <2>8. AssignmentExists'
    BY <2>2, <2>5, <2>7 DEF Inv, AssignmentExists, DeviceRows
  <2> QED
    BY <2>1, <2>6, <2>8 DEF Inv
<1> QED
  BY <1>3, <1>4, <1>6, <1>7, <1>8, <1>9

\* So does every step: a heartbeat that writes an assignment back is refused if its schedule is gone.
LEMMA NextInv == Inv /\ [Next]_vars => Inv'
<1> SUFFICES ASSUME Inv, [Next]_vars PROVE Inv'
  OBVIOUS
<1>1. CASE Read
  <2>1. seen' = row /\ writes' = writes + 1 /\ UNCHANGED <<now, schedules, row, asked, edits>>
    BY <1>1 DEF Read
  <2>2. \A id : Exists(id)' <=> Exists(id)
    BY <2>1 DEF Exists, ScheduleOf
  <2> QED
    BY <2>1, <2>2 DEF Inv, TypeOK, AssignmentExists
<1>2. CASE WriteBack
  <2>1. /\ seen # NotOpen /\ seen' = NotOpen /\ UNCHANGED <<now, schedules, asked, edits, writes>>
        /\ row' = IF seen.scheduleId = NoId \/ Exists(seen.scheduleId) THEN seen ELSE row
    BY <1>2 DEF WriteBack
  <2>2. \A id : Exists(id)' <=> Exists(id)
    BY <2>1 DEF Exists, ScheduleOf
  <2>3. row' \in DeviceRows /\ (row'.scheduleId # NoId => Exists(row'.scheduleId))
    BY <2>1 DEF Inv, TypeOK, AssignmentExists
  <2> QED
    BY <2>1, <2>2, <2>3 DEF Inv, TypeOK, AssignmentExists
<1>3. CASE Tick
  <2>1. now' = now + 1 /\ UNCHANGED <<schedules, row, seen, asked, edits, writes>>
        /\ now < LastInstant
    BY <1>3 DEF Tick
  <2>2. \A id : Exists(id)' <=> Exists(id)
    BY <2>1 DEF Exists, ScheduleOf
  <2> QED
    BY <2>1, <2>2, DevicePowerAssumption DEF Inv, TypeOK, AssignmentExists
<1>4. CASE UNCHANGED vars
  BY <1>4 DEF vars, Inv, TypeOK, AssignmentExists, Exists, ScheduleOf
<1> QED
  BY <1>1, <1>2, <1>3, <1>4, DeviceRequestInv, ScheduleRequestInv DEF Next

\* The invariant holds throughout.
LEMMA InvHolds == Spec => []Inv
BY InitInv, NextInv, PTL DEF Spec

\* The row and the schedules keep their types whatever requests are made and however a
\* heartbeat, a registration or a sweep interleaves with them.
THEOREM PowerTypes == Spec => []TypeOK
<1>1. Inv => TypeOK
  BY DEF Inv
<1> QED
  BY <1>1, InvHolds, PTL

\* No device is ever assigned a schedule that is gone, not even by a heartbeat that writes
\* back a row it read before the schedule was deleted.
THEOREM AssignmentsExist == Spec => []AssignmentExists
<1>1. Inv => AssignmentExists
  BY DEF Inv
<1> QED
  BY <1>1, InvHolds, PTL

\* Whatever the schedules say, the status on the dashboard and the windows the agent
\* enforces agree.
THEOREM StatusIsTrue == Spec => []StatusAgrees
BY PowerTypes, StatusFromTypes, PTL

-----------------------------------------------------------------------------
(* What the agent is told. *)

\* The schedule the device is assigned.
LEMMA AssignedType ==
    ASSUME TypeOK, Exists(row.scheduleId)
    PROVE  /\ schedules[row.scheduleId] = ScheduleOf(row.scheduleId)
           /\ ScheduleOf(row.scheduleId) # NoSchedule
           /\ ScheduleOf(row.scheduleId) \in Schedules
           /\ IsFiniteSet(ScheduleOf(row.scheduleId).rules)
           /\ IsFiniteSet(ScheduleOf(row.scheduleId).overrides)
BY DEF TypeOK, DeviceRows, ScheduleOf, Exists

\* The horizon is on a UTC day boundary, after now and no later than forever.
LEMMA HorizonType ==
    ASSUME TypeOK, now <= LastInstant
    PROVE  LET k == Date(now) + Horizon
           IN  /\ k \in Int /\ k * DayLength \in Int
               /\ now < k * DayLength
               /\ k * DayLength <= Forever
<1>1. now \in Int /\ LastInstant \in Int /\ Horizon \in Int /\ 0 < Horizon /\ Forever \in Int
  BY DevicePowerAssumption DEF TypeOK
<1>2. PICK d \in Int, e \in Int : d = Date(now) /\ e = Date(LastInstant)
  BY <1>1, DateTime
<1>3. d <= e
  <2>1. d * DayLength <= now /\ d * DayLength \in Int
    BY <1>1, <1>2, DateAtLeast
  <2>2. d * DayLength <= LastInstant
    BY <2>1, <1>1
  <2> QED
    BY <2>2, <1>1, <1>2, DateAtLeast
<1>4. PICK k \in Int : k = d + Horizon
  BY <1>1
<1>5. k * DayLength \in Int /\ now < k * DayLength
  <2>1. k * DayLength \in Int /\ ~(k <= d)
    BY <1>1, <1>4, DateAtLeast
  <2> QED
    BY <2>1, <1>1, <1>2, DateAtLeast
<1>6. k * DayLength <= (e + Horizon) * DayLength
  <2>1. k <= e + Horizon /\ e + Horizon \in Int /\ DayLength \in Int /\ DayLength > 0
    BY <1>1, <1>3, <1>4, ResolverAssumption
  <2> HIDE <1>4
  <2>2. PICK h \in Int : h = e + Horizon
    BY <2>1
  <2>3. k * DayLength <= h * DayLength
    BY <2>1, <2>2
  <2> QED
    BY <2>2, <2>3
<1>7. (e + Horizon) * DayLength \in Int /\ (e + Horizon) * DayLength <= Forever
  BY <1>1, <1>2, DateAtLeast, DevicePowerAssumption
<1> QED
  BY <1>1, <1>2, <1>4, <1>5, <1>6, <1>7

\* Where the invariant holds, the agent is told what the row and the schedule ask for.
LEMMA ToldFromInv == Inv => ToldWhatHolds
<1> SUFFICES ASSUME Inv PROVE ToldWhatHolds
  OBVIOUS
<1> DEFINE told == Told
           k == Date(now) + Horizon
           id == row.scheduleId
           s == ScheduleOf(id)
           until == IF row.holdUntil > now THEN row.holdUntil ELSE row.extensionUntil
<1>1. TypeOK /\ now <= LastInstant
  BY DEF Inv
<1>2. /\ now \in Nat
      /\ row.offFrom \in Int /\ row.holdUntil \in Int
      /\ row.holdUntil \in Instants /\ row.extensionUntil \in Instants
      /\ Forever \in Int
  BY <1>1, DevicePowerAssumption DEF TypeOK, DeviceRows, Instants, Null
<1>3. k \in Int /\ k * DayLength \in Int /\ k * DayLength <= Forever
  BY <1>1, HorizonType
<1> HIDE DEF k
<1> SUFFICES ASSUME NEW t \in now .. k * DayLength - 1,
                    Exists(id) => t \notin Shifted(schedules[id].zone)
             PROVE  OffAt(told, t) <=> Demanded(t)
  BY DEF ToldWhatHolds, ToldOf, k
<1>4. t \in Nat /\ now <= t /\ t < Forever
  BY <1>2, <1>3
<1>5. ASSUME NEW from \in Int, told = ForcedOff(from)
      PROVE  OffAt(told, t) <=> t >= from
  BY <1>4, <1>5, <1>2 DEF OffAt, ForcedOff
<1>6. CASE SwitchedOff(row)
  <2>1. told = ForcedOff(row.offFrom) /\ (Demanded(t) <=> t >= row.offFrom)
    BY <1>6 DEF Told, ScheduleFor, Demanded
  <2> QED
    BY <2>1, <1>2, <1>5
<1>7. CASE ~SwitchedOff(row) /\ row.holdUntil # Null /\ row.holdThenOff
  <2>1. told = ForcedOff(row.holdUntil) /\ (Demanded(t) <=> t >= row.holdUntil)
    BY <1>7 DEF Told, ScheduleFor, Demanded
  <2> QED
    BY <2>1, <1>2, <1>5
<1>8. CASE ~SwitchedOff(row) /\ ~(row.holdUntil # Null /\ row.holdThenOff)
  <2>1. told = WindowsFor(s, until, now)
    BY <1>8 DEF Told, ScheduleFor
  <2>2. Demanded(t) <=> /\ Exists(id)
                        /\ t >= until
                        /\ MustBeOff(schedules[id].zone, schedules[id].rules, schedules[id].overrides, t)
    BY <1>8 DEF Demanded
  <2>3. until \in Instants
    BY <1>2
  <2> HIDE DEF until, told
  <2>4. CASE ~Exists(id)
    <3>1. told = {}
      BY <2>1, <2>4 DEF WindowsFor, Exists
    <3> QED
      BY <3>1, <2>2, <2>4 DEF OffAt
  <2>5. CASE Exists(id)
    <3>1. /\ schedules[id] = s /\ s # NoSchedule /\ s \in Schedules
          /\ IsFiniteSet(s.rules) /\ IsFiniteSet(s.overrides)
      BY <2>5, <1>1, AssignedType
    <3>2. s.zone \in Zones /\ s.rules \in SUBSET Rules /\ s.overrides \in SUBSET Overrides
      BY <3>1 DEF Schedules
    <3>3. t \notin Shifted(s.zone)
      BY <3>1, <2>5
    <3> HIDE DEF s, id
    <3>4. OffAt(Resolve(s, now, k * DayLength), t) <=> MustBeOff(s.zone, s.rules, s.overrides, t)
      BY <3>1, <3>2, <3>3, <1>2, <1>3, ResolverMeansClock DEF Resolve
    <3>5. Resolve(s, now, k * DayLength) \in SUBSET Windows
      BY <3>1, <1>2, <1>3, ResolveType
    <3>6. told = ApplyExtension(Resolve(s, now, k * DayLength), until)
      BY <2>1, <3>1 DEF WindowsFor, k
    <3>7. OffAt(told, t) <=> t >= until /\ OffAt(Resolve(s, now, k * DayLength), t)
      BY <3>5, <3>6, <2>3, <1>4, ExtensionDelays
    <3> QED
      BY <3>1, <3>4, <3>7, <2>2, <2>5
  <2> QED
    BY <2>4, <2>5
<1> QED
  BY <1>6, <1>7, <1>8

\* Whatever requests, heartbeats and sweeps came before, the agent is told to be off exactly
\* when the row and the schedule say so.
THEOREM ToldIsRight == Spec => []ToldWhatHolds
BY InvHolds, ToldFromInv, PTL

-----------------------------------------------------------------------------
(* What an extension counts from. *)

\* What extend counts from.
Base(windows, from) == Max({from, Min({w.off : w \in windows})})

\* Of windows that are not over yet, it is the first instant from then on at which the
\* device is off.
LEMMA BaseIsFirst ==
    ASSUME NEW W \in SUBSET Windows, IsFiniteSet(W), W # {}, NEW from \in Int,
           Proper(W, from)
    PROVE  LET base == Base(W, from)
           IN  /\ base \in Int /\ from <= base
               /\ OffAt(W, base)
               /\ base = from \/ \E w \in W : base = w.off
               /\ \A t \in Int : from <= t /\ OffAt(W, t) => base <= t
<1> DEFINE S == {w.off : w \in W}
<1>1. IsFiniteSet(S) /\ S \in SUBSET Int /\ S # {}
  BY EndsFinite
<1>2. PICK m \in Int : m = Min(S) /\ m \in S /\ \A y \in S : m <= y
  BY <1>1, MinOf
<1>3. PICK first \in W : first.off = m /\ \A w \in W : m <= w.off
  BY <1>2
<1>4. Base(W, from) = IF from >= m THEN from ELSE m
  BY <1>2, MaxPair DEF Base
<1>5. \A w \in W : w.on \in Int /\ w.off \in Int /\ w.off < w.on /\ from < w.on
  BY DEF Windows, Proper
<1> HIDE DEF S
<1>6. PICK base \in Int : base = Base(W, from) /\ from <= base /\ m <= base
                          /\ (base = from \/ base = m)
  BY <1>4
<1>7. OffAt(W, base)
  BY <1>3, <1>5, <1>6 DEF OffAt
<1>8. \A t \in Int : from <= t /\ OffAt(W, t) => base <= t
  BY <1>3, <1>5, <1>6 DEF OffAt
<1> QED
  BY <1>3, <1>6, <1>7, <1>8

\* A window that contains an instant before the end of two ranges that start alike is in
\* both: the days one has and the other has not begin later.
LEMMA RowsAlike ==
    ASSUME NEW zone \in Zones, NEW rules \in SUBSET Rules, NEW overrides \in SUBSET Overrides,
           NEW start \in Int, NEW a \in Int, NEW b \in Int, NEW t \in Int, t < RangeEnd(zone, b),
           Covered(RowWindows(zone, rules, overrides, start, RangeEnd(zone, a)), t)
    PROVE  Covered(RowWindows(zone, rules, overrides, start, RangeEnd(zone, b)), t)
<1> DEFINE first == Date(LocalOf(zone, start)) - 1
           dates(to) == first .. Date(LocalOf(zone, RangeEnd(zone, to)))
<1>1. first \in Int /\ \A to \in Int : RangeEnd(zone, to) \in Int
  BY InstantTypes DEF RangeEnd
<1>2. PICK end \in Int, day \in Int : end = RangeEnd(zone, b) /\ end = StartOfDay(zone, day)
  <2>1. Date(LocalOf(zone, b)) + 1 \in Int
    BY InstantTypes
  <2> QED
    BY <2>1, InstantTypes DEF RangeEnd
<1>3. PICK local \in Int, last \in Int : local = LocalOf(zone, end) /\ last = Date(local)
  BY InstantTypes
<1>4. \A l \in Int : l > local => InstantOf(zone, l) >= end
  BY <1>2, <1>3, DayStarts
<1>5. \A to : RowWindows(zone, rules, overrides, start, RangeEnd(zone, to))
                = RuleWindows(zone, rules, dates(to)) \cup OverrideWindows(zone, overrides, dates(to))
  BY DEF RowWindows
<1>6. dates(a) \in SUBSET Int /\ \A d \in dates(a) : d <= last => d \in dates(b)
  <2>1. Date(LocalOf(zone, RangeEnd(zone, a))) \in Int
    BY <1>1, InstantTypes
  <2> QED
    BY <2>1, <1>1, <1>2, <1>3
<1> HIDE DEF first, dates
<1>7. ASSUME NEW d \in dates(a), NEW r, r.start \in TimesOfDay, r.end \in TimesOfDay,
             Covered(Window(zone, d, r.start, r.end), t)
      PROVE  d \in dates(b)
  <2>1. SUFFICES ASSUME ~(d <= last) PROVE FALSE
    BY <1>6
  <2>2. d \in Int /\ d * DayLength \in Int /\ d * DayLength > local
    BY <2>1, <1>3, <1>6, DateAtLeast
  <2>3. PICK l \in Int : l = d * DayLength + r.start /\ l > local
    BY <2>2, <1>7 DEF TimesOfDay
  <2>4. InstantOf(zone, l) <= t
    BY <2>3, <1>7 DEF Covered, Window
  <2> QED
    BY <2>3, <2>4, <1>2, <1>4, InstantTypes
<1>8. \A r \in rules : r.start \in TimesOfDay /\ r.end \in TimesOfDay
  BY DEF Rules
<1>9. \A o \in overrides : o.start \in TimesOfDay /\ o.end \in TimesOfDay
  BY DEF Overrides
<1>10. \A d \in dates(a) :
          /\ \A r \in rules : Covered(Window(zone, d, r.start, r.end), t) => d \in dates(b)
          /\ \A o \in overrides : Covered(Window(zone, d, o.start, o.end), t) => d \in dates(b)
  BY <1>7, <1>8, <1>9
<1>11. \/ \E d \in dates(a), r \in rules : /\ r.enabled /\ DayOfWeek(d) \in r.days
                                           /\ Covered(Window(zone, d, r.start, r.end), t)
       \/ \E d \in dates(a), o \in overrides : /\ o.enabled /\ o.first <= d /\ d <= o.last
                                               /\ Covered(Window(zone, d, o.start, o.end), t)
  BY <1>5, WindowOf
<1>12. \/ \E d \in dates(b), r \in rules : /\ r.enabled /\ DayOfWeek(d) \in r.days
                                           /\ Covered(Window(zone, d, r.start, r.end), t)
       \/ \E d \in dates(b), o \in overrides : /\ o.enabled /\ o.first <= d /\ d <= o.last
                                               /\ Covered(Window(zone, d, o.start, o.end), t)
  BY <1>10, <1>11
<1> QED
  BY <1>5, <1>12, WindowOf

\* Looking only some days ahead, extend counts from the same instant as it would from all
\* the agent has been told, though the two resolve different ranges: with windows up to a,
\* and up to a horizon no earlier, what it counts from is the same.
LEMMA SameBase ==
    ASSUME NEW s \in Schedules, IsFiniteSet(s.rules), IsFiniteSet(s.overrides),
           NEW from \in Nat, NEW a \in Int, NEW k \in Int, a <= k * DayLength, from < k * DayLength,
           NEW until \in Instants, until < k * DayLength,
           ApplyExtension(Resolve(s, from, a), until) # {}
    PROVE  Base(ApplyExtension(Resolve(s, from, a), until), from)
             = Base(ApplyExtension(Resolve(s, from, k * DayLength), until), from)
<1>1. PICK b \in Int : b = k * DayLength
  BY DateAtLeast
<1> DEFINE G(to) == Resolve(s, from, to)
           W(to) == ApplyExtension(G(to), until)
           end(to) == RangeEnd(s.zone, to)
           rows(to) == RowWindows(s.zone, s.rules, s.overrides, RangeStart(s.zone, from), end(to))
           enabled == \E r \in s.rules : r.enabled
<1>2. s.zone \in Zones /\ s.rules \in SUBSET Rules /\ s.overrides \in SUBSET Overrides
  BY DEF Schedules
<1>3. ASSUME NEW to \in Int
      PROVE  /\ end(to) \in Int
             /\ G(to) \in SUBSET Windows /\ IsFiniteSet(G(to))
             /\ Proper(G(to), from) /\ \A g \in G(to) : g.off < to
             /\ \A t \in Int : from <= t /\ OffAt(G(to), t) => t < end(to) /\ enabled /\ ~Covered(rows(to), t)
             /\ \A t \in Int : from <= t /\ t < to /\ t < end(to) /\ enabled /\ ~Covered(rows(to), t)
                                  => OffAt(G(to), t)
  BY <1>2, OffWindowsShape DEF Resolve
<1>4. ASSUME NEW to \in Int, NEW too \in Int, NEW t \in Int, t < end(too), Covered(rows(to), t)
      PROVE  Covered(rows(too), t)
  <2>1. RangeStart(s.zone, from) \in Int
    BY <1>2, RangeStartsBefore
  <2> QED
    BY <2>1, <1>2, <1>4, RowsAlike
<1>5. b < end(b)
  BY <1>1, <1>2, RangeReaches
<1> HIDE DEF G, end, rows, enabled
<1>6. ASSUME NEW to \in Int
      PROVE  /\ W(to) \in SUBSET Windows /\ IsFiniteSet(W(to))
             /\ Proper(W(to), from)
             /\ \A w \in W(to) : w.off < to \/ w.off = until
  <2>1. W(to) \in SUBSET Windows /\ IsFiniteSet(W(to))
    BY <1>3, ApplyExtensionType
  <2>2. from \in Int
    OBVIOUS
  <2>3. /\ Proper(W(to), from)
        /\ \A w \in W(to) : w.off = until \/ \E g \in G(to) : w.off = g.off
    BY <2>2, <1>3, ExtendedShape
  <2> QED
    BY <2>1, <2>3, <1>3
<1>7. ASSUME NEW to \in Int, NEW t \in Int, from <= t
      PROVE  OffAt(W(to), t) <=> t >= until /\ OffAt(G(to), t)
  BY <1>3, <1>7, ExtensionDelays
<1> HIDE DEF W
<1>8. /\ until \in Int /\ from \in Int
      /\ W(a) # {} /\ a <= b /\ from < b /\ until < b
  BY <1>1 DEF W, G, Instants, Null
<1>9. PICK x \in Int : /\ x = Base(W(a), from) /\ from <= x /\ OffAt(W(a), x)
                       /\ x = from \/ \E w \in W(a) : x = w.off
                       /\ \A t \in Int : from <= t /\ OffAt(W(a), t) => x <= t
  BY <1>6, <1>8, BaseIsFirst
<1>10. x = from \/ x < a \/ x = until
  BY <1>6, <1>9
<1>11. x < b
  BY <1>8, <1>10
<1>12. x >= until /\ x < end(a) /\ enabled /\ ~Covered(rows(a), x)
  BY <1>3, <1>7, <1>9
<1>13. OffAt(W(b), x)
  <2>1. x < end(b)
    BY <1>3, <1>5, <1>11
  <2>2. ~Covered(rows(b), x)
    BY <1>4, <1>12
  <2>3. OffAt(G(b), x)
    BY <2>1, <2>2, <1>3, <1>9, <1>11, <1>12
  <2> QED
    BY <2>3, <1>7, <1>9, <1>12
<1>14. W(b) # {}
  BY <1>13 DEF OffAt
<1>15. PICK y \in Int : /\ y = Base(W(b), from) /\ from <= y /\ OffAt(W(b), y)
                        /\ \A t \in Int : from <= t /\ OffAt(W(b), t) => y <= t
  BY <1>6, <1>8, <1>14, BaseIsFirst
<1>16. y <= x
  BY <1>9, <1>13, <1>15
<1>17. ~(y < x)
  <2> SUFFICES ASSUME y < x PROVE FALSE
    OBVIOUS
  <2>1. y >= until /\ y < end(b) /\ ~Covered(rows(b), y)
    BY <1>3, <1>7, <1>15
  <2>2. y < a
    BY <2>1, <1>8, <1>10, <1>15
  <2>3. y < end(a)
    BY <1>3, <1>12
  <2>4. ~Covered(rows(a), y)
    BY <2>1, <1>4
  <2>5. OffAt(G(a), y)
    BY <2>2, <2>3, <2>4, <1>3, <1>12, <1>15
  <2>6. OffAt(W(a), y)
    BY <2>1, <2>5, <1>7, <1>15
  <2> QED
    BY <2>6, <1>9, <1>15
<1> QED
  BY <1>1, <1>9, <1>15, <1>16, <1>17 DEF W, G

\* The days extend looks ahead end within the horizon.
LEMMA AheadInHorizon ==
    ASSUME TypeOK
    PROVE  /\ now + Ahead * DayLength \in Int
           /\ now + Ahead * DayLength <= (Date(now) + Horizon) * DayLength
<1>1. /\ now \in Int /\ Ahead \in Int /\ Horizon \in Int /\ Ahead + 1 <= Horizon
      /\ DayLength \in Int /\ DayLength > 0
  BY DevicePowerAssumption, ResolverAssumption DEF TypeOK
<1>2. PICK d \in Int : d = Date(now)
  BY <1>1, DateTime
<1>3. PICK k \in Int : k = d + Horizon /\ d + 1 + Ahead <= k
  BY <1>1
<1>4. now < (d + 1) * DayLength /\ (d + 1) * DayLength \in Int
  BY <1>1, <1>2, DateAtLeast
<1>5. Ahead * DayLength \in Int
  BY <1>1
<1>6. (d + 1 + Ahead) * DayLength = (d + 1) * DayLength + Ahead * DayLength
  BY <1>1
<1>7. (d + 1 + Ahead) * DayLength <= k * DayLength /\ k * DayLength \in Int
  <2>1. PICK e \in Int : e = d + 1 + Ahead /\ e <= k
    BY <1>1, <1>3
  <2>2. e * DayLength <= k * DayLength
    BY <2>1, <1>1
  <2>3. k * DayLength \in Int
    BY <1>1
  <2> QED
    BY <2>1, <2>2, <2>3
<1>8. now + Ahead * DayLength <= k * DayLength
  BY <1>1, <1>4, <1>5, <1>6, <1>7
<1> QED
  BY <1>1, <1>2, <1>3, <1>5, <1>8

\* An extension grants what it says.
LEMMA ExtendStep ==
    ASSUME Inv, NEW minutes \in 1 .. MaxExtension, Extend(minutes)
    PROVE  LET before == Told
               after == ScheduleFor(row', ScheduleOf(row.scheduleId), now)
               base == Max({now, Min({w.off : w \in before})})
           IN  \A t \in ToldOf : OffAt(after, t) <=> (t >= base + minutes /\ OffAt(before, t))
<1> DEFINE s == ScheduleOf(row.scheduleId)
           until == row.extensionUntil
           a == now + Ahead * DayLength
           k == Date(now) + Horizon
           W == Resolve(s, now, k * DayLength)
           effective == ApplyExtension(Resolve(s, now, a), until)
           before == Told
           after == ScheduleFor(row', s, now)
<1>1. TypeOK /\ now <= LastInstant
  BY DEF Inv
<1>2. /\ now \in Nat /\ until \in Instants /\ until \in Int /\ row.holdUntil \in Int
      /\ row \in DeviceRows /\ minutes \in Nat /\ minutes > 0
  BY <1>1, DevicePowerAssumption DEF TypeOK, DeviceRows, Instants, Null
<1>3. k \in Int /\ k * DayLength \in Int /\ now < k * DayLength
  BY <1>1, HorizonType
<1>4. a \in Int /\ a <= k * DayLength
  BY <1>1, AheadInHorizon
<1>5. PowerState(row, now) = "SCHEDULE" /\ Exists(row.scheduleId)
  BY DEF Extend
<1>6. ~SwitchedOff(row) /\ ~(row.holdUntil > now) /\ ~(row.holdUntil # Null /\ row.holdThenOff)
  BY <1>5 DEF PowerState
<1>7. s # NoSchedule /\ s \in Schedules /\ IsFiniteSet(s.rules) /\ IsFiniteSet(s.overrides)
  BY <1>1, <1>5, AssignedType
<1>8. effective # {} /\ row' = [row EXCEPT !.extensionUntil = Base(effective, now) + minutes]
  BY DEF Extend, SaveDevice, EffectiveWindows, Base
<1>9. before = ApplyExtension(W, until)
  BY <1>6, <1>7 DEF Told, ScheduleFor, WindowsFor
<1> HIDE DEF s, k, a
<1>10. W \in SUBSET Windows /\ IsFiniteSet(W)
  BY <1>2, <1>3, <1>7, ResolveType
<1>11. PICK base \in Int : base = Base(effective, now) /\ now <= base /\ base >= until
  <2>1. s.zone \in Zones /\ s.rules \in SUBSET Rules /\ s.overrides \in SUBSET Overrides
    BY <1>7 DEF Schedules
  <2>2. now \in Int
    BY <1>2
  <2>3. /\ Resolve(s, now, a) \in SUBSET Windows /\ IsFiniteSet(Resolve(s, now, a))
        /\ Proper(Resolve(s, now, a), now)
    BY <2>1, <2>2, <1>4, <1>7, OffWindowsShape DEF Resolve
  <2>4. effective \in SUBSET Windows /\ IsFiniteSet(effective) /\ Proper(effective, now)
    BY <2>2, <2>3, <1>2, ApplyExtensionType, ExtendedShape
  <2>5. PICK base \in Int : base = Base(effective, now) /\ now <= base /\ OffAt(effective, base)
    <3> HIDE DEF effective
    <3> QED
      BY <2>2, <2>4, <1>8, BaseIsFirst
  <2>6. base \in Nat
    BY <2>5, <1>2
  <2>7. base >= until
    BY <2>3, <2>5, <2>6, <1>2, ExtensionDelays
  <2> QED
    BY <2>5, <2>7
<1>12. until < k * DayLength => Base(before, now) = base
  BY <1>2, <1>3, <1>4, <1>7, <1>8, <1>9, <1>11, SameBase
<1>13. base + minutes \in Nat /\ base + minutes \in Instants /\ base + minutes > until
  BY <1>2, <1>11 DEF Instants
<1>14. after = ApplyExtension(W, base + minutes)
  <2>1. row' = [row EXCEPT !.extensionUntil = base + minutes]
    BY <1>8, <1>11
  <2>2. /\ row'.extensionUntil = base + minutes
        /\ row'.powerMode = row.powerMode /\ row'.offFrom = row.offFrom
        /\ row'.holdUntil = row.holdUntil /\ row'.holdThenOff = row.holdThenOff
    BY <2>1, <1>2 DEF DeviceRows
  <2> QED
    BY <2>2, <1>6, <1>7 DEF ScheduleFor, WindowsFor, SwitchedOff, k
<1> HIDE DEF W, before, after, effective, until
<1>15. ASSUME NEW t \in now .. k * DayLength - 1
       PROVE  OffAt(after, t) <=> (t >= Base(before, now) + minutes /\ OffAt(before, t))
  <2>1. t \in Nat /\ t < k * DayLength
    BY <1>2, <1>3
  <2>2. OffAt(after, t) <=> t >= base + minutes /\ OffAt(W, t)
    BY <2>1, <1>10, <1>13, <1>14, ExtensionDelays
  <2>3. OffAt(before, t) <=> t >= until /\ OffAt(W, t)
    BY <2>1, <1>2, <1>9, <1>10, ExtensionDelays
  <2>4. CASE until < k * DayLength
    BY <2>1, <2>2, <2>3, <2>4, <1>2, <1>12, <1>13
  <2>5. CASE ~(until < k * DayLength)
    BY <2>1, <2>2, <2>3, <2>5, <1>2, <1>3, <1>11, <1>13
  <2> QED
    BY <2>4, <2>5
<1> QED
  BY <1>15 DEF ToldOf, Base, before, after, k, s

\* Whatever the schedule and the zone, and whatever extension there was, an extension keeps
\* the device on its minutes longer than it had been told, and leaves what it is told of the
\* time after that as it was (extend, applyExtension).
THEOREM ExtensionGrants == Spec => ExtendGrants
<1>1. Inv => \A minutes \in 1 .. MaxExtension :
                Extend(minutes) =>
                   LET before == Told
                       after == ScheduleFor(row', ScheduleOf(row.scheduleId), now)
                       base == Max({now, Min({w.off : w \in before})})
                   IN  \A t \in ToldOf :
                          OffAt(after, t) <=> (t >= base + minutes /\ OffAt(before, t))
  BY ExtendStep
<1> QED
  BY <1>1, InvHolds, PTL DEF ExtendGrants

-----------------------------------------------------------------------------
(* What time alone changes. *)

\* Time alone changes nothing the agent is told.
LEMMA TickStep ==
    ASSUME Inv, Tick, ~SomethingReal(now + 1)
    PROVE  ScheduleFor(row, ScheduleOf(row.scheduleId), now + 1) = Told
<1> DEFINE s == ScheduleOf(row.scheduleId)
           until == IF row.holdUntil > now THEN row.holdUntil ELSE row.extensionUntil
           to == (Date(now) + Horizon) * DayLength
<1>1. TypeOK
  BY DEF Inv
<1>2. /\ now \in Nat /\ row.holdUntil \in Int /\ row.holdUntil # now + 1
      /\ row.holdUntil \in Instants /\ row.extensionUntil \in Instants
      /\ Date(now + 1) = Date(now)
      /\ \A w \in Told : w.on # now + 1
      /\ Exists(row.scheduleId) => Date(LocalOf(schedules[row.scheduleId].zone, now + 1))
                                     = Date(LocalOf(schedules[row.scheduleId].zone, now))
  <2>1. now \in Nat /\ row.holdUntil \in Int /\ row.holdUntil \in Instants /\ row.extensionUntil \in Instants
    BY <1>1 DEF TypeOK, DeviceRows, Instants, Null
  <2>2. now + 1 - 1 = now
    BY <2>1
  <2> QED
    BY <2>1, <2>2 DEF SomethingReal
<1>3. CASE SwitchedOff(row) \/ (row.holdUntil # Null /\ row.holdThenOff)
  BY <1>3 DEF ScheduleFor, Told
<1>4. CASE ~SwitchedOff(row) /\ ~(row.holdUntil # Null /\ row.holdThenOff)
  <2>1. row.holdUntil > now <=> row.holdUntil > now + 1
    BY <1>2
  <2>2. /\ Told = WindowsFor(s, until, now)
        /\ ScheduleFor(row, s, now + 1) = WindowsFor(s, until, now + 1)
    BY <2>1, <1>4 DEF ScheduleFor, Told
  <2>3. CASE ~Exists(row.scheduleId)
    BY <2>2, <2>3 DEF WindowsFor, Exists
  <2>4. CASE Exists(row.scheduleId)
    <3> DEFINE G(from) == Resolve(s, from, to)
               start == RangeStart(s.zone, now)
               end == RangeEnd(s.zone, to)
               gaps == Gaps(AllowedWindows(s.zone, s.rules, s.overrides, start, end), start, end)
               enabled == \E r \in s.rules : r.enabled
    <3>1. /\ schedules[row.scheduleId] = s /\ s # NoSchedule /\ s \in Schedules
          /\ IsFiniteSet(s.rules) /\ IsFiniteSet(s.overrides)
      BY <2>4, <1>1, AssignedType
    <3>2. /\ Told = ApplyExtension(G(now), until)
          /\ ScheduleFor(row, s, now + 1) = ApplyExtension(G(now + 1), until)
      BY <2>2, <3>1, <1>2 DEF WindowsFor
    <3>3. RangeStart(s.zone, now + 1) = start
      BY <3>1, <2>4, <1>2 DEF RangeStart
    <3>4. /\ G(now) = {g \in gaps : enabled /\ g.on > now /\ g.off < to}
          /\ G(now + 1) = {g \in gaps : enabled /\ g.on > now + 1 /\ g.off < to}
      BY <3>3 DEF Resolve, OffWindows
    <3>5. to \in Int
      BY <1>1, HorizonType DEF Inv
    <3>6. gaps \in SUBSET Windows
      <4>1. s.zone \in Zones /\ s.rules \in SUBSET Rules /\ s.overrides \in SUBSET Overrides
        BY <3>1 DEF Schedules
      <4>2. start \in Int /\ end \in Int
        BY <4>1, <3>5, <1>2, RangeStartsBefore, InstantTypes DEF RangeEnd
      <4> HIDE DEF s, start, end
      <4> QED
        BY <4>1, <4>2, <3>1, GapsExact
    <3> HIDE DEF s, to, gaps, enabled, G
    <3>7. G(now + 1) = {g \in G(now) : g.on # now + 1}
      <4>1. \A g \in gaps : g.on \in Int
        BY <3>6 DEF Windows
      <4> QED
        BY <3>4, <4>1, <1>2
    <3>8. until \in Int
      BY <1>2 DEF Instants, Null
    <3> HIDE DEF until
    <3>9. CASE until = Null
      <4>1. Told = G(now) /\ ScheduleFor(row, s, now + 1) = G(now + 1)
        BY <3>2, <3>9 DEF ApplyExtension
      <4> QED
        BY <4>1, <3>7, <1>2 DEF s
    <3>10. CASE until # Null
      <4> DEFINE moved(w) == IF w.off < until THEN [on |-> w.on, off |-> until] ELSE w
      <4>1. /\ Told = {moved(w) : w \in {v \in G(now) : v.on > until}}
            /\ ScheduleFor(row, s, now + 1) = {moved(w) : w \in {v \in G(now + 1) : v.on > until}}
        BY <3>2, <3>10 DEF ApplyExtension
      <4>2. \A w \in G(now) : moved(w).on = w.on
        OBVIOUS
      <4> HIDE DEF moved
      <4>3. \A w \in G(now) : w.on > until => w.on # now + 1
        BY <4>1, <4>2, <1>2
      <4>4. {v \in G(now) : v.on > until} = {v \in G(now + 1) : v.on > until}
        BY <4>3, <3>7
      <4> QED
        BY <4>1, <4>4 DEF s
    <3> QED
      BY <3>9, <3>10
  <2> QED
    BY <2>3, <2>4
<1> QED
  BY <1>3, <1>4

\* The windows, and the revision with them, change with the clock only when a day, a hold or
\* an off window ends (scheduleFor, offWindows).
THEOREM RevisionIsStable == Spec => RevisionStable
<1>1. Inv => (Tick /\ ~SomethingReal(now + 1)
                => ScheduleFor(row, ScheduleOf(row.scheduleId), now + 1) = Told)
  BY TickStep
<1> QED
  BY <1>1, InvHolds, PTL DEF RevisionStable
=============================================================================
