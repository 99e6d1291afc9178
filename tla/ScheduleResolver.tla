-------------------------- MODULE ScheduleResolver --------------------------
(***************************************************************************)
(* How a schedule's weekly rows and dated overrides become the spans of    *)
(* time in which a device must be off (schedule/ScheduleResolver.java).    *)
(*                                                                         *)
(* Instants and local date-times are integers in the same unit; a local    *)
(* date-time is date * DayLength + time of day, and UTC is the local time  *)
(* of offset 0.  A list of windows is a set here: the code sorts and       *)
(* merges the only lists whose order or repetitions could matter.          *)
(***************************************************************************)
EXTENDS Integers, FiniteSets, FiniteSetsExt

CONSTANTS DayLength,   \* units in a day
          WeekLength   \* days in a week

ASSUME ResolverAssumption ==
    /\ DayLength \in Nat \ {0}
    /\ WeekLength \in Nat \ {0}

Midnight == 0
TimesOfDay == 0 .. DayLength - 1
DaysOfWeek == 0 .. WeekLength - 1

\* java.time.ZoneId near one change of its offset: before the instant at, and from it on.
\* A ZoneOffset is less than a day, and no zone's clocks are put back from ahead of UTC to
\* behind it.
Offsets == -DayLength .. DayLength
Zones == {z \in [before : Offsets, after : Offsets, at : Int] : ~(z.after < 0 /\ 0 < z.before)}

\* ScheduleRule and ScheduleOverride.
Rules == [days : SUBSET DaysOfWeek, start : TimesOfDay, end : TimesOfDay, enabled : BOOLEAN]
Overrides == [first : Int, last : Int, start : TimesOfDay, end : TimesOfDay, enabled : BOOLEAN]

\* AllowedWindow and OffWindow: both from one instant up to another.
Windows == [on : Int, off : Int]

-----------------------------------------------------------------------------
(* What java.time does for the resolver. *)

Date(local) == local \div DayLength
TimeOfDay(local) == local % DayLength
DayOfWeek(date) == date % WeekLength

\* Instant.atZone
LocalOf(zone, instant) == instant + (IF instant < zone.at THEN zone.before ELSE zone.after)

\* LocalDateTime.atZone: a local time that occurs twice is the first of the two; one that
\* is skipped is moved on by the length of the gap.  Both come to the offset before.
InstantOf(zone, local) ==
    IF local - zone.before < zone.at \/ local - zone.after < zone.at
    THEN local - zone.before
    ELSE local - zone.after

\* LocalDate.atStartOfDay(zone): a midnight that is skipped is the end of the gap.
StartOfDay(zone, date) ==
    LET local == date * DayLength
    IN  IF zone.at + zone.before <= local /\ local < zone.at + zone.after
        THEN zone.at
        ELSE InstantOf(zone, local)

-----------------------------------------------------------------------------
IsValidWindow(start, end) == end = Midnight \/ end > start

\* window: none, or the one from start to end on that day.
Window(zone, date, start, end) ==
    {w \in {[on  |-> InstantOf(zone, date * DayLength + start),
             off |-> InstantOf(zone, IF end = Midnight THEN (date + 1) * DayLength
                                     ELSE date * DayLength + end)]} :
        IsValidWindow(start, end)}

\* The windows that begin no earlier than s and before any window of a later group.
Group(windows, starts, s) ==
    {w \in windows : s <= w.on /\ \A next \in starts : s < next => w.on < next}

\* Mutant: the end of the group's last window, whatever the others reach.
MutMerge(windows) ==
    LET starts == {s \in {w.on : w \in windows} :
                      \A w \in windows : w.on < s => w.off < s}
        last(group) == CHOOSE w \in group : \A v \in group : v.on <= w.on
    IN  {[on |-> s, off |-> last(Group(windows, starts, s)).off] : s \in starts}

\* merge: in order of their starts, a window joins the one before it unless it begins
\* after everything so far has ended.
Merge(windows) ==
    LET starts == {s \in {w.on : w \in windows} :
                      \A w \in windows : w.on < s => w.off < s}
    IN  {[on |-> s, off |-> Max({w.off : w \in Group(windows, starts, s)})] : s \in starts}

\* A row's windows on the days it ticks, and an override's on the dates in its range.
RuleWindows(zone, rules, dates) ==
    UNION {UNION {Window(zone, d, r.start, r.end) :
                    r \in {q \in rules : q.enabled /\ DayOfWeek(d) \in q.days}} : d \in dates}

OverrideWindows(zone, overrides, dates) ==
    UNION {UNION {Window(zone, d, o.start, o.end) :
                    o \in {q \in overrides : q.enabled /\ q.first <= d /\ d <= q.last}} : d \in dates}

\* All of them on the days from the one before from to the day of to.
RowWindows(zone, rules, overrides, from, to) ==
    LET dates == Date(LocalOf(zone, from)) - 1 .. Date(LocalOf(zone, to))
    IN  RuleWindows(zone, rules, dates) \cup OverrideWindows(zone, overrides, dates)

AllowedWindows(zone, rules, overrides, from, to) ==
    {w \in Merge(RowWindows(zone, rules, overrides, from, to)) : w.off > from /\ w.on < to}

\* The cursor of offWindows when it comes to a window that begins at s: how far the
\* windows before it reach.
Cursor(allowed, rangeStart, s) == Max({rangeStart} \cup {w.off : w \in {v \in allowed : v.on < s}})

\* The spans between rangeStart and rangeEnd that no allowed window covers.
Gaps(allowed, rangeStart, rangeEnd) ==
    {[off |-> Cursor(allowed, rangeStart, w.on), on |-> Min({w.on, rangeEnd})] :
        w \in {v \in allowed : v.on > Cursor(allowed, rangeStart, v.on)}}
    \cup {g \in {[off |-> Max({rangeStart} \cup {w.off : w \in allowed}), on |-> rangeEnd]} :
            g.off < rangeEnd}

\* The range of offWindows: from local midnight of the day before to the one after.
RangeStart(zone, from) == StartOfDay(zone, Date(LocalOf(zone, from)) - 1)
RangeEnd(zone, to) == StartOfDay(zone, Date(LocalOf(zone, to)) + 1)

OffWindows(zone, rules, overrides, from, to) ==
    LET start == RangeStart(zone, from)
        end == RangeEnd(zone, to)
    IN  {g \in Gaps(AllowedWindows(zone, rules, overrides, start, end), start, end) :
            /\ \E r \in rules : r.enabled
            /\ g.on > from /\ g.off < to}

\* Schedule::active_window in the agent: the windows put the device off at t.
OffAt(windows, t) == \E w \in windows : w.off <= t /\ t < w.on

-----------------------------------------------------------------------------
(* What a schedule means, told from the clock on the wall. *)

\* A row or an override covers a time of day.
Covers(row, time) == row.start <= time /\ (row.end = Midnight \/ time < row.end)

\* The device must be off at an instant: some row is enabled, and neither a row nor an
\* override covers the local time there.
MustBeOff(zone, rules, overrides, instant) ==
    LET local == LocalOf(zone, instant)
    IN  /\ \E r \in rules : r.enabled
        /\ \A r \in rules : ~(/\ r.enabled
                              /\ DayOfWeek(Date(local)) \in r.days
                              /\ Covers(r, TimeOfDay(local)))
        /\ \A o \in overrides : ~(/\ o.enabled
                                  /\ o.first <= Date(local) /\ Date(local) <= o.last
                                  /\ Covers(o, TimeOfDay(local)))

\* The instants around a change of offset at which a local time is skipped or repeated.
Shifted(zone) ==
    zone.at .. zone.at + (IF zone.after > zone.before THEN zone.after - zone.before
                          ELSE zone.before - zone.after) - 1
=============================================================================
