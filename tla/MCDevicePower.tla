---------------------------- MODULE MCDevicePower ----------------------------
(* Zones, rows and overrides for TLC runs of DevicePower: a day has six units, *)
(* a week two days, and the clock runs over the days 1 and 2.                  *)
EXTENDS DevicePower

CONSTANT school

MCOneId == {school}

\* No change of offset; clocks put forward by two units, at midday and over midnight; and
\* put back by two.
Fixed == [before |-> 1, after |-> 1, at |-> 0]
Forward == [before |-> 0, after |-> 2, at |-> 8]
Nightly == [before |-> 0, after |-> 2, at |-> 11]
Back == [before |-> 2, after |-> 0, at |-> 9]

Row(days, start, end) == [days |-> days, start |-> start, end |-> end, enabled |-> TRUE]
Disabled(rule) == [rule EXCEPT !.enabled = FALSE]
Daily == {0, 1}

MCRules == {
    {},
    {Disabled(Row(Daily, 1, 4))},
    {Row(Daily, 0, 0)},                        \* all of every day
    {Row({1}, 0, 0)},                          \* every other day
    {Row(Daily, 3, 0), Row(Daily, 0, 1)},      \* over midnight, as two rows
    {Row(Daily, 1, 3), Row(Daily, 3, 5)},      \* two that touch
    {Row({0}, 3, 4), Row(Daily, 2, 5)},        \* one inside another
    {Row({1}, 1, 2), Row({0}, 4, 0), Disabled(Row(Daily, 0, 0))} }

MCContents == [zone : {Fixed, Forward, Nightly, Back}, rules : MCRules]

MCOverrides == { [first |-> 1, last |-> 2, start |-> 0, end |-> 3, enabled |-> TRUE] }
=============================================================================
