----------------------------- MODULE MCSchedule -----------------------------
(***************************************************************************)
(* Instances of Schedule for TLC: days of four minutes and weeks of three  *)
(* days.                                                                   *)
(***************************************************************************)
EXTENDS Schedule

At(period, minutes) == [period |-> period, at |-> minutes]

\* Every daily schedule, some weekly ones, one that never fires (30 February).
WeeklySchedules ==
    {At(4, minutes) : minutes \in (SUBSET (0..3)) \ {{}}}
        \cup {At(12, minutes) : minutes \in {{0}, {5}, {1, 5}, {2, 3, 7}}}
        \cup {At(1, {})}

WeeklyPairs ==
    [start : WeeklySchedules \cup {None}, stop : WeeklySchedules \cup {None}]

\* A start every day or week and a stop every other week, never at once.
RareStopPairs ==
    [start : {At(4, {0}), At(4, {2}), At(12, {0, 10})}, stop : {At(24, {13}), At(24, {1, 19})}]

\* Pairs of which a week tells everything.
ForeseeablePairs == WeeklyPairs \cup RareStopPairs

\* Schedules with a period of two weeks, like those of a month.
MonthlyPairs ==
    [start : {At(24, {0}), At(12, {0})}, stop : {At(24, {1}), At(24, {13}), At(24, {12})}]
=============================================================================
