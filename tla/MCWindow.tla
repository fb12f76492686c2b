------------------------------- MODULE MCWindow -------------------------------
(* Windows of every start and end on a few day lists, for a bit over a week *)
(* around the night of a change of the offset.                              *)
EXTENDS Window

NoChange(off) == [before |-> off, after |-> off, at |-> 0]

\* The clock goes forward or back by one unit, at wall clock w of day 10.
Changes(off, by, w) == [before |-> off, after |-> off + by, at |-> 10 * DayLen + w - off]

MCZones == {NoChange(o) : o \in {-2, 0, 1}}
           \cup {Changes(o, by, w) : o \in {-3, -2, 1, 2}, by \in {1, -1}, w \in {2, 3}}

\* One day, two days, a range that wraps over the weekend, every day, none.
MCSpecs ==
    [always : {FALSE},
     ranges : {{}, {<<3, 3>>}, {<<2, 2>>, <<4, 4>>}, {<<5, 1>>}, {<<0, 6>>}},
     start : 0 .. DayLen - 1, end : 0 .. DayLen - 1]
    \cup [always : {TRUE}, ranges : {{}}, start : {0}, end : {0}]
=============================================================================
