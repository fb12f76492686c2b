-------------------------------- MODULE Window --------------------------------
(***************************************************************************)
(* The maintenance window of a host's policy (internal/policy/window.go):  *)
(* how a specification such as "Sat 22:00-02:00" becomes a window, when    *)
(* that window is open and when it opens next, in a time zone whose offset *)
(* may change once.                                                        *)
(*                                                                         *)
(* An instant is an integer; a day has DayLen units of the wall clock (the *)
(* code's are minutes, 1440 of them) and local day d is weekday d % 7.     *)
(***************************************************************************)
EXTENDS Integers

CONSTANTS
    DayLen,     \* units of the wall clock in a day
    Zones,      \* time zones: offset from UTC before and from one instant on
    Specs,      \* window specifications, as parseDays and parseTimeRange read them
    FirstInstant, LastInstant   \* the stretch of time looked at

ASSUME WindowAssumptions ==
    /\ DayLen \in Nat \ {0}
    /\ FirstInstant \in Int /\ LastInstant \in Int /\ FirstInstant <= LastInstant
    /\ Zones \subseteq [before : Int, after : Int, at : Int]
    /\ \A s \in Specs : /\ s.always \in BOOLEAN
                        /\ s.ranges \subseteq (0 .. 6) \X (0 .. 6)
                        /\ s.start \in 0 .. DayLen - 1
                        /\ s.end \in 0 .. DayLen - 1

VARIABLES
    zone,   \* the zone the policy names
    spec,   \* the window it writes
    instant

windowVars == <<zone, spec, instant>>

-----------------------------------------------------------------------------
(* The time package, as far as the window uses it *)

Offset(z, u) == IF u < z.at THEN z.before ELSE z.after

Local(z, u) == u + Offset(z, u)
LocalDay(z, u) == Local(z, u) \div DayLen
TimeOfDay(z, u) == Local(z, u) % DayLen

\* time.Date: the wall clock is looked up as if it were UTC, and the offset
\* found is kept if it holds at the instant it leads to, else replaced by the
\* offset in force there.
DateIn(z, day, clock) ==
    LET wall == day * DayLen + clock
        utc == wall - Offset(z, wall)
    IN IF Offset(z, wall) = 0 \/ (utc < z.at <=> wall < z.at)
       THEN utc
       ELSE wall - Offset(z, utc)

\* time.AddDate: the same wall clock k days on, and the day that is.
DayPlus(z, u, k) == LocalDay(z, DateIn(z, LocalDay(z, u) + k, TimeOfDay(z, u)))

-----------------------------------------------------------------------------
(* The window *)

\* The weekdays of a range, walked forwards from its first day and wrapping.
DayRange(from, to) == {(from + k) % 7 : k \in 0 .. ((to - from) % 7)}

\* parseDays: every listed range, single days being ranges of one.
DaysOf(ranges) == UNION {DayRange(r[1], r[2]) : r \in ranges}

\* ParseWindow refuses a specification that selects no days, and one that
\* opens and closes at the same time unless that time is midnight.
Accepted(s) == s.always \/ (DaysOf(s.ranges) # {} /\ (s.start = s.end => s.start = 0))

\* A range whose end is not after its start runs into the next day.
Length(start, end) == IF end <= start THEN end - start + DayLen ELSE end - start

ParseWindow(s) ==
    [always |-> s.always, days |-> DaysOf(s.ranges),
     start |-> s.start, length |-> Length(s.start, s.end)]

\* Mutation: the closing time is inside the window.
InstanceOpenOverlong(w, z, d, u) ==
    /\ d % 7 \in w.days
    /\ DateIn(z, d, w.start) <= u
    /\ u <= DateIn(z, d, w.start) + w.length

\* The window instance that opens on local day d is open at instant u.
InstanceOpen(w, z, d, u) ==
    /\ d % 7 \in w.days
    /\ DateIn(z, d, w.start) <= u
    /\ u < DateIn(z, d, w.start) + w.length

\* Today's instance and yesterday's.
Contains(w, z, u) == w.always \/ \E k \in {0, -1} : InstanceOpen(w, z, DayPlus(z, u, k), u)

Never == FirstInstant - 1

\* Mutation: the search stops after the sixth day ahead.
OpeningsWithinTheWeek(w, z, u) ==
    {k \in 0 .. 6 : /\ DayPlus(z, u, k) % 7 \in w.days
                    /\ DateIn(z, DayPlus(z, u, k), w.start) >= u}

\* The days ahead, today first and this weekday's next occurrence last, on
\* which an instance opens at or after u.
Openings(w, z, u) ==
    {k \in 0 .. 7 : /\ DayPlus(z, u, k) % 7 \in w.days
                    /\ DateIn(z, DayPlus(z, u, k), w.start) >= u}

NextOpen(w, z, u) ==
    IF Contains(w, z, u) THEN u
    ELSE IF Openings(w, z, u) = {} THEN Never
    ELSE LET k == CHOOSE k \in Openings(w, z, u) : \A j \in Openings(w, z, u) : k <= j
         IN DateIn(z, DayPlus(z, u, k), w.start)

-----------------------------------------------------------------------------
(* A policy file with some window in some zone, and the clock going by *)

WindowInit ==
    /\ zone \in Zones
    /\ spec \in {s \in Specs : Accepted(s)}
    /\ instant = FirstInstant

WindowTick ==
    /\ instant < LastInstant
    /\ instant' = instant + 1
    /\ UNCHANGED <<zone, spec>>

WindowNext == WindowTick

WindowSpec == WindowInit /\ [][WindowNext]_windowVars

WindowTypeOK ==
    /\ zone \in Zones
    /\ spec \in Specs
    /\ instant \in FirstInstant .. LastInstant

win == ParseWindow(spec)

\* What somebody reading the specification next to a wall clock expects.
ReadsOpen(s, d, clock) ==
    \/ s.always
    \/ s.start < s.end /\ d % 7 \in DaysOf(s.ranges) /\ s.start <= clock /\ clock < s.end
    \/ s.start >= s.end /\ d % 7 \in DaysOf(s.ranges) /\ s.start <= clock
    \/ s.start >= s.end /\ (d - 1) % 7 \in DaysOf(s.ranges) /\ clock < s.end

\* In a zone whose offset never changes the window is open exactly when the
\* wall clock reads inside what was written, whichever midnight it crosses
\* (ParseWindow and Contains).
ReadsTheClock ==
    zone.before = zone.after =>
        (Contains(win, zone, instant)
            <=> ReadsOpen(spec, LocalDay(zone, instant), TimeOfDay(zone, instant)))

\* Every instance runs for its whole length from the moment it opens, also
\* over a change of the offset by one unit (Contains, which looks at two days
\* only); and what an operator is told about the next opening is right: the
\* window is open then, and closed at every instant before (NextOpen).
OpeningsHold ==
    LET n == NextOpen(win, zone, instant) IN
    /\ \A d \in (LocalDay(zone, instant) - 2) .. LocalDay(zone, instant) :
          InstanceOpen(win, zone, d, instant) => Contains(win, zone, instant)
    /\ n >= instant
    /\ Contains(win, zone, n)
    /\ \A u \in instant .. (n - 1) : ~Contains(win, zone, u)

=============================================================================
