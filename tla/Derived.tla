------------------------------ MODULE Derived ------------------------------
(***************************************************************************)
(* What wfp-util.c derives from packets and keeps between them: the        *)
(* pressure trend of the last three hours (calc_pressure_trend), from a    *)
(* queue of AIR reports; and the name of the wind's direction              *)
(* (DegreesToCardinal), from SKY packets.  Both run in the main thread,    *)
(* inside the parsers.  The linked list is a sequence, trend_tail its      *)
(* first element, the newest report its last.                              *)
(***************************************************************************)
EXTENDS Integers, Sequences

CONSTANTS
    Window,       \* three hours, in ticks of the clock
    Pressures,    \* pressures an AIR packet may report
    Directions,   \* wind directions, in quarters of a degree
    MaxNow,       \* bound: the last tick
    MaxReports    \* bound: AIR packets from one start of the program to the next

\* The window is longer than the time between two statements.
ASSUME WindowAssumption     == Window \in Nat \ {0, 1}
ASSUME PressuresAssumption  == Pressures \subseteq Int
ASSUME DirectionsAssumption == Directions \subseteq 0 .. 1440
ASSUME BoundsAssumption     == MaxNow \in Nat /\ MaxReports \in Nat

VARIABLES
    now,              \* time(NULL)
    trend,            \* the queue of reports
    p_trend,          \* wd.trend: 1 rising, -1 falling
    winddirection, wind_dir,
    \* history, read by properties only
    reports,          \* every report since the program's start
    base              \* number of the report the last one was compared with

vars == <<now, trend, p_trend, winddirection, wind_dir, reports, base>>

\* The sectors, clockwise, north left out.
Names == <<"NNE", "NE", "ENE", "E", "ESE", "SE", "SSE", "S",
           "SSW", "SW", "WSW", "W", "WNW", "NW", "NNW">>

\* The empty text.
NoName == ""

Init ==
    /\ now = 0
    /\ trend = <<>> /\ p_trend = 0
    /\ winddirection = 0 /\ wind_dir = NoName
    /\ reports = <<>> /\ base = 0
-----------------------------------------------------------------------------
\* The conditions of DegreesToCardinal: of a named sector, and of north, which
\* is never true.
Sector(deg, k) == deg >= 90 * k - 45 /\ deg < 90 * k + 45
North(deg)     == deg > 1395 /\ deg < 45

DegreesToCardinal(deg) ==
    IF North(deg) THEN "N"
    ELSE IF \E k \in 1 .. 15 : Sector(deg, k)
         THEN Names[CHOOSE k \in 1 .. 15 : Sector(deg, k)]
         ELSE NoName

\* wfp_sky_parse
Sky(deg) ==
    /\ winddirection' = deg
    /\ wind_dir' = DegreesToCardinal(deg)
    /\ UNCHANGED <<now, trend, p_trend, reports, base>>

\* (Mutant: the difference instead of its sign.)
Difference(p, tail) == p - tail

\* p_trend for a pressure and the tail's.
Compared(p, tail) == IF tail < p THEN 1 ELSE IF tail > p THEN -1 ELSE 0

\* (Mutant: more than the window.)
TooOldLate(t, sample) == t - sample.t > Window

\* A sample that is three hours old is dequeued: one at a time.
TooOld(t, sample) == t - sample.t >= Window

\* (Mutant: the trend is computed after the tail was dropped.)
AirAfterDrop(p, later) ==
    LET td  == [t |-> now, p |-> p]
        all == Append(trend, td)
    IN  /\ now' = later
        /\ trend' = IF TooOld(later, all[1]) THEN Tail(all) ELSE all
        /\ p_trend' = Compared(p, trend'[1].p)
        /\ reports' = Append(reports, td)
        /\ base' = Len(reports') - Len(trend') + 1
        /\ UNCHANGED <<winddirection, wind_dir>>

\* wfp_air_parse: calc_pressure_trend.  It reads the clock for the sample, and
\* again (later) for the age of the tail.
Air(p, later) ==
    LET td  == [t |-> now, p |-> p]
        all == Append(trend, td)
    IN  /\ now' = later
        /\ p_trend' = Compared(p, all[1].p)
        /\ trend' = IF TooOld(later, all[1]) THEN Tail(all) ELSE all
        /\ reports' = Append(reports, td)
        /\ base' = Len(reports') - Len(all) + 1
        /\ UNCHANGED <<winddirection, wind_dir>>

Tick ==
    /\ now < MaxNow
    /\ now' = now + 1
    /\ UNCHANGED <<trend, p_trend, winddirection, wind_dir, reports, base>>

\* The program ends (free_trend, or it is killed) and is started again: the
\* queue is only in memory.
Restart ==
    /\ trend' = <<>> /\ p_trend' = 0
    /\ winddirection' = 0 /\ wind_dir' = NoName
    /\ reports' = <<>> /\ base' = 0
    /\ UNCHANGED now

Next ==
    \/ \E p \in Pressures, later \in {now, now + 1} :
           Len(reports) < MaxReports /\ later <= MaxNow /\ Air(p, later)
    \/ \E deg \in Directions : Sky(deg)
    \/ Tick
    \/ Restart

Spec == Init /\ [][Next]_vars
-----------------------------------------------------------------------------
(***************************************************************************)
(* Properties.                                                             *)
(***************************************************************************)

Samples == [t : 0 .. MaxNow, p : Pressures]

\* Every variable has a value of its type.
TypeOK ==
    /\ now \in 0 .. MaxNow
    /\ {trend, reports} \subseteq Seq(Samples)
    /\ p_trend \in {-1, 0, 1}
    /\ winddirection \in 0 .. 1440
    /\ wind_dir \in {NoName, "N"} \cup {Names[k] : k \in 1 .. 15}

\* Number of reports no longer in the queue.
Gone == Len(reports) - Len(trend)

\* The published trend compares the last report with one that is no younger
\* than any report of the three hours before it, after outages too.
TrendSpansWindow ==
    reports # <<>> =>
        LET last == reports[Len(reports)]
        IN  /\ base \in 1 .. Len(reports)
            /\ p_trend = Compared(last.p, reports[base].p)
            /\ \A i \in 1 .. base - 1 : last.t - reports[i].t >= Window

\* The queue, which drops one sample per report and so never shrinks, is no
\* longer than the reports that once came within one window.
BusiestWindow ==
    trend # <<>> =>
        \E i \in 1 .. Len(reports) :
            /\ i + Len(trend) - 1 <= Len(reports)
            /\ reports[i + Len(trend) - 1].t - reports[i].t < Window

\* No window had more reports than the last one has.
AsBusyAsEver ==
    LET n == Len(reports)
    IN  \A i \in 1 .. n : \A k \in 0 .. n - i :
            reports[i + k].t - reports[i].t < Window =>
                reports[n].t - reports[n - k].t < Window

\* After an outage the last report is compared with samples from before it, one
\* after the other.  That is over, at the latest, when reports come as they did:
\* then the baseline is the last report before the three hours, or in them.
TrendRecovers ==
    reports # <<>> /\ AsBusyAsEver =>
        LET n == Len(reports)
        IN  base = n \/ reports[n].t - reports[base + 1].t < Window
=============================================================================
