------------------------------ MODULE Rainfall ------------------------------
(***************************************************************************)
(* Rain over time: accumulate_rain and save_rainfall (wfp-rainfall.c) and  *)
(* read_rainfall (wfpublish.c).                                            *)
(*                                                                         *)
(* The hub reports the rain of the last minute.  wfpublish keeps totals of *)
(* the current clock hour, day, month and year and of the rolling last 60  *)
(* minutes and 24 hours, writes them to rainfall.json after every report   *)
(* and takes them from there when it starts.  A total is started anew only *)
(* by a report that arrives in the first minute of its period.             *)
(*                                                                         *)
(* Time is a count of minutes; the calendar is regular and its sizes are   *)
(* parameters.  The clock may move on between any two steps: the code      *)
(* reads it once to accumulate and again to stamp the file.  An amount of  *)
(* rain is a natural number.                                               *)
(***************************************************************************)
EXTENDS Naturals, Functions

CONSTANTS
    MinsPerHour, HoursPerDay, DaysPerMonth, MonthsPerYear,
    Amounts,     \* what one report may say
    Empty,       \* rainfall.json with no content
    Start,       \* the minute the program is first started in
    Horizon      \* bound: the last minute considered

ASSUME CalendarAssumption ==
    {MinsPerHour, HoursPerDay, DaysPerMonth, MonthsPerYear} \subseteq Nat \ {0}
ASSUME AmountsAssumption == Amounts \subseteq Nat
ASSUME ClockAssumption   == Start \in Nat /\ Horizon \in Nat /\ Start <= Horizon

Minutes == 0 .. MinsPerHour - 1
Hours   == 0 .. HoursPerDay - 1

MinsPerDay   == MinsPerHour * HoursPerDay
MinsPerMonth == MinsPerDay * DaysPerMonth
MinsPerYear  == MinsPerMonth * MonthsPerYear

\* localtime
Date(c) == [min  |-> c % MinsPerHour,
            hour |-> (c \div MinsPerHour) % HoursPerDay,
            mday |-> ((c \div MinsPerDay) % DaysPerMonth) + 1,
            mon  |-> (c \div MinsPerMonth) % MonthsPerYear,
            year |-> c \div MinsPerYear]

Totals == [hr : Nat, day : Nat, month : Nat, year : Nat,
           last60 : Nat, last24 : Nat]
Stamps == [hour : Nat, day : Nat, month : Nat, year : Nat]

\* A file with no content is not one that was written.
ASSUME EmptyAssumption == Empty \notin [stamp : Stamps, rain : Totals]

VARIABLES
    clock,     \* the minute it is
    pc,        \* "down", "idle", "save" (about to stamp and open the file),
               \* "write" (file open, and truncated)
    rain,      \* the totals in wd
    rain_60_min, rain_24_hr,
    stamp,     \* the "time" object of the save under way
    file,      \* rainfall.json: Empty, or a stamp and the totals
    \* history, read by properties only
    log,       \* the rain reported in each minute
    reports,   \* number of reports in this minute
    saved,     \* a save was completed
    excused,   \* the program was down for part of this minute
    lost,      \* some minute passed with the program up and no report
    straddled, \* the clock moved on between a report and the stamp of its save
    restarted, \* the program was restarted since the first start
    broken     \* two reports in one minute, or a report not saved: log is void

state   == <<rain, rain_60_min, rain_24_hr>>
history == <<log, reports, saved, excused, lost, straddled, restarted, broken>>
vars    == <<clock, pc, state, stamp, file, history>>

NoRain   == [hr |-> 0, day |-> 0, month |-> 0, year |-> 0,
             last60 |-> 0, last24 |-> 0]
NoLog    == [c \in Start .. Horizon |-> 0]
ZeroMins == [m \in Minutes |-> 0]
ZeroHrs  == [h \in Hours |-> 0]

\* The part of the date that is saved.
Stamp(c) == LET d == Date(c)
            IN  [hour |-> d.hour, day |-> d.mday, month |-> d.mon + 1,
                 year |-> d.year]

Init ==
    /\ clock = Start /\ pc = "down"
    /\ rain = NoRain /\ rain_60_min = ZeroMins /\ rain_24_hr = ZeroHrs
    /\ stamp = Stamp(Start) /\ file = Empty
    /\ log = NoLog /\ reports = 0 /\ saved = FALSE /\ excused = TRUE /\ lost = FALSE
    /\ straddled = FALSE /\ restarted = FALSE /\ broken = FALSE
-----------------------------------------------------------------------------
\* Either a total starts anew with this report or the report is added to it.
Total(old, anew, r) == IF anew THEN r ELSE old + r

\* What accumulate_rain makes of the totals at date d.  "tm_mon =- 0" assigns
\* 0 and is false, so the year never starts anew.
\* (Mutants: an hour that starts a minute late; a month that starts in every
\* hour of its first day.)
HourStartsLate(d)      == d.min = 1
MonthStartsHourly(d)   == d.mday = 1 /\ d.min = 0

HourStarts(d)  == d.min = 0
DayStarts(d)   == d.hour = 0 /\ d.min = 0
MonthStarts(d) == d.mday = 1 /\ d.hour = 0 /\ d.min = 0
YearStarts(d)  == FALSE

\* accumulate_rain, up to the call of save_rainfall.
Accumulate(r) ==
    /\ pc = "idle"
    /\ LET d  == Date(clock)
           hr == Total(rain.hr, HourStarts(d), r)
       IN  /\ rain_60_min' = [rain_60_min EXCEPT ![d.min] = r]
           /\ rain_24_hr' = [rain_24_hr EXCEPT ![d.hour] = hr]
           /\ rain' = [hr     |-> hr,
                       day    |-> Total(rain.day, DayStarts(d), r),
                       month  |-> Total(rain.month, MonthStarts(d), r),
                       year   |-> Total(rain.year, YearStarts(d), r),
                       last60 |-> SumFunction(rain_60_min'),
                       last24 |-> SumFunction(rain_24_hr')]
    /\ pc' = "save"
    /\ UNCHANGED <<clock, stamp, file>>

\* Mutant: the whole date is saved, under other names.
SaveOpenDate ==
    /\ pc = "save"
    /\ stamp' = Date(clock)
    /\ file' = Empty
    /\ pc' = "write"
    /\ UNCHANGED <<clock, state>>

\* save_rainfall reads the clock again, and fopen(..., "w") truncates the file.
SaveOpen ==
    /\ pc = "save"
    /\ stamp' = Stamp(clock)
    /\ file' = Empty
    /\ pc' = "write"
    /\ UNCHANGED <<clock, state>>

\* The one fprintf reaches the file when fclose flushes it.
SaveClose ==
    /\ pc = "write"
    /\ file' = [stamp |-> stamp, rain |-> rain]
    /\ pc' = "idle"
    /\ UNCHANGED <<clock, state, stamp>>

\* The program ends: all it knows is in the file.
Down ==
    /\ pc' = "down"
    /\ rain' = NoRain /\ rain_60_min' = ZeroMins /\ rain_24_hr' = ZeroHrs
    /\ UNCHANGED <<clock, stamp, file>>

\* fopen fails: "fp < 0" does not notice NULL and fprintf is given it.
SaveFails == pc = "save" /\ Down

Crash == pc # "down" /\ Down

\* Mutant: what was saved today is taken to be of this hour.
RestoredToday(f, d) ==
    LET year  == f.stamp.year = d.year
        month == year /\ f.stamp.month = d.month
        day   == month /\ f.stamp.day = d.day
    IN  [hr     |-> IF day   THEN f.rain.hr     ELSE 0,
         day    |-> IF day   THEN f.rain.day    ELSE 0,
         month  |-> IF month THEN f.rain.month  ELSE 0,
         year   |-> IF year  THEN f.rain.year   ELSE 0,
         last60 |-> IF day   THEN f.rain.last60 ELSE 0,
         last24 |-> IF day   THEN f.rain.last24 ELSE 0]

\* read_rainfall at date d: each period is restored only if it and all longer
\* ones are those of the stamp.
Restored(f, d) ==
    LET year  == f.stamp.year = d.year
        month == year /\ f.stamp.month = d.month
        day   == month /\ f.stamp.day = d.day
        hour  == day /\ f.stamp.hour = d.hour
    IN  [hr     |-> IF hour  THEN f.rain.hr     ELSE 0,
         day    |-> IF day   THEN f.rain.day    ELSE 0,
         month  |-> IF month THEN f.rain.month  ELSE 0,
         year   |-> IF year  THEN f.rain.year   ELSE 0,
         last60 |-> IF hour  THEN f.rain.last60 ELSE 0,
         last24 |-> IF day   THEN f.rain.last24 ELSE 0]

\* With an empty file, cJSON_Delete is given an uninitialised pointer: the
\* program starts with no rain, as here, or does not start, as if this step
\* did not happen.
Restart ==
    /\ pc = "down"
    /\ rain' = IF file = Empty THEN NoRain ELSE Restored(file, Stamp(clock))
    /\ pc' = "idle"
    /\ UNCHANGED <<clock, rain_60_min, rain_24_hr, stamp, file>>

Tick ==
    /\ clock < Horizon
    /\ clock' = clock + 1
    /\ UNCHANGED <<pc, state, stamp, file>>
-----------------------------------------------------------------------------
(***************************************************************************)
(* The same steps with their history.  When broken, the log says nothing.  *)
(***************************************************************************)
VoidHistory ==
    /\ broken' = TRUE
    /\ log' = NoLog /\ lost' = FALSE /\ straddled' = FALSE /\ restarted' = FALSE

Report(r) ==
    /\ Accumulate(r)
    /\ reports < 2     \* bound
    /\ reports' = reports + 1
    /\ UNCHANGED <<saved, excused>>
    /\ IF reports = 1 \/ broken
       THEN VoidHistory
       ELSE /\ log' = [log EXCEPT ![clock] = r]
            /\ UNCHANGED <<lost, straddled, restarted, broken>>

Saved ==
    /\ SaveClose
    /\ saved' = TRUE
    /\ UNCHANGED <<log, reports, excused, lost, straddled, restarted, broken>>

End ==
    /\ Crash \/ SaveFails
    /\ excused' = TRUE
    /\ UNCHANGED <<reports, saved>>
    /\ IF pc # "idle" \/ broken
       THEN VoidHistory
       ELSE UNCHANGED <<log, lost, straddled, restarted, broken>>

Begin ==
    /\ Restart
    /\ restarted' = (~broken /\ (restarted \/ file # Empty))
    /\ UNCHANGED <<log, reports, saved, excused, lost, straddled, broken>>

Pass ==
    /\ Tick
    /\ reports' = 0
    /\ excused' = (pc = "down")
    /\ lost' = (lost \/ (~broken /\ ~excused /\ reports = 0))
    /\ straddled' = (straddled \/ (~broken /\ pc = "save"))
    /\ UNCHANGED <<log, saved, restarted, broken>>

Next ==
    \/ \E r \in Amounts : Report(r)
    \/ SaveOpen /\ UNCHANGED history
    \/ Saved
    \/ End
    \/ Begin
    \/ Pass

Spec == Init /\ [][Next]_vars
-----------------------------------------------------------------------------
(***************************************************************************)
(* Properties.                                                             *)
(***************************************************************************)
\* Every variable has a value of its type.
TypeOK ==
    /\ clock \in Start .. Horizon
    /\ pc \in {"down", "idle", "save", "write"}
    /\ rain \in Totals
    /\ rain_60_min \in [Minutes -> Nat]
    /\ rain_24_hr \in [Hours -> Nat]
    /\ stamp \in Stamps
    /\ file = Empty \/ file \in [stamp : Stamps, rain : Totals]
    /\ log \in [Start .. Horizon -> Nat]
    /\ reports \in 0 .. 2
    /\ {saved, excused, lost, straddled, restarted, broken} \subseteq BOOLEAN

\* A longer period never has less rain than a shorter one that it contains,
\* in memory and in the file, whatever reports are lost or doubled and
\* whenever the program dies and starts.
InOrder(t) == t.hr <= t.day /\ t.day <= t.month /\ t.month <= t.year
TotalsOrdered == InOrder(rain) /\ (file # Empty => InOrder(file.rain))

\* The totals as they may be sent: a report of this minute has been added.
Published == pc = "save" /\ reports = 1 /\ ~broken

\* The clock kept time with the saves, and no report was lost on the way.
Regular == ~lost /\ ~straddled

Logged(S) == SumFunctionOnSet(log, S)

\* The minutes so far of the hour, day, ... it is, given its length.
Current(length) ==
    {c \in Start .. clock : c \div length = clock \div length}

\* The last n minutes.
Last(n) == {c \in Start .. clock : c + n > clock}

\* Across restarts and down times of any length, the totals of the hour, the
\* day and the month are the sums of the reports received in them.
CurrentExact ==
    Published /\ Regular =>
        /\ rain.hr    = Logged(Current(MinsPerHour))
        /\ rain.day   = Logged(Current(MinsPerDay))
        /\ rain.month = Logged(Current(MinsPerMonth))

\* The rolling totals are those of the last 60 minutes, and of the hour it is
\* and the 23 before it, or less once the program was restarted: the arrays are
\* not saved, so they forget rain but never make any up.
RollingExact ==
    Published /\ Regular =>
        LET hour == Logged(Last(MinsPerHour))
            day  == Logged(Last(MinsPerDay - MinsPerHour + Date(clock).min + 1))
        IN  /\ rain.last60 <= hour /\ rain.last24 <= day
            /\ ~restarted => rain.last60 = hour /\ rain.last24 = day
-----------------------------------------------------------------------------
(***************************************************************************)
(* What comments say and the code does not do.                             *)
(***************************************************************************)

\* wfp-rainfall.c:72, "year", over the reset that never runs, and the key
\* "rain_current_year" at :117: the year's total is that of this year.
YearExact ==
    Published /\ Regular => rain.year = Logged(Current(MinsPerYear))

\* wfp-rainfall.c:48-49, "Save the accumulated rain values so that we can
\* recover from a restart": once something was saved, a program that is down
\* has something to recover from.
SaveSurvives == pc = "down" /\ saved => file # Empty
=============================================================================
