---------------------------- MODULE Observations ----------------------------
(***************************************************************************)
(* The main thread's loop over packets (wfpublish.c): the high and low of  *)
(* the day, the wind gust, the values derived from more than one packet,   *)
(* and when a record is complete enough to be published.  One action is    *)
(* one turn of the loop, parser included; that the publish thread reads    *)
(* the record while it is written is the subject of Publish.               *)
(***************************************************************************)
EXTENDS Integers

CONSTANTS
    Temps,        \* temperatures an AIR packet may report
    Speeds,       \* speeds a SKY or rapid wind packet may report
    GustInterval, \* GUST_INTERVAL
    DaysPerMonth, \* length of every month; the code compares days of the month
    MaxDay        \* bound: the last day considered

NoHigh == -100    \* what temperature_high and temperature_low are reset to
NoLow  == 150

ASSUME TempsAssumption  == Temps \subseteq NoHigh + 1 .. NoLow - 1
ASSUME SpeedsAssumption == Speeds \subseteq Nat
ASSUME GustAssumption   == GustInterval \in Nat
ASSUME DaysAssumption   == DaysPerMonth \in Nat \ {0} /\ MaxDay \in Nat

VARIABLES
    day,         \* today, counted from the program's start
    start,       \* the day the high and low were last reset
    temperature, high, low,
    gustspeed, interval,
    st,          \* what came in since the last publication
    signalled,   \* the last packet completed a record
    \* history, read by properties only
    heard,       \* the day of the last packet
    silence,     \* heard has been a month or more ago at some packet
    oldest,      \* the day of the oldest temperature in high and low
    airDay,      \* the day of the last AIR packet, or NoDay
    lag,         \* AIR packets since the one whose temperature windchill and
                 \* feelslike were computed from (0, 1, or 2 for more and for
                 \* a temperature of no AIR packet)
    earlier,     \* a record was published before the last packet
    age,         \* SKY packets since the one, or since the rapid wind packet,
                 \* that gave gustspeed
    strongest    \* the highest speed in the last SKY packet and after it

dayVars  == <<start, temperature, high, low, oldest, airDay>>
gustVars == <<gustspeed, interval, age>>
vars     == <<day, dayVars, gustVars, st, signalled, heard, silence, lag,
              earlier, strongest>>

NoDay == -1

Both == {"AIRDATA", "SKYDATA"}

Larger(a, b)  == IF a > b THEN a ELSE b
Smaller(a, b) == IF a < b THEN a ELSE b

Init ==
    /\ day = 0 /\ start = 0
    /\ temperature = 0 /\ high = NoHigh /\ low = NoLow
    /\ gustspeed = 0 /\ interval = 0
    /\ st = {} /\ signalled = FALSE
    /\ heard = 0 /\ silence = FALSE /\ oldest = 0 /\ airDay = NoDay
    /\ lag = 2 /\ earlier = FALSE
    /\ age = 0 /\ strongest = 0
-----------------------------------------------------------------------------
\* (Mutant: a day is new only if its number is higher.)
NewDayHigher == day % DaysPerMonth > start % DaysPerMonth

\* The loop sees that the day is not the one it started.
NewDay == day % DaysPerMonth # start % DaysPerMonth

\* (Mutant: the low is reset to 0.)
LowZero == IF NewDay THEN 0 ELSE low

High == IF NewDay THEN NoHigh ELSE high
Low  == IF NewDay THEN NoLow ELSE low

\* The part of a turn that is the same for every packet.
Heard ==
    /\ start' = IF NewDay THEN day ELSE start
    /\ heard' = day
    /\ silence' = (silence \/ day - heard >= DaysPerMonth)
    /\ earlier' = (earlier \/ signalled)
    /\ UNCHANGED day

\* (Mutants: a record is complete with a SKY packet alone; st is not reset.)
ObservedSky(flag) ==
    /\ signalled' = ("SKYDATA" \in st \cup {flag})
    /\ st' = IF signalled' THEN {} ELSE st \cup {flag}

ObservedForever(flag) ==
    /\ signalled' = (st \cup {flag} = Both)
    /\ st' = st \cup {flag}

\* st |= flag; a complete record is published and st starts again.
Observed(flag) ==
    /\ signalled' = (st \cup {flag} = Both)
    /\ st' = IF signalled' THEN {} ELSE st \cup {flag}

\* gustspeed after a report: anew when the tracking interval is over.
\* (Mutant: one packet later.)
GustOverLate == interval > GustInterval
GustOver == interval = GustInterval
\* (Mutant: the latest speed is used.)
GustLatest(speed) == gustspeed' = speed
Gust(speed) ==
    gustspeed' = IF GustOver THEN speed ELSE Larger(gustspeed, speed)

\* wfp_air_parse
Air(t) ==
    /\ Heard
    /\ temperature' = t
    /\ high' = Larger(High, t)
    /\ low' = Smaller(Low, t)
    /\ oldest' = IF High = NoHigh THEN day ELSE oldest
    /\ airDay' = day
    /\ lag' = IF lag = 2 THEN 2 ELSE lag + 1
    /\ Observed("AIRDATA")
    /\ UNCHANGED <<gustVars, strongest>>

\* wfp_sky_parse
Sky(speed) ==
    /\ Heard
    /\ high' = High /\ low' = Low
    /\ lag' = IF airDay = NoDay THEN 2 ELSE 0
    /\ Gust(speed)
    /\ interval' = IF GustOver THEN 0 ELSE interval + 1
    /\ age' = IF GustOver \/ speed > gustspeed THEN 0 ELSE age + 1
    /\ Observed("SKYDATA")
    /\ strongest' = speed
    /\ UNCHANGED <<temperature, oldest, airDay>>

\* wfp_wind_parse
Wind(speed) ==
    /\ Heard
    /\ high' = High /\ low' = Low
    /\ Gust(speed)
    /\ interval' = IF GustOver THEN 0 ELSE interval
    /\ age' = IF GustOver \/ speed > gustspeed THEN 0 ELSE age
    /\ signalled' = FALSE
    /\ strongest' = Larger(strongest, speed)
    /\ UNCHANGED <<temperature, oldest, airDay, lag, st>>

\* A packet that leaves the weather record alone; the day is still checked.
Other ==
    /\ Heard
    /\ high' = High /\ low' = Low
    /\ signalled' = FALSE
    /\ UNCHANGED <<temperature, oldest, airDay, lag, st, gustVars, strongest>>

Midnight ==
    /\ day < MaxDay
    /\ day' = day + 1
    /\ UNCHANGED <<dayVars, gustVars, st, signalled, heard, silence, lag,
                   earlier, strongest>>

Next ==
    \/ \E t \in Temps : Air(t)
    \/ \E s \in Speeds : Sky(s) \/ Wind(s)
    \/ Other
    \/ Midnight

Spec == Init /\ [][Next]_vars
-----------------------------------------------------------------------------
(***************************************************************************)
(* Properties.                                                             *)
(***************************************************************************)

\* Every variable has a value of its type.
TypeOK ==
    /\ {day, start, heard, oldest} \subseteq 0 .. MaxDay
    /\ airDay \in 0 .. MaxDay \cup {NoDay}
    /\ temperature \in Temps \cup {0}
    /\ {high, low} \subseteq Temps \cup {NoHigh, NoLow}
    /\ gustspeed \in Speeds \cup {0} /\ strongest \in Speeds \cup {0}
    /\ interval \in 0 .. GustInterval /\ age \in Nat
    /\ st \subseteq Both
    /\ {signalled, silence, earlier} \subseteq BOOLEAN
    /\ lag \in 0 .. 2

\* A record is published with a high and low that are no temperatures only if
\* its AIR packet came on a day before its SKY packet's.
ResetNotPublished ==
    signalled /\ high = NoHigh => airDay # NoDay /\ airDay < day

\* After a packet the high and low are of that packet's day, if no silence
\* lasted a month (and made two days look the same).
HighLowOfToday ==
    heard = day /\ ~silence /\ high # NoHigh => oldest = day

\* A published windchill or feelslike was computed from the published
\* temperature or from the one of the AIR packet before it, never an older.  The
\* first record is excepted: a SKY packet that comes before any AIR packet
\* computes them from the 0 that memset left.
DerivedRecent == signalled /\ earlier => lag <= 1

\* The gust came no more than GUST_INTERVAL SKY packets ago, although rapid wind
\* packets restart the count too.  (That the code counts packets is one reading
\* of three: the constant is 30 and is said to be "Seconds for gust tracking",
\* and where it is used, "over 10 intervals".)
GustRecent == age <= interval /\ interval <= GustInterval

\* A gust that is published is no less than any speed reported since the last
\* SKY packet, unless the tracking interval has just started anew, which a rapid
\* wind packet lower than the gust may do.
HighestUsed == gustspeed >= strongest \/ interval = 0
=============================================================================
