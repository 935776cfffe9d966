------------------------ MODULE ObservationsProofs ------------------------
(***************************************************************************)
(* Proofs about Observations, for all temperatures, speeds, calendars and  *)
(* tracking intervals.                                                     *)
(***************************************************************************)
EXTENDS Observations, TLAPS

\* A record has been published.
Published == earlier \/ signalled

\* From the first record on, an AIR packet has been seen since the last SKY
\* packet only if no SKY packet is waiting for one.
Waiting ==
    /\ "AIRDATA" \in st \/ Published => airDay # NoDay
    /\ "SKYDATA" \in st /\ Published => lag = 0

\* The high and low bracket the temperature that goes with them, or both are
\* still at the values they are reset to.
HighLowBracket ==
    \/ high = NoHigh /\ low = NoLow
    \/ low <= temperature /\ temperature <= high

Inv == TypeOK /\ HighLowBracket /\ GustRecent /\ DerivedRecent /\ Waiting /\ HighestUsed

\* What the high and low are after the check of the day.
LEMMA HighLowType ==
    ASSUME TypeOK, HighLowBracket
    PROVE  /\ {High, Low} \subseteq Temps \cup {NoHigh, NoLow}
           /\ \/ High = NoHigh /\ Low = NoLow
              \/ Low <= temperature /\ temperature <= High
BY DEF TypeOK, HighLowBracket, High, Low

\* Temperatures, speeds and what stands for none of them are integers.
LEMMA Numbers ==
    /\ Temps \cup {NoHigh, NoLow, 0} \subseteq Int
    /\ Speeds \cup {0} \subseteq Nat
    /\ \A t \in Temps : NoHigh < t /\ t < NoLow
BY TempsAssumption, SpeedsAssumption DEF NoHigh, NoLow

\* An AIR packet completes the record exactly when a SKY packet waits for it; a
\* SKY packet, only when an AIR packet does.
LEMMA CompleteRecord ==
    ASSUME st \subseteq Both
    PROVE  /\ st \cup {"AIRDATA"} = Both <=> "SKYDATA" \in st
           /\ st \cup {"SKYDATA"} = Both => "AIRDATA" \in st
<1>1. ASSUME st \cup {"AIRDATA"} = Both PROVE "SKYDATA" \in st
  <2>1. "SKYDATA" \in st \cup {"AIRDATA"}
    BY <1>1 DEF Both
  <2> QED
    BY <2>1
<1>2. ASSUME "SKYDATA" \in st PROVE st \cup {"AIRDATA"} = Both
  BY <1>2 DEF Both
<1>3. ASSUME st \cup {"SKYDATA"} = Both PROVE "AIRDATA" \in st
  <2>1. "AIRDATA" \in st \cup {"SKYDATA"}
    BY <1>3 DEF Both
  <2> QED
    BY <2>1
<1> QED
  BY <1>1, <1>2, <1>3

LEMMA HeardType == ASSUME TypeOK, Heard
                   PROVE  /\ {day', start', heard'} \subseteq 0 .. MaxDay
                          /\ silence' \in BOOLEAN /\ earlier' \in BOOLEAN
                          /\ earlier' => Published
BY DEF TypeOK, Heard, Published

LEMMA InvInit == Init => Inv
<1> SUFFICES ASSUME Init PROVE Inv
  OBVIOUS
<1>1. 0 \in 0 .. MaxDay /\ 0 \in 0 .. GustInterval /\ 0 \in 0 .. 2
  BY GustAssumption, DaysAssumption
<1>2. st = {} /\ signalled = FALSE /\ earlier = FALSE /\ age = 0 /\ interval = 0 /\ high = NoHigh /\ low = NoLow
  BY DEF Init
<1>3. TypeOK
  <2>1. st \subseteq Both /\ {signalled, silence, earlier} \subseteq BOOLEAN
    BY DEF Init
  <2>2. airDay \in 0 .. MaxDay \cup {NoDay} /\ lag \in 0 .. 2 /\ age \in Nat
    BY DEF Init
  <2> QED
    BY <1>1, <2>1, <2>2 DEF Init, TypeOK
<1> QED
  BY <1>1, <1>2, <1>3
  DEF Inv, HighLowBracket, GustRecent, DerivedRecent, Waiting, Published, HighestUsed

\* A gust report starts the age and the interval anew, or not, together.
LEMMA InvSky == ASSUME Inv, NEW s \in Speeds, Sky(s) PROVE Inv'
<1> USE DEF Inv
<1>1. /\ {high', low'} \subseteq Temps \cup {NoHigh, NoLow}
      /\ HighLowBracket'
  BY HighLowType DEF Sky, HighLowBracket
<1>2. /\ gustspeed' \in Speeds \cup {0} /\ strongest' \in Speeds \cup {0}
      /\ interval' \in 0 .. GustInterval /\ age' \in Nat /\ GustRecent'
  BY GustAssumption
  DEF Sky, Gust, GustOver, Larger, GustRecent, TypeOK
<1>3. /\ st' \subseteq Both /\ signalled' \in BOOLEAN /\ lag' \in {0, 2}
      /\ airDay' = airDay /\ (airDay # NoDay => lag' = 0)
  BY DEF Sky, Observed, Both, TypeOK
<1>4. TypeOK'
  BY <1>1, <1>2, <1>3, HeardType DEF Sky, TypeOK, Published
<1>5. HighestUsed'
  BY Numbers DEF Sky, Gust, GustOver, Larger, HighestUsed, TypeOK
<1>6. earlier' => Published
  BY HeardType DEF Sky
<1>7. signalled' => airDay # NoDay
  BY CompleteRecord DEF Sky, Observed, TypeOK, Waiting
<1>8. "AIRDATA" \in st' => "AIRDATA" \in st
  BY DEF Sky, Observed
<1>9. DerivedRecent' /\ Waiting'
  <2>1. Published' => airDay # NoDay
    BY <1>6, <1>7 DEF Published, Waiting
  <2>2. "AIRDATA" \in st' => airDay # NoDay
    BY <1>8 DEF Waiting
  <2> QED
    <3>1. airDay' = airDay /\ (airDay # NoDay => lag' = 0)
      BY <1>3
    <3>2. signalled' => lag' = 0
      BY <1>7, <3>1
    <3>3. Published' => lag' = 0
      BY <2>1, <3>1
    <3> QED
      BY <2>1, <2>2, <3>1, <3>2, <3>3 DEF DerivedRecent, Waiting
<1> QED
  BY <1>1, <1>2, <1>4, <1>5, <1>9

LEMMA InvWind == ASSUME Inv, NEW s \in Speeds, Wind(s) PROVE Inv'
<1> USE DEF Inv
<1>1. /\ {high', low'} \subseteq Temps \cup {NoHigh, NoLow}
      /\ HighLowBracket'
  BY HighLowType DEF Wind, HighLowBracket
<1>2. /\ gustspeed' \in Speeds \cup {0} /\ strongest' \in Speeds \cup {0}
      /\ interval' \in 0 .. GustInterval /\ age' \in Nat /\ GustRecent'
  BY GustAssumption
  DEF Wind, Gust, GustOver, Larger, GustRecent, TypeOK
<1>3. UNCHANGED <<st, lag, airDay>> /\ signalled' = FALSE /\ (earlier' => Published)
  BY HeardType DEF Wind
<1>4. TypeOK'
  BY <1>1, <1>2, <1>3, HeardType DEF Wind, TypeOK, Published
<1>5. HighestUsed'
  BY Numbers DEF Wind, Gust, GustOver, Larger, HighestUsed, TypeOK
<1> QED
  BY <1>1, <1>2, <1>3, <1>4, <1>5 DEF DerivedRecent, Waiting, Published

LEMMA InvAir == ASSUME Inv, NEW t \in Temps, Air(t) PROVE Inv'
<1> USE DEF Inv
<1>1. /\ {high', low'} \subseteq Temps \cup {NoHigh, NoLow}
      /\ low' <= t /\ t <= high'
  <2>1. high' = Larger(High, t) /\ low' = Smaller(Low, t) /\ t \in Int
    BY Numbers DEF Air
  <2>2. {High, Low} \subseteq Int
    BY HighLowType, Numbers
  <2>3. high' \in {High, t} /\ low' \in {Low, t}
    BY <2>1 DEF Larger, Smaller
  <2>4. low' <= t /\ t <= high'
    BY <2>1, <2>2 DEF Larger, Smaller
  <2> QED
    BY <2>3, <2>4, HighLowType
<1>2. HighLowBracket' /\ temperature' \in Temps
  BY <1>1 DEF Air, HighLowBracket
<1>3. UNCHANGED <<gustspeed, interval, age, strongest>>
  BY DEF Air, gustVars
<1>4. lag' = IF lag = 2 THEN 2 ELSE lag + 1
  BY DEF Air
<1>5. st' \subseteq Both /\ signalled' \in BOOLEAN
  BY DEF Air, Observed, Both, TypeOK
<1>6. DerivedRecent' /\ Waiting'
  <2>1. signalled' => "SKYDATA" \in st
    BY CompleteRecord DEF Air, Observed, TypeOK
  <2>2. "SKYDATA" \notin st'
    BY CompleteRecord DEF Air, Observed, TypeOK
  <2>3. airDay' # NoDay
    BY DaysAssumption DEF Air, TypeOK, NoDay
  <2>4. signalled' /\ earlier' => lag = 0
    BY <2>1, HeardType DEF Air, Waiting
  <2> QED
    BY <2>2, <2>3, <2>4, <1>4 DEF DerivedRecent, Waiting, Published
<1>7. {oldest', airDay'} \subseteq 0 .. MaxDay
  BY DEF Air, TypeOK
<1>8. TypeOK'
  BY <1>1, <1>2, <1>3, <1>4, <1>5, <1>7, HeardType DEF Air, TypeOK, Published
<1> QED
  BY <1>2, <1>3, <1>6, <1>8 DEF GustRecent, HighestUsed

LEMMA InvStep == Inv /\ [Next]_vars => Inv'
<1> SUFFICES ASSUME Inv, [Next]_vars PROVE Inv'
  OBVIOUS
<1>1. ASSUME NEW t \in Temps, Air(t) PROVE Inv'
  BY <1>1, InvAir
<1>2. ASSUME NEW s \in Speeds, Sky(s) PROVE Inv'
  BY <1>2, InvSky
<1>3. ASSUME NEW s \in Speeds, Wind(s) PROVE Inv'
  BY <1>3, InvWind
<1>4. CASE Other
  BY <1>4, HighLowType, HeardType
  DEF Inv, Other, gustVars, TypeOK, HighLowBracket, GustRecent, DerivedRecent, Waiting,
      Published, HighestUsed
<1>5. CASE Midnight
  BY <1>5, DaysAssumption DEF Inv, Midnight, dayVars, gustVars, TypeOK, HighLowBracket,
                              GustRecent, DerivedRecent, Waiting, Published, HighestUsed
<1>6. CASE UNCHANGED vars
  BY <1>6 DEF Inv, vars, dayVars, gustVars, TypeOK, HighLowBracket,
              GustRecent, DerivedRecent, Waiting, Published, HighestUsed
<1> QED
  BY <1>1, <1>2, <1>3, <1>4, <1>5, <1>6 DEF Next

LEMMA InvAlways == Spec => []Inv
BY InvInit, InvStep, PTL DEF Spec

-----------------------------------------------------------------------------
(***************************************************************************)
(* Which day the high and low are of.                                      *)
(***************************************************************************)

\* Packets come in the order of the days.
Ordered == airDay <= heard /\ heard <= day

\* After a packet the loop's start is a day that looks like today; if no silence
\* was long enough to confuse two days, it is today.
StartIsToday ==
    /\ heard = day => start % DaysPerMonth = day % DaysPerMonth
    /\ ~silence => start = heard

\* An AIR packet that waits for a SKY packet has left a high, unless the day has
\* turned since.
AirWaits == high = NoHigh /\ ("AIRDATA" \in st \/ signalled) => airDay < day

\* The oldest temperature in the high and low came after their reset.
OldestIsOfStart == ~silence /\ high # NoHigh => oldest = start

DaysInv == Ordered /\ StartIsToday /\ AirWaits /\ OldestIsOfStart

\* Two days less than a month apart look the same only if they are the same.
LEMMA SameDay ==
    ASSUME NEW a \in Nat, NEW b \in Nat, a <= b, b - a < DaysPerMonth,
           a % DaysPerMonth = b % DaysPerMonth
    PROVE  a = b
<1>1. DaysPerMonth \in Nat /\ DaysPerMonth > 0
  BY DaysAssumption
<1> DEFINE p == a \div DaysPerMonth
           q == b \div DaysPerMonth
<1>2. /\ p \in Int /\ q \in Int
      /\ a = DaysPerMonth * p + (a % DaysPerMonth)
      /\ b = DaysPerMonth * q + (b % DaysPerMonth)
      /\ a % DaysPerMonth \in Int
  BY <1>1
<1>3. b - a = DaysPerMonth * (q - p)
  <2> HIDE DEF p, q
  <2> QED
    BY <1>1, <1>2
<1>4. q - p = 0
  <2> HIDE DEF p, q
  <2> DEFINE k == q - p
  <2>1. k \in Int /\ DaysPerMonth * k >= 0 /\ DaysPerMonth * k < DaysPerMonth
    BY <1>2, <1>3
  <2> HIDE DEF k
  <2>2. k >= 0
    BY <2>1, <1>1
  <2>3. k < 1
    BY <2>1, <1>1
  <2>4. k = 0
    BY <2>1, <2>2, <2>3
  <2> QED
    BY <2>4 DEF k
<1>5. b - a = 0
  BY <1>1, <1>3, <1>4
<1> QED
  BY <1>5

LEMMA DaysInit == Init => DaysInv
BY DEF Init, DaysInv, Ordered, StartIsToday, AirWaits, OldestIsOfStart, NoDay

\* What every packet does about the day.
LEMMA HeardToday ==
    ASSUME TypeOK, DaysInv, Heard
    PROVE  /\ heard' = day /\ day' = day
           /\ StartIsToday'
           /\ NewDay => airDay < day
           /\ ~NewDay => start' = start
           /\ ~silence' => ~silence /\ start' = day
<1> USE DEF DaysInv
<1>1. heard' = day /\ day' = day /\ start' = IF NewDay THEN day ELSE start
  BY DEF Heard
<1>2. airDay \in Int /\ {heard, day, start} \subseteq Nat /\ DaysPerMonth \in Nat
  BY DaysAssumption DEF TypeOK, NoDay
<1>3. NewDay => heard # day
  BY DEF StartIsToday, NewDay
<1>4. NewDay => airDay < day
  BY <1>2, <1>3 DEF Ordered
<1>5. ASSUME ~silence' PROVE ~silence /\ start' = day
  <2>0. ~(silence \/ day - heard >= DaysPerMonth)
    BY <1>5 DEF Heard
  <2>1. ~silence /\ day - heard < DaysPerMonth
    BY <2>0, <1>2
  <2>2. start = heard
    BY <2>1 DEF StartIsToday
  <2>3. CASE ~NewDay
    BY <2>1, <2>2, <2>3, <1>1, <1>2, SameDay DEF NewDay, Ordered
  <2> QED
    BY <2>1, <2>3, <1>1
<1>6. start' % DaysPerMonth = day % DaysPerMonth
  BY <1>1 DEF NewDay
<1>7. StartIsToday'
  BY <1>1, <1>5, <1>6 DEF StartIsToday
<1> QED
  BY <1>1, <1>4, <1>5, <1>7

\* A packet that brings no temperature.
LEMMA DaysOther ==
    ASSUME TypeOK, DaysInv, Heard, high' = High, UNCHANGED <<oldest, airDay>>,
           "AIRDATA" \in st' \/ signalled' => "AIRDATA" \in st
    PROVE  DaysInv'
<1> USE DEF DaysInv
<1>1. airDay \in Int /\ {heard, day} \subseteq Nat
  BY DaysAssumption DEF TypeOK, NoDay
<1>2. Ordered'
  BY <1>1, HeardToday DEF Ordered
<1>3. AirWaits'
  BY HeardToday DEF AirWaits, High
<1>4. OldestIsOfStart'
  BY HeardToday DEF OldestIsOfStart, High
<1> QED
  BY <1>2, <1>3, <1>4, HeardToday

LEMMA DaysAir ==
    ASSUME Inv, DaysInv, NEW t \in Temps, Air(t)
    PROVE  DaysInv'
<1> USE DEF DaysInv
<1>1. TypeOK /\ Heard /\ airDay' = day /\ oldest' = IF High = NoHigh THEN day ELSE oldest
  BY DEF Inv, Air
<1>2. high' # NoHigh
  <2>1. high' = Larger(High, t) /\ t \in Int /\ NoHigh < t /\ NoHigh \in Int
    BY Numbers DEF Air
  <2>2. High \in Int
    BY HighLowType, Numbers DEF Inv
  <2> QED
    BY <2>1, <2>2 DEF Larger
<1>3. Ordered'
  BY <1>1, HeardToday DEF Ordered, TypeOK
<1>4. AirWaits'
  BY <1>2 DEF AirWaits
<1>5. OldestIsOfStart'
  BY <1>1, HeardToday DEF OldestIsOfStart, High
<1> QED
  BY <1>1, <1>3, <1>4, <1>5, HeardToday

LEMMA DaysStep == Inv /\ DaysInv /\ [Next]_vars => DaysInv'
<1> SUFFICES ASSUME Inv, DaysInv, [Next]_vars PROVE DaysInv'
  OBVIOUS
<1>0. TypeOK
  BY DEF Inv
<1>1. ASSUME NEW t \in Temps, Air(t) PROVE DaysInv'
  BY <1>1, DaysAir
<1>2. ASSUME NEW s \in Speeds, Sky(s) PROVE DaysInv'
  <2>1. ASSUME "AIRDATA" \in st' \/ signalled' PROVE "AIRDATA" \in st
    <3>1. /\ signalled' = (st \cup {"SKYDATA"} = Both)
          /\ st' = IF signalled' THEN {} ELSE st \cup {"SKYDATA"}
      BY <1>2 DEF Sky, Observed
    <3>2. CASE signalled'
      <4>1. st \cup {"SKYDATA"} = Both
        BY <3>1, <3>2
      <4>2. "AIRDATA" \in st \cup {"SKYDATA"}
        BY <4>1 DEF Both
      <4> QED
        BY <4>2
    <3>3. CASE ~signalled'
      BY <2>1, <3>1, <3>3
    <3> QED
      BY <3>2, <3>3
  <2> QED
    BY <1>0, <1>2, <2>1, DaysOther DEF Sky
<1>3. ASSUME NEW s \in Speeds, Wind(s) PROVE DaysInv'
  BY <1>0, <1>3, DaysOther DEF Wind
<1>4. CASE Other
  BY <1>0, <1>4, DaysOther DEF Other
<1>5. CASE Midnight
  <2>1. /\ day' = day + 1 /\ {day, heard} \subseteq Nat /\ airDay \in Int
        /\ UNCHANGED <<start, heard, airDay, high, oldest, silence>>
    BY <1>0, <1>5, DaysAssumption DEF Midnight, dayVars, TypeOK, NoDay
  <2> QED
    BY <2>1 DEF DaysInv, Ordered, StartIsToday, AirWaits, OldestIsOfStart
<1>6. CASE UNCHANGED vars
  BY <1>6 DEF vars, dayVars, DaysInv, Ordered, StartIsToday, AirWaits, OldestIsOfStart
<1> QED
  BY <1>1, <1>2, <1>3, <1>4, <1>5, <1>6 DEF Next

LEMMA DaysAlways == Spec => []DaysInv
BY InvAlways, DaysInit, DaysStep, PTL DEF Spec
-----------------------------------------------------------------------------

\* Every packet leaves the record of wfpublish.c with the types it declares.
THEOREM TypeCorrect == Spec => []TypeOK
BY InvAlways, PTL DEF Inv

\* The code counts only SKY packets (wfpublish.c:359-370), and restarts the
\* count from rapid wind packets too (:395-404): for every GUST_INTERVAL, the
\* gust is still no older than that many SKY packets.
THEOREM GustStaysRecent == Spec => []GustRecent
BY InvAlways, PTL DEF Inv

\* windchill and feelslike, computed on SKY packets from what AIR packets left
\* (wfpublish.c:355-356), are at most one AIR packet behind in every record main
\* lets the publish thread see (:187-192) but the first.
THEOREM DerivedStayRecent == Spec => []DerivedRecent
BY InvAlways, PTL DEF Inv

\* The high and low, reset by the loop (wfpublish.c:176-180) and raised and
\* lowered by the parser (:320-323), bracket the temperature or are reset.
THEOREM HighLowHold == Spec => []HighLowBracket
BY InvAlways, PTL DEF Inv

\* The tracking of the gust (wfpublish.c:359-370, :395-404) keeps the highest
\* speed since the last SKY packet, unless it has just started anew.
THEOREM HighestIsUsed == Spec => []HighestUsed
BY InvAlways, PTL DEF Inv

\* The loop resets the high and low for any packet (wfpublish.c:176-180), and the
\* record is published by the packet that completes it (:187-192): a high that is
\* no temperature is published only when the day turned between the two.
THEOREM ResetSeldomPublished == Spec => []ResetNotPublished
<1>1. Inv /\ DaysInv => ResetNotPublished
  BY DEF Inv, Waiting, Published, DaysInv, AirWaits, ResetNotPublished
<1> QED
  BY <1>1, InvAlways, DaysAlways, PTL

\* For every calendar, the comparison of days of the month (wfpublish.c:176)
\* keeps the high and low to the day of the last packet, while no silence lasts
\* a month.
THEOREM HighLowAreOfToday == Spec => []HighLowOfToday
<1>1. DaysInv => HighLowOfToday
  BY DEF DaysInv, OldestIsOfStart, StartIsToday, HighLowOfToday
<1> QED
  BY <1>1, DaysAlways, PTL
=============================================================================
