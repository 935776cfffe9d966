-------------------------- MODULE RainfallProofs --------------------------
(***************************************************************************)
(* Proofs about Rainfall, for every calendar and all amounts of rain: the  *)
(* totals are in order, and while no report is lost they are the sums of   *)
(* what was reported in their periods.                                     *)
(***************************************************************************)
EXTENDS Rainfall, Arithmetic

\* The four totals of clock periods are numbers, in order.
Sound(t) == {t.hr, t.day, t.month, t.year} \subseteq Nat /\ InOrder(t)

OrderInv == Sound(rain) /\ (file # Empty => Sound(file.rain))

LEMMA NoRainSound == Sound(NoRain)
BY DEF Sound, InOrder, NoRain

\* A day starts only when an hour does, and a month only when a day does; so
\* a shorter total starts anew whenever a longer one does.
LEMMA AddInOrder ==
    ASSUME NEW t, Sound(t), NEW r \in Nat, NEW d, NEW u,
           u.hr = Total(t.hr, HourStarts(d), r),
           u.day = Total(t.day, DayStarts(d), r),
           u.month = Total(t.month, MonthStarts(d), r),
           u.year = Total(t.year, YearStarts(d), r)
    PROVE  Sound(u)
BY DEF Sound, InOrder, Total, HourStarts, DayStarts, MonthStarts, YearStarts

\* A shorter total is restored only when every longer one is.
LEMMA RestoreInOrder ==
    ASSUME NEW f, Sound(f.rain), NEW d
    PROVE  Sound(Restored(f, d))
BY DEF Sound, InOrder, Restored

LEMMA OrderInit == Init => OrderInv
BY NoRainSound DEF Init, OrderInv

LEMMA OrderStep == OrderInv /\ [Next]_vars => OrderInv'
<1> SUFFICES ASSUME OrderInv, [Next]_vars PROVE OrderInv'
  OBVIOUS
<1> USE DEF OrderInv
<1>1. ASSUME NEW r \in Amounts, Accumulate(r) PROVE OrderInv'
  <2>1. r \in Nat
    BY AmountsAssumption
  <2>2. Sound(rain')
    <3>1. /\ rain'.hr = Total(rain.hr, HourStarts(Date(clock)), r)
          /\ rain'.day = Total(rain.day, DayStarts(Date(clock)), r)
          /\ rain'.month = Total(rain.month, MonthStarts(Date(clock)), r)
          /\ rain'.year = Total(rain.year, YearStarts(Date(clock)), r)
      BY <1>1 DEF Accumulate
    <3> QED
      BY <2>1, <3>1, AddInOrder
  <2> QED
    BY <2>2, <1>1 DEF Accumulate
<1>2. CASE SaveOpen
  BY <1>2 DEF SaveOpen, state
<1>3. CASE SaveClose
  BY <1>3 DEF SaveClose, state
<1>4. CASE Down
  BY <1>4, NoRainSound DEF Down
<1>5. CASE Restart
  BY <1>5, NoRainSound, RestoreInOrder DEF Restart
<1>6. CASE Tick
  BY <1>6 DEF Tick, state
<1>7. CASE UNCHANGED vars
  BY <1>7 DEF vars, state
<1> QED
  BY <1>1, <1>2, <1>3, <1>4, <1>5, <1>6, <1>7
  DEF Next, Report, Saved, End, Begin, Pass, Crash, SaveFails

\* accumulate_rain, save_rainfall and read_rainfall keep the totals in order
\* for every calendar: with reports lost or doubled, and with the program
\* killed anywhere, the middle of a save included.
THEOREM TotalsInOrder == Spec => []TotalsOrdered
<1>1. OrderInv => TotalsOrdered
  BY DEF OrderInv, Sound, TotalsOrdered
<1> QED
  BY <1>1, OrderInit, OrderStep, PTL DEF Spec
-----------------------------------------------------------------------------
(***************************************************************************)
(* The calendar.                                                           *)
(***************************************************************************)
LEMMA CalendarType ==
    /\ MinsPerHour \in Nat \ {0} /\ HoursPerDay \in Nat \ {0}
    /\ DaysPerMonth \in Nat \ {0} /\ MonthsPerYear \in Nat \ {0}
    /\ MinsPerDay \in Nat \ {0} /\ MinsPerMonth \in Nat \ {0}
    /\ MinsPerYear \in Nat \ {0}
<1>1. \A m \in Nat \ {0}, n \in Nat \ {0} : m * n \in Nat \ {0}
  OBVIOUS
<1>2. /\ MinsPerHour \in Nat \ {0} /\ HoursPerDay \in Nat \ {0}
      /\ DaysPerMonth \in Nat \ {0} /\ MonthsPerYear \in Nat \ {0}
  BY CalendarAssumption
<1>3. MinsPerDay \in Nat \ {0}
  BY <1>1, <1>2 DEF MinsPerDay
<1>4. MinsPerMonth \in Nat \ {0}
  BY <1>1, <1>2, <1>3 DEF MinsPerMonth
<1>5. MinsPerYear \in Nat \ {0}
  BY <1>1, <1>2, <1>4 DEF MinsPerYear
<1> QED
  BY <1>2, <1>3, <1>4, <1>5

\* Each unit is counted in the one below it.
LEMMA Units ==
    ASSUME NEW c \in Nat
    PROVE  /\ c \div MinsPerDay = (c \div MinsPerHour) \div HoursPerDay
           /\ c \div MinsPerMonth = (c \div MinsPerDay) \div DaysPerMonth
           /\ c \div MinsPerYear = (c \div MinsPerMonth) \div MonthsPerYear
           /\ c % MinsPerDay =
                MinsPerHour * ((c \div MinsPerHour) % HoursPerDay) + (c % MinsPerHour)
           /\ c % MinsPerMonth =
                MinsPerDay * ((c \div MinsPerDay) % DaysPerMonth) + (c % MinsPerDay)
<1>1. /\ c \div (MinsPerHour * HoursPerDay) = (c \div MinsPerHour) \div HoursPerDay
      /\ c % (MinsPerHour * HoursPerDay) =
           MinsPerHour * ((c \div MinsPerHour) % HoursPerDay) + (c % MinsPerHour)
  BY CalendarType, Nested, Zenon
<1>2. /\ c \div (MinsPerDay * DaysPerMonth) = (c \div MinsPerDay) \div DaysPerMonth
      /\ c % (MinsPerDay * DaysPerMonth) =
           MinsPerDay * ((c \div MinsPerDay) % DaysPerMonth) + (c % MinsPerDay)
  BY CalendarType, Nested, Zenon
<1>3. c \div (MinsPerMonth * MonthsPerYear) = (c \div MinsPerMonth) \div MonthsPerYear
  BY CalendarType, Nested, Zenon
<1>4. /\ MinsPerDay = MinsPerHour * HoursPerDay
      /\ MinsPerMonth = MinsPerDay * DaysPerMonth
      /\ MinsPerYear = MinsPerMonth * MonthsPerYear
  BY DEF MinsPerDay, MinsPerMonth, MinsPerYear
<1> QED
  BY <1>1, <1>2, <1>3, <1>4, Zenon

LEMMA DateType ==
    ASSUME NEW c \in Nat
    PROVE  /\ Date(c).min \in Minutes /\ Date(c).hour \in Hours
           /\ Stamp(c) \in Stamps
<1>1. /\ c % MinsPerHour \in 0 .. MinsPerHour - 1 /\ c \div MinsPerHour \in Nat
      /\ c \div MinsPerDay \in Nat /\ c \div MinsPerMonth \in Nat
      /\ c \div MinsPerYear \in Nat
  BY CalendarType, Division
<1>2. /\ (c \div MinsPerHour) % HoursPerDay \in 0 .. HoursPerDay - 1
      /\ (c \div MinsPerDay) % DaysPerMonth \in 0 .. DaysPerMonth - 1
      /\ (c \div MinsPerMonth) % MonthsPerYear \in 0 .. MonthsPerYear - 1
  BY CalendarType, <1>1, Division
<1>3. /\ (c \div MinsPerHour) % HoursPerDay \in Nat
      /\ ((c \div MinsPerDay) % DaysPerMonth) + 1 \in Nat
      /\ ((c \div MinsPerMonth) % MonthsPerYear) + 1 \in Nat
  BY CalendarType, <1>2
<1> QED
  BY <1>1, <1>2, <1>3 DEF Date, Stamp, Stamps, Minutes, Hours

\* What accumulate_rain tests: it is the first minute of the period.
LEMMA FirstMinutes ==
    ASSUME NEW c \in Nat
    PROVE  /\ HourStarts(Date(c)) <=> c % MinsPerHour = 0
           /\ DayStarts(Date(c)) <=> c % MinsPerDay = 0
           /\ MonthStarts(Date(c)) <=> c % MinsPerMonth = 0
<1> DEFINE min == c % MinsPerHour
           hour == (c \div MinsPerHour) % HoursPerDay
           mday == (c \div MinsPerDay) % DaysPerMonth
           ofDay == c % MinsPerDay
           ofMonth == c % MinsPerMonth
<1>1. min \in Nat /\ hour \in Nat /\ mday \in Nat /\ ofDay \in Nat
  <2>1. c \div MinsPerHour \in Nat /\ c \div MinsPerDay \in Nat
    BY CalendarType, Division
  <2>2. /\ min \in 0 .. MinsPerHour - 1 /\ hour \in 0 .. HoursPerDay - 1
        /\ mday \in 0 .. DaysPerMonth - 1 /\ ofDay \in 0 .. MinsPerDay - 1
    BY CalendarType, <2>1, Division
  <2> QED
    BY <2>2, CalendarType
<1>2. ofDay = MinsPerHour * hour + min /\ ofMonth = MinsPerDay * mday + ofDay
  BY Units
<1>3. Date(c).min = min /\ Date(c).hour = hour /\ Date(c).mday = mday + 1
  BY DEF Date
<1> HIDE DEF min, hour, mday, ofDay, ofMonth
<1>4. \A n \in Nat \ {0}, x \in Nat, y \in Nat : n * x + y = 0 <=> x = 0 /\ y = 0
  <2> TAKE n \in Nat \ {0}, x \in Nat, y \in Nat
  <2>1. n * x \in Nat
    OBVIOUS
  <2>2. CASE x = 0
    BY <2>2
  <2>3. CASE x # 0
    <3>1. n * x # 0
      BY <2>3
    <3> QED
      BY <2>1, <2>3, <3>1
  <2> QED
    BY <2>2, <2>3
<1>5. (ofDay = 0 <=> hour = 0 /\ min = 0) /\ (ofMonth = 0 <=> mday = 0 /\ ofDay = 0)
  BY <1>1, <1>2, <1>4, CalendarType
<1>6. (Date(c).mday = 1) <=> (mday = 0)
  BY <1>1, <1>3
<1> QED
  BY <1>3, <1>5, <1>6 DEF HourStarts, DayStarts, MonthStarts, min, ofDay, ofMonth

\* What read_rainfall tests: the stamp is of this month, day or hour.
LEMMA SamePeriods ==
    ASSUME NEW c \in Nat, NEW n \in Nat
    PROVE  LET s == Stamp(c)
               t == Stamp(n)
               month == s.year = t.year /\ s.month = t.month
               day == month /\ s.day = t.day
               hour == day /\ s.hour = t.hour
           IN  /\ month <=> c \div MinsPerMonth = n \div MinsPerMonth
               /\ day <=> c \div MinsPerDay = n \div MinsPerDay
               /\ hour <=> c \div MinsPerHour = n \div MinsPerHour
<1> DEFINE h(a) == a \div MinsPerHour
           d(a) == a \div MinsPerDay
           m(a) == a \div MinsPerMonth
<1>1. h(c) \in Nat /\ h(n) \in Nat /\ d(c) \in Nat /\ d(n) \in Nat /\ m(c) \in Nat /\ m(n) \in Nat
  BY CalendarType, Division
<1>2. \A a \in {c, n} :
         /\ Stamp(a).year = m(a) \div MonthsPerYear
         /\ Stamp(a).month = (m(a) % MonthsPerYear) + 1
         /\ Stamp(a).day = (d(a) % DaysPerMonth) + 1
         /\ Stamp(a).hour = h(a) % HoursPerDay
         /\ m(a) = d(a) \div DaysPerMonth
         /\ d(a) = h(a) \div HoursPerDay
  BY Units DEF Stamp, Date
<1> HIDE DEF h, d, m
<1>3. \A a \in {c, n} :
         /\ m(a) % MonthsPerYear \in Nat
         /\ d(a) % DaysPerMonth \in Nat
  <2>1. \A a \in {c, n} :
         /\ m(a) % MonthsPerYear \in 0 .. MonthsPerYear - 1
         /\ d(a) % DaysPerMonth \in 0 .. DaysPerMonth - 1
    BY <1>1, CalendarType, Division
  <2> QED
    BY <2>1, CalendarType
<1>4. m(c) = m(n) <=> Stamp(c).year = Stamp(n).year /\ Stamp(c).month = Stamp(n).month
  <2>1. Stamp(c).month = Stamp(n).month <=> m(c) % MonthsPerYear = m(n) % MonthsPerYear
    BY <1>2, <1>3
  <2> QED
    BY <1>1, <1>2, <2>1, CalendarType, SameParts
<1>5. d(c) = d(n) <=> m(c) = m(n) /\ Stamp(c).day = Stamp(n).day
  <2>1. Stamp(c).day = Stamp(n).day <=> d(c) % DaysPerMonth = d(n) % DaysPerMonth
    BY <1>2, <1>3
  <2> QED
    BY <1>1, <1>2, <2>1, CalendarType, SameParts
<1>6. h(c) = h(n) <=> d(c) = d(n) /\ Stamp(c).hour = Stamp(n).hour
  BY <1>1, <1>2, CalendarType, SameParts
<1> QED
  BY <1>4, <1>5, <1>6 DEF h, d, m
-----------------------------------------------------------------------------
(***************************************************************************)
(* The rain of a period in a log l.                                        *)
(***************************************************************************)
Span   == Start .. Horizon
Log    == [Span -> Nat]

\* The minutes of the period of minute c, up to c.
Until(length, c) == {d \in Start .. c : d \div length = c \div length}

\* l has no rain after minute c.
Quiet(l, c) == \A d \in Span : d > c => l[d] = 0

LEMMA SpanFinite ==
    ASSUME NEW l \in Log, NEW n \in Span, NEW S \in SUBSET (Start .. n)
    PROVE  IsFiniteSet(S) /\ Numbers(l, S) /\ S \subseteq Span
<1>1. Start \in Int /\ n \in Int /\ Start .. n \subseteq Span
  BY ClockAssumption DEF Span
<1>2. IsFiniteSet(S)
  BY <1>1, FS_Interval, FS_Subset
<1> QED
  BY <1>1, <1>2 DEF Numbers, Log

LEMMA SpanType == \A n \in Span : n \in Nat /\ n \in Start .. n /\ Start \in Nat
BY ClockAssumption DEF Span

\* A period that starts at n has only n so far.
LEMMA UntilFirst ==
    ASSUME NEW n \in Span, NEW length \in Nat \ {0}, n % length = 0
    PROVE  Until(length, n) = {n}
<1>1. n \in Nat /\ n \in Start .. n
  BY SpanType
<1>2. ASSUME NEW d \in Start .. n, d \div length = n \div length PROVE d = n
  <2> DEFINE q == n \div length
  <2>1. d \in Nat /\ d <= n
    BY <1>1, ClockAssumption
  <2>2. n = length * q + (n % length) /\ d = length * q + (d % length) /\ q \in Nat
    BY <1>1, <1>2, <2>1, Division
  <2>3. d % length \in 0 .. length - 1
    BY <2>1, Division
  <2> HIDE DEF q
  <2>4. length * q \in Nat
    BY <2>2
  <2> QED
    BY <2>1, <2>2, <2>3, <2>4
<1> QED
  BY <1>1, <1>2 DEF Until

\* The log with a report at n, and the sum with what it adds.
With(l, n, r) == [l EXCEPT ![n] = r]

LEMMA WithReport ==
    ASSUME NEW l \in Log, NEW n \in Span, NEW r \in Nat
    PROVE  /\ With(l, n, r) \in Log /\ With(l, n, r)[n] = r
           /\ \A y \in Span : y # n => With(l, n, r)[y] = l[y]
BY DEF Log, With

LEMMA SumReported ==
    ASSUME NEW l \in Log, NEW n \in Span, NEW r \in Nat, l[n] = 0,
           NEW S \in SUBSET (Start .. n), n \in S
    PROVE  SumFunctionOnSet(With(l, n, r), S) = r + SumFunctionOnSet(l, S)
<1> DEFINE g == With(l, n, r)
<1>1. IsFiniteSet(S) /\ Numbers(l, S) /\ S \subseteq Span
  BY SpanFinite
<1>2. g[n] = r /\ \A y \in Span : y # n => g[y] = l[y]
  BY WithReport
<1> HIDE DEF g
<1>3. g[n] = r + l[n] /\ \A y \in S : y # n => g[y] = l[y]
  BY <1>1, <1>2
<1>4. SumFunctionOnSet(g, S) = r + SumFunctionOnSet(l, S)
  BY <1>1, <1>3, SumChange, Zenon
<1> QED
  BY <1>4 DEF g

LEMMA SumUnreported ==
    ASSUME NEW l \in Log, NEW n \in Span, NEW r \in Nat,
           NEW S \in SUBSET (Start .. n), n \notin S
    PROVE  SumFunctionOnSet(With(l, n, r), S) = SumFunctionOnSet(l, S)
<1> DEFINE g == With(l, n, r)
<1>1. IsFiniteSet(S) /\ S \subseteq Span
  BY SpanFinite
<1>2. \A y \in S : g[y] = l[y]
  BY <1>1, WithReport
<1> HIDE DEF g
<1>3. SumFunctionOnSet(g, S) = SumFunctionOnSet(l, S)
  BY <1>1, <1>2, SumSame
<1> QED
  BY <1>3 DEF g

LEMMA SumOfReport ==
    ASSUME NEW l \in Log, NEW n \in Span, NEW r \in Nat
    PROVE  SumFunctionOnSet(With(l, n, r), {n}) = r
<1> DEFINE g == With(l, n, r)
<1>1. g \in Log /\ g[n] = r
  BY WithReport
<1> HIDE DEF g
<1>2. {n} \in SUBSET (Start .. n)
  BY SpanType
<1>3. IsFiniteSet({n}) /\ Numbers(g, {n})
  BY <1>1, <1>2, SpanFinite
<1>4. n \in {n} /\ {n} \ {n} = {}
  OBVIOUS
<1>5. SumFunctionOnSet(g, {n}) = g[n] + SumFunctionOnSet(g, {n} \ {n})
  BY <1>3, <1>4, SumRemove
<1>6. SumFunctionOnSet(g, {n} \ {n}) = 0
  BY <1>4, SumEmpty
<1>7. SumFunctionOnSet(g, {n}) = r
  BY <1>1, <1>5, <1>6
<1> QED
  BY <1>7 DEF g

\* What Total makes of a period's sum is its sum with the report.
LEMMA TotalReported ==
    ASSUME NEW l \in Log, NEW n \in Span, NEW r \in Nat, l[n] = 0,
           NEW length \in Nat \ {0}, NEW anew, NEW old,
           anew <=> n % length = 0,
           old = SumFunctionOnSet(l, Until(length, n)) \/ n % length = 0
    PROVE  Total(old, anew, r) = SumFunctionOnSet(With(l, n, r), Until(length, n))
<1>1. Until(length, n) \in SUBSET (Start .. n) /\ n \in Until(length, n)
  BY SpanType DEF Until
<1>2. CASE n % length = 0
  <2>1. Until(length, n) = {n}
    BY <1>2, UntilFirst
  <2>2. SumFunctionOnSet(With(l, n, r), {n}) = r
    BY SumOfReport
  <2> QED
    BY <1>2, <2>1, <2>2 DEF Total
<1>3. CASE n % length # 0
  <2>1. SumFunctionOnSet(With(l, n, r), Until(length, n))
            = r + SumFunctionOnSet(l, Until(length, n))
    BY <1>1, SumReported, Zenon
  <2>2. SumFunctionOnSet(l, Until(length, n)) \in Nat
    BY <1>1, SpanFinite, SumType
  <2>3. old = SumFunctionOnSet(l, Until(length, n)) /\ Total(old, anew, r) = old + r
    BY <1>3 DEF Total
  <2> QED
    BY <2>1, <2>2, <2>3
<1> QED
  BY <1>2, <1>3

\* The sum of a period stays while no rain is reported, and a period in which
\* none was is without.
LEMMA SumLater ==
    ASSUME NEW l \in Log, NEW n \in Span, NEW c \in Start .. n, Quiet(l, c),
           NEW length \in Nat \ {0}
    PROVE  SumFunctionOnSet(l, Until(length, n)) =
               IF c \div length = n \div length
               THEN SumFunctionOnSet(l, Until(length, c)) ELSE 0
<1> DEFINE S == Until(length, n)
           P == Until(length, c)
<1>1. S \in SUBSET (Start .. n)
  BY DEF Until
<1>2. IsFiniteSet(S) /\ Numbers(l, S) /\ S \subseteq Span
  BY <1>1, SpanFinite
<1>3. n \in Nat /\ c \in Nat /\ c <= n /\ Start \in Nat
  BY SpanType, ClockAssumption
<1>4. CASE c \div length = n \div length
  <2>1. S \cap P = P
    BY <1>3, <1>4 DEF Until
  <2>2. \A x \in S : x \notin P => l[x] = 0
    <3> SUFFICES ASSUME NEW x \in S, x \notin P PROVE l[x] = 0
      OBVIOUS
    <3>1. x \in Span /\ x > c
      BY <1>2, <1>3, <1>4 DEF Until
    <3> QED
      BY <3>1 DEF Quiet
  <2> HIDE DEF S, P
  <2>3. SumFunctionOnSet(l, S) = SumFunctionOnSet(l, S \cap P)
    BY <1>2, <2>2, SumExtend
  <2> QED
    BY <1>4, <2>1, <2>3 DEF S, P
<1>5. CASE c \div length # n \div length
  <2>1. \A x \in S : l[x] = 0
    <3> SUFFICES ASSUME NEW x \in S PROVE l[x] = 0
      OBVIOUS
    <3>1. x \in Span /\ x \in Nat /\ x <= n /\ x \div length = n \div length
      BY <1>2, <1>3 DEF Until
    <3>2. ~(x <= c)
      <4> SUFFICES ASSUME x <= c PROVE FALSE
        OBVIOUS
      <4>1. x \div length <= c \div length /\ c \div length <= n \div length
        BY <1>3, <3>1, Ordered
      <4>2. c \div length \in Nat /\ n \div length \in Nat
        BY <1>3, Division
      <4> QED
        BY <1>5, <3>1, <4>1, <4>2
    <3> QED
      BY <1>3, <3>1, <3>2 DEF Quiet
  <2> HIDE DEF S
  <2> QED
    BY <1>2, <1>5, <2>1, SumZero DEF S
<1> QED
  BY <1>4, <1>5

\* Totals t are those of minute c.
Holds(l, t, c) ==
    /\ t.hr = SumFunctionOnSet(l, Until(MinsPerHour, c))
    /\ t.day = SumFunctionOnSet(l, Until(MinsPerDay, c))
    /\ t.month = SumFunctionOnSet(l, Until(MinsPerMonth, c))

\* What was written at minute c of totals of c is read at n as totals of n.
LEMMA Recovered ==
    ASSUME NEW l \in Log, NEW n \in Span, NEW c \in Start .. n, Quiet(l, c),
           NEW f, f.stamp = Stamp(c), Holds(l, f.rain, c)
    PROVE  Holds(l, Restored(f, Stamp(n)), n)
<1> DEFINE u == Restored(f, Stamp(n))
<1>1. n \in Nat /\ c \in Nat
  BY SpanType, ClockAssumption
<1>2. /\ u.month = IF c \div MinsPerMonth = n \div MinsPerMonth THEN f.rain.month ELSE 0
      /\ u.day = IF c \div MinsPerDay = n \div MinsPerDay THEN f.rain.day ELSE 0
      /\ u.hr = IF c \div MinsPerHour = n \div MinsPerHour THEN f.rain.hr ELSE 0
  BY <1>1, SamePeriods DEF Restored
<1> HIDE DEF u
<1> QED
  BY <1>2, CalendarType, SumLater DEF Holds, u
-----------------------------------------------------------------------------
(***************************************************************************)
(* The slots of the rolling totals.                                        *)
(***************************************************************************)
LastHour(n)  == {d \in Start .. n : d + MinsPerHour > n}
LastHours(n) == {d \in Start .. n : d \div MinsPerHour + HoursPerDay > n \div MinsPerHour}

\* The minutes that slot m of rain_60_min and slot h of rain_24_hr stand for.
MinuteSlot(n, m) == {d \in LastHour(n) : d % MinsPerHour = m}
HourSlot(n, h)   == {d \in LastHours(n) : (d \div MinsPerHour) % HoursPerDay = h}

LEMMA SlotSets ==
    ASSUME NEW n \in Span, NEW m, NEW h
    PROVE  MinuteSlot(n, m) \in SUBSET (Start .. n) /\ HourSlot(n, h) \in SUBSET (Start .. n)
BY DEF MinuteSlot, HourSlot, LastHour, LastHours

\* The slots a report is put into: that of the minute has it alone, that of
\* the hour has the hour so far.
LEMMA SlotsOfNow ==
    ASSUME NEW n \in Span
    PROVE  /\ MinuteSlot(n, n % MinsPerHour) = {n}
           /\ HourSlot(n, (n \div MinsPerHour) % HoursPerDay) = Until(MinsPerHour, n)
<1>1. n \in Nat /\ n \in Start .. n /\ Start \in Nat
  BY SpanType
<1>2. ASSUME NEW d \in Start .. n, d + MinsPerHour > n, d % MinsPerHour = n % MinsPerHour
      PROVE  d = n
  <2>1. d \in Nat /\ d <= n /\ n < d + MinsPerHour
    BY <1>1, <1>2, CalendarType
  <2> QED
    BY <1>1, <1>2, <2>1, CalendarType, Apart
<1>3. ASSUME NEW d \in Start .. n,
             d \div MinsPerHour + HoursPerDay > n \div MinsPerHour,
             (d \div MinsPerHour) % HoursPerDay = (n \div MinsPerHour) % HoursPerDay
      PROVE  d \div MinsPerHour = n \div MinsPerHour
  <2> DEFINE p == d \div MinsPerHour
             q == n \div MinsPerHour
  <2>1. p \in Nat /\ q \in Nat /\ p <= q
    BY <1>1, CalendarType, Division, Ordered
  <2>2. q < p + HoursPerDay /\ p % HoursPerDay = q % HoursPerDay
    BY <1>3, <2>1, CalendarType
  <2> HIDE DEF p, q
  <2>3. p = q
    BY <2>1, <2>2, CalendarType, Apart
  <2> QED
    BY <2>3 DEF p, q
<1>4. MinuteSlot(n, n % MinsPerHour) = {n}
  <2>1. n + MinsPerHour > n
    BY <1>1, CalendarType
  <2> QED
    BY <1>1, <1>2, <2>1 DEF MinuteSlot, LastHour
<1>5. HourSlot(n, (n \div MinsPerHour) % HoursPerDay) = Until(MinsPerHour, n)
  <2> DEFINE q == n \div MinsPerHour
  <2>1. q + HoursPerDay > q
    <3>1. q \in Nat
      BY <1>1, CalendarType, Division
    <3> HIDE DEF q
    <3> QED
      BY <3>1, CalendarType
  <2> QED
    BY <1>3, <2>1 DEF HourSlot, LastHours, Until
<1> QED
  BY <1>4, <1>5

\* In the next minute only the slots of that minute stand for something else;
\* that of the hour does when the hour is new.
LEMMA SlotsLater ==
    ASSUME NEW l \in Log, NEW n \in Span, n + 1 \in Span, Quiet(l, n)
    PROVE  /\ \A m \in Minutes : m # (n + 1) % MinsPerHour =>
                  MinuteSlot(n + 1, m) = MinuteSlot(n, m)
           /\ \A h \in Hours :
                  (n + 1) % MinsPerHour # 0 \/ h # ((n + 1) \div MinsPerHour) % HoursPerDay
                  => SumFunctionOnSet(l, HourSlot(n + 1, h)) = SumFunctionOnSet(l, HourSlot(n, h))
<1>1. n \in Nat /\ n + 1 \in Nat /\ Start \in Nat /\ Start <= n
  BY SpanType
<1>2. ASSUME NEW m \in Minutes, m # (n + 1) % MinsPerHour
      PROVE  MinuteSlot(n + 1, m) = MinuteSlot(n, m)
  <2>1. ASSUME NEW d \in Start .. n, d + MinsPerHour > n, ~(d + MinsPerHour > n + 1)
        PROVE  d % MinsPerHour = (n + 1) % MinsPerHour
    <3>1. d \in Nat /\ n + 1 = d + MinsPerHour
      BY <1>1, <2>1, CalendarType
    <3> QED
      BY <3>1, CalendarType, Turn
  <2>2. \A d \in Start .. (n + 1) : d \in Start .. n \/ d = n + 1
    BY <1>1
  <2>3. \A d \in Start .. n : d \in Start .. (n + 1) /\ (d + MinsPerHour > n + 1 => d + MinsPerHour > n)
    BY <1>1, CalendarType
  <2> QED
    BY <1>2, <2>1, <2>2, <2>3 DEF MinuteSlot, LastHour
<1>3. ASSUME NEW h \in Hours, (n + 1) % MinsPerHour # 0
      PROVE  SumFunctionOnSet(l, HourSlot(n + 1, h)) = SumFunctionOnSet(l, HourSlot(n, h))
  <2> DEFINE S == HourSlot(n + 1, h)
             P == HourSlot(n, h)
  <2>1. (n + 1) \div MinsPerHour = n \div MinsPerHour
    BY <1>1, <1>3, CalendarType, Successor
  <2>2. S \cap P = P
    BY <1>1, <2>1 DEF HourSlot, LastHours
  <2>3. \A x \in S : x \notin P => l[x] = 0
    <3> SUFFICES ASSUME NEW x \in S, x \notin P PROVE l[x] = 0
      OBVIOUS
    <3>1. x \in Start .. (n + 1) /\ x \notin Start .. n
      BY <2>1 DEF HourSlot, LastHours
    <3>2. x \in Span /\ x > n
      BY <1>1, <3>1, ClockAssumption DEF Span
    <3> QED
      BY <3>2 DEF Quiet
  <2>4. IsFiniteSet(S) /\ Numbers(l, S)
    BY SlotSets, SpanFinite
  <2> HIDE DEF S, P
  <2>5. SumFunctionOnSet(l, S) = SumFunctionOnSet(l, S \cap P)
    BY <2>3, <2>4, SumExtend
  <2> QED
    BY <2>2, <2>5 DEF S, P
<1>4. ASSUME NEW h \in Hours, (n + 1) % MinsPerHour = 0,
             h # ((n + 1) \div MinsPerHour) % HoursPerDay
      PROVE  HourSlot(n + 1, h) = HourSlot(n, h)
  <2> DEFINE q == n \div MinsPerHour
  <2>1. (n + 1) \div MinsPerHour = q + 1 /\ q \in Nat
    BY <1>1, <1>4, CalendarType, Successor, Division
  <2>2. \A d \in Start .. n : d \div MinsPerHour \in Nat
    BY <1>1, CalendarType, Division
  <2>3. ASSUME NEW d \in Start .. n, d \div MinsPerHour + HoursPerDay > q,
               ~(d \div MinsPerHour + HoursPerDay > q + 1)
        PROVE  (d \div MinsPerHour) % HoursPerDay # h
    <3> DEFINE p == d \div MinsPerHour
    <3>1. p \in Nat /\ p + HoursPerDay > q /\ ~(p + HoursPerDay > q + 1)
      BY <2>2, <2>3
    <3> HIDE DEF p, q
    <3>2. q + 1 = p + HoursPerDay
      BY <2>1, <3>1, CalendarType
    <3>3. p % HoursPerDay = (p + HoursPerDay) % HoursPerDay
      BY <3>1, CalendarType, Turn
    <3> QED
      BY <1>4, <2>1, <3>2, <3>3 DEF p
  <2>4. \A d \in Start .. (n + 1) : d \in Start .. n \/ d = n + 1
    BY <1>1
  <2>5. \A d \in Start .. n : /\ d \in Start .. (n + 1)
                              /\ d \div MinsPerHour + HoursPerDay > q + 1
                                 => d \div MinsPerHour + HoursPerDay > q
    <3>1. \A d \in Start .. n : d \in Start .. (n + 1)
      BY <1>1
    <3>2. \A x \in Nat : x + HoursPerDay > q + 1 => x + HoursPerDay > q
      <4> HIDE DEF q
      <4> QED
        BY <2>1, CalendarType
    <3> QED
      BY <2>2, <3>1, <3>2
  <2> HIDE DEF q
  <2>6. \A d \in LastHours(n) : (d \div MinsPerHour) % HoursPerDay = h => d \in LastHours(n + 1)
    BY <2>1, <2>3, <2>5 DEF LastHours, q
  <2>7. \A d \in LastHours(n + 1) : (d \div MinsPerHour) % HoursPerDay = h => d \in LastHours(n)
    BY <1>4, <2>1, <2>4, <2>5 DEF LastHours, q
  <2> QED
    BY <2>6, <2>7 DEF HourSlot
<1> QED
  BY <1>2, <1>3, <1>4

\* What the slots should hold.
InMinutes(l, n) == [m \in Minutes |-> SumFunctionOnSet(l, MinuteSlot(n, m))]
InHours(l, n)   == [h \in Hours |-> SumFunctionOnSet(l, HourSlot(n, h))]

\* The slots together stand for the last hour and the last hours.
LEMMA SlotsTogether ==
    ASSUME NEW l \in Log, NEW n \in Span
    PROVE  /\ SumFunctionOnSet(InMinutes(l, n), Minutes) = SumFunctionOnSet(l, LastHour(n))
           /\ SumFunctionOnSet(InHours(l, n), Hours) = SumFunctionOnSet(l, LastHours(n))
<1> DEFINE S == LastHour(n)
           T == LastHours(n)
           j == [d \in S |-> d % MinsPerHour]
           k == [d \in T |-> (d \div MinsPerHour) % HoursPerDay]
           a == InMinutes(l, n)
           b == InHours(l, n)
<1>1. S \in SUBSET (Start .. n) /\ T \in SUBSET (Start .. n)
  BY DEF LastHour, LastHours
<1>2. IsFiniteSet(S) /\ Numbers(l, S) /\ IsFiniteSet(T) /\ Numbers(l, T)
  BY <1>1, SpanFinite
<1>3. IsFiniteSet(Minutes) /\ IsFiniteSet(Hours)
  BY FS_Interval, CalendarType DEF Minutes, Hours
<1>4. \A d \in Start .. n : /\ d % MinsPerHour \in Minutes
                            /\ (d \div MinsPerHour) % HoursPerDay \in Hours
  <2> TAKE d \in Start .. n
  <2>1. d \in Nat
    BY SpanType
  <2>2. d \div MinsPerHour \in Nat
    BY <2>1, CalendarType, Division
  <2> QED
    BY <2>1, <2>2, CalendarType, Division DEF Minutes, Hours
<1>5. j \in [S -> Minutes] /\ k \in [T -> Hours]
  BY <1>1, <1>4
<1>6. \A m : Part(j, S, m) = MinuteSlot(n, m)
  BY DEF Part, MinuteSlot
<1>7. \A h : Part(k, T, h) = HourSlot(n, h)
  BY DEF Part, HourSlot
<1> HIDE DEF S, T, j, k, a, b
<1>8. SumFunctionOnSet(a, Minutes) = SumFunctionOnSet(l, S)
  <2>1. \A m \in Minutes : a[m] = SumFunctionOnSet(l, Part(j, S, m))
    BY <1>6 DEF a, InMinutes
  <2> QED
    BY <1>2, <1>3, <1>5, <2>1, SumParts
<1>9. SumFunctionOnSet(b, Hours) = SumFunctionOnSet(l, T)
  <2>1. \A h \in Hours : b[h] = SumFunctionOnSet(l, Part(k, T, h))
    BY <1>7 DEF b, InHours
  <2> QED
    BY <1>2, <1>3, <1>5, <2>1, SumParts
<1> QED
  BY <1>8, <1>9 DEF S, T, a, b

\* The last hours are so many minutes.
LEMMA LastMinutes ==
    ASSUME NEW n \in Span
    PROVE  LastHours(n) = {d \in Start .. n :
               d + (MinsPerDay - MinsPerHour + Date(n).min + 1) > n}
<1> SUFFICES ASSUME NEW d \in Start .. n
             PROVE  d \div MinsPerHour + HoursPerDay > n \div MinsPerHour <=>
                    d + (MinsPerDay - MinsPerHour + Date(n).min + 1) > n
  BY DEF LastHours
<1> DEFINE p == d \div MinsPerHour
           q == n \div MinsPerHour
           m == n % MinsPerHour
           x == q - HoursPerDay + 1
<1>1. n \in Nat /\ d \in Nat
  BY SpanType
<1>2. n = MinsPerHour * q + m /\ q \in Nat /\ p \in Nat /\ m \in Nat
  <2>1. n = MinsPerHour * q + m /\ q \in Nat /\ p \in Nat /\ m \in 0 .. MinsPerHour - 1
    BY <1>1, CalendarType, Division
  <2> HIDE DEF m
  <2> QED
    BY <2>1, CalendarType
<1>3. d >= MinsPerHour * x <=> p >= x
  <2>1. x \in Int
    BY <1>2, CalendarType
  <2> QED
    BY <1>1, <2>1, CalendarType, Reaches
<1>4. Date(n).min = m
  BY DEF Date
<1> HIDE DEF p, q, m
<1>5. MinsPerHour * x = MinsPerHour * q - MinsPerDay + MinsPerHour
  BY <1>2, CalendarType DEF MinsPerDay
<1> HIDE DEF x
<1>6. d >= MinsPerHour * x <=> d + (MinsPerDay - MinsPerHour + m + 1) > n
  <2>1. MinsPerHour * q \in Nat
    BY <1>2, CalendarType
  <2> QED
    BY <1>1, <1>2, <1>5, <2>1, CalendarType
<1>7. p >= x <=> p + HoursPerDay > q
  BY <1>2, CalendarType DEF x
<1> QED
  BY <1>3, <1>4, <1>6, <1>7 DEF p, q
-----------------------------------------------------------------------------
(***************************************************************************)
(* Types.                                                                  *)
(***************************************************************************)
LEMMA ArraySum ==
    ASSUME NEW a
    PROVE  /\ a \in [Minutes -> Nat] => SumFunction(a) \in Nat
           /\ a \in [Hours -> Nat] => SumFunction(a) \in Nat
<1>1. IsFiniteSet(Minutes) /\ IsFiniteSet(Hours)
  BY FS_Interval, CalendarType DEF Minutes, Hours
<1>2. ASSUME NEW S, IsFiniteSet(S), a \in [S -> Nat] PROVE SumFunction(a) \in Nat
  <2>1. DOMAIN a = S /\ Numbers(a, S)
    BY <1>2 DEF Numbers
  <2>2. SumFunction(a) = SumFunctionOnSet(a, S)
    BY <2>1 DEF SumFunction, SumFunctionOnSet, FoldFunction
  <2> QED
    BY <1>2, <2>1, <2>2, SumType
<1> QED
  BY <1>1, <1>2

LEMMA RestoredType ==
    ASSUME NEW f, f.rain \in Totals, NEW d PROVE Restored(f, d) \in Totals
BY DEF Restored, Totals

LEMMA TypeInit == Init => TypeOK
<1> SUFFICES ASSUME Init PROVE TypeOK
  OBVIOUS
<1>1. Start \in Start .. Horizon /\ Stamp(Start) \in Stamps
  BY ClockAssumption, DateType
<1>2. /\ NoRain \in Totals /\ ZeroMins \in [Minutes -> Nat] /\ ZeroHrs \in [Hours -> Nat]
      /\ NoLog \in [Start .. Horizon -> Nat]
  BY DEF NoRain, Totals, ZeroMins, ZeroHrs, NoLog
<1>3. log \in [Start .. Horizon -> Nat] /\ reports \in 0 .. 2 /\ clock \in Start .. Horizon
  BY <1>1, <1>2 DEF Init
<1>4. {saved, excused, lost, straddled, restarted, broken} \subseteq BOOLEAN
  BY DEF Init
<1>5. /\ pc \in {"down", "idle", "save", "write"} /\ rain \in Totals /\ stamp \in Stamps
      /\ rain_60_min \in [Minutes -> Nat] /\ rain_24_hr \in [Hours -> Nat] /\ file = Empty
  BY <1>1, <1>2 DEF Init
<1> QED
  BY <1>3, <1>4, <1>5 DEF TypeOK

LEMMA TypeStep == TypeOK /\ [Next]_vars => TypeOK'
<1> SUFFICES ASSUME TypeOK, [Next]_vars PROVE TypeOK'
  OBVIOUS
<1>1. clock \in Nat
  BY ClockAssumption DEF TypeOK
<1>2. /\ NoRain \in Totals /\ ZeroMins \in [Minutes -> Nat] /\ ZeroHrs \in [Hours -> Nat]
      /\ NoLog \in [Start .. Horizon -> Nat]
  BY DEF NoRain, Totals, ZeroMins, ZeroHrs, NoLog
<1>3. ASSUME NEW r \in Amounts, Report(r) PROVE TypeOK'
  <2>1. r \in Nat
    BY AmountsAssumption
  <2> DEFINE d == Date(clock)
             hr == Total(rain.hr, HourStarts(d), r)
  <2>2. d.min \in Minutes /\ d.hour \in Hours
    BY <1>1, DateType
  <2>3. \A anew : \A old \in Nat : Total(old, anew, r) \in Nat
    BY <2>1 DEF Total
  <2>4. /\ rain_60_min' = [rain_60_min EXCEPT ![d.min] = r]
        /\ rain_24_hr' = [rain_24_hr EXCEPT ![d.hour] = hr]
        /\ rain' = [hr     |-> hr,
                    day    |-> Total(rain.day, DayStarts(d), r),
                    month  |-> Total(rain.month, MonthStarts(d), r),
                    year   |-> Total(rain.year, YearStarts(d), r),
                    last60 |-> SumFunction(rain_60_min'),
                    last24 |-> SumFunction(rain_24_hr')]
        /\ pc' = "save" /\ clock' = clock /\ stamp' = stamp /\ file' = file
    BY <1>3 DEF Report, Accumulate
  <2>5. rain.hr \in Nat /\ rain.day \in Nat /\ rain.month \in Nat /\ rain.year \in Nat
    BY DEF TypeOK, Totals
  <2> HIDE DEF d
  <2>6. hr \in Nat
    BY <2>3, <2>5
  <2> HIDE DEF hr
  <2>7. rain_60_min' \in [Minutes -> Nat] /\ rain_24_hr' \in [Hours -> Nat]
    BY <2>1, <2>4, <2>6 DEF TypeOK
  <2>8. rain' \in Totals
    <3>1. SumFunction(rain_60_min') \in Nat /\ SumFunction(rain_24_hr') \in Nat
      BY <2>7, ArraySum
    <3>2. /\ Total(rain.day, DayStarts(d), r) \in Nat
          /\ Total(rain.month, MonthStarts(d), r) \in Nat
          /\ Total(rain.year, YearStarts(d), r) \in Nat
      BY <2>3, <2>5
    <3> QED
      BY <2>4, <2>6, <3>1, <3>2 DEF Totals
  <2>9. /\ log' \in [Start .. Horizon -> Nat] /\ reports' \in 0 .. 2
        /\ {saved', excused', lost', straddled', restarted', broken'} \subseteq BOOLEAN
    <3>1. reports' \in 0 .. 2 /\ saved' = saved /\ excused' = excused
      BY <1>3 DEF Report, TypeOK
    <3>2. CASE reports = 1 \/ broken
      <4>1. log' = NoLog /\ {lost', straddled', restarted', broken'} \subseteq BOOLEAN
        BY <1>3, <3>2 DEF Report, VoidHistory
      <4> QED
        BY <1>2, <3>1, <4>1 DEF TypeOK
    <3>3. CASE ~(reports = 1 \/ broken)
      <4>1. log' = [log EXCEPT ![clock] = r] /\ UNCHANGED <<lost, straddled, restarted, broken>>
        BY <1>3, <3>3 DEF Report
      <4>2. log' \in [Start .. Horizon -> Nat]
        BY <2>1, <4>1 DEF TypeOK
      <4> QED
        BY <3>1, <4>1, <4>2 DEF TypeOK
    <3> QED
      BY <3>2, <3>3
  <2> QED
    BY <2>4, <2>7, <2>8, <2>9 DEF TypeOK
<1>4. CASE SaveOpen /\ UNCHANGED history
  BY <1>1, <1>4, DateType DEF SaveOpen, history, state, TypeOK
<1>5. CASE Saved
  BY <1>5 DEF Saved, SaveClose, state, TypeOK
<1>6. CASE End
  <2>1. Down
    BY <1>6 DEF End, Crash, SaveFails
  <2>2. /\ log' \in [Start .. Horizon -> Nat] /\ reports' \in 0 .. 2
        /\ {saved', excused', lost', straddled', restarted', broken'} \subseteq BOOLEAN
    BY <1>2, <1>6 DEF End, VoidHistory, TypeOK
  <2> QED
    BY <1>2, <2>1, <2>2 DEF Down, TypeOK
<1>7. CASE Begin
  <2>1. file # Empty => Restored(file, Stamp(clock)) \in Totals
    BY RestoredType DEF TypeOK
  <2>2. rain' \in Totals
    BY <1>2, <1>7, <2>1 DEF Begin, Restart
  <2>3. restarted' \in BOOLEAN
    BY <1>7 DEF Begin
  <2> QED
    BY <1>7, <2>2, <2>3 DEF Begin, Restart, TypeOK
<1>8. CASE Pass
  <2>1. clock' \in Start .. Horizon
    BY <1>8, ClockAssumption DEF Pass, Tick, TypeOK
  <2>2. {excused', lost', straddled'} \subseteq BOOLEAN /\ reports' \in 0 .. 2
    BY <1>8 DEF Pass
  <2> QED
    BY <1>8, <2>1, <2>2 DEF Pass, Tick, state, TypeOK
<1>9. CASE UNCHANGED vars
  BY <1>9 DEF vars, state, history, TypeOK
<1> QED
  BY <1>3, <1>4, <1>5, <1>6, <1>7, <1>8, <1>9 DEF Next

\* accumulate_rain, save_rainfall and read_rainfall leave numbers in every
\* total, slot and field of the file, for every calendar and all amounts.
THEOREM TypeCorrect == Spec => []TypeOK
BY TypeInit, TypeStep, PTL DEF Spec
-----------------------------------------------------------------------------
(***************************************************************************)
(* What the totals are kept to: while no report is lost, doubled or        *)
(* stamped late, the totals in memory, in the save under way and in the    *)
(* file are each those of some minute after which it has not rained, and   *)
(* the slots add up.  Only in the first minute of a period a total may be  *)
(* the last period's, until the report of that minute: if none comes, it   *)
(* is lost.                                                                *)
(***************************************************************************)
Awaited == reports = 0 /\ ~excused

Exact(total, length) ==
    \/ total = SumFunctionOnSet(log, Until(length, clock))
    \/ Awaited /\ clock % length = 0

Now == Exact(rain.hr, MinsPerHour) /\ Exact(rain.day, MinsPerDay) /\ Exact(rain.month, MinsPerMonth)

\* What was saved with stamp s and totals t is up to date.
UpToDate(s, t) == \E c \in Start .. clock : s = Stamp(c) /\ Quiet(log, c) /\ Holds(log, t, c)

Dry == \A d \in Span : log[d] = 0

Kept == IF file = Empty THEN Dry ELSE UpToDate(file.stamp, file.rain)

\* A slot has all the rain it stands for, unless a restart forgot some.
Filled(slot, sum) == slot <= sum /\ (~restarted => slot = sum)

Slots ==
    /\ \A m \in Minutes : \/ Filled(rain_60_min[m], SumFunctionOnSet(log, MinuteSlot(clock, m)))
                          \/ Awaited /\ m = clock % MinsPerHour
    /\ \A h \in Hours : \/ Filled(rain_24_hr[h], SumFunctionOnSet(log, HourSlot(clock, h)))
                        \/ /\ Awaited /\ clock % MinsPerHour = 0
                           /\ h = (clock \div MinsPerHour) % HoursPerDay

Rolled == /\ rain.last60 = SumFunctionOnSet(rain_60_min, Minutes)
          /\ rain.last24 = SumFunctionOnSet(rain_24_hr, Hours)

LogUpToNow == Quiet(log, clock) /\ (reports = 0 => log[clock] = 0)

Forgotten == pc = "down" => rain_60_min = ZeroMins /\ rain_24_hr = ZeroHrs

Books == ~broken /\ Regular =>
    /\ pc # "down" => Now
    /\ pc = "save" => reports > 0 /\ Rolled
    /\ pc = "write" => UpToDate(stamp, rain)
    /\ pc \in {"idle", "down"} => Kept
    /\ pc # "down" => Slots

Ledger == LogUpToNow /\ Forgotten /\ Books

LEMMA LedgerTypes ==
    TypeOK => /\ clock \in Span /\ clock \in Nat /\ log \in Log
              /\ NoLog \in Log /\ \A d \in Span : NoLog[d] = 0
BY ClockAssumption DEF TypeOK, Span, Log, NoLog

LEMMA LedgerInit == Init => Ledger
<1> SUFFICES ASSUME Init PROVE Ledger
  OBVIOUS
<1>1. Start \in Span /\ \A d \in Span : log[d] = 0
  BY ClockAssumption DEF Init, NoLog, Span
<1>2. LogUpToNow
  BY <1>1 DEF Init, LogUpToNow, Quiet
<1>3. Forgotten
  BY DEF Init, Forgotten
<1>4. Books
  BY <1>1 DEF Init, Books, Kept, Dry
<1> QED
  BY <1>2, <1>3, <1>4 DEF Ledger

\* A void log is dry.
LEMMA LedgerVoid == TypeOK /\ VoidHistory /\ clock' = clock => LogUpToNow' /\ Books'
<1> SUFFICES ASSUME TypeOK, VoidHistory, clock' = clock PROVE LogUpToNow' /\ Books'
  OBVIOUS
<1>1. log' = NoLog /\ broken' = TRUE
  BY DEF VoidHistory
<1>2. LogUpToNow'
  BY <1>1, LedgerTypes DEF LogUpToNow, Quiet
<1>3. Books'
  BY <1>1 DEF Books
<1> QED
  BY <1>2, <1>3

\* accumulate_rain: each total is started or added to, and takes its slot.
LEMMA LedgerReport ==
    ASSUME TypeOK, Ledger, NEW r \in Amounts, Report(r) PROVE Ledger'
<1> DEFINE d == Date(clock)
           hr == Total(rain.hr, HourStarts(d), r)
<1>1. /\ pc = "idle" /\ pc' = "save" /\ clock' = clock
      /\ rain_60_min' = [rain_60_min EXCEPT ![d.min] = r]
      /\ rain_24_hr' = [rain_24_hr EXCEPT ![d.hour] = hr]
      /\ rain'.hr = hr
      /\ rain'.day = Total(rain.day, DayStarts(d), r)
      /\ rain'.month = Total(rain.month, MonthStarts(d), r)
      /\ rain'.last60 = SumFunction(rain_60_min')
      /\ rain'.last24 = SumFunction(rain_24_hr')
  BY DEF Report, Accumulate
<1>2. reports < 2 /\ reports' = reports + 1 /\ reports \in 0 .. 2
  BY DEF Report, TypeOK
<1>3. Forgotten'
  BY <1>1 DEF Forgotten
<1>4. CASE reports = 1 \/ broken
  <2>1. VoidHistory
    BY <1>4 DEF Report
  <2> QED
    BY <1>1, <1>3, <2>1, LedgerVoid DEF Ledger
<1>5. CASE ~(reports = 1 \/ broken)
  <2>1. reports = 0 /\ reports' = 1
    BY <1>2, <1>5
  <2>2. /\ log' = With(log, clock, r) /\ UNCHANGED <<lost, straddled, restarted, broken>>
    BY <1>5 DEF Report, With
  <2>3. /\ clock \in Span /\ clock \in Nat /\ log \in Log /\ r \in Nat
        /\ Quiet(log, clock) /\ log[clock] = 0
    BY <2>1, LedgerTypes, AmountsAssumption DEF Ledger, LogUpToNow
  <2>4. LogUpToNow'
    <3>1. \A x \in Span : x # clock => log'[x] = log[x]
      BY <2>2, <2>3 DEF With, Log
    <3> QED
      BY <1>1, <2>1, <2>3, <3>1 DEF LogUpToNow, Quiet
  <2>5. ASSUME ~broken', Regular' PROVE Now' /\ Rolled' /\ Slots'
    <3>1. ~broken /\ Regular
      BY <2>2, <2>5 DEF Regular
    <3>2. Now /\ Slots
      BY <1>1, <3>1 DEF Ledger, Books
    <3>3. /\ HourStarts(d) <=> clock % MinsPerHour = 0
          /\ DayStarts(d) <=> clock % MinsPerDay = 0
          /\ MonthStarts(d) <=> clock % MinsPerMonth = 0
      BY <2>3, FirstMinutes
    <3>4. /\ rain.hr = SumFunctionOnSet(log, Until(MinsPerHour, clock)) \/ clock % MinsPerHour = 0
          /\ rain.day = SumFunctionOnSet(log, Until(MinsPerDay, clock)) \/ clock % MinsPerDay = 0
          /\ rain.month = SumFunctionOnSet(log, Until(MinsPerMonth, clock)) \/ clock % MinsPerMonth = 0
      BY <3>2 DEF Now, Exact
    <3>5. d.min = clock % MinsPerHour /\ d.hour = (clock \div MinsPerHour) % HoursPerDay
      BY DEF Date
    <3>6. d.min \in Minutes /\ d.hour \in Hours
      BY <2>3, DateType
    <3> HIDE DEF d
    <3>7. hr = SumFunctionOnSet(log', Until(MinsPerHour, clock))
      BY <2>2, <2>3, <3>3, <3>4, CalendarType, TotalReported
    <3>8. rain'.day = SumFunctionOnSet(log', Until(MinsPerDay, clock))
      BY <1>1, <2>2, <2>3, <3>3, <3>4, CalendarType, TotalReported
    <3>9. rain'.month = SumFunctionOnSet(log', Until(MinsPerMonth, clock))
      BY <1>1, <2>2, <2>3, <3>3, <3>4, CalendarType, TotalReported
    <3> HIDE DEF hr
    <3>10. Now'
      BY <1>1, <3>7, <3>8, <3>9 DEF Now, Exact
    <3>11. Rolled'
      <4>1. DOMAIN rain_60_min' = Minutes /\ DOMAIN rain_24_hr' = Hours
        BY <1>1 DEF TypeOK
      <4> QED
        BY <1>1, <4>1 DEF Rolled, SumFunction
    <3>12. Slots'
      <4>1. Slots /\ clock' = clock /\ restarted' = restarted
        BY <1>1, <2>2, <3>2
      <4>2. /\ rain_60_min'[d.min] = r
            /\ \A m \in Minutes : m # d.min => rain_60_min'[m] = rain_60_min[m]
            /\ rain_24_hr'[d.hour] = hr
            /\ \A h \in Hours : h # d.hour => rain_24_hr'[h] = rain_24_hr[h]
        BY <1>1, <3>6 DEF TypeOK
      <4>3. ASSUME NEW m \in Minutes
            PROVE  Filled(rain_60_min[m], SumFunctionOnSet(log, MinuteSlot(clock, m)))'
        <5> DEFINE S == MinuteSlot(clock, m)
        <5>1. S \in SUBSET (Start .. clock)
          BY <2>3, SlotSets
        <5>2. CASE m = d.min
          <6>1. S = {clock}
            BY <2>3, <3>5, <5>2, SlotsOfNow
          <6>2. SumFunctionOnSet(log', {clock}) = r
            BY <2>2, <2>3, SumOfReport
          <6> QED
            BY <2>3, <4>1, <4>2, <5>2, <6>1, <6>2 DEF Filled
        <5>3. CASE m # d.min
          <6>1. clock \notin S
            BY <3>5, <5>3 DEF MinuteSlot
          <6>2. Filled(rain_60_min[m], SumFunctionOnSet(log, S))
            BY <3>5, <4>1, <5>3 DEF Slots
          <6> HIDE DEF S
          <6>3. SumFunctionOnSet(log', S) = SumFunctionOnSet(log, S)
            BY <2>2, <2>3, <5>1, <6>1, SumUnreported
          <6> QED
            BY <4>1, <4>2, <5>3, <6>2, <6>3 DEF S, Filled
        <5> QED
          BY <5>2, <5>3
      <4>4. ASSUME NEW h \in Hours
            PROVE  Filled(rain_24_hr[h], SumFunctionOnSet(log, HourSlot(clock, h)))'
        <5> DEFINE S == HourSlot(clock, h)
        <5>1. S \in SUBSET (Start .. clock)
          BY <2>3, SlotSets
        <5>2. CASE h = d.hour
          <6>1. S = Until(MinsPerHour, clock)
            BY <2>3, <3>5, <5>2, SlotsOfNow
          <6>2. SumFunctionOnSet(log', S) \in Nat
            BY <2>2, <2>3, <5>1, WithReport, SpanFinite, SumType
          <6> QED
            BY <3>7, <4>1, <4>2, <5>2, <6>1, <6>2 DEF Filled
        <5>3. CASE h # d.hour
          <6>1. clock \notin S
            BY <3>5, <5>3 DEF HourSlot
          <6>2. Filled(rain_24_hr[h], SumFunctionOnSet(log, S))
            BY <3>5, <4>1, <5>3 DEF Slots
          <6> HIDE DEF S
          <6>3. SumFunctionOnSet(log', S) = SumFunctionOnSet(log, S)
            BY <2>2, <2>3, <5>1, <6>1, SumUnreported
          <6> QED
            BY <4>1, <4>2, <5>3, <6>2, <6>3 DEF S, Filled
        <5> QED
          BY <5>2, <5>3
      <4> QED
        BY <4>3, <4>4 DEF Slots
    <3> QED
      BY <3>10, <3>11, <3>12
  <2>6. Books'
    BY <1>1, <2>1, <2>5 DEF Books
  <2> QED
    BY <1>3, <2>4, <2>6 DEF Ledger
<1> QED
  BY <1>4, <1>5

\* save_rainfall, up to fopen: the stamp is of the minute of the report.
LEMMA LedgerSaveOpen ==
    ASSUME TypeOK, Ledger, SaveOpen, UNCHANGED history PROVE Ledger'
<1>1. /\ pc = "save" /\ pc' = "write" /\ stamp' = Stamp(clock)
      /\ clock' = clock /\ rain' = rain
      /\ rain_60_min' = rain_60_min /\ rain_24_hr' = rain_24_hr
      /\ log' = log /\ reports' = reports /\ excused' = excused /\ lost' = lost
      /\ straddled' = straddled /\ restarted' = restarted /\ broken' = broken
  BY DEF SaveOpen, state, history
<1>2. LogUpToNow' /\ Forgotten'
  BY <1>1 DEF Ledger, LogUpToNow, Forgotten
<1>3. ASSUME ~broken', Regular'
      PROVE  Now' /\ UpToDate(stamp, rain)' /\ Slots'
  <2>1. Now /\ reports > 0 /\ Slots
    BY <1>1, <1>3 DEF Ledger, Books, Regular
  <2>2. Now' /\ Slots'
    BY <1>1, <2>1 DEF Now, Exact, Awaited, Slots, Filled
  <2>3. Holds(log, rain, clock)
    BY <2>1 DEF Now, Exact, Awaited, Holds
  <2>4. clock \in Start .. clock /\ Quiet(log, clock)
    BY LedgerTypes, SpanType DEF Ledger, LogUpToNow
  <2> QED
    BY <1>1, <2>2, <2>3, <2>4 DEF UpToDate
<1>4. Books'
  BY <1>1, <1>3 DEF Books
<1> QED
  BY <1>2, <1>4 DEF Ledger

\* save_rainfall, from fopen to fclose.
LEMMA LedgerSaved == ASSUME TypeOK, Ledger, Saved PROVE Ledger'
<1>1. /\ pc = "write" /\ pc' = "idle" /\ file' = [stamp |-> stamp, rain |-> rain]
      /\ clock' = clock /\ rain' = rain
      /\ rain_60_min' = rain_60_min /\ rain_24_hr' = rain_24_hr
      /\ log' = log /\ reports' = reports /\ excused' = excused /\ lost' = lost
      /\ straddled' = straddled /\ restarted' = restarted /\ broken' = broken
  BY DEF Saved, SaveClose, state
<1>2. LogUpToNow' /\ Forgotten'
  BY <1>1 DEF Ledger, LogUpToNow, Forgotten
<1>3. file' # Empty /\ file'.stamp = stamp /\ file'.rain = rain
  BY <1>1, EmptyAssumption DEF TypeOK
<1>4. Books'
  BY <1>1, <1>3 DEF Ledger, Books, Regular, Now, Exact, Awaited, Slots, Filled, Kept, UpToDate
<1> QED
  BY <1>2, <1>4 DEF Ledger

\* The program ends: what counts is in the file, unless it ends in a save.
LEMMA LedgerEnd == ASSUME TypeOK, Ledger, End PROVE Ledger'
<1>1. /\ pc' = "down" /\ clock' = clock /\ file' = file
      /\ rain_60_min' = ZeroMins /\ rain_24_hr' = ZeroHrs
  BY DEF End, Crash, SaveFails, Down
<1>2. Forgotten'
  BY <1>1 DEF Forgotten
<1>3. CASE pc # "idle" \/ broken
  <2>1. VoidHistory
    BY <1>3 DEF End
  <2> QED
    BY <1>1, <1>2, <2>1, LedgerVoid DEF Ledger
<1>4. CASE ~(pc # "idle" \/ broken)
  <2>1. UNCHANGED <<log, reports, lost, straddled, restarted, broken>>
    BY <1>4 DEF End
  <2>2. LogUpToNow'
    BY <1>1, <2>1 DEF Ledger, LogUpToNow
  <2>3. Books'
    BY <1>1, <1>4, <2>1 DEF Ledger, Books, Regular, Kept, Dry, UpToDate
  <2> QED
    BY <1>2, <2>2, <2>3 DEF Ledger
<1> QED
  BY <1>3, <1>4

\* read_rainfall: the file has what the totals of this minute are.
LEMMA LedgerBegin == ASSUME TypeOK, Ledger, Begin PROVE Ledger'
<1>1. /\ pc = "down" /\ pc' = "idle" /\ clock' = clock /\ file' = file
      /\ rain' = (IF file = Empty THEN NoRain ELSE Restored(file, Stamp(clock)))
      /\ rain_60_min' = rain_60_min /\ rain_24_hr' = rain_24_hr
      /\ restarted' = (~broken /\ (restarted \/ file # Empty))
      /\ log' = log /\ reports' = reports /\ excused' = excused /\ lost' = lost
      /\ straddled' = straddled /\ broken' = broken
  BY DEF Begin, Restart
<1>2. LogUpToNow' /\ Forgotten'
  BY <1>1 DEF Ledger, LogUpToNow, Forgotten
<1>3. clock \in Span /\ clock \in Nat /\ log \in Log
  BY LedgerTypes
<1>4. ASSUME ~broken', Regular' PROVE Now' /\ Kept' /\ Slots'
  <2>1. Kept
    BY <1>1, <1>4 DEF Ledger, Books, Regular
  <2>2. Kept'
    BY <1>1, <2>1 DEF Kept, Dry, UpToDate
  <2>3. CASE file = Empty
    <3>1. Dry
      BY <2>1, <2>3 DEF Kept
    <3>2. ASSUME NEW S \in SUBSET (Start .. clock) PROVE SumFunctionOnSet(log, S) = 0
      <4>1. IsFiniteSet(S) /\ \A x \in S : log[x] = 0
        BY <1>3, <3>1, SpanFinite DEF Dry
      <4> QED
        BY <4>1, SumZero
    <3>3. Now'
      <4>1. \A length : Until(length, clock) \in SUBSET (Start .. clock)
        BY DEF Until
      <4>2. \A length : SumFunctionOnSet(log, Until(length, clock)) = 0
        BY <3>2, <4>1
      <4>3. rain'.hr = 0 /\ rain'.day = 0 /\ rain'.month = 0
        BY <1>1, <2>3 DEF NoRain
      <4> QED
        BY <1>1, <4>2, <4>3 DEF Now, Exact
    <3>4. Slots'
      <4>1. \A m, h : /\ SumFunctionOnSet(log, MinuteSlot(clock, m)) = 0
                      /\ SumFunctionOnSet(log, HourSlot(clock, h)) = 0
        BY <1>3, <3>2, SlotSets
      <4>2. rain_60_min' = ZeroMins /\ rain_24_hr' = ZeroHrs
        BY <1>1 DEF Ledger, Forgotten
      <4> QED
        BY <1>1, <4>1, <4>2 DEF Slots, Filled, ZeroMins, ZeroHrs
    <3> QED
      BY <2>2, <3>3, <3>4
  <2>4. CASE file # Empty
    <3>1. restarted'
      BY <1>1, <1>4, <2>4
    <3>2. PICK c \in Start .. clock :
              file.stamp = Stamp(c) /\ Quiet(log, c) /\ Holds(log, file.rain, c)
      BY <2>1, <2>4 DEF Kept, UpToDate
    <3>3. Holds(log, Restored(file, Stamp(clock)), clock)
      BY <1>3, <3>2, Recovered
    <3>4. rain' = Restored(file, Stamp(clock))
      BY <1>1, <2>4
    <3>5. Now'
      BY <1>1, <3>3, <3>4 DEF Now, Exact, Holds
    <3>6. Slots'
      <4>1. \A S \in SUBSET (Start .. clock) : SumFunctionOnSet(log, S) \in Nat
        BY <1>3, SpanFinite, SumType
      <4>2. \A m, h : /\ SumFunctionOnSet(log, MinuteSlot(clock, m)) \in Nat
                      /\ SumFunctionOnSet(log, HourSlot(clock, h)) \in Nat
        BY <1>3, <4>1, SlotSets
      <4>3. rain_60_min' = ZeroMins /\ rain_24_hr' = ZeroHrs
        BY <1>1 DEF Ledger, Forgotten
      <4> QED
        BY <1>1, <3>1, <4>2, <4>3 DEF Slots, Filled, ZeroMins, ZeroHrs
    <3> QED
      BY <2>2, <3>5, <3>6
  <2> QED
    BY <2>3, <2>4
<1>5. Books'
  BY <1>1, <1>4 DEF Books
<1> QED
  BY <1>2, <1>5 DEF Ledger

\* A minute passes: what a report should have started anew is awaited.
LEMMA LedgerPass == ASSUME TypeOK, Ledger, Pass PROVE Ledger'
<1>1. /\ clock' = clock + 1 /\ clock < Horizon
      /\ pc' = pc /\ rain' = rain /\ stamp' = stamp /\ file' = file
      /\ rain_60_min' = rain_60_min /\ rain_24_hr' = rain_24_hr
      /\ reports' = 0 /\ excused' = (pc = "down")
      /\ lost' = (lost \/ (~broken /\ ~excused /\ reports = 0))
      /\ straddled' = (straddled \/ (~broken /\ pc = "save"))
      /\ log' = log /\ restarted' = restarted /\ broken' = broken
  BY DEF Pass, Tick, state
<1>2. clock \in Span /\ clock + 1 \in Span /\ clock \in Nat /\ log \in Log
  BY <1>1, LedgerTypes, ClockAssumption DEF Span
<1>3. Quiet(log, clock)
  BY DEF Ledger, LogUpToNow
<1>4. LogUpToNow'
  BY <1>1, <1>2, <1>3 DEF LogUpToNow, Quiet
<1>5. Forgotten'
  BY <1>1 DEF Ledger, Forgotten
<1>6. ASSUME ~broken', Regular' PROVE Books'
  <2>1. ~broken /\ Regular /\ ~Awaited /\ pc # "save"
    BY <1>1, <1>6 DEF Regular, Awaited
  <2>2. Start .. clock \subseteq Start .. (clock + 1)
    BY <1>2, SpanType
  <2>3. \A s, t : UpToDate(s, t) => UpToDate(s, t)'
    BY <1>1, <2>2 DEF UpToDate
  <2>4. (pc = "write" => UpToDate(stamp, rain)') /\ (pc \in {"idle", "down"} => Kept')
    BY <1>1, <2>1, <2>3 DEF Ledger, Books, Kept, Dry
  <2>5. ASSUME pc # "down" PROVE Now'
    <3>1. Now /\ Awaited'
      BY <1>1, <2>1, <2>5 DEF Ledger, Books, Awaited
    <3>2. ASSUME NEW length \in Nat \ {0}, NEW total, Exact(total, length)
          PROVE  \/ total = SumFunctionOnSet(log, Until(length, clock + 1))
                 \/ (clock + 1) % length = 0
      <4>1. total = SumFunctionOnSet(log, Until(length, clock))
        BY <2>1, <3>2 DEF Exact
      <4>2. CASE (clock + 1) % length # 0
        <5>1. (clock + 1) \div length = clock \div length
          BY <1>2, <4>2, Successor
        <5>2. clock \in Start .. (clock + 1)
          BY <1>2, <2>2, SpanType
        <5> DEFINE n == clock + 1
        <5>3. n \in Span /\ clock \in Start .. n /\ clock \div length = n \div length
          BY <1>2, <5>1, <5>2
        <5> HIDE DEF n
        <5>4. SumFunctionOnSet(log, Until(length, n)) = SumFunctionOnSet(log, Until(length, clock))
          BY <1>2, <1>3, <5>3, SumLater
        <5> QED
          BY <4>1, <5>4 DEF n
      <4> QED
        BY <4>2
    <3> QED
      BY <1>1, <3>1, <3>2, CalendarType DEF Now, Exact
  <2>6. ASSUME pc # "down" PROVE Slots'
    <3>1. Slots /\ Awaited'
      BY <1>1, <2>1, <2>6 DEF Ledger, Books, Awaited
    <3>2. /\ \A m \in Minutes :
                 Filled(rain_60_min[m], SumFunctionOnSet(log, MinuteSlot(clock, m)))
          /\ \A h \in Hours : Filled(rain_24_hr[h], SumFunctionOnSet(log, HourSlot(clock, h)))
      BY <2>1, <3>1 DEF Slots
    <3>3. /\ \A m \in Minutes : m # (clock + 1) % MinsPerHour =>
                  MinuteSlot(clock + 1, m) = MinuteSlot(clock, m)
          /\ \A h \in Hours :
                  \/ (clock + 1) % MinsPerHour # 0
                  \/ h # ((clock + 1) \div MinsPerHour) % HoursPerDay
                  => SumFunctionOnSet(log, HourSlot(clock + 1, h))
                         = SumFunctionOnSet(log, HourSlot(clock, h))
      BY <1>2, <1>3, SlotsLater
    <3> QED
      BY <1>1, <3>1, <3>2, <3>3 DEF Slots, Filled
  <2> QED
    BY <1>1, <2>1, <2>4, <2>5, <2>6 DEF Books
<1>7. Books'
  BY <1>6 DEF Books
<1> QED
  BY <1>4, <1>5, <1>7 DEF Ledger

LEMMA LedgerStep == TypeOK /\ Ledger /\ [Next]_vars => Ledger'
<1> SUFFICES ASSUME TypeOK, Ledger, [Next]_vars PROVE Ledger'
  OBVIOUS
<1>1. CASE UNCHANGED vars
  BY <1>1 DEF vars, state, history, Ledger, LogUpToNow, Forgotten, Books, Regular, Now,
              Exact, Awaited, Slots, Filled, Rolled, Kept, Dry, UpToDate
<1>2. CASE Next
  BY <1>2, LedgerReport, LedgerSaveOpen, LedgerSaved, LedgerEnd, LedgerBegin, LedgerPass
  DEF Next
<1> QED
  BY <1>1, <1>2

LEMMA LedgerKept == Spec => [](TypeOK /\ Ledger)
<1>1. Init => TypeOK /\ Ledger
  BY TypeInit, LedgerInit
<1>2. TypeOK /\ Ledger /\ [Next]_vars => TypeOK' /\ Ledger'
  BY TypeStep, LedgerStep
<1> QED
  BY <1>1, <1>2, PTL DEF Spec

\* accumulate_rain, save_rainfall and read_rainfall: across restarts and down
\* times of any length, the totals sent for the hour, the day and the month
\* are the sums of the reports of that hour, day and month.
THEOREM CurrentTotalsExact == Spec => []CurrentExact
<1>1. TypeOK /\ Ledger => CurrentExact
  <2> SUFFICES ASSUME TypeOK, Ledger, Published, Regular
               PROVE  /\ rain.hr    = Logged(Current(MinsPerHour))
                      /\ rain.day   = Logged(Current(MinsPerDay))
                      /\ rain.month = Logged(Current(MinsPerMonth))
    BY DEF CurrentExact
  <2>1. Now /\ ~Awaited
    BY DEF Published, Ledger, Books, Awaited
  <2>2. \A length : Current(length) = Until(length, clock)
    BY DEF Current, Until
  <2> QED
    BY <2>1, <2>2 DEF Now, Exact, Logged
<1> QED
  BY <1>1, LedgerKept, PTL

\* accumulate_rain: the slots of rain_60_min and rain_24_hr never add up to
\* more than the reports of the last 60 minutes, and of this hour and the 23
\* before it, and to less only when the program was restarted.
THEOREM RollingTotalsExact == Spec => []RollingExact
<1>1. TypeOK /\ Ledger => RollingExact
  <2> DEFINE hour == Logged(Last(MinsPerHour))
             day == Logged(Last(MinsPerDay - MinsPerHour + Date(clock).min + 1))
  <2> SUFFICES ASSUME TypeOK, Ledger, Published, Regular
               PROVE  /\ rain.last60 <= hour /\ rain.last24 <= day
                      /\ ~restarted => rain.last60 = hour /\ rain.last24 = day
    BY DEF RollingExact
  <2> DEFINE a == InMinutes(log, clock)
             b == InHours(log, clock)
  <2>1. Slots /\ Rolled /\ ~Awaited
    BY DEF Published, Ledger, Books, Awaited
  <2>2. /\ \A m \in Minutes : Filled(rain_60_min[m], a[m])
        /\ \A h \in Hours : Filled(rain_24_hr[h], b[h])
    BY <2>1 DEF Slots, InMinutes, InHours
  <2>3. /\ SumFunctionOnSet(a, Minutes) = SumFunctionOnSet(log, LastHour(clock))
        /\ SumFunctionOnSet(b, Hours) = SumFunctionOnSet(log, LastHours(clock))
    BY LedgerTypes, SlotsTogether
  <2>4. /\ LastHour(clock) = Last(MinsPerHour)
        /\ LastHours(clock) = Last(MinsPerDay - MinsPerHour + Date(clock).min + 1)
    BY LedgerTypes, LastMinutes DEF LastHour, Last
  <2>5. hour = SumFunctionOnSet(a, Minutes) /\ day = SumFunctionOnSet(b, Hours)
    BY <2>3, <2>4 DEF Logged
  <2>6. IsFiniteSet(Minutes) /\ IsFiniteSet(Hours)
    BY FS_Interval, CalendarType DEF Minutes, Hours
  <2>7. /\ Numbers(rain_60_min, Minutes) /\ Numbers(a, Minutes)
        /\ Numbers(rain_24_hr, Hours) /\ Numbers(b, Hours)
    <3>1. \A m, h : /\ SumFunctionOnSet(log, MinuteSlot(clock, m)) \in Nat
                    /\ SumFunctionOnSet(log, HourSlot(clock, h)) \in Nat
      BY LedgerTypes, SlotSets, SpanFinite, SumType
    <3> QED
      BY <3>1 DEF Numbers, InMinutes, InHours, TypeOK
  <2> HIDE DEF a, b, hour, day
  <2>8. rain.last60 <= hour /\ rain.last24 <= day
    <3>1. /\ SumFunctionOnSet(rain_60_min, Minutes) <= SumFunctionOnSet(a, Minutes)
          /\ SumFunctionOnSet(rain_24_hr, Hours) <= SumFunctionOnSet(b, Hours)
      BY <2>2, <2>6, <2>7, SumBelow DEF Filled
    <3> QED
      BY <2>1, <2>5, <3>1 DEF Rolled
  <2>9. ASSUME ~restarted PROVE rain.last60 = hour /\ rain.last24 = day
    <3>1. /\ SumFunctionOnSet(rain_60_min, Minutes) = SumFunctionOnSet(a, Minutes)
          /\ SumFunctionOnSet(rain_24_hr, Hours) = SumFunctionOnSet(b, Hours)
      BY <2>2, <2>6, <2>9, SumSame DEF Filled
    <3> QED
      BY <2>1, <2>5, <3>1 DEF Rolled
  <2> QED
    BY <2>8, <2>9
<1> QED
  BY <1>1, LedgerKept, PTL
=============================================================================
