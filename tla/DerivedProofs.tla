--------------------------- MODULE DerivedProofs ---------------------------
(***************************************************************************)
(* Proofs about Derived, for every window, set of pressures and number of  *)
(* reports.                                                                *)
(***************************************************************************)
EXTENDS Derived, TLAPS

USE WindowAssumption, PressuresAssumption, DirectionsAssumption, BoundsAssumption

\* The queue holds the newest reports, with no hole; and never none once one
\* came in, although it drops one at most inserts.
Newest ==
    /\ Gone >= 0
    /\ \A i \in 1 .. Len(trend) : trend[i] = reports[Gone + i]
    /\ reports # <<>> => trend # <<>>

\* The clock does not run backwards, and what is gone was too old.
Past ==
    /\ \A i \in 1 .. Len(reports) : reports[i].t <= now
    /\ \A i \in 1 .. Gone : now - reports[i].t >= Window

Queue == Newest /\ Past /\ TrendSpansWindow /\ BusiestWindow /\ TrendRecovers

Inv == TypeOK /\ Queue
-----------------------------------------------------------------------------
LEMMA Appended ==
    ASSUME NEW S, NEW s \in Seq(S), NEW e \in S
    PROVE  /\ Append(s, e) \in Seq(S) /\ Append(s, e) # <<>>
           /\ Len(Append(s, e)) = Len(s) + 1
           /\ \A i \in 1 .. Len(s) : Append(s, e)[i] = s[i]
           /\ Append(s, e)[Len(s) + 1] = e
           /\ Len(s) \in Nat
OBVIOUS

LEMMA Shifted ==
    ASSUME NEW S, NEW s \in Seq(S), s # <<>>
    PROVE  /\ Tail(s) \in Seq(S)
           /\ Len(Tail(s)) = Len(s) - 1
           /\ \A i \in 1 .. Len(s) - 1 : Tail(s)[i] = s[i + 1]
           /\ Len(s) \in Nat \ {0}
OBVIOUS

LEMMA InvInit == Init => Inv
<1> SUFFICES ASSUME Init PROVE Inv
  OBVIOUS
<1>1. reports = <<>> /\ trend = <<>> /\ Len(reports) = 0 /\ Len(trend) = 0
  BY DEF Init
<1>2. TypeOK
  BY DEF Init, TypeOK
<1>3. Queue
  BY <1>1 DEF Queue, Newest, Past, TrendSpansWindow, BusiestWindow, TrendRecovers, Gone
<1> QED
  BY <1>2, <1>3 DEF Inv

\* What calc_pressure_trend leaves in the queue.
LEMMA AirQueue ==
    ASSUME Inv, NEW p \in Pressures, NEW later \in {now, now + 1}, later <= MaxNow,
           Air(p, later)
    PROVE  TypeOK' /\ Queue'
<1> DEFINE td  == [t |-> now, p |-> p]
           all == Append(trend, td)
           n   == Len(reports)
           m   == Len(trend)
<1>1. /\ trend \in Seq(Samples) /\ reports \in Seq(Samples) /\ now \in 0 .. MaxNow
      /\ now \in Int /\ later \in Int /\ later >= now
  BY DEF Inv, TypeOK
<1>2. td \in Samples
  BY <1>1 DEF Samples
<1> HIDE DEF td
<1>3. /\ all \in Seq(Samples) /\ all # <<>> /\ Len(all) = m + 1
      /\ \A i \in 1 .. m : all[i] = trend[i]
      /\ all[m + 1] = td /\ m \in Nat
  BY <1>1, <1>2, Appended
<1>4. /\ reports' = Append(reports, td)
      /\ now' = later /\ p_trend' = Compared(p, all[1].p)
      /\ trend' = IF TooOld(later, all[1]) THEN Tail(all) ELSE all
      /\ base' = Len(reports') - Len(all) + 1
      /\ UNCHANGED <<winddirection, wind_dir>>
  BY DEF Air, td
<1>5. /\ reports' \in Seq(Samples) /\ reports' # <<>> /\ Len(reports') = n + 1
      /\ \A i \in 1 .. n : reports'[i] = reports[i]
      /\ reports'[n + 1] = td /\ n \in Nat
  BY <1>1, <1>2, <1>4, Appended
<1>6. td.t = now /\ td.p = p
  BY DEF td
<1>7. m <= n /\ Gone = n - m /\ base' = n - m + 1
  BY <1>3, <1>4, <1>5 DEF Inv, Queue, Newest, Gone
<1> HIDE DEF all, n, m
\* The queue with the new report is the newest reports.
<1>8. \A i \in 1 .. m + 1 : all[i] = reports'[n - m + i]
  <2> SUFFICES ASSUME NEW i \in 1 .. m + 1 PROVE all[i] = reports'[n - m + i]
    OBVIOUS
  <2>1. CASE i = m + 1
    BY <2>1, <1>3, <1>5, <1>7
  <2>2. CASE i \in 1 .. m
    <3>1. all[i] = trend[i] /\ trend[i] = reports[n - m + i]
      BY <2>2, <1>3, <1>7 DEF Inv, Queue, Newest, m
    <3>2. n - m + i \in 1 .. n
      BY <2>2, <1>3, <1>5, <1>7
    <3> QED
      BY <3>1, <3>2, <1>5
  <2> QED
    BY <2>1, <2>2, <1>3
<1>9. all[1] = reports'[base'] /\ all[1] \in Samples /\ base' \in 1 .. n + 1
  BY <1>3, <1>5, <1>7, <1>8
<1>10. /\ \A i \in 1 .. n + 1 : reports'[i].t \in Int /\ reports'[i].t <= now
       /\ \A i \in 1 .. n - m : now - reports'[i].t >= Window
  <2>1. \A i \in 1 .. n + 1 : reports'[i] \in Samples
    BY <1>5
  <2>2. \A i \in 1 .. n : reports[i].t <= now
    BY DEF Inv, Queue, Past, n
  <2>3. \A i \in 1 .. n - m : now - reports[i].t >= Window
    BY <1>7 DEF Inv, Queue, Past
  <2>4. \A i \in 1 .. n - m : i \in 1 .. n
    BY <1>3, <1>5
  <2>5. \A i \in 1 .. n + 1 : reports'[i].t \in Int
    BY <2>1 DEF Samples
  <2>6. \A i \in 1 .. n + 1 : reports'[i].t <= now
    <3> SUFFICES ASSUME NEW i \in 1 .. n + 1 PROVE reports'[i].t <= now
      OBVIOUS
    <3>1. CASE i = n + 1
      BY <3>1, <1>1, <1>5, <1>6
    <3>2. CASE i \in 1 .. n
      BY <3>2, <2>2, <1>5
    <3> QED
      BY <3>1, <3>2, <1>5
  <2>7. \A i \in 1 .. n - m : now - reports'[i].t >= Window
    BY <2>3, <2>4, <1>5
  <2> QED
    BY <2>5, <2>6, <2>7
<1>11. TrendSpansWindow'
  <2>1. p_trend' = Compared(reports'[n + 1].p, reports'[base'].p)
    BY <1>4, <1>5, <1>6, <1>9
  <2>2. \A i \in 1 .. base' - 1 : reports'[n + 1].t - reports'[i].t >= Window
    BY <1>5, <1>6, <1>7, <1>10
  <2>3. Len(reports') = n + 1
    BY <1>5
  <2>4. p_trend' = Compared(reports'[Len(reports')].p, reports'[base'].p)
    BY <2>1, <2>3
  <2>5. \A i \in 1 .. base' - 1 : reports'[Len(reports')].t - reports'[i].t >= Window
    BY <2>2, <2>3
  <2>6. base' \in 1 .. Len(reports')
    BY <2>3, <1>9
  <2> QED
    BY <2>4, <2>5, <2>6 DEF TrendSpansWindow
\* The queue was as long as the reports of some window, so that this window,
\* if no other had more, reaches back to the report after the baseline.
<1>12. TrendRecovers'
  <2>1. CASE m = 0
    BY <2>1, <1>5, <1>7 DEF TrendRecovers
  <2>2. CASE m > 0
    <3>0. trend # <<>>
      BY <2>2 DEF m
    <3>1. PICK i \in 1 .. n : /\ i + m - 1 <= n
                              /\ reports[i + m - 1].t - reports[i].t < Window
      BY <3>0 DEF Inv, Queue, BusiestWindow, n, m
    <3> DEFINE k == m - 1
               l == Len(reports')
    <3>2. /\ i \in 1 .. l /\ k \in 0 .. l - i /\ i + k = i + m - 1
          /\ i + k \in 1 .. n /\ i \in 1 .. n /\ l - k = base' + 1
          /\ k \in Int /\ l \in Int
      BY <3>1, <2>2, <1>3, <1>5, <1>7
    <3>3. AsBusyAsEver' <=>
              \A a \in 1 .. l : \A b \in 0 .. l - a :
                  reports'[a + b].t - reports'[a].t < Window =>
                      reports'[l].t - reports'[l - b].t < Window
      BY DEF AsBusyAsEver
    <3> HIDE DEF k, l
    <3>4. reports'[i + k] = reports[i + m - 1] /\ reports'[i] = reports[i]
      BY <3>2, <1>5
    <3>5. AsBusyAsEver' => reports'[l].t - reports'[l - k].t < Window
      BY <3>1, <3>2, <3>3, <3>4
    <3> QED
      BY <3>2, <3>5 DEF TrendRecovers, l
  <2> QED
    BY <2>1, <2>2, <1>3
\* The tail goes or stays.
<1>13. CASE TooOld(later, all[1])
  <2>1. trend' = Tail(all)
    BY <1>4, <1>13
  <2>2. /\ trend' \in Seq(Samples) /\ Len(trend') = m
        /\ \A i \in 1 .. m : trend'[i] = all[i + 1]
    BY <2>1, <1>3, Shifted
  <2>3. m > 0
    <3>1. ASSUME m = 0 PROVE FALSE
      <4>1. all[1].t = now
        BY <3>1, <1>3, <1>6
      <4> QED
        BY <4>1, <1>1, <1>13 DEF TooOld
    <3> QED
      BY <3>1, <1>3
  <2>4. Gone' = n - m + 1
    BY <2>2, <1>3, <1>5 DEF Gone
  <2>5. Newest'
    <3>1. \A i \in 1 .. Len(trend') : trend'[i] = reports'[Gone' + i]
      <4> SUFFICES ASSUME NEW i \in 1 .. m PROVE trend'[i] = reports'[n - m + (i + 1)]
        BY <2>2, <2>4, <1>3, <1>5
      <4>1. i + 1 \in 1 .. m + 1
        BY <1>3
      <4> QED
        BY <4>1, <2>2, <1>8
    <3>2. trend' # <<>>
      BY <2>2, <2>3
    <3> QED
      BY <3>1, <3>2, <2>4, <1>7, <1>3, <1>5 DEF Newest
  <2>6. Past'
    <3>1. later - reports'[n - m + 1].t >= Window
      BY <1>7, <1>9, <1>13 DEF TooOld
    <3>2. \A i \in 1 .. n - m + 1 : later - reports'[i].t >= Window
      <4> SUFFICES ASSUME NEW i \in 1 .. n - m + 1 PROVE later - reports'[i].t >= Window
        OBVIOUS
      <4>1. CASE i = n - m + 1
        BY <4>1, <3>1
      <4>2. CASE i \in 1 .. n - m
        <5>1. now - reports'[i].t >= Window /\ reports'[i].t \in Int
          BY <4>2, <1>3, <1>5, <1>7, <1>10
        <5> QED
          BY <5>1, <1>1
      <4> QED
        BY <4>1, <4>2, <1>3, <1>5
    <3>3. \A i \in 1 .. n + 1 : reports'[i].t <= later
      BY <1>1, <1>5, <1>10
    <3> QED
      <4>1. now' = later /\ Len(reports') = n + 1 /\ Gone' = n - m + 1
        BY <2>4, <1>4, <1>5
      <4> QED
        BY <4>1, <3>2, <3>3 DEF Past
  <2>7. BusiestWindow'
    <3>0. trend # <<>>
      BY <2>3 DEF m
    <3>1. PICK i \in 1 .. n : /\ i + m - 1 <= n
                              /\ reports[i + m - 1].t - reports[i].t < Window
      BY <3>0 DEF Inv, Queue, BusiestWindow, n, m
    <3>2. i + m - 1 \in 1 .. n
      BY <3>1, <2>3, <1>3, <1>5
    <3>3. reports'[i + m - 1].t - reports'[i].t < Window
      BY <3>1, <3>2, <1>5
    <3> QED
      BY <3>1, <3>3, <2>2, <1>5 DEF BusiestWindow
  <2>9. TypeOK'
    BY <2>2, <1>1, <1>4, <1>5 DEF TypeOK, Inv, Compared
  <2> QED
    BY <2>5, <2>6, <2>7, <2>9, <1>11, <1>12 DEF Queue
<1>14. CASE ~TooOld(later, all[1])
  <2>1. trend' = all
    BY <1>4, <1>14
  <2>2. Gone' = n - m /\ Len(trend') = m + 1
    BY <2>1, <1>3, <1>5 DEF Gone
  <2>3. now - reports'[base'].t < Window
    BY <1>1, <1>9, <1>10, <1>14 DEF TooOld
  <2>4. Newest'
    BY <2>1, <2>2, <1>3, <1>7, <1>8, <1>5 DEF Newest
  <2>5. Past'
    <3>1. \A i \in 1 .. n - m : later - reports'[i].t >= Window
      <4> SUFFICES ASSUME NEW i \in 1 .. n - m PROVE later - reports'[i].t >= Window
        OBVIOUS
      <4>1. now - reports'[i].t >= Window /\ reports'[i].t \in Int
        BY <1>3, <1>5, <1>7, <1>10
      <4> QED
        BY <4>1, <1>1
    <3>2. \A i \in 1 .. n + 1 : reports'[i].t <= later
      BY <1>1, <1>5, <1>10
    <3> QED
      <4>1. now' = later /\ Len(reports') = n + 1 /\ Gone' = n - m
        BY <2>2, <1>4, <1>5
      <4> QED
        BY <4>1, <3>1, <3>2 DEF Past
  <2>6. BusiestWindow'
    <3>1. base' + Len(trend') - 1 = n + 1
      BY <2>2, <1>3, <1>5, <1>7
    <3>2. reports'[base' + Len(trend') - 1].t = now
      BY <3>1, <1>5, <1>6
    <3> QED
      BY <3>1, <3>2, <2>3, <1>5, <1>9 DEF BusiestWindow
  <2>8. TypeOK'
    BY <2>1, <1>1, <1>3, <1>4, <1>5 DEF TypeOK, Inv, Compared
  <2> QED
    BY <2>4, <2>5, <2>6, <2>8, <1>11, <1>12 DEF Queue
<1> QED
  BY <1>13, <1>14

\* DegreesToCardinal returns one of fifteen names, or none.
LEMMA SkyNamed ==
    ASSUME Inv, NEW deg \in Directions, Sky(deg)
    PROVE  /\ winddirection' \in 0 .. 1440
           /\ wind_dir' \in {NoName} \cup {Names[k] : k \in 1 .. 15}
<1>1. deg \in Int /\ 0 <= deg /\ deg <= 1440 /\ winddirection' = deg
  BY DEF Sky
<1>2. ~North(deg)
  BY <1>1 DEF North
<1>3. CASE \E k \in 1 .. 15 : Sector(deg, k)
  <2> DEFINE k == CHOOSE j \in 1 .. 15 : Sector(deg, j)
  <2>1. k \in 1 .. 15
    BY <1>3
  <2>2. wind_dir' = Names[k]
    BY <1>2, <1>3 DEF Sky, DegreesToCardinal
  <2> HIDE DEF k
  <2> QED
    BY <2>1, <2>2, <1>1
<1>4. CASE ~\E k \in 1 .. 15 : Sector(deg, k)
  BY <1>2, <1>4 DEF Sky, DegreesToCardinal
<1> QED
  BY <1>1, <1>3, <1>4

\* Everything the queue's invariant reads is as it was, or later.
LEMMA QueueKept ==
    ASSUME Inv, UNCHANGED <<trend, p_trend, reports, base>>, now' \in Int, now' >= now
    PROVE  Queue'
<1>1. /\ reports \in Seq(Samples) /\ now \in Int
      /\ \A i \in 1 .. Len(reports) : reports[i].t \in Int
  <2>1. reports \in Seq(Samples) /\ now \in Int
    BY DEF Inv, TypeOK
  <2>2. \A i \in 1 .. Len(reports) : reports[i] \in Samples
    BY <2>1
  <2> QED
    BY <2>1, <2>2 DEF Samples
<1>2. Gone' = Gone /\ Gone \in Int /\ Gone <= Len(reports)
  BY DEF Inv, Queue, Newest, Gone, TypeOK
<1>3. Past'
  <2>1. Past /\ Len(reports') = Len(reports) /\ Len(reports) \in Nat
    BY <1>1 DEF Inv, Queue
  <2>2. \A i \in 1 .. Len(reports) : reports[i].t <= now'
    BY <1>1, <2>1 DEF Past
  <2>3. ASSUME NEW i \in 1 .. Gone PROVE now' - reports[i].t >= Window
    <3>1. now - reports[i].t >= Window /\ reports[i].t \in Int
      BY <1>1, <1>2, <2>1, <2>3 DEF Past
    <3> QED
      BY <3>1, <1>1
  <2> QED
    BY <1>2, <2>2, <2>3 DEF Past
<1>4. Newest' /\ TrendSpansWindow' /\ BusiestWindow'
  BY <1>2 DEF Inv, Queue, Newest, TrendSpansWindow, BusiestWindow
<1>5. TrendRecovers'
  BY DEF Inv, Queue, TrendRecovers, AsBusyAsEver
<1> QED
  BY <1>3, <1>4, <1>5 DEF Queue

LEMMA InvStep == Inv /\ [Next]_vars => Inv'
<1> SUFFICES ASSUME Inv, [Next]_vars PROVE Inv'
  OBVIOUS
<1>1. ASSUME NEW p \in Pressures, NEW later \in {now, now + 1}, later <= MaxNow, Air(p, later)
      PROVE  Inv'
  BY <1>1, AirQueue DEF Inv
<1>2. ASSUME NEW deg \in Directions, Sky(deg) PROVE Inv'
  <2>1. UNCHANGED <<now, trend, p_trend, reports, base>> /\ now \in Int
    BY <1>2 DEF Sky, Inv, TypeOK
  <2>2. Queue'
    BY <2>1, QueueKept
  <2> QED
    BY <1>2, <2>1, <2>2, SkyNamed DEF Inv, TypeOK
<1>3. CASE Tick
  <2>1. /\ now' \in 0 .. MaxNow /\ now' >= now
        /\ UNCHANGED <<trend, p_trend, winddirection, wind_dir, reports, base>>
    BY <1>3 DEF Tick, Inv, TypeOK
  <2>2. Queue'
    BY <2>1, QueueKept
  <2> QED
    BY <2>1, <2>2 DEF Inv, TypeOK
<1>4. CASE Restart
  <2>1. reports' = <<>> /\ trend' = <<>> /\ Len(reports') = 0 /\ Len(trend') = 0
    BY <1>4 DEF Restart
  <2>2. Queue'
    BY <2>1 DEF Queue, Newest, Past, TrendSpansWindow, BusiestWindow, TrendRecovers, Gone
  <2> QED
    BY <1>4, <2>2 DEF Restart, Inv, TypeOK
<1>5. CASE UNCHANGED vars
  <2>1. /\ UNCHANGED <<trend, p_trend, reports, base, winddirection, wind_dir, now>>
        /\ now \in Int
    BY <1>5 DEF vars, Inv, TypeOK
  <2>2. Queue'
    BY <2>1, QueueKept
  <2> QED
    BY <2>1, <2>2 DEF Inv, TypeOK
<1> QED
  BY <1>1, <1>2, <1>3, <1>4, <1>5 DEF Next

LEMMA InvAlways == Spec => []Inv
BY InvInit, InvStep, PTL DEF Spec
-----------------------------------------------------------------------------
\* The trend and the text of the wind that wfp-util.c computes have their types.
THEOREM TypeCorrect == Spec => []TypeOK
BY InvAlways, PTL DEF Inv

\* The queue of calc_pressure_trend (wfp-util.c:270-323) is the newest reports,
\* and its tail is never NULL after a report.
THEOREM QueueIsNewest == Spec => []Newest
BY InvAlways, PTL DEF Inv, Queue

\* The trend is always over three hours or all there is (wfp-util.c:303-307),
\* however irregularly packets come.
THEOREM TrendSpans == Spec => []TrendSpansWindow
BY InvAlways, PTL DEF Inv, Queue

\* One sample is freed per report at most (wfp-util.c:309-315), and still the
\* queue stays bounded by the busiest three hours.
THEOREM QueueBounded == Spec => []BusiestWindow
BY InvAlways, PTL DEF Inv, Queue

\* As each report drops at most one sample that is too old (wfp-util.c:307), the
\* trend after an outage is over more than three hours; it is over three again
\* as soon as reports come as often as they ever did.
THEOREM TrendIsRecovered == Spec => []TrendRecovers
BY InvAlways, PTL DEF Inv, Queue
=============================================================================
