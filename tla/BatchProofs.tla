---------------------------- MODULE BatchProofs ----------------------------
(***************************************************************************)
(* Proofs about Batch, for every period, number of threads and bound:      *)
(*   - the state has its type, because a count never exceeds the number of *)
(*     records taken, however updates overlap;                             *)
(*   - a service that returns from update leaves no copy behind;           *)
(*   - while updates do not overlap, averages are exact, and messages a    *)
(*     period apart unless localtime's buffer showed another time.         *)
(***************************************************************************)
EXTENDS Batch, FiniteSetTheorems, TLAPS

USE ServicesAssumption, PeriodAssumption, MaxRecordAssumption,
    MaxMinuteAssumption, MaxSkewAssumption
-----------------------------------------------------------------------------
(***************************************************************************)
(* Types and ownership.                                                    *)
(***************************************************************************)

\* TypeOK with the counts only known to be numbers.
Types ==
    /\ service \in Services
    /\ now \in 0 .. MaxMinute /\ tm \in 0 .. MaxMinute + MaxSkew
    /\ records \in 0 .. MaxRecord
    /\ pc \in [Threads -> Labels]
    /\ id \in [Threads -> 0 .. MaxRecord]
    /\ due \in [Threads -> 0 .. MaxMinute + MaxSkew]
    /\ asked \in [Threads -> 0 .. MaxMinute]
    /\ reg \in [Threads -> [sum : SUBSET (1 .. MaxRecord), count : Nat]]
    /\ count \in Nat
    /\ sum \subseteq 1 .. MaxRecord /\ held \subseteq 1 .. MaxRecord
    /\ taken \subseteq 1 .. MaxRecord /\ published \subseteq 1 .. MaxRecord
    /\ misread \subseteq 1 .. MaxRecord
    /\ lastDue \in {-Period[service]} \cup 0 .. MaxMinute + MaxSkew
    /\ overlapped \in BOOLEAN

\* Threads that run have different records, none of a later number.
Owners ==
    /\ \A t \in Threads : pc[t] # "idle" => id[t] \in 1 .. records
    /\ \A t, u \in Threads :
         pc[t] # "idle" /\ pc[u] # "idle" /\ id[t] = id[u] => t = u

\* A record is counted once.
Uncounted == {"test", "load", "store", "loadCount", "storeCount"}
CountedOnce ==
    /\ taken \subseteq 1 .. records
    /\ \A t \in Threads : pc[t] \in Uncounted => id[t] \notin taken

\* No count, in memory or loaded, exceeds the number of records taken.
CountBound ==
    /\ count <= Cardinality(taken)
    /\ \A t \in Threads : reg[t].count <= Cardinality(taken)

LEMMA NothingType == Nothing \in [sum : SUBSET (1 .. MaxRecord), count : Nat]
BY DEF Nothing

LEMMA TypesInit == Init => Types
<1> SUFFICES ASSUME Init PROVE Types
  OBVIOUS
<1>1. reg \in [Threads -> [sum : SUBSET (1 .. MaxRecord), count : Nat]]
  BY NothingType DEF Init
<1>2. pc \in [Threads -> Labels]
  BY DEF Init, Labels
<1>3. 0 \in 0 .. MaxRecord /\ 0 \in 0 .. MaxMinute
      /\ 0 .. MaxMinute \subseteq 0 .. MaxMinute + MaxSkew
  OBVIOUS
<1>4. /\ records \in 0 .. MaxRecord /\ now \in 0 .. MaxMinute
      /\ tm \in 0 .. MaxMinute + MaxSkew
      /\ id \in [Threads -> 0 .. MaxRecord]
      /\ due \in [Threads -> 0 .. MaxMinute + MaxSkew]
      /\ asked \in [Threads -> 0 .. MaxMinute]
  BY <1>3 DEF Init
<1>5. /\ count \in Nat /\ overlapped \in BOOLEAN /\ service \in Services
      /\ sum \subseteq 1 .. MaxRecord /\ held \subseteq 1 .. MaxRecord
      /\ taken \subseteq 1 .. MaxRecord /\ published \subseteq 1 .. MaxRecord
      /\ misread \subseteq 1 .. MaxRecord
      /\ lastDue \in {-Period[service]} \cup 0 .. MaxMinute + MaxSkew
  BY DEF Init
<1> QED
  BY <1>1, <1>2, <1>4, <1>5 DEF Types

LEMMA TypesStep == Types /\ Owners /\ [Next]_vars => Types'
<1> SUFFICES ASSUME Types, Owners, [Next]_vars PROVE Types'
  OBVIOUS
<1> DEFINE Locals ==
             /\ pc \in [Threads -> Labels]
             /\ due \in [Threads -> 0 .. MaxMinute + MaxSkew]
             /\ reg \in [Threads -> [sum : SUBSET (1 .. MaxRecord), count : Nat]]
<1>0. ASSUME NEW t \in Threads, Ends(t) PROVE Locals'
  BY <1>0, NothingType DEF Ends, Goto, Types, Labels
<1> USE DEF Types, Goto, Release, Leak, timeVars, ghostVars
<1>1. ASSUME NEW t \in Threads, Start(t) PROVE Types'
  BY <1>1 DEF Start, Labels
<1>2. ASSUME NEW t \in Threads, Test(t) PROVE Types'
  <2>1. misread' \subseteq 1 .. MaxRecord
    <3>1. pc[t] # "idle"
      BY <1>2 DEF Test
    <3>2. id[t] \in 1 .. MaxRecord
      BY <3>1 DEF Owners
    <3> QED
      BY <1>2, <3>2 DEF Test
  <2>2. pc' \in [Threads -> Labels]
    BY <1>2 DEF Test, Labels
  <2>3. /\ due' \in [Threads -> 0 .. MaxMinute + MaxSkew]
        /\ asked' \in [Threads -> 0 .. MaxMinute]
    BY <1>2 DEF Test
  <2> QED
    BY <1>2, <2>1, <2>2, <2>3 DEF Test
<1>3. ASSUME NEW t \in Threads, LoadSum(t) PROVE Types'
  BY <1>3 DEF LoadSum, Labels
<1>4. ASSUME NEW t \in Threads, StoreSum(t) PROVE Types'
  <2>1. pc' \in [Threads -> Labels]
    BY <1>4 DEF StoreSum, Labels
  <2>2. sum' \subseteq 1 .. MaxRecord
    <3>1. pc[t] # "idle"
      BY <1>4 DEF StoreSum
    <3>2. id[t] \in 1 .. MaxRecord
      BY <3>1 DEF Owners
    <3>3. reg[t].sum \subseteq 1 .. MaxRecord
      OBVIOUS
    <3> QED
      BY <1>4, <3>2, <3>3 DEF StoreSum
  <2> QED
    BY <1>4, <2>1, <2>2 DEF StoreSum
<1>5. ASSUME NEW t \in Threads, LoadCount(t) PROVE Types'
  BY <1>5 DEF LoadCount, Labels
<1>6. ASSUME NEW t \in Threads, StoreCount(t) PROVE Types'
  <2>1. pc[t] # "idle"
    BY <1>6 DEF StoreCount
  <2>2. id[t] \in 1 .. MaxRecord
    BY <2>1 DEF Owners
  <2>3. taken' \subseteq 1 .. MaxRecord
    BY <1>6, <2>2 DEF StoreCount
  <2>4. held' \subseteq 1 .. MaxRecord
    BY <1>6 DEF StoreCount
  <2>5. reg[t].count \in Nat
    OBVIOUS
  <2>6. count' \in Nat
    BY <1>6, <2>5 DEF StoreCount
  <2>7. Locals'
    BY <1>0, <1>6 DEF StoreCount
  <2> QED
    BY <1>6, <2>3, <2>4, <2>6, <2>7 DEF StoreCount
<1>7. ASSUME NEW t \in Threads, Skip(t) PROVE Types'
  <2>1. Locals'
    BY <1>0, <1>7 DEF Skip
  <2> QED
    BY <1>7, <2>1 DEF Skip
<1>8. ASSUME NEW t \in Threads, FormatSum(t) PROVE Types'
  BY <1>8 DEF FormatSum, Labels
<1>9. ASSUME NEW t \in Threads, FormatCount(t) PROVE Types'
  BY <1>9 DEF FormatCount, Labels
<1>10. ASSUME NEW t \in Threads, SendReturns(t) PROVE Types'
  BY <1>10 DEF SendReturns, Labels
<1>11. ASSUME NEW t \in Threads, ResetCount(t) PROVE Types'
  BY <1>11 DEF ResetCount, Labels
<1>12. ASSUME NEW t \in Threads, ResetSum(t) PROVE Types'
  <2>1. Locals'
    BY <1>0, <1>12 DEF ResetSum
  <2> QED
    BY <1>12, <2>1 DEF ResetSum
<1>13. CASE Minute
  BY <1>13 DEF Minute
<1>14. CASE Localtime
  BY <1>14 DEF Localtime
<1>15. CASE UNCHANGED vars
  BY <1>15 DEF vars
<1> QED
  BY <1>1, <1>2, <1>3, <1>4, <1>5, <1>6, <1>7, <1>8, <1>9, <1>10, <1>11,
     <1>12, <1>13, <1>14, <1>15 DEF Next, Update

\* Every step of a thread but its first moves the thread on and leaves the
\* numbers of the records alone.
Later(t) ==
    /\ pc[t] # "idle"
    /\ \E label \in Labels : Goto(t, label)
    /\ UNCHANGED <<service, id, records, overlapped>>

LEMMA LaterSteps == \A t \in Threads : Update(t) => Start(t) \/ Later(t)
<1> SUFFICES ASSUME NEW t \in Threads, Update(t) PROVE Start(t) \/ Later(t)
  OBVIOUS
<1> USE DEF Later, Labels, Ends, timeVars, ghostVars
<1>1. ASSUME Test(t) \/ LoadSum(t) \/ StoreSum(t) PROVE Later(t)
  BY <1>1 DEF Test, LoadSum, StoreSum
<1>2. ASSUME LoadCount(t) \/ StoreCount(t) \/ Skip(t) PROVE Later(t)
  BY <1>2 DEF LoadCount, StoreCount, Skip
<1>3. ASSUME FormatSum(t) \/ FormatCount(t) \/ SendReturns(t) PROVE Later(t)
  BY <1>3 DEF FormatSum, FormatCount, SendReturns
<1>4. ASSUME ResetCount(t) \/ ResetSum(t) PROVE Later(t)
  BY <1>4 DEF ResetCount, ResetSum
<1> QED
  BY <1>1, <1>2, <1>3, <1>4 DEF Update

\* The steps that are no thread's.
Elsewhere == Minute \/ Localtime \/ UNCHANGED vars

LEMMA OwnersInit == Init => Owners
BY DEF Init, Owners

LEMMA OwnersStep == Types /\ Owners /\ [Next]_vars => Owners'
<1> SUFFICES ASSUME Types, Owners, [Next]_vars PROVE Owners'
  OBVIOUS
<1> USE DEF Types, Owners, Goto
<1>1. ASSUME NEW t \in Threads, Start(t) PROVE Owners'
  BY <1>1 DEF Start, timeVars
<1>2. ASSUME NEW t \in Threads, Later(t) PROVE Owners'
  BY <1>2 DEF Later
<1>3. CASE Elsewhere
  BY <1>3 DEF Elsewhere, Minute, Localtime, vars, timeVars
<1> QED
  BY <1>1, <1>2, <1>3, LaterSteps DEF Next, Elsewhere

LEMMA ReleasedInit == Init => CopiesReleased
BY DEF Init, CopiesReleased

LEMMA ReleasedStep ==
    Types /\ Owners /\ CopiesReleased /\ [Next]_vars => CopiesReleased'
<1>a. [Next]_vars => UNCHANGED service
  BY LaterSteps DEF Next, Later, Start, Minute, Localtime, vars, timeVars
<1> SUFFICES ASSUME Types, Owners, CopiesReleased, ~Exits, [Next]_vars
             PROVE  CopiesReleased'
  BY <1>a DEF CopiesReleased, Exits
<1> DEFINE Running == {u \in Threads : pc[u] # "idle"}
           Owned == {id[t] : t \in Running}
<1>0. held = Owned
  BY DEF CopiesReleased
<1> USE DEF Types, Owners, Goto
<1>1. ASSUME NEW t \in Threads, Start(t) PROVE held' = Owned'
  <2>1. /\ id' = [id EXCEPT ![t] = records'] /\ held' = held \cup {records'}
        /\ pc' = [pc EXCEPT ![t] = "test"] /\ pc[t] = "idle"
    BY <1>1 DEF Start
  <2> QED
    BY <1>0, <2>1
\* The thread ends and releases its copy, no other thread's.
<1>2. ASSUME NEW t \in Threads, pc[t] # "idle", Goto(t, "idle"), Release(t),
             UNCHANGED id
      PROVE  held' = Owned'
  BY <1>0, <1>2 DEF Release
\* The thread goes on.
<1>3. ASSUME NEW t \in Threads, pc[t] # "idle",
             NEW label \in Labels \ {"idle"}, Goto(t, label),
             UNCHANGED <<id, held>>
      PROVE  held' = Owned'
  BY <1>0, <1>3
<1>4. ASSUME NEW t \in Threads, Update(t) PROVE held' = Owned'
  <2> USE DEF Labels, timeVars, ghostVars
  <2>1. ASSUME Test(t) \/ LoadSum(t) \/ StoreSum(t) \/ LoadCount(t)
        PROVE  held' = Owned'
    <3>1. /\ pc[t] # "idle" /\ UNCHANGED <<id, held>>
          /\ \E label \in Labels \ {"idle"} : Goto(t, label)
      BY <2>1 DEF Test, LoadSum, StoreSum, LoadCount
    <3> QED
      BY <3>1, <1>3
  <2>2. ASSUME FormatSum(t) \/ FormatCount(t) \/ SendReturns(t) \/ ResetCount(t)
        PROVE  held' = Owned'
    <3>1. /\ pc[t] # "idle" /\ UNCHANGED <<id, held>>
          /\ \E label \in Labels \ {"idle"} : Goto(t, label)
      BY <2>2 DEF FormatSum, FormatCount, SendReturns, ResetCount
    <3> QED
      BY <3>1, <1>3
  <2>3. ASSUME StoreCount(t) \/ Skip(t) \/ ResetSum(t) PROVE held' = Owned'
    <3>1. pc[t] # "idle" /\ UNCHANGED id /\ Goto(t, "idle") /\ Release(t)
      BY <2>3 DEF StoreCount, Skip, ResetSum, Ends
    <3> QED
      BY <3>1, <1>2
  <2> QED
    BY <1>1, <1>4, <2>1, <2>2, <2>3 DEF Update
<1>5. ASSUME Elsewhere PROVE held' = Owned'
  BY <1>0, <1>5 DEF Elsewhere, Minute, Localtime, vars, timeVars
<1> QED
  BY <1>4, <1>5 DEF Next, Elsewhere, CopiesReleased
-----------------------------------------------------------------------------
(***************************************************************************)
(* Counts.                                                                 *)
(***************************************************************************)

\* The records taken are finitely many.
LEMMA TakenFinite ==
    ASSUME Types, CountedOnce
    PROVE  IsFiniteSet(taken) /\ Cardinality(taken) \in 0 .. MaxRecord
<1>1. /\ IsFiniteSet(1 .. MaxRecord)
      /\ Cardinality(1 .. MaxRecord) = MaxRecord
  BY FS_Interval
<1>2. /\ IsFiniteSet(taken)
      /\ Cardinality(taken) <= Cardinality(1 .. MaxRecord)
  BY <1>1, FS_Subset DEF Types
<1> QED
  BY <1>1, <1>2, FS_CardinalityType

LEMMA CountedInit == Init => CountedOnce
BY DEF Init, CountedOnce, Uncounted

LEMMA CountedStep ==
    Types /\ Owners /\ CountedOnce /\ [Next]_vars => CountedOnce'
<1> SUFFICES ASSUME Types, Owners, CountedOnce, [Next]_vars
             PROVE  CountedOnce'
  OBVIOUS
<1> USE DEF Types, Owners, CountedOnce, Uncounted, Goto
<1>1. ASSUME NEW t \in Threads, Start(t) PROVE CountedOnce'
  BY <1>1 DEF Start
\* A step that does not count, and does not bring a thread to Uncounted.
<1>2. ASSUME NEW t \in Threads, Later(t), UNCHANGED taken,
             pc'[t] \in Uncounted => pc[t] \in Uncounted
      PROVE  CountedOnce'
  BY <1>2 DEF Later
<1>3. ASSUME NEW t \in Threads, StoreCount(t) PROVE CountedOnce'
  <2>1. /\ pc[t] = "storeCount" /\ pc' = [pc EXCEPT ![t] = "idle"]
        /\ taken' = taken \cup {id[t]} /\ UNCHANGED <<id, records>>
    BY <1>3 DEF StoreCount, Ends
  <2> QED
    BY <2>1
<1>4. ASSUME NEW t \in Threads, Update(t) PROVE CountedOnce'
  <2> USE DEF ghostVars, Ends
  <2>1. ASSUME Test(t) \/ LoadSum(t) \/ StoreSum(t) \/ LoadCount(t)
        PROVE  UNCHANGED taken /\ pc[t] \in Uncounted /\ ~Start(t)
    BY <2>1 DEF Test, LoadSum, StoreSum, LoadCount, Start
  <2>2. ASSUME FormatSum(t) \/ FormatCount(t) \/ SendReturns(t)
        PROVE  UNCHANGED taken /\ pc'[t] \notin Uncounted /\ ~Start(t)
    BY <2>2 DEF FormatSum, FormatCount, SendReturns, Start
  <2>3. ASSUME Skip(t) \/ ResetCount(t) \/ ResetSum(t)
        PROVE  UNCHANGED taken /\ pc'[t] \notin Uncounted /\ ~Start(t)
    BY <2>3 DEF Skip, ResetCount, ResetSum, Start
  <2> QED
    BY <1>1, <1>2, <1>3, <1>4, <2>1, <2>2, <2>3, LaterSteps DEF Update
<1>5. CASE Elsewhere
  BY <1>5 DEF Elsewhere, Minute, Localtime, vars, ghostVars
<1> QED
  BY <1>4, <1>5 DEF Next, Elsewhere

LEMMA BoundInit == Init => CountBound
<1> SUFFICES ASSUME Init PROVE CountBound
  OBVIOUS
<1>1. Cardinality(taken) = 0
  BY FS_EmptySet DEF Init
<1>2. \A t \in Threads : reg[t].count = 0
  BY DEF Init, Nothing
<1> QED
  BY <1>1, <1>2 DEF Init, CountBound

LEMMA BoundStep ==
    Types /\ Owners /\ CountedOnce /\ CountBound /\ [Next]_vars => CountBound'
<1> SUFFICES ASSUME Types, Owners, CountedOnce, CountBound, [Next]_vars
             PROVE  CountBound'
  OBVIOUS
<1> DEFINE n == Cardinality(taken)
<1>0. n \in Nat /\ IsFiniteSet(taken)
  BY TakenFinite
<1> USE DEF Types, CountBound
<1>1. ASSUME NEW t \in Threads, StoreCount(t) PROVE CountBound'
  <2>1. id[t] \notin taken /\ taken' = taken \cup {id[t]}
        /\ count' = reg[t].count + 1 /\ reg' = [reg EXCEPT ![t] = Nothing]
    BY <1>1 DEF StoreCount, CountedOnce, Uncounted, Ends
  <2>2. Cardinality(taken') = n + 1
    BY <1>0, <2>1, FS_AddElement
  <2>3. \A u \in Threads : reg[u].count \in Nat /\ reg[u].count <= n
    OBVIOUS
  <2>4. count \in Nat /\ reg[t].count \in Nat /\ reg[t].count + 1 <= n + 1
    BY <1>0, <2>3
  <2>5. count' <= Cardinality(taken')
    BY <2>1, <2>2, <2>4
  <2>6. \A u \in Threads : reg'[u].count <= Cardinality(taken')
    BY <1>0, <2>1, <2>2, <2>3 DEF Nothing
  <2> QED
    BY <2>5, <2>6
<1>2. ASSUME NEW t \in Threads, LoadCount(t) \/ FormatCount(t) PROVE CountBound'
  <2>1. reg' = [reg EXCEPT ![t].count = count] /\ UNCHANGED <<count, taken>>
    BY <1>2 DEF LoadCount, FormatCount, ghostVars
  <2> QED
    BY <1>0, <2>1
<1>3. ASSUME NEW t \in Threads, LoadSum(t) \/ FormatSum(t) PROVE CountBound'
  <2>1. reg' = [reg EXCEPT ![t].sum = sum] /\ UNCHANGED <<count, taken>>
    BY <1>3 DEF LoadSum, FormatSum, ghostVars
  <2> QED
    BY <1>0, <2>1
<1>4. ASSUME NEW t \in Threads, ResetCount(t) PROVE CountBound'
  <2>1. count' = 0 /\ UNCHANGED <<reg, taken>>
    BY <1>4 DEF ResetCount, ghostVars
  <2> QED
    BY <1>0, <2>1
<1>5. ASSUME UNCHANGED <<count, reg, taken>> PROVE CountBound'
  BY <1>5
<1>6. ASSUME NEW t \in Threads, Start(t) \/ Test(t) \/ StoreSum(t) PROVE CountBound'
  BY <1>6, <1>5 DEF Start, Test, StoreSum, ghostVars
<1>7. ASSUME NEW t \in Threads, SendReturns(t) PROVE CountBound'
  BY <1>7, <1>5 DEF SendReturns
<1>9. ASSUME NEW t \in Threads, Skip(t) \/ ResetSum(t) PROVE CountBound'
  <2>1. reg' = [reg EXCEPT ![t] = Nothing] /\ UNCHANGED <<count, taken>>
    BY <1>9 DEF Skip, ResetSum, Ends, ghostVars
  <2> QED
    BY <1>0, <2>1 DEF Nothing
<1>8. CASE Elsewhere
  BY <1>8, <1>5 DEF Elsewhere, Minute, Localtime, vars, ghostVars
<1> QED
  BY <1>1, <1>2, <1>3, <1>4, <1>6, <1>7, <1>8, <1>9 DEF Next, Update, Elsewhere

\* Types, owners, counts and copies are inductive together.
Base == Types /\ Owners /\ CountedOnce /\ CountBound /\ CopiesReleased

LEMMA BaseInvariant == Spec => []Base
<1>1. Init => Base
  BY TypesInit, OwnersInit, CountedInit, BoundInit, ReleasedInit DEF Base
<1>2. Base /\ [Next]_vars => Base'
  BY TypesStep, OwnersStep, CountedStep, BoundStep, ReleasedStep DEF Base
<1> QED
  BY <1>1, <1>2, PTL DEF Spec

\* TypeOK is an invariant; in particular the static count of a batching service
\* stays a number of records that came, however its updates overlap.
THEOREM TypeCorrect == Spec => []TypeOK
<1>1. Base => TypeOK
  <2> SUFFICES ASSUME Base PROVE TypeOK
    OBVIOUS
  <2> USE DEF Base, Types
  <2>1. Cardinality(taken) \in 0 .. MaxRecord
    BY TakenFinite
  <2>2. count \in 0 .. MaxRecord
    BY <2>1 DEF CountBound
  <2>3. \A t \in Threads : reg[t].count \in 0 .. MaxRecord
    BY <2>1 DEF CountBound
  <2>4. reg \in [Threads -> [sum : SUBSET (1 .. MaxRecord),
                            count : 0 .. MaxRecord]]
    BY <2>3
  <2> QED
    BY <2>2, <2>4 DEF TypeOK
<1> QED
  BY <1>1, BaseInvariant, PTL

\* CopiesReleased is an invariant: whatever the interleaving, a service that
\* returns from update leaves no copy behind.
THEOREM ReturningReleases == Spec => []CopiesReleased
BY BaseInvariant, PTL DEF Base
-----------------------------------------------------------------------------
(***************************************************************************)
(* Averages.  Between updates the count is the number of records in the    *)
(* sums, and these are the records taken and not yet published; the one    *)
(* thread that runs departs from that in a way its place in the code tells.*)
(***************************************************************************)

Alone ==
    \A t, u \in Threads : pc[t] # "idle" /\ pc[u] # "idle" => t = u

Settled == sum = taken \ published /\ count = Cardinality(sum)

\* Where a thread has not departed from Settled.
Quiet == {"idle", "test", "load", "store", "check", "divide", "sending"}

\* What is known of a thread from its place.
Place(t) ==
    /\ pc[t] \in {"store", "divide", "sending"} => reg[t].sum = sum
    /\ pc[t] \in {"loadCount", "storeCount"} =>
         /\ sum = (taken \ published) \cup {id[t]}
         /\ count = Cardinality(taken \ published)
    /\ pc[t] \in {"storeCount", "sending"} => reg[t].count = count
    /\ pc[t] \in {"divide", "sending"} => count # 0
    /\ pc[t] \in {"resetCount", "resetSum"} => taken \subseteq published
    /\ pc[t] = "resetSum" => count = 0

Sequential ==
    /\ Alone
    /\ published \subseteq taken
    /\ (\A t \in Threads : pc[t] \in Quiet) => Settled
    /\ \A t \in Threads : Place(t)

LEMMA SequentialInit == Init => Sequential
<1> SUFFICES ASSUME Init PROVE Sequential
  OBVIOUS
<1>1. \A t \in Threads : pc[t] = "idle"
  BY DEF Init
<1>2. sum = {} /\ taken = {} /\ published = {} /\ count = Cardinality(sum)
  BY FS_EmptySet DEF Init
<1> QED
  BY <1>1, <1>2 DEF Sequential, Alone, Settled, Place

\* The first step of a thread, when no other runs.
LEMMA SequentialStart ==
    ASSUME Types, Sequential, NEW t \in Threads, Start(t), ~overlapped'
    PROVE  Sequential'
<1>1. \A u \in Threads : pc[u] = "idle"
  BY DEF Start
<1>2. \A u \in Threads : pc'[u] = IF u = t THEN "test" ELSE "idle"
  BY <1>1 DEF Start, Goto, Types
<1>3. Settled
  BY <1>1 DEF Sequential, Quiet
<1>4. UNCHANGED <<reg, sum, count, taken, published>>
  BY DEF Start
<1> QED
  BY <1>2, <1>3, <1>4 DEF Sequential, Alone, Settled, Place

\* A later step: the other threads are idle, and only what t's place tells
\* has to be shown again.
LEMMA SequentialFrame ==
    ASSUME Types, Sequential, NEW t \in Threads, Later(t),
           (published \subseteq taken)', pc'[t] \in Quiet => Settled', Place(t)'
    PROVE  Sequential'
<1>1. \A u \in Threads : u # t => pc[u] = "idle" /\ pc'[u] = "idle"
  BY DEF Sequential, Alone, Later, Goto, Types
<1>2. Alone'
  BY <1>1 DEF Alone
<1>3. \A u \in Threads : Place(u)'
  BY <1>1 DEF Place
<1>4. (\A u \in Threads : pc[u] \in Quiet)' => Settled'
  OBVIOUS
<1> QED
  BY <1>2, <1>3, <1>4 DEF Sequential

\* Before a later step the places of the others do not matter for Settled.
LEMMA SettledBefore ==
    ASSUME Types, Sequential, NEW t \in Threads, pc[t] # "idle",
           pc[t] \in Quiet
    PROVE  Settled
BY DEF Sequential, Alone, Quiet

LEMMA SequentialLater ==
    ASSUME Base, Sequential, NEW t \in Threads, Update(t), Later(t)
    PROVE  Sequential'
<1> USE DEF Base, Types
<1> DEFINE open == taken \ published
<1>0. /\ IsFiniteSet(open) /\ Cardinality(open) \in Nat
      /\ open = {} <=> Cardinality(open) = 0
  BY TakenFinite, FS_Subset, FS_CardinalityType, FS_EmptySet
<1>p. published \subseteq taken /\ Place(t) /\ pc[t] # "idle"
  BY DEF Sequential, Later
<1>s. pc[t] \in Quiet => Settled
  BY <1>p, SettledBefore
<1>f. ASSUME (published \subseteq taken)', pc'[t] \in Quiet => Settled',
             Place(t)'
      PROVE  Sequential'
  BY <1>f, SequentialFrame
<1>1. CASE Test(t)
  <2>1. /\ pc[t] = "test" /\ pc'[t] \in {"load", "check"}
        /\ UNCHANGED <<reg, sum, count, taken, published, id>>
    BY <1>1 DEF Test, Goto, ghostVars
  <2> QED
    BY <1>f, <1>p, <1>s, <2>1 DEF Quiet, Settled, Place
<1>2. CASE LoadSum(t)
  <2>1. /\ pc[t] = "load" /\ pc'[t] = "store" /\ reg'[t].sum = sum
        /\ UNCHANGED <<sum, count, taken, published, id>>
    BY <1>2 DEF LoadSum, Goto, ghostVars
  <2> QED
    BY <1>f, <1>p, <1>s, <2>1 DEF Quiet, Settled, Place
<1>3. CASE StoreSum(t)
  <2>1. /\ pc[t] = "store" /\ pc'[t] = "loadCount"
        /\ sum' = reg[t].sum \cup {id[t]}
        /\ UNCHANGED <<reg, count, taken, published, id>>
    BY <1>3 DEF StoreSum, Goto, ghostVars
  <2> QED
    BY <1>f, <1>p, <1>s, <2>1 DEF Quiet, Settled, Place
<1>4. CASE LoadCount(t)
  <2>1. /\ pc[t] = "loadCount" /\ pc'[t] = "storeCount"
        /\ reg'[t].count = count
        /\ UNCHANGED <<sum, count, taken, published, id>>
    BY <1>4 DEF LoadCount, Goto, ghostVars
  <2> QED
    BY <1>f, <1>p, <2>1 DEF Quiet, Place
<1>5. CASE StoreCount(t)
  <2>1. /\ pc[t] = "storeCount" /\ pc'[t] = "idle"
        /\ count' = reg[t].count + 1 /\ taken' = taken \cup {id[t]}
        /\ UNCHANGED <<sum, published, id>>
    BY <1>5 DEF StoreCount, Ends, Goto
  <2>2. id[t] \notin taken
    BY <2>1 DEF CountedOnce, Uncounted
  <2>3. sum = open \cup {id[t]} /\ count' = Cardinality(open) + 1
    BY <1>p, <2>1 DEF Place
  <2>4. Cardinality(sum) = Cardinality(open) + 1
    BY <1>0, <2>2, <2>3, FS_AddElement
  <2>5. sum' = (taken \ published)'
    BY <1>p, <2>1, <2>2, <2>3
  <2> QED
    BY <1>f, <1>p, <2>1, <2>3, <2>4, <2>5 DEF Settled, Place
<1>6. CASE Skip(t)
  <2>1. /\ pc[t] = "check" /\ pc'[t] = "idle"
        /\ UNCHANGED <<sum, count, taken, published, id>>
    BY <1>6 DEF Skip, Ends, Goto, ghostVars
  <2> QED
    BY <1>f, <1>p, <1>s, <2>1 DEF Quiet, Settled, Place
<1>7. CASE FormatSum(t)
  <2>1. /\ pc[t] = "check" /\ pc'[t] = "divide" /\ reg'[t].sum = sum
        /\ count # 0 /\ UNCHANGED <<sum, count, taken, published, id>>
    BY <1>7 DEF FormatSum, Goto, ghostVars
  <2> QED
    BY <1>f, <1>p, <1>s, <2>1 DEF Quiet, Settled, Place
<1>8. CASE FormatCount(t)
  <2>1. /\ pc[t] = "divide" /\ pc'[t] = "sending"
        /\ reg'[t].count = count /\ reg'[t].sum = reg[t].sum
        /\ UNCHANGED <<sum, count, taken, published, id>>
    BY <1>8 DEF FormatCount, Goto, ghostVars
  <2> QED
    BY <1>f, <1>p, <1>s, <2>1 DEF Quiet, Settled, Place
<1>9. CASE SendReturns(t)
  <2>1. /\ pc[t] = "sending" /\ pc'[t] = "resetCount"
        /\ published' = published \cup reg[t].sum
        /\ UNCHANGED <<reg, sum, count, taken, id>>
    BY <1>9 DEF SendReturns, Goto
  <2>2. reg[t].sum = taken \ published
    BY <1>p, <1>s, <2>1 DEF Quiet, Settled, Place
  <2> QED
    BY <1>f, <1>p, <2>1, <2>2 DEF Quiet, Place
<1>10. CASE ResetCount(t)
  <2>1. /\ pc[t] = "resetCount" /\ pc'[t] = "resetSum" /\ count' = 0
        /\ UNCHANGED <<reg, sum, taken, published, id>>
    BY <1>10 DEF ResetCount, Goto, ghostVars
  <2> QED
    BY <1>f, <1>p, <2>1 DEF Quiet, Place
<1>11. CASE ResetSum(t)
  <2>1. /\ pc[t] = "resetSum" /\ pc'[t] = "idle" /\ sum' = {}
        /\ UNCHANGED <<count, taken, published, id>>
    BY <1>11 DEF ResetSum, Ends, Goto, ghostVars
  <2>2. (taken \ published)' = {} /\ Cardinality(sum') = 0 /\ count' = 0
    BY <1>p, <2>1, FS_EmptySet DEF Place
  <2> QED
    BY <1>f, <1>p, <2>1, <2>2 DEF Settled, Place
<1>12. ~Start(t)
  BY <1>p DEF Start
<1> QED
  BY <1>1, <1>2, <1>3, <1>4, <1>5, <1>6, <1>7, <1>8, <1>9, <1>10, <1>11, <1>12
  DEF Update

LEMMA SequentialStep ==
    Base /\ (~overlapped => Sequential) /\ [Next]_vars
    => (~overlapped => Sequential)'
<1> SUFFICES ASSUME Base, ~overlapped => Sequential, [Next]_vars, ~overlapped'
             PROVE  Sequential'
  OBVIOUS
<1>1. ASSUME NEW t \in Threads, Start(t) PROVE Sequential'
  <2>1. ~overlapped
    BY <1>1 DEF Start, Base, Types
  <2> QED
    BY <1>1, <2>1, SequentialStart DEF Base
<1>2. ASSUME NEW t \in Threads, Update(t), Later(t) PROVE Sequential'
  BY <1>2, SequentialLater DEF Later
<1>3. ASSUME Elsewhere PROVE Sequential'
  <2>1. UNCHANGED <<pc, id, reg, sum, count, taken, published, overlapped>>
    BY <1>3 DEF Elsewhere, Minute, Localtime, vars, ghostVars
  <2> QED
    BY <2>1 DEF Sequential, Alone, Settled, Place
<1> QED
  BY <1>1, <1>2, <1>3, LaterSteps DEF Next, Elsewhere

LEMMA SequentialInvariant == Spec => [](Base /\ (~overlapped => Sequential))
<1>1. Init => Base /\ (~overlapped => Sequential)
  BY TypesInit, OwnersInit, CountedInit, BoundInit, ReleasedInit,
     SequentialInit DEF Base
<1>2. Base /\ [Next]_vars => Base'
  BY TypesStep, OwnersStep, CountedStep, BoundStep, ReleasedStep DEF Base
<1> QED
  BY <1>1, <1>2, SequentialStep, PTL DEF Spec

\* AveragesExact is an invariant: while the updates of a service do not overlap,
\* each message is the average of exactly the records taken since the last one,
\* and no division is by zero.
THEOREM AveragesAreExact == Spec => []AveragesExact
<1>1. Base /\ (~overlapped => Sequential) => AveragesExact
  <2> SUFFICES ASSUME Base, Sequential, NEW t \in Threads, pc[t] = "sending"
               PROVE  IsAverage(reg[t]) /\ reg[t].sum = taken \ published
    BY DEF AveragesExact
  <2>1. Settled
    BY SettledBefore DEF Base, Quiet
  <2>2. reg[t].sum = sum /\ reg[t].count = count /\ count # 0
    BY DEF Sequential, Place
  <2>3. count \in Nat
    BY DEF Base, Types
  <2> QED
    BY <2>1, <2>2, <2>3 DEF Settled, IsAverage
<1> QED
  BY <1>1, SequentialInvariant, PTL
-----------------------------------------------------------------------------
(***************************************************************************)
(* The rate.  Between two messages a record was taken, in a minute that is *)
(* none for sending; the time of this host only passes, so as long as it   *)
(* is what the threads read, the two sending minutes differ.               *)
(***************************************************************************)

\* A minute in which records are added, between two others.
Sampled(first, last) ==
    \E m \in Int : first <= m /\ m <= last /\ m % Period[service] # 0

Adding  == {"load", "store", "loadCount", "storeCount"}
Sending == {"check", "divide", "sending", "resetCount", "resetSum"}
Before  == {"check", "divide", "sending"}

\* The one thread that runs has the newest record.
Latest ==
    /\ \A t \in Threads : pc[t] # "idle" => id[t] = records
    /\ misread \subseteq 1 .. records

\* What is known of the minutes of the thread that runs ...
Beat(t) ==
    /\ pc[t] = "test" =>
         /\ asked[t] <= now
         /\ misread = {} => lastDue <= asked[t]
         /\ misread = {} /\ taken \ published # {} => Sampled(lastDue, asked[t])
    /\ pc[t] \in Adding => due[t] % Period[service] # 0
    /\ pc[t] \in Sending => due[t] % Period[service] = 0
    /\ pc[t] \in Adding \cup Sending /\ records \notin misread => due[t] <= now
    /\ pc[t] \in Adding \cup Before /\ misread = {} => lastDue <= due[t]
    /\ pc[t] \in Before /\ misread = {} /\ taken \ published # {} =>
         Sampled(lastDue, due[t])

\* ... and of the last message.
Rhythm ==
    /\ Latest
    /\ misread = {} =>
         /\ lastDue <= now /\ lastDue % Period[service] = 0
         /\ taken \ published # {} => Sampled(lastDue, now)
    /\ \A t \in Threads : Beat(t)

\* Two sending minutes with another minute between them are a period apart.
LEMMA Multiples ==
    ASSUME NEW p \in Nat \ {0}, NEW a \in Int, NEW m \in Int, NEW b \in Int,
           a <= m, m <= b, a % p = 0, b % p = 0, m % p # 0
    PROVE  b - a >= p
<1> DEFINE x == a \div p  y == b \div p
<1>1. x \in Int /\ y \in Int /\ a = p * x /\ b = p * y
  OBVIOUS
<1>2. x < y
  <2>1. a # b
    OBVIOUS
  <2>2. CASE y <= x
    <3>1. p * y <= p * x
      BY <1>1, <2>2
    <3> QED
      BY <1>1, <2>1, <3>1
  <2> QED
    BY <1>1, <2>2
<1>3. p * (y - x) >= p
  BY <1>1, <1>2
<1>4. p * (y - x) = p * y - p * x
  BY <1>1
<1> QED
  BY <1>1, <1>3, <1>4

LEMMA PeriodType == Types => Period[service] \in Nat \ {0}
BY DEF Types

LEMMA TimeTypes ==
    Types => /\ now \in Int /\ tm \in Int /\ lastDue \in Int /\ records \in Nat
             /\ \A t \in Threads : due[t] \in Int /\ asked[t] \in Int
<1> SUFFICES ASSUME Types
             PROVE  /\ now \in Int /\ tm \in Int /\ lastDue \in Int
                    /\ records \in Nat
                    /\ \A t \in Threads : due[t] \in Int /\ asked[t] \in Int
  OBVIOUS
<1>1. Period[service] \in Nat
  BY PeriodType
<1> QED
  BY <1>1 DEF Types

LEMMA RhythmInit == Init => Rhythm
<1> SUFFICES ASSUME Init PROVE Rhythm
  OBVIOUS
<1>1. Period[service] \in Nat \ {0} /\ service \in Services
  BY DEF Init
<1>2. (-Period[service]) % Period[service] = 0
  BY <1>1
<1>3. /\ lastDue = -Period[service] /\ now \in Nat /\ taken = {}
      /\ misread = {} /\ records = 0
  BY DEF Init
<1>4. \A t \in Threads : pc[t] = "idle"
  BY DEF Init
<1> QED
  BY <1>1, <1>2, <1>3, <1>4 DEF Rhythm, Latest, Beat, Adding, Sending, Before

\* Time only passes, and what localtime's buffer holds does not matter.
LEMMA RhythmClock ==
    ASSUME Types, Rhythm, now <= now', now' \in Int,
           UNCHANGED <<service, records, pc, id, due, asked, misread, taken,
                       published, lastDue>>
    PROVE  Rhythm'
<1>1. /\ now \in Int /\ lastDue \in Int
      /\ \A t \in Threads : due[t] \in Int /\ asked[t] \in Int
  BY TimeTypes
<1>2. Latest'
  BY DEF Rhythm, Latest
<1>3. misread = {} =>
        /\ lastDue <= now' /\ lastDue % Period[service] = 0
        /\ taken \ published # {} => Sampled(lastDue, now')
  BY <1>1 DEF Rhythm, Sampled
<1>4. ASSUME NEW t \in Threads PROVE Beat(t)'
  <2>1. Beat(t)
    BY DEF Rhythm
  <2> QED
    BY <1>1, <2>1 DEF Beat, Sampled
<1>5. (misread = {} =>
        /\ lastDue <= now /\ lastDue % Period[service] = 0
        /\ taken \ published # {} => Sampled(lastDue, now))'
  BY <1>3 DEF Sampled
<1> QED
  BY <1>2, <1>4, <1>5 DEF Rhythm

\* The first step of a thread, when no other runs.
LEMMA RhythmStart ==
    ASSUME Types, Rhythm, NEW t \in Threads, Start(t), ~overlapped'
    PROVE  Rhythm'
<1>1. \A u \in Threads : pc[u] = "idle"
  BY DEF Start
<1>2. /\ UNCHANGED <<now, service, taken, published, lastDue, misread>>
      /\ records' = records + 1 /\ asked'[t] = now /\ id'[t] = records'
      /\ \A u \in Threads : pc'[u] = IF u = t THEN "test" ELSE "idle"
  BY <1>1 DEF Start, Goto, timeVars, Types
<1>3. now \in Int /\ lastDue \in Int /\ records \in Nat
  BY TimeTypes
<1>4. Latest'
  BY <1>2, <1>3 DEF Rhythm, Latest
<1>5. \A u \in Threads : Beat(u)'
  BY <1>2, <1>3 DEF Rhythm, Beat, Sampled, Adding, Sending, Before
<1> QED
  BY <1>2, <1>4, <1>5 DEF Rhythm, Sampled

\* A later step leaves what the others' part speaks of alone.
LEMMA RhythmStep ==
    ASSUME Types, Owners, Sequential, Rhythm, NEW t \in Threads, Update(t),
           Later(t)
    PROVE  Rhythm'
<1> DEFINE open == taken \ published
           Last == misread = {} =>
                     /\ lastDue <= now /\ lastDue % Period[service] = 0
                     /\ open # {} => Sampled(lastDue, now)
<1>1. \A u \in Threads : u # t => pc[u] = "idle" /\ pc'[u] = "idle"
  BY DEF Sequential, Alone, Later, Goto, Types
<1>2. Beat(t) /\ Last /\ id[t] = records /\ ~Start(t)
  BY DEF Rhythm, Latest, Later, Start
<1>3. UNCHANGED <<service, id, records, now>>
  BY <1>2 DEF Later, Update, Test, LoadSum, StoreSum, LoadCount, StoreCount,
              Skip, FormatSum, FormatCount, SendReturns, ResetCount, ResetSum,
              timeVars
<1>c. /\ now \in Int /\ tm \in Int /\ lastDue \in Int /\ due[t] \in Int
      /\ asked[t] \in Int /\ records \in Nat
  BY TimeTypes
<1>m. misread \subseteq 1 .. records /\ records >= 1
  BY DEF Rhythm, Latest, Later, Types, Owners
<1>f. ASSUME misread' \subseteq misread \cup {records}, Last', Beat(t)'
      PROVE  Rhythm'
  <2>1. \A u \in Threads : Beat(u)'
    BY <1>1, <1>f DEF Beat, Adding, Sending, Before
  <2>2. Latest'
    <3>1. \A u \in Threads : pc'[u] # "idle" => id'[u] = records'
      BY <1>1, <1>2, <1>3
    <3>2. misread' \subseteq 1 .. records'
      BY <1>3, <1>m, <1>f, <1>c
    <3> QED
      BY <3>1, <3>2 DEF Latest
  <2> QED
    BY <1>f, <2>1, <2>2 DEF Rhythm
<1>4. CASE Test(t)
  <2>1. /\ UNCHANGED <<lastDue, taken, published>> /\ due'[t] = tm
        /\ \/ tm % Period[service] # 0 /\ pc'[t] = "load"
           \/ tm % Period[service] = 0 /\ pc'[t] = "check"
        /\ pc[t] = "test"
        /\ misread' = misread \cup {r \in {records} : tm \notin asked[t] .. now}
    BY <1>2, <1>4 DEF Test, Goto, timeVars, Types
  <2>2. misread' = {} => misread = {}
    BY <2>1
  <2>3. records \notin misread' => asked[t] <= tm /\ tm <= now
    BY <1>c, <2>1
  <2>4. Last'
    BY <1>2, <1>3, <2>1, <2>2 DEF Sampled
  <2>5. misread' = {} =>
          /\ lastDue <= tm
          /\ open # {} => Sampled(lastDue, tm)
    <3> SUFFICES ASSUME misread' = {}
                 PROVE  lastDue <= tm /\ (open # {} => Sampled(lastDue, tm))
      OBVIOUS
    <3>1. /\ lastDue <= asked[t] /\ asked[t] <= tm
          /\ open # {} => Sampled(lastDue, asked[t])
      BY <1>2, <2>1, <2>2, <2>3 DEF Beat
    <3> QED
      BY <1>c, <3>1 DEF Sampled
  <2>6. (open # {} => Sampled(lastDue, tm)) =>
          (open # {} => Sampled(lastDue, due[t]))'
    BY <1>3, <2>1 DEF Sampled
  <2>7. Beat(t)'
    BY <1>3, <2>1, <2>3, <2>5, <2>6 DEF Beat, Adding, Sending, Before
  <2> QED
    BY <1>f, <2>1, <2>4, <2>7
\* Steps that leave the minutes and the records alone.
<1>5. ASSUME UNCHANGED <<due, lastDue, misread, taken, published>>,
             \/ pc'[t] = "idle"
             \/ pc[t] \in Adding /\ pc'[t] \in Adding
             \/ pc[t] \in Before /\ pc'[t] \in Before
             \/ pc[t] = "resetCount" /\ pc'[t] = "resetSum"
      PROVE  Rhythm'
  <2>1. Last'
    BY <1>2, <1>3, <1>5 DEF Sampled
  <2>2. Beat(t)'
    BY <1>2, <1>3, <1>5 DEF Beat, Adding, Sending, Before, Sampled
  <2> QED
    BY <1>f, <1>5, <2>1, <2>2
<1>6. CASE LoadSum(t) \/ StoreSum(t) \/ LoadCount(t)
  BY <1>5, <1>6 DEF LoadSum, StoreSum, LoadCount, Goto, ghostVars, Types, Adding
<1>7. CASE FormatSum(t) \/ FormatCount(t) \/ ResetCount(t)
  BY <1>5, <1>7 DEF FormatSum, FormatCount, ResetCount, Goto, ghostVars, Types,
                    Before
\* The thread ends.
<1>8. CASE Skip(t) \/ ResetSum(t)
  <2>1. /\ UNCHANGED <<lastDue, misread, taken, published>> /\ pc'[t] = "idle"
    BY <1>8 DEF Skip, ResetSum, Ends, Goto, ghostVars, Types
  <2>2. Last'
    BY <1>2, <1>3, <2>1 DEF Sampled
  <2>3. Beat(t)'
    BY <2>1 DEF Beat, Adding, Sending, Before
  <2> QED
    BY <1>f, <2>1, <2>2, <2>3
\* The record is counted, in a minute that is none for sending.
<1>9. CASE StoreCount(t)
  <2>1. /\ UNCHANGED <<lastDue, misread, published>>
        /\ pc[t] \in Adding /\ pc'[t] = "idle"
    BY <1>9 DEF StoreCount, Ends, Goto, Types, Adding
  <2>2. misread = {} => Sampled(lastDue, now)
    BY <1>2, <1>c, <2>1 DEF Beat, Sampled
  <2>3. Last'
    BY <1>2, <1>3, <2>1, <2>2 DEF Sampled
  <2>4. Beat(t)'
    BY <2>1 DEF Beat, Adding, Sending, Before
  <2> QED
    BY <1>f, <2>1, <2>3, <2>4
\* The message is out, and all that was taken with it.
<1>10. CASE SendReturns(t)
  <2>1. /\ UNCHANGED <<due, taken>> /\ lastDue' = due[t]
        /\ pc[t] = "sending" /\ pc'[t] = "resetCount"
        /\ published' = published \cup reg[t].sum
        /\ misread' = misread \cap {records}
    BY <1>2, <1>10 DEF SendReturns, Goto, Types
  <2>2. reg[t].sum = open
    <3>1. Settled
      BY <2>1, SettledBefore DEF Quiet
    <3> QED
      BY <2>1, <3>1 DEF Sequential, Place, Settled
  <2>3. (open = {})'
    BY <2>1, <2>2
  <2>4. due[t] % Period[service] = 0 /\ (records \notin misread => due[t] <= now)
    BY <1>2, <2>1 DEF Beat, Sending
  <2>5. Last'
    BY <1>3, <2>1, <2>3, <2>4
  <2>6. Beat(t)'
    BY <1>3, <2>1, <2>4 DEF Beat, Adding, Sending, Before
  <2> QED
    BY <1>f, <2>1, <2>5, <2>6
<1> QED
  BY <1>2, <1>4, <1>6, <1>7, <1>8, <1>9, <1>10 DEF Update

LEMMA RhythmHolds ==
    Base /\ (~overlapped => Sequential /\ Rhythm) /\ [Next]_vars
    => (~overlapped => Rhythm)'
<1> SUFFICES ASSUME Base, ~overlapped => Sequential /\ Rhythm, [Next]_vars,
                    ~overlapped'
             PROVE  Rhythm'
  OBVIOUS
<1> USE DEF Base
<1>1. ASSUME NEW t \in Threads, Start(t) PROVE Rhythm'
  <2>1. ~overlapped
    BY <1>1 DEF Start, Types
  <2> QED
    BY <1>1, <2>1, RhythmStart
<1>2. ASSUME NEW t \in Threads, Update(t), Later(t) PROVE Rhythm'
  BY <1>2, RhythmStep DEF Later
<1>3. ASSUME Elsewhere PROVE Rhythm'
  <2>1. /\ UNCHANGED <<service, records, pc, id, due, asked, misread, taken,
                       published, lastDue, overlapped>>
        /\ now' \in {now, now + 1}
    BY <1>3 DEF Elsewhere, Minute, Localtime, vars, timeVars, ghostVars
  <2>2. now <= now' /\ now' \in Int
    BY <2>1, TimeTypes
  <2> QED
    BY <2>1, <2>2, RhythmClock
<1> QED
  BY <1>1, <1>2, <1>3, LaterSteps DEF Next, Elsewhere

\* RateKept is an invariant: while updates do not overlap, no two messages are
\* sent within a period, unless for one of the records from the one to the other
\* a thread read another time than this host's from localtime's shared buffer.
THEOREM RateIsKept == Spec => []RateKept
<1> DEFINE I == Base /\ (~overlapped => Sequential /\ Rhythm)
<1>1. Init => I
  BY TypesInit, OwnersInit, CountedInit, BoundInit, ReleasedInit,
     SequentialInit, RhythmInit DEF Base
<1>2. I /\ [Next]_vars => I'
  BY TypesStep, OwnersStep, CountedStep, BoundStep, ReleasedStep,
     SequentialStep, RhythmHolds DEF Base
<1>3. I => RateKept
  <2> SUFFICES ASSUME Base, Sequential, Rhythm, misread = {},
                      NEW t \in Threads, pc[t] = "sending"
               PROVE  due[t] - lastDue >= Period[service]
    BY DEF RateKept
  <2>1. Settled /\ reg[t].sum = sum /\ count # 0
    BY SettledBefore DEF Base, Quiet, Sequential, Place
  <2>2. taken \ published # {}
    BY <2>1, FS_EmptySet DEF Settled
  <2>3. Sampled(lastDue, due[t]) /\ due[t] % Period[service] = 0
        /\ lastDue % Period[service] = 0
    BY <2>2 DEF Rhythm, Beat, Before, Sending
  <2> QED
    BY <2>3, Multiples, PeriodType, TimeTypes DEF Sampled, Base
<1> QED
  BY <1>1, <1>2, <1>3, PTL DEF Spec
=============================================================================
