------------------------------- MODULE Batch -------------------------------
(***************************************************************************)
(* The services that may not send as often as records come                 *)
(* (send_to_weatherbug, send_to_pws, send_to_cwop).  In most minutes they  *)
(* add the record to static sums and count it; in one minute of Period     *)
(* they send the average and start again.  Every update runs in a detached *)
(* thread of its own, without a lock.  The sums are abstracted to the set  *)
(* of records that are in them.                                            *)
(***************************************************************************)
EXTENDS Integers, FiniteSets

CONSTANTS
    Services,     \* the batching services considered, of All
    Period,       \* minutes from one sending minute to the next, by service
    Threads,      \* detached threads
    MaxRecord,    \* bound: records published
    MaxMinute,    \* bound: the last minute
    MaxSkew       \* bound: minutes a packet's time is before or after now

All == {"weatherbug", "pws", "cwop"}

ASSUME ServicesAssumption  == Services \subseteq All
ASSUME PeriodAssumption    == Period \in [Services -> Nat \ {0, 1}]
ASSUME MaxRecordAssumption == MaxRecord \in Nat
ASSUME MaxMinuteAssumption == MaxMinute \in Nat
ASSUME MaxSkewAssumption   == MaxSkew \in Nat

VARIABLES
    service,      \* the service looked at; it does not change
    now,          \* time(NULL), in minutes
    tm,           \* the static buffer of localtime and gmtime
    records,      \* number of records handed to the service
    pc, id,       \* of a thread: where it is, the number of its record
    due,          \* of a thread: the minute it read
    reg,          \* of a thread: what it loaded from sum and count
    sum, count,   \* static ws and count
    held,         \* copies of records on the heap
    \* history, read by properties only
    taken,        \* records counted as samples
    published,    \* records in averages that were sent
    lastDue,      \* the minute read by the last thread that sent
    asked,        \* of a thread before its test: the minute it called localtime
    misread,      \* records, from the last one sent on, whose thread read
                  \* another time than it asked for
    overlapped    \* two updates have run at the same time

timeVars  == <<service, now>>
ghostVars == <<taken, published, lastDue, asked, misread, overlapped>>
vars == <<timeVars, tm, records, pc, id, due, reg, sum, count, held,
          ghostVars>>

Nothing == [sum |-> {}, count |-> 0]

\* pthread_exit in update ends the thread before invoke_publisher releases
\* its copy.
Exits == service = "cwop"

Init ==
    /\ service \in Services
    /\ now \in 0 .. MaxMinute /\ tm = now
    /\ records = 0
    /\ pc = [t \in Threads |-> "idle"]
    /\ id = [t \in Threads |-> 0]
    /\ due = [t \in Threads |-> 0]
    /\ reg = [t \in Threads |-> Nothing]
    /\ sum = {} /\ count = 0
    /\ held = {}
    /\ taken = {} /\ published = {}
    /\ lastDue = -Period[service]
    /\ asked = [t \in Threads |-> 0] /\ misread = {}
    /\ overlapped = FALSE

Goto(t, label) == pc' = [pc EXCEPT ![t] = label]

\* The thread ends, and its locals with it ...
Ends(t) ==
    /\ Goto(t, "idle")
    /\ due' = [due EXCEPT ![t] = 0]
    /\ reg' = [reg EXCEPT ![t] = Nothing]

\* ... and its copy is released, or not.
Release(t) == held' = held \ {id[t]}
Leak(t)    == UNCHANGED held
-----------------------------------------------------------------------------
\* A thread enters update and calls localtime.
Start(t) ==
    /\ pc[t] = "idle"
    /\ records < MaxRecord
    /\ records' = records + 1
    /\ id' = [id EXCEPT ![t] = records']
    /\ held' = held \cup {records'}
    /\ tm' = now
    /\ asked' = [asked EXCEPT ![t] = now]
    /\ Goto(t, "test")
    /\ overlapped' = (overlapped \/ \E u \in Threads : pc[u] # "idle")
    /\ UNCHANGED <<timeVars, due, reg, sum, count, taken, published, lastDue,
                   misread>>

\* It reads the minute, through the pointer it got, after converting units.
\* The buffer may have been written since, with the minute of its own call, a
\* minute that has come since, or the minute of some packet.
Test(t) ==
    /\ pc[t] = "test"
    /\ due' = [due EXCEPT ![t] = tm]
    /\ \/ tm % Period[service] # 0 /\ Goto(t, "load")
       \/ tm % Period[service] = 0 /\ Goto(t, "check")
    /\ asked' = [asked EXCEPT ![t] = 0]
    /\ misread' = misread \cup {r \in {id[t]} : tm \notin asked[t] .. now}
    /\ UNCHANGED <<timeVars, tm, records, id, reg, sum, count, held, taken,
                   published, lastDue, overlapped>>

\* ws.f += wd->f: a load and a store.
LoadSum(t) ==
    /\ pc[t] = "load"
    /\ reg' = [reg EXCEPT ![t].sum = sum]
    /\ Goto(t, "store")
    /\ UNCHANGED <<timeVars, tm, records, id, due, sum, count, held, ghostVars>>

StoreSum(t) ==
    /\ pc[t] = "store"
    /\ sum' = reg[t].sum \cup {id[t]}
    /\ Goto(t, "loadCount")
    /\ UNCHANGED <<timeVars, tm, records, id, due, reg, count, held, ghostVars>>

\* count++: a load and a store.
LoadCount(t) ==
    /\ pc[t] = "loadCount"
    /\ reg' = [reg EXCEPT ![t].count = count]
    /\ Goto(t, "storeCount")
    /\ UNCHANGED <<timeVars, tm, records, id, due, sum, count, held, ghostVars>>

\* (Mutant: every service ends its thread in update.)
StoreCountExits(t) ==
    /\ pc[t] = "storeCount"
    /\ count' = reg[t].count + 1
    /\ taken' = taken \cup {id[t]}
    /\ Ends(t)
    /\ Leak(t)
    /\ UNCHANGED <<timeVars, tm, records, id, sum, published, lastDue,
                   asked, misread, overlapped>>

StoreCount(t) ==
    /\ pc[t] = "storeCount"
    /\ count' = reg[t].count + 1
    /\ taken' = taken \cup {id[t]}
    /\ Ends(t)
    /\ \/ Exits /\ Leak(t)
       \/ ~Exits /\ Release(t)
    /\ UNCHANGED <<timeVars, tm, records, id, sum, published, lastDue,
                   asked, misread, overlapped>>

\* A sending minute with nothing to send.
Skip(t) ==
    /\ pc[t] = "check" /\ count = 0
    /\ Ends(t)
    /\ \/ Exits /\ Leak(t)
       \/ ~Exits /\ Release(t)
    /\ UNCHANGED <<timeVars, tm, records, id, sum, count, ghostVars>>

\* A sending minute with something to send; the sums are read ...
FormatSum(t) ==
    /\ pc[t] = "check" /\ count # 0
    /\ reg' = [reg EXCEPT ![t].sum = sum]
    /\ Goto(t, "divide")
    /\ UNCHANGED <<timeVars, tm, records, id, due, sum, count, held, ghostVars>>

\* ... and divided by the count: the message is complete.  send_url begins.
FormatCount(t) ==
    /\ pc[t] = "divide"
    /\ reg' = [reg EXCEPT ![t].count = count]
    /\ Goto(t, "sending")
    /\ UNCHANGED <<timeVars, tm, records, id, due, sum, count, held, ghostVars>>

\* send_url returns, sent or not (it has no result).
SendReturns(t) ==
    /\ pc[t] = "sending"
    /\ published' = published \cup reg[t].sum
    /\ lastDue' = due[t]
    /\ misread' = misread \cap {id[t]}
    /\ Goto(t, "resetCount")
    /\ UNCHANGED <<timeVars, tm, records, id, due, reg, sum, count, held,
                   taken, asked, overlapped>>

\* (Mutant: the count is taken back instead of reset.)
ResetByOne(t) ==
    /\ pc[t] = "resetCount"
    /\ count' = count - 1
    /\ Goto(t, "resetSum")
    /\ UNCHANGED <<timeVars, tm, records, id, due, reg, sum, held, ghostVars>>

ResetCount(t) ==
    /\ pc[t] = "resetCount"
    /\ count' = 0
    /\ Goto(t, "resetSum")
    /\ UNCHANGED <<timeVars, tm, records, id, due, reg, sum, held, ghostVars>>

\* (Mutant: the sums are not reset.)
ResetNoSum(t) ==
    /\ pc[t] = "resetSum"
    /\ Release(t)
    /\ Ends(t)
    /\ UNCHANGED <<timeVars, tm, records, id, sum, count, ghostVars>>

\* memset of ws, and the return from update.
ResetSum(t) ==
    /\ pc[t] = "resetSum"
    /\ sum' = {}
    /\ Release(t)
    /\ Ends(t)
    /\ UNCHANGED <<timeVars, tm, records, id, count, ghostVars>>
-----------------------------------------------------------------------------
Minute ==
    /\ now < MaxMinute
    /\ now' = now + 1
    /\ UNCHANGED <<service, tm, records, pc, id, due, reg, sum, count, held,
                   ghostVars>>

\* main calls localtime for the time in an AIR or tower packet, which need not
\* be this minute; or a thread of another service calls localtime or gmtime for
\* a time it read a moment ago (time zones are whole hours off, so that the
\* minute is the same).
Localtime ==
    /\ \E minute \in now - MaxSkew .. now + MaxSkew : minute >= 0 /\ tm' = minute
    /\ UNCHANGED <<timeVars, records, pc, id, due, reg, sum, count, held,
                   ghostVars>>

Update(t) ==
    \/ Start(t) \/ Test(t)
    \/ LoadSum(t) \/ StoreSum(t) \/ LoadCount(t) \/ StoreCount(t)
    \/ Skip(t) \/ FormatSum(t) \/ FormatCount(t) \/ SendReturns(t)
    \/ ResetCount(t) \/ ResetSum(t)

Next ==
    \/ \E t \in Threads : Update(t)
    \/ Minute
    \/ Localtime

Spec == Init /\ [][Next]_vars
-----------------------------------------------------------------------------
(***************************************************************************)
(* Properties.  Most hold only as long as no two updates overlapped: a     *)
(* service that answers before the next record comes.                      *)
(***************************************************************************)

Labels == {"idle", "test", "load", "store", "loadCount", "storeCount", "check",
           "divide", "sending", "resetCount", "resetSum"}

\* Every variable has a value of its type.
TypeOK ==
    /\ service \in Services
    /\ now \in 0 .. MaxMinute /\ tm \in 0 .. MaxMinute + MaxSkew
    /\ records \in 0 .. MaxRecord
    /\ pc \in [Threads -> Labels]
    /\ id \in [Threads -> 0 .. MaxRecord]
    /\ due \in [Threads -> 0 .. MaxMinute + MaxSkew]
    /\ asked \in [Threads -> 0 .. MaxMinute]
    /\ reg \in [Threads -> [sum : SUBSET (1 .. MaxRecord),
                            count : 0 .. MaxRecord]]
    /\ count \in 0 .. MaxRecord
    /\ {sum, held, taken, published, misread} \subseteq SUBSET (1 .. MaxRecord)
    /\ lastDue \in {-Period[service]} \cup 0 .. MaxMinute + MaxSkew
    /\ overlapped \in BOOLEAN

\* What is in a message is an average.
IsAverage(msg) == msg.count > 0 /\ msg.count = Cardinality(msg.sum)

\* While updates do not overlap, what is sent is the average of exactly the
\* records taken since the last message: none is lost, none is sent twice, and
\* the division is by their number, not by 0.
AveragesExact ==
    \A t \in Threads : pc[t] = "sending" /\ ~overlapped =>
        IsAverage(reg[t]) /\ reg[t].sum = taken \ published

\* While updates do not overlap, no two messages are sent within a period,
\* unless the minute of one of the records from the one to the other was read
\* when a packet's time was in localtime's shared buffer.  (It is then any
\* minute: main's call puts it there between a thread's own call and its test.
\* A later minute of this host's clock does no harm.)
RateKept ==
    \A t \in Threads : pc[t] = "sending" /\ ~overlapped /\ misread = {} =>
        due[t] - lastDue >= Period[service]

\* A service that returns from update leaves no copy behind, also when updates
\* overlap.  (CWOP does leave one, with every record it only adds.)
CopiesReleased ==
    ~Exits => held = {id[t] : t \in {u \in Threads : pc[u] # "idle"}}
-----------------------------------------------------------------------------
(***************************************************************************)
(* What the documentation says and the code does not do.                   *)
(***************************************************************************)

\* README.md, "multiple incoming data packets will be averaged before sending
\* to the service": what is sent is an average.
AveragesSent == \A t \in Threads : pc[t] = "sending" => IsAverage(reg[t])
=============================================================================
