# A verification project for wfpublisher

wfpublisher listens for the UDP packets of a WeatherFlow hub, keeps one record of
the current weather, and sends it to weather services. This directory holds TLA+
modules of its core, the TLC configurations that check them on small instances,
and proofs for TLAPS that hold for every instance.

## The system

One process, three kinds of threads:

| part | source | state | operations |
|---|---|---|---|
| main loop | `wfpublish.c` `main` | `wd`, `st`, `start` (day of the last reset), the mutex | read a packet, reset the daily high and low, parse, signal when both an AIR and a SKY packet came in |
| packet parsers | `wfpublish.c` `wf_message_parse`, `wfp_*_parse` | fields of `wd`, `interval` (gust tracking), the tower list | overwrite the fields of the packet, compute derived values |
| publish thread | `wfpublish.c` `publish` | position in `sinfo` | wait on the condition variable, walk the services |
| sending | `wfp-send.c` | a copy of `wd` per send, one detached thread per send | copy, create the thread, free the copy when `update` returns |
| rainfall | `wfp-rainfall.c`, `read_rainfall` | totals in `wd`, two static arrays, `rainfall.json` | accumulate a report, save, restore at start |
| pressure trend, units, derived values | `wfp-util.c` | linked list of pressures | insert, drop one old sample, convert |
| tower list | `wfp_tower_parse`, `wdcopy`, `wdfree`, `unit_convert` | the list of `wd`, a copy per send | put a sensor at the head, parse readings into it, copy, convert in place, free |
| HTTP sender | `wfp-util.c` `send_url` | a socket and buffers per send, the static result of `gethostbyname` | resolve, connect, send, receive |
| batching services | `wfp-wbug.c`, `wfp-pws.c`, `wfp-cwop.c` | static sums and a count | add a sample, or average and send on certain minutes |
| other services | `wfp-wunderground.c`, `wfp-mqtt.c`, `wfp-db.c`, `wfp-log.c`, `wfp-display.c` | a connection, for MQTT one handle of the whole process, or a file | format and send |
| configuration, start and end | `wfpublish.c` `read_config`, `service_setup`, `initialize_publishers`, `cleanup_publishers`, `sinfo_free` | `sinfo`, `station` | read once at start, taken down when `read` returns 0 or less |
| cJSON | `cJSON.c` | | third-party JSON library |

How they interact: main writes `wd`; the publish thread reads it, without a lock,
after main signals it; the detached threads own copies and share only what the
services keep in static variables, `mosq`, the results of `gethostbyname` and `localtime`, and
the descriptors of the process. Time enters through `time(NULL)` wherever it is
called.

What is hard: the unlocked copy; a condition variable waited on with no predicate
and with a mutex that is not held; threads without a limit; reports that are lost
or late; a clock that moves on between two readings of it; a program that dies
while it saves; calls that fail with half of what an update needs already allocated; a process
that is taken down while its threads run. Each is in `PROJECT.json` under `hazards`, with the properties
that would catch it or, where there are none yet, the reason.

What makes each part correct:

- hand-off: no signal is lost, none is delayed for ever, a copy is no older than
  the signal and no newer than the record, a slow service hurts no other;
- record: the high and low are of today and bracket the temperature, the gust is
  recent, derived values are not from long ago;
- trend: it is over three hours, also some time after an outage, and the queue does not grow;
- towers: each cell has one owner, no cell is used once freed, no list is converted twice;
- updates: each ends, gives back what it took, reaches the host it is for;
- rainfall: each total is the sum of the reports of its period, through restarts.

## The modules

`Publish` is the hand-off. Its variables are grouped as in the code: those of main,
of the mutex and condition variable, of the publish thread, and the detached
threads. A field of `wd` holds the number of the packet that last wrote it, so that
the age of everything copied is visible. Fields are written and copied one at a
time in any order. The condition variable is modelled by its two halves (register,
then release and block) and its return, with or without a signal. The publish
thread's first wait releases a mutex it does not own: with the default mutex of
glibc that frees it, even from main (`raced` records that). Failures: `malloc` in
`wdcopy`, `pthread_create`. `due`, `sigSeq`, `handed` and `raced` are history.

`Broadcast` is what the hand-off promises with no threads in it: a record whose
fields only get newer, a mark, and messages that lie, field by field, between the
mark (and every message still under way) and the record. It does not promise that a
message is an instant of the record, because it is not: `wdcopy` can mix two
packets. `Publish!ImplementsBroadcast` is the refinement, with
`record <- wd, asked <- due, outgoing <- thread`.

`Rainfall` is `accumulate_rain`, `save_rainfall` and `read_rainfall`. The calendar is
regular and its sizes are constants. A save is two steps (stamp and truncate; write
and close), and the clock may tick, or the program die, between any two steps.
`Restored` is the nest of tests in `read_rainfall`. With an empty file
`read_rainfall` passes an uninitialised pointer to `cJSON_Delete`: the program starts
with nothing restored or does not start, which is the step not happening. The
actions of the code are `Accumulate`, `SaveOpen`, `SaveClose`, `SaveFails`, `Crash`,
`Restart` and `Tick`; the actions of `Next` pair each with its history (what was
reported in each minute, and whether anything was lost, late or doubled).

`Observations` is the main loop with the AIR, SKY and rapid wind parsers, one action
per packet: the reset of the high and low when the day of the month differs, gust
tracking, and the completeness test. `lag`, `earlier`, `age`, `oldest`, `strongest` and their
like are history. Windchill and feelslike are computed on SKY packets from the last temperature, which
`memset` left at 0 when no AIR packet came yet: `DerivedRecent` excepts the first record for that.
`GustRecent` counts SKY packets, as the code does, though the repository speaks of seconds (see below).

`Batch` is `update` of the three services that may not send every record. A thread of
it follows `send_to_pws` and its two siblings step by step: `localtime` (a static buffer
every thread of the program writes, main with the time of an AIR or tower packet: `Localtime`), the test of the minute, the sums and the count
(loads and stores apart, nothing is locked), the message, `send_url`, the reset. The
sums are the set of records in them. CWOP ends its thread inside `update`, and its copy
stays on the heap (`held`). `taken`, `published`, `lastDue`, `asked`, `misread` and `overlapped` are history.
`AveragesSent` is what the README says of these services; `AveragesExact` and `RateKept` say
more, of the executions in which no two updates overlap. `RateKept` also excepts what a packet's time in the
buffer can do: a thread may then take any minute for a sending one, and a second message go out within the
period. `misread` has the records, from the last one sent on, whose thread read a time that did not lie between
its call and its test.

`Derived` is what `wfp-util.c` computes from one packet and remembers for the next:
`calc_pressure_trend` and `DegreesToCardinal`. The linked list is a sequence. The trend reads the
clock twice, for the sample and for the age of the tail, so it may tick between. Directions are
in quarters of a degree, so that the bounds of the sectors are whole. The code's test for north,
`deg > 348.75 && deg < 11.25`, is translated as it is: it is never true, and a north wind has no name.
No property is stated of the names: it would repeat the tests. `TrendRecovers` is about outages: as each
report drops one sample, samples from before the outage are compared with for some time after it, until
reports come as often as they ever did. How old such a sample is, nothing bounds. `reports` and `base` are history.

`Towers` is the tower list and its copies: what is modelled of the heap are the cells of
`struct sensor_data`. Main puts a sensor at the head before its first reading is parsed and then
writes the temperature and the high one after the other; `wdcopy` walks the list, cell by cell and
field by field, meanwhile; a thread converts its copy and frees it (`Finish`), unless it is one of CWOP's
and ends in `update` (`Exit`): the cells of its copy are then nobody's, and `lost` keeps account of them. A list is a sequence with its
head last, since entries are only put at the head. `unit` counts the conversions of a cell.
`Shutdown` frees the list under whoever is using it.

`Register` is what list and copies promise, with no cells or walks in it: sensors enter and stay until the list is
closed, highs only rise, and a message has every sensor that was registered when it was asked for, once, in
the order they are copied in, from the newest on (each is put at the head of the copy, so that its first is the
oldest), with a high that is not above the register's, and does not change until it is delivered. Of what is
asked for before the end and sent after it nothing is promised: `wdcopy` may then walk freed memory.
`Towers!ImplementsRegister` is the refinement; the message asked for is as long as the copy will be when it is complete.

`Services` is the list of services: `read_config`, `service_setup`, the init functions (of every
entry, enabled or not), and the end of `main`. `Delivery` EXTENDS it with the threads that run
`update`: every path of `send_url`, `resolve_host` and `resolve_host_ip6`, `mqtt_publish`,
`send_to_db`, `send_to_log` and `display_wd`. What a thread has malloc'ed or opened is the set `held`;
`open` counts descriptors, so that a socket that is forgotten is one that no thread holds. Three
things are shared: `hostent`, the static result of `gethostbyname`; `mosq` with its connection; and
the descriptors. The process ends where the code dereferences NULL: a service it does not know
(`Crash`), an MQTT update before any packet (`Crash`), `getaddrinfo` failing (`CrashAgain`). `refused`,
`wasted`, `mixed`, `overlapped`, `late` and `misused` are history. The batching services end in the same
`send_url`; when they call it is `Batch`.

How the modules divide the program: `Publish`, `Towers` and `Delivery` each have the publish thread and
detached threads, with the part of their state the module is about: the plain fields of the record, the
list in it, the update. In `Delivery` a copy is only the number of its record. The publish thread's wait
is `Publish`; in the other two it just wakes up, with or without a new record. `Observations`,
`Derived` and `Rainfall` are parts of main's parsers that share no variable but `wd`'s fields.

`MCPublish`, `MCRainfall`, `MCObservations`, `MCBatch`, `MCDerived`, `MCTowers` and `MCDelivery` are the
modules TLC runs; `PublishProofs`, `RainfallProofs`, `ObservationsProofs`, `BatchProofs`, `DerivedProofs`,
`TowersProofs` and `DeliveryProofs` hold the proofs, and `Arithmetic` the facts about division and sums that
those of `Rainfall` rest on.
Definitions marked "Mutant" are plausible mistakes in the definition that follows
them; nothing uses them in the specifications. They show that each property fails
if the code had that mistake.

## The runs

| run | question | instance | result |
|---|---|---|---|
| `Publish_safety` | exclusion, lost signals, freshness and order of copies, refinement | 3 services (one disabled), 2 fields, 2 threads, 4 packets, spurious wakeups | holds |
| `Publish_liveness` | is every signal served, does main get back to the socket | 2 services, one that never answers, 1 thread, 4 packets | holds |
| `Rainfall_totals` | what the totals are, through losses and restarts | hour of 3 minutes, day of 2 hours, month of 2 days; 11 minutes that cross hours, a day and a month | holds |
| `Rainfall_year` | the year's total is this year's | start at the year's end | violated |
| `Rainfall_survive` | there is something to recover from | as `Rainfall_totals`, 9 minutes | violated |
| `Observations_record` | high and low, gust, derived values | 3 temperatures, 3 speeds, interval 3, months of 3 days, 5 days | holds |
| `Batch_average` | what is sent and how often while updates do not overlap; copies left behind | 2 threads, 4 records, 5 minutes, packets up to a minute off; a service that returns, period 2, and CWOP, its ten minutes cut to 3 | holds |
| `Batch_overlap` | "multiple incoming data packets will be averaged" | 2 threads, 4 records, period 2, packets up to a minute off | violated |
| `Derived_trend` | is the trend over three hours, after an outage too, is the queue bounded | a window of 3 ticks, 7 ticks, 5 reports of 2 pressures, directions at the bounds of the first, second and last sector | holds |
| `Towers_copies` | who owns a cell, what a copy holds, in which units; that list and copies implement `Register` | 2 sensors, 2 temperatures, 2 readings, 4 cells, 2 threads, a metric service and CWOP | holds |
| `Delivery_faults` | does every update end and give back what it took, whatever fails; is anything used once freed; what does a subscriber see | 5 configurations, 2 hosts, one hung, 2 threads, 2 records, 2 descriptors, 2 topics | holds |
| `Delivery_misdirected` | a request goes to the host of its service | as `Delivery_faults` | violated |

Why the bounds are enough. Four packets make two complete records, so a signal can
meet a walk of the publish thread that an earlier one started, and copies of two walks
overlap; two threads are needed to compare copies and to run out of threads. One AIR
field and one gust field are one field that only one kind of packet writes and one
that two kinds write. Threads are symmetric in `Publish_safety` and in `Batch`. In `Rainfall`
every reset condition is met and missed, and every mismatch of the file's stamp occurs
except that of the year, which `Rainfall_year` reaches; at most two reports are
considered in one minute. In `Observations` five days of three-day months include a
silence of a month. In `Batch` four records make a sample, a message, and another
sample and message, with one of them overlapping; five minutes hold two
sending minutes of each service and minutes between them, and a packet a minute off is enough to make one of
the one kind look like the other. In `Derived` five reports in seven ticks fill a window and leave a hole longer than one. In `Towers`
two sensors make a list with a newest and an older entry, of which the newest may be unread; four cells
hold that list and a copy of it, or a list of one with the copy being made and both threads' (or what CWOP
left of them), and no more, so that `malloc` fails
too; a service that wants English units converts as CWOP does and always frees, so it adds nothing to the two kinds; two readings make a high that the second one may raise during a copy. In `Delivery` two threads are
enough to use up two descriptors and to look up two hosts; two topics for two records to be mixed; the five
configurations pair the services that share something, and hold an unknown service, a disabled one and
a service listed twice. Descriptors are lost for good, so two refused connections reach the limit.
Deadlock is not checked in `Towers` and `Delivery`, where the process ends or crashes.

Fairness of `Publish` (`FairSpec`): every thread keeps running, so a step of its own that stays
possible is taken (weak fairness). For the mutex, and for the return from the wait,
strong fairness: the other side always goes back to block in `read` or in the wait,
and a thread that is queued for a mutex gets it if it becomes free again and again.
Nothing is assumed of the network: packets need not come, and the services in `Hung`
need not answer. Fairness of `Delivery`: every detached thread keeps running (weak fairness). A server
that is not in `Hung` closes its connection at some time; main and the publish thread need do nothing.

The violated properties state a sentence of the documentation or a comment; the
`findings` in `PROJECT.json` quote it.

- `YearExact`: `lt->tm_mon =- 0` is an assignment and false; the year's total never
  starts anew.
- `SaveSurvives`: the file is truncated before it is written.
- `AveragesSent`: an update that overlaps another divides the sums by a count that is not
  theirs, or that was just reset.
- `ToItsHost`: `gethostbyname` fills one static struct for all threads; when a second thread looks up
  its host before the first has read the result, the first one's request goes to the second one's host.
  `OwnHost` (checked and proved) says that nothing else can misdirect a request.

Three disagreements are stated in the properties that hold instead of in runs of their own. `HighestUsed`
excepts the packet at which the tracking interval ends, which replaces the gust even by a lower speed. The
README's "a slow service does not affect others" holds of the walk and of every update (`EverySignalServed`,
`EveryUpdateEnds`), not of threads and descriptors, which a hung service can use up. `GUST_INTERVAL`, 30, is
commented "Seconds for gust tracking" (`wfpublish.c:57`) and its use "Track maximum gust over 10 intervals" (`:358`);
the code compares it with a count of SKY packets, so that a gust may be published for 30 of them, which is
neither. `GustRecent` says what the code keeps to: no more than `GUST_INTERVAL` SKY packets.

## The proofs

All constants are arbitrary, within the assumptions named in the modules.

`PublishProofs`. Types: `TypeOK` is inductive with one more fact, that the service being
sent to is in the list (`InList`). Signals: `Registered` (the publish thread is on the
condition variable exactly while it is in the wait) and `Exclusive` are inductive
together. The argument the code relies on without saying so: the publish thread comes
out of the wait with the mutex and gives it up only in the next wait, so main, which
signals with the mutex held, finds it inside; the exception is the first, unowned
release. Freshness: `CopyFresh` speaks of finished copies and is not inductive; `Fresh`
adds that versions only grow, that every field copied so far is between the mark and the
record (the mark cannot move meanwhile: `Registered`), and that nothing in flight is newer
than it. `CopiesOrdered` and the refinement to `Broadcast` follow from the same invariant.

`RainfallProofs`. `TotalsOrdered` for every calendar. A day starts only when an hour does,
a month only when a day does (`AddInOrder`), and a shorter total is restored only when all
longer ones are (`RestoreInOrder`). `TypeOK`, `CurrentExact` and `RollingExact` follow from `Ledger`, which is
needed because a report adds to totals whose past it does not see: while no report is lost, doubled or stamped
late, the totals in memory, in the save under way and in the file are each those of some minute after which the
log is dry (`Now`, `UpToDate`, `Kept`), and each slot of the two arrays holds the rain of the minutes it stands
for (`Slots`), or less after a restart. The one exception is the first minute of a period until its report comes
(`Awaited`); if none comes, a report is lost. So a total is restored exactly when the file's stamp is of the
same period (`SamePeriods`), and otherwise it has not rained in this period (`SumLater`, `Recovered`). A
minute that passes changes what only the slots of that minute stand for (`SlotsLater`), and the slots
together are the last hour and the last 24 (`SlotsTogether`, `LastMinutes`). `Ledger` was checked by TLC on
the instance of `Rainfall_totals` before it was proved.

`Arithmetic`. Division: quotient and remainder are unique (`Quotient`), division by a product is division
twice (`Nested`), and of n successive numbers no two have the same remainder (`Apart`). Sums: the library
defines `SumFunctionOnSet` by recursion on the subsets of a finite set and its induction theorem takes an
operator; instead, a set of subsets that is not empty has a smallest member (`Smallest`, from the library's
`WFMin`), so a claim about the subsets, as a set of them, holds for all if it follows from the proper subsets
(`SubsetInduction`). With it: the recursion has a solution (`FoldExists`), a sum is a number (`SumType`), does
not depend on the order of its terms (`SumRemove`), and is the sum of the sums of its parts (`SumParts`).

`ObservationsProofs`. `TypeOK`, `GustRecent`, `DerivedRecent` and `HighestUsed`, with
`HighLowBracket` (the high and low bracket the temperature, or are reset), which types need. For
`DerivedRecent` the strengthening is `Waiting`: while a SKY packet waits for an AIR packet
none has come, or the record would have been complete (from the first record on). `ResetNotPublished` and `HighLowOfToday` have an
invariant of their own, `DaysInv`: the days of packets are in order, `start` is the day of the last reset,
an AIR packet that waits came on a day not after it, and the oldest temperature in the high and low is of that
day; the arithmetic is `SameDay`, two days less than a month apart that look the same are the same.

`BatchProofs`. `TypeOK` needs that the count never exceeds the number of records sampled
(`CountBound`), and that in turn that a thread that is about to count holds a record nobody
has counted (`CountedOnce`, `Owners`); both hold however updates overlap. `AveragesExact`: between
updates the count is the number of records in the sums, and these are the ones taken and
not published (`Settled`); the one thread that runs departs from it in a way its place tells
(`Place`). `RateKept`: while none of the records since the last message was misread, each was taken in a minute that is none
for sending, not before that message and not after now (`Rhythm`, of which `Beat` is the part of the thread that
runs), so the next sending minute is another multiple of the period (`Multiples`). `localtime`'s buffer may hold
anything; what is used is that a minute that was not misread lies between the thread's call and its test.

`DerivedProofs`. All of `Derived`'s properties. The invariant adds `Newest` (the queue is the last of
the reports, without a hole, and not empty) and `Past` (time stamps are not in the future, and all that was
dropped was older than the window). That the queue never shrinks and is still bounded (`BusiestWindow`) is the
case in which a report drops nothing: then the whole queue is younger than the window. `TrendRecovers` follows from
it: the queue is as long as some window once was busy, so the last window, if it is as busy, reaches back to the
report after the baseline.

`TowersProofs`. `TypeOK`, `OneOwner`, `NoMisuse` and `MessageUnits` are inductive together with `Shape`
(who may be where) and `Source`: while the publish thread copies, the cells it reads are no thread's
and unconverted, even those main has freed under it. A cell is freed by the one list it is in; that is why
no thread needs a lock for it. CWOP's `Exit` moves cells from a list to `lost`, where no step touches them again. `UnreadOnlyNewest`, `CopyBelowHigh` and `EveryTowerCopied` (where a copy stands
at each place of its walk) follow from a second
invariant, `Contents`: the sensors of wd have one name each, at most the newest is unread, and only the one
whose high is to be raised is above it (`Master`); a copy, finished or not, holds the sensors from one place on
down, each as it was at some time since, field by field (`Making`, `Made`). Names never change and highs only
rise, so steps of main keep what was copied (`ParsesKeep`); the other steps do not touch the list of wd (`Aside`).
`Implements` is the refinement of `Register`, a lemma for each action: `NewTower` enters, `High` raises or
stutters, `CopyStart` asks, `Create` sends, `CreateFails` withdraws, `Finish` and `Exit` deliver, `Shutdown` closes; the others
leave the names and highs in every list as they are (`RegisterKept`, `OutgoingKept`), because the cells they write
are in none of these lists or only in one whose other fields change.

`DeliveryProofs`. `TypeOK`, `DescriptorsExact`, `Released`, `NoMisuse` and `OwnHost`. Everything follows
from `Held`: at each place of an update, what a thread holds. `DescriptorsExact` counts threads, so each
step says which way its thread moves in the account (`Account`), and a lemma on cardinality does the rest. For
`NoMisuse`, `Started`: threads run only when the list is complete. For `OwnHost`: between the lookup and the
copy of its result, the struct holds this thread's host or another lookup came in between. `TopicsWhole` follows from `Whole`: while updates do not overlap, the one of MQTT that runs has
overwritten the first topics with its record and the rest still hold one earlier record, since the update before
it published to the end (`Under`, `Layers`). A connection is made only before the first update, and a record
read by an update is never newer than the newest.

Only model-checked: the liveness properties `EverySignalServed`, `MainReturnsToRead` and
`EveryUpdateEnds` (fairness and `ENABLED` are out of the prover's reach).

## The plan

All of it is built, in this order: `Publish` and `Broadcast`, `Rainfall`, `Observations`, `Batch`, `Derived`,
`Towers`, `Services` and `Delivery`, and last `Register`. What could follow: in `Register`, that no high in a
message is older than its walk, which needs the highs at the walk's start as history in `Towers`.

## Not modelled

- cJSON: a vendored library; the text of packets, of the configuration and of `rainfall.json` is
  abstracted to the values in it. A configuration that is missing or malformed is left out.
- Formatting of requests, log lines, the display and the database statement. In it
  `gustdirection` and the columns after it each get the value of the next one (`rain` first), and `rainfall_year`
  the wind's direction (`wfp-db.c:85-108`); no model would show more than reading it does.
- The formulas for heat index, dew point, windchill, sea-level pressure and units: floating point
  arithmetic without state.
- The gust of a batch: the largest speed is sent with the last direction (`wfp-pws.c:68`); in `Batch` a
  record is a whole.
- The command line, and the creation of the UDP socket. Debug mode (`-D`) of the senders, which takes
  a fixed host and does not wait for an answer.
- `rainfall_data_save` and `rainfall_data_get` of `wfp-db.c`, which nothing calls.
- `localtime`'s shared buffer outside `Batch`: `Rainfall` and the log line take the date atomically.
- `pthread_detach` of a handle that was never set, after a failed `pthread_create`: taken as a call that
  fails. An uninitialised pointer freed by `read_rainfall` is in `Rainfall`.
