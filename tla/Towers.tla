------------------------------- MODULE Towers -------------------------------
(***************************************************************************)
(* The list of tower sensors and its copies: wfp_tower_parse in the main   *)
(* thread puts sensors in the list and readings in the sensors; the        *)
(* publish thread copies the list for every send (wdcopy), without a lock; *)
(* a detached thread converts the units of its copy in place and frees it  *)
(* (unit_convert, wdfree), unless the service is CWOP, which may end its   *)
(* thread before.  What is modelled of the heap are the cells of           *)
(* struct sensor_data; the node that points to a cell is malloc'ed and     *)
(* freed with it.  A list is the sequence of its cells, its head last,     *)
(* because entries are only ever put at the head and next never changes    *)
(* afterwards: what follows the entry at place i is at 1 .. i - 1.  Of a    *)
(* sensor's readings the temperature and its high are modelled; its low,   *)
(* the humidity and the timestamp are written and copied alike.            *)
(***************************************************************************)
EXTENDS Integers, Sequences

CONSTANTS
    Sensors,      \* serial numbers of towers
    NoSensor,     \* none of them
    Temps,        \* temperatures a tower may report
    Cells,        \* bound: addresses for struct sensor_data
    Kinds,        \* the kinds of services considered, of All
    Threads,      \* bound: detached threads that can exist at a time
    MaxReadings   \* bound: readings that main parses

\* Services with cfg->metric set, without it, and CWOP, which does not ask.
All == {"metric", "english", "cwop"}

NoHigh == -100    \* what a new sensor's high starts with
Unread == 0       \* what memset leaves; no reading, to tell them apart

ASSUME SensorAssumption == NoSensor \notin Sensors
ASSUME TempsAssumption  == Temps \subseteq {v \in Int : v > NoHigh /\ v # Unread}
ASSUME KindsAssumption  == Kinds \subseteq All
ASSUME BoundAssumption  == MaxReadings \in Nat

VARIABLES
    alloc,        \* cells malloc'ed and not freed
    data,         \* what is in a cell
    tower_list,   \* wd.tower_list
    main, cur,    \* the main thread: where it is, the place of the tower it parses,
    readings,     \* ... the readings it has parsed (bounded)
    pub,          \* the publish thread: where it is,
    cpy, walk,    \* ... the list it is making, the place it copies from,
    todo,         \* ... what it has not yet copied of the sensor there
    thr,          \* the detached threads: where each is,
    list, service, \* ... its copy, the kind of service it is for
    \* history, read by properties only
    lost,         \* cells of copies that CWOP's threads left on the heap
    misused,      \* a cell was read or freed that was not allocated
    late          \* main left its loop while the publish thread was not waiting

heapVars == <<alloc, data>>
mainVars == <<tower_list, main, cur, readings, late>>
pubVars  == <<pub, cpy, walk, todo>>
thrVars  == <<thr, list, service, lost>>
vars     == <<heapVars, mainVars, pubVars, thrVars, misused>>

Fields == {"temperature", "high"}

\* A cell after memset.  unit counts the conversions to English units.
Zero(s) == [id |-> s, temperature |-> Unread, high |-> Unread, unit |-> 0]

\* Content of a cell nobody owns.
Blank == Zero(NoSensor)

In(seq) == {seq[i] : i \in 1 .. Len(seq)}
NoRepeats(seq) == \A i, j \in 1 .. Len(seq) : seq[i] = seq[j] => i = j
Ended   == main = "ended"
OnList  == {data[tower_list[i]].id : i \in 1 .. Len(tower_list)}

Init ==
    /\ alloc = {} /\ data = [c \in Cells |-> Blank]
    /\ tower_list = <<>> /\ main = "read" /\ cur = 0 /\ readings = 0 /\ late = FALSE
    /\ pub = "wait" /\ cpy = <<>> /\ walk = 0 /\ todo = {}
    /\ thr = [t \in Threads |-> "idle"]
    /\ list = [t \in Threads |-> <<>>]
    /\ service = [t \in Threads |-> "metric"]
    /\ lost = {}
    /\ misused = FALSE

\* malloc, of a cell that gets content d; which free cell makes no difference.
Fresh == CHOOSE c \in Cells : c \notin alloc
Malloc(d) ==
    /\ alloc # Cells
    /\ alloc' = alloc \cup {Fresh}
    /\ data' = [data EXCEPT ![Fresh] = d]

\* free, of every cell of a list.
Free(seq) ==
    /\ alloc' = alloc \ In(seq)
    /\ data' = [c \in Cells |-> IF c \in In(seq) THEN Blank ELSE data[c]]
    /\ misused' = \/ misused
                  \/ ~(In(seq) \subseteq alloc)
                  \/ ~NoRepeats(seq)
-----------------------------------------------------------------------------
(***************************************************************************)
(* wfp_tower_parse                                                         *)
(***************************************************************************)

\* (Mutant: the first packet of a tower only registers it.)
NewTowerOnly(s) ==
    /\ main = "read" /\ s \notin OnList /\ readings < MaxReadings
    /\ Malloc([Zero(s) EXCEPT !.high = NoHigh])
    /\ tower_list' = Append(tower_list, Fresh)
    /\ UNCHANGED <<main, cur, readings, late, pubVars, thrVars, misused>>

\* A tower that is not on the list is put at its head, before its first reading
\* is parsed.  (malloc fails: the packet is ignored.)
NewTower(s) ==
    /\ main = "read" /\ s \notin OnList /\ readings < MaxReadings
    /\ Malloc([Zero(s) EXCEPT !.high = NoHigh])
    /\ tower_list' = Append(tower_list, Fresh)
    /\ cur' = Len(tower_list')
    /\ main' = "temperature"
    /\ UNCHANGED <<readings, late, pubVars, thrVars, misused>>

KnownTower(s) ==
    /\ main = "read" /\ readings < MaxReadings
    /\ cur' \in 1 .. Len(tower_list) /\ data[tower_list[cur']].id = s
    /\ main' = "temperature"
    /\ UNCHANGED <<heapVars, tower_list, readings, late, pubVars, thrVars, misused>>

\* One reading (obs is an array of them): the temperature, then the high.
Temperature(v) ==
    /\ main = "temperature"
    /\ data' = [data EXCEPT ![tower_list[cur]].temperature = v]
    /\ readings' = readings + 1
    /\ main' = "high"
    /\ UNCHANGED <<alloc, tower_list, cur, late, pubVars, thrVars, misused>>

\* Another reading of the packet, or the next packet.
ReadOn ==
    \/ main' = "temperature" /\ readings < MaxReadings /\ UNCHANGED cur
    \/ main' = "read" /\ cur' = 0

\* (Mutant: the high is only set by a first reading.)
HighOnce ==
    /\ main = "high"
    /\ data' = [data EXCEPT ![tower_list[cur]].high =
                    IF @ = NoHigh THEN data[tower_list[cur]].temperature ELSE @]
    /\ ReadOn
    /\ UNCHANGED <<alloc, tower_list, readings, late, pubVars, thrVars, misused>>

High ==
    /\ main = "high"
    /\ LET d == data[tower_list[cur]]
       IN  data' = IF d.temperature > d.high
                   THEN [data EXCEPT ![tower_list[cur]].high = d.temperature]
                   ELSE data
    /\ ReadOn
    /\ UNCHANGED <<alloc, tower_list, readings, late, pubVars, thrVars, misused>>

\* read returns 0 or less: the publish thread is cancelled, which takes effect
\* when it next waits, and the list is freed at once.
Shutdown ==
    /\ main = "read"
    /\ Free(tower_list)
    /\ main' = "ended"
    /\ late' = (pub # "wait")
    /\ UNCHANGED <<tower_list, cur, readings, pubVars, thrVars>>
-----------------------------------------------------------------------------
(***************************************************************************)
(* publish, send_to and wdcopy                                             *)
(***************************************************************************)

\* The condition is signalled; from here on a cancel comes too late.
Signalled ==
    /\ pub = "wait" /\ ~Ended
    /\ pub' = "next"
    /\ UNCHANGED <<heapVars, mainVars, cpy, walk, todo, thrVars, misused>>

\* The walk over the services is over.
WaitAgain ==
    /\ pub = "next"
    /\ pub' = "wait"
    /\ UNCHANGED <<heapVars, mainVars, cpy, walk, todo, thrVars, misused>>

\* The next enabled service; wdcopy reads the head of the list.
CopyStart ==
    /\ pub = "next"
    /\ walk' = IF Ended THEN 0 ELSE Len(tower_list)
    /\ pub' = "copy"
    /\ UNCHANGED <<heapVars, mainVars, cpy, todo, thrVars, misused>>

\* (Mutant: the walk goes on from the head of the list as it now is.)
CopySensorAgain ==
    /\ pub = "copy" /\ todo = {} /\ walk > 0
    /\ Malloc(Zero(data[tower_list[walk]].id))
    /\ cpy' = Append(cpy, Fresh)
    /\ walk' = IF cpy = <<>> THEN Len(tower_list) ELSE walk
    /\ todo' = Fields
    /\ misused' = (misused \/ tower_list[walk] \notin alloc)
    /\ UNCHANGED <<mainVars, pub, thrVars>>

\* The next sensor: malloc, and the part of memcpy that main never changes.
CopySensor ==
    /\ pub = "copy" /\ todo = {} /\ walk > 0
    /\ LET s == data[tower_list[walk]] IN Malloc([Zero(s.id) EXCEPT !.unit = s.unit])
    /\ cpy' = Append(cpy, Fresh)
    /\ todo' = Fields
    /\ misused' = (misused \/ tower_list[walk] \notin alloc)
    /\ UNCHANGED <<mainVars, pub, walk, thrVars>>

\* memcpy, in any order, while main writes.
CopyField(f) ==
    /\ f \in todo
    /\ data' = [data EXCEPT ![cpy[Len(cpy)]][f] = data[tower_list[walk]][f]]
    /\ todo' = todo \ {f}
    /\ walk' = IF todo' = {} THEN walk - 1 ELSE walk
    /\ misused' = (misused \/ tower_list[walk] \notin alloc)
    /\ UNCHANGED <<alloc, mainVars, pub, cpy, thrVars>>

Copied == pub = "copy" /\ todo = {} /\ walk = 0

Create(t, kind) ==
    /\ Copied /\ thr[t] = "idle"
    /\ thr' = [thr EXCEPT ![t] = "convert"]
    /\ list' = [list EXCEPT ![t] = cpy]
    /\ service' = [service EXCEPT ![t] = kind]
    /\ cpy' = <<>>
    /\ pub' = "next"
    /\ UNCHANGED <<heapVars, mainVars, walk, todo, lost, misused>>

\* (Mutant: the copy is not freed.)
CreateFailsLeaks ==
    /\ Copied
    /\ cpy' = <<>>
    /\ pub' = "next"
    /\ UNCHANGED <<heapVars, mainVars, walk, todo, thrVars, misused>>

\* pthread_create fails, for want of threads or of memory: wdfree.
CreateFails ==
    /\ Copied
    /\ Free(cpy)
    /\ cpy' = <<>>
    /\ pub' = "next"
    /\ UNCHANGED <<mainVars, walk, todo, thrVars>>
-----------------------------------------------------------------------------
(***************************************************************************)
(* invoke_publisher: update, which begins with unit_convert, and wdfree,    *)
(* which CWOP's update may leave out                                       *)
(***************************************************************************)

\* (Mutant: the sensors are converted by the service and by unit_convert.)
ConvertedTwice(seq) ==
    data' = [c \in Cells |-> IF c \in In(seq)
                             THEN [data[c] EXCEPT !.unit = @ + 2] ELSE data[c]]

\* unit_convert converts the sensors of the list it is given.
Converted(seq) ==
    data' = [c \in Cells |-> IF c \in In(seq)
                             THEN [data[c] EXCEPT !.unit = @ + 1] ELSE data[c]]

\* (Mutant: the test of cfg->metric is missing.)
UpdateEnglish(t) ==
    /\ thr[t] = "convert"
    /\ Converted(list[t])
    /\ misused' = (misused \/ ~(In(list[t]) \subseteq alloc))
    /\ thr' = [thr EXCEPT ![t] = "send"]
    /\ UNCHANGED <<alloc, mainVars, pubVars, list, service, lost>>

Update(t) ==
    /\ thr[t] = "convert"
    /\ \/ service[t] = "metric" /\ UNCHANGED data
       \/ service[t] # "metric" /\ Converted(list[t])
    /\ misused' = (misused \/ ~(In(list[t]) \subseteq alloc))
    /\ thr' = [thr EXCEPT ![t] = "send"]
    /\ UNCHANGED <<alloc, mainVars, pubVars, list, service, lost>>

\* The thread is gone.
Gone(t) ==
    /\ list' = [list EXCEPT ![t] = <<>>]
    /\ service' = [service EXCEPT ![t] = "metric"]
    /\ thr' = [thr EXCEPT ![t] = "idle"]
    /\ UNCHANGED <<mainVars, pubVars>>

\* (Mutant: update frees the sensors as well.)
FinishTwice(t) ==
    /\ thr[t] = "send"
    /\ Free(list[t] \o list[t])
    /\ Gone(t)
    /\ UNCHANGED lost

\* update returns, having sent or not: wdfree.
Finish(t) ==
    /\ thr[t] = "send"
    /\ Free(list[t])
    /\ Gone(t)
    /\ UNCHANGED lost

\* pthread_exit in CWOP's update, when it only adds the record to its sums or
\* has none to send: nobody frees the copy, and nobody can read it any more.
Exit(t) ==
    /\ thr[t] = "send" /\ service[t] = "cwop"
    /\ lost' = lost \cup In(list[t])
    /\ data' = [c \in Cells |-> IF c \in In(list[t]) THEN Blank ELSE data[c]]
    /\ Gone(t)
    /\ UNCHANGED <<alloc, misused>>
-----------------------------------------------------------------------------
MainNext ==
    \/ \E s \in Sensors : NewTower(s) \/ KnownTower(s)
    \/ \E v \in Temps : Temperature(v)
    \/ High
    \/ Shutdown

PubNext ==
    \/ Signalled \/ WaitAgain
    \/ CopyStart \/ CopySensor
    \/ \E f \in Fields : CopyField(f)
    \/ \E t \in Threads, kind \in Kinds : Create(t, kind)
    \/ CreateFails

ThreadNext(t) == Update(t) \/ Finish(t) \/ Exit(t)

Next == MainNext \/ PubNext \/ \E t \in Threads : ThreadNext(t)

Spec == Init /\ [][Next]_vars
-----------------------------------------------------------------------------
(***************************************************************************)
(* Properties.                                                             *)
(***************************************************************************)

\* Every variable has a value of its type.
TypeOK ==
    /\ alloc \subseteq Cells
    /\ data \in [Cells -> [id : Sensors \cup {NoSensor},
                          temperature : Temps \cup {Unread},
                          high : Temps \cup {Unread, NoHigh}, unit : {0, 1}]]
    /\ tower_list \in Seq(Cells) /\ cpy \in Seq(Cells)
    /\ list \in [Threads -> Seq(Cells)]
    /\ main \in {"read", "temperature", "high", "ended"}
    /\ cur \in 0 .. Len(tower_list) /\ readings \in 0 .. MaxReadings
    /\ pub \in {"wait", "next", "copy"} /\ walk \in 0 .. Len(tower_list)
    /\ todo \subseteq Fields
    /\ thr \in [Threads -> {"idle", "convert", "send"}]
    /\ service \in [Threads -> Kinds \cup {"metric"}]
    /\ lost \subseteq Cells
    /\ {misused, late} \subseteq BOOLEAN

MainCells == IF Ended THEN {} ELSE In(tower_list)
ThreadCells == {c \in Cells : \E t \in Threads : c \in In(list[t])}

\* Every cell that is allocated belongs to one list, once: the list of wd, the
\* copy being made, or the copy of one thread, or it is one that CWOP's
\* pthread_exit left behind.  No other is lost and none is shared.
OneOwner ==
    /\ alloc = MainCells \cup In(cpy) \cup ThreadCells \cup lost
    /\ lost \cap (MainCells \cup In(cpy) \cup ThreadCells) = {}
    /\ MainCells \cap In(cpy) = {}
    /\ \A t \in Threads :
        /\ In(list[t]) \cap (MainCells \cup In(cpy)) = {}
        /\ \A u \in Threads \ {t} : In(list[t]) \cap In(list[u]) = {}
        /\ NoRepeats(list[t])
    /\ NoRepeats(cpy) /\ (~Ended => NoRepeats(tower_list))

\* No cell is used after it was freed, or freed twice, unless the loop of main
\* ends while the publish thread is at work.
NoMisuse == misused => late

\* A copy's readings are in the units of the service it is for, converted once,
\* and those of wd stay metric, whatever threads convert at the time.
MessageUnits ==
    /\ \A c \in MainCells \cup In(cpy) : data[c].unit = 0
    /\ \A t \in Threads, c \in Cells :
        c \in In(list[t]) =>
            data[c].unit = IF thr[t] = "send" /\ service[t] # "metric" THEN 1 ELSE 0

\* Only the newest tower of a message can be without a reading: the list never
\* holds two towers whose first packet is not yet parsed.
UnreadOnlyNewest ==
    ~late => \A t \in Threads : \A j \in 2 .. Len(list[t]) :
        LET d == data[list[t][j]]
        IN  d.temperature # Unread /\ d.high # NoHigh

\* A copied temperature may be above the copied high, but the high of wd covers
\* it as soon as the parser is done with the tower.
CopyBelowHigh ==
    ~Ended => \A t \in Threads : \A j \in 1 .. Len(list[t]) :
        LET i == Len(list[t]) + 1 - j
            d == data[list[t][j]]
            w == data[tower_list[i]]
        IN  /\ d.high <= w.high
            /\ d.temperature = Unread \/ cur = i \/ d.temperature <= w.high

\* What a message says of the sensor in cell c.
Entry(c) == [id |-> data[c].id, high |-> data[c].high]
Entries(seq) == [i \in 1 .. Len(seq) |-> Entry(seq[i])]

\* The register of towers this implements (see Register.tla): the list of wd is
\* the register, wdcopy asks for what it will have copied when it is done, and
\* the copies of the threads are the messages.
register == IF Ended THEN <<>> ELSE Entries(tower_list)
asked    == IF pub = "copy" THEN Len(cpy) + walk - (IF todo = {} THEN 0 ELSE 1) ELSE -1
outgoing == [t \in Threads |-> IF thr[t] = "idle" THEN {} ELSE {Entries(list[t])}]
Abstract == INSTANCE Register WITH Highs <- Temps, closed <- Ended
ImplementsRegister == Abstract!Spec
=============================================================================
