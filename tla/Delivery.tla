------------------------------ MODULE Delivery ------------------------------
(***************************************************************************)
(* The updates: a detached thread runs the update function of one service  *)
(* on its copy of a record.  send_to_wunderground builds a request and     *)
(* send_url looks the host up, connects, sends and waits for the answer;   *)
(* mqtt_publish publishes topic by topic over the one connection of the    *)
(* process; send_to_db opens a connection of its own; send_to_log appends  *)
(* to a file; display_wd prints.  Threads share the result of              *)
(* gethostbyname, the MQTT handle and the descriptors of the process.  The *)
(* batching services also end in send_url; when they send is in Batch.     *)
(* What a copy holds is in Publish and Towers; here it is a record number. *)
(***************************************************************************)
EXTENDS Services, FiniteSets

CONSTANTS
    Threads,      \* bound: updates that can run at a time
    Local,        \* the address 127.0.1.1, what a host gets that is ourselves
    Hung,         \* hosts that accept a connection and never answer
    MaxOpen,      \* descriptors the process may have for its updates
    Topics        \* bound: topics a record is published under

ASSUME ThreadsAssumption == IsFiniteSet(Threads)
ASSUME HostsAssumption == Local \notin Hosts /\ Hung \subseteq Hosts
ASSUME BoundsAssumption == MaxOpen \in Nat /\ Topics \in Nat \ {0}

VARIABLES
    place,        \* where a thread is
    entry,        \* t->sinfo, as its place in the list
    rec,          \* the record in its copy, told apart for MQTT only
    held,         \* what it has malloc'ed or opened and not yet given back
    addr,         \* ip_addr, the address it connects to
    topic,        \* the topic it publishes next
    hostent,      \* the static result of gethostbyname
    open,         \* descriptors the updates have opened and not closed
    topics,       \* the record the broker last got under each topic
    sent,         \* requests sent: the host they are for, the address they went to
    \* history, read by properties only
    refused,      \* connections that failed
    wasted,       \* a thread ended with memory it had not freed
    mixed,        \* a host was looked up before the last result was read
    overlapped    \* two updates of the MQTT service ran at a time

threadVars == <<place, entry, rec, held, addr, topic>>
sharedVars == <<hostent, open, topics, sent, refused, wasted, mixed, overlapped>>
vars == <<serviceVars, threadVars, sharedVars>>

Descriptors == {"sock", "conn", "fp"}
Blocks      == {"ts", "request", "str", "ip", "remote", "buf", "sql", "query"}

Busy(t) == place[t] # "idle"

\* What a thread calls host: cfg->host of its entry.
HostOf(t) == sinfo[entry[t]].host

OthersServe(t, service) ==
    \E u \in Threads \ {t} : Busy(u) /\ sinfo[entry[u]].funcs = service

Init ==
    /\ ServicesInit
    /\ place = [t \in Threads |-> "idle"] /\ entry = [t \in Threads |-> 0]
    /\ rec = [t \in Threads |-> 0] /\ held = [t \in Threads |-> {}]
    /\ addr = [t \in Threads |-> Local] /\ topic = [t \in Threads |-> 1]
    /\ hostent = Local /\ open = 0 /\ sent = {}
    /\ topics = [i \in 1 .. Topics |-> 0]
    /\ refused = 0 /\ wasted = FALSE /\ mixed = FALSE /\ overlapped = FALSE
-----------------------------------------------------------------------------
(***************************************************************************)
(* send_to: the publish thread starts a thread for an enabled entry.       *)
(***************************************************************************)

Walks == Running /\ walk > 0

NextEntry ==
    /\ walk' = walk - 1
    /\ UsesList
    /\ UNCHANGED <<config, sinfo, phase, record, mosq, connected, lost, late>>

\* A disabled entry, or no thread to be had: the record is dropped.
SkipEntry ==
    /\ Walks
    /\ NextEntry
    /\ UNCHANGED <<threadVars, sharedVars>>

SendTo(t) ==
    /\ Walks /\ sinfo[walk].enabled /\ ~Busy(t)
    /\ place' = [place EXCEPT ![t] = "begin"]
    /\ entry' = [entry EXCEPT ![t] = walk]
    /\ rec' = [rec EXCEPT ![t] = IF sinfo[walk].funcs = "MQTT" THEN record ELSE 0]
    /\ overlapped' = (overlapped \/ (sinfo[walk].funcs = "MQTT" /\ OthersServe(t, "MQTT")))
    /\ NextEntry
    /\ UNCHANGED <<held, addr, topic, hostent, open, topics, sent, refused, wasted, mixed>>

At(t, p) == Running /\ place[t] = p
Goto(t, p) == place' = [place EXCEPT ![t] = p]
Takes(t, names) == held' = [held EXCEPT ![t] = @ \cup names]
Gives(t, names) == held' = [held EXCEPT ![t] = @ \ names]

\* names are freed or closed while held; the configuration is not read.
GivesOnce(t, names) ==
    /\ Gives(t, names)
    /\ misused' = (misused \/ ~(names \subseteq held[t]))

\* The thread returns from the update function; its copy is freed.
End(t, names) ==
    /\ place' = [place EXCEPT ![t] = "idle"]
    /\ entry' = [entry EXCEPT ![t] = 0] /\ rec' = [rec EXCEPT ![t] = 0]
    /\ addr' = [addr EXCEPT ![t] = Local] /\ topic' = [topic EXCEPT ![t] = 1]
    /\ held' = [held EXCEPT ![t] = {}]
    /\ wasted' = (wasted \/ ~(held[t] \cap Blocks \subseteq names))

serviceRest == <<config, sinfo, phase, walk, record, mosq, connected, lost, late>>

\* invoke_publisher calls update, which is NULL for an unknown service;
\* mqtt_publish takes the length of a timestamp that the first packet sets.
FirstPlace == [WeatherUnderground |-> "socket", MQTT |-> "topics", mysql |-> "dbopen",
               logfile |-> "logopen", Display |-> "display"]

Crashes(t) ==
    LET service == sinfo[entry[t]].funcs
    IN  service = NoFuncs \/ (service = "MQTT" /\ rec[t] = 0)

\* (Mutant: one update at a time, so that they share nothing.)
BeginAlone(t) ==
    /\ At(t, "begin") /\ ~Crashes(t)
    /\ \A u \in Threads \ {t} : place[u] \in {"idle", "begin"}
    /\ Goto(t, FirstPlace[sinfo[entry[t]].funcs])
    /\ IF sinfo[entry[t]].funcs = "WeatherUnderground"
       THEN Takes(t, {"ts", "request", "str"})
       ELSE UNCHANGED held
    /\ UsesList
    /\ UNCHANGED <<serviceRest, entry, rec, addr, topic, sharedVars>>

Begin(t) ==
    /\ At(t, "begin") /\ ~Crashes(t)
    /\ Goto(t, FirstPlace[sinfo[entry[t]].funcs])
    /\ IF sinfo[entry[t]].funcs = "WeatherUnderground"
       THEN Takes(t, {"ts", "request", "str"})
       ELSE UNCHANGED held
    /\ UsesList
    /\ UNCHANGED <<serviceRest, entry, rec, addr, topic, sharedVars>>

Crash(t) ==
    /\ At(t, "begin") /\ Crashes(t)
    /\ phase' = "crashed"
    /\ UNCHANGED <<config, sinfo, walk, record, mosq, connected, lost, misused, late>>
    /\ UNCHANGED <<threadVars, sharedVars>>
-----------------------------------------------------------------------------
(***************************************************************************)
(* send_to_wunderground and send_url                                       *)
(***************************************************************************)

Socket(t) ==
    /\ At(t, "socket")
    /\ \/ open = MaxOpen /\ Goto(t, "release") /\ UNCHANGED <<held, open>>
       \/ /\ open < MaxOpen /\ open' = open + 1
          /\ Takes(t, {"sock"})
          /\ Goto(t, "lookup")
    /\ UNCHANGED <<serviceRest, misused, entry, rec, addr, topic>>
    /\ UNCHANGED <<hostent, topics, sent, refused, wasted, mixed, overlapped>>

\* gethostbyname fills the one struct hostent of the process.
Lookup(t) ==
    /\ At(t, "lookup")
    /\ hostent' \in {HostOf(t), Local}
    /\ mixed' = (mixed \/ \E u \in Threads \ {t} : place[u] = "copy")
    /\ Takes(t, {"ip"})
    /\ Goto(t, "copy")
    /\ UsesList
    /\ UNCHANGED <<serviceRest, entry, rec, addr, topic>>
    /\ UNCHANGED <<open, topics, sent, refused, wasted, overlapped>>

\* (Mutant: the socket is left open.)
LookupFailsOpen(t) ==
    /\ At(t, "lookup")
    /\ Gives(t, {"sock"})
    /\ Goto(t, "release")
    /\ UsesList
    /\ UNCHANGED <<serviceRest, entry, rec, addr, topic, sharedVars>>

\* (Mutant: the result is not tested.)
LookupFailsOn(t) ==
    /\ At(t, "lookup")
    /\ Takes(t, {"ip"})
    /\ Goto(t, "copy")
    /\ UsesList
    /\ UNCHANGED <<serviceRest, entry, rec, addr, topic, sharedVars>>

LookupFails(t) ==
    /\ At(t, "lookup")
    /\ open' = open - 1 /\ Gives(t, {"sock"})
    /\ Goto(t, "release")
    /\ UsesList
    /\ UNCHANGED <<serviceRest, entry, rec, addr, topic>>
    /\ UNCHANGED <<hostent, topics, sent, refused, wasted, mixed, overlapped>>

\* inet_ntop writes what is in the struct by now; ip_addr is compared with
\* 127.0.1.1.
CopyAddress(t) ==
    /\ At(t, "copy")
    /\ addr' = [addr EXCEPT ![t] = hostent]
    /\ Goto(t, IF hostent = Local THEN "again" ELSE "connect")
    /\ Takes(t, IF hostent = Local THEN {} ELSE {"remote"})
    /\ UNCHANGED <<serviceRest, misused, entry, rec, topic, sharedVars>>

\* inet_ntop is given 15 bytes and needs 16 for the longest addresses: ip is
\* freed, the socket closed.
CopyFails(t) ==
    /\ At(t, "copy")
    /\ open' = open - 1 /\ GivesOnce(t, {"ip", "sock"})
    /\ Goto(t, "release")
    /\ UNCHANGED <<serviceRest, entry, rec, addr, topic>>
    /\ UNCHANGED <<hostent, topics, sent, refused, wasted, mixed, overlapped>>

\* resolve_host_ip6, whose result is the thread's own.
LookupAgain(t) ==
    /\ At(t, "again")
    /\ addr' = [addr EXCEPT ![t] = HostOf(t)]
    /\ Goto(t, "connect")
    /\ Takes(t, {"remote"})
    /\ UsesList
    /\ UNCHANGED <<serviceRest, entry, rec, topic, sharedVars>>

StillLocal(t) ==
    /\ At(t, "again")
    /\ open' = open - 1 /\ Gives(t, {"ip", "sock"})
    /\ Goto(t, "release")
    /\ UsesList
    /\ UNCHANGED <<serviceRest, entry, rec, addr, topic>>
    /\ UNCHANGED <<hostent, topics, sent, refused, wasted, mixed, overlapped>>

\* getaddrinfo fails: the NULL it returns is compared with 127.0.1.1.
CrashAgain(t) ==
    /\ At(t, "again")
    /\ phase' = "crashed"
    /\ UNCHANGED <<config, sinfo, walk, record, mosq, connected, lost, misused, late>>
    /\ UNCHANGED <<threadVars, sharedVars>>

\* (Mutant: what was allocated for the connection stays.)
ConnectFailsKeeps(t) ==
    /\ At(t, "connect")
    /\ refused' = refused + 1
    /\ Goto(t, "release")
    /\ Gives(t, {"sock"})
    /\ UNCHANGED <<serviceRest, misused, entry, rec, addr, topic>>
    /\ UNCHANGED <<hostent, open, topics, sent, wasted, mixed, overlapped>>

\* connect fails: memory is freed, the socket forgotten without being closed.
ConnectFails(t) ==
    /\ At(t, "connect")
    /\ refused' = refused + 1
    /\ GivesOnce(t, {"remote", "ip", "sock"})
    /\ Goto(t, "release")
    /\ UNCHANGED <<serviceRest, entry, rec, addr, topic>>
    /\ UNCHANGED <<hostent, open, topics, sent, wasted, mixed, overlapped>>

\* connect, send, and the buffer for the answer.
Request(t) ==
    /\ At(t, "connect")
    /\ sent' = sent \cup {<<HostOf(t), addr[t]>>}
    /\ Takes(t, {"buf"})
    /\ Goto(t, "recv")
    /\ UNCHANGED <<serviceRest, misused, entry, rec, addr, topic>>
    /\ UNCHANGED <<hostent, open, topics, refused, wasted, mixed, overlapped>>

\* (Mutant: the socket was closed when the answer was complete.)
AnswerClosesTwice(t) ==
    /\ At(t, "recv") /\ addr[t] \notin Hung
    /\ open' = open - 2
    /\ GivesOnce(t, {"buf", "sock", "remote", "ip"})
    /\ Goto(t, "release")
    /\ UNCHANGED <<serviceRest, entry, rec, addr, topic>>
    /\ UNCHANGED <<hostent, topics, sent, refused, wasted, mixed, overlapped>>

\* recv has no timeout; the loop ends when the server closes.
Answer(t) ==
    /\ At(t, "recv") /\ addr[t] \notin Hung
    /\ open' = open - 1
    /\ GivesOnce(t, {"buf", "sock", "remote", "ip"})
    /\ Goto(t, "release")
    /\ UNCHANGED <<serviceRest, entry, rec, addr, topic>>
    /\ UNCHANGED <<hostent, topics, sent, refused, wasted, mixed, overlapped>>

Release(t) ==
    /\ At(t, "release")
    /\ End(t, {"ts", "str", "request"})
    /\ UNCHANGED <<serviceRest, misused, hostent, open, topics, sent, refused, mixed, overlapped>>
-----------------------------------------------------------------------------
(***************************************************************************)
(* mqtt_publish, send_to_db, send_to_log, display_wd                       *)
(***************************************************************************)

\* (Mutant: the topics are formatted from the record as it now is.)
PublishTopicNow(t) ==
    /\ At(t, "topics") /\ topic[t] <= Topics
    /\ topics' = IF connected THEN [topics EXCEPT ![topic[t]] = record] ELSE topics
    /\ topic' = [topic EXCEPT ![t] = @ + 1]
    /\ UsesMosq
    /\ UNCHANGED <<serviceRest, place, entry, rec, held, addr>>
    /\ UNCHANGED <<hostent, open, sent, refused, wasted, mixed, overlapped>>

\* mosquitto_publish fails without a connection; the loop goes on.
PublishTopic(t) ==
    /\ At(t, "topics") /\ topic[t] <= Topics
    /\ topics' = IF connected THEN [topics EXCEPT ![topic[t]] = rec[t]] ELSE topics
    /\ topic' = [topic EXCEPT ![t] = @ + 1]
    /\ UsesMosq
    /\ UNCHANGED <<serviceRest, place, entry, rec, held, addr>>
    /\ UNCHANGED <<hostent, open, sent, refused, wasted, mixed, overlapped>>

Published(t) ==
    /\ At(t, "topics") /\ topic[t] > Topics
    /\ End(t, {})
    /\ UNCHANGED <<serviceRest, misused, hostent, open, topics, sent, refused, mixed, overlapped>>

\* mysql_real_connect may fail, and so may mysql_select_db, after which what
\* DbQuery does fails.
ConnectToDatabase(t) ==
    \/ Goto(t, "dbclose") /\ Takes(t, {"sql"}) /\ UNCHANGED open
    \/ /\ open < MaxOpen /\ open' = open + 1
       /\ Takes(t, {"sql", "conn"})
       /\ Goto(t, "dbquery")

\* Without memory there is no handle, which mysql_close accepts; a connection
\* that fails is closed as well.
DbOpen(t) ==
    /\ At(t, "dbopen")
    /\ \/ Goto(t, "dbclose") /\ UNCHANGED <<held, open>>
       \/ ConnectToDatabase(t)
    /\ UsesList
    /\ UNCHANGED <<serviceRest, entry, rec, addr, topic>>
    /\ UNCHANGED <<hostent, topics, sent, refused, wasted, mixed, overlapped>>

\* asprintf, mysql_ping and mysql_query, which may fail, and free.
DbQuery(t) ==
    /\ At(t, "dbquery")
    /\ Goto(t, "dbclose")
    /\ UNCHANGED <<serviceRest, misused, entry, rec, held, addr, topic, sharedVars>>

DbClose(t) ==
    /\ At(t, "dbclose")
    /\ open' = IF "conn" \in held[t] THEN open - 1 ELSE open
    /\ End(t, {"sql"})
    /\ UNCHANGED <<serviceRest, misused, hostent, topics, sent, refused, mixed, overlapped>>

\* fopen, which may fail: then the record is not logged.
LogOpen(t) ==
    /\ At(t, "logopen")
    /\ \/ Goto(t, "logwrite") /\ UNCHANGED <<held, open>>
       \/ /\ open < MaxOpen /\ open' = open + 1
          /\ Takes(t, {"fp"})
          /\ Goto(t, "logwrite")
    /\ UsesList
    /\ UNCHANGED <<serviceRest, entry, rec, addr, topic>>
    /\ UNCHANGED <<hostent, topics, sent, refused, wasted, mixed, overlapped>>

\* The line, and fclose.
LogWrite(t) ==
    /\ At(t, "logwrite")
    /\ open' = IF "fp" \in held[t] THEN open - 1 ELSE open
    /\ End(t, {})
    /\ UNCHANGED <<serviceRest, misused, hostent, topics, sent, refused, mixed, overlapped>>

Display(t) ==
    /\ At(t, "display")
    /\ End(t, {})
    /\ UsesList
    /\ UNCHANGED <<serviceRest, hostent, open, topics, sent, refused, mixed, overlapped>>
-----------------------------------------------------------------------------
ThreadNext(t) ==
    \/ Begin(t) \/ Crash(t)
    \/ Socket(t) \/ Lookup(t) \/ LookupFails(t) \/ CopyAddress(t) \/ CopyFails(t)
    \/ LookupAgain(t) \/ StillLocal(t) \/ CrashAgain(t)
    \/ ConnectFails(t) \/ Request(t) \/ Answer(t) \/ Release(t)
    \/ PublishTopic(t) \/ Published(t)
    \/ DbOpen(t) \/ DbQuery(t) \/ DbClose(t)
    \/ LogOpen(t) \/ LogWrite(t) \/ Display(t)

ServicesNext ==
    \/ ReadService \/ ConfigRead \/ InitPublisher \/ StartPublishing
    \/ Wake \/ BrokerDrops \/ Shutdown(\E t \in Threads : Busy(t)) \/ Exit

Next ==
    \/ ServicesNext /\ UNCHANGED <<threadVars, sharedVars>>
    \/ SkipEntry
    \/ \E t \in Threads : SendTo(t) \/ ThreadNext(t)

Spec == Init /\ [][Next]_vars

\* Threads run, and whatever they wait for but a hung server comes to an end.
FairSpec == Spec /\ \A t \in Threads : WF_vars(ThreadNext(t))
-----------------------------------------------------------------------------
(***************************************************************************)
(* Properties.                                                             *)
(***************************************************************************)

Places == {"idle", "begin", "socket", "lookup", "copy", "again", "connect",
           "recv", "release", "topics", "dbopen", "dbquery", "dbclose",
           "logopen", "logwrite", "display"}

\* Every variable has a value of its type; no more descriptors are open than the
\* process may have.
TypeOK ==
    /\ config \in Seq(Entry)
    /\ sinfo \in Seq([host : Hosts, enabled : BOOLEAN, funcs : Known \cup {NoFuncs}])
    /\ phase \in {"config", "init", "run", "freed", "ended", "crashed"}
    /\ walk \in 0 .. Len(sinfo) /\ record \in 0 .. MaxRecords
    /\ mosq \in {"null", "live", "destroyed"} /\ lost \in Nat
    /\ {connected, misused, late, wasted, mixed, overlapped} \subseteq BOOLEAN
    /\ place \in [Threads -> Places]
    /\ entry \in [Threads -> 0 .. Len(sinfo)]
    /\ rec \in [Threads -> 0 .. MaxRecords]
    /\ held \in [Threads -> SUBSET (Descriptors \cup Blocks)]
    /\ addr \in [Threads -> Hosts \cup {Local}]
    /\ topic \in [Threads -> 1 .. Topics + 1]
    /\ hostent \in Hosts \cup {Local}
    /\ open \in 0 .. MaxOpen /\ refused \in Nat
    /\ topics \in [1 .. Topics -> 0 .. MaxRecords]
    /\ sent \subseteq Hosts \X Hosts

\* On every path through an update each descriptor is closed once, and none twice,
\* but for one socket with every connection that fails, which is never closed.
DescriptorsExact ==
    open = refused + Cardinality({t \in Threads : held[t] \cap Descriptors # {}})

\* No update ends, whatever fails in it, with memory it has not freed.
Released == ~wasted

\* Nothing is freed twice, and the services and the MQTT handle are not used when
\* main has freed them, unless main's loop ended during a walk or an update, or
\* the file lists the MQTT service twice.
NoMisuse == misused => late \/ \E i, j \in MqttEntries : i # j

\* A request goes to the host it was made for unless a second lookup came between
\* gethostbyname and the use of its result.
OwnHost == ~mixed => \A m \in sent : m[1] = m[2]

\* While updates of the MQTT service do not overlap, the topics a subscriber sees
\* are those of a later record in front of those of an earlier one, and of a
\* single record when no update is under way.
TopicsWhole ==
    connected /\ ~overlapped =>
        /\ \A i, j \in 1 .. Topics : i < j => topics[i] >= topics[j]
        /\ \/ \E t \in Threads : Busy(t) /\ sinfo[entry[t]].funcs = "MQTT"
           \/ \A i, j \in 1 .. Topics : topics[i] = topics[j]

\* Every update ends, however many others wait for a server that is hung, and
\* even if they have all descriptors; only those that wait for such a server stay.
EveryUpdateEnds ==
    \A t \in Threads :
        Busy(t) ~> \/ ~Busy(t) \/ ~Running
                   \/ place[t] = "recv" /\ addr[t] \in Hung

\* "<host> is the host name" that a request is made for (wfp-wunderground.c:99)
\* and that send_url is given: it is also the one the request is sent to.
ToItsHost == \A m \in sent : m[1] = m[2]
=============================================================================
