------------------------------ MODULE Services ------------------------------
(***************************************************************************)
(* The services of the process: read_config puts an entry in the list for  *)
(* every service of the file and service_setup gives it its functions;     *)
(* initialize_publishers calls init of every entry, enabled or not; the    *)
(* publish thread walks the list for every record; when main's loop ends,  *)
(* cleanup_publishers and sinfo_free take the list down.  The updates      *)
(* themselves, and the threads they run in, are in Delivery.               *)
(***************************************************************************)
EXTENDS Integers, Sequences

CONSTANTS
    Configs,      \* what the file may list: sequences of entries
    Hosts,        \* the "host" of an entry
    MaxRecords    \* bound: records that are published

\* Names service_setup knows and this model has updates for.
Known == {"logfile", "WeatherUnderground", "MQTT", "mysql", "Display"}

\* sinfo->funcs of a service it does not know: all NULL.
NoFuncs == "none"

Entry == [service : STRING, host : Hosts, enabled : BOOLEAN]

ASSUME ConfigsAssumption == Configs \subseteq Seq(Entry)
ASSUME RecordsAssumption == MaxRecords \in Nat

VARIABLES
    config,       \* entries of the file not yet read
    sinfo,        \* the list, its head last
    phase,        \* how far main is
    walk,         \* the place of sitr in the list; 0 = NULL
    record,       \* records main has filled wd with
    mosq,         \* the handle of the MQTT service
    connected,    \* its connection to the broker
    lost,         \* instances that were overwritten in mosq
    \* history, read by properties only
    misused,      \* something was used or freed after it had been freed
    late          \* main left its loop during a walk or an update

serviceVars == <<config, sinfo, phase, walk, record, mosq, connected, lost, misused, late>>

ServiceSetup(name) == IF name \in Known THEN name ELSE NoFuncs

ServicesInit ==
    /\ config \in Configs /\ sinfo = <<>>
    /\ phase = "config" /\ walk = 0 /\ record = 0
    /\ mosq = "null" /\ connected = FALSE /\ lost = 0
    /\ misused = FALSE /\ late = FALSE
-----------------------------------------------------------------------------
\* One turn of read_config's loop.
ReadService ==
    /\ phase = "config" /\ config # <<>>
    /\ LET e == Head(config)
       IN  sinfo' = Append(sinfo, [host |-> e.host, enabled |-> e.enabled,
                                   funcs |-> ServiceSetup(e.service)])
    /\ config' = Tail(config)
    /\ UNCHANGED <<phase, walk, record, mosq, connected, lost, misused, late>>

ConfigRead ==
    /\ phase = "config" /\ config = <<>>
    /\ phase' = "init" /\ walk' = Len(sinfo)
    /\ UNCHANGED <<config, sinfo, record, mosq, connected, lost, misused, late>>

\* mqtt_init: an instance, if there is memory for it, and a connection, if the
\* broker answers.  Nothing tries again later.
MqttInit ==
    /\ \/ mosq' = "null" /\ connected' = FALSE
       \/ mosq' = "live" /\ connected' \in BOOLEAN
    /\ lost' = IF mosq = "live" THEN lost + 1 ELSE lost

\* One turn of initialize_publishers' loop.  The other init functions only keep
\* the debug flag.
InitPublisher ==
    /\ phase = "init" /\ walk > 0
    /\ IF sinfo[walk].funcs = "MQTT" THEN MqttInit ELSE UNCHANGED <<mosq, connected, lost>>
    /\ walk' = walk - 1
    /\ UNCHANGED <<config, sinfo, phase, record, misused, late>>

StartPublishing ==
    /\ phase = "init" /\ walk = 0
    /\ phase' = "run"
    /\ UNCHANGED <<config, sinfo, walk, record, mosq, connected, lost, misused, late>>

\* (Mutant: the publish thread is not cancelled.)
WakeUncancelled ==
    /\ phase \in {"run", "freed"} /\ walk = 0
    /\ record' \in {record, record + 1} /\ record' <= MaxRecords
    /\ walk' = Len(sinfo)
    /\ UNCHANGED <<config, sinfo, phase, mosq, connected, lost, misused, late>>

\* The publish thread wakes up, for a new record or for none.
Wake ==
    /\ phase = "run" /\ walk = 0
    /\ record' \in {record, record + 1} /\ record' <= MaxRecords
    /\ walk' = Len(sinfo)
    /\ UNCHANGED <<config, sinfo, phase, mosq, connected, lost, misused, late>>

\* (External) the broker, or the network, drops the connection for good.
BrokerDrops ==
    /\ phase = "run" /\ connected
    /\ connected' = FALSE
    /\ UNCHANGED <<config, sinfo, phase, walk, record, mosq, lost, misused, late>>

\* The entries whose cleanup is mqtt_disconnect.
MqttEntries == {i \in 1 .. Len(sinfo) : sinfo[i].funcs = "MQTT"}

\* read returns 0 or less: every MQTT entry disconnects and destroys mosq, the
\* list is freed.  The publish thread is cancelled where it waits.
Shutdown(busy) ==
    /\ phase = "run"
    /\ phase' = "freed"
    /\ mosq' = IF MqttEntries # {} /\ mosq = "live" THEN "destroyed" ELSE mosq
    /\ connected' = FALSE
    /\ misused' = (misused \/ (mosq = "live" /\ \E i, j \in MqttEntries : i # j))
    /\ late' = (walk > 0 \/ busy)
    /\ UNCHANGED <<config, sinfo, walk, record, lost>>

Exit ==
    /\ phase = "freed"
    /\ phase' = "ended"
    /\ UNCHANGED <<config, sinfo, walk, record, mosq, connected, lost, misused, late>>

\* The threads of the process run.
Running == phase \in {"run", "freed"}

\* A use of the list or of an entry's configuration.
UsesList == misused' = (misused \/ phase = "freed")
UsesMosq == misused' = (misused \/ mosq = "destroyed")
=============================================================================
