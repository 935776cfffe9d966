--------------------------- MODULE DeliveryProofs ---------------------------
(***************************************************************************)
(* Proofs about Delivery, for any configuration file, hosts, number of     *)
(* threads, of descriptors, of topics and of records.                      *)
(***************************************************************************)
EXTENDS Delivery, FiniteSetTheorems, TLAPS

Web == {"ts", "request", "str"}

\* What a thread holds where, and that it never connects to Local.
HeldAt(t) ==
    /\ place[t] \in {"idle", "begin", "topics", "dbopen", "logopen", "display"} => held[t] = {}
    /\ place[t] \in {"socket", "release"} => held[t] = Web
    /\ place[t] = "lookup" => held[t] = Web \cup {"sock"}
    /\ place[t] \in {"copy", "again"} => held[t] = Web \cup {"sock", "ip"}
    /\ place[t] = "connect" => held[t] = Web \cup {"sock", "ip", "remote"}
    /\ place[t] = "recv" => held[t] = Web \cup {"sock", "ip", "remote", "buf"}
    /\ place[t] = "dbquery" => held[t] = {"sql", "conn"}
    /\ place[t] = "dbclose" => held[t] \in {{"sql", "conn"}, {"sql"}, {}}
    /\ place[t] = "logwrite" => held[t] \in {{"fp"}, {}}
    /\ place[t] \in {"connect", "recv"} => addr[t] \in Hosts

Held == \A t \in Threads : HeldAt(t)

Early == phase \in {"config", "init"}

\* Threads are started when the list is complete, and have an entry of it each.
Started ==
    /\ \A t \in Threads : Busy(t) => ~Early /\ entry[t] \in 1 .. Len(sinfo)
    /\ phase = "config" => walk = 0
    /\ phase # "config" => config = <<>>

Func == Known \cup {NoFuncs}
SinfoType == [host : Hosts, enabled : BOOLEAN, funcs : Func]
-----------------------------------------------------------------------------
(***************************************************************************)
(* Types, and what is held.                                                *)
(***************************************************************************)

\* The variables of one thread.
ThreadType(t) ==
    /\ place[t] \in Places
    /\ entry[t] \in 0 .. Len(sinfo)
    /\ rec[t] \in 0 .. MaxRecords
    /\ held[t] \in SUBSET (Descriptors \cup Blocks)
    /\ addr[t] \in Hosts \cup {Local}
    /\ topic[t] \in 1 .. Topics + 1

SharedType ==
    /\ hostent \in Hosts \cup {Local}
    /\ refused \in Nat
    /\ topics \in [1 .. Topics -> 0 .. MaxRecords]
    /\ wasted \in BOOLEAN /\ mixed \in BOOLEAN /\ overlapped \in BOOLEAN
    /\ misused \in BOOLEAN
    /\ sent \subseteq Hosts \X Hosts

Types == TypeOK /\ Held /\ Started

\* Only the variables of thread t change, or none.
OnlyThread(t) ==
    /\ place' = [place EXCEPT ![t] = place'[t]]
    /\ entry' = [entry EXCEPT ![t] = entry'[t]]
    /\ rec' = [rec EXCEPT ![t] = rec'[t]]
    /\ held' = [held EXCEPT ![t] = held'[t]]
    /\ addr' = [addr EXCEPT ![t] = addr'[t]]
    /\ topic' = [topic EXCEPT ![t] = topic'[t]]

\* A descriptor is opened, closed, or forgotten with a connection that fails.
Holds(t) == held[t] \cap Descriptors # {}

Account(t) ==
    \/ (Holds(t)' <=> Holds(t)) /\ open' = open /\ refused' = refused
    \/ ~Holds(t) /\ Holds(t)' /\ open < MaxOpen /\ open' = open + 1 /\ refused' = refused
    \/ Holds(t) /\ ~Holds(t)' /\ open' = open - 1 /\ refused' = refused
    \/ Holds(t) /\ ~Holds(t)' /\ open' = open /\ refused' = refused + 1

\* What a step of a thread does to the types.
Steps(t) ==
    /\ OnlyThread(t) /\ ThreadType(t)' /\ HeldAt(t)' /\ SharedType'
    /\ Account(t)
    /\ wasted' = wasted

\* A thread other than main and the publish thread runs, and leaves the rest alone.
Moves(t) ==
    /\ UNCHANGED serviceRest
    /\ phase \in {"run", "freed"} /\ Busy(t)
    /\ Busy(t)' => entry'[t] = entry[t]
    /\ phase = "run" /\ mosq # "destroyed" => misused' = misused

\* What a step of a thread does to the static result of gethostbyname, to the
\* address taken from it, and to the requests sent.
Resolves(t) ==
    /\ mixed => mixed'
    /\ \/ hostent' = hostent /\ place'[t] # "copy"
       \/ /\ hostent' \in {HostOf(t), Local} /\ place'[t] = "copy"
          /\ mixed' \/ \A u \in Threads \ {t} : place[u] # "copy"
    /\ place'[t] \in {"connect", "recv"} =>
           \/ addr'[t] = HostOf(t)
           \/ place[t] = "copy" /\ addr'[t] = hostent /\ hostent # Local
           \/ place[t] \in {"connect", "recv"} /\ addr'[t] = addr[t]
    /\ \A m \in sent' : m \in sent \/ (place[t] = "connect" /\ m = <<HostOf(t), addr[t]>>)

Facts(t) ==
    /\ place \in [Threads -> Places] /\ entry \in [Threads -> 0 .. Len(sinfo)]
    /\ rec \in [Threads -> 0 .. MaxRecords]
    /\ held \in [Threads -> SUBSET (Descriptors \cup Blocks)]
    /\ addr \in [Threads -> Hosts \cup {Local}] /\ topic \in [Threads -> 1 .. Topics + 1]
    /\ SharedType /\ ThreadType(t) /\ HeldAt(t)
    /\ Len(sinfo) \in Nat /\ open \in 0 .. MaxOpen

LEMMA ThreadFacts ==
    ASSUME Types, NEW t \in Threads
    PROVE  Facts(t)
BY DEF Facts, Types, TypeOK, Held, SharedType, ThreadType

LEMMA Zeros ==
    /\ 0 \in 0 .. MaxRecords /\ 1 \in 1 .. Topics + 1
    /\ \A n \in Nat : 0 \in 0 .. n
BY RecordsAssumption, BoundsAssumption

LEMMA EntryType ==
    ASSUME TypeOK, Started, NEW t \in Threads, Busy(t)
    PROVE  /\ HostOf(t) \in Hosts /\ sinfo[entry[t]].funcs \in Func
           /\ entry[t] \in 1 .. Len(sinfo)
<1>1. entry[t] \in 1 .. Len(sinfo) /\ sinfo \in Seq(SinfoType)
  BY DEF Started, TypeOK, SinfoType, Func
<1>2. sinfo[entry[t]] \in SinfoType
  BY <1>1
<1> QED
  BY <1>1, <1>2 DEF SinfoType, HostOf

LEMMA FirstPlaces ==
    ASSUME NEW s \in Known
    PROVE  /\ s = "WeatherUnderground" => FirstPlace[s] = "socket"
           /\ s # "WeatherUnderground" => FirstPlace[s] \in {"topics", "dbopen", "logopen", "display"}
           /\ s = "MQTT" <=> FirstPlace[s] = "topics"
BY DEF Known, FirstPlace

-----------------------------------------------------------------------------
(***************************************************************************)
(* One lemma for each action of a thread.                                  *)
(***************************************************************************)

LEMMA LocalBegin ==
    ASSUME Types, NEW t \in Threads, Begin(t)
    PROVE  Steps(t) /\ Moves(t) /\ Resolves(t)
<1>t. Facts(t) /\ phase \in {"run", "freed"}
  BY ThreadFacts DEF Begin, At, Running
<1>1. OnlyThread(t)
  BY <1>t DEF Begin, OnlyThread, Goto, Takes, Facts
<1>f. /\ sinfo[entry[t]].funcs \in Known
      /\ Busy(t)
  BY EntryType DEF Types, Begin, At, Busy, Crashes, Func
<1>p. /\ sinfo[entry[t]].funcs = "WeatherUnderground" =>
             place'[t] = "socket" /\ held'[t] = held[t] \cup Web
      /\ sinfo[entry[t]].funcs # "WeatherUnderground" =>
             place'[t] \in {"topics", "dbopen", "logopen", "display"} /\ held'[t] = held[t]
  BY <1>f, FirstPlaces DEF Begin, Goto, Takes, Types, TypeOK, Web
<1>h. held[t] = {}
  BY DEF Begin, Types, Held, HeldAt, At
<1>2. ThreadType(t)' /\ HeldAt(t)'
  BY <1>t, <1>p, <1>h DEF Begin, HeldAt, ThreadType, Places, Blocks, Web, serviceRest,
         Facts
<1>3. SharedType'
  BY <1>t DEF Begin, SharedType, UsesList, serviceRest, sharedVars, ThreadType, HeldAt,
         At, Facts
<1>4. Account(t)
  BY <1>t, <1>2, <1>p, <1>h DEF Begin, Account, Holds, Descriptors, HeldAt, At, Goto,
         Takes, Web, sharedVars, Facts
<1>5. wasted' = wasted
  BY <1>t DEF Begin, SharedType, Blocks, Web, HeldAt, At, sharedVars, Facts
<1>6. phase = "run" /\ mosq # "destroyed" => misused' = misused
  BY <1>t DEF Begin, HeldAt, At, Web, UsesList, SharedType, sharedVars, Facts
<1>7. Moves(t)
  BY <1>t, <1>6 DEF Begin, Moves, Busy, At, Goto, Facts
<1>8. Resolves(t)
  BY <1>t, <1>p DEF Begin, Resolves, At, Goto, SharedType, sharedVars, Facts
<1> QED
  BY <1>1, <1>2, <1>3, <1>4, <1>5, <1>7, <1>8 DEF Steps

LEMMA LocalSocket ==
    ASSUME Types, NEW t \in Threads, Socket(t)
    PROVE  Steps(t) /\ Moves(t) /\ Resolves(t)
<1>t. Facts(t) /\ phase \in {"run", "freed"}
  BY ThreadFacts DEF Socket, At, Running
<1>1. OnlyThread(t)
  BY <1>t DEF Socket, OnlyThread, Goto, Takes, Facts
<1>2. ThreadType(t)' /\ HeldAt(t)'
  BY <1>t DEF Socket, Held, HeldAt, ThreadType, At, Goto, Takes, Places, Descriptors,
         Blocks, Web, serviceRest, Facts
<1>3. SharedType'
  BY <1>t DEF Socket, SharedType, serviceRest, ThreadType, HeldAt, At, Facts
<1>4. Account(t)
  BY <1>t, <1>2 DEF Socket, Account, Holds, Descriptors, HeldAt, At, Goto, Takes, Web,
         Facts
<1>5. wasted' = wasted
  BY <1>t DEF Socket, SharedType, Blocks, Web, HeldAt, At, Facts
<1>6. phase = "run" /\ mosq # "destroyed" => misused' = misused
  BY <1>t DEF Socket, HeldAt, At, Web, SharedType, Facts
<1>7. Moves(t)
  BY <1>t, <1>6 DEF Socket, Moves, Busy, At, Goto, Facts
<1>8. Resolves(t)
  BY <1>t DEF Socket, Resolves, At, Goto, SharedType, Facts
<1> QED
  BY <1>1, <1>2, <1>3, <1>4, <1>5, <1>7, <1>8 DEF Steps

LEMMA LocalLookup ==
    ASSUME Types, NEW t \in Threads, Lookup(t)
    PROVE  Steps(t) /\ Moves(t) /\ Resolves(t)
<1>t. Facts(t) /\ phase \in {"run", "freed"}
  BY ThreadFacts DEF Lookup, At, Running
<1>e. HostOf(t) \in Hosts
  BY EntryType DEF Types, Lookup, At, Busy
<1>1. OnlyThread(t)
  BY <1>t DEF Lookup, OnlyThread, Goto, Takes, Facts
<1>2. ThreadType(t)' /\ HeldAt(t)'
  BY <1>t, <1>e DEF Lookup, Held, HeldAt, ThreadType, At, Goto, Takes, Places,
         Descriptors, Blocks, Web, serviceRest, Facts
<1>3. SharedType'
  BY <1>t, <1>e DEF Lookup, SharedType, UsesList, serviceRest, ThreadType, HeldAt, At,
         Facts
<1>4. Account(t)
  BY <1>t, <1>2 DEF Lookup, Account, Holds, Descriptors, HeldAt, At, Goto, Takes, Web,
         Facts
<1>5. wasted' = wasted
  BY <1>t DEF Lookup, SharedType, Blocks, Web, HeldAt, At, Facts
<1>6. phase = "run" /\ mosq # "destroyed" => misused' = misused
  BY <1>t DEF Lookup, HeldAt, At, Web, UsesList, SharedType, Facts
<1>7. Moves(t)
  BY <1>t, <1>6 DEF Lookup, Moves, Busy, At, Goto, Facts
<1>8. Resolves(t)
  BY <1>t DEF Lookup, Resolves, At, Goto, SharedType, Facts
<1> QED
  BY <1>1, <1>2, <1>3, <1>4, <1>5, <1>7, <1>8 DEF Steps

LEMMA LocalLookupFails ==
    ASSUME Types, NEW t \in Threads, LookupFails(t)
    PROVE  Steps(t) /\ Moves(t) /\ Resolves(t)
<1>t. Facts(t) /\ phase \in {"run", "freed"}
  BY ThreadFacts DEF LookupFails, At, Running
<1>1. OnlyThread(t)
  BY <1>t DEF LookupFails, OnlyThread, Goto, Gives, Facts
<1>2. ThreadType(t)' /\ HeldAt(t)'
  BY <1>t DEF LookupFails, Held, HeldAt, ThreadType, At, Goto, Gives, Places,
         Descriptors, Blocks, Web, serviceRest, Facts
<1>3. SharedType'
  BY <1>t DEF LookupFails, SharedType, UsesList, serviceRest, ThreadType, HeldAt, At,
         Facts
<1>4. Account(t)
  BY <1>t, <1>2 DEF LookupFails, Account, Holds, Descriptors, HeldAt, At, Goto, Gives,
         Web, Facts
<1>5. wasted' = wasted
  BY <1>t DEF LookupFails, SharedType, Blocks, Web, HeldAt, At, Facts
<1>6. phase = "run" /\ mosq # "destroyed" => misused' = misused
  BY <1>t DEF LookupFails, HeldAt, At, Web, UsesList, SharedType, Facts
<1>7. Moves(t)
  BY <1>t, <1>6 DEF LookupFails, Moves, Busy, At, Goto, Facts
<1>8. Resolves(t)
  BY <1>t DEF LookupFails, Resolves, At, Goto, SharedType, Facts
<1> QED
  BY <1>1, <1>2, <1>3, <1>4, <1>5, <1>7, <1>8 DEF Steps

LEMMA LocalCopyAddress ==
    ASSUME Types, NEW t \in Threads, CopyAddress(t)
    PROVE  Steps(t) /\ Moves(t) /\ Resolves(t)
<1>t. Facts(t) /\ phase \in {"run", "freed"}
  BY ThreadFacts DEF CopyAddress, At, Running
<1>1. OnlyThread(t)
  BY <1>t DEF CopyAddress, OnlyThread, Goto, Takes, Facts
<1>2. ThreadType(t)' /\ HeldAt(t)'
  BY <1>t DEF SharedType, CopyAddress, Held, HeldAt, ThreadType, At, Goto, Takes, Places,
         Descriptors, Blocks, Web, serviceRest, Facts
<1>3. SharedType'
  BY <1>t DEF CopyAddress, SharedType, serviceRest, sharedVars, ThreadType, HeldAt, At,
         Facts
<1>4. Account(t)
  BY <1>t, <1>2 DEF CopyAddress, Account, Holds, Descriptors, HeldAt, At, Goto, Takes,
         Web, sharedVars, Facts
<1>5. wasted' = wasted
  BY <1>t DEF CopyAddress, SharedType, Blocks, Web, HeldAt, At, sharedVars, Facts
<1>6. phase = "run" /\ mosq # "destroyed" => misused' = misused
  BY <1>t DEF CopyAddress, HeldAt, At, Web, SharedType, sharedVars, Facts
<1>7. Moves(t)
  BY <1>t, <1>6 DEF CopyAddress, Moves, Busy, At, Goto, Facts
<1>8. Resolves(t)
  BY <1>t DEF CopyAddress, Resolves, At, Goto, SharedType, sharedVars, Facts
<1> QED
  BY <1>1, <1>2, <1>3, <1>4, <1>5, <1>7, <1>8 DEF Steps

LEMMA LocalCopyFails ==
    ASSUME Types, NEW t \in Threads, CopyFails(t)
    PROVE  Steps(t) /\ Moves(t) /\ Resolves(t)
<1>t. Facts(t) /\ phase \in {"run", "freed"}
  BY ThreadFacts DEF CopyFails, At, Running
<1>1. OnlyThread(t)
  BY <1>t DEF CopyFails, OnlyThread, Goto, Gives, GivesOnce, Facts
<1>2. ThreadType(t)' /\ HeldAt(t)'
  BY <1>t DEF CopyFails, Held, HeldAt, ThreadType, At, Goto, Gives, GivesOnce, Places,
         Descriptors, Blocks, Web, serviceRest, Facts
<1>3. SharedType'
  BY <1>t DEF CopyFails, SharedType, GivesOnce, serviceRest, ThreadType, HeldAt, At, Facts
<1>4. Account(t)
  BY <1>t, <1>2 DEF CopyFails, Account, Holds, Descriptors, HeldAt, At, Goto, Gives,
         GivesOnce, Web, Facts
<1>5. wasted' = wasted
  BY <1>t DEF CopyFails, SharedType, Blocks, Web, HeldAt, At, Facts
<1>6. phase = "run" /\ mosq # "destroyed" => misused' = misused
  BY <1>t DEF CopyFails, HeldAt, At, Web, GivesOnce, SharedType, Facts
<1>7. Moves(t)
  BY <1>t, <1>6 DEF CopyFails, Moves, Busy, At, Goto, Facts
<1>8. Resolves(t)
  BY <1>t DEF CopyFails, Resolves, At, Goto, SharedType, Facts
<1> QED
  BY <1>1, <1>2, <1>3, <1>4, <1>5, <1>7, <1>8 DEF Steps

LEMMA LocalLookupAgain ==
    ASSUME Types, NEW t \in Threads, LookupAgain(t)
    PROVE  Steps(t) /\ Moves(t) /\ Resolves(t)
<1>t. Facts(t) /\ phase \in {"run", "freed"}
  BY ThreadFacts DEF LookupAgain, At, Running
<1>e. HostOf(t) \in Hosts
  BY EntryType DEF Types, LookupAgain, At, Busy
<1>1. OnlyThread(t)
  BY <1>t DEF LookupAgain, OnlyThread, Goto, Takes, Facts
<1>2. ThreadType(t)' /\ HeldAt(t)'
  BY <1>t, <1>e DEF LookupAgain, Held, HeldAt, ThreadType, At, Goto, Takes, Places,
         Descriptors, Blocks, Web, serviceRest, Facts
<1>3. SharedType'
  BY <1>t, <1>e DEF LookupAgain, SharedType, UsesList, serviceRest, sharedVars,
         ThreadType, HeldAt, At, Facts
<1>4. Account(t)
  BY <1>t, <1>2 DEF LookupAgain, Account, Holds, Descriptors, HeldAt, At, Goto, Takes,
         Web, sharedVars, Facts
<1>5. wasted' = wasted
  BY <1>t DEF LookupAgain, SharedType, Blocks, Web, HeldAt, At, sharedVars, Facts
<1>6. phase = "run" /\ mosq # "destroyed" => misused' = misused
  BY <1>t DEF LookupAgain, HeldAt, At, Web, UsesList, SharedType, sharedVars, Facts
<1>7. Moves(t)
  BY <1>t, <1>6 DEF LookupAgain, Moves, Busy, At, Goto, Facts
<1>8. Resolves(t)
  BY <1>t DEF LookupAgain, Resolves, At, Goto, SharedType, sharedVars, Facts
<1> QED
  BY <1>1, <1>2, <1>3, <1>4, <1>5, <1>7, <1>8 DEF Steps

LEMMA LocalStillLocal ==
    ASSUME Types, NEW t \in Threads, StillLocal(t)
    PROVE  Steps(t) /\ Moves(t) /\ Resolves(t)
<1>t. Facts(t) /\ phase \in {"run", "freed"}
  BY ThreadFacts DEF StillLocal, At, Running
<1>1. OnlyThread(t)
  BY <1>t DEF StillLocal, OnlyThread, Goto, Gives, Facts
<1>2. ThreadType(t)' /\ HeldAt(t)'
  BY <1>t DEF StillLocal, Held, HeldAt, ThreadType, At, Goto, Gives, Places, Descriptors,
         Blocks, Web, serviceRest, Facts
<1>3. SharedType'
  BY <1>t DEF StillLocal, SharedType, UsesList, serviceRest, ThreadType, HeldAt, At, Facts
<1>4. Account(t)
  BY <1>t, <1>2 DEF StillLocal, Account, Holds, Descriptors, HeldAt, At, Goto, Gives,
         Web, Facts
<1>5. wasted' = wasted
  BY <1>t DEF StillLocal, SharedType, Blocks, Web, HeldAt, At, Facts
<1>6. phase = "run" /\ mosq # "destroyed" => misused' = misused
  BY <1>t DEF StillLocal, HeldAt, At, Web, UsesList, SharedType, Facts
<1>7. Moves(t)
  BY <1>t, <1>6 DEF StillLocal, Moves, Busy, At, Goto, Facts
<1>8. Resolves(t)
  BY <1>t DEF StillLocal, Resolves, At, Goto, SharedType, Facts
<1> QED
  BY <1>1, <1>2, <1>3, <1>4, <1>5, <1>7, <1>8 DEF Steps

LEMMA LocalConnectFails ==
    ASSUME Types, NEW t \in Threads, ConnectFails(t)
    PROVE  Steps(t) /\ Moves(t) /\ Resolves(t)
<1>t. Facts(t) /\ phase \in {"run", "freed"}
  BY ThreadFacts DEF ConnectFails, At, Running
<1>1. OnlyThread(t)
  BY <1>t DEF ConnectFails, OnlyThread, Goto, Gives, GivesOnce, Facts
<1>2. ThreadType(t)' /\ HeldAt(t)'
  BY <1>t DEF ConnectFails, Held, HeldAt, ThreadType, At, Goto, Gives, GivesOnce, Places,
         Descriptors, Blocks, Web, serviceRest, Facts
<1>3. SharedType'
  BY <1>t DEF ConnectFails, SharedType, GivesOnce, serviceRest, ThreadType, HeldAt, At,
         Facts
<1>4. Account(t)
  BY <1>t, <1>2 DEF ConnectFails, Account, Holds, Descriptors, HeldAt, At, Goto, Gives,
         GivesOnce, Web, Facts
<1>5. wasted' = wasted
  BY <1>t DEF ConnectFails, SharedType, Blocks, Web, HeldAt, At, Facts
<1>6. phase = "run" /\ mosq # "destroyed" => misused' = misused
  BY <1>t DEF ConnectFails, HeldAt, At, Web, GivesOnce, SharedType, Facts
<1>7. Moves(t)
  BY <1>t, <1>6 DEF ConnectFails, Moves, Busy, At, Goto, Facts
<1>8. Resolves(t)
  BY <1>t DEF ConnectFails, Resolves, At, Goto, SharedType, Facts
<1> QED
  BY <1>1, <1>2, <1>3, <1>4, <1>5, <1>7, <1>8 DEF Steps

LEMMA LocalRequest ==
    ASSUME Types, NEW t \in Threads, Request(t)
    PROVE  Steps(t) /\ Moves(t) /\ Resolves(t)
<1>t. Facts(t) /\ phase \in {"run", "freed"}
  BY ThreadFacts DEF Request, At, Running
<1>e. HostOf(t) \in Hosts
  BY EntryType DEF Types, Request, At, Busy
<1>1. OnlyThread(t)
  BY <1>t DEF Request, OnlyThread, Goto, Takes, Facts
<1>2. ThreadType(t)' /\ HeldAt(t)'
  BY <1>t, <1>e DEF Request, Held, HeldAt, ThreadType, At, Goto, Takes, Places,
         Descriptors, Blocks, Web, serviceRest, Facts
<1>3. SharedType'
  BY <1>t, <1>e DEF Request, SharedType, serviceRest, ThreadType, HeldAt, At, Facts
<1>4. Account(t)
  BY <1>t, <1>2 DEF Request, Account, Holds, Descriptors, HeldAt, At, Goto, Takes, Web,
         Facts
<1>5. wasted' = wasted
  BY <1>t DEF Request, SharedType, Blocks, Web, HeldAt, At, Facts
<1>6. phase = "run" /\ mosq # "destroyed" => misused' = misused
  BY <1>t DEF Request, HeldAt, At, Web, SharedType, Facts
<1>7. Moves(t)
  BY <1>t, <1>6 DEF Request, Moves, Busy, At, Goto, Facts
<1>8. Resolves(t)
  BY <1>t DEF Request, Resolves, At, Goto, SharedType, Facts
<1> QED
  BY <1>1, <1>2, <1>3, <1>4, <1>5, <1>7, <1>8 DEF Steps

LEMMA LocalAnswer ==
    ASSUME Types, NEW t \in Threads, Answer(t)
    PROVE  Steps(t) /\ Moves(t) /\ Resolves(t)
<1>t. Facts(t) /\ phase \in {"run", "freed"}
  BY ThreadFacts DEF Answer, At, Running
<1>1. OnlyThread(t)
  BY <1>t DEF Answer, OnlyThread, Goto, Gives, GivesOnce, Facts
<1>2. ThreadType(t)' /\ HeldAt(t)'
  BY <1>t DEF Answer, Held, HeldAt, ThreadType, At, Goto, Gives, GivesOnce, Places,
         Descriptors, Blocks, Web, serviceRest, Facts
<1>3. SharedType'
  BY <1>t DEF Answer, SharedType, GivesOnce, serviceRest, ThreadType, HeldAt, At, Facts
<1>4. Account(t)
  BY <1>t, <1>2 DEF Answer, Account, Holds, Descriptors, HeldAt, At, Goto, Gives,
         GivesOnce, Web, Facts
<1>5. wasted' = wasted
  BY <1>t DEF Answer, SharedType, Blocks, Web, HeldAt, At, Facts
<1>6. phase = "run" /\ mosq # "destroyed" => misused' = misused
  BY <1>t DEF Answer, HeldAt, At, Web, GivesOnce, SharedType, Facts
<1>7. Moves(t)
  BY <1>t, <1>6 DEF Answer, Moves, Busy, At, Goto, Facts
<1>8. Resolves(t)
  BY <1>t DEF Answer, Resolves, At, Goto, SharedType, Facts
<1> QED
  BY <1>1, <1>2, <1>3, <1>4, <1>5, <1>7, <1>8 DEF Steps

LEMMA LocalRelease ==
    ASSUME Types, NEW t \in Threads, Release(t)
    PROVE  Steps(t) /\ Moves(t) /\ Resolves(t)
<1>t. Facts(t) /\ phase \in {"run", "freed"}
  BY ThreadFacts DEF Release, At, Running
<1>1. OnlyThread(t)
  BY <1>t DEF Release, OnlyThread, End, Facts
<1>2. ThreadType(t)' /\ HeldAt(t)'
  BY <1>t, Zeros DEF Release, Held, HeldAt, ThreadType, At, End, Places, Descriptors,
         Blocks, Web, serviceRest, Facts
<1>3. SharedType'
  BY <1>t, Zeros DEF Release, SharedType, End, serviceRest, ThreadType, HeldAt, At, Facts
<1>4. Account(t)
  BY <1>t, <1>2 DEF Release, Account, Holds, Descriptors, HeldAt, At, End, Web, Facts
<1>5. wasted' = wasted
  BY <1>t DEF Release, SharedType, End, Blocks, Web, HeldAt, At, Facts
<1>6. phase = "run" /\ mosq # "destroyed" => misused' = misused
  BY <1>t DEF Release, HeldAt, At, Web, SharedType, Facts
<1>7. Moves(t)
  BY <1>t, <1>6 DEF Release, Moves, Busy, At, End, Facts
<1>8. Resolves(t)
  BY <1>t DEF Release, Resolves, At, End, SharedType, Facts
<1> QED
  BY <1>1, <1>2, <1>3, <1>4, <1>5, <1>7, <1>8 DEF Steps

LEMMA LocalPublishTopic ==
    ASSUME Types, NEW t \in Threads, PublishTopic(t)
    PROVE  Steps(t) /\ Moves(t) /\ Resolves(t)
<1>t. Facts(t) /\ phase \in {"run", "freed"}
  BY ThreadFacts DEF PublishTopic, At, Running
<1>1. OnlyThread(t)
  BY <1>t DEF PublishTopic, OnlyThread, Facts
<1>i. topic[t] + 1 \in 1 .. Topics + 1
  BY BoundsAssumption, <1>t DEF PublishTopic, ThreadType, Facts
<1>2. ThreadType(t)' /\ HeldAt(t)'
  BY <1>t, <1>i DEF PublishTopic, Types, TypeOK, Held, HeldAt, ThreadType, At,
         serviceRest, Facts
<1>3. SharedType'
  BY <1>t DEF PublishTopic, SharedType, UsesMosq, serviceRest, ThreadType, HeldAt, At,
         Facts
<1>4. Account(t)
  BY <1>t, <1>2 DEF PublishTopic, Account, Holds, Descriptors, HeldAt, At, Web, Facts
<1>5. wasted' = wasted
  BY <1>t DEF PublishTopic, SharedType, Blocks, Web, HeldAt, At, Facts
<1>6. phase = "run" /\ mosq # "destroyed" => misused' = misused
  BY <1>t DEF PublishTopic, HeldAt, At, Web, UsesMosq, SharedType, Facts
<1>7. Moves(t)
  BY <1>t, <1>6 DEF PublishTopic, Moves, Busy, At, Facts
<1>8. Resolves(t)
  BY <1>t DEF PublishTopic, Resolves, At, SharedType, Facts
<1> QED
  BY <1>1, <1>2, <1>3, <1>4, <1>5, <1>7, <1>8 DEF Steps

LEMMA LocalPublished ==
    ASSUME Types, NEW t \in Threads, Published(t)
    PROVE  Steps(t) /\ Moves(t) /\ Resolves(t)
<1>t. Facts(t) /\ phase \in {"run", "freed"}
  BY ThreadFacts DEF Published, At, Running
<1>1. OnlyThread(t)
  BY <1>t DEF Published, OnlyThread, End, Facts
<1>2. ThreadType(t)' /\ HeldAt(t)'
  BY <1>t, Zeros DEF Published, Held, HeldAt, ThreadType, At, End, Places, Descriptors,
         Blocks, Web, serviceRest, Facts
<1>3. SharedType'
  BY <1>t, Zeros DEF Published, SharedType, End, serviceRest, ThreadType, HeldAt, At,
         Facts
<1>4. Account(t)
  BY <1>t, <1>2 DEF Published, Account, Holds, Descriptors, HeldAt, At, End, Web, Facts
<1>5. wasted' = wasted
  BY <1>t DEF Published, SharedType, End, Blocks, Web, HeldAt, At, Facts
<1>6. phase = "run" /\ mosq # "destroyed" => misused' = misused
  BY <1>t DEF Published, HeldAt, At, Web, SharedType, Facts
<1>7. Moves(t)
  BY <1>t, <1>6 DEF Published, Moves, Busy, At, End, Facts
<1>8. Resolves(t)
  BY <1>t DEF Published, Resolves, At, End, SharedType, Facts
<1> QED
  BY <1>1, <1>2, <1>3, <1>4, <1>5, <1>7, <1>8 DEF Steps

LEMMA LocalDbOpen ==
    ASSUME Types, NEW t \in Threads, DbOpen(t)
    PROVE  Steps(t) /\ Moves(t) /\ Resolves(t)
<1>t. Facts(t) /\ phase \in {"run", "freed"}
  BY ThreadFacts DEF DbOpen, ConnectToDatabase, At, Running
<1>1. OnlyThread(t)
  BY <1>t DEF DbOpen, ConnectToDatabase, OnlyThread, Goto, Takes, Facts
<1>2. ThreadType(t)' /\ HeldAt(t)'
  BY <1>t DEF DbOpen, ConnectToDatabase, Held, HeldAt, ThreadType, At, Goto, Takes, Places, Descriptors,
         Blocks, Web, serviceRest, Facts
<1>3. SharedType'
  BY <1>t DEF DbOpen, ConnectToDatabase, SharedType, UsesList, serviceRest, ThreadType, HeldAt, At, Facts
<1>4. Account(t)
  BY <1>t, <1>2 DEF DbOpen, ConnectToDatabase, Account, Holds, Descriptors, HeldAt, At, Goto, Takes, Web,
         Facts
<1>5. wasted' = wasted
  BY <1>t DEF DbOpen, ConnectToDatabase, SharedType, Blocks, Web, HeldAt, At, Facts
<1>6. phase = "run" /\ mosq # "destroyed" => misused' = misused
  BY <1>t DEF DbOpen, ConnectToDatabase, HeldAt, At, Web, UsesList, SharedType, Facts
<1>7. Moves(t)
  BY <1>t, <1>6 DEF DbOpen, ConnectToDatabase, Moves, Busy, At, Goto, Facts
<1>8. Resolves(t)
  BY <1>t DEF DbOpen, ConnectToDatabase, Resolves, At, Goto, SharedType, Facts
<1> QED
  BY <1>1, <1>2, <1>3, <1>4, <1>5, <1>7, <1>8 DEF Steps

LEMMA LocalDbQuery ==
    ASSUME Types, NEW t \in Threads, DbQuery(t)
    PROVE  Steps(t) /\ Moves(t) /\ Resolves(t)
<1>t. Facts(t) /\ phase \in {"run", "freed"}
  BY ThreadFacts DEF DbQuery, At, Running
<1>1. OnlyThread(t)
  BY <1>t DEF DbQuery, OnlyThread, Goto, Facts
<1>2. ThreadType(t)' /\ HeldAt(t)'
  BY <1>t DEF DbQuery, Held, HeldAt, ThreadType, At, Goto, Places, Descriptors, Blocks,
         Web, serviceRest, Facts
<1>3. SharedType'
  BY <1>t DEF DbQuery, SharedType, serviceRest, sharedVars, ThreadType, HeldAt, At, Facts
<1>4. Account(t)
  BY <1>t, <1>2 DEF DbQuery, Account, Holds, Descriptors, HeldAt, At, Goto, Web,
         sharedVars, Facts
<1>5. wasted' = wasted
  BY <1>t DEF DbQuery, SharedType, Blocks, Web, HeldAt, At, sharedVars, Facts
<1>6. phase = "run" /\ mosq # "destroyed" => misused' = misused
  BY <1>t DEF DbQuery, HeldAt, At, Web, SharedType, sharedVars, Facts
<1>7. Moves(t)
  BY <1>t, <1>6 DEF DbQuery, Moves, Busy, At, Goto, Facts
<1>8. Resolves(t)
  BY <1>t DEF DbQuery, Resolves, At, Goto, SharedType, sharedVars, Facts
<1> QED
  BY <1>1, <1>2, <1>3, <1>4, <1>5, <1>7, <1>8 DEF Steps

LEMMA LocalDbClose ==
    ASSUME Types, NEW t \in Threads, DbClose(t)
    PROVE  Steps(t) /\ Moves(t) /\ Resolves(t)
<1>t. Facts(t) /\ phase \in {"run", "freed"}
  BY ThreadFacts DEF DbClose, At, Running
<1>1. OnlyThread(t)
  BY <1>t DEF DbClose, OnlyThread, End, Facts
<1>2. ThreadType(t)' /\ HeldAt(t)'
  BY <1>t, Zeros DEF DbClose, Held, HeldAt, ThreadType, At, End, Places, Descriptors,
         Blocks, Web, serviceRest, Facts
<1>3. SharedType'
  BY <1>t, Zeros DEF DbClose, SharedType, End, serviceRest, ThreadType, HeldAt, At, Facts
<1>4. Account(t)
  BY <1>t, <1>2 DEF DbClose, Account, Holds, Descriptors, HeldAt, At, End, Web, Facts
<1>5. wasted' = wasted
  BY <1>t DEF DbClose, SharedType, End, Blocks, Web, HeldAt, At, Facts
<1>6. phase = "run" /\ mosq # "destroyed" => misused' = misused
  BY <1>t DEF DbClose, HeldAt, At, Web, SharedType, Facts
<1>7. Moves(t)
  BY <1>t, <1>6 DEF DbClose, Moves, Busy, At, End, Facts
<1>8. Resolves(t)
  BY <1>t DEF DbClose, Resolves, At, End, SharedType, Facts
<1> QED
  BY <1>1, <1>2, <1>3, <1>4, <1>5, <1>7, <1>8 DEF Steps

LEMMA LocalLogOpen ==
    ASSUME Types, NEW t \in Threads, LogOpen(t)
    PROVE  Steps(t) /\ Moves(t) /\ Resolves(t)
<1>t. Facts(t) /\ phase \in {"run", "freed"}
  BY ThreadFacts DEF LogOpen, At, Running
<1>1. OnlyThread(t)
  BY <1>t DEF LogOpen, OnlyThread, Goto, Takes, Facts
<1>2. ThreadType(t)' /\ HeldAt(t)'
  BY <1>t DEF LogOpen, Held, HeldAt, ThreadType, At, Goto, Takes, Places, Descriptors,
         Blocks, Web, serviceRest, Facts
<1>3. SharedType'
  BY <1>t DEF LogOpen, SharedType, UsesList, serviceRest, ThreadType, HeldAt, At, Facts
<1>4. Account(t)
  BY <1>t, <1>2 DEF LogOpen, Account, Holds, Descriptors, HeldAt, At, Goto, Takes, Web,
         Facts
<1>5. wasted' = wasted
  BY <1>t DEF LogOpen, SharedType, Blocks, Web, HeldAt, At, Facts
<1>6. phase = "run" /\ mosq # "destroyed" => misused' = misused
  BY <1>t DEF LogOpen, HeldAt, At, Web, UsesList, SharedType, Facts
<1>7. Moves(t)
  BY <1>t, <1>6 DEF LogOpen, Moves, Busy, At, Goto, Facts
<1>8. Resolves(t)
  BY <1>t DEF LogOpen, Resolves, At, Goto, SharedType, Facts
<1> QED
  BY <1>1, <1>2, <1>3, <1>4, <1>5, <1>7, <1>8 DEF Steps

LEMMA LocalLogWrite ==
    ASSUME Types, NEW t \in Threads, LogWrite(t)
    PROVE  Steps(t) /\ Moves(t) /\ Resolves(t)
<1>t. Facts(t) /\ phase \in {"run", "freed"}
  BY ThreadFacts DEF LogWrite, At, Running
<1>1. OnlyThread(t)
  BY <1>t DEF LogWrite, OnlyThread, End, Facts
<1>2. ThreadType(t)' /\ HeldAt(t)'
  BY <1>t, Zeros DEF LogWrite, Held, HeldAt, ThreadType, At, End, Places, Descriptors,
         Blocks, Web, serviceRest, Facts
<1>3. SharedType'
  BY <1>t, Zeros DEF LogWrite, SharedType, End, serviceRest, ThreadType, HeldAt, At, Facts
<1>4. Account(t)
  BY <1>t, <1>2 DEF LogWrite, Account, Holds, Descriptors, HeldAt, At, End, Web, Facts
<1>5. wasted' = wasted
  BY <1>t DEF LogWrite, SharedType, End, Blocks, Web, HeldAt, At, Facts
<1>6. phase = "run" /\ mosq # "destroyed" => misused' = misused
  BY <1>t DEF LogWrite, HeldAt, At, Web, SharedType, Facts
<1>7. Moves(t)
  BY <1>t, <1>6 DEF LogWrite, Moves, Busy, At, End, Facts
<1>8. Resolves(t)
  BY <1>t DEF LogWrite, Resolves, At, End, SharedType, Facts
<1> QED
  BY <1>1, <1>2, <1>3, <1>4, <1>5, <1>7, <1>8 DEF Steps

LEMMA LocalDisplay ==
    ASSUME Types, NEW t \in Threads, Display(t)
    PROVE  Steps(t) /\ Moves(t) /\ Resolves(t)
<1>t. Facts(t) /\ phase \in {"run", "freed"}
  BY ThreadFacts DEF Display, At, Running
<1>1. OnlyThread(t)
  BY <1>t DEF Display, OnlyThread, End, Facts
<1>2. ThreadType(t)' /\ HeldAt(t)'
  BY <1>t, Zeros DEF Display, Held, HeldAt, ThreadType, At, End, Places, Descriptors,
         Blocks, Web, serviceRest, Facts
<1>3. SharedType'
  BY <1>t, Zeros DEF Display, SharedType, End, UsesList, serviceRest, ThreadType, HeldAt,
         At, Facts
<1>4. Account(t)
  BY <1>t, <1>2 DEF Display, Account, Holds, Descriptors, HeldAt, At, End, Web, Facts
<1>5. wasted' = wasted
  BY <1>t DEF Display, SharedType, End, Blocks, Web, HeldAt, At, Facts
<1>6. phase = "run" /\ mosq # "destroyed" => misused' = misused
  BY <1>t DEF Display, HeldAt, At, Web, UsesList, SharedType, Facts
<1>7. Moves(t)
  BY <1>t, <1>6 DEF Display, Moves, Busy, At, End, Facts
<1>8. Resolves(t)
  BY <1>t DEF Display, Resolves, At, End, SharedType, Facts
<1> QED
  BY <1>1, <1>2, <1>3, <1>4, <1>5, <1>7, <1>8 DEF Steps

LEMMA LocalStep ==
    ASSUME Types, NEW t \in Threads, ThreadNext(t), ~Crash(t), ~CrashAgain(t)
    PROVE  Steps(t) /\ Moves(t) /\ Resolves(t)
BY LocalBegin, LocalSocket, LocalLookup, LocalLookupFails, LocalCopyAddress, LocalCopyFails,
   LocalLookupAgain, LocalStillLocal, LocalConnectFails, LocalRequest, LocalAnswer, LocalRelease,
   LocalPublishTopic, LocalPublished, LocalDbOpen, LocalDbQuery, LocalDbClose, LocalLogOpen,
   LocalLogWrite, LocalDisplay, Zenon DEF ThreadNext

LEMMA LocalSendTo ==
    ASSUME Types, NEW t \in Threads, SendTo(t)
    PROVE  /\ Steps(t)
           /\ place'[t] = "begin" /\ entry'[t] = walk /\ walk \in 1 .. Len(sinfo)
           /\ walk' = walk - 1 /\ phase \in {"run", "freed"} /\ ~Busy(t)
<1>t. /\ Facts(t) /\ walk \in 1 .. Len(sinfo) /\ record \in 0 .. MaxRecords
      /\ phase \in {"run", "freed"} /\ place[t] = "idle"
  BY ThreadFacts DEF Types, TypeOK, SendTo, Walks, Running, Busy
<1>1. OnlyThread(t)
  BY <1>t DEF Facts, SendTo, OnlyThread
<1>2. ThreadType(t)' /\ HeldAt(t)'
  BY <1>t, Zeros DEF Facts, SendTo, HeldAt, ThreadType, Places, NextEntry
<1>3. SharedType'
  BY <1>t DEF Facts, SendTo, SharedType, NextEntry, UsesList
<1>4. Account(t) /\ wasted' = wasted
  BY <1>t DEF Facts, SendTo, Account, Holds
<1> QED
  BY <1>t, <1>1, <1>2, <1>3, <1>4 DEF Facts, Steps, SendTo, NextEntry, Busy

LEMMA Combine ==
    ASSUME Types, NEW t \in Threads, Steps(t), phase \in {"run", "freed"},
           UNCHANGED <<config, sinfo, phase, record, mosq, connected, lost, late>>,
           walk' \in 0 .. Len(sinfo), open' \in 0 .. MaxOpen,
           Busy(t)' => entry'[t] \in 1 .. Len(sinfo)
    PROVE  Types'
<1>t. /\ place \in [Threads -> Places] /\ entry \in [Threads -> 0 .. Len(sinfo)]
      /\ rec \in [Threads -> 0 .. MaxRecords]
      /\ held \in [Threads -> SUBSET (Descriptors \cup Blocks)]
      /\ addr \in [Threads -> Hosts \cup {Local}] /\ topic \in [Threads -> 1 .. Topics + 1]
  BY DEF Types, TypeOK
<1>o. OnlyThread(t) /\ ThreadType(t)' /\ HeldAt(t)' /\ SharedType'
  BY DEF Steps
<1>1. /\ place' \in [Threads -> Places] /\ entry' \in [Threads -> 0 .. Len(sinfo)]
      /\ rec' \in [Threads -> 0 .. MaxRecords]
      /\ held' \in [Threads -> SUBSET (Descriptors \cup Blocks)]
      /\ addr' \in [Threads -> Hosts \cup {Local}] /\ topic' \in [Threads -> 1 .. Topics + 1]
  BY <1>t, <1>o DEF OnlyThread, ThreadType
<1>2. TypeOK'
  BY <1>1, <1>o DEF Types, TypeOK, SharedType
<1>3. ASSUME NEW u \in Threads, u # t
      PROVE  /\ place'[u] = place[u] /\ entry'[u] = entry[u] /\ held'[u] = held[u]
             /\ addr'[u] = addr[u]
  BY <1>3, <1>t, <1>o DEF OnlyThread
<1>4. Held'
  <2> SUFFICES ASSUME NEW u \in Threads PROVE HeldAt(u)'
    BY DEF Held
  <2>1. CASE u = t
    BY <2>1, <1>o
  <2>2. CASE u # t
    BY <2>2, <1>3 DEF HeldAt, Types, Held
  <2> QED
    BY <2>1, <2>2
<1>5. Started'
  <2>1. ASSUME NEW u \in Threads, Busy(u)' PROVE entry'[u] \in 1 .. Len(sinfo)
    BY <2>1, <1>3 DEF Types, Started, Busy
  <2> QED
    BY <2>1 DEF Started, Types, Early
<1> QED
  BY <1>2, <1>4, <1>5 DEF Types
-----------------------------------------------------------------------------
(***************************************************************************)
(* The descriptors.                                                        *)
(***************************************************************************)

Holders == {t \in Threads : held[t] \cap Descriptors # {}}

LEMMA HoldersFinite ==
    /\ IsFiniteSet(Holders) /\ Cardinality(Holders) \in Nat
    /\ IsFiniteSet(Holders') /\ Cardinality(Holders') \in Nat
<1>1. Holders \subseteq Threads /\ Holders' \subseteq Threads
  BY DEF Holders
<1>2. IsFiniteSet(Holders) /\ IsFiniteSet(Holders')
  BY <1>1, FS_Subset, ThreadsAssumption
<1> QED
  BY <1>2, FS_CardinalityType

LEMMA Counted ==
    ASSUME Types, DescriptorsExact, NEW t \in Threads, Steps(t)
    PROVE  DescriptorsExact' /\ open' \in 0 .. MaxOpen
<1>n. /\ open \in 0 .. MaxOpen /\ refused \in Nat /\ MaxOpen \in Nat
      /\ open = refused + Cardinality(Holders)
  BY BoundsAssumption DEF Types, TypeOK, DescriptorsExact, Holders
<1>f. /\ IsFiniteSet(Holders) /\ Cardinality(Holders) \in Nat
      /\ IsFiniteSet(Holders') /\ Cardinality(Holders') \in Nat
  BY HoldersFinite
<1>u. ASSUME NEW u \in Threads, u # t PROVE u \in Holders' <=> u \in Holders
  <2>1. held'[u] = held[u]
    BY <1>u DEF Steps, OnlyThread, Types, TypeOK
  <2> QED
    BY <2>1 DEF Holders
<1>t. (t \in Holders <=> Holds(t)) /\ (t \in Holders' <=> Holds(t)')
  BY DEF Holders, Holds
<1>s. Holders \subseteq Threads /\ Holders' \subseteq Threads
  BY DEF Holders
<1>a. Account(t)
  BY DEF Steps
<1> SUFFICES open' = refused' + Cardinality(Holders') /\ open' \in 0 .. MaxOpen
  BY DEF DescriptorsExact, Holders
<1>1. CASE (Holds(t)' <=> Holds(t)) /\ open' = open /\ refused' = refused
  <2>1. Holders' = Holders
    BY <1>1, <1>u, <1>t, <1>s
  <2> QED
    BY <1>1, <2>1, <1>n
<1>2. CASE ~Holds(t) /\ Holds(t)' /\ open < MaxOpen /\ open' = open + 1 /\ refused' = refused
  <2>1. Holders' = Holders \cup {t} /\ t \notin Holders
    BY <1>2, <1>u, <1>t, <1>s
  <2>2. Cardinality(Holders') = Cardinality(Holders) + 1
    BY <2>1, <1>f, FS_AddElement
  <2> QED
    BY <1>2, <2>2, <1>n, <1>f
<1>4. ASSUME Holds(t), ~Holds(t)' PROVE Cardinality(Holders') = Cardinality(Holders) - 1
  <2>1. Holders' = Holders \ {t} /\ t \in Holders
    BY <1>4, <1>u, <1>t, <1>s
  <2> QED
    BY <2>1, <1>f, FS_RemoveElement
<1>5. CASE Holds(t) /\ ~Holds(t)' /\ open' = open - 1 /\ refused' = refused
  BY <1>5, <1>4, <1>n, <1>f
<1>6. CASE Holds(t) /\ ~Holds(t)' /\ open' = open /\ refused' = refused + 1
  BY <1>6, <1>4, <1>n, <1>f
<1> QED
  BY <1>a, <1>1, <1>2, <1>5, <1>6 DEF Account

-----------------------------------------------------------------------------
(***************************************************************************)
(* The list and main.                                                      *)
(***************************************************************************)

\* Nothing has gone wrong before main's loop ends, and when it ended with nobody
\* at work nobody starts.
Safe ==
    /\ phase \in {"config", "init", "run"} => ~misused /\ ~late /\ mosq # "destroyed"
    /\ phase \in {"freed", "ended"} /\ ~late => walk = 0 /\ \A t \in Threads : ~Busy(t)
    /\ NoMisuse

\* Between gethostbyname and its use, the result is that of the thread's own host.
Own ==
    ~mixed =>
        /\ \A t \in Threads :
               /\ place[t] = "copy" => hostent \in {HostOf(t), Local}
               /\ place[t] \in {"connect", "recv"} => addr[t] = HostOf(t)
        /\ \A m \in sent : m[1] = m[2]

IInv == Types /\ DescriptorsExact /\ Released /\ Safe /\ Own

LEMMA ReadTypes ==
    ASSUME Types, ReadService, UNCHANGED <<threadVars, sharedVars>>
    PROVE  Types'
<1>1. /\ sinfo \in Seq(SinfoType) /\ config \in Seq(Entry) /\ config # <<>>
      /\ phase = "config" /\ walk = 0
  BY DEF Types, TypeOK, ReadService, Started, SinfoType, Func
<1>2. Head(config) \in Entry /\ Tail(config) \in Seq(Entry)
  BY <1>1
<1> DEFINE new == [host |-> Head(config).host, enabled |-> Head(config).enabled,
                   funcs |-> ServiceSetup(Head(config).service)]
<1>3. new \in SinfoType
  BY <1>2 DEF Entry, ServiceSetup, SinfoType, Func
<1>4. sinfo' = Append(sinfo, new) /\ config' = Tail(config)
  BY DEF ReadService
<1> HIDE DEF new
<1>5. sinfo' \in Seq(SinfoType) /\ Len(sinfo') = Len(sinfo) + 1 /\ Len(sinfo) \in Nat
  BY <1>1, <1>3, <1>4
<1>6. entry' \in [Threads -> 0 .. Len(sinfo')]
  <2>1. 0 .. Len(sinfo) \subseteq 0 .. Len(sinfo')
    BY <1>5
  <2>2. entry \in [Threads -> 0 .. Len(sinfo)] /\ entry' = entry
    BY DEF Types, TypeOK, threadVars
  <2> QED
    BY <2>1, <2>2
<1>7. walk' = 0 /\ phase' = "config" /\ UNCHANGED <<record, mosq, connected, lost, misused, late>>
  BY <1>1 DEF ReadService
<1>8. 0 \in 0 .. Len(sinfo')
  BY <1>5
<1>9. TypeOK'
  BY <1>2, <1>4, <1>5, <1>6, <1>7, <1>8 DEF Types, TypeOK, threadVars, sharedVars, SinfoType, Func
<1>10. Held' /\ Started'
  BY <1>1, <1>7 DEF Types, Held, HeldAt, Started, Early, Busy, threadVars
<1> QED
  BY <1>9, <1>10 DEF Types

LEMMA ServicesTypes ==
    ASSUME Types, ServicesNext, UNCHANGED <<threadVars, sharedVars>>
    PROVE  Types'
<1>l. Len(sinfo) \in Nat /\ MaxRecords \in Nat
  BY RecordsAssumption DEF Types, TypeOK
<1>h. ASSUME UNCHANGED <<sinfo, config>> PROVE Held'
  BY <1>h DEF Types, Held, HeldAt, threadVars
<1>1. CASE ReadService
  BY <1>1, ReadTypes
<1>2. CASE ConfigRead
  BY <1>2, <1>l, <1>h DEF ConfigRead, Types, TypeOK, Started, Early, Busy, threadVars, sharedVars
<1>3. CASE InitPublisher
  <2>0. mosq \in {"null", "live", "destroyed"} /\ connected \in BOOLEAN /\ lost \in Nat
    BY DEF Types, TypeOK
  <2>1. mosq' \in {"null", "live", "destroyed"} /\ connected' \in BOOLEAN /\ lost' \in Nat
    <3>1. CASE MqttInit
      <4>1. (mosq' = "null" \/ mosq' = "live") /\ connected' \in BOOLEAN
        BY <3>1, Zenon DEF MqttInit
      <4>2. lost' \in Nat
        BY <3>1, <2>0 DEF MqttInit
      <4> QED
        BY <4>1, <4>2
    <3>2. CASE UNCHANGED <<mosq, connected, lost>>
      BY <3>2, <2>0
    <3> QED
      BY <1>3, <3>1, <3>2, Zenon DEF InitPublisher
  <2>2. TypeOK'
    BY <1>3, <2>1, <1>l DEF InitPublisher, Types, TypeOK, threadVars, sharedVars
  <2> QED
    BY <1>3, <2>2, <1>h DEF InitPublisher, Types, Started, Early, Busy, threadVars
<1>4. CASE StartPublishing
  <2>1. config = <<>>
    BY <1>4 DEF StartPublishing, Types, Started
  <2> QED
    BY <1>4, <1>h DEF StartPublishing, Types, TypeOK, Started, Early, Busy, threadVars, sharedVars
<1>5. CASE Wake
  <2>1. record' \in 0 .. MaxRecords
    BY <1>5, <1>l DEF Wake, Types, TypeOK
  <2> QED
    BY <1>5, <2>1, <1>l, <1>h DEF Wake, Types, TypeOK, Started, Early, Busy, threadVars, sharedVars
<1>6. CASE BrokerDrops
  BY <1>6, <1>h DEF BrokerDrops, Types, TypeOK, Started, Early, Busy, threadVars, sharedVars
<1>7. CASE Shutdown(\E t \in Threads : Busy(t))
  <2>1. misused' \in BOOLEAN /\ late' \in BOOLEAN /\ connected' = FALSE
    BY <1>7 DEF Shutdown, Types, TypeOK
  <2>2. mosq' \in {"null", "live", "destroyed"}
    BY <1>7 DEF Shutdown, Types, TypeOK
  <2>3. UNCHANGED <<config, sinfo, walk, record, lost>> /\ phase = "run" /\ phase' = "freed"
    BY <1>7 DEF Shutdown
  <2>4. TypeOK'
    BY <2>1, <2>2, <2>3 DEF Types, TypeOK, threadVars, sharedVars
  <2> QED
    BY <2>3, <2>4, <1>h DEF Types, Started, Early, Busy, threadVars
<1>8. CASE Exit
  BY <1>8, <1>h DEF Exit, Types, TypeOK, Started, Early, Busy, threadVars, sharedVars
<1> QED
  BY <1>1, <1>2, <1>3, <1>4, <1>5, <1>6, <1>7, <1>8 DEF ServicesNext

LEMMA ServicesSafe ==
    ASSUME IInv, ServicesNext, UNCHANGED <<threadVars, sharedVars>>
    PROVE  Safe' /\ Own'
<1>b. \A t \in Threads : place'[t] = place[t] /\ addr'[t] = addr[t] /\ entry'[t] = entry[t]
  BY DEF threadVars
<1>o. ASSUME sinfo' = sinfo \/ \A t \in Threads : ~Busy(t) PROVE Own'
  <2>1. hostent' = hostent /\ mixed' = mixed /\ sent' = sent
    BY DEF sharedVars
  <2>2. ASSUME NEW t \in Threads, Busy(t) PROVE HostOf(t)' = HostOf(t)
    BY <1>o, <1>b, <2>2 DEF HostOf
  <2>3. ASSUME NEW t \in Threads, place[t] \in {"copy", "connect", "recv"} PROVE Busy(t)
    BY <2>3 DEF Busy
  <2>4. Own
    BY DEF IInv
  <2> QED
    BY <1>b, <2>1, <2>2, <2>3, <2>4 DEF Own
<1>1. CASE ReadService
  <2>1. \A t \in Threads : ~Busy(t)
    BY <1>1 DEF IInv, Types, Started, ReadService, Early
  <2> QED
    BY <1>1, <2>1, <1>o DEF IInv, Safe, ReadService, NoMisuse
<1>2. CASE ConfigRead
  BY <1>2, <1>o DEF IInv, Safe, ConfigRead, NoMisuse
<1>3. CASE InitPublisher
  <2>1. mosq' # "destroyed"
    BY <1>3 DEF InitPublisher, MqttInit, IInv, Safe
  <2> QED
    BY <1>3, <2>1, <1>o DEF IInv, Safe, InitPublisher, NoMisuse
<1>4. CASE StartPublishing
  BY <1>4, <1>o DEF IInv, Safe, StartPublishing, NoMisuse
<1>5. CASE Wake
  BY <1>5, <1>o DEF IInv, Safe, Wake, NoMisuse
<1>6. CASE BrokerDrops
  BY <1>6, <1>o DEF IInv, Safe, BrokerDrops, NoMisuse
<1>7. CASE Shutdown(\E t \in Threads : Busy(t))
  <2>1. sinfo' = sinfo /\ walk' = walk /\ phase = "run" /\ phase' = "freed" /\ walk \in Nat
    BY <1>7 DEF Shutdown, IInv, Types, TypeOK
  <2>2. MqttEntries' = MqttEntries
    BY <2>1 DEF MqttEntries
  <2>3. late' <=> (walk > 0 \/ \E t \in Threads : Busy(t))
    BY <1>7 DEF Shutdown
  <2>4. ~misused
    BY <2>1 DEF IInv, Safe
  <2>5. misused' => \E i, j \in MqttEntries : i # j
    BY <1>7, <2>4 DEF Shutdown
  <2>6. NoMisuse'
    BY <2>2, <2>5 DEF NoMisuse
  <2>7. ~late' => walk' = 0 /\ \A t \in Threads : ~Busy(t)'
    BY <2>1, <2>3, <1>b DEF Busy
  <2> QED
    BY <2>1, <2>6, <2>7, <1>o DEF Safe
<1>8. CASE Exit
  <2>1. MqttEntries' = MqttEntries
    BY <1>8 DEF Exit, MqttEntries
  <2>2. Safe'
    BY <1>8, <1>b, <2>1 DEF IInv, Safe, Exit, NoMisuse, Busy
  <2> QED
    BY <1>8, <2>2, <1>o DEF Exit
<1> QED
  BY <1>1, <1>2, <1>3, <1>4, <1>5, <1>6, <1>7, <1>8 DEF ServicesNext

-----------------------------------------------------------------------------
(***************************************************************************)
(* The steps together.                                                     *)
(***************************************************************************)

LEMMA ThreadOwn ==
    ASSUME IInv, NEW t \in Threads, Steps(t), Resolves(t), sinfo' = sinfo,
           Busy(t)' => entry'[t] = entry[t]
    PROVE  Own'
<1>1. SUFFICES ASSUME ~mixed'
      PROVE  /\ \A u \in Threads :
                    /\ place'[u] = "copy" => hostent' \in {HostOf(u)', Local}
                    /\ place'[u] \in {"connect", "recv"} => addr'[u] = HostOf(u)'
             /\ \A m \in sent' : m[1] = m[2]
  BY DEF Own
<1>2. ~mixed
  BY <1>1 DEF Resolves
<1>3. /\ \A u \in Threads :
             /\ place[u] = "copy" => hostent \in {HostOf(u), Local}
             /\ place[u] \in {"connect", "recv"} => addr[u] = HostOf(u)
      /\ \A m \in sent : m[1] = m[2]
  BY <1>2 DEF IInv, Own
<1>4. ASSUME NEW u \in Threads, u # t
      PROVE  place'[u] = place[u] /\ addr'[u] = addr[u] /\ HostOf(u)' = HostOf(u)
  BY <1>4 DEF Steps, OnlyThread, IInv, Types, TypeOK, HostOf
<1>5. place'[t] \in {"copy", "connect", "recv"} => HostOf(t)' = HostOf(t)
  BY DEF Busy, HostOf
<1>6. ASSUME NEW u \in Threads, place'[u] = "copy" PROVE hostent' \in {HostOf(u)', Local}
  <2>1. CASE u = t
    BY <2>1, <1>5, <1>6 DEF Resolves
  <2>2. CASE u # t
    BY <2>2, <1>1, <1>3, <1>4, <1>6 DEF Resolves
  <2> QED
    BY <2>1, <2>2
<1>7. ASSUME NEW u \in Threads, place'[u] \in {"connect", "recv"} PROVE addr'[u] = HostOf(u)'
  <2>1. CASE u = t
    BY <2>1, <1>3, <1>5, <1>7 DEF Resolves
  <2>2. CASE u # t
    BY <2>2, <1>3, <1>4, <1>7
  <2> QED
    BY <2>1, <2>2
<1>8. \A m \in sent' : m[1] = m[2]
  <2> SUFFICES ASSUME NEW m \in sent' PROVE m[1] = m[2]
    OBVIOUS
  <2>1. CASE m \in sent
    BY <2>1, <1>3
  <2>2. CASE place[t] = "connect" /\ m = <<HostOf(t), addr[t]>>
    BY <2>2, <1>3
  <2> QED
    BY <2>1, <2>2 DEF Resolves
<1> QED
  BY <1>6, <1>7, <1>8

LEMMA StepThread ==
    ASSUME IInv, NEW t \in Threads, ThreadNext(t), ~Crash(t), ~CrashAgain(t)
    PROVE  IInv'
<1>1. Types /\ DescriptorsExact /\ Released /\ Safe /\ Own
  BY DEF IInv
<1>2. Steps(t) /\ Moves(t) /\ Resolves(t)
  BY <1>1, LocalStep
<1>3. DescriptorsExact' /\ open' \in 0 .. MaxOpen
  BY <1>1, <1>2, Counted
<1>4. /\ UNCHANGED <<config, sinfo, phase, walk, record, mosq, connected, lost, late>>
      /\ phase \in {"run", "freed"} /\ Busy(t)
      /\ Busy(t)' => entry'[t] = entry[t]
      /\ phase = "run" /\ mosq # "destroyed" => misused' = misused
  BY <1>2 DEF Moves, serviceRest
<1>5. Types'
  <2>1. walk' \in 0 .. Len(sinfo) /\ (Busy(t)' => entry'[t] \in 1 .. Len(sinfo))
    BY <1>1, <1>4 DEF Types, TypeOK, Started
  <2> QED
    BY <1>1, <1>2, <1>3, <1>4, <2>1, Combine
<1>6. Released'
  BY <1>1, <1>2 DEF Released, Steps
<1>7. Safe'
  <2>1. MqttEntries' = MqttEntries
    BY <1>4 DEF MqttEntries
  <2>2. CASE phase = "run"
    <3>1. ~misused' /\ ~late' /\ mosq' # "destroyed" /\ phase' = "run"
      BY <2>2, <1>1, <1>4 DEF Safe
    <3> QED
      BY <3>1 DEF Safe, NoMisuse
  <2>3. CASE phase = "freed"
    <3>1. late /\ late' /\ phase' = "freed"
      BY <2>3, <1>1, <1>4 DEF Safe
    <3> QED
      BY <3>1 DEF Safe, NoMisuse
  <2> QED
    BY <1>4, <2>2, <2>3
<1>8. Own'
  BY <1>2, <1>4, ThreadOwn
<1> QED
  BY <1>3, <1>5, <1>6, <1>7, <1>8 DEF IInv

LEMMA StepCrash ==
    ASSUME IInv, NEW t \in Threads, Crash(t) \/ CrashAgain(t)
    PROVE  IInv'
<1>1. /\ phase \in {"run", "freed"} /\ phase' = "crashed"
      /\ UNCHANGED <<config, sinfo, walk, record, mosq, connected, lost, misused, late>>
      /\ UNCHANGED <<threadVars, sharedVars>>
  BY DEF Crash, CrashAgain, At, Running
<1>2. TypeOK'
  BY <1>1 DEF IInv, Types, TypeOK, threadVars, sharedVars
<1>3. Held' /\ Started'
  BY <1>1 DEF IInv, Types, Held, HeldAt, Started, Early, Busy, threadVars
<1>4. DescriptorsExact' /\ Released'
  BY <1>1 DEF IInv, DescriptorsExact, Released, threadVars, sharedVars
<1>5. Safe'
  <2>1. MqttEntries' = MqttEntries
    BY <1>1 DEF MqttEntries
  <2>2. NoMisuse'
    BY <1>1, <2>1 DEF IInv, Safe, NoMisuse
  <2> QED
    BY <1>1, <2>2 DEF Safe
<1>6. Own'
  BY <1>1 DEF IInv, Own, HostOf, threadVars, sharedVars
<1> QED
  BY <1>2, <1>3, <1>4, <1>5, <1>6 DEF IInv, Types

LEMMA StepWalk ==
    ASSUME IInv, Walks, NextEntry, sinfo' = sinfo
    PROVE  Safe'
<1>1. MqttEntries' = MqttEntries
  BY DEF MqttEntries
<1>2. CASE phase = "run"
  <2>1. ~misused' /\ ~late' /\ mosq' # "destroyed" /\ phase' = "run"
    BY <1>2 DEF NextEntry, UsesList, IInv, Safe
  <2> QED
    BY <2>1 DEF Safe, NoMisuse
<1>3. CASE phase = "freed"
  <2>1. walk > 0 /\ walk \in Nat
    BY DEF Walks, IInv, Types, TypeOK
  <2>2. late /\ late' /\ phase' = "freed"
    BY <1>3, <2>1 DEF IInv, Safe, NextEntry
  <2> QED
    BY <2>2 DEF Safe, NoMisuse
<1> QED
  BY <1>2, <1>3 DEF Walks, Running

LEMMA StepSkip ==
    ASSUME IInv, SkipEntry
    PROVE  IInv'
<1>1. /\ phase \in {"run", "freed"} /\ walk \in 1 .. Len(sinfo) /\ walk' = walk - 1
      /\ UNCHANGED <<config, sinfo, phase, record, mosq, connected, lost, late>>
      /\ UNCHANGED <<threadVars, sharedVars>>
  BY DEF SkipEntry, Walks, NextEntry, Running, IInv, Types, TypeOK
<1>2. misused' \in BOOLEAN
  BY DEF SkipEntry, NextEntry, UsesList, IInv, Types, TypeOK
<1>w. walk' \in 0 .. Len(sinfo)
  BY <1>1
<1>3. TypeOK'
  BY <1>1, <1>2, <1>w DEF IInv, Types, TypeOK, threadVars, sharedVars
<1>4. Held' /\ Started'
  BY <1>1 DEF IInv, Types, Held, HeldAt, Started, Early, Busy, threadVars
<1>5. DescriptorsExact' /\ Released'
  BY <1>1 DEF IInv, DescriptorsExact, Released, threadVars, sharedVars
<1>6. Safe'
  BY <1>1, StepWalk DEF SkipEntry
<1>7. Own'
  BY <1>1 DEF IInv, Own, HostOf, threadVars, sharedVars
<1> QED
  BY <1>3, <1>4, <1>5, <1>6, <1>7 DEF IInv, Types

LEMMA StepSendTo ==
    ASSUME IInv, NEW t \in Threads, SendTo(t)
    PROVE  IInv'
<1>1. Types /\ DescriptorsExact /\ Released /\ Safe /\ Own
  BY DEF IInv
<1>2. /\ Steps(t)
      /\ place'[t] = "begin" /\ entry'[t] = walk /\ walk \in 1 .. Len(sinfo)
      /\ walk' = walk - 1 /\ phase \in {"run", "freed"} /\ ~Busy(t)
  BY <1>1, LocalSendTo
<1>3. DescriptorsExact' /\ open' \in 0 .. MaxOpen
  BY <1>1, <1>2, Counted
<1>4. UNCHANGED <<config, sinfo, phase, record, mosq, connected, lost, late>>
  BY DEF SendTo, NextEntry
<1>5. Types'
  <2>1. walk' \in 0 .. Len(sinfo)
    BY <1>2 DEF Types, TypeOK
  <2> QED
    BY <1>1, <1>2, <1>3, <1>4, <2>1, Combine
<1>6. Released'
  BY <1>1, <1>2 DEF Released, Steps
<1>7. Safe'
  BY <1>4, StepWalk DEF SendTo
<1>8. Own'
  <2>1. mixed' = mixed /\ hostent' = hostent /\ sent' = sent /\ sinfo' = sinfo
    BY <1>4 DEF SendTo
  <2>2. ASSUME NEW u \in Threads, u # t
        PROVE  place'[u] = place[u] /\ addr'[u] = addr[u] /\ HostOf(u)' = HostOf(u)
    BY <2>1, <2>2, <1>2 DEF Steps, OnlyThread, IInv, Types, TypeOK, HostOf
  <2>3. SUFFICES ASSUME ~mixed', NEW u \in Threads
        PROVE  /\ place'[u] = "copy" => hostent' \in {HostOf(u)', Local}
               /\ place'[u] \in {"connect", "recv"} => addr'[u] = HostOf(u)'
    BY <1>1, <2>1 DEF Own
  <2>4. CASE u = t
    BY <2>4, <1>2
  <2>5. CASE u # t
    BY <2>1, <2>2, <2>3, <2>5, <1>1 DEF Own
  <2> QED
    BY <2>4, <2>5
<1> QED
  BY <1>3, <1>5, <1>6, <1>7, <1>8 DEF IInv

LEMMA StepServices ==
    ASSUME IInv, ServicesNext, UNCHANGED <<threadVars, sharedVars>>
    PROVE  IInv'
<1>1. Types'
  BY ServicesTypes DEF IInv
<1>2. DescriptorsExact' /\ Released'
  BY DEF IInv, DescriptorsExact, Released, threadVars, sharedVars
<1> QED
  BY <1>1, <1>2, ServicesSafe DEF IInv

LEMMA Stutter ==
    ASSUME IInv, UNCHANGED vars
    PROVE  IInv'
<1>1. UNCHANGED <<config, sinfo, phase, walk, record, mosq, connected, lost, misused, late>>
  BY DEF vars, serviceVars
<1>2. UNCHANGED <<threadVars, sharedVars>>
  BY DEF vars
<1>3. TypeOK'
  BY <1>1, <1>2 DEF IInv, Types, TypeOK, threadVars, sharedVars
<1>4. Held' /\ Started'
  BY <1>1, <1>2 DEF IInv, Types, Held, HeldAt, Started, Early, Busy, threadVars
<1>5. DescriptorsExact' /\ Released'
  BY <1>1, <1>2 DEF IInv, DescriptorsExact, Released, threadVars, sharedVars
<1>6. Safe'
  BY <1>1, <1>2 DEF IInv, Safe, NoMisuse, MqttEntries, Busy, threadVars
<1>7. Own'
  BY <1>1, <1>2 DEF IInv, Own, HostOf, threadVars, sharedVars
<1> QED
  BY <1>3, <1>4, <1>5, <1>6, <1>7 DEF IInv, Types

LEMMA Initial ==
    ASSUME Init
    PROVE  IInv
<1>1. config \in Seq(Entry) /\ sinfo = <<>>
  BY ConfigsAssumption DEF Init, ServicesInit
<1>2. Len(sinfo) = 0 /\ sinfo \in Seq(SinfoType)
  BY <1>1
<1>3. TypeOK
  <2>1. /\ phase = "config" /\ walk \in 0 .. Len(sinfo) /\ record \in 0 .. MaxRecords
        /\ mosq = "null" /\ lost \in Nat
        /\ {connected, misused, late, wasted, mixed, overlapped} \subseteq BOOLEAN
    BY <1>2, Zeros DEF Init, ServicesInit
  <2>2. /\ place \in [Threads -> Places] /\ entry \in [Threads -> 0 .. Len(sinfo)]
        /\ rec \in [Threads -> 0 .. MaxRecords]
        /\ held \in [Threads -> SUBSET (Descriptors \cup Blocks)]
        /\ addr \in [Threads -> Hosts \cup {Local}]
        /\ topic \in [Threads -> 1 .. Topics + 1]
    BY <1>2, Zeros DEF Init, Places
  <2>3. /\ hostent \in Hosts \cup {Local} /\ open \in 0 .. MaxOpen /\ refused \in Nat
        /\ topics \in [1 .. Topics -> 0 .. MaxRecords] /\ sent \subseteq Hosts \X Hosts
    BY Zeros, BoundsAssumption DEF Init
  <2> QED
    BY <1>1, <1>2, <2>1, <2>2, <2>3 DEF TypeOK, SinfoType, Func
<1>4. Held /\ Started
  BY <1>1 DEF Init, ServicesInit, Held, HeldAt, Started, Busy, Early
<1>5. DescriptorsExact
  <2>1. Holders = {} /\ open = 0 /\ refused = 0
    BY DEF Init, Holders
  <2>2. Cardinality(Holders) = 0
    BY <2>1, FS_EmptySet
  <2>3. open = refused + Cardinality(Holders)
    BY <2>1, <2>2
  <2> QED
    BY <2>3 DEF DescriptorsExact, Holders
<1>6. Released /\ Safe /\ Own
  BY DEF Init, ServicesInit, Released, Safe, NoMisuse, Own
<1> QED
  BY <1>3, <1>4, <1>5, <1>6 DEF IInv, Types

LEMMA Inductive ==
    ASSUME IInv, [Next]_vars
    PROVE  IInv'
<1>1. CASE ServicesNext /\ UNCHANGED <<threadVars, sharedVars>>
  BY <1>1, StepServices
<1>2. CASE SkipEntry
  BY <1>2, StepSkip
<1>3. ASSUME NEW t \in Threads, SendTo(t) PROVE IInv'
  BY <1>3, StepSendTo
<1>4. ASSUME NEW t \in Threads, ThreadNext(t) PROVE IInv'
  <2>1. CASE Crash(t) \/ CrashAgain(t)
    BY <2>1, StepCrash
  <2>2. CASE ~Crash(t) /\ ~CrashAgain(t)
    BY <1>4, <2>2, StepThread
  <2> QED
    BY <2>1, <2>2
<1>5. CASE UNCHANGED vars
  BY <1>5, Stutter
<1> QED
  BY <1>1, <1>2, <1>3, <1>4, <1>5, Zenon DEF Next

LEMMA Invariant == Spec => []IInv
<1>1. Init => IInv
  BY Initial
<1>2. IInv /\ [Next]_vars => IInv'
  BY Inductive
<1> QED
  BY <1>1, <1>2, PTL DEF Spec
-----------------------------------------------------------------------------
(***************************************************************************)
(* The theorems.                                                           *)
(***************************************************************************)

\* Every variable keeps its type, and the updates never have more descriptors
\* than the process may have, nor close one they have not (wfp-util.c:44-122,
\* wfp-db.c, wfp-log.c).
THEOREM TypeCorrect == Spec => []TypeOK
<1>1. IInv => TypeOK
  BY DEF IInv, Types
<1> QED
  BY <1>1, Invariant, PTL

\* Descriptors are lost with connections that fail, one with each, and nowhere
\* else (wfp-util.c:84-91).
THEOREM DescriptorsCounted == Spec => []DescriptorsExact
<1>1. IInv => DescriptorsExact
  BY DEF IInv
<1> QED
  BY <1>1, Invariant, PTL

\* Every path through an update frees what it allocated (wfp-util.c:38-122,
\* wfp-wunderground.c:107-131, wfp-db.c:48-130).
THEOREM MemoryReleased == Spec => []Released
<1>1. IInv => Released
  BY DEF IInv
<1> QED
  BY <1>1, Invariant, PTL

\* The orderly end of the process frees nothing twice and leaves nobody behind
\* with what it frees, unless an update or a walk was under way or mosq has two
\* entries to free it (wfpublish.c:195-218, 744-752).
THEOREM NothingMisused == Spec => []NoMisuse
<1>1. IInv => NoMisuse
  BY DEF IInv, Safe
<1> QED
  BY <1>1, Invariant, PTL

\* The static result of gethostbyname is the only way a request can go to the
\* host of another service (wfp-util.c:124-156).
THEOREM RequestsToOwnHost == Spec => []OwnHost
<1>1. IInv => OwnHost
  BY DEF IInv, Own, OwnHost
<1> QED
  BY <1>1, Invariant, PTL
-----------------------------------------------------------------------------
(***************************************************************************)
(* What a subscriber sees of records that are published topic by topic.    *)
(***************************************************************************)

\* t runs an update of the MQTT service.
Mqtt(t) == Busy(t) /\ sinfo[entry[t]].funcs = "MQTT"

\* Where an update of the MQTT service may be, where it may not, and what records
\* there are.
Placed(t) ==
    /\ place[t] = "idle" => topic[t] = 1
    /\ place[t] = "begin" => topic[t] = 1
    /\ place[t] = "topics" => Mqtt(t)
    /\ place[t] \notin {"idle", "begin", "topics"} => ~Mqtt(t)
    /\ rec[t] <= record

\* What an update has published, and what it has still to overwrite.
Under(t) ==
    \A i \in 1 .. Topics :
        /\ i < topic[t] => topics[i] = rec[t]
        /\ topics[i] <= rec[t]
        /\ i >= topic[t] => \A j \in 1 .. Topics : j >= topic[t] => topics[i] = topics[j]

\* The topics hold a record that is no later than the newest, and one if nobody
\* publishes; else that of the only update and the one before it.
Layers ==
    /\ \A i \in 1 .. Topics : topics[i] <= record
    /\ \A t \in Threads : Mqtt(t) => Under(t)
    /\ (\A t \in Threads : ~Mqtt(t)) => \A i, j \in 1 .. Topics : topics[i] = topics[j]

Whole ==
    /\ \A t \in Threads : Placed(t)
    /\ ~overlapped => \A t, u \in Threads : Mqtt(t) /\ Mqtt(u) => t = u
    /\ Early => \A i \in 1 .. Topics : topics[i] = 0
    /\ connected /\ ~overlapped => Layers

Start == IInv /\ Whole
-----------------------------------------------------------------------------
(***************************************************************************)
(* The steps of a thread.                                                  *)
(***************************************************************************)

\* Facts about types that every step needs.
LEMMA WholeFacts ==
    ASSUME IInv
    PROVE  /\ place \in [Threads -> Places] /\ entry \in [Threads -> 0 .. Len(sinfo)]
           /\ rec \in [Threads -> 0 .. MaxRecords] /\ topic \in [Threads -> 1 .. Topics + 1]
           /\ topics \in [1 .. Topics -> 0 .. MaxRecords] /\ record \in 0 .. MaxRecords
           /\ connected \in BOOLEAN /\ overlapped \in BOOLEAN
           /\ Topics \in Nat /\ MaxRecords \in Nat
BY BoundsAssumption, RecordsAssumption DEF IInv, Types, TypeOK

\* Thread t goes from one place of another service's update to the next, or ends.
Elsewhere(t) ==
    /\ place[t] \notin {"idle", "begin", "topics"}
    /\ place' = [place EXCEPT ![t] = place'[t]]
    /\ entry' = [entry EXCEPT ![t] = entry'[t]]
    /\ rec' = [rec EXCEPT ![t] = rec'[t]]
    /\ topic' = [topic EXCEPT ![t] = topic'[t]]
    /\ UNCHANGED <<topics, overlapped>>
    /\ rec'[t] \in {0, rec[t]}
    /\ \/ place'[t] = "idle" /\ topic'[t] = 1
       \/ /\ place'[t] \notin {"idle", "begin", "topics"}
          /\ entry'[t] = entry[t]

LEMMA WebElsewhere ==
    ASSUME IInv, NEW t \in Threads,
           \/ Socket(t) \/ Lookup(t) \/ LookupFails(t) \/ CopyAddress(t) \/ CopyFails(t)
           \/ LookupAgain(t) \/ StillLocal(t)
           \/ ConnectFails(t) \/ Request(t) \/ Answer(t) \/ Release(t)
    PROVE  Elsewhere(t)
<1>f. /\ place \in [Threads -> Places] /\ entry \in [Threads -> 0 .. Len(sinfo)]
      /\ rec \in [Threads -> 0 .. MaxRecords] /\ topic \in [Threads -> 1 .. Topics + 1]
  BY WholeFacts
<1>1. CASE Socket(t)
  BY <1>1, <1>f DEF Socket, Elsewhere, At, Goto
<1>2. CASE Lookup(t) \/ LookupFails(t)
  BY <1>2, <1>f DEF Lookup, LookupFails, Elsewhere, At, Goto
<1>3. CASE CopyAddress(t)
  BY <1>3, <1>f DEF CopyAddress, Elsewhere, At, Goto, sharedVars
<1>4. CASE CopyFails(t)
  BY <1>4, <1>f DEF CopyFails, Elsewhere, At, Goto
<1>5. CASE LookupAgain(t) \/ StillLocal(t)
  BY <1>5, <1>f DEF LookupAgain, StillLocal, Elsewhere, At, Goto, sharedVars
<1>6. CASE ConnectFails(t) \/ Request(t)
  BY <1>6, <1>f DEF ConnectFails, Request, Elsewhere, At, Goto
<1>7. CASE Answer(t)
  BY <1>7, <1>f DEF Answer, Elsewhere, At, Goto
<1>8. CASE Release(t)
  BY <1>8, <1>f DEF Release, Elsewhere, At, End
<1> QED
  BY <1>1, <1>2, <1>3, <1>4, <1>5, <1>6, <1>7, <1>8

LEMMA LocalElsewhere ==
    ASSUME IInv, NEW t \in Threads,
           DbOpen(t) \/ DbQuery(t) \/ DbClose(t) \/ LogOpen(t) \/ LogWrite(t) \/ Display(t)
    PROVE  Elsewhere(t)
<1>f. /\ place \in [Threads -> Places] /\ entry \in [Threads -> 0 .. Len(sinfo)]
      /\ rec \in [Threads -> 0 .. MaxRecords] /\ topic \in [Threads -> 1 .. Topics + 1]
  BY WholeFacts
<1>1. CASE DbOpen(t)
  BY <1>1, <1>f DEF DbOpen, ConnectToDatabase, Elsewhere, At, Goto
<1>2. CASE DbQuery(t)
  BY <1>2, <1>f DEF DbQuery, Elsewhere, At, Goto, sharedVars
<1>3. CASE DbClose(t)
  BY <1>3, <1>f DEF DbClose, Elsewhere, At, End
<1>4. CASE LogOpen(t)
  BY <1>4, <1>f DEF LogOpen, Elsewhere, At, Goto
<1>5. CASE LogWrite(t)
  BY <1>5, <1>f DEF LogWrite, Elsewhere, At, End
<1>6. CASE Display(t)
  BY <1>6, <1>f DEF Display, Elsewhere, At, End
<1> QED
  BY <1>1, <1>2, <1>3, <1>4, <1>5, <1>6

\* A step elsewhere changes neither who publishes nor what is published.
LEMMA ElsewhereKeeps ==
    ASSUME Start, NEW t \in Threads, Elsewhere(t),
           UNCHANGED <<sinfo, phase, record, connected>>
    PROVE  Whole'
<1>f. /\ place \in [Threads -> Places] /\ entry \in [Threads -> 0 .. Len(sinfo)]
      /\ rec \in [Threads -> 0 .. MaxRecords] /\ topic \in [Threads -> 1 .. Topics + 1]
      /\ record \in Nat
  BY WholeFacts DEF Start
<1>w. Whole
  BY DEF Start
<1>1. ~Mqtt(t) /\ ~Mqtt(t)' /\ Placed(t)'
  BY <1>w, <1>f DEF Elsewhere, Whole, Placed, Mqtt, Busy
<1>2. ASSUME NEW u \in Threads, u # t
      PROVE  /\ place'[u] = place[u] /\ entry'[u] = entry[u]
             /\ rec'[u] = rec[u] /\ topic'[u] = topic[u]
  BY <1>2, <1>f DEF Elsewhere
<1>3. ASSUME NEW u \in Threads
      PROVE  (Mqtt(u)' <=> Mqtt(u)) /\ Placed(u)' /\ (Mqtt(u) => (Under(u)' <=> Under(u)))
  <2>1. CASE u = t
    BY <2>1, <1>1
  <2>2. CASE u # t
    BY <2>2, <1>2, <1>w DEF Elsewhere, Whole, Placed, Mqtt, Busy, Under
  <2> QED
    BY <2>1, <2>2
<1>4. Layers => Layers'
  BY <1>3 DEF Layers, Elsewhere
<1> QED
  BY <1>w, <1>3, <1>4 DEF Whole, Elsewhere, Early

LEMMA BeginKeeps ==
    ASSUME Start, NEW t \in Threads, Begin(t)
    PROVE  Whole'
<1>f. /\ place \in [Threads -> Places]
  BY WholeFacts DEF Start
<1>w. Whole
  BY DEF Start
<1>1. /\ UNCHANGED <<sinfo, phase, record, connected, entry, rec, topic, topics, overlapped>>
      /\ place[t] = "begin" /\ place' = [place EXCEPT ![t] = place'[t]]
  BY <1>f DEF Begin, serviceRest, sharedVars, At, Goto
<1>2. /\ place'[t] \in {"socket", "topics", "dbopen", "logopen", "display"}
      /\ place'[t] = "topics" <=> sinfo[entry[t]].funcs = "MQTT"
  <2>1. sinfo[entry[t]].funcs \in Known
    BY <1>1, EntryType DEF Start, IInv, Types, Busy, Begin, Crashes, Func
  <2>2. place'[t] = FirstPlace[sinfo[entry[t]].funcs]
    BY <1>f DEF Begin, Goto
  <2> QED
    BY <2>1, <2>2, FirstPlaces
<1>3. ASSUME NEW u \in Threads
      PROVE  (Mqtt(u)' <=> Mqtt(u)) /\ Placed(u)' /\ (Under(u)' <=> Under(u))
  <2>1. CASE u = t
    BY <2>1, <1>1, <1>2, <1>w DEF Whole, Placed, Mqtt, Busy, Under
  <2>2. CASE u # t
    BY <2>2, <1>f, <1>1, <1>w DEF Whole, Placed, Mqtt, Busy, Under
  <2> QED
    BY <2>1, <2>2
<1>4. Layers => Layers'
  BY <1>1, <1>3 DEF Layers
<1> QED
  BY <1>w, <1>1, <1>3, <1>4 DEF Whole, Early

LEMMA PublishedKeeps ==
    ASSUME Start, NEW t \in Threads, Published(t)
    PROVE  Whole'
<1>f. /\ place \in [Threads -> Places] /\ entry \in [Threads -> 0 .. Len(sinfo)]
      /\ rec \in [Threads -> 0 .. MaxRecords] /\ topic \in [Threads -> 1 .. Topics + 1]
      /\ topics \in [1 .. Topics -> 0 .. MaxRecords] /\ Topics \in Nat
      /\ record \in Nat
  BY WholeFacts DEF Start
<1>w. Whole
  BY DEF Start
<1>1. /\ UNCHANGED <<sinfo, phase, record, connected, topics, overlapped>>
      /\ place[t] = "topics" /\ topic[t] > Topics
      /\ place'[t] = "idle" /\ topic'[t] = 1 /\ rec'[t] = 0
  BY <1>f DEF Published, serviceRest, At, End
<1>2. ASSUME NEW u \in Threads, u # t
      PROVE  /\ place'[u] = place[u] /\ entry'[u] = entry[u]
             /\ rec'[u] = rec[u] /\ topic'[u] = topic[u]
  BY <1>2, <1>f DEF Published, End
<1>3. Mqtt(t) /\ ~Mqtt(t)' /\ Placed(t)'
  BY <1>1, <1>f, <1>w DEF Whole, Placed, Mqtt, Busy
<1>4. ASSUME NEW u \in Threads, u # t
      PROVE  (Mqtt(u)' <=> Mqtt(u)) /\ Placed(u)'
  BY <1>4, <1>1, <1>2, <1>w DEF Whole, Placed, Mqtt, Busy
<1>5. ASSUME connected, ~overlapped PROVE Layers'
  <2>1. Layers /\ \A u \in Threads : Mqtt(u) => u = t
    BY <1>3, <1>5, <1>w DEF Whole
  <2>2. \A u \in Threads : ~Mqtt(u)'
    BY <2>1, <1>3, <1>4
  <2>3. \A i \in 1 .. Topics : topics[i] = rec[t]
    BY <2>1, <1>1, <1>3, <1>f DEF Layers, Under
  <2> QED
    BY <2>1, <2>2, <2>3, <1>1 DEF Layers
<1> QED
  BY <1>w, <1>1, <1>3, <1>4, <1>5 DEF Whole, Early

LEMMA PublishTopicKeeps ==
    ASSUME Start, NEW t \in Threads, PublishTopic(t)
    PROVE  Whole'
<1>f. /\ place \in [Threads -> Places] /\ entry \in [Threads -> 0 .. Len(sinfo)]
      /\ rec \in [Threads -> 0 .. MaxRecords] /\ topic \in [Threads -> 1 .. Topics + 1]
      /\ topics \in [1 .. Topics -> 0 .. MaxRecords] /\ Topics \in Nat
      /\ record \in 0 .. MaxRecords /\ MaxRecords \in Nat
  BY WholeFacts DEF Start
<1>w. Whole
  BY DEF Start
<1>1. /\ UNCHANGED <<sinfo, phase, record, connected, overlapped, place, entry, rec>>
      /\ place[t] = "topics" /\ topic[t] \in 1 .. Topics
      /\ topic' = [topic EXCEPT ![t] = topic[t] + 1]
      /\ topics' = IF connected THEN [topics EXCEPT ![topic[t]] = rec[t]] ELSE topics
      /\ phase \in {"run", "freed"}
  BY <1>f DEF PublishTopic, serviceRest, At, Running
<1>2. \A u \in Threads : (Mqtt(u)' <=> Mqtt(u)) /\ (u # t => topic'[u] = topic[u])
  BY <1>1, <1>f DEF Mqtt, Busy
<1>3. Mqtt(t)
  BY <1>1, <1>w DEF Whole, Placed
<1>4. \A u \in Threads : Placed(u)'
  BY <1>1, <1>2, <1>w DEF Whole, Placed
<1>5. ASSUME connected, ~overlapped PROVE Layers'
  <2>1. Layers /\ \A u \in Threads : Mqtt(u) => u = t
    BY <1>3, <1>5, <1>w DEF Whole
  <2>2. Under(t)
    BY <2>1, <1>3 DEF Layers
  <2>3. /\ topics' = [topics EXCEPT ![topic[t]] = rec[t]]
        /\ topic'[t] = topic[t] + 1 /\ topic[t] \in 1 .. Topics
        /\ rec'[t] = rec[t] /\ rec[t] \in Nat /\ topic[t] \in Nat
    BY <1>1, <1>5, <1>f
  <2>4. \A i \in 1 .. Topics : topics'[i] = IF i = topic[t] THEN rec[t] ELSE topics[i]
    BY <2>3, <1>f
  <2>5. Under(t)'
    <3> SUFFICES ASSUME NEW i \in 1 .. Topics
                 PROVE  /\ i < topic[t] + 1 => topics'[i] = rec[t]
                        /\ topics'[i] <= rec[t]
                        /\ i >= topic[t] + 1 => \A j \in 1 .. Topics :
                               j >= topic[t] + 1 => topics'[i] = topics'[j]
      BY <2>3 DEF Under
    <3>1. i < topic[t] + 1 => topics'[i] = rec[t]
      BY <2>2, <2>3, <2>4 DEF Under
    <3>2. topics'[i] <= rec[t]
      BY <2>2, <2>3, <2>4 DEF Under
    <3>3. ASSUME i >= topic[t] + 1, NEW j \in 1 .. Topics, j >= topic[t] + 1
          PROVE  topics'[i] = topics'[j]
      BY <2>2, <2>3, <2>4, <3>3 DEF Under
    <3> QED
      BY <3>1, <3>2, <3>3
  <2>6. rec[t] <= record
    BY <1>w DEF Whole, Placed
  <2>7. \A i \in 1 .. Topics : topics'[i] <= record'
    BY <2>1, <2>4, <2>6, <1>1 DEF Layers
  <2>8. \A u \in Threads : Mqtt(u)' => Under(u)'
    BY <2>1, <2>5, <1>2
  <2> QED
    BY <2>7, <2>8, <1>2, <1>3 DEF Layers
<1>6. ~Early'
  BY <1>1 DEF Early
<1>7. (~overlapped => \A u, v \in Threads : Mqtt(u) /\ Mqtt(v) => u = v)'
  BY <1>1, <1>2, <1>w DEF Whole
<1> QED
  BY <1>1, <1>4, <1>5, <1>6, <1>7 DEF Whole

LEMMA SendToKeeps ==
    ASSUME Start, NEW t \in Threads, SendTo(t)
    PROVE  Whole'
<1>f. /\ place \in [Threads -> Places] /\ entry \in [Threads -> 0 .. Len(sinfo)]
      /\ rec \in [Threads -> 0 .. MaxRecords] /\ topic \in [Threads -> 1 .. Topics + 1]
      /\ topics \in [1 .. Topics -> 0 .. MaxRecords] /\ Topics \in Nat
      /\ record \in 0 .. MaxRecords /\ MaxRecords \in Nat
  BY WholeFacts DEF Start
<1>w. Whole
  BY DEF Start
<1>1. /\ UNCHANGED <<sinfo, phase, record, connected, topics, topic>>
      /\ place[t] = "idle" /\ place'[t] = "begin" /\ entry'[t] = walk
      /\ rec'[t] = IF sinfo[walk].funcs = "MQTT" THEN record ELSE 0
      /\ phase \in {"run", "freed"}
  BY <1>f DEF SendTo, NextEntry, Walks, Running, Busy
<1>o. overlapped' = (overlapped \/ (sinfo[walk].funcs = "MQTT" /\ OthersServe(t, "MQTT")))
  BY DEF SendTo
<1>2. ASSUME NEW u \in Threads, u # t
      PROVE  place'[u] = place[u] /\ entry'[u] = entry[u] /\ rec'[u] = rec[u]
  BY <1>2, <1>f DEF SendTo
<1>3. ASSUME NEW u \in Threads, u # t
      PROVE  (Mqtt(u)' <=> Mqtt(u)) /\ Placed(u)' /\ (Under(u)' <=> Under(u))
  BY <1>3, <1>1, <1>2, <1>w DEF Whole, Placed, Mqtt, Busy, Under
<1>4. /\ ~Mqtt(t) /\ topic[t] = 1
      /\ Mqtt(t)' <=> sinfo[walk].funcs = "MQTT"
      /\ Placed(t)'
  BY <1>1, <1>f, <1>w DEF Whole, Placed, Mqtt, Busy
<1>5. ASSUME ~overlapped', Mqtt(t)' PROVE \A u \in Threads : ~Mqtt(u)
  BY <1>5, <1>4, <1>o DEF OthersServe, Mqtt
<1>6. ~overlapped' => ~overlapped
  BY <1>o, <1>f
<1>7. (~overlapped => \A u, v \in Threads : Mqtt(u) /\ Mqtt(v) => u = v)'
  BY <1>3, <1>4, <1>5, <1>6, <1>w DEF Whole
<1>8. ASSUME connected, ~overlapped' PROVE Layers'
  <2>1. Layers
    BY <1>6, <1>8, <1>w DEF Whole
  <2>2. \A i \in 1 .. Topics : topics'[i] <= record'
    BY <2>1, <1>1 DEF Layers
  <2>3. CASE Mqtt(t)'
    <3>1. \A i, j \in 1 .. Topics : topics[i] = topics[j]
      BY <2>1, <2>3, <1>5, <1>8 DEF Layers
    <3>2. Under(t)'
      BY <2>1, <3>1, <2>3, <1>1, <1>4, <1>f DEF Under, Layers
    <3>3. \A u \in Threads : Mqtt(u)' => u = t
      BY <2>3, <1>3, <1>5, <1>8
    <3> QED
      BY <2>2, <2>3, <3>2, <3>3 DEF Layers
  <2>4. CASE ~Mqtt(t)'
    BY <2>1, <2>2, <2>4, <1>1, <1>3, <1>4 DEF Layers
  <2> QED
    BY <2>3, <2>4
<1>9. ~Early'
  BY <1>1 DEF Early
<1> QED
  BY <1>1, <1>3, <1>4, <1>7, <1>8, <1>9 DEF Whole
-----------------------------------------------------------------------------
(***************************************************************************)
(* The steps of main, of the publish thread and of the broker.             *)
(***************************************************************************)

\* Nobody publishes, the record only grows, and a connection is only made before
\* the first update.
LEMMA OthersKeep ==
    ASSUME Start, UNCHANGED <<place, entry, rec, topic, topics, overlapped>>,
           record' \in Nat, record <= record',
           sinfo' = sinfo \/ \A t \in Threads : ~Busy(t),
           Early' => Early, connected' => connected \/ Early
    PROVE  Whole'
<1>f. /\ rec \in [Threads -> 0 .. MaxRecords] /\ record \in Nat
      /\ topics \in [1 .. Topics -> 0 .. MaxRecords]
  BY WholeFacts DEF Start
<1>w. Whole
  BY DEF Start
<1>1. ASSUME NEW t \in Threads
      PROVE  (Mqtt(t)' <=> Mqtt(t)) /\ (Under(t)' <=> Under(t)) /\ (rec[t] <= record => rec[t] <= record')
  <2>1. rec[t] \in Nat
    BY <1>f
  <2> QED
    BY <2>1, <1>f DEF Mqtt, Under, Busy
<1>2. \A t \in Threads : Placed(t)'
  BY <1>1, <1>w DEF Whole, Placed
<1>3. ASSUME Layers PROVE Layers'
  <2>1. \A i \in 1 .. Topics : topics[i] <= record'
    BY <1>3, <1>f DEF Layers
  <2> QED
    BY <2>1, <1>1, <1>3 DEF Layers
<1>4. ASSUME Early PROVE Layers
  <2>1. \A t \in Threads : ~Mqtt(t)
    BY <1>4 DEF Start, IInv, Types, Started, Mqtt
  <2>2. \A i \in 1 .. Topics : topics[i] = 0
    BY <1>4, <1>w DEF Whole
  <2> QED
    BY <2>1, <2>2, <1>f DEF Layers
<1>5. connected' /\ ~overlapped' => Layers'
  BY <1>3, <1>4, <1>w DEF Whole
<1> QED
  BY <1>1, <1>2, <1>5, <1>w DEF Whole

LEMMA ServicesKeep ==
    ASSUME Start, ServicesNext, UNCHANGED <<threadVars, sharedVars>>
    PROVE  Whole'
<1>r. record \in Nat /\ record <= record
  BY WholeFacts DEF Start
<1>u. UNCHANGED <<place, entry, rec, topic, topics, overlapped>>
  BY DEF threadVars, sharedVars
<1>1. CASE ReadService
  <2>1. \A t \in Threads : ~Busy(t)
    BY <1>1 DEF Start, IInv, Types, Started, ReadService, Early
  <2>2. record' = record /\ connected' = connected /\ Early' = Early
    BY <1>1 DEF ReadService, Early
  <2> QED
    BY <2>1, <2>2, <1>r, <1>u, OthersKeep
<1>2. CASE ConfigRead \/ StartPublishing \/ BrokerDrops \/ Exit
  <2>1. record' = record /\ sinfo' = sinfo /\ (Early' => Early) /\ (connected' => connected)
    BY <1>2 DEF ConfigRead, StartPublishing, BrokerDrops, Exit, Early
  <2> QED
    BY <2>1, <1>r, <1>u, OthersKeep
<1>3. CASE InitPublisher
  <2>1. record' = record /\ sinfo' = sinfo /\ Early /\ Early'
    BY <1>3 DEF InitPublisher, Early
  <2> QED
    BY <2>1, <1>r, <1>u, OthersKeep
<1>4. CASE Wake
  <2>1. /\ record' \in Nat /\ record <= record' /\ sinfo' = sinfo
        /\ Early' = Early /\ connected' = connected
    BY <1>4, <1>r DEF Wake, Early
  <2> QED
    BY <2>1, <1>u, OthersKeep
<1>5. CASE Shutdown(\E t \in Threads : Busy(t))
  <2>1. record' = record /\ sinfo' = sinfo /\ (Early' => Early) /\ connected' = FALSE
    BY <1>5 DEF Shutdown, Early
  <2> QED
    BY <2>1, <1>r, <1>u, OthersKeep
<1> QED
  BY <1>1, <1>2, <1>3, <1>4, <1>5 DEF ServicesNext

LEMMA RestKeeps ==
    ASSUME Start,
           SkipEntry \/ UNCHANGED vars \/ \E t \in Threads : Crash(t) \/ CrashAgain(t)
    PROVE  Whole'
<1>r. record \in Nat /\ record <= record
  BY WholeFacts DEF Start
<1>1. /\ UNCHANGED <<place, entry, rec, topic, topics, overlapped>>
      /\ UNCHANGED <<sinfo, record, connected>> /\ (Early' => Early)
  <2>1. CASE SkipEntry
    BY <2>1 DEF SkipEntry, NextEntry, threadVars, sharedVars, Early
  <2>2. CASE UNCHANGED vars
    BY <2>2 DEF vars, serviceVars, threadVars, sharedVars, Early
  <2>3. CASE \E t \in Threads : Crash(t) \/ CrashAgain(t)
    BY <2>3 DEF Crash, CrashAgain, threadVars, sharedVars, Early
  <2> QED
    BY <2>1, <2>2, <2>3
<1> QED
  BY <1>r, <1>1, OthersKeep

LEMMA ThreadKeeps ==
    ASSUME Start, NEW t \in Threads, ThreadNext(t)
    PROVE  Whole'
<1>1. CASE Begin(t)
  BY <1>1, BeginKeeps
<1>2. CASE Crash(t) \/ CrashAgain(t)
  BY <1>2, RestKeeps
<1>3. CASE PublishTopic(t)
  BY <1>3, PublishTopicKeeps
<1>4. CASE Published(t)
  BY <1>4, PublishedKeeps
<1>5. CASE \/ Socket(t) \/ Lookup(t) \/ LookupFails(t) \/ CopyAddress(t) \/ CopyFails(t)
          \/ LookupAgain(t) \/ StillLocal(t)
          \/ ConnectFails(t) \/ Request(t) \/ Answer(t) \/ Release(t)
  <2>1. Elsewhere(t)
    BY <1>5, WebElsewhere DEF Start
  <2>2. Moves(t)
    BY <1>5, LocalSocket, LocalLookup, LocalLookupFails, LocalCopyAddress, LocalCopyFails,
       LocalLookupAgain, LocalStillLocal, LocalConnectFails, LocalRequest, LocalAnswer,
       LocalRelease DEF Start, IInv
  <2> QED
    BY <2>1, <2>2, ElsewhereKeeps DEF Moves, serviceRest
<1>6. CASE DbOpen(t) \/ DbQuery(t) \/ DbClose(t) \/ LogOpen(t) \/ LogWrite(t) \/ Display(t)
  <2>1. Elsewhere(t)
    BY <1>6, LocalElsewhere DEF Start
  <2>2. Moves(t)
    BY <1>6, LocalDbOpen, LocalDbQuery, LocalDbClose, LocalLogOpen, LocalLogWrite,
       LocalDisplay DEF Start, IInv
  <2> QED
    BY <2>1, <2>2, ElsewhereKeeps DEF Moves, serviceRest
<1> QED
  BY <1>1, <1>2, <1>3, <1>4, <1>5, <1>6, Zenon DEF ThreadNext

LEMMA Preserved ==
    ASSUME Start, [Next]_vars
    PROVE  Whole'
<1>1. CASE ServicesNext /\ UNCHANGED <<threadVars, sharedVars>>
  BY <1>1, ServicesKeep
<1>2. CASE SkipEntry \/ UNCHANGED vars
  BY <1>2, RestKeeps
<1>3. ASSUME NEW t \in Threads, SendTo(t) PROVE Whole'
  BY <1>3, SendToKeeps
<1>4. ASSUME NEW t \in Threads, ThreadNext(t) PROVE Whole'
  BY <1>4, ThreadKeeps
<1> QED
  BY <1>1, <1>2, <1>3, <1>4, Zenon DEF Next

LEMMA WholeAtFirst ==
    ASSUME Init
    PROVE  Whole
BY DEF Init, ServicesInit, Whole, Placed, Mqtt, Busy, Early

\* What the strengthening was for.
LEMMA WholeEnough ==
    ASSUME Start
    PROVE  TopicsWhole
<1>f. /\ topic \in [Threads -> 1 .. Topics + 1] /\ rec \in [Threads -> 0 .. MaxRecords]
      /\ topics \in [1 .. Topics -> 0 .. MaxRecords] /\ Topics \in Nat
  BY WholeFacts DEF Start
<1> SUFFICES ASSUME connected, ~overlapped
             PROVE  /\ \A i, j \in 1 .. Topics : i < j => topics[i] >= topics[j]
                    /\ (\E t \in Threads : Mqtt(t))
                       \/ \A i, j \in 1 .. Topics : topics[i] = topics[j]
  BY DEF TopicsWhole, Mqtt
<1>1. Layers
  BY DEF Start, Whole
<1>2. CASE \A t \in Threads : ~Mqtt(t)
  BY <1>1, <1>2, <1>f DEF Layers
<1>3. ASSUME NEW t \in Threads, Mqtt(t)
      PROVE  \A i, j \in 1 .. Topics : i < j => topics[i] >= topics[j]
  <2>1. Under(t)
    BY <1>1, <1>3 DEF Layers
  <2>2. SUFFICES ASSUME NEW i \in 1 .. Topics, NEW j \in 1 .. Topics, i < j
                 PROVE  topics[i] >= topics[j]
    OBVIOUS
  <2>3. topics[i] \in Nat /\ topics[j] \in Nat /\ rec[t] \in Nat /\ topic[t] \in Nat
    BY <1>f
  <2>4. CASE i < topic[t]
    BY <2>1, <2>3, <2>4 DEF Under
  <2>5. CASE i >= topic[t]
    <3>1. j >= topic[t]
      BY <2>2, <2>3, <2>5
    <3> QED
      BY <2>1, <2>3, <2>5, <3>1 DEF Under
  <2> QED
    BY <2>3, <2>4, <2>5
<1> QED
  BY <1>2, <1>3
-----------------------------------------------------------------------------
\* The topics of a record are published one after the other over a connection
\* that all updates share (wfp-mqtt.c:83-259): a subscriber sees no older record
\* in front of a newer one unless two updates overlap.
THEOREM TopicsAreWhole == Spec => []TopicsWhole
<1>1. Init => Whole
  BY WholeAtFirst
<1>2. IInv /\ Whole /\ [Next]_vars => Whole'
  BY Preserved DEF Start
<1>3. IInv /\ Whole => TopicsWhole
  BY WholeEnough DEF Start
<1> QED
  BY <1>1, <1>2, <1>3, Invariant, PTL DEF Spec
=============================================================================
