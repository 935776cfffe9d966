------------------------------ MODULE Publish ------------------------------
(***************************************************************************)
(* The hand-off at the centre of wfpublish: the main thread reads UDP      *)
(* packets and overwrites the fields of the one shared weather record wd;  *)
(* once both an AIR and a SKY packet have come in it signals a condition   *)
(* variable; the publish thread wakes up, and for each enabled service     *)
(* copies wd and starts a detached thread that owns the copy.              *)
(*                                                                         *)
(* wd is read and written without a lock: data_event_mutex is held by main *)
(* only around pthread_cond_signal, and by the publish thread only because *)
(* pthread_cond_wait returns with it.  The publish thread never locks it   *)
(* before its first wait, so that first wait releases a mutex it does not  *)
(* own.  The build's default (glibc "normal") mutex has no owner check:    *)
(* the release makes it free, whoever holds it.                            *)
(*                                                                         *)
(* A field holds the number of the packet that last wrote it (0: none), so *)
(* a copy that mixes packets, or is older than it should be, is visible.   *)
(* The fields are written, and copied, one at a time in any order: the     *)
(* accesses are unsynchronised and the compiler may order them as it likes.*)
(***************************************************************************)
EXTENDS Naturals, FiniteSets

CONSTANTS
    NumServices,   \* length of the list sinfo; a service is its position
    Enabled,       \* the services whose "enabled" is not 0
    AirFields,     \* fields of wd that wfp_air_parse writes
    SkyFields,     \* fields of wd that only wfp_sky_parse writes
    GustFields,    \* fields of wd that both sky and rapid wind packets write
    Threads,       \* threads the operating system lets the process have for
                   \* sending; pthread_create fails when all are in use
    Hung,          \* services whose remote end may never answer
    Spurious,      \* pthread_cond_wait may return without a signal
    MaxSeq         \* bound: number of packets received

Services == 1 .. NumServices
Fields   == AirFields \cup SkyFields \cup GustFields

ASSUME NumServicesAssumption == NumServices \in Nat
ASSUME EnabledAssumption     == Enabled \subseteq Services
ASSUME HungAssumption        == Hung \subseteq Services
ASSUME SpuriousAssumption    == Spurious \in BOOLEAN
ASSUME MaxSeqAssumption      == MaxSeq \in Nat

VARIABLES
    \* main thread
    seq,      \* packets received so far
    wd,       \* the shared record: for each field, the packet that wrote it
    st,       \* which of the two observations came in since the last signal
    kind,     \* kind of the packet being parsed
    todo,     \* fields of it still to be written
    mainPc,
    \* mutex and condition variable
    mutex,    \* "free", "main" or "publish": data_event_mutex
    queued,   \* the publish thread is registered on data_event_trigger
    woken,    \* ... and a signal has reached it
    \* publish thread
    pubPc,
    sitr,     \* position in sinfo
    copy,     \* wd_copy, as far as it is filled in
    left,     \* fields still to be copied
    \* the detached threads: the service (0: unused) and the copy it owns
    thread,
    \* history, read by properties only
    due,      \* wd when the last signal reached the publish thread
    sigSeq,   \* seq at that moment
    handed,   \* per service: sigSeq when send_to last returned for it
    raced     \* the unowned release let go of a mutex main was holding

mainVars == <<seq, wd, st, kind, todo, mainPc>>
syncVars == <<mutex, queued, woken>>
pubVars  == <<pubPc, sitr, copy, left>>
history  == <<due, sigSeq, handed, raced>>
vars     == <<mainVars, syncVars, pubVars, thread, history>>

Kinds == {"obs_air", "obs_sky", "rapid_wind"}

\* The sets of fields a parser may overwrite (the gust only if it is higher
\* than the one in wd, or the tracking interval is over), and what
\* wf_message_parse returns for it.
WrittenBy == [obs_air    |-> {AirFields},
              obs_sky    |-> {SkyFields, SkyFields \cup GustFields},
              rapid_wind |-> {{}, GustFields}]

Flag == [obs_air |-> {"AIRDATA"}, obs_sky |-> {"SKYDATA"}, rapid_wind |-> {}]

Both  == {"AIRDATA", "SKYDATA"}
Blank == [f \in Fields |-> 0]
Idle  == [svc |-> 0, data |-> Blank]

Init ==
    /\ seq = 0 /\ wd = Blank /\ st = {} /\ kind = "obs_air" /\ todo = {}
    /\ mainPc = "read"
    /\ mutex = "free" /\ queued = FALSE /\ woken = FALSE
    /\ pubPc = "created" /\ sitr = 1 /\ copy = Blank /\ left = {}
    /\ thread = [t \in Threads |-> Idle]
    /\ due = Blank /\ sigSeq = 0 /\ handed = [s \in Services |-> 0]
    /\ raced = FALSE
-----------------------------------------------------------------------------
(***************************************************************************)
(* Main thread.                                                            *)
(***************************************************************************)

\* read() returns a packet that has a parser; at most MaxSeq of them.
Receive(k) ==
    /\ mainPc = "read"
    /\ seq < MaxSeq
    /\ seq' = seq + 1
    /\ kind' = k
    /\ todo' \in WrittenBy[k]
    /\ mainPc' = "parse"
    /\ UNCHANGED <<wd, st, syncVars, pubVars, thread, history>>

\* A packet with no effect on wd (strike, precipitation, status, unknown):
\* wf_message_parse returns 0, and st, which is never complete here, stays.
ReceiveIgnored ==
    /\ mainPc = "read"
    /\ UNCHANGED vars

\* One field assignment of the parser.
WriteField(f) ==
    /\ mainPc = "parse"
    /\ f \in todo
    /\ wd' = [wd EXCEPT ![f] = seq]
    /\ todo' = todo \ {f}
    /\ UNCHANGED <<seq, st, kind, mainPc, syncVars, pubVars, thread, history>>

\* st |= wf_message_parse(line), and the test for both kinds of data.
EndParse ==
    /\ mainPc = "parse"
    /\ todo = {}
    /\ st' = st \cup Flag[kind]
    /\ mainPc' = IF st' = Both THEN "lock" ELSE "read"
    /\ UNCHANGED <<seq, wd, kind, todo, syncVars, pubVars, thread, history>>

\* Mutant: pthread_cond_signal without the mutex.
MainNoLock ==
    /\ mainPc = "lock"
    /\ mainPc' = "signal"
    /\ UNCHANGED <<seq, wd, st, kind, todo, syncVars, pubVars, thread, history>>

MainLock ==
    /\ mainPc = "lock"
    /\ mutex = "free"
    /\ mutex' = "main"
    /\ mainPc' = "signal"
    /\ UNCHANGED <<seq, wd, st, kind, todo, queued, woken, pubVars, thread,
                   history>>

\* pthread_cond_signal: lost when nobody is registered.
MainSignal ==
    /\ mainPc = "signal"
    /\ mainPc' = "unlock"
    /\ woken' = queued
    /\ due' = IF queued THEN wd ELSE due
    /\ sigSeq' = IF queued THEN seq ELSE sigSeq
    /\ UNCHANGED <<seq, wd, st, kind, todo, mutex, queued, pubVars, thread,
                   handed, raced>>

MainUnlock ==
    /\ mainPc = "unlock"
    /\ mutex' = "free"
    /\ st' = {}
    /\ mainPc' = "read"
    /\ UNCHANGED <<seq, wd, kind, todo, queued, woken, pubVars, thread,
                   history>>
-----------------------------------------------------------------------------
(***************************************************************************)
(* Publish thread.                                                         *)
(***************************************************************************)

\* pthread_cond_wait, first half: register as a waiter.
CondEnqueue ==
    /\ pubPc \in {"created", "wait"}
    /\ pubPc' = "release"
    /\ queued' = TRUE
    /\ UNCHANGED <<mainVars, mutex, woken, sitr, copy, left, thread, history>>

\* Mutant: a wait that keeps the mutex.
CondReleaseNothing ==
    /\ pubPc = "release"
    /\ pubPc' = "waiting"
    /\ UNCHANGED <<mainVars, syncVars, sitr, copy, left, thread, history>>

\* pthread_cond_wait, second half: release the mutex and block.  On the
\* first call the thread does not own the mutex; main's hold may be lost.
CondRelease ==
    /\ pubPc = "release"
    /\ pubPc' = "waiting"
    /\ mutex' = "free"
    /\ raced' = (raced \/ mutex = "main")
    /\ UNCHANGED <<mainVars, queued, woken, sitr, copy, left, thread, due,
                   sigSeq, handed>>

\* Mutant: a wait that returns without the mutex.
CondReturnUnlocked ==
    /\ pubPc = "waiting"
    /\ queued' = FALSE
    /\ woken' = FALSE
    /\ pubPc' = "loop"
    /\ sitr' = 1
    /\ UNCHANGED <<mainVars, mutex, copy, left, thread, history>>

\* pthread_cond_wait returns with the mutex, and the walk over sinfo begins.
CondReturn ==
    /\ pubPc = "waiting"
    /\ mutex = "free"
    /\ mutex' = "publish"
    /\ queued' = FALSE
    /\ woken' = FALSE
    /\ pubPc' = "loop"
    /\ sitr' = 1
    /\ UNCHANGED <<mainVars, copy, left, thread, history>>

CondWake     == woken /\ CondReturn
\* POSIX lets the wait return with no signal, and no predicate is tested.
SpuriousWake == Spurious /\ ~woken /\ CondReturn

SkipDisabled ==
    /\ pubPc = "loop"
    /\ sitr \in Services \ Enabled
    /\ sitr' = sitr + 1
    /\ UNCHANGED <<mainVars, syncVars, pubPc, copy, left, thread, history>>

\* Mutants of the next action: the walk runs past the end of the list; the
\* copy made for the service before is used again; only the fields of the
\* last packet are copied.
SendPastEnd ==
    /\ pubPc = "loop"
    /\ pubPc' = "copy"
    /\ copy' = Blank
    /\ left' = Fields
    /\ UNCHANGED <<mainVars, syncVars, sitr, thread, history>>

SendReused ==
    /\ pubPc = "loop"
    /\ sitr \in Enabled
    /\ pubPc' = "copy"
    /\ left' = IF copy = Blank THEN Fields ELSE {}
    /\ UNCHANGED <<mainVars, syncVars, sitr, copy, thread, history>>

SendLastPacket ==
    /\ pubPc = "loop"
    /\ sitr \in Enabled
    /\ pubPc' = "copy"
    /\ copy' = Blank
    /\ left' = UNION WrittenBy[kind]
    /\ UNCHANGED <<mainVars, syncVars, sitr, thread, history>>

\* send_to for an enabled service: malloc in wdcopy succeeds ...
SendTo ==
    /\ pubPc = "loop"
    /\ sitr \in Enabled
    /\ pubPc' = "copy"
    /\ copy' = Blank
    /\ left' = Fields
    /\ UNCHANGED <<mainVars, syncVars, sitr, thread, history>>

\* ... or fails, and send_to returns with nothing sent.
CopyAllocFails ==
    /\ pubPc = "loop"
    /\ sitr \in Enabled
    /\ sitr' = sitr + 1
    /\ handed' = [handed EXCEPT ![sitr] = sigSeq]
    /\ UNCHANGED <<mainVars, syncVars, pubPc, copy, left, thread, due, sigSeq,
                   raced>>

\* wdcopy reads wd while main may be writing it.
CopyField(f) ==
    /\ pubPc = "copy"
    /\ f \in left
    /\ copy' = [copy EXCEPT ![f] = wd[f]]
    /\ left' = left \ {f}
    /\ UNCHANGED <<mainVars, syncVars, pubPc, sitr, thread, history>>

\* send_to returns; the next service is considered.
Advance ==
    /\ pubPc' = "loop"
    /\ sitr' = sitr + 1
    /\ handed' = [handed EXCEPT ![sitr] = sigSeq]
    /\ UNCHANGED <<mainVars, syncVars, copy, left, due, sigSeq, raced>>

CopyDone == pubPc = "copy" /\ left = {}

\* Mutant: a thread that is still sending is given the new copy.
CreateAnyThread(t) ==
    /\ CopyDone
    /\ thread' = [thread EXCEPT ![t] = [svc |-> sitr, data |-> copy]]
    /\ Advance

\* pthread_create succeeds: thread t owns the copy from here on.
CreateThread(t) ==
    /\ CopyDone
    /\ thread[t] = Idle
    /\ thread' = [thread EXCEPT ![t] = [svc |-> sitr, data |-> copy]]
    /\ Advance

\* Mutant: the creation is tried again until there is a thread.
CreateRetried ==
    /\ CopyDone
    /\ \A t \in Threads : thread[t] # Idle
    /\ UNCHANGED vars

\* pthread_create fails: the copy is freed and the send is dropped.  (The
\* pthread_detach that follows is given an uninitialised handle.  Where that
\* is a stale handle it fails and is ignored, as here; where it crashes, the
\* behaviour ends.)
CreateFails ==
    /\ CopyDone
    /\ \A t \in Threads : thread[t] # Idle
    /\ UNCHANGED thread
    /\ Advance

EndRound ==
    /\ pubPc = "loop"
    /\ sitr = NumServices + 1
    /\ pubPc' = "wait"
    /\ UNCHANGED <<mainVars, syncVars, sitr, copy, left, thread, history>>
-----------------------------------------------------------------------------
\* invoke_publisher: the service's update returns, the copy is freed, the
\* thread ends.
Finish(t) ==
    /\ thread[t] # Idle
    /\ thread' = [thread EXCEPT ![t] = Idle]
    /\ UNCHANGED <<mainVars, syncVars, pubVars, history>>
-----------------------------------------------------------------------------
MainParse == (\E f \in todo : WriteField(f)) \/ EndParse

MainNext ==
    \/ \E k \in Kinds : Receive(k)
    \/ ReceiveIgnored
    \/ \E f \in todo : WriteField(f)
    \/ EndParse
    \/ MainLock \/ MainSignal \/ MainUnlock

\* Steps of the publish thread that need nobody else.
PubWork ==
    \/ CondEnqueue \/ CondRelease
    \/ SkipDisabled \/ SendTo \/ CopyAllocFails
    \/ \E f \in left : CopyField(f)
    \/ \E t \in Threads : CreateThread(t)
    \/ CreateFails
    \/ EndRound

PubNext == CondWake \/ SpuriousWake \/ PubWork

Next == MainNext \/ PubNext \/ \E t \in Threads : Finish(t)

\* Each thread keeps running; nothing is assumed of the network, neither that
\* packets come nor that a hung service ever answers.  A thread that waits for
\* the mutex gets it if it becomes free again and again: the other side
\* blocks in between, in read() or in the wait.
Fairness ==
    /\ WF_vars(MainParse) /\ WF_vars(MainSignal) /\ WF_vars(MainUnlock)
    /\ SF_vars(MainLock)
    /\ WF_vars(PubWork) /\ SF_vars(CondWake)
    /\ \A t \in Threads : WF_vars(thread[t].svc \notin Hung /\ Finish(t))

Spec     == Init /\ [][Next]_vars
FairSpec == Spec /\ Fairness
-----------------------------------------------------------------------------
(***************************************************************************)
(* What the hand-off promises.                                             *)
(***************************************************************************)

\* Every variable has a value of its type.
TypeOK ==
    /\ seq \in 0 .. MaxSeq
    /\ wd \in [Fields -> Nat]
    /\ st \subseteq Both
    /\ kind \in Kinds
    /\ todo \subseteq Fields
    /\ mainPc \in {"read", "parse", "lock", "signal", "unlock"}
    /\ mutex \in {"free", "main", "publish"}
    /\ queued \in BOOLEAN /\ woken \in BOOLEAN
    /\ pubPc \in {"created", "release", "waiting", "loop", "copy", "wait"}
    /\ sitr \in 1 .. NumServices + 1
    /\ copy \in [Fields -> Nat]
    /\ left \subseteq Fields
    /\ thread \in [Threads -> [svc : 0 .. NumServices, data : [Fields -> Nat]]]
    /\ due \in [Fields -> Nat]
    /\ sigSeq \in 0 .. MaxSeq
    /\ handed \in [Services -> Nat]
    /\ raced \in BOOLEAN

\* Mutual exclusion, which the program gets from a mutex its publish thread
\* never locks: unless the first, unowned release hit main inside its
\* critical section, main signals only while the publish thread is in its
\* wait, and the publish thread walks the services only while main is out.
Exclusive ==
    ~raced =>
        /\ mainPc \in {"signal", "unlock"} <=> mutex = "main"
        /\ pubPc \in {"loop", "copy", "wait"} => mutex = "publish"
        /\ mutex = "publish" => pubPc \in {"loop", "copy", "wait", "release"}

\* No signal is lost: when main is about to call pthread_cond_signal the
\* publish thread is registered on the condition variable, however long its
\* walk over the services took.  The two exceptions are the start of the
\* program: the thread has not reached its first wait yet, or the release in
\* that wait took the mutex from under main.
NoLostSignal ==
    mainPc = "signal" /\ pubPc # "created" /\ ~raced => queued

\* Freshness without a lock: although wdcopy reads wd while main writes it, a
\* finished copy holds, field by field, nothing older than wd was when the
\* publish thread was signalled, and nothing newer than wd is now.
CopyFresh ==
    CopyDone => \A f \in Fields : due[f] <= copy[f] /\ copy[f] <= wd[f]

\* Two copies in flight can be put in order: one is nowhere newer than the
\* other.  (The services may still answer in any order.)
CopiesOrdered ==
    \A t, u \in Threads :
        thread[t].svc # 0 /\ thread[u].svc # 0 =>
            \/ \A f \in Fields : thread[t].data[f] <= thread[u].data[f]
            \/ \A f \in Fields : thread[u].data[f] <= thread[t].data[f]

\* Every signal that reaches the publish thread is served: send_to returns
\* for every enabled service, for that signal or a later one.
EverySignalServed ==
    \A v \in 1 .. MaxSeq :
        sigSeq = v ~> \A s \in Enabled : handed[s] >= v

\* Publishing never keeps main from the socket for good, hung services or not.
MainReturnsToRead == mainPc = "lock" ~> mainPc = "read"

\* The abstract broadcast this implements (see Broadcast.tla): wd is the
\* record, a thread in use is an outgoing message with its data.
Abstract == INSTANCE Broadcast WITH
    Services <- Services, Fields <- Fields, Threads <- Threads,
    record <- wd, asked <- due, outgoing <- thread, None <- Idle
ImplementsBroadcast == Abstract!Spec
=============================================================================
