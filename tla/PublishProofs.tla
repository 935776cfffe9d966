--------------------------- MODULE PublishProofs ---------------------------
(***************************************************************************)
(* Proofs about Publish, for every list of services, set of fields, number *)
(* of threads and bound on packets:                                        *)
(*   - the state has its type;                                             *)
(*   - no signal is lost, and why a mutex that is never locked excludes;   *)
(*   - a copy is as fresh as it should be, copies are ordered, and the     *)
(*     hand-off implements Broadcast.                                      *)
(***************************************************************************)
EXTENDS Publish, TLAPS

USE NumServicesAssumption, EnabledAssumption, HungAssumption,
    SpuriousAssumption, MaxSeqAssumption
-----------------------------------------------------------------------------
(***************************************************************************)
(* Types.  The bound on sitr needs one fact beside them: the service being *)
(* sent to is one of the list.                                             *)
(***************************************************************************)

InList == pubPc = "copy" => sitr \in Services

\* The sets of fields a parser may write are sets of fields.
LEMMA WrittenByFields ==
    \A k \in Kinds : \A w \in WrittenBy[k] : w \subseteq Fields
BY DEF Kinds, WrittenBy, Fields

\* The flag of a packet is one of the two.
LEMMA FlagBoth == \A k \in Kinds : Flag[k] \subseteq Both
BY DEF Kinds, Flag, Both

\* A blank record and an unused thread have their types.
LEMMA BlankType ==
    /\ Blank \in [Fields -> Nat]
    /\ Idle \in [svc : 0 .. NumServices, data : [Fields -> Nat]]
BY DEF Blank, Idle

\* The walk can start, and nothing is an index and a number of packets.
LEMMA Bounds == 1 \in 1 .. NumServices + 1 /\ 0 \in 0 .. MaxSeq
OBVIOUS

LEMMA TypeAndList == Spec => [](TypeOK /\ InList)
<1> DEFINE I == TypeOK /\ InList
<1>1. Init => I
  <2> SUFFICES ASSUME Init PROVE I
    OBVIOUS
  <2>1. /\ thread \in [Threads -> [svc : 0 .. NumServices, data : [Fields -> Nat]]]
        /\ wd \in [Fields -> Nat] /\ copy \in [Fields -> Nat]
        /\ due \in [Fields -> Nat] /\ handed \in [Services -> Nat]
    BY BlankType DEF Init
  <2>2. /\ kind \in Kinds /\ st \subseteq Both
        /\ todo \subseteq Fields /\ left \subseteq Fields
    BY DEF Init, Kinds
  <2> QED
    BY <2>1, <2>2, Bounds DEF Init, TypeOK, InList
<1>2. I /\ [Next]_vars => I'
  <2> SUFFICES ASSUME I, [Next]_vars PROVE I'
    OBVIOUS
  <2> USE DEF TypeOK, InList, Services
  <2>1. ASSUME NEW k \in Kinds, Receive(k) PROVE I'
    BY <2>1, WrittenByFields DEF Receive, syncVars, pubVars, history
  <2>2. ASSUME NEW f \in todo, WriteField(f) PROVE I'
    BY <2>2 DEF WriteField, syncVars, pubVars, history
  <2>3. CASE EndParse
    BY <2>3, FlagBoth DEF EndParse, syncVars, pubVars, history
  <2>4. CASE MainLock
    BY <2>4 DEF MainLock, pubVars, history
  <2>5. CASE MainSignal
    BY <2>5 DEF MainSignal, pubVars
  <2>6. CASE MainUnlock
    BY <2>6 DEF MainUnlock, pubVars, history, Both
  <2>7. CASE CondEnqueue
    BY <2>7 DEF CondEnqueue, mainVars, history
  <2>8. CASE CondRelease
    BY <2>8 DEF CondRelease, mainVars
  <2>9. CASE CondReturn
    BY <2>9, Bounds DEF CondReturn, mainVars, history
  <2>10. CASE SkipDisabled
    BY <2>10 DEF SkipDisabled, mainVars, syncVars, history
  <2>11. CASE SendTo
    BY <2>11, BlankType DEF SendTo, mainVars, syncVars, history
  <2>12. CASE CopyAllocFails
    BY <2>12 DEF CopyAllocFails, mainVars, syncVars
  <2>13. ASSUME NEW f \in left, CopyField(f) PROVE I'
    BY <2>13 DEF CopyField, mainVars, syncVars, history
  <2>14. ASSUME NEW t \in Threads, CreateThread(t) PROVE I'
    BY <2>14 DEF CreateThread, Advance, CopyDone, mainVars, syncVars
  <2>15. CASE CreateFails
    BY <2>15 DEF CreateFails, Advance, CopyDone, mainVars, syncVars
  <2>16. CASE EndRound
    BY <2>16 DEF EndRound, mainVars, syncVars, history
  <2>17. ASSUME NEW t \in Threads, Finish(t) PROVE I'
    BY <2>17, BlankType DEF Finish, mainVars, syncVars, pubVars, history
  <2>18. CASE UNCHANGED vars
    BY <2>18 DEF vars, mainVars, syncVars, pubVars, history
  <2> QED
    BY <2>1, <2>2, <2>3, <2>4, <2>5, <2>6, <2>7, <2>8, <2>9, <2>10, <2>11,
       <2>12, <2>13, <2>14, <2>15, <2>16, <2>17, <2>18
    DEF Next, MainNext, PubNext, PubWork, ReceiveIgnored, CondWake,
        SpuriousWake
<1> QED
  BY <1>1, <1>2, PTL DEF Spec

\* TypeOK is an invariant: the state the code of wfpublish.c and wfp-send.c
\* keeps always has the type its declarations give it.
THEOREM TypeCorrect == Spec => []TypeOK
BY TypeAndList, PTL
-----------------------------------------------------------------------------
(***************************************************************************)
(* Signals.  Registered and Exclusive are inductive together: outside the  *)
(* wait the publish thread has the mutex, because it came out of the wait  *)
(* with it and gives it up only in the next wait; so main, which signals   *)
(* with the mutex held, finds it inside.                                   *)
(***************************************************************************)

\* The publish thread is registered exactly while it is inside the wait.
Registered == queued <=> pubPc \in {"release", "waiting"}

LEMMA SyncInit == Init => Registered /\ Exclusive
BY DEF Init, Registered, Exclusive

LEMMA SyncStep == Registered /\ Exclusive /\ [Next]_vars => (Registered /\ Exclusive)'
<1> SUFFICES ASSUME Registered, Exclusive, [Next]_vars
             PROVE  (Registered /\ Exclusive)'
  OBVIOUS
<1> USE DEF Registered, Exclusive
<1>1. ASSUME NEW k \in Kinds, Receive(k) PROVE (Registered /\ Exclusive)'
  BY <1>1 DEF Receive, syncVars, pubVars, history
<1>2. ASSUME NEW f \in todo, WriteField(f) PROVE (Registered /\ Exclusive)'
  BY <1>2 DEF WriteField, syncVars, pubVars, history
<1>3. CASE EndParse
  BY <1>3 DEF EndParse, syncVars, pubVars, history
<1>4. CASE MainLock
  BY <1>4 DEF MainLock, pubVars, history
<1>5. CASE MainSignal
  BY <1>5 DEF MainSignal, pubVars
<1>6. CASE MainUnlock
  BY <1>6 DEF MainUnlock, pubVars, history
<1>7. CASE CondEnqueue
  BY <1>7 DEF CondEnqueue, mainVars, history
<1>8. CASE CondRelease
  BY <1>8 DEF CondRelease, mainVars
<1>9. CASE CondReturn
  BY <1>9 DEF CondReturn, mainVars, history
<1>10. CASE SkipDisabled
  BY <1>10 DEF SkipDisabled, mainVars, syncVars, history
<1>11. CASE SendTo
  BY <1>11 DEF SendTo, mainVars, syncVars, history
<1>12. CASE CopyAllocFails
  BY <1>12 DEF CopyAllocFails, mainVars, syncVars
<1>13. ASSUME NEW f \in left, CopyField(f) PROVE (Registered /\ Exclusive)'
  BY <1>13 DEF CopyField, mainVars, syncVars, history
<1>14. ASSUME NEW t \in Threads, CreateThread(t) PROVE (Registered /\ Exclusive)'
  BY <1>14 DEF CreateThread, Advance, CopyDone, mainVars, syncVars
<1>15. CASE CreateFails
  BY <1>15 DEF CreateFails, Advance, CopyDone, mainVars, syncVars
<1>16. CASE EndRound
  BY <1>16 DEF EndRound, mainVars, syncVars, history
<1>17. ASSUME NEW t \in Threads, Finish(t) PROVE (Registered /\ Exclusive)'
  BY <1>17 DEF Finish, mainVars, syncVars, pubVars, history
<1>18. CASE UNCHANGED vars
  BY <1>18 DEF vars, mainVars, syncVars, pubVars, history
<1> QED
  BY <1>1, <1>2, <1>3, <1>4, <1>5, <1>6, <1>7, <1>8, <1>9, <1>10, <1>11,
     <1>12, <1>13, <1>14, <1>15, <1>16, <1>17, <1>18
  DEF Next, MainNext, PubNext, PubWork, ReceiveIgnored, CondWake, SpuriousWake

LEMMA SyncAlways == Spec => [](Registered /\ Exclusive)
BY SyncInit, SyncStep, PTL DEF Spec

\* The publish thread and main exclude one another, although the publish
\* thread never locks the mutex (wfpublish.c:766-790 and 188-190).
THEOREM MutualExclusion == Spec => []Exclusive
BY SyncAlways, PTL

\* pthread_cond_signal at wfpublish.c:189 always finds the publish thread
\* waiting, except for the two windows at the program's start that
\* NoLostSignal names.
THEOREM SignalsNotLost == Spec => []NoLostSignal
<1>1. TypeOK /\ Registered /\ Exclusive => NoLostSignal
  BY DEF TypeOK, Registered, Exclusive, NoLostSignal
<1> QED
  BY <1>1, TypeCorrect, SyncAlways, PTL
-----------------------------------------------------------------------------
(***************************************************************************)
(* Freshness.  CopyFresh speaks of a finished copy; the induction needs it *)
(* of each field copied so far, and that nothing in flight is newer than   *)
(* it, so that the copy takes its place in the order when it is finished.  *)
(***************************************************************************)

\* Versions only grow from what is in flight, and was asked for, to wd.
Grows ==
    /\ \A f \in Fields : wd[f] <= seq /\ due[f] <= wd[f]
    /\ \A t \in Threads, f \in Fields : thread[t].data[f] <= wd[f]

CopiedSoFar ==
    pubPc = "copy" =>
        \A f \in Fields \ left :
            /\ due[f] <= copy[f] /\ copy[f] <= wd[f]
            /\ \A t \in Threads : thread[t].data[f] <= copy[f]

Ordered ==
    \A t, u \in Threads :
        \/ \A f \in Fields : thread[t].data[f] <= thread[u].data[f]
        \/ \A f \in Fields : thread[u].data[f] <= thread[t].data[f]

Fresh == Grows /\ CopiedSoFar /\ Ordered

LEMMA FreshInit == Init => Fresh
BY DEF Init, Fresh, Grows, CopiedSoFar, Ordered, Blank, Idle

\* The steps that leave wd, the marks and the copies alone.
LEMMA FreshFrame ==
    ASSUME TypeOK, Fresh, seq <= seq', seq' \in Nat,
           UNCHANGED <<wd, due, thread, copy, left>>,
           pubPc' = "copy" => pubPc = "copy"
    PROVE  Fresh'
BY DEF TypeOK, Fresh, Grows, CopiedSoFar, Ordered

\* A parser's store: versions grow.
LEMMA FreshWrite ==
    ASSUME TypeOK, Fresh, NEW f \in todo, WriteField(f)
    PROVE  Fresh' /\ \A g \in Fields : wd[g] <= wd'[g]
<1> USE DEF TypeOK, Fresh
<1>1. f \in Fields /\ seq \in Nat
  OBVIOUS
<1>2. wd' \in [Fields -> Nat] /\ \A g \in Fields : wd[g] <= wd'[g] /\ wd'[g] <= seq
  BY <1>1 DEF WriteField, Grows
<1>3. UNCHANGED <<seq, due, thread, copy, left, pubPc>>
  BY DEF WriteField, pubVars, history
<1>4. Ordered'
  BY <1>3 DEF Ordered
<1>5. Grows'
  BY <1>2, <1>3 DEF Grows
<1>6. CopiedSoFar'
  BY <1>2, <1>3 DEF CopiedSoFar
<1> QED
  BY <1>2, <1>4, <1>5, <1>6

\* The signal sets the mark only while the publish thread waits.
LEMMA FreshSignal ==
    ASSUME TypeOK, Registered, Fresh, MainSignal
    PROVE  Fresh'
<1> USE DEF TypeOK, Fresh
<1>1. UNCHANGED <<seq, wd, thread, copy, left, pubPc>>
  BY DEF MainSignal, pubVars
<1>2. pubPc = "copy" => due' = due
  BY DEF MainSignal, Registered
<1>3. due' = wd \/ due' = due
  BY DEF MainSignal
<1>4. Ordered' /\ CopiedSoFar'
  BY <1>1, <1>2 DEF Ordered, CopiedSoFar
<1>5. Grows'
  BY <1>1, <1>3 DEF Grows
<1> QED
  BY <1>4, <1>5

\* One field copied: it is as new as wd.
LEMMA FreshCopy ==
    ASSUME TypeOK, Fresh, NEW f \in left, CopyField(f)
    PROVE  Fresh'
<1> USE DEF TypeOK, Fresh
<1>1. UNCHANGED <<seq, wd, due, thread, pubPc>>
  BY DEF CopyField, mainVars, history
<1>2. Grows' /\ Ordered'
  BY <1>1 DEF Grows, Ordered
<1>3. ASSUME NEW g \in Fields \ left', pubPc = "copy"
      PROVE  /\ due[g] <= copy'[g] /\ copy'[g] <= wd[g]
             /\ \A t \in Threads : thread[t].data[g] <= copy'[g]
  <2>1. CASE g = f
    BY <2>1 DEF CopyField, Grows
  <2>2. CASE g # f
    <3>1. g \in Fields \ left /\ copy'[g] = copy[g]
      BY <2>2, <1>3 DEF CopyField
    <3> QED
      BY <3>1, <1>3 DEF CopiedSoFar
  <2> QED
    BY <2>1, <2>2
<1>4. CopiedSoFar'
  BY <1>1, <1>3 DEF CopiedSoFar
<1> QED
  BY <1>2, <1>4

\* A finished copy becomes the newest message.
LEMMA FreshCreate ==
    ASSUME TypeOK, Fresh, NEW t \in Threads, CreateThread(t)
    PROVE  Fresh'
<1> USE DEF TypeOK, Fresh
<1>1. UNCHANGED <<seq, wd, due>> /\ pubPc' = "loop"
  BY DEF CreateThread, Advance, mainVars
<1>2. /\ thread'[t].data = copy
      /\ \A u \in Threads \ {t} : thread'[u] = thread[u]
  BY DEF CreateThread
<1>3. \A f \in Fields : copy[f] <= wd[f] /\ \A u \in Threads : thread[u].data[f] <= copy[f]
  BY DEF CreateThread, CopyDone, CopiedSoFar
<1>4. Grows'
  BY <1>1, <1>2, <1>3 DEF Grows
<1>5. ASSUME NEW u \in Threads, NEW w \in Threads
      PROVE  \/ \A f \in Fields : thread'[u].data[f] <= thread'[w].data[f]
             \/ \A f \in Fields : thread'[w].data[f] <= thread'[u].data[f]
  <2>1. CASE u = t /\ w = t
    BY <2>1, <1>2
  <2>2. CASE u = t /\ w # t
    BY <2>2, <1>2, <1>3
  <2>3. CASE u # t /\ w = t
    BY <2>3, <1>2, <1>3
  <2>4. CASE u # t /\ w # t
    BY <2>4, <1>2 DEF Ordered
  <2> QED
    BY <2>1, <2>2, <2>3, <2>4
<1>6. Ordered'
  BY <1>5 DEF Ordered
<1>7. CopiedSoFar'
  BY <1>1 DEF CopiedSoFar
<1> QED
  BY <1>4, <1>6, <1>7

\* A message answered: its thread holds the oldest data there is.
LEMMA FreshFinish ==
    ASSUME TypeOK, Fresh, NEW t \in Threads, Finish(t)
    PROVE  Fresh'
<1> USE DEF TypeOK, Fresh
<1>1. UNCHANGED <<seq, wd, due, copy, left, pubPc>>
  BY DEF Finish, mainVars, pubVars, history
<1>2. /\ \A f \in Fields : thread'[t].data[f] = 0
      /\ \A u \in Threads \ {t} : thread'[u] = thread[u]
  BY DEF Finish, Idle, Blank
<1>3. ASSUME NEW u \in Threads, NEW f \in Fields
      PROVE  thread'[u] = thread[u] \/ (thread'[u].data[f] = 0 /\ 0 <= wd[f])
  BY <1>2
<1>4. Grows'
  BY <1>1, <1>3 DEF Grows
<1>5. CopiedSoFar'
  <2> SUFFICES ASSUME pubPc = "copy", NEW f \in Fields \ left, NEW u \in Threads
               PROVE  thread'[u].data[f] <= copy[f]
    BY <1>1 DEF CopiedSoFar
  <2> QED
    BY <1>3 DEF CopiedSoFar
<1>6. ASSUME NEW u \in Threads, NEW w \in Threads
      PROVE  \/ \A f \in Fields : thread'[u].data[f] <= thread'[w].data[f]
             \/ \A f \in Fields : thread'[w].data[f] <= thread'[u].data[f]
  <2>1. thread' \in [Threads -> [svc : 0 .. NumServices, data : [Fields -> Nat]]]
    BY BlankType DEF Finish
  <2>2. CASE u = t
    BY <2>1, <2>2, <1>2
  <2>3. CASE w = t
    BY <2>1, <2>3, <1>2
  <2>4. CASE u # t /\ w # t
    BY <2>4, <1>2 DEF Ordered
  <2> QED
    BY <2>2, <2>3, <2>4
<1>7. Ordered'
  BY <1>6 DEF Ordered
<1> QED
  BY <1>4, <1>5, <1>7

LEMMA FreshStep == TypeOK /\ TypeOK' /\ Registered /\ Fresh /\ [Next]_vars => Fresh'
<1> SUFFICES ASSUME TypeOK, TypeOK', Registered, Fresh, [Next]_vars
             PROVE  Fresh'
  OBVIOUS
<1>0. seq \in Nat /\ seq' \in Nat
  BY DEF TypeOK
<1>1. ASSUME NEW k \in Kinds, Receive(k) PROVE Fresh'
  BY <1>0, <1>1, FreshFrame DEF Receive, pubVars, history
<1>2. ASSUME NEW f \in todo, WriteField(f) PROVE Fresh'
  BY <1>2, FreshWrite
<1>3. CASE EndParse \/ MainLock \/ MainUnlock
  BY <1>0, <1>3, FreshFrame DEF EndParse, MainLock, MainUnlock, pubVars, history
<1>4. CASE MainSignal
  BY <1>4, FreshSignal
<1>5. CASE CondEnqueue \/ CondRelease \/ CondReturn
  BY <1>0, <1>5, FreshFrame DEF CondEnqueue, CondRelease, CondReturn, mainVars, history
<1>6. CASE SkipDisabled \/ CopyAllocFails \/ EndRound \/ CreateFails
  BY <1>0, <1>6, FreshFrame
  DEF SkipDisabled, CopyAllocFails, EndRound, CreateFails, Advance, mainVars, history
<1>7. CASE SendTo
  BY <1>7 DEF SendTo, mainVars, history, Fresh, Grows, CopiedSoFar, Ordered
<1>8. ASSUME NEW f \in left, CopyField(f) PROVE Fresh'
  BY <1>8, FreshCopy
<1>9. ASSUME NEW t \in Threads, CreateThread(t) PROVE Fresh'
  BY <1>9, FreshCreate
<1>10. ASSUME NEW t \in Threads, Finish(t) PROVE Fresh'
  BY <1>10, FreshFinish
<1>11. CASE UNCHANGED vars
  BY <1>0, <1>11, FreshFrame DEF vars, mainVars, pubVars, history
<1> QED
  BY <1>1, <1>2, <1>3, <1>4, <1>5, <1>6, <1>7, <1>8, <1>9, <1>10, <1>11
  DEF Next, MainNext, PubNext, PubWork, ReceiveIgnored, CondWake, SpuriousWake

LEMMA FreshAlways == Spec => []Fresh
BY FreshInit, FreshStep, TypeCorrect, SyncAlways, PTL DEF Spec

\* wdcopy (wfp-send.c:65-101) needs no lock to be fresh: a finished copy lies
\* between wd at the signal and wd now.
THEOREM CopiesFresh == Spec => []CopyFresh
<1>1. TypeOK /\ Fresh => CopyFresh
  BY DEF TypeOK, Fresh, CopiedSoFar, CopyFresh, CopyDone
<1> QED
  BY <1>1, TypeCorrect, FreshAlways, PTL

\* The copies the threads of wfp-send.c:51-60 own can be put in order.
THEOREM InFlightOrdered == Spec => []CopiesOrdered
<1>1. Fresh => CopiesOrdered
  BY DEF Fresh, Ordered, CopiesOrdered
<1> QED
  BY <1>1, FreshAlways, PTL
-----------------------------------------------------------------------------
(***************************************************************************)
(* Refinement.  Under the mapping of Abstract a store of a parser writes,  *)
(* a signal that arrives asks, the creation of a thread sends and its end  *)
(* delivers; every other step, the locks and the copying among them, is    *)
(* invisible.                                                              *)
(***************************************************************************)

LEMMA AbstractInit == Init => Abstract!Init
BY DEF Init, Abstract!Init, Blank, Idle

LEMMA AbstractStep ==
    TypeOK /\ TypeOK' /\ InList /\ Fresh /\ [Next]_vars
        => [Abstract!Next]_(Abstract!bvars)
<1> SUFFICES ASSUME TypeOK, TypeOK', InList, Fresh, [Next]_vars
             PROVE  Abstract!Next \/ UNCHANGED <<wd, due, thread>>
  BY DEF Abstract!bvars
<1>1. ASSUME NEW k \in Kinds, Receive(k) PROVE UNCHANGED <<wd, due, thread>>
  BY <1>1 DEF Receive, history
<1>2. ASSUME NEW f \in todo, WriteField(f) PROVE Abstract!Next
  <2>1. \A g \in Fields : wd[g] <= wd'[g]
    BY <1>2, FreshWrite
  <2>2. DOMAIN wd' = Fields
    BY DEF TypeOK
  <2>3. UNCHANGED <<due, thread>>
    BY <1>2 DEF WriteField, history
  <2> QED
    BY <2>1, <2>2, <2>3 DEF Abstract!Next, Abstract!Write, Abstract!NoNewer
<1>3. CASE EndParse \/ MainLock \/ MainUnlock
  BY <1>3 DEF EndParse, MainLock, MainUnlock, history
<1>4. CASE MainSignal
  BY <1>4 DEF MainSignal, Abstract!Next, Abstract!Ask
<1>5. CASE CondEnqueue \/ CondRelease \/ CondReturn
  BY <1>5 DEF CondEnqueue, CondRelease, CondReturn, mainVars, history
<1>6. CASE SkipDisabled \/ SendTo \/ CopyAllocFails \/ EndRound \/ CreateFails
  BY <1>6 DEF SkipDisabled, SendTo, CopyAllocFails, EndRound, CreateFails,
              Advance, mainVars, history
<1>7. ASSUME NEW f \in left, CopyField(f) PROVE UNCHANGED <<wd, due, thread>>
  BY <1>7 DEF CopyField, mainVars, history
<1>8. ASSUME NEW t \in Threads, CreateThread(t) PROVE Abstract!Next
  <2>1. thread'[t] = [svc |-> sitr, data |-> copy]
    BY <1>8 DEF CreateThread, TypeOK
  <2>2. sitr \in Services
    BY <1>8 DEF CreateThread, CopyDone, InList
  <2>3. \A f \in Fields :
          /\ due[f] <= copy[f] /\ copy[f] <= wd[f]
          /\ \A u \in Threads : thread[u].data[f] <= copy[f]
    BY <1>8 DEF CreateThread, CopyDone, Fresh, CopiedSoFar
  <2>4. /\ thread[t] = Idle
        /\ thread' = [thread EXCEPT ![t] = thread'[t]]
        /\ UNCHANGED <<wd, due>>
    BY <1>8, <2>1 DEF CreateThread, Advance, mainVars
  <2>5. Abstract!Send(t)
    BY <2>1, <2>2, <2>3, <2>4 DEF Abstract!Send, Abstract!NoNewer
  <2> QED
    BY <2>5 DEF Abstract!Next
<1>9. ASSUME NEW t \in Threads, Finish(t) PROVE Abstract!Next
  BY <1>9 DEF Finish, Abstract!Next, Abstract!Deliver, mainVars, history
<1>10. CASE UNCHANGED vars
  BY <1>10 DEF vars, mainVars, history
<1> QED
  BY <1>1, <1>2, <1>3, <1>4, <1>5, <1>6, <1>7, <1>8, <1>9, <1>10
  DEF Next, MainNext, PubNext, PubWork, ReceiveIgnored, CondWake, SpuriousWake

\* The hand-off implements the broadcast: what the services get is all that
\* Broadcast promises, for any number of them and any interleaving.
THEOREM Implements == Spec => ImplementsBroadcast
<1>1. Spec => Abstract!Init
  BY AbstractInit DEF Spec
<1>2. Spec => [][Abstract!Next]_(Abstract!bvars)
  BY AbstractStep, TypeAndList, FreshAlways, PTL DEF Spec
<1> QED
  BY <1>1, <1>2, PTL DEF ImplementsBroadcast, Abstract!Spec
=============================================================================
