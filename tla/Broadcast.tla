----------------------------- MODULE Broadcast -----------------------------
(***************************************************************************)
(* What the hand-off from wfpublish's main thread to its services promises,*)
(* with no threads, locks or signals in it: a record of versioned fields   *)
(* that only get newer, a mark set now and then ("asked": publish what is  *)
(* in the record by now), and messages to the services.  A message is not  *)
(* an instant of the record.  It promises less: no field of it is older    *)
(* than the record at the mark or than any message still under way, and    *)
(* none is newer than the record.                                          *)
(***************************************************************************)
EXTENDS Naturals

CONSTANTS Services, Fields, Threads, None

VARIABLES record,     \* the version of each field
          asked,      \* the record when it was last asked to be published
          outgoing    \* each thread's message, or None

bvars == <<record, asked, outgoing>>

Init == /\ record = [f \in Fields |-> 0]
        /\ asked = record
        /\ outgoing = [t \in Threads |-> None]

\* c is nowhere newer than d.
NoNewer(c, d) == \A f \in Fields : c[f] <= d[f]

Write == /\ DOMAIN record' = Fields
         /\ NoNewer(record, record')
         /\ UNCHANGED <<asked, outgoing>>

Ask == /\ asked' = record
       /\ UNCHANGED <<record, outgoing>>

\* A free thread is given a message; its data is whatever the promise allows.
Send(t) ==
    /\ outgoing[t] = None
    /\ outgoing'[t].svc \in Services
    /\ LET c == outgoing'[t].data
       IN  /\ NoNewer(asked, c)
           /\ NoNewer(c, record)
           /\ \A u \in Threads \ {t} :
                 outgoing[u] # None => NoNewer(outgoing[u].data, c)
    /\ outgoing' = [outgoing EXCEPT ![t] = outgoing'[t]]
    /\ UNCHANGED <<record, asked>>

Deliver(t) ==
    /\ outgoing[t] # None
    /\ outgoing' = [outgoing EXCEPT ![t] = None]
    /\ UNCHANGED <<record, asked>>

Next == Write \/ Ask \/ \E t \in Threads : Send(t) \/ Deliver(t)

Spec == Init /\ [][Next]_bvars
=============================================================================
