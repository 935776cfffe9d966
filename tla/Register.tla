------------------------------ MODULE Register ------------------------------
(***************************************************************************)
(* What the list of towers and its copies promise, with no cells, lists or *)
(* walks in it: a register of sensors that is only ever added to, whose    *)
(* highest temperatures only rise, and messages to the services.  A        *)
(* message has every sensor that was registered when it was asked for,     *)
(* once, with a highest temperature it has or had.  Its entries are in the *)
(* order they were copied in, which is from the newest sensor to the       *)
(* oldest; as each is put at the head of the copy, the service finds the   *)
(* oldest first.  What is asked for before the register is closed may be   *)
(* sent after it, and of that nothing is promised.  A message never        *)
(* changes while it is under way.                                          *)
(***************************************************************************)
EXTENDS Integers, Sequences

CONSTANTS Sensors, Highs, NoHigh, Threads

VARIABLES register,   \* the sensors in the order they came, each with its highest
          asked,      \* number of sensors in the message asked for, or Nothing
          outgoing,   \* each thread's message, as the set of it, or {}
          closed

rvars == <<register, asked, outgoing, closed>>

Nothing == -1

Init == /\ register = <<>>
        /\ asked = Nothing
        /\ outgoing = [t \in Threads |-> {}]
        /\ closed = FALSE

Enter(s) ==
    /\ ~closed
    /\ \A i \in 1 .. Len(register) : register[i].id # s
    /\ register' = Append(register, [id |-> s, high |-> NoHigh])
    /\ UNCHANGED <<asked, outgoing, closed>>

Raise(i, h) ==
    /\ h > register[i].high
    /\ register' = [register EXCEPT ![i].high = h]
    /\ UNCHANGED <<asked, outgoing, closed>>

Close ==
    /\ ~closed
    /\ closed' = TRUE
    /\ register' = <<>>
    /\ UNCHANGED <<asked, outgoing>>

Ask ==
    /\ asked = Nothing
    /\ asked' = Len(register)
    /\ UNCHANGED <<register, outgoing, closed>>

\* The first n sensors of the register, copied from the newest to the oldest.
Faithful(m, n) ==
    \A j \in 1 .. n : /\ m[j].id = register[n + 1 - j].id
                      /\ m[j].high <= register[n + 1 - j].high

\* A free thread is given what was asked for.
Send(t) ==
    /\ asked # Nothing /\ outgoing[t] = {}
    /\ \E m \in outgoing'[t] :
        /\ Len(m) = asked
        /\ ~closed => asked <= Len(register) /\ Faithful(m, asked)
        /\ outgoing' = [outgoing EXCEPT ![t] = {m}]
    /\ asked' = Nothing
    /\ UNCHANGED <<register, closed>>

\* No thread can be had.
Withdraw ==
    /\ asked # Nothing
    /\ asked' = Nothing
    /\ UNCHANGED <<register, outgoing, closed>>

Deliver(t) ==
    /\ outgoing[t] # {}
    /\ outgoing' = [outgoing EXCEPT ![t] = {}]
    /\ UNCHANGED <<register, asked, closed>>

Next ==
    \/ \E s \in Sensors : Enter(s)
    \/ \E i \in 1 .. Len(register), h \in Highs : Raise(i, h)
    \/ Close \/ Ask \/ Withdraw
    \/ \E t \in Threads : Send(t) \/ Deliver(t)

Spec == Init /\ [][Next]_rvars
=============================================================================
