------------------------------ MODULE Printer ------------------------------
(***************************************************************************)
(* What send_to_terminal promises to threads that use it as they like.     *)
(*                                                                         *)
(* The messages of a thread go out in the order of its calls, each at most *)
(* once, and every call comes back.  A call that has the printer to itself *)
(* comes back when its message is out and its buffer is free again.  A     *)
(* call that clashes, with another call or with a transfer that an earlier *)
(* one has left behind, may come back at any time, its message lost or     *)
(* still on the way.  Nothing here names a flag or an interrupt.           *)
(***************************************************************************)
EXTENDS Naturals

CONSTANT Threads

VARIABLES asked,      \* messages each thread has handed over
          shown,      \* the last message of each thread that has gone out
          answered,   \* calls of each thread that have come back
          printer,    \* free, printing, printed (the last byte is leaving)
          clash       \* the thread's last call did not have it to itself

vars == <<asked, shown, answered, printer, clash>>

Init ==
    /\ asked = [t \in Threads |-> 0]
    /\ shown = [t \in Threads |-> 0]
    /\ answered = [t \in Threads |-> 0]
    /\ printer = "free"
    /\ clash = [t \in Threads |-> FALSE]

Waits(t) == answered[t] # asked[t]

Ask(t) ==
    /\ ~Waits(t)
    /\ asked' = [asked EXCEPT ![t] = @ + 1]
    /\ clash' = [u \in Threads |->
                   IF u = t THEN printer # "free" \/ \E v \in Threads : Waits(v)
                   ELSE clash[u] \/ Waits(u)]
    /\ UNCHANGED <<shown, answered, printer>>

Take(t) ==
    /\ Waits(t) /\ shown[t] < asked[t]
    /\ printer # "printing"
    /\ printer' = "printing"
    /\ UNCHANGED <<asked, shown, answered, clash>>

\* Message m of t is out: a later one than the last, and t's newest one
\* unless t was let go too early.
Show(t, m) ==
    /\ printer = "printing"
    /\ shown[t] < m /\ m <= asked[t]
    /\ m = asked[t] \/ clash[t]
    /\ shown' = [shown EXCEPT ![t] = m]
    /\ printer' = "printed"
    /\ UNCHANGED <<asked, answered, clash>>

Finish ==
    /\ printer = "printed"
    /\ printer' = "free"
    /\ UNCHANGED <<asked, shown, answered, clash>>

Answer(t) ==
    /\ Waits(t)
    /\ clash[t] \/ (shown[t] = asked[t] /\ printer = "free")
    /\ answered' = [answered EXCEPT ![t] = @ + 1]
    /\ UNCHANGED <<asked, shown, printer, clash>>

Emit == Finish \/ \E t \in Threads : \E m \in 1 .. asked[t] : Show(t, m)

Next ==
    \/ \E t \in Threads : Ask(t) \/ Take(t) \/ Answer(t)
    \/ Emit

Spec == Init /\ [][Next]_vars

FairSpec ==
    /\ Spec
    /\ WF_vars(Emit)
    /\ \A t \in Threads : WF_vars(Take(t) \/ Answer(t))
=============================================================================
