----------------------------- MODULE ApiSessions -----------------------------
(***************************************************************************)
(* What the wrapper promises an application, without saying how: at most   *)
(* one runtime is mapped; sessions are opened in it and closed; threads    *)
(* execute inside it only while it is mapped; and it is unmapped only when *)
(* no session is open and no thread is inside.                             *)
(***************************************************************************)
CONSTANTS Threads, Libs, NoLib, Handles

VARIABLES
    mapped,   \* the set of mapped runtimes
    open,     \* open[l]: the sessions open in runtime l
    inside    \* inside[t]: the runtime thread t is executing in, or NoLib

avars == <<mapped, open, inside>>

Init ==
    /\ mapped = {}
    /\ open = [l \in Libs |-> {}]
    /\ inside = [t \in Threads |-> NoLib]

Map(l) ==
    /\ mapped = {}
    /\ mapped' = {l}
    /\ UNCHANGED <<open, inside>>

Open(l, h) ==
    /\ l \in mapped
    /\ open' = [open EXCEPT ![l] = @ \cup {h}]
    /\ UNCHANGED <<mapped, inside>>

Close(l, h) ==
    /\ l \in mapped
    /\ h \in open[l]
    /\ open' = [open EXCEPT ![l] = @ \ {h}]
    /\ UNCHANGED <<mapped, inside>>

Enter(t, l) ==
    /\ l \in mapped
    /\ open[l] # {}
    /\ inside[t] = NoLib
    /\ inside' = [inside EXCEPT ![t] = l]
    /\ UNCHANGED <<mapped, open>>

Leave(t) ==
    /\ inside[t] \in mapped
    /\ inside' = [inside EXCEPT ![t] = NoLib]
    /\ UNCHANGED <<mapped, open>>

Unmap(l) ==
    /\ l \in mapped
    /\ open[l] = {}
    /\ \A t \in Threads : inside[t] = NoLib
    /\ mapped' = {}
    /\ UNCHANGED <<open, inside>>

Next ==
    \/ \E l \in Libs : Map(l) \/ Unmap(l)
    \/ \E l \in Libs, h \in Handles : Open(l, h) \/ Close(l, h)
    \/ \E t \in Threads : Leave(t) \/ \E l \in Libs : Enter(t, l)

Spec == Init /\ [][Next]_avars

\* There is one runtime at most; every open session and every thread that executes
\* inside a runtime is in that one.
OneRuntime ==
    /\ mapped \subseteq Libs
    /\ \A k, l \in mapped : k = l
    /\ open \in [Libs -> SUBSET Handles]
    /\ \A l \in Libs : open[l] # {} => l \in mapped
    /\ inside \in [Threads -> mapped \cup {NoLib}]
===============================================================================
