---------------------------- MODULE ExceptionSlots ----------------------------
(***************************************************************************)
(* What the exception bridge of the bindings promises: every thread has a  *)
(* slot of its own, and the exception that native code puts there is the   *)
(* one, and the only one, that the thread's call throws.                   *)
(***************************************************************************)
CONSTANTS Threads, Exceptions, None

VARIABLES
    slot,      \* slot[t]: the exception that t's call will throw, or None
    outcome    \* outcome[t]: what t's latest call threw, None if it returned

vars == <<slot, outcome>>

Init ==
    /\ slot = [t \in Threads |-> None]
    /\ outcome = [t \in Threads |-> None]

Raise(t, x) ==
    /\ slot[t] = None
    /\ slot' = [slot EXCEPT ![t] = x]
    /\ UNCHANGED outcome

\* The call ends: it throws what the slot holds, or returns if it is empty.
End(t) ==
    /\ outcome' = [outcome EXCEPT ![t] = slot[t]]
    /\ slot' = [slot EXCEPT ![t] = None]

Next == \E t \in Threads : (\E x \in Exceptions : Raise(t, x)) \/ End(t)

Spec == Init /\ [][Next]_vars
===============================================================================
