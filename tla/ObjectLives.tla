------------------------------ MODULE ObjectLives ------------------------------
(***************************************************************************)
(* What the C# proxies promise a careful application about the objects of  *)
(* the native heap: what it can still get at, and what a native call works *)
(* on, is there; what it has given up never comes back and is freed under  *)
(* nobody's hands.                                                         *)
(***************************************************************************)
CONSTANTS Threads, Objects

VARIABLES
    alive,        \* the objects that are allocated
    reachable,    \* those through which the application can still start a call
    inUse         \* inUse[t]: those that t's native call works on

lvars == <<alive, reachable, inUse>>

Init ==
    /\ alive = {}
    /\ reachable = {}
    /\ inUse = [t \in Threads |-> {}]

Working(t, S) == inUse' = [inUse EXCEPT ![t] = S]

InOthersUse(t) == UNION {inUse[u] : u \in Threads \ {t}}

\* The application gives objects up; it may do so with any step of its own.
GiveUp == reachable' \in SUBSET reachable

Call(t, S) ==
    /\ inUse[t] = {}
    /\ S \subseteq reachable
    /\ Working(t, S)
    /\ GiveUp
    /\ UNCHANGED alive

Return(t) == Working(t, {}) /\ GiveUp /\ UNCHANGED alive

\* The call returns a new object.
Create(t, o) ==
    /\ o \notin alive
    /\ alive' = alive \cup {o}
    /\ reachable' = reachable \cup {o}
    /\ Working(t, {})

\* The call deletes what it was given: the application has given it up, and no
\* other call works on it.
Delete(t) ==
    /\ inUse[t] \cap (reachable \cup InOthersUse(t)) = {}
    /\ alive' = alive \ inUse[t]
    /\ Working(t, {})
    /\ UNCHANGED reachable

\* An object is deleted with its owner.
Reclaim(o) ==
    /\ o \in alive
    /\ o \notin reachable \cup UNION {inUse[t] : t \in Threads}
    /\ alive' = alive \ {o}
    /\ UNCHANGED <<reachable, inUse>>

Next ==
    \/ \E t \in Threads :
        \/ \E S \in SUBSET Objects : Call(t, S)
        \/ Return(t)
        \/ \E o \in Objects : Create(t, o)
        \/ Delete(t)
    \/ \E o \in Objects : Reclaim(o)
    \/ GiveUp /\ UNCHANGED <<alive, inUse>>

Spec == Init /\ [][Next]_lvars

\* What the application can get at, and what a call works on, is there.
UsedExists ==
    /\ reachable \subseteq alive
    /\ inUse \in [Threads -> SUBSET alive]
===============================================================================
