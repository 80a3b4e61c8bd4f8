------------------------------- MODULE HandleTree -------------------------------
(***************************************************************************)
(* An application that reaches the hardware through the entry points of    *)
(* cApiWrapper.cpp: it opens a session, asks each handle it holds for the  *)
(* handles below it, uses them and closes the session again.  Handles      *)
(* count by their kinds only.                                              *)
(*                                                                         *)
(* One call at a time: what concurrent calls do to the loader is the       *)
(* matter of CApiWrapper.  Calls that fail change nothing and are left     *)
(* out.                                                                    *)
(*                                                                         *)
(* A definition that stands just above another one with the same           *)
(* parameters is a faulty variant of it, used nowhere in the model.        *)
(***************************************************************************)
EXTENDS ControlApi

CONSTANT Outs     \* the kinds of handles the application's language has out parameters for

ASSUME OutsAssumption == Outs \subseteq HandleKinds

VARIABLES
    session,      \* is the session open?
    held          \* the kinds of which the application holds a handle

vars == <<session, held>>

TypeOK ==
    /\ session \in BOOLEAN
    /\ held \subseteq Outs
    /\ ~ session => held = {}

Init == session = FALSE /\ held = {}

-------------------------------------------------------------------------------
\* What a call gives out and the application has an out parameter for.
Delivered(kinds) == kinds \cap Outs

\* ctlInit; a null phAPIHandle or one the language cannot make leaves the handle behind.
Open ==
    /\ ~ session
    /\ session' = TRUE
    /\ held' = Delivered({"api"})

\* ctlClose; every handle of the session is void, and the application drops them all.
KeepsHandles == held \ {"api"}
HeldAfterClose == {}

Close ==
    /\ "api" \in held
    /\ session' = FALSE
    /\ held' = HeldAfterClose

Holds(kinds) == kinds \subseteq held

\* A call of f, directly or through its helper.
Forward(f) ==
    /\ Holds(f.takes)
    /\ held' = held \cup Delivered(f.gives)
    /\ UNCHANGED session

Next == Open \/ Close \/ \E f \in EntryPoints : Forward(f)

Spec == Init /\ [][Next]_vars

\* A call that brings the application a handle it does not hold yet.
Discover == (\E f \in Givers : Forward(f)) /\ held' # held

\* The application opens a session that it does not close until it has tried
\* every call for handles: that is its plan, the code does not make it follow it.
Fairness ==
    /\ WF_vars(Open)
    /\ WF_vars(Discover)
    /\ <>[][~ Close]_vars

FairSpec == Spec /\ Fairness
-------------------------------------------------------------------------------
\* Every entry point can be called with handles of the running session: what it
\* takes is given out by others that can be called, up to the handle of ctlInit.
EveryEntryPointReached == \A kinds \in {f.takes : f \in EntryPoints} : <>Holds(kinds)

\* "tiny wrappers that avoid double-pointer gymnastics from C#" (IGCLWrapper.i:147):
\* each helper can be called.
EveryHelperReached == \A n \in DOMAIN HelperOf : <>Holds(Named[HelperOf[n]].takes)
===============================================================================
