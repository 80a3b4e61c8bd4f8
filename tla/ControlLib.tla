------------------------------ MODULE ControlLib ------------------------------
(***************************************************************************)
(* What cApiWrapper.cpp calls and does not implement: the operating        *)
(* system's loader (LoadLibraryExW, FreeLibrary, GetProcAddress) and the   *)
(* Intel runtime behind ControlLib.dll, reduced to its open sessions.      *)
(* Neither is under src/; both are modelled from how the wrapper uses them *)
(* and from the result codes declared in igcl_api.h.                       *)
(***************************************************************************)
EXTENDS Naturals

CONSTANTS
    Libs,      \* the runtime DLLs a path can name
    NoLib,     \* a NULL module handle, or no path
    Handles,   \* the API handles the runtimes can give out
    Exports,   \* Exports[l]: the entry points that DLL l exports
    MaxLoads   \* bound on the loader's reference count of one DLL

VARIABLES
    loads,     \* loads[l]: the loader's reference count of DLL l
    open       \* open[l]: the sessions open in the runtime of DLL l

libVars == <<loads, open>>

EntryPoints == {"ctlInit", "ctlClose", "ctlSetRuntimePath", "forwarded"}

ASSUME LibAssumption ==
    /\ NoLib \notin Libs
    /\ Exports \in [Libs -> SUBSET EntryPoints]
    /\ MaxLoads \in Nat \ {0}

LibTypeOK ==
    /\ loads \in [Libs -> 0..MaxLoads]
    /\ open \in [Libs -> SUBSET Handles]

LibInit ==
    /\ loads = [l \in Libs |-> 0]
    /\ open = [l \in Libs |-> {}]

Mapped(l) == l \in Libs /\ loads[l] > 0

\* GetProcAddress: NULL for an absent export, and for a module no longer mapped.
HasExport(l, f) == Mapped(l) /\ f \in Exports[l]

LoadLibrary(l) ==
    /\ l \in Libs
    /\ loads[l] < MaxLoads
    /\ loads' = [loads EXCEPT ![l] = @ + 1]
    /\ UNCHANGED open

\* Releasing the last reference unmaps the runtime and its sessions with it;
\* a module that is not mapped is refused without effect.
FreeLibrary(l) ==
    IF Mapped(l)
    THEN /\ loads' = [loads EXCEPT ![l] = @ - 1]
         /\ open' = IF loads[l] = 1 THEN [open EXCEPT ![l] = {}] ELSE open
    ELSE UNCHANGED libVars

OpenSession(l, h) ==
    /\ \A m \in Libs : h \notin open[m]
    /\ open' = [open EXCEPT ![l] = @ \cup {h}]
    /\ UNCHANGED loads

CloseSession(l, h) ==
    /\ h \in open[l]
    /\ open' = [open EXCEPT ![l] = @ \ {h}]
    /\ UNCHANGED loads

\* SUCCESS_STILL_OPEN_BY_ANOTHER_CALLER while another session remains.
CloseResult(l, h) == IF open[l] = {h} THEN "SUCCESS" ELSE "STILL_OPEN"
===============================================================================
