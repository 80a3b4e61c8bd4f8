----------------------------- MODULE CApiWrapper -----------------------------
(***************************************************************************)
(* drivers.gpu.control-library/Source/cApiWrapper.cpp: the static library  *)
(* handle hinstLib, the static pRuntimeArgs, and the entry points that     *)
(* read and write them.  ctlInit, ctlClose and ctlSetRuntimePath have code *)
(* of their own; the other 125 entry points are one forwarder repeated     *)
(* (CallForward, ForwardProc, ForwardCall, ForwardReturn).                 *)
(*                                                                         *)
(* The file takes no lock, so every read or write of a static, and every   *)
(* call into the loader or the runtime, is a step of its own.  Where the   *)
(* source reads a static twice the build may load it once: the later use   *)
(* takes either value.                                                     *)
(*                                                                         *)
(* A definition that stands just above another one with the same           *)
(* parameters is a faulty variant of it, used nowhere in the model: it     *)
(* shows which property notices that fault.                                *)
(***************************************************************************)
EXTENDS ControlLib

CONSTANTS
    Threads,              \* the threads of the application
    RuntimeArgs,          \* the ctl_runtime_path_args_t objects it allocates
    NoArgs,               \* a NULL ctl_runtime_path_args_t pointer
    PathOf,               \* PathOf[a]: the DLL a's pRuntimePath names, or NoLib
    DefaultLib,           \* ControlLib.dll
    PassNull,             \* may the application pass null pointers?
    Serialised,           \* does it serialise ctlInit, ctlClose, ctlSetRuntimePath?
    FreeAfterFailedInit   \* does it free path arguments after any ctlInit call,
                          \* or only after a successful one and after ctlClose?

ASSUME WrapperAssumption ==
    /\ NoArgs \notin RuntimeArgs
    /\ PathOf \in [RuntimeArgs -> Libs \cup {NoLib}]
    /\ DefaultLib \in Libs
    /\ {PassNull, Serialised, FreeAfterFailedInit} \subseteq BOOLEAN

VARIABLES
    hinstLib,      \* static: the loaded library, or NoLib
    pRuntimeArgs,  \* static: the stored path arguments, or NoArgs
    pc,            \* pc[t]: the next step of thread t, "idle" outside a call
    hinstLibPtr,   \* pc's local: the library handle the call has read
    dll,           \* ctlInit's local: the requested, then the loaded, library
    pInitDesc,     \* ctlInit's argument, "none" outside ctlInit
    arg,           \* the handle or the path arguments the call works on
    result,        \* the result of the call, kept after it returns
    held,          \* the handles ctlInit delivered that nobody has closed yet
    live,          \* the path arguments the application has allocated
    mayFree,       \* those of them it believes it may free
    fault          \* "none", or what an access violation was about

wrapperVars == <<hinstLib, pRuntimeArgs>>
localVars   == <<hinstLibPtr, dll, pInitDesc, arg>>
clientVars  == <<held, live, mayFree>>
vars == <<libVars, wrapperVars, pc, localVars, result, clientVars, fault>>

\* ctl_init_args_t, as far as ctlInit tells them apart: AppVersion with a major
\* version the wrapper implements, a newer one, or a null pointer.
Descs == {"supported", "newer"} \cup (IF PassNull THEN {"null"} ELSE {})

Results == {"SUCCESS", "STILL_OPEN", "NOT_INITIALIZED", "ERROR_LOAD",
            "UNSUPPORTED_VERSION", "OUT_OF_DEVICE_MEMORY", "RUNTIME_ERROR"}

PathSteps    == {"path", "pathArgs", "copyTest", "copy"}
InitSteps    == {"alloc", "load", "store", "loaded", "initTestArgs", "initSetPath",
                 "initSetGet", "initGet", "initProc", "initCall"} \cup PathSteps
CloseSteps   == {"closeProc", "closeCall", "closeTest", "closeFree", "closeClear",
                 "closeDrop"}
SetSteps     == {"setProc", "setCall", "setStore"}
ControlSteps == InitSteps \cup CloseSteps \cup SetSteps
ForwardSteps == {"forwardProc", "forwardCall", "inside"}
Steps        == {"idle"} \cup ControlSteps \cup ForwardSteps

TypeOK ==
    /\ LibTypeOK
    /\ hinstLib \in Libs \cup {NoLib}
    /\ pRuntimeArgs \in RuntimeArgs \cup {NoArgs}
    /\ pc \in [Threads -> Steps]
    /\ hinstLibPtr \in [Threads -> Libs \cup {NoLib}]
    /\ dll \in [Threads -> Libs \cup {NoLib}]
    /\ pInitDesc \in [Threads -> Descs \cup {"none"}]
    /\ arg \in [Threads -> Handles \cup RuntimeArgs \cup {NoArgs}]
    /\ result \in [Threads -> Results]
    /\ held \subseteq Handles
    /\ live \subseteq RuntimeArgs
    /\ mayFree \subseteq live
    /\ \A t \in Threads : pc[t] = "load" => dll[t] \in Libs
    /\ fault \in {"none", "null_pointer", "freed_arguments", "unmapped_code"}

Init ==
    /\ LibInit
    /\ hinstLib = NoLib
    /\ pRuntimeArgs = NoArgs
    /\ pc = [t \in Threads |-> "idle"]
    /\ hinstLibPtr = [t \in Threads |-> NoLib]
    /\ dll = [t \in Threads |-> NoLib]
    /\ pInitDesc = [t \in Threads |-> "none"]
    /\ arg = [t \in Threads |-> NoArgs]
    /\ result = [t \in Threads |-> "NOT_INITIALIZED"]
    /\ held = {}
    /\ live = {}
    /\ mayFree = {}
    /\ fault = "none"

-------------------------------------------------------------------------------
At(t, step) == fault = "none" /\ pc[t] = step

Goto(t, step) ==
    /\ pc' = [pc EXCEPT ![t] = step]
    /\ UNCHANGED fault

\* The locals end with the call; its result stays with the caller.
Return(t, r) ==
    /\ Goto(t, "idle")
    /\ result' = [result EXCEPT ![t] = r]
    /\ hinstLibPtr' = [hinstLibPtr EXCEPT ![t] = NoLib]
    /\ dll' = [dll EXCEPT ![t] = NoLib]
    /\ pInitDesc' = [pInitDesc EXCEPT ![t] = "none"]
    /\ arg' = [arg EXCEPT ![t] = NoArgs]

\* An access violation ends the process.
Crash(why) ==
    /\ fault' = why
    /\ UNCHANGED <<libVars, wrapperVars, pc, localVars, result, clientVars>>

\* Nothing changes that another thread could see.
Private == UNCHANGED <<libVars, wrapperVars, clientVars>>

MayControl(t) ==
    /\ At(t, "idle")
    /\ Serialised => \A u \in Threads : pc[u] \notin ControlSteps

\* The path arguments that no ctlSetRuntimePath call of the application is
\* still using.
Settled ==
    {a \in live : \A t \in Threads :
        pc[t] \in SetSteps /\ pInitDesc[t] = "none" => arg[t] # a}

\* Every entry point starts from this result and keeps it when it finds no
\* library or no entry point.
Unanswered == "NOT_INITIALIZED"

InitReturn(t, r) ==
    /\ Return(t, r)
    /\ mayFree' = IF r = "SUCCESS" \/ FreeAfterFailedInit THEN Settled ELSE mayFree
    /\ UNCHANGED live

-------------------------------------------------------------------------------
(* ctlInit *)

AlwaysLoads == TRUE
NothingLoaded == hinstLib = NoLib

CallInit(t, desc) ==
    /\ MayControl(t)
    /\ pInitDesc' = [pInitDesc EXCEPT ![t] = desc]
    /\ result' = [result EXCEPT ![t] = Unanswered]
    /\ hinstLibPtr' = [hinstLibPtr EXCEPT ![t] = hinstLib]
    /\ Goto(t, IF NothingLoaded THEN "alloc" ELSE "initGet")
    /\ UNCHANGED <<libVars, wrapperVars, dll, arg, clientVars>>

InitAlloc(t) ==
    /\ At(t, "alloc")
    /\ \/ /\ Goto(t, "path")
          /\ UNCHANGED <<localVars, result, live, mayFree>>
       \/ InitReturn(t, "OUT_OF_DEVICE_MEMORY")
    /\ UNCHANGED <<libVars, wrapperVars, held>>

\* ctlInit loads a library only if GetControlAPIDLLPath named one.
IgnoresPathResult(r) == "load"
AfterPath(r) == IF r = "SUCCESS" THEN "load" ELSE "initGet"

PathResult(t, r, lib) ==
    /\ Goto(t, AfterPath(r))
    /\ result' = [result EXCEPT ![t] = r]
    /\ dll' = [dll EXCEPT ![t] = lib]
    /\ Private /\ UNCHANGED <<hinstLibPtr, pInitDesc, arg>>

DefaultPath(t) ==
    IF pInitDesc[t] = "null" THEN Crash("null_pointer")
    ELSE IF pInitDesc[t] = "newer" THEN PathResult(t, "UNSUPPORTED_VERSION", NoLib)
    ELSE PathResult(t, "SUCCESS", DefaultLib)

\* What a further read of pRuntimeArgs, or of hinstLib, may yield.
ReadArgsAgain(t) == {arg[t], pRuntimeArgs}
ReadLibAgain(t) == {hinstLibPtr[t], hinstLib}

KeepReading(t, a, step) ==
    /\ Goto(t, step)
    /\ arg' = [arg EXCEPT ![t] = a]
    /\ Private /\ UNCHANGED <<hinstLibPtr, dll, pInitDesc, result>>

BadArgs(a) == Crash(IF a = NoArgs THEN "null_pointer" ELSE "freed_arguments")

\* GetControlAPIDLLPath reads pRuntimeArgs up to four times: to test it,
InitPath(t) ==
    /\ At(t, "path")
    /\ IF pRuntimeArgs = NoArgs THEN DefaultPath(t)
       ELSE KeepReading(t, pRuntimeArgs, "pathArgs")

\* to test that the arguments carry no path,
InitPathArgs(t) ==
    /\ At(t, "pathArgs")
    /\ \E a \in ReadArgsAgain(t) :
           IF a \notin live THEN BadArgs(a)
           ELSE IF PathOf[a] = NoLib THEN DefaultPath(t)
           ELSE KeepReading(t, a, "copyTest")

\* to test that they carry one (StoredPathExists: they do),
InitCopyTest(t) ==
    /\ At(t, "copyTest")
    /\ \E a \in ReadArgsAgain(t) :
           IF a \notin live THEN BadArgs(a) ELSE KeepReading(t, a, "copy")

\* and to copy it.
InitCopy(t) ==
    /\ At(t, "copy")
    /\ \E a \in ReadArgsAgain(t) :
           IF a \notin live THEN BadArgs(a) ELSE PathResult(t, "SUCCESS", PathOf[a])

InitLoad(t) ==
    /\ At(t, "load")
    /\ Goto(t, "store")
    /\ \/ /\ LoadLibrary(dll[t])
          /\ UNCHANGED dll
       \/ /\ dll' = [dll EXCEPT ![t] = NoLib]
          /\ UNCHANGED libVars
    /\ UNCHANGED <<wrapperVars, hinstLibPtr, pInitDesc, arg, result, clientVars>>

InitStore(t) ==
    /\ At(t, "store")
    /\ Goto(t, "loaded")
    /\ hinstLib' = dll[t]
    /\ UNCHANGED <<libVars, pRuntimeArgs, localVars, result, clientVars>>

KeepsResult(t, l) == result[t]
LoadResult(t, l) == IF l = NoLib THEN "ERROR_LOAD" ELSE result[t]

\* The library it has just stored or, read again, the one stored now.
InitLoaded(t) ==
    /\ At(t, "loaded")
    /\ \E l \in {dll[t], hinstLib} :
           /\ Goto(t, IF l = NoLib THEN "initGet" ELSE "initTestArgs")
           /\ result' = [result EXCEPT ![t] = LoadResult(t, l)]
           /\ hinstLibPtr' = [hinstLibPtr EXCEPT ![t] = l]
    /\ Private /\ UNCHANGED <<dll, pInitDesc, arg>>

InitTestArgs(t) ==
    /\ At(t, "initTestArgs")
    /\ KeepReading(t, pRuntimeArgs, IF pRuntimeArgs = NoArgs THEN "initGet" ELSE "initSetPath")

InitSetPath(t) ==
    /\ At(t, "initSetPath")
    /\ \E a \in ReadArgsAgain(t) : KeepReading(t, a, "initSetGet")

AlwaysStores(l) == TRUE
StoresPath(l) == l = NoLib

\* The nested ctlSetRuntimePath(pRuntimeArgs) goes on with SetProc or SetStore
\* and comes back to InitGet.
InitSetGet(t) ==
    /\ At(t, "initSetGet")
    /\ \E l \in ReadLibAgain(t) :
           /\ hinstLibPtr' = [hinstLibPtr EXCEPT ![t] = l]
           /\ Goto(t, IF StoresPath(l) THEN "setStore" ELSE "setProc")
    /\ Private /\ UNCHANGED <<dll, pInitDesc, arg, result>>

InitGet(t) ==
    /\ At(t, "initGet")
    /\ \E l \in ReadLibAgain(t) :
           IF l = NoLib
           THEN InitReturn(t, result[t])
           ELSE /\ Goto(t, "initProc")
                /\ hinstLibPtr' = [hinstLibPtr EXCEPT ![t] = l]
                /\ UNCHANGED <<dll, pInitDesc, arg, result, live, mayFree>>
    /\ UNCHANGED <<libVars, wrapperVars, held>>

InitProc(t) ==
    /\ At(t, "initProc")
    /\ IF HasExport(hinstLibPtr[t], "ctlInit")
       THEN Goto(t, "initCall") /\ UNCHANGED <<localVars, result, live, mayFree>>
       ELSE InitReturn(t, result[t])
    /\ UNCHANGED <<libVars, wrapperVars, held>>

InitCall(t) ==
    /\ At(t, "initCall")
    /\ IF ~ Mapped(hinstLibPtr[t])
       THEN Crash("unmapped_code")
       ELSE /\ \/ \E h \in Handles :
                    /\ pInitDesc[t] # "null"
                    /\ OpenSession(hinstLibPtr[t], h)
                    /\ held' = held \cup {h}
                    /\ InitReturn(t, "SUCCESS")
               \/ /\ InitReturn(t, "RUNTIME_ERROR")
                  /\ UNCHANGED <<libVars, held>>
            /\ UNCHANGED wrapperVars

-------------------------------------------------------------------------------
(* ctlClose *)

\* The application closes a handle once, and not under a call that uses it.
CallClose(t, h) ==
    /\ MayControl(t)
    /\ h \in held
    /\ \A u \in Threads : pc[u] \in ForwardSteps => arg[u] # h
    /\ held' = held \ {h}
    /\ arg' = [arg EXCEPT ![t] = h]
    /\ result' = [result EXCEPT ![t] = Unanswered]
    /\ hinstLibPtr' = [hinstLibPtr EXCEPT ![t] = hinstLib]
    /\ Goto(t, IF hinstLib = NoLib THEN "closeTest" ELSE "closeProc")
    /\ UNCHANGED <<libVars, wrapperVars, dll, pInitDesc, live, mayFree>>

CloseProc(t) ==
    /\ At(t, "closeProc")
    /\ Goto(t, IF HasExport(hinstLibPtr[t], "ctlClose") THEN "closeCall" ELSE "closeTest")
    /\ Private /\ UNCHANGED <<localVars, result>>

CloseCall(t) ==
    /\ At(t, "closeCall")
    /\ IF ~ Mapped(hinstLibPtr[t])
       THEN Crash("unmapped_code")
       ELSE /\ Goto(t, "closeTest")
            /\ \/ /\ CloseSession(hinstLibPtr[t], arg[t])
                  /\ result' = [result EXCEPT ![t] = CloseResult(hinstLibPtr[t], arg[t])]
               \/ /\ result' = [result EXCEPT ![t] = "RUNTIME_ERROR"]
                  /\ UNCHANGED libVars
            /\ UNCHANGED <<wrapperVars, localVars, clientVars>>

FreesWhenStillOpen(t) == result[t] \in {"SUCCESS", "STILL_OPEN"}
ClosedLast(t) == result[t] = "SUCCESS"

CloseTest(t) ==
    /\ At(t, "closeTest")
    /\ IF ClosedLast(t) /\ hinstLib # NoLib
       THEN /\ Goto(t, "closeFree")
            /\ hinstLibPtr' = [hinstLibPtr EXCEPT ![t] = hinstLib]
       ELSE Goto(t, "closeDrop") /\ UNCHANGED hinstLibPtr
    /\ Private /\ UNCHANGED <<dll, pInitDesc, arg, result>>

\* The library that was tested or, read a second time, the one stored now.
CloseFree(t) ==
    /\ At(t, "closeFree")
    /\ \E l \in {hinstLibPtr[t], hinstLib} : FreeLibrary(l)
    /\ Goto(t, "closeClear")
    /\ UNCHANGED <<wrapperVars, localVars, result, clientVars>>

KeepsLib == hinstLib
LibAfterFree == NoLib

CloseClear(t) ==
    /\ At(t, "closeClear")
    /\ hinstLib' = LibAfterFree
    /\ Goto(t, "closeDrop")
    /\ UNCHANGED <<libVars, pRuntimeArgs, localVars, result, clientVars>>

KeepsArgs == pRuntimeArgs
ArgsAfterClose == NoArgs

CloseDrop(t) ==
    /\ At(t, "closeDrop")
    /\ pRuntimeArgs' = ArgsAfterClose
    /\ Return(t, result[t])
    /\ mayFree' = Settled
    /\ UNCHANGED <<libVars, hinstLib, held, live>>

-------------------------------------------------------------------------------
(* ctlSetRuntimePath, called by the application or by ctlInit, which ignores  *)
(* its result.                                                               *)

SetReturn(t, r) ==
    IF pInitDesc[t] = "none" THEN Return(t, r)
    ELSE Goto(t, "initGet") /\ UNCHANGED <<localVars, result>>

CallSetRuntimePath(t, a) ==
    /\ MayControl(t)
    /\ arg' = [arg EXCEPT ![t] = a]
    /\ live' = live \cup ({a} \ {NoArgs})
    /\ mayFree' = mayFree \ {a}
    /\ hinstLibPtr' = [hinstLibPtr EXCEPT ![t] = hinstLib]
    /\ result' = [result EXCEPT ![t] = Unanswered]
    /\ Goto(t, IF StoresPath(hinstLib) THEN "setStore" ELSE "setProc")
    /\ UNCHANGED <<libVars, wrapperVars, dll, pInitDesc, held>>

SetProc(t) ==
    /\ At(t, "setProc")
    /\ IF HasExport(hinstLibPtr[t], "ctlSetRuntimePath")
       THEN Goto(t, "setCall") /\ UNCHANGED <<localVars, result>>
       ELSE SetReturn(t, result[t])
    /\ Private

SetCall(t) ==
    /\ At(t, "setCall")
    /\ IF ~ Mapped(hinstLibPtr[t]) THEN Crash("unmapped_code")
       ELSE IF arg[t] \notin live \cup {NoArgs} THEN Crash("freed_arguments")
       ELSE (\E r \in {"SUCCESS", "RUNTIME_ERROR"} : SetReturn(t, r)) /\ Private

AnyArgs(a) == TRUE
HasPath(a) == PathOf[a] # NoLib

SetStore(t) ==
    /\ At(t, "setStore")
    /\ IF arg[t] \notin live THEN BadArgs(arg[t])
       ELSE IF ~ HasPath(arg[t]) THEN SetReturn(t, result[t]) /\ Private
       ELSE /\ pRuntimeArgs' = arg[t]
            /\ SetReturn(t, "SUCCESS")
            /\ UNCHANGED <<libVars, hinstLib, clientVars>>

FreeArgs(a) ==
    /\ fault = "none"
    /\ a \in mayFree
    /\ live' = live \ {a}
    /\ mayFree' = mayFree \ {a}
    /\ UNCHANGED <<libVars, wrapperVars, pc, localVars, result, held, fault>>

-------------------------------------------------------------------------------
(* Every other entry point.  A session may be used by several threads at once. *)

CallForward(t, h) ==
    /\ At(t, "idle")
    /\ h \in held
    /\ IF hinstLib = NoLib
       THEN Return(t, Unanswered)
       ELSE /\ Goto(t, "forwardProc")
            /\ arg' = [arg EXCEPT ![t] = h]
            /\ hinstLibPtr' = [hinstLibPtr EXCEPT ![t] = hinstLib]
            /\ result' = [result EXCEPT ![t] = Unanswered]
            /\ UNCHANGED <<dll, pInitDesc>>
    /\ Private

ForwardProc(t) ==
    /\ At(t, "forwardProc")
    /\ IF HasExport(hinstLibPtr[t], "forwarded")
       THEN Goto(t, "forwardCall") /\ UNCHANGED <<localVars, result>>
       ELSE Return(t, result[t])
    /\ Private

ForwardCall(t) ==
    /\ At(t, "forwardCall")
    /\ IF ~ Mapped(hinstLibPtr[t])
       THEN Crash("unmapped_code")
       ELSE Goto(t, "inside") /\ Private /\ UNCHANGED <<localVars, result>>

\* The call may have blocked in the runtime, as ctlWaitForPropertyChange does.
ForwardReturn(t) ==
    /\ At(t, "inside")
    /\ IF ~ Mapped(hinstLibPtr[t])
       THEN Crash("unmapped_code")
       ELSE (\E r \in {"SUCCESS", "RUNTIME_ERROR"} : Return(t, r)) /\ Private

-------------------------------------------------------------------------------
InitStep(t) ==
    \/ InitAlloc(t) \/ InitPath(t) \/ InitPathArgs(t) \/ InitCopyTest(t) \/ InitCopy(t)
    \/ InitLoad(t) \/ InitStore(t) \/ InitLoaded(t)
    \/ InitTestArgs(t) \/ InitSetPath(t) \/ InitSetGet(t)
    \/ InitGet(t) \/ InitProc(t) \/ InitCall(t)

CloseStep(t) ==
    \/ CloseProc(t) \/ CloseCall(t) \/ CloseTest(t) \/ CloseFree(t) \/ CloseClear(t)
    \/ CloseDrop(t)

SetStep(t) == SetProc(t) \/ SetCall(t) \/ SetStore(t)

ForwardStep(t) == ForwardProc(t) \/ ForwardCall(t) \/ ForwardReturn(t)

Call(t) ==
    \/ \E desc \in Descs : CallInit(t, desc)
    \/ \E h \in Handles : CallClose(t, h) \/ CallForward(t, h)
    \/ \E a \in RuntimeArgs \cup (IF PassNull THEN {NoArgs} ELSE {}) : CallSetRuntimePath(t, a)

Next ==
    \/ \E t \in Threads : Call(t) \/ InitStep(t) \/ CloseStep(t) \/ SetStep(t) \/ ForwardStep(t)
    \/ \E a \in RuntimeArgs : FreeArgs(a)

Spec == Init /\ [][Next]_vars
-------------------------------------------------------------------------------
(* Properties *)

\* A handle that ctlInit delivered and nobody has closed is an open session of
\* the very library to which the wrapper forwards calls (ctlInit, ctlClose).
SessionServed == held # {} => hinstLib \in Libs /\ held \subseteq open[hinstLib]

\* No call dereferences a null or freed pointer or jumps into an unmapped
\* library (every forwarder; GetControlAPIDLLPath).
NoFault == fault = "none"

\* Between LoadLibraryExW and the store to hinstLib, and between FreeLibrary and
\* the store of NULL, the loader's count and hinstLib differ; nowhere else.
LoadsBalanced ==
    (\A t \in Threads : pc[t] \notin {"store", "closeClear"}) =>
        \A l \in Libs : loads[l] = IF l = hinstLib THEN 1 ELSE 0

\* While a library is loaded, stored path arguments are those that named it: a
\* path set for the next load cannot be mistaken for the loaded one
\* (ctlSetRuntimePath forwards, and does not store, once a library is loaded).
PathIsOfLoaded ==
    hinstLib \in Libs /\ pRuntimeArgs \in RuntimeArgs => PathOf[pRuntimeArgs] = hinstLib

\* While nothing is loaded the next ctlInit will dereference the stored
\* arguments: the application has not freed them (ctlClose resets hinstLib and
\* then pRuntimeArgs; no ctlInit falls between the two).
StoredArgsLive ==
    hinstLib = NoLib /\ pRuntimeArgs # NoArgs =>
        pRuntimeArgs \in live \/ \E t \in Threads : pc[t] = "closeDrop"

\* GetControlAPIDLLPath's test at line 74, which has no else branch, relies on it:
\* arguments without a path are never stored, whatever threads do.
StoredPathExists == pRuntimeArgs # NoArgs => PathOf[pRuntimeArgs] \in Libs

\* A call by a thread in an open session reaches the runtime: it never returns
\* the wrapper's own NOT_INITIALIZED and never dies (every forwarder).
ForwardServed ==
    [][\A t \in Threads : \A h \in held :
          /\ CallForward(t, h) => pc'[t] # "idle"
          /\ ForwardProc(t) => pc'[t] # "idle"
          /\ pc[t] \in ForwardSteps => fault' # "unmapped_code"]_vars

\* ctlInit returns SUCCESS exactly when it delivers a new handle.
SuccessGivesHandle ==
    [][\A t \in Threads : pc[t] \in InitSteps /\ pc'[t] = "idle" =>
          (result'[t] = "SUCCESS" <=> held' # held)]_vars

\* "if its open by another caller do not free the instance handle"
\* (cApiWrapper.cpp:194): no step unmaps a library in which a session is open.
StillOpenNotFreed == [][\A l \in Libs : open[l] # {} => loads'[l] > 0]_vars

\* "Free pArgs and pArgs->pRuntimePath only after ctlInit() call"
\* (cApiWrapper.cpp:253): arguments freed after ctlInit has returned are not read.
FreedArgsNotRead == fault # "freed_arguments"

\* igcl_api.h documents ERROR_INVALID_NULL_POINTER for a null pInitDesc
\* (ctlInit) and a null pArgs (ctlSetRuntimePath): neither is dereferenced.
NullPointerReported == fault # "null_pointer"

\* A ctlClose that returns SUCCESS leaves the wrapper as it was before the first
\* ctlInit: nothing mapped, nothing stored.
CloseResets ==
    [][\A t \in Threads : CloseDrop(t) /\ result[t] = "SUCCESS" =>
          /\ hinstLib' = NoLib
          /\ pRuntimeArgs' = NoArgs
          /\ \A l \in Libs : loads'[l] = 0]_vars

\* ctlClose forgets the stored path even when it does not succeed (line 205).  The
\* path it forgets is always that of the library it was called on: a path chosen
\* for a later load is never lost.
UnusedPathKept ==
    [][\A t \in Threads : CloseDrop(t) /\ pRuntimeArgs \in RuntimeArgs =>
          PathOf[pRuntimeArgs] = hinstLibPtr[t]]_vars

-------------------------------------------------------------------------------
(* The inductive invariant behind the safety properties. *)

ArgTyped(t) ==
    /\ pc[t] \in InitSteps => pInitDesc[t] \in Descs
    /\ pc[t] \notin InitSteps \cup SetSteps => pInitDesc[t] = "none"
    /\ pc[t] \in PathSteps \ {"path"} => arg[t] \in RuntimeArgs /\ PathOf[arg[t]] \in Libs
    /\ pc[t] \in {"initSetPath", "initSetGet"} \cup SetSteps =>
           arg[t] \in RuntimeArgs \cup {NoArgs}
    /\ pc[t] \in {"closeProc", "closeCall"} \cup ForwardSteps => arg[t] \in Handles

\* What holds however the application behaves.
TypeInv == TypeOK /\ StoredPathExists /\ \A t \in Threads : ArgTyped(t)

OneControl ==
    \A t, u \in Threads : pc[t] \in ControlSteps /\ pc[u] \in ControlSteps => t = u

InitInv(t) ==
    /\ pc[t] \in {"alloc", "load", "store"} \cup PathSteps => hinstLib = NoLib
    /\ pc[t] \in InitSteps \ {"loaded"} => hinstLibPtr[t] = hinstLib
    /\ pc[t] \in {"pathArgs", "copyTest", "copy", "initSetPath", "initSetGet"} =>
           pRuntimeArgs # NoArgs /\ arg[t] = pRuntimeArgs
    /\ pc[t] \in {"load", "store"} /\ pRuntimeArgs # NoArgs =>
           dll[t] \in {PathOf[pRuntimeArgs], NoLib}
    /\ pc[t] = "store" => \A l \in Libs : loads[l] = IF l = dll[t] THEN 1 ELSE 0
    /\ pc[t] = "loaded" => dll[t] = hinstLib
    /\ pc[t] \in {"loaded", "initTestArgs", "initSetPath", "initSetGet"} /\ pRuntimeArgs # NoArgs =>
           pRuntimeArgs \in live \ mayFree
    /\ pc[t] \in {"initTestArgs", "initSetPath", "initSetGet", "initProc", "initCall"} =>
           hinstLib \in Libs
    /\ pc[t] = "initGet" /\ result[t] = "SUCCESS" => hinstLib \in Libs

CloseInv(t) ==
    /\ pc[t] \in {"closeProc", "closeCall"} =>
           /\ hinstLib \in Libs
           /\ hinstLibPtr[t] = hinstLib
           /\ arg[t] \in open[hinstLib] \ held
           /\ result[t] # "SUCCESS"
    /\ pc[t] = "closeTest" =>
           /\ hinstLib \in Libs
           /\ hinstLibPtr[t] = hinstLib
           /\ result[t] = "SUCCESS" => open[hinstLib] = {}
    /\ pc[t] = "closeFree" =>
           hinstLib \in Libs /\ hinstLibPtr[t] = hinstLib /\ open[hinstLib] = {}
    /\ pc[t] = "closeClear" =>
           /\ hinstLib \in Libs
           /\ hinstLibPtr[t] = hinstLib
           /\ \A l \in Libs : loads[l] = 0
    /\ pc[t] = "closeDrop" /\ result[t] = "SUCCESS" => hinstLib = NoLib
    /\ pc[t] = "closeDrop" /\ pRuntimeArgs # NoArgs => PathOf[pRuntimeArgs] = hinstLibPtr[t]

SetInv(t) ==
    /\ pc[t] \in SetSteps => arg[t] \in live \ mayFree
    /\ pc[t] = "setStore" => hinstLib = NoLib /\ pInitDesc[t] = "none"
    /\ pc[t] \in {"setProc", "setCall"} => hinstLib \in Libs /\ hinstLibPtr[t] = hinstLib

ForwardInv(t) == pc[t] \in ForwardSteps => arg[t] \in held /\ hinstLibPtr[t] = hinstLib

\* A session is open only in the library that is loaded.
OpenOnlyInLoaded == \A l \in Libs : open[l] # {} => l = hinstLib /\ loads[l] > 0

\* Arguments the next ctlInit would read are not even among those the
\* application believes it may free.
StoredArgsKept ==
    hinstLib = NoLib /\ pRuntimeArgs # NoArgs =>
        pRuntimeArgs \in live \ mayFree \/ \E t \in Threads : pc[t] = "closeDrop"

\* What holds while the application keeps to the discipline.
IInv ==
    /\ TypeInv
    /\ NoFault
    /\ OneControl
    /\ SessionServed
    /\ OpenOnlyInLoaded
    /\ LoadsBalanced
    /\ PathIsOfLoaded
    /\ StoredArgsKept
    /\ \A t \in Threads : InitInv(t) /\ CloseInv(t) /\ SetInv(t) /\ ForwardInv(t)

-------------------------------------------------------------------------------
\* The wrapper implements the abstract session service.
Service == INSTANCE ApiSessions WITH
    mapped <- {l \in Libs : loads[l] > 0},
    inside <- [t \in Threads |-> IF pc[t] = "inside" THEN hinstLibPtr[t] ELSE NoLib]

ImplementsService == Service!Spec
===============================================================================
