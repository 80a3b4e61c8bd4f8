-------------------------- MODULE CApiWrapperProofs --------------------------
(***************************************************************************)
(* Proofs about CApiWrapper, for every set of threads, libraries, handles  *)
(* and path arguments.                                                     *)
(***************************************************************************)
EXTENDS CApiWrapper, TLAPS

USE LibAssumption, WrapperAssumption

-------------------------------------------------------------------------------
(* Typing: no assumption about the application. *)

LEMMA TypeInvInit == Init => TypeInv
BY DEF Init, LibInit, TypeInv, TypeOK, LibTypeOK, StoredPathExists, ArgTyped, Steps,
       InitSteps, PathSteps, SetSteps, ForwardSteps, ControlSteps, Results, Descs

LEMMA TypeInvInitSteps ==
    ASSUME TypeInv, NEW t \in Threads, InitStep(t)
    PROVE  TypeInv'
<1> USE DEF TypeInv, TypeOK, LibTypeOK, StoredPathExists, ArgTyped, Steps, InitSteps,
            PathSteps, SetSteps, CloseSteps, ForwardSteps, ControlSteps, Results, At,
            Goto, Return, InitReturn, KeepReading, ReadArgsAgain, ReadLibAgain, BadArgs,
            Private, Settled, Crash, libVars, wrapperVars, localVars, clientVars
<1>1. CASE InitAlloc(t)
  BY <1>1 DEF InitAlloc
<1>2. CASE InitPath(t)
  BY <1>2 DEF InitPath, DefaultPath, PathResult, AfterPath
<1>3. CASE InitPathArgs(t)
  BY <1>3 DEF InitPathArgs, DefaultPath, PathResult, AfterPath
<1>4. CASE InitCopyTest(t)
  BY <1>4 DEF InitCopyTest
<1>5. CASE InitCopy(t)
  BY <1>5 DEF InitCopy, PathResult, AfterPath
<1>6. CASE InitLoad(t)
  BY <1>6 DEF InitLoad, LoadLibrary
<1>7. CASE InitStore(t)
  BY <1>7 DEF InitStore
<1>8. CASE InitLoaded(t)
  BY <1>8 DEF InitLoaded, LoadResult
<1>9. CASE InitTestArgs(t)
  BY <1>9 DEF InitTestArgs
<1>10. CASE InitSetPath(t)
  BY <1>10 DEF InitSetPath
<1>11. CASE InitSetGet(t)
  BY <1>11 DEF InitSetGet, StoresPath
<1>12. CASE InitGet(t)
  BY <1>12 DEF InitGet
<1>13. CASE InitProc(t)
  BY <1>13 DEF InitProc
<1>14. CASE InitCall(t)
  <2>1. CASE Crash("unmapped_code")
    BY <2>1
  <2>2. ASSUME NEW h \in Handles, OpenSession(hinstLibPtr[t], h), held' = held \cup {h},
               InitReturn(t, "SUCCESS"), UNCHANGED wrapperVars, pc[t] = "initCall"
        PROVE  TypeInv'
    BY <2>2 DEF OpenSession
  <2>3. CASE InitReturn(t, "RUNTIME_ERROR") /\ UNCHANGED <<libVars, held, wrapperVars>>
    BY <2>3
  <2> QED
    BY <1>14, <2>1, <2>2, <2>3 DEF InitCall
<1> QED
  BY <1>1, <1>2, <1>3, <1>4, <1>5, <1>6, <1>7, <1>8, <1>9, <1>10, <1>11, <1>12, <1>13,
     <1>14 DEF InitStep

LEMMA TypeInvOtherSteps ==
    ASSUME TypeInv, NEW t \in Threads, CloseStep(t) \/ SetStep(t) \/ ForwardStep(t)
    PROVE  TypeInv'
<1> USE DEF TypeInv, TypeOK, LibTypeOK, StoredPathExists, ArgTyped, Steps, InitSteps,
            PathSteps, SetSteps, CloseSteps, ForwardSteps, ControlSteps, Results, At,
            Goto, Return, Private, Settled, Crash, libVars, wrapperVars, localVars,
            clientVars
<1>1. CASE CloseProc(t)
  BY <1>1 DEF CloseProc
<1>2. CASE CloseCall(t)
  BY <1>2 DEF CloseCall, CloseSession, CloseResult
<1>3. CASE CloseTest(t)
  BY <1>3 DEF CloseTest
<1>4. CASE CloseFree(t)
  BY <1>4 DEF CloseFree, FreeLibrary, Mapped
<1>5. CASE CloseClear(t)
  BY <1>5 DEF CloseClear, LibAfterFree
<1>6. CASE CloseDrop(t)
  BY <1>6 DEF CloseDrop, ArgsAfterClose
<1>7. CASE SetProc(t)
  BY <1>7 DEF SetProc, SetReturn
<1>8. CASE SetCall(t)
  BY <1>8 DEF SetCall, SetReturn
<1>9. CASE SetStore(t)
  BY <1>9 DEF SetStore, SetReturn, BadArgs, HasPath
<1>10. CASE ForwardProc(t)
  BY <1>10 DEF ForwardProc
<1>11. CASE ForwardCall(t)
  BY <1>11 DEF ForwardCall
<1>12. CASE ForwardReturn(t)
  BY <1>12 DEF ForwardReturn
<1> QED
  BY <1>1, <1>2, <1>3, <1>4, <1>5, <1>6, <1>7, <1>8, <1>9, <1>10, <1>11, <1>12
  DEF CloseStep, SetStep, ForwardStep

LEMMA TypeInvCalls ==
    ASSUME TypeInv, NEW t \in Threads, Call(t)
    PROVE  TypeInv'
<1> USE DEF TypeInv, TypeOK, LibTypeOK, StoredPathExists, ArgTyped, Steps, InitSteps,
            PathSteps, SetSteps, CloseSteps, ForwardSteps, ControlSteps, Results, At,
            Goto, Return, MayControl, Unanswered, Private, libVars, wrapperVars,
            localVars, clientVars
<1>1. ASSUME NEW desc \in Descs, CallInit(t, desc)
      PROVE  TypeInv'
  BY <1>1 DEF CallInit, NothingLoaded
<1>2. ASSUME NEW h \in Handles, CallClose(t, h)
      PROVE  TypeInv'
  BY <1>2 DEF CallClose
<1>3. ASSUME NEW h \in Handles, CallForward(t, h)
      PROVE  TypeInv'
  BY <1>3 DEF CallForward
<1>4. ASSUME NEW a \in RuntimeArgs \cup (IF PassNull THEN {NoArgs} ELSE {}),
             CallSetRuntimePath(t, a)
      PROVE  TypeInv'
  BY <1>4 DEF CallSetRuntimePath, StoresPath
<1> QED
  BY <1>1, <1>2, <1>3, <1>4 DEF Call

LEMMA TypeInvNext == TypeInv /\ [Next]_vars => TypeInv'
<1> SUFFICES ASSUME TypeInv, [Next]_vars
             PROVE  TypeInv'
  OBVIOUS
<1>1. ASSUME NEW a \in RuntimeArgs, FreeArgs(a)
      PROVE  TypeInv'
  BY <1>1 DEF FreeArgs, TypeInv, TypeOK, LibTypeOK, StoredPathExists, ArgTyped,
              libVars, wrapperVars, localVars
<1>2. CASE UNCHANGED vars
  BY <1>2 DEF vars, TypeInv, TypeOK, LibTypeOK, StoredPathExists, ArgTyped,
              libVars, wrapperVars, localVars, clientVars
<1> QED
  BY <1>1, <1>2, TypeInvInitSteps, TypeInvOtherSteps, TypeInvCalls DEF Next

\* Type correctness, and that the stored path arguments always carry a path,
\* for any application, even one that races, frees early and passes nulls.
THEOREM Typing == Spec => [](TypeOK /\ StoredPathExists)
<1>1. Spec => []TypeInv
  BY TypeInvInit, TypeInvNext, PTL DEF Spec
<1>2. TypeInv => TypeOK /\ StoredPathExists
  BY DEF TypeInv
<1> QED
  BY <1>1, <1>2, PTL

\* Whatever its threads do, arguments without a path are never stored.
THEOREM PathStored == Spec => []StoredPathExists
<1>1. TypeInv => StoredPathExists
  BY DEF TypeInv
<1>2. Spec => []TypeInv
  BY TypeInvInit, TypeInvNext, PTL DEF Spec
<1> QED
  BY <1>1, <1>2, PTL

-------------------------------------------------------------------------------
(* Safety, for an application that serialises ctlInit, ctlClose and          *)
(* ctlSetRuntimePath, passes no null pointer, and frees path arguments only  *)
(* after a successful ctlInit or after ctlClose.                             *)

Disciplined == Serialised /\ ~ PassNull /\ ~ FreeAfterFailedInit

LEMMA IInvInit == Init => IInv
<1> SUFFICES ASSUME Init PROVE IInv
  OBVIOUS
<1>1. TypeInv
  BY TypeInvInit
<1>2. IInv
  BY <1>1 DEF Init, LibInit, IInv, NoFault, OneControl, SessionServed, OpenOnlyInLoaded,
              LoadsBalanced, PathIsOfLoaded, StoredArgsKept, InitInv, CloseInv, SetInv,
              ForwardInv, ControlSteps, InitSteps, PathSteps, CloseSteps, SetSteps,
              ForwardSteps
<1> QED
  BY <1>2

LEMMA IInvInitSteps ==
    ASSUME Disciplined, IInv, NEW t \in Threads, InitStep(t)
    PROVE  IInv'
<1>0. TypeInv'
  BY TypeInvInitSteps DEF IInv
<1> USE <1>0 DEF IInv, TypeInv, TypeOK, LibTypeOK, StoredPathExists, ArgTyped, NoFault,
                 OneControl, SessionServed, OpenOnlyInLoaded, LoadsBalanced,
                 PathIsOfLoaded, StoredArgsKept, InitInv, CloseInv, SetInv, ForwardInv,
                 Disciplined, Descs, InitSteps, PathSteps, SetSteps, CloseSteps,
                 ForwardSteps, ControlSteps, At, Goto, Return, InitReturn, KeepReading,
                 ReadArgsAgain, ReadLibAgain, BadArgs, Private, Settled, Crash, libVars,
                 wrapperVars, localVars, clientVars
<1>1. CASE InitAlloc(t)
  BY <1>1 DEF InitAlloc
<1>2. CASE InitPath(t)
  BY <1>2 DEF InitPath, DefaultPath, PathResult, AfterPath
<1>3. CASE InitPathArgs(t)
  BY <1>3 DEF InitPathArgs, DefaultPath, PathResult, AfterPath
<1>4. CASE InitCopyTest(t)
  BY <1>4 DEF InitCopyTest
<1>5. CASE InitCopy(t)
  BY <1>5 DEF InitCopy, PathResult, AfterPath
<1>6. CASE InitLoad(t)
  BY <1>6 DEF InitLoad, LoadLibrary
<1>7. CASE InitStore(t)
  BY <1>7 DEF InitStore
<1>8. CASE InitLoaded(t)
  BY <1>8 DEF InitLoaded, LoadResult
<1>9. CASE InitTestArgs(t)
  BY <1>9 DEF InitTestArgs
<1>10. CASE InitSetPath(t)
  BY <1>10 DEF InitSetPath
<1>11. CASE InitSetGet(t)
  BY <1>11 DEF InitSetGet, StoresPath
<1>12. CASE InitGet(t)
  BY <1>12 DEF InitGet
<1>13. CASE InitProc(t)
  BY <1>13 DEF InitProc
<1>14. CASE InitCall(t)
  BY <1>14 DEF InitCall, OpenSession, Mapped
<1> QED
  BY <1>1, <1>2, <1>3, <1>4, <1>5, <1>6, <1>7, <1>8, <1>9, <1>10, <1>11, <1>12, <1>13,
     <1>14 DEF InitStep

LEMMA IInvOtherSteps ==
    ASSUME Disciplined, IInv, NEW t \in Threads, CloseStep(t) \/ SetStep(t) \/ ForwardStep(t)
    PROVE  IInv'
<1>0. TypeInv'
  BY TypeInvOtherSteps DEF IInv
<1> USE <1>0 DEF IInv, TypeInv, TypeOK, LibTypeOK, StoredPathExists, ArgTyped, NoFault,
                 OneControl, SessionServed, OpenOnlyInLoaded, LoadsBalanced,
                 PathIsOfLoaded, StoredArgsKept, InitInv, CloseInv, SetInv, ForwardInv,
                 Disciplined, Descs, InitSteps, PathSteps, SetSteps, CloseSteps,
                 ForwardSteps, ControlSteps, At, Goto, Return, Private, Settled, Crash,
                 libVars, wrapperVars, localVars, clientVars
<1>1. CASE CloseProc(t)
  BY <1>1 DEF CloseProc
<1>2. CASE CloseCall(t)
  BY <1>2 DEF CloseCall, CloseSession, CloseResult, Mapped
<1>3. CASE CloseTest(t)
  BY <1>3 DEF CloseTest, ClosedLast
<1>4. CASE CloseFree(t)
  BY <1>4 DEF CloseFree, FreeLibrary, Mapped
<1>5. CASE CloseClear(t)
  BY <1>5 DEF CloseClear, LibAfterFree
<1>6. CASE CloseDrop(t)
  BY <1>6 DEF CloseDrop, ArgsAfterClose
<1>7. CASE SetProc(t)
  BY <1>7 DEF SetProc, SetReturn
<1>8. CASE SetCall(t)
  BY <1>8 DEF SetCall, SetReturn, Mapped
<1>9. CASE SetStore(t)
  BY <1>9 DEF SetStore, SetReturn, BadArgs, HasPath
<1>10. CASE ForwardProc(t)
  BY <1>10 DEF ForwardProc
<1>11. CASE ForwardCall(t)
  BY <1>11 DEF ForwardCall, Mapped
<1>12. CASE ForwardReturn(t)
  BY <1>12 DEF ForwardReturn, Mapped
<1> QED
  BY <1>1, <1>2, <1>3, <1>4, <1>5, <1>6, <1>7, <1>8, <1>9, <1>10, <1>11, <1>12
  DEF CloseStep, SetStep, ForwardStep

LEMMA IInvCalls ==
    ASSUME Disciplined, IInv, NEW t \in Threads, Call(t)
    PROVE  IInv'
<1>0. TypeInv'
  BY TypeInvCalls DEF IInv
<1> USE <1>0 DEF IInv, TypeInv, TypeOK, LibTypeOK, StoredPathExists, ArgTyped, NoFault,
                 OneControl, SessionServed, OpenOnlyInLoaded, LoadsBalanced,
                 PathIsOfLoaded, StoredArgsKept, InitInv, CloseInv, SetInv, ForwardInv,
                 Disciplined, InitSteps, PathSteps, SetSteps, CloseSteps, ForwardSteps,
                 ControlSteps, At, Goto, Return, MayControl, Unanswered, Private,
                 libVars, wrapperVars, localVars, clientVars
<1>1. ASSUME NEW desc \in Descs, CallInit(t, desc)
      PROVE  IInv'
  BY <1>1 DEF CallInit, NothingLoaded
<1>2. ASSUME NEW h \in Handles, CallClose(t, h)
      PROVE  IInv'
  BY <1>2 DEF CallClose
<1>3. ASSUME NEW h \in Handles, CallForward(t, h)
      PROVE  IInv'
  BY <1>3 DEF CallForward
<1>4. ASSUME NEW a \in RuntimeArgs \cup (IF PassNull THEN {NoArgs} ELSE {}),
             CallSetRuntimePath(t, a)
      PROVE  IInv'
  BY <1>4 DEF CallSetRuntimePath, StoresPath
<1> QED
  BY <1>1, <1>2, <1>3, <1>4 DEF Call

LEMMA IInvNext == Disciplined /\ IInv /\ [Next]_vars => IInv'
<1> SUFFICES ASSUME Disciplined, IInv, [Next]_vars
             PROVE  IInv'
  OBVIOUS
<1>0. TypeInv'
  BY TypeInvNext DEF IInv
<1> USE <1>0 DEF IInv, TypeInv, TypeOK, LibTypeOK, StoredPathExists, ArgTyped, NoFault,
            OneControl, SessionServed, OpenOnlyInLoaded, LoadsBalanced, PathIsOfLoaded,
            StoredArgsKept, InitInv, CloseInv, SetInv, ForwardInv, SetSteps
<1>1. ASSUME NEW a \in RuntimeArgs, FreeArgs(a)
      PROVE  IInv'
  BY <1>1 DEF FreeArgs, libVars, wrapperVars, localVars
<1>2. CASE UNCHANGED vars
  BY <1>2 DEF vars, libVars, wrapperVars, localVars, clientVars
<1> QED
  BY <1>1, <1>2, IInvInitSteps, IInvOtherSteps, IInvCalls DEF Next

LEMMA Invariance == Disciplined => (Spec => []IInv)
<1> SUFFICES ASSUME Disciplined
             PROVE  Spec => []IInv
  OBVIOUS
<1>1. IInv /\ [Next]_vars => IInv'
  BY IInvNext
<1> QED
  BY <1>1, IInvInit, PTL DEF Spec

\* Whatever the runtimes export and however loading fails, a disciplined
\* application never faults in the wrapper, and every open session is open in
\* the library the wrapper forwards to.
THEOREM Safety == Disciplined => (Spec => [](NoFault /\ SessionServed))
<1>1. IInv => NoFault /\ SessionServed
  BY DEF IInv
<1> QED
  BY <1>1, Invariance, PTL

\* Loads and frees balance, and stored path arguments name the loaded library.
THEOREM Bookkeeping == Disciplined => (Spec => [](LoadsBalanced /\ PathIsOfLoaded))
<1>1. IInv => LoadsBalanced /\ PathIsOfLoaded
  BY DEF IInv
<1> QED
  BY <1>1, Invariance, PTL

\* Arguments that the next ctlInit would read have not been freed.
THEOREM ArgsLive == Disciplined => (Spec => []StoredArgsLive)
<1>1. IInv => StoredArgsLive
  BY DEF IInv, StoredArgsKept, StoredArgsLive
<1> QED
  BY <1>1, Invariance, PTL

\* No call of a disciplined application dies in the wrapper.
THEOREM NeverFaults == Disciplined => (Spec => []NoFault)
<1>1. IInv => NoFault
  BY DEF IInv
<1> QED
  BY <1>1, Invariance, PTL

\* Path arguments stored while a library is loaded are those that named it.
THEOREM PathNamesLoaded == Disciplined => (Spec => []PathIsOfLoaded)
<1>1. IInv => PathIsOfLoaded
  BY DEF IInv
<1> QED
  BY <1>1, Invariance, PTL

-------------------------------------------------------------------------------
(* Action properties *)

Forwards == \A l \in Libs : "forwarded" \in Exports[l]

\* A call in an open session reaches the runtime, provided that it exports the
\* entry point.
THEOREM Served == Disciplined /\ Forwards => (Spec => ForwardServed)
<1> SUFFICES ASSUME Disciplined, Forwards
             PROVE  Spec => ForwardServed
  OBVIOUS
<1> DEFINE Step == \A t \in Threads : \A h \in held :
                       /\ CallForward(t, h) => pc'[t] # "idle"
                       /\ ForwardProc(t) => pc'[t] # "idle"
                       /\ pc[t] \in ForwardSteps => fault' # "unmapped_code"
<1>1. IInv /\ [Next]_vars => [Step]_vars
  <2> SUFFICES ASSUME IInv, [Next]_vars, NEW t \in Threads, NEW h \in held
               PROVE  /\ CallForward(t, h) => pc'[t] # "idle"
                      /\ ForwardProc(t) => pc'[t] # "idle"
                      /\ pc[t] \in ForwardSteps => fault' # "unmapped_code"
    OBVIOUS
  <2>1. IInv'
    BY IInvNext
  <2>2. ASSUME CallForward(t, h) PROVE pc'[t] # "idle"
    BY <2>2 DEF CallForward, Goto, IInv, TypeInv, TypeOK, SessionServed
  <2>3. ASSUME ForwardProc(t) PROVE pc'[t] # "idle"
    <3>1. Mapped(hinstLibPtr[t])
      BY <2>3 DEF ForwardProc, At, IInv, ForwardInv, ForwardSteps, SessionServed,
                  OpenOnlyInLoaded, TypeInv, TypeOK, LibTypeOK, Mapped
    <3> QED
      BY <2>3, <3>1 DEF ForwardProc, HasExport, Mapped, Forwards, Goto, IInv, TypeInv,
                        TypeOK
  <2> QED
    BY <2>1, <2>2, <2>3 DEF IInv, NoFault
<1> QED
  BY <1>1, Invariance, PTL DEF Spec, ForwardServed

\* A ctlClose that returns SUCCESS leaves the wrapper as it was at the start.
THEOREM Resets == Disciplined => (Spec => CloseResets)
<1> SUFFICES ASSUME Disciplined
             PROVE  Spec => CloseResets
  OBVIOUS
<1> DEFINE Step == \A t \in Threads : CloseDrop(t) /\ result[t] = "SUCCESS" =>
                       /\ hinstLib' = NoLib
                       /\ pRuntimeArgs' = NoArgs
                       /\ \A l \in Libs : loads'[l] = 0
<1>1. IInv /\ [Next]_vars => [Step]_vars
  <2> SUFFICES ASSUME IInv, NEW t \in Threads, CloseDrop(t), result[t] = "SUCCESS"
               PROVE  /\ hinstLib' = NoLib
                      /\ pRuntimeArgs' = NoArgs
                      /\ \A l \in Libs : loads'[l] = 0
    OBVIOUS
  <2>1. hinstLib = NoLib
    BY DEF IInv, CloseInv, CloseDrop, At
  <2>2. \A u \in Threads : pc[u] \notin {"store", "closeClear"}
    BY DEF IInv, OneControl, CloseDrop, At, ControlSteps, InitSteps, CloseSteps
  <2> QED
    BY <2>1, <2>2 DEF CloseDrop, ArgsAfterClose, IInv, LoadsBalanced, libVars
<1> QED
  BY <1>1, Invariance, PTL DEF Spec, CloseResets

\* The path that a ctlClose forgets, whatever its result, is that of the library it
\* was called on: a path chosen for a later load is never lost.
THEOREM ForgetsOnlyUsedPath == Disciplined => (Spec => UnusedPathKept)
<1> SUFFICES ASSUME Disciplined
             PROVE  Spec => UnusedPathKept
  OBVIOUS
<1> DEFINE Step == \A t \in Threads : CloseDrop(t) /\ pRuntimeArgs \in RuntimeArgs =>
                       PathOf[pRuntimeArgs] = hinstLibPtr[t]
<1>1. IInv => Step
  BY DEF IInv, CloseInv, CloseDrop, At
<1>2. IInv /\ [Next]_vars => [Step]_vars
  BY <1>1
<1> QED
  BY <1>2, Invariance, PTL DEF Spec, UnusedPathKept

\* Only ctlInit and ctlClose call the loader, ctlClose when no session is open.
LEMMA SessionKeepsLibrary ==
    ASSUME IInv, [Next]_vars, NEW l \in Libs, open[l] # {}
    PROVE  loads'[l] > 0
<1>1. l = hinstLib /\ loads[l] \in Nat /\ loads[l] > 0
  BY DEF IInv, OpenOnlyInLoaded, TypeInv, TypeOK, LibTypeOK
<1>2. CASE UNCHANGED loads
  BY <1>1, <1>2
<1>3. ASSUME NEW t \in Threads, CloseFree(t) PROVE FALSE
  BY <1>1, <1>3 DEF IInv, CloseInv, CloseFree, At
<1>4. ASSUME NEW t \in Threads, InitLoad(t) PROVE loads'[l] > 0
  BY <1>1, <1>4 DEF InitLoad, LoadLibrary, libVars, IInv, TypeInv, TypeOK, LibTypeOK
<1>5. ASSUME NEW t \in Threads, Call(t) \/ InitStep(t) \/ CloseStep(t) \/ SetStep(t) \/ ForwardStep(t)
      PROVE  InitLoad(t) \/ CloseFree(t) \/ UNCHANGED loads
  <2> USE DEF libVars, Private, Crash
  <2>1. CASE Call(t)
    BY <2>1 DEF Call, CallInit, CallClose, CallForward, CallSetRuntimePath
  <2>2. CASE InitStep(t)
    BY <2>2 DEF InitStep, InitAlloc, InitPath, DefaultPath, PathResult, InitPathArgs,
                InitCopyTest, InitCopy, InitTestArgs, InitSetGet, KeepReading, BadArgs,
                InitStore, InitLoaded, InitSetPath, InitGet, InitProc, InitCall,
                InitReturn, OpenSession
  <2>3. CASE CloseStep(t)
    BY <2>3 DEF CloseStep, CloseProc, CloseCall, CloseTest, CloseClear, CloseDrop,
                CloseSession
  <2>4. CASE SetStep(t)
    BY <2>4 DEF SetStep, SetProc, SetCall, SetStore, SetReturn, BadArgs
  <2>5. CASE ForwardStep(t)
    BY <2>5 DEF ForwardStep, ForwardProc, ForwardCall, ForwardReturn
  <2> QED
    BY <1>5, <2>1, <2>2, <2>3, <2>4, <2>5
<1> QED
  BY <1>2, <1>3, <1>4, <1>5 DEF Next, FreeArgs, libVars, vars

\* "if its open by another caller do not free the instance handle"
\* (cApiWrapper.cpp:194) holds for clients that take turns at ctlInit, ctlClose and
\* ctlSetRuntimePath; clients that do not can break it.
THEOREM OpenLibraryKept == Disciplined => (Spec => StillOpenNotFreed)
<1> SUFFICES ASSUME Disciplined
             PROVE  Spec => StillOpenNotFreed
  OBVIOUS
<1>1. IInv /\ [Next]_vars => [\A l \in Libs : open[l] # {} => loads'[l] > 0]_vars
  BY SessionKeepsLibrary
<1> QED
  BY <1>1, Invariance, PTL DEF Spec, StillOpenNotFreed

ExportsInit == \A l \in Libs : "ctlInit" \in Exports[l]

LEMMA OthersKeepTheirPlace ==
    ASSUME TypeInv, NEW t \in Threads, NEW u \in Threads, u # t,
           Call(u) \/ InitStep(u) \/ CloseStep(u) \/ SetStep(u) \/ ForwardStep(u)
    PROVE  pc'[t] = pc[t]
<1>1. pc' = pc \/ \E step \in Steps : pc' = [pc EXCEPT ![u] = step]
  <2> USE DEF Goto, Return, Crash, InitReturn, Steps, ControlSteps, InitSteps,
              PathSteps, CloseSteps, SetSteps, ForwardSteps
  <2>1. CASE Call(u)
    BY <2>1 DEF Call, CallInit, CallClose, CallForward, CallSetRuntimePath
  <2>2. CASE InitStep(u)
    BY <2>2 DEF InitStep, InitAlloc, InitPath, DefaultPath, PathResult, AfterPath,
                InitPathArgs, InitCopyTest, InitCopy, InitTestArgs, InitSetGet,
                KeepReading, BadArgs, InitLoad, InitStore, InitLoaded, InitSetPath,
                InitGet, InitProc, InitCall
  <2>3. CASE CloseStep(u)
    BY <2>3 DEF CloseStep, CloseProc, CloseCall, CloseTest, CloseFree, CloseClear,
                CloseDrop
  <2>4. CASE SetStep(u)
    BY <2>4 DEF SetStep, SetProc, SetCall, SetStore, SetReturn, BadArgs
  <2>5. CASE ForwardStep(u)
    BY <2>5 DEF ForwardStep, ForwardProc, ForwardCall, ForwardReturn
  <2> QED
    BY <2>1, <2>2, <2>3, <2>4, <2>5
<1> QED
  BY <1>1 DEF TypeInv, TypeOK

\* ctlInit returns SUCCESS exactly when it delivers a new handle, provided that
\* every library that loads exports it.
THEOREM HandleOnSuccess == Disciplined /\ ExportsInit => (Spec => SuccessGivesHandle)
<1> SUFFICES ASSUME Disciplined, ExportsInit
             PROVE  Spec => SuccessGivesHandle
  OBVIOUS
<1> DEFINE Step == \A t \in Threads : pc[t] \in InitSteps /\ pc'[t] = "idle" =>
                       (result'[t] = "SUCCESS" <=> held' # held)
<1>1. IInv /\ [Next]_vars => [Step]_vars
  <2> SUFFICES ASSUME IInv, Next, NEW t \in Threads, pc[t] \in InitSteps, pc'[t] = "idle"
               PROVE  result'[t] = "SUCCESS" <=> held' # held
    OBVIOUS
  <2>1. pc[t] # "idle" /\ pc'[t] # pc[t]
    BY DEF InitSteps, PathSteps
  <2>2. InitStep(t)
    BY <2>1, OthersKeepTheirPlace
    DEF Next, IInv, FreeArgs, Call, CallInit, CallClose, CallForward,
        CallSetRuntimePath, MayControl, At, InitSteps, PathSteps, CloseStep, CloseProc,
        CloseCall, CloseTest, CloseFree, CloseClear, CloseDrop, SetStep, SetProc,
        SetCall, SetStore, SetReturn, BadArgs, ForwardStep, ForwardProc, ForwardCall,
        ForwardReturn
  <2> USE DEF IInv, TypeInv, TypeOK, InitInv, At, Goto, Return, InitReturn, Crash,
              clientVars
  <2>3. CASE InitAlloc(t)
    BY <2>3 DEF InitAlloc
  <2>4. CASE InitGet(t)
    BY <2>4 DEF InitGet, ReadLibAgain, InitSteps, PathSteps
  <2>5. CASE InitProc(t)
    BY <2>5 DEF InitProc, HasExport, Mapped, ExportsInit, LoadsBalanced, OneControl,
                ControlSteps, InitSteps, CloseSteps, LibTypeOK
  <2>6. CASE InitCall(t)
    BY <2>6 DEF InitCall, OpenSession, SessionServed
  <2> QED
    BY <2>1, <2>2, <2>3, <2>4, <2>5, <2>6
    DEF InitStep, InitPath, DefaultPath, PathResult, AfterPath, InitPathArgs,
        InitCopyTest, InitCopy, InitTestArgs, InitSetGet, KeepReading, BadArgs,
        InitLoad, InitStore, InitLoaded, InitSetPath
<1> QED
  BY <1>1, Invariance, PTL DEF Spec, SuccessGivesHandle

-------------------------------------------------------------------------------
(* Refinement: each step of the wrapper is a step of ApiSessions, or stutters. *)

SvcMapped == {l \in Libs : loads[l] > 0}
SvcInside == [t \in Threads |-> IF pc[t] = "inside" THEN hinstLibPtr[t] ELSE NoLib]

LEMMA ServiceInit == Init => Service!Init
BY DEF Init, LibInit, Service!Init

\* The steps that change no loader count and no session, and neither enter nor
\* leave a runtime.
LEMMA QuietSteps ==
    ASSUME TypeInv, NEW t \in Threads, UNCHANGED libVars, pc[t] # "inside", pc'[t] # "inside",
           \A u \in Threads \ {t} : pc'[u] = pc[u] /\ hinstLibPtr'[u] = hinstLibPtr[u]
    PROVE  UNCHANGED Service!avars
<1>1. SvcMapped' = SvcMapped /\ open' = open
  BY DEF SvcMapped, libVars
<1>2. SvcInside' = SvcInside
  BY DEF SvcInside
<1> QED
  BY <1>1, <1>2 DEF SvcMapped, SvcInside, Service!avars

LEMMA ServiceInitSteps ==
    ASSUME Disciplined, IInv, NEW t \in Threads, InitStep(t)
    PROVE  Service!Next \/ UNCHANGED Service!avars
<1> USE DEF IInv, TypeInv, TypeOK, At, Goto, Return, InitReturn, Private, Crash,
            wrapperVars, localVars
<1>1. CASE InitLoad(t)
  <2>1. CASE UNCHANGED libVars
    BY <1>1, <2>1, QuietSteps DEF InitLoad
  <2>2. CASE LoadLibrary(dll[t])
    <3>1. SvcMapped = {}
      BY <1>1 DEF InitLoad, SvcMapped, LoadsBalanced, InitInv, OneControl, ControlSteps,
                  InitSteps, CloseSteps
    <3>2. SvcMapped' = {dll[t]}
      BY <1>1, <2>2, <3>1 DEF SvcMapped, LoadLibrary, LibTypeOK
    <3>3. SvcInside' = SvcInside
      BY <1>1 DEF InitLoad, SvcInside
    <3> QED
      BY <2>2, <3>1, <3>2, <3>3
      DEF SvcMapped, SvcInside, LoadLibrary, Service!Next, Service!Map
  <2> QED
    BY <1>1, <2>1, <2>2 DEF InitLoad
<1>2. CASE InitCall(t)
  <2>1. ASSUME NEW h \in Handles, OpenSession(hinstLibPtr[t], h)
        PROVE  Service!Next
    <3>1. hinstLibPtr[t] \in SvcMapped
      BY <1>2 DEF InitCall, SvcMapped, InitInv, LoadsBalanced, OneControl, ControlSteps,
                  InitSteps, CloseSteps
    <3>2. SvcMapped' = SvcMapped /\ SvcInside' = SvcInside
      BY <1>2, <2>1 DEF InitCall, SvcMapped, SvcInside, OpenSession
    <3> QED
      BY <2>1, <3>1, <3>2
      DEF SvcMapped, SvcInside, OpenSession, Service!Next, Service!Open
  <2>2. CASE UNCHANGED libVars
    BY <1>2, <2>2, QuietSteps DEF InitCall
  <2> QED
    BY <1>2, <2>1, <2>2 DEF InitCall
<1>3. CASE ~ InitLoad(t) /\ ~ InitCall(t)
  <2>1. UNCHANGED libVars /\ pc[t] # "inside" /\ pc'[t] # "inside"
    BY <1>3 DEF InitStep, InitAlloc, InitPath, DefaultPath, PathResult, AfterPath,
                InitPathArgs, InitCopyTest, InitCopy, InitTestArgs, InitSetGet,
                KeepReading, BadArgs, InitStore, InitLoaded, InitSetPath, InitGet,
                InitProc
  <2>2. \A u \in Threads \ {t} : pc'[u] = pc[u] /\ hinstLibPtr'[u] = hinstLibPtr[u]
    BY <1>3 DEF InitStep, InitAlloc, InitPath, DefaultPath, PathResult, AfterPath,
                InitPathArgs, InitCopyTest, InitCopy, InitTestArgs, InitSetGet,
                KeepReading, BadArgs, InitStore, InitLoaded, InitSetPath, InitGet,
                InitProc
  <2> QED
    BY <2>1, <2>2, QuietSteps
<1> QED
  BY <1>1, <1>2, <1>3

LEMMA ServiceCloseSteps ==
    ASSUME Disciplined, IInv, NEW t \in Threads, CloseStep(t)
    PROVE  Service!Next \/ UNCHANGED Service!avars
<1> USE DEF IInv, TypeInv, TypeOK, At, Goto, Return, Private, Crash, wrapperVars,
            localVars, CloseInv
<1>1. CASE CloseCall(t)
  <2>1. CASE CloseSession(hinstLibPtr[t], arg[t])
    <3>1. hinstLibPtr[t] \in SvcMapped /\ arg[t] \in Handles
      BY <1>1 DEF CloseCall, SvcMapped, OpenOnlyInLoaded, ArgTyped
    <3>2. SvcMapped' = SvcMapped /\ SvcInside' = SvcInside
      BY <1>1, <2>1 DEF CloseCall, SvcMapped, SvcInside, CloseSession
    <3> QED
      BY <2>1, <3>1, <3>2
      DEF SvcMapped, SvcInside, CloseSession, Service!Next, Service!Close
  <2>2. CASE UNCHANGED libVars
    BY <1>1, <2>2, QuietSteps DEF CloseCall
  <2> QED
    BY <1>1, <2>1, <2>2 DEF CloseCall
<1>2. CASE CloseFree(t)
  <2>1. /\ hinstLib \in Libs
        /\ open[hinstLib] = {}
        /\ loads[hinstLib] = 1
        /\ \A l \in Libs : l # hinstLib => loads[l] = 0
    BY <1>2 DEF CloseFree, LoadsBalanced, OneControl, ControlSteps, InitSteps, CloseSteps
  <2>2. loads' = [loads EXCEPT ![hinstLib] = 0] /\ open' = open
    <3>1. FreeLibrary(hinstLib)
      BY <1>2 DEF CloseFree
    <3>2. loads' = [loads EXCEPT ![hinstLib] = @ - 1] /\ open' = [open EXCEPT ![hinstLib] = {}]
      BY <2>1, <3>1 DEF FreeLibrary, Mapped
    <3> QED
      BY <2>1, <3>2 DEF LibTypeOK
  <2>3. SvcMapped' = {} /\ hinstLib \in SvcMapped
    BY <2>1, <2>2 DEF SvcMapped, LibTypeOK
  <2>4. \A u \in Threads : pc[u] # "inside"
    BY <2>1 DEF ForwardInv, ForwardSteps, SessionServed
  <2>5. SvcInside' = SvcInside /\ \A u \in Threads : SvcInside[u] = NoLib
    BY <1>2, <2>4 DEF CloseFree, SvcInside
  <2> QED
    BY <2>1, <2>2, <2>3, <2>5 DEF SvcMapped, SvcInside, Service!Next, Service!Unmap
<1>3. CASE ~ CloseCall(t) /\ ~ CloseFree(t)
  <2>1. UNCHANGED libVars /\ pc[t] # "inside" /\ pc'[t] # "inside"
    BY <1>3 DEF CloseStep, CloseProc, CloseTest, CloseClear, CloseDrop
  <2>2. \A u \in Threads \ {t} : pc'[u] = pc[u] /\ hinstLibPtr'[u] = hinstLibPtr[u]
    BY <1>3 DEF CloseStep, CloseProc, CloseTest, CloseClear, CloseDrop
  <2> QED
    BY <2>1, <2>2, QuietSteps
<1> QED
  BY <1>1, <1>2, <1>3

LEMMA ServiceForwardSteps ==
    ASSUME Disciplined, IInv, NEW t \in Threads, ForwardStep(t)
    PROVE  Service!Next \/ UNCHANGED Service!avars
<1> USE DEF IInv, TypeInv, TypeOK, At, Goto, Return, Private, Crash, wrapperVars,
            localVars, ForwardInv, ForwardSteps
<1>0. /\ hinstLibPtr[t] \in SvcMapped
      /\ open[hinstLibPtr[t]] # {}
  BY DEF ForwardStep, ForwardProc, ForwardCall, ForwardReturn, SvcMapped, SessionServed,
         OpenOnlyInLoaded
<1>1. CASE ForwardProc(t)
  BY <1>1, QuietSteps DEF ForwardProc
<1>2. CASE ForwardCall(t)
  <2>1. SvcMapped' = SvcMapped /\ open' = open
    BY <1>2 DEF ForwardCall, SvcMapped, libVars
  <2>2. SvcInside[t] = NoLib /\ SvcInside' = [SvcInside EXCEPT ![t] = hinstLibPtr[t]]
    BY <1>0, <1>2 DEF ForwardCall, SvcInside, SvcMapped, Mapped
  <2> QED
    BY <1>0, <2>1, <2>2 DEF SvcMapped, SvcInside, Service!Next, Service!Enter
<1>3. CASE ForwardReturn(t)
  <2>1. SvcMapped' = SvcMapped /\ open' = open
    BY <1>3 DEF ForwardReturn, SvcMapped, libVars
  <2>2. SvcInside[t] \in SvcMapped /\ SvcInside' = [SvcInside EXCEPT ![t] = NoLib]
    BY <1>0, <1>3 DEF ForwardReturn, SvcInside, SvcMapped, Mapped
  <2> QED
    BY <2>1, <2>2 DEF SvcMapped, SvcInside, Service!Next, Service!Leave
<1> QED
  BY <1>1, <1>2, <1>3 DEF ForwardStep

LEMMA ServiceOtherSteps ==
    ASSUME IInv, NEW t \in Threads, Call(t) \/ SetStep(t)
    PROVE  UNCHANGED Service!avars
<1> USE DEF IInv, TypeInv, TypeOK, At, Goto, Return, Private, Crash, MayControl,
            wrapperVars, localVars
<1>1. UNCHANGED libVars /\ pc[t] # "inside" /\ pc'[t] # "inside"
  BY DEF Call, CallInit, CallClose, CallForward, CallSetRuntimePath,
         SetStep, SetProc, SetCall, SetStore, SetReturn, BadArgs
<1>2. \A u \in Threads \ {t} : pc'[u] = pc[u] /\ hinstLibPtr'[u] = hinstLibPtr[u]
  BY DEF Call, CallInit, CallClose, CallForward, CallSetRuntimePath,
         SetStep, SetProc, SetCall, SetStore, SetReturn, BadArgs
<1> QED
  BY <1>1, <1>2, QuietSteps

\* The wrapper under a disciplined application implements ApiSessions: it never
\* unmaps a runtime under an open session or a thread inside it.
THEOREM Refinement == Disciplined => (Spec => ImplementsService)
<1> SUFFICES ASSUME Disciplined
             PROVE  Spec => ImplementsService
  OBVIOUS
<1>1. IInv /\ [Next]_vars => [Service!Next]_(Service!avars)
  <2> SUFFICES ASSUME IInv, [Next]_vars
               PROVE  Service!Next \/ UNCHANGED Service!avars
    OBVIOUS
  <2>1. ASSUME NEW a \in RuntimeArgs, FreeArgs(a)
        PROVE  UNCHANGED Service!avars
    BY <2>1 DEF FreeArgs, libVars, localVars, Service!avars
  <2>2. CASE UNCHANGED vars
    BY <2>2 DEF vars, libVars, localVars, Service!avars
  <2> QED
    BY <2>1, <2>2, ServiceInitSteps, ServiceCloseSteps, ServiceForwardSteps,
       ServiceOtherSteps DEF Next
<1> QED
  BY <1>1, ServiceInit, Invariance, PTL DEF Spec, ImplementsService, Service!Spec

\* Whatever implements the session service has one runtime, in which all sessions
\* are open and all calls execute.
THEOREM ServicePromise == ImplementsService => []Service!OneRuntime
<1>1. Service!Init => Service!OneRuntime
  BY DEF Service!Init, Service!OneRuntime
<1>2. Service!OneRuntime /\ [Service!Next]_(Service!avars) => Service!OneRuntime'
  <2> SUFFICES ASSUME Service!OneRuntime, [Service!Next]_(Service!avars)
               PROVE  Service!OneRuntime'
    OBVIOUS
  <2> USE DEF Service!OneRuntime
  <2>1. ASSUME NEW l \in Libs, Service!Map(l) PROVE Service!OneRuntime'
    BY <2>1 DEF Service!Map
  <2>2. ASSUME NEW l \in Libs, Service!Unmap(l) PROVE Service!OneRuntime'
    BY <2>2 DEF Service!Unmap
  <2>3. ASSUME NEW l \in Libs, NEW h \in Handles, Service!Open(l, h) \/ Service!Close(l, h)
        PROVE  Service!OneRuntime'
    BY <2>3 DEF Service!Open, Service!Close
  <2>4. ASSUME NEW t \in Threads, Service!Leave(t) PROVE Service!OneRuntime'
    BY <2>4 DEF Service!Leave
  <2>5. ASSUME NEW t \in Threads, NEW l \in Libs, Service!Enter(t, l)
        PROVE  Service!OneRuntime'
    BY <2>5 DEF Service!Enter
  <2>6. CASE UNCHANGED Service!avars
    BY <2>6 DEF Service!avars
  <2> QED
    BY <2>1, <2>2, <2>3, <2>4, <2>5, <2>6 DEF Service!Next
<1> QED
  BY <1>1, <1>2, PTL DEF ImplementsService, Service!Spec

\* Under a disciplined application, a thread that executes a function of the runtime
\* (cApiWrapper.cpp:294) does so in the one library that is loaded, and sessions are
\* open in no other.
THEOREM OneRuntimeServes == Disciplined => (Spec => []Service!OneRuntime)
BY Refinement, ServicePromise
===============================================================================
