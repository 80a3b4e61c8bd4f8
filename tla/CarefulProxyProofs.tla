--------------------------- MODULE CarefulProxyProofs ---------------------------
(***************************************************************************)
(* Proofs about SwigProxy for a careful application: native code never     *)
(* gets a null pointer or one to a freed object, for every set of threads, *)
(* proxies and objects.  They build on the invariant of SwigProxyProofs,   *)
(* which says who frees an object; here it is about who may still use it.  *)
(***************************************************************************)
EXTENDS SwigProxyProofs

USE ProxyAssumption

\* What the application has given up it does not get at again.
NothingRegained == \A o \in Objects : Unreachable(o) => Unreachable(o)'

LEMMA CInvInit == Init => CInv
<1> SUFFICES ASSUME Init PROVE CInv
  OBVIOUS
<1>1. IInv
  BY IInvInit
<1>2. NoFault /\ PointersLive /\ DisposedUnused
  BY DEF Init, NoFault, PointersLive, DisposedUnused, Actors
<1>3. ForgottenOwners /\ FreedUnused
  BY DEF Init, ForgottenOwners, FreedUnused, Freeing, Actors
<1> QED
  BY <1>1, <1>2, <1>3 DEF CInv

\* Pointers that are still in use are not null.
LEMMA LiveNotNull ==
    ASSUME CInv
    PROVE  /\ Null \notin alive
           /\ \A t \in Threads : Null \notin handles[t]
<1>1. alive \subseteq Objects /\ \A t \in Threads : handles[t] \subseteq alive
  BY DEF CInv, IInv, TypeOK, PointersLive
<1>2. Null \notin Objects
  BY ProxyAssumption
<1> QED
  BY <1>1, <1>2

-------------------------------------------------------------------------------
(* The application's steps *)

\* A new call gets at none of the objects that are being given up; if it is a
\* delete_XP, nobody else has the object in hand.
LEMMA CallNativeCareful ==
    ASSUME Careful, CInv, NEW t \in Threads, NEW k \in Calls, NEW ps \in SUBSET Proxies,
           CallNative(t, k, ps)
    PROVE  CInv' /\ NothingRegained
<1> DEFINE hs == {swigCPtr[p] : p \in ps}
<1>1. IInv'
  BY CallNativeStep DEF CInv
<1>2. /\ pc[t] = "idle" /\ pc' = [pc EXCEPT ![t] = "native"]
      /\ kind' = [kind EXCEPT ![t] = k] /\ args' = [args EXCEPT ![t] = ps]
      /\ handles' = [handles EXCEPT ![t] = hs]
      /\ ps \subseteq referenced /\ referenced' \subseteq referenced
      /\ UNCHANGED <<alive, manual, paths, kept, loaded, swigCPtr, swigCMemOwn, self,
                     made, fault>>
  BY DEF CallNative, At, Goto, heapVars, loaderVars
<1>3. hs \subseteq alive /\ \A o \in hs : \E p \in ps : p \in referenced /\ swigCPtr[p] = o
  BY <1>2 DEF CInv, PointersLive
<1> HIDE DEF hs
<1>4. /\ pc'[t] = "native" /\ kind'[t] = k /\ args'[t] = ps /\ handles'[t] = hs
      /\ \A u \in Actors \ {t} : pc'[u] = pc[u]
      /\ \A u \in Threads \ {t} :
             kind'[u] = kind[u] /\ args'[u] = args[u] /\ handles'[u] = handles[u]
  BY <1>2 DEF CInv, IInv, TypeOK, Actors
<1>5. NoFault' /\ PointersLive' /\ DisposedUnused'
  BY <1>2, <1>3, <1>4 DEF CInv, NoFault, PointersLive, DisposedUnused, Actors
<1>6. \A o \in Objects : Unreachable(o) => Unreachable(o)' /\ o \notin hs
  BY <1>2, <1>3, <1>4 DEF Unreachable, PointerLeft, Actors
<1>7. ASSUME k # "delete" PROVE CInv'
  <2>1. referenced' = referenced
    BY <1>7 DEF CallNative
  <2>2. ForgottenOwners'
    BY <1>2, <1>4, <1>6, <2>1 DEF CInv, IInv, ClaimsLive, TypeOK, ForgottenOwners
  <2>3. FreedUnused'
    BY <1>2, <1>4, <1>6, <1>7, <2>1
       DEF CInv, IInv, ClaimsLive, TypeOK, PointersLive, FreedUnused, Freeing, Actors
  <2> QED
    BY <1>1, <1>5, <2>2, <2>3 DEF CInv
<1>8. ASSUME k = "delete" PROVE CInv'
  <2>1. /\ hs \subseteq manual
        /\ \A o \in hs : ~ PointerLeft(o) /\ \A u \in Threads : o \notin handles[u]
        /\ referenced' = referenced \ UNION {Family(p) : p \in ps}
    BY <1>8 DEF CallNative, MayDelete, hs
  <2>2. \A o \in hs : \A q \in referenced' : swigCPtr[q] # o
    BY <1>2, <2>1 DEF Family, hs
  <2>3. \A o \in hs : Unreachable(o)'
    <3> SUFFICES ASSUME NEW o \in hs PROVE Unreachable(o)'
      OBVIOUS
    <3>1. ~ (kept' = o /\ ~ loaded') /\ \A u \in Threads : ~ (pc'[u] = "return" /\ made'[u] = o)
      BY <1>2, <1>4, <2>1 DEF PointerLeft, Actors
    <3>2. \A u \in Threads : ~ (o \in handles'[u] /\ kind'[u] \in {"keep", "member"})
      BY <1>4, <1>8, <2>1 DEF PointerLeft
    <3> QED
      BY <1>2, <2>2, <3>1, <3>2 DEF Unreachable, PointerLeft
  <2>4. \A q \in referenced \ referenced' : swigCPtr[q] \in hs
    BY <2>1 DEF Family, hs
  <2>5. ForgottenOwners'
    BY <1>2, <1>4, <1>6, <2>1, <2>4 DEF CInv, IInv, ClaimsLive, TypeOK, ForgottenOwners
  <2>6. FreedUnused'
    <3>1. ASSUME NEW u \in Actors, Freeing(u)'
          PROVE  /\ Unreachable(swigCPtr[self[u]])'
                 /\ \A v \in Threads : swigCPtr[self[u]] \notin handles'[v]
      <4> DEFINE o == swigCPtr[self[u]]
      <4>1. Freeing(u)
        BY <1>4, <3>1 DEF Freeing, Actors
      <4>2. o \in Objects /\ Unreachable(o) /\ \A v \in Threads : o \notin handles[v]
        BY <4>1 DEF CInv, IInv, ClaimsLive, TypeOK, FreedUnused
      <4>3. Unreachable(o)' /\ o \notin hs
        <5>1. \A x \in Objects : Unreachable(x) => Unreachable(x)' /\ x \notin hs
          BY <1>6
        <5>2. o' = o
          BY <1>2
        <5> QED
          BY <1>2, <4>2, <5>1, <5>2 DEF Unreachable, PointerLeft
      <4> QED
        BY <1>4, <4>2, <4>3
    <3>2. ASSUME NEW u \in Threads, NEW o \in handles'[u], kind'[u] = "delete"
          PROVE  /\ Unreachable(o)'
                 /\ \A v \in Threads \ {u} : o \notin handles'[v]
      <4>1. CASE u = t
        BY <1>4, <2>1, <2>3, <4>1
      <4>2. CASE u # t
        <5>1. o \in Objects /\ Unreachable(o) /\ \A v \in Threads \ {u} : o \notin handles[v]
          BY <1>4, <3>2, <4>2 DEF CInv, IInv, TypeOK, PointersLive, FreedUnused
        <5> QED
          BY <1>4, <1>6, <5>1
      <4> QED
        BY <4>1, <4>2
    <3> QED
      BY <1>2, <3>1, <3>2 DEF FreedUnused
  <2> QED
    BY <1>1, <1>5, <2>5, <2>6 DEF CInv
<1> QED
  BY <1>6, <1>7, <1>8 DEF NothingRegained

\* An owner is disposed when nothing else is left of its object.
LEMMA CallDisposeCareful ==
    ASSUME Careful, CInv, NEW t \in Threads, NEW p \in Proxies, CallDispose(t, p)
    PROVE  CInv' /\ NothingRegained
<1>1. IInv'
  BY CallDisposeStep DEF CInv
<1>2. /\ pc[t] = "idle" /\ pc' = [pc EXCEPT ![t] = "lock"] /\ self' = [self EXCEPT ![t] = p]
      /\ p \in referenced /\ referenced' = referenced \ GivenUp(p)
      /\ UNCHANGED <<alive, manual, paths, kept, loaded, swigCPtr, swigCMemOwn, kind,
                     args, handles, made, fault>>
  BY DEF CallDispose, At, Goto, heapVars, loaderVars, callVars
<1>3. /\ pc'[t] = "lock" /\ self'[t] = p
      /\ \A u \in Actors \ {t} : pc'[u] = pc[u] /\ self'[u] = self[u]
  BY <1>2 DEF CInv, IInv, TypeOK, Actors
<1>4. p \in GivenUp(p)
  BY <1>2 DEF GivenUp, Family
<1>5. NoFault' /\ PointersLive' /\ DisposedUnused'
  BY <1>2, <1>3, <1>4 DEF CInv, NoFault, PointersLive, DisposedUnused, Actors
<1>6. \A o : Unreachable(o) => Unreachable(o)'
  BY <1>2, <1>3 DEF Unreachable, PointerLeft, Actors
<1>7. FreedUnused'
  BY <1>2, <1>3, <1>6 DEF CInv, FreedUnused, Freeing, Actors
<1>8. ForgottenOwners'
  <2> SUFFICES ASSUME NEW q \in Proxies, swigCMemOwn[q], q \notin referenced'
               PROVE  /\ Unreachable(swigCPtr[q])'
                      /\ \A u \in Threads : swigCPtr[q] \in handles[u] =>
                             q \in args[u] /\ \A v \in Actors : self'[v] # q
    BY <1>2 DEF ForgottenOwners
  <2>1. CASE q \notin referenced
    BY <1>2, <1>3, <1>6, <2>1 DEF CInv, ForgottenOwners
  <2>2. CASE q \in referenced
    <3>1. swigCMemOwn[p] /\ swigCPtr[q] = swigCPtr[p] /\ GivenUp(p) = Family(p)
      BY <1>2, <2>2 DEF GivenUp, Family
    <3>2. ~ PointerLeft(swigCPtr[q]) /\ \A u \in Threads : swigCPtr[q] \notin handles[u]
      BY <3>1 DEF CallDispose, MayDelete
    <3>3. \A r \in referenced' : swigCPtr[r] # swigCPtr[q]
      BY <1>2, <3>1 DEF Family
    <3> QED
      BY <1>2, <1>3, <3>2, <3>3 DEF Unreachable, PointerLeft, Actors
  <2> QED
    BY <2>1, <2>2
<1> QED
  BY <1>1, <1>5, <1>7, <1>8, <1>6 DEF CInv, NothingRegained

\* An owner is dropped together with the other proxies of its object; calls that
\* still run with the object have the owner among their arguments.
LEMMA DropCareful ==
    ASSUME Careful, CInv, NEW p \in Proxies, Drop(p)
    PROVE  CInv' /\ NothingRegained
<1>1. IInv'
  BY DropStep DEF CInv
<1>2. /\ p \in referenced /\ referenced' = referenced \ GivenUp(p)
      /\ UNCHANGED <<alive, manual, paths, kept, loaded, swigCPtr, swigCMemOwn, pc, self,
                     kind, args, handles, made, fault>>
  BY DEF Drop, heapVars, loaderVars, callVars
<1>3. NoFault' /\ PointersLive' /\ DisposedUnused'
  BY <1>2 DEF CInv, NoFault, PointersLive, DisposedUnused
<1>4. \A o : Unreachable(o) => Unreachable(o)'
  BY <1>2 DEF Unreachable, PointerLeft
<1>5. FreedUnused'
  BY <1>2, <1>4 DEF CInv, FreedUnused, Freeing
<1>6. ForgottenOwners'
  <2> SUFFICES ASSUME NEW q \in Proxies, swigCMemOwn[q], q \notin referenced'
               PROVE  /\ Unreachable(swigCPtr[q])'
                      /\ \A u \in Threads : swigCPtr[q] \in handles[u] =>
                             q \in args[u] /\ \A v \in Actors : self[v] # q
    BY <1>2 DEF ForgottenOwners
  <2>1. CASE q \notin referenced
    BY <1>2, <1>4, <2>1 DEF CInv, ForgottenOwners
  <2>2. CASE q \in referenced
    <3>1. swigCMemOwn[p] /\ swigCPtr[q] = swigCPtr[p] /\ GivenUp(p) = Family(p)
      BY <1>2, <2>2 DEF GivenUp, Family
    <3>2. p = q
      BY <3>1 DEF CInv, IInv, ClaimsUnique
    <3>3. /\ ~ PointerLeft(swigCPtr[q])
          /\ \A u \in Threads : swigCPtr[q] \in handles[u] => q \in args[u]
      BY <3>1, <3>2 DEF Drop, MayDrop
    <3>4. \A r \in referenced' : swigCPtr[r] # swigCPtr[q]
      BY <1>2, <3>1 DEF Family
    <3>5. \A v \in Actors : self[v] # q
      BY <2>2 DEF CInv, DisposedUnused
    <3> QED
      BY <1>2, <3>3, <3>4, <3>5 DEF Unreachable, PointerLeft
  <2> QED
    BY <2>1, <2>2
<1> QED
  BY <1>1, <1>3, <1>5, <1>6, <1>4 DEF CInv, NothingRegained

\* What the collector takes is not an argument of a running call (HandleRef), so
\* that no call has its object in hand.
LEMMA CollectCareful ==
    ASSUME Careful, CInv, NEW p \in Proxies, Collect(p)
    PROVE  CInv' /\ NothingRegained
<1>1. IInv'
  BY CollectStep DEF CInv
<1>2. /\ p \notin referenced /\ \A t \in Threads : p \notin args[t]
      /\ pc[Finalizer] = "idle" /\ pc' = [pc EXCEPT ![Finalizer] = "lock"]
      /\ self' = [self EXCEPT ![Finalizer] = p]
      /\ UNCHANGED <<alive, manual, paths, kept, loaded, swigCPtr, swigCMemOwn, referenced,
                     kind, args, handles, made, fault>>
  BY DEF Collect, KeptAlive, At, Goto, heapVars, loaderVars, callVars
<1>3. /\ pc'[Finalizer] = "lock" /\ self'[Finalizer] = p
      /\ \A u \in Threads : pc'[u] = pc[u] /\ self'[u] = self[u]
  BY <1>2 DEF CInv, IInv, TypeOK, Actors
<1>4. NoFault' /\ PointersLive' /\ DisposedUnused'
  BY <1>2, <1>3 DEF CInv, NoFault, PointersLive, DisposedUnused, Actors
<1>5. \A o : Unreachable(o) => Unreachable(o)'
  BY <1>2, <1>3 DEF Unreachable, PointerLeft
<1>6. FreedUnused'
  BY <1>2, <1>3, <1>5 DEF CInv, FreedUnused, Freeing, Actors
<1>7. ForgottenOwners'
  BY <1>2, <1>3, <1>5 DEF CInv, ForgottenOwners, Actors
<1> QED
  BY <1>1, <1>4, <1>6, <1>7, <1>5 DEF CInv, NothingRegained

-------------------------------------------------------------------------------
(* Native calls and their bindings *)

\* A native function gets allocated objects only.
LEMMA NativeNoFault ==
    ASSUME CInv, NEW t \in Threads
    PROVE  FaultOf(t) = "none"
<1>1. Touched(t) \subseteq alive /\ Null \notin Touched(t)
  BY LiveNotNull DEF CInv, PointersLive, Touched
<1> QED
  BY <1>1 DEF FaultOf

\* What the functions that return at once do to the heap and to the stored arguments:
\* what is stored now was stored before or is an argument of ctlSetRuntimePath.
LEMMA AnswerFacts ==
    ASSUME CInv, NEW t \in Threads, Answer(t)
    PROVE  /\ alive' = IF kind[t] = "delete" THEN alive \ handles[t] ELSE alive
           /\ kind[t] = "delete" => UNCHANGED <<kept, loaded>>
           /\ ~ loaded' => \/ kept' = kept /\ ~ loaded
                           \/ kept' = Null
                           \/ kind[t] = "keep" /\ kept' \in handles[t]
<1> USE DEF heapVars, loaderVars
<1>1. AnswerHeap(t)
  BY NativeNoFault, AnswerHeaps DEF CInv
<1>2. alive' = IF kind[t] = "delete" THEN alive \ handles[t] ELSE alive
  BY <1>1 DEF AnswerHeap
<1>3. loaded \in BOOLEAN
  BY DEF CInv, IInv, TypeOK
<1>4. CASE Access(t) \/ SetPath(t) \/ Delete(t)
  BY <1>2, <1>4 DEF Access, SetPath, Delete
<1>5. CASE SetRuntimePath(t)
  BY <1>2, <1>5 DEF SetRuntimePath
<1>6. CASE InitApi(t)
  BY <1>2, <1>3, <1>6 DEF InitApi
<1>7. CASE CloseApi(t)
  BY <1>2, <1>7 DEF CloseApi, KeptAfterClose
<1> QED
  BY <1>4, <1>5, <1>6, <1>7 DEF Answer

\* What delete_XP frees is in nobody else's hands; what ctlSetRuntimePath keeps was
\* not given up, and what ctlInit will still read is not forgotten.
LEMMA AnswerCareful ==
    ASSUME Careful, CInv, NEW t \in Threads, Native(t), Answer(t)
    PROVE  CInv' /\ NothingRegained
<1>1. IInv'
  BY AnswerStep, NativeNoFault DEF CInv
<1>2. /\ pc[t] = "native" /\ pc' = [pc EXCEPT ![t] = "idle"]
      /\ kind' = [kind EXCEPT ![t] = "none"]
      /\ args' = [args EXCEPT ![t] = {}] /\ handles' = [handles EXCEPT ![t] = {}]
      /\ UNCHANGED <<swigCPtr, swigCMemOwn, referenced, self, made, fault>>
      /\ alive' = IF kind[t] = "delete" THEN alive \ handles[t] ELSE alive
  BY NativeNoFault, AnswerFacts DEF Native, Answer, At, Goto, proxyVars
<1>3. /\ pc'[t] = "idle" /\ args'[t] = {} /\ handles'[t] = {}
      /\ \A u \in Actors \ {t} : pc'[u] = pc[u]
      /\ \A u \in Threads \ {t} : kind'[u] = kind[u] /\ args'[u] = args[u] /\ handles'[u] = handles[u]
  BY <1>2 DEF CInv, IInv, TypeOK, Actors
<1>4. ~ loaded' => \/ kept' = kept /\ ~ loaded
                   \/ kept' = Null
                   \/ kind[t] = "keep" /\ kept' \in handles[t]
  BY AnswerFacts
<1>5. \A o \in Objects : Unreachable(o) => Unreachable(o)'
  <2> SUFFICES ASSUME NEW o \in Objects, Unreachable(o) PROVE Unreachable(o)'
    OBVIOUS
  <2>1. ~ (kept' = o /\ ~ loaded')
    BY <1>4, LiveNotNull, ProxyAssumption DEF Unreachable, PointerLeft
  <2>2. \A u \in Threads : ~ (pc'[u] = "return" /\ made'[u] = o)
    BY <1>2, <1>3 DEF Unreachable, PointerLeft, Actors
  <2>3. \A u \in Threads : ~ (o \in handles'[u] /\ kind'[u] \in {"keep", "member"})
    BY <1>2, <1>3 DEF Unreachable, PointerLeft
  <2>4. \A q \in referenced' : swigCPtr'[q] # o
    BY <1>2 DEF Unreachable
  <2> QED
    BY <2>1, <2>2, <2>3, <2>4 DEF Unreachable, PointerLeft
<1>6. NoFault' /\ DisposedUnused'
  BY <1>2 DEF CInv, NoFault, DisposedUnused
<1>7. PointersLive'
  <2>1. CASE kind[t] # "delete"
    BY <1>2, <1>3, <1>4, <2>1 DEF CInv, PointersLive, Actors
  <2>2. CASE kind[t] = "delete"
    <3>1. \A o \in handles[t] : Unreachable(o) /\ \A u \in Threads \ {t} : o \notin handles[u]
      BY <2>2 DEF CInv, FreedUnused
    <3> QED
      BY <1>2, <1>3, <1>4, <2>2, <3>1 DEF CInv, PointersLive, Unreachable, PointerLeft,
                                          Actors
  <2> QED
    BY <2>1, <2>2
<1>8. ForgottenOwners'
  BY <1>2, <1>3, <1>5 DEF CInv, IInv, ClaimsLive, TypeOK, ForgottenOwners
<1>9. FreedUnused'
  BY <1>2, <1>3, <1>5
     DEF CInv, IInv, ClaimsLive, TypeOK, PointersLive, FreedUnused, Freeing, Actors
<1> QED
  BY <1>1, <1>6, <1>7, <1>8, <1>9, <1>5 DEF CInv, NothingRegained

\* What is returned is a new object, which nobody has given up yet, or one whose
\* call kept it from being given up.
LEMMA MakeCareful ==
    ASSUME Careful, CInv, NEW t \in Threads, Native(t), NEW o \in Objects, Make(t, o)
    PROVE  CInv' /\ \A x : x # o /\ Unreachable(x) => Unreachable(x)'
<1>1. IInv'
  BY MakeStep, NativeNoFault DEF CInv
<1>2. /\ pc[t] = "native" /\ pc' = [pc EXCEPT ![t] = "return"]
      /\ args' = [args EXCEPT ![t] = {}] /\ handles' = [handles EXCEPT ![t] = {}]
      /\ made' = [made EXCEPT ![t] = o]
      /\ UNCHANGED <<kept, loaded, swigCPtr, swigCMemOwn, referenced, kind, self, fault>>
      /\ alive \subseteq alive' /\ o \in alive'
      /\ o \in alive => o \in handles[t] /\ kind[t] = "member"
  BY NativeNoFault DEF Native, Make, At, Goto, loaderVars, proxyVars, CInv, PointersLive
<1>3. /\ pc'[t] = "return" /\ args'[t] = {} /\ handles'[t] = {} /\ made'[t] = o
      /\ \A u \in Actors \ {t} : pc'[u] = pc[u]
      /\ \A u \in Threads \ {t} :
             args'[u] = args[u] /\ handles'[u] = handles[u] /\ made'[u] = made[u]
  BY <1>2 DEF CInv, IInv, TypeOK, Actors
<1>4. NoFault' /\ PointersLive' /\ DisposedUnused'
  BY <1>2, <1>3 DEF CInv, NoFault, PointersLive, DisposedUnused, Actors
<1>5. \A x : x # o /\ Unreachable(x) => Unreachable(x)'
  <2> SUFFICES ASSUME NEW x, x # o, Unreachable(x) PROVE Unreachable(x)'
    OBVIOUS
  <2>1. ~ (kept' = x /\ ~ loaded') /\ \A u \in Threads : ~ (pc'[u] = "return" /\ made'[u] = x)
    BY <1>2, <1>3 DEF Unreachable, PointerLeft, Actors
  <2>2. \A u \in Threads : ~ (x \in handles'[u] /\ kind'[u] \in {"keep", "member"})
    BY <1>2, <1>3 DEF Unreachable, PointerLeft
  <2> QED
    BY <1>2, <2>1, <2>2 DEF Unreachable, PointerLeft
<1>6. o \in alive => ~ Unreachable(o)
  BY <1>2 DEF Unreachable, PointerLeft
<1>7. ForgottenOwners'
  BY <1>2, <1>3, <1>5, <1>6 DEF CInv, IInv, ClaimsLive, ForgottenOwners
<1>8. FreedUnused'
  BY <1>2, <1>3, <1>5, <1>6 DEF CInv, IInv, ClaimsLive, PointersLive, FreedUnused,
                                Freeing, Actors
<1> QED
  BY <1>1, <1>4, <1>5, <1>7, <1>8 DEF CInv

LEMMA NativeCareful ==
    ASSUME Careful, CInv, NEW t \in Threads, Native(t)
    PROVE  CInv'
BY NativeNoFault, AnswerCareful, MakeCareful DEF Native

\* The proxy that is made was in nobody's use, and its object is not given up.
LEMMA WrapCareful ==
    ASSUME Careful, CInv, NEW t \in Threads, NEW p \in Proxies, Wrap(t, p)
    PROVE  CInv' /\ NothingRegained
<1>1. IInv'
  BY WrapStep DEF CInv
<1>2. /\ pc[t] = "return" /\ pc' = [pc EXCEPT ![t] = "idle"]
      /\ p \notin referenced /\ \A u \in Actors : self[u] # p
      /\ swigCPtr' = [swigCPtr EXCEPT ![p] = made[t]]
      /\ referenced' = referenced \cup {p}
      /\ made' = [made EXCEPT ![t] = Null]
      /\ kind' = [kind EXCEPT ![t] = "none"]
      /\ UNCHANGED <<alive, manual, paths, kept, loaded, args, handles, self, fault>>
  BY DEF Wrap, Unused, At, Goto, heapVars, loaderVars
<1>3. /\ pc'[t] = "idle" /\ swigCPtr'[p] = made[t] /\ made[t] \in alive
      /\ \A u \in Actors \ {t} : pc'[u] = pc[u]
      /\ \A u \in Threads \ {t} : made'[u] = made[u] /\ kind'[u] = kind[u]
      /\ kind'[t] = "none"
      /\ \A q \in Proxies \ {p} : swigCPtr'[q] = swigCPtr[q] /\ swigCMemOwn'[q] = swigCMemOwn[q]
  BY <1>2 DEF Wrap, CInv, IInv, TypeOK, PointersLive, Actors
<1>4. NoFault' /\ PointersLive' /\ DisposedUnused'
  BY <1>2, <1>3 DEF CInv, IInv, TypeOK, NoFault, PointersLive, DisposedUnused, Actors
<1>5. \A x : Unreachable(x) => Unreachable(x)'
  <2> SUFFICES ASSUME NEW x, Unreachable(x) PROVE Unreachable(x)'
    OBVIOUS
  <2>1. x # made[t]
    BY <1>2 DEF Unreachable, PointerLeft
  <2>2. \A u \in Threads : ~ (pc'[u] = "return" /\ made'[u] = x)
    BY <1>2, <1>3 DEF Unreachable, PointerLeft, Actors
  <2>3. \A q \in referenced' : swigCPtr'[q] # x
    BY <1>2, <1>3, <2>1 DEF CInv, IInv, TypeOK, Unreachable
  <2> QED
    BY <1>2, <2>2, <2>3 DEF Unreachable, PointerLeft
<1>6. ForgottenOwners'
  BY <1>2, <1>3, <1>5 DEF CInv, ForgottenOwners
<1>7. FreedUnused'
  <2>1. \A u \in Actors : Freeing(u)' =>
            Freeing(u) /\ self'[u] = self[u] /\ swigCPtr'[self'[u]] = swigCPtr[self[u]]
    BY <1>2, <1>3 DEF CInv, IInv, DisposeInv, Disposing, Freeing, Actors
  <2> QED
    BY <1>2, <1>5, <2>1 DEF CInv, FreedUnused
<1> QED
  BY <1>1, <1>4, <1>6, <1>7, <1>5 DEF CInv, NothingRegained

-------------------------------------------------------------------------------
(* Dispose and the finalizer *)

\* Steps that leave the application's proxies and calls and the heap alone.
LEMMA SameUse ==
    ASSUME CInv, NEW t \in Actors,
           UNCHANGED <<kept, loaded, referenced, swigCPtr, kind, handles, made>>,
           \A u \in Actors \ {t} : pc'[u] = pc[u], pc'[t] # "return"
    PROVE  \A o : Unreachable(o) => Unreachable(o)'
BY DEF Unreachable, PointerLeft, Actors

LEMMA DisposeLockCareful ==
    ASSUME Careful, CInv, NEW t \in Actors, DisposeLock(t)
    PROVE  CInv' /\ NothingRegained
<1>1. IInv'
  BY DisposeLockStep DEF CInv
<1>2. /\ pc[t] = "lock" /\ pc' = [pc EXCEPT ![t] = "test"]
      /\ UNCHANGED <<alive, manual, paths, kept, loaded, swigCPtr, swigCMemOwn,
                     referenced, self,
                     kind, args, handles, made, fault>>
  BY DEF DisposeLock, At, Goto, heapVars, loaderVars, callVars
<1>3. pc'[t] = "test" /\ \A u \in Actors \ {t} : pc'[u] = pc[u]
  BY <1>2 DEF CInv, IInv, TypeOK
<1>4. \A o : Unreachable(o) => Unreachable(o)'
  BY <1>2, <1>3, SameUse
<1>5. NoFault' /\ PointersLive' /\ DisposedUnused'
  BY <1>2, <1>3 DEF CInv, NoFault, PointersLive, DisposedUnused, Actors
<1>6. ForgottenOwners' /\ FreedUnused'
  BY <1>2, <1>3, <1>4 DEF CInv, ForgottenOwners, FreedUnused, Freeing
<1> QED
  BY <1>1, <1>5, <1>6, <1>4 DEF CInv, NothingRegained

\* The thread that is to free the object disposes its owner, which the application
\* has given up.
LEMMA DisposeTestCareful ==
    ASSUME Careful, CInv, NEW t \in Actors, DisposeTest(t)
    PROVE  CInv' /\ NothingRegained
<1>1. IInv'
  BY DisposeTestStep DEF CInv
<1>2. /\ pc[t] = "test" /\ pc'[t] \in {"free", "clear"}
      /\ \A u \in Actors \ {t} : pc'[u] = pc[u]
      /\ pc'[t] = "free" => swigCMemOwn[self[t]]
      /\ \A q \in Proxies : swigCMemOwn'[q] => swigCMemOwn[q]
      /\ UNCHANGED <<alive, manual, paths, kept, loaded, swigCPtr, referenced, self,
                     kind, args, handles, made, fault>>
  BY DEF DisposeTest, Deletes, OwnAfterTest, At, Goto, heapVars, loaderVars, callVars,
         CInv, IInv, TypeOK
<1>3. self[t] \in Proxies
  BY <1>2 DEF CInv, IInv, DisposeInv, Disposing
<1>4. \A o : Unreachable(o) => Unreachable(o)'
  BY <1>2, SameUse
<1>5. NoFault' /\ PointersLive' /\ DisposedUnused'
  BY <1>2 DEF CInv, NoFault, PointersLive, DisposedUnused, Actors
<1>6. ForgottenOwners'
  BY <1>2, <1>4 DEF CInv, ForgottenOwners
<1>7. FreedUnused'
  <2>1. pc'[t] = "free" => /\ Unreachable(swigCPtr[self[t]])
                           /\ \A u \in Threads : swigCPtr[self[t]] \notin handles[u]
    BY <1>2, <1>3 DEF CInv, DisposedUnused, ForgottenOwners
  <2> QED
    BY <1>2, <1>4, <2>1 DEF CInv, FreedUnused, Freeing
<1> QED
  BY <1>1, <1>5, <1>6, <1>7, <1>4 DEF CInv, NothingRegained

\* What is freed is no longer in use.
LEMMA DisposeFreeCareful ==
    ASSUME Careful, CInv, NEW t \in Actors, DisposeFree(t)
    PROVE  CInv' /\ NothingRegained
<1> DEFINE o == swigCPtr[self[t]]
<1>1. IInv'
  BY DisposeFreeStep DEF CInv
<1>2. /\ Freeing(t) /\ o \in alive
      /\ Unreachable(o) /\ \A u \in Threads : o \notin handles[u]
  BY DEF DisposeFree, At, CInv, IInv, ClaimsLive, Freeing, FreedUnused
<1>3. /\ pc[t] = "free" /\ pc' = [pc EXCEPT ![t] = "clear"] /\ alive' = alive \ {o}
      /\ UNCHANGED <<manual, kept, loaded, swigCPtr, swigCMemOwn, referenced, self,
                     kind, args, handles, made, fault>>
  BY <1>2 DEF DisposeFree, At, Goto, loaderVars, proxyVars, callVars
<1>4. pc'[t] = "clear" /\ \A u \in Actors \ {t} : pc'[u] = pc[u]
  BY <1>3 DEF CInv, IInv, TypeOK
<1>5. \A x : Unreachable(x) => Unreachable(x)'
  BY <1>3, <1>4, SameUse
<1>6. NoFault' /\ PointersLive' /\ DisposedUnused'
  BY <1>2, <1>3, <1>4
     DEF CInv, NoFault, PointersLive, DisposedUnused, Unreachable, PointerLeft, Actors
<1>7. ForgottenOwners' /\ FreedUnused'
  BY <1>3, <1>4, <1>5 DEF CInv, ForgottenOwners, FreedUnused, Freeing
<1> QED
  BY <1>1, <1>6, <1>7, <1>5 DEF CInv, NothingRegained

\* Only a proxy that is no longer used loses its pointer.
LEMMA DisposeClearCareful ==
    ASSUME Careful, CInv, NEW t \in Actors, DisposeClear(t)
    PROVE  CInv' /\ NothingRegained
<1> DEFINE p == self[t]
<1>1. IInv'
  BY DisposeClearStep DEF CInv
<1>2. /\ pc[t] = "clear" /\ p \in Proxies /\ p \notin referenced
      /\ lock[p] = t /\ ~ swigCMemOwn[p]
  BY DEF DisposeClear, At, CInv, IInv, DisposeInv, Disposing, DisposedUnused
<1>3. /\ swigCPtr' = [swigCPtr EXCEPT ![p] = Null]
      /\ pc'[t] \in {"idle", "suppress"} /\ \A u \in Actors \ {t} : pc'[u] = pc[u]
      /\ self'[t] \in {p, NoProxy} /\ \A u \in Actors \ {t} : self'[u] = self[u]
      /\ UNCHANGED <<alive, manual, paths, kept, loaded, swigCMemOwn, referenced,
                     kind, args, handles, made, fault>>
  BY DEF DisposeClear, At, Goto, heapVars, loaderVars, callVars, CInv, IInv, TypeOK
<1>4. \A q \in Proxies \ {p} : swigCPtr'[q] = swigCPtr[q]
  BY <1>3 DEF CInv, IInv, TypeOK
<1>5. referenced \subseteq Proxies \ {p} /\ NoProxy \notin referenced
  BY <1>2 DEF CInv, IInv, TypeOK
<1>6. NoFault' /\ PointersLive' /\ DisposedUnused'
  BY <1>2, <1>3, <1>4, <1>5 DEF CInv, NoFault, PointersLive, DisposedUnused, Actors
<1>7. \A o : Unreachable(o) => Unreachable(o)'
  BY <1>2, <1>3, <1>4, <1>5 DEF Unreachable, PointerLeft, Actors
<1>8. ForgottenOwners'
  <2>1. \A q \in Proxies : swigCMemOwn'[q] => q # p /\ swigCMemOwn[q]
    BY <1>2, <1>3
  <2>2. \A u \in Actors : self'[u] \in {self[u], NoProxy}
    BY <1>3
  <2> QED
    BY <1>3, <1>4, <1>7, <2>1, <2>2 DEF CInv, ForgottenOwners
<1>9. FreedUnused'
  <2>1. \A u \in Actors : Freeing(u)' =>
            Freeing(u) /\ self'[u] = self[u] /\ swigCPtr'[self'[u]] = swigCPtr[self[u]]
    BY <1>2, <1>3, <1>4 DEF CInv, IInv, DisposeInv, Disposing, Freeing
  <2> QED
    BY <1>3, <1>7, <2>1 DEF CInv, FreedUnused
<1> QED
  BY <1>1, <1>6, <1>8, <1>9, <1>7 DEF CInv, NothingRegained

LEMMA SuppressCareful ==
    ASSUME Careful, CInv, NEW t \in Threads, Suppress(t)
    PROVE  CInv' /\ NothingRegained
<1>1. IInv'
  BY SuppressStep DEF CInv
<1>2. /\ pc[t] = "suppress" /\ pc' = [pc EXCEPT ![t] = "idle"]
      /\ self' = [self EXCEPT ![t] = NoProxy]
      /\ UNCHANGED <<alive, manual, paths, kept, loaded, swigCPtr, swigCMemOwn, referenced,
                     kind, args, handles, made, fault>>
  BY DEF Suppress, At, Goto, heapVars, loaderVars, callVars
<1>3. /\ t \in Actors /\ pc'[t] = "idle" /\ self'[t] = NoProxy
      /\ \A u \in Actors \ {t} : pc'[u] = pc[u] /\ self'[u] = self[u]
  BY <1>2 DEF CInv, IInv, TypeOK, Actors
<1>4. NoProxy \notin Proxies /\ referenced \subseteq Proxies
  BY DEF CInv, IInv, TypeOK
<1>5. \A o : Unreachable(o) => Unreachable(o)'
  BY <1>2, <1>3, SameUse
<1>6. NoFault' /\ PointersLive' /\ DisposedUnused'
  BY <1>2, <1>3, <1>4 DEF CInv, NoFault, PointersLive, DisposedUnused, Actors
<1>7. ForgottenOwners' /\ FreedUnused'
  BY <1>2, <1>3, <1>4, <1>5 DEF CInv, ForgottenOwners, FreedUnused, Freeing
<1> QED
  BY <1>1, <1>6, <1>7, <1>5 DEF CInv, NothingRegained

LEMMA DisposeStepCareful ==
    ASSUME Careful, CInv, NEW t \in Actors, DisposeStep(t)
    PROVE  CInv' /\ NothingRegained
BY DisposeLockCareful, DisposeTestCareful, DisposeFreeCareful, DisposeClearCareful
   DEF DisposeStep

LEMMA StutterCareful == CInv /\ UNCHANGED vars => CInv'
BY StutterStep DEF CInv, vars, heapVars, loaderVars, proxyVars, callVars, NoFault,
                   PointersLive,
   ForgottenOwners, FreedUnused, DisposedUnused, Unreachable, PointerLeft, Freeing

LEMMA CInvStep == Careful /\ CInv /\ [Next]_vars => CInv'
<1> SUFFICES ASSUME Careful, CInv, [Next]_vars PROVE CInv'
  OBVIOUS
<1>1. ASSUME NEW t \in Threads, NEW k \in Calls, NEW ps \in SUBSET Proxies,
             CallNative(t, k, ps)
      PROVE  CInv'
  BY <1>1, CallNativeCareful
<1>2. ASSUME NEW t \in Threads, NEW p \in Proxies, CallDispose(t, p) PROVE CInv'
  BY <1>2, CallDisposeCareful
<1>3. ASSUME NEW t \in Threads, Finish(t) PROVE CInv'
  BY <1>3, NativeCareful, WrapCareful, DisposeStepCareful, SuppressCareful DEF Finish,
                                                                               Actors
<1>4. ASSUME DisposeStep(Finalizer) PROVE CInv'
  BY <1>4, DisposeStepCareful DEF Actors
<1>5. ASSUME NEW p \in Proxies, Drop(p) \/ Collect(p) PROVE CInv'
  BY <1>5, DropCareful, CollectCareful
<1>6. CASE UNCHANGED vars
  BY <1>6, StutterCareful
<1> QED
  BY <1>1, <1>2, <1>3, <1>4, <1>5, <1>6 DEF Next

-------------------------------------------------------------------------------
\* As long as the application gives up an object only when it is done with it, no
\* native function gets a null pointer or one to a freed object, however the
\* collector, the finalizer and the application's threads interleave: HandleRef and
\* swigCMemOwn (ctl_power_limits_t.cs:14-59) then protect every call.
THEOREM CarefulNeverFaults == Careful => (Spec => []NoFault)
<1> SUFFICES ASSUME Careful PROVE Spec => []NoFault
  OBVIOUS
<1>1. CInv /\ [Next]_vars => CInv'
  BY CInvStep
<1>2. CInv => NoFault
  BY DEF CInv
<1> QED
  BY CInvInit, <1>1, <1>2, PTL DEF Spec

-------------------------------------------------------------------------------
(* Refinement: each step of a careful application, of the bindings and of the    *)
(* collector is a step of ObjectLives, or stutters.                              *)

Reachable == {o \in Objects : ~ Unreachable(o)}

\* A thread has objects in hand only while its native function runs.
HandsInv == \A t \in Threads : pc[t] # "native" => handles[t] = {}

LEMMA HandsStep == TypeOK /\ HandsInv /\ [Next]_vars => HandsInv'
<1> SUFFICES ASSUME TypeOK, HandsInv, [Next]_vars PROVE HandsInv'
  OBVIOUS
<1> USE DEF TypeOK, HandsInv, At, Goto, callVars, Actors
<1>1. ASSUME NEW t \in Threads, NEW k \in Calls, NEW ps \in SUBSET Proxies,
             CallNative(t, k, ps)
      PROVE  HandsInv'
  BY <1>1 DEF CallNative
<1>2. ASSUME NEW t \in Threads, NEW p \in Proxies, CallDispose(t, p) PROVE HandsInv'
  BY <1>2 DEF CallDispose
<1>3. ASSUME NEW t \in Threads, Native(t) PROVE HandsInv'
  BY <1>3 DEF Native, Answer, Make, Crash
<1>4. ASSUME NEW t \in Threads, NEW p \in Proxies, Wrap(t, p) PROVE HandsInv'
  BY <1>4 DEF Wrap
<1>5. ASSUME NEW t \in Actors, DisposeStep(t) PROVE HandsInv'
  BY <1>5 DEF DisposeStep, DisposeLock, DisposeTest, DisposeFree, DisposeClear, Crash
<1>6. ASSUME NEW t \in Threads, Suppress(t) PROVE HandsInv'
  BY <1>6 DEF Suppress
<1>7. ASSUME NEW p \in Proxies, Drop(p) \/ Collect(p) PROVE HandsInv'
  BY <1>7 DEF Drop, Collect
<1>8. CASE UNCHANGED vars
  BY <1>8 DEF vars
<1> QED
  BY <1>1, <1>2, <1>3, <1>4, <1>5, <1>6, <1>7, <1>8 DEF Next, Finish

LEMMA LivesInit == Init => Lives!Init
BY DEF Init, Lives!Init, Unreachable, PointerLeft, Actors

\* Steps that free, make and use nothing.
LEMMA LivesGiveUp ==
    ASSUME NothingRegained, UNCHANGED <<alive, handles>>
    PROVE  Lives!Next
<1>1. Reachable' \in SUBSET Reachable
  BY DEF NothingRegained, Reachable
<1> QED
  BY <1>1 DEF Reachable, Lives!Next, Lives!GiveUp

LEMMA LivesCall ==
    ASSUME Careful, CInv, HandsInv, NEW t \in Threads, NEW k \in Calls, NEW ps \in SUBSET Proxies,
           CallNative(t, k, ps)
    PROVE  Lives!Next
<1> DEFINE hs == {swigCPtr[p] : p \in ps}
<1>1. NothingRegained
  BY CallNativeCareful
<1>2. handles[t] = {} /\ handles' = [handles EXCEPT ![t] = hs] /\ alive' = alive
  BY DEF CallNative, At, HandsInv, heapVars, loaderVars
<1>3. hs \subseteq Reachable
  BY DEF CallNative, CInv, IInv, TypeOK, PointersLive, Reachable, Unreachable
<1> HIDE DEF hs
<1>4. Reachable' \in SUBSET Reachable /\ hs \in SUBSET Objects
  BY <1>1, <1>3 DEF NothingRegained, Reachable
<1>5. Lives!Call(t, hs)
  BY <1>2, <1>3, <1>4 DEF Reachable, Lives!Call, Lives!Working, Lives!GiveUp
<1> QED
  BY <1>4, <1>5 DEF Lives!Next

\* delete_XP frees what it was given; every other call returns.
LEMMA LivesAnswer ==
    ASSUME Careful, CInv, NEW t \in Threads, Native(t), Answer(t)
    PROVE  Lives!Next
<1>1. NothingRegained
  BY AnswerCareful
<1>2. /\ pc[t] = "native" /\ pc' = [pc EXCEPT ![t] = "idle"]
      /\ kind' = [kind EXCEPT ![t] = "none"]
      /\ handles' = [handles EXCEPT ![t] = {}]
      /\ UNCHANGED <<swigCPtr, referenced, made>>
      /\ alive' = IF kind[t] = "delete" THEN alive \ handles[t] ELSE alive
  BY NativeNoFault, AnswerFacts DEF Native, Answer, At, Goto, proxyVars
<1>3. Reachable' \in SUBSET Reachable
  BY <1>1 DEF NothingRegained, Reachable
<1>4. CASE kind[t] # "delete"
  <2>1. Lives!Return(t)
    BY <1>2, <1>3, <1>4 DEF Reachable, Lives!Return, Lives!Working, Lives!GiveUp
  <2> QED
    BY <2>1 DEF Lives!Next
<1>5. CASE kind[t] = "delete"
  <2>1. /\ handles[t] \cap Reachable = {}
        /\ \A u \in Threads \ {t} : handles[t] \cap handles[u] = {}
    BY <1>5 DEF CInv, FreedUnused, Reachable
  <2>2. \A o \in Objects : Unreachable(o)' => Unreachable(o)
    <3>1. UNCHANGED <<kept, loaded>>
      BY <1>5, AnswerFacts
    <3>2. /\ handles'[t] = {} /\ pc'[t] = "idle"
          /\ \A u \in Threads \ {t} : 
                  pc'[u] = pc[u] /\ handles'[u] = handles[u] /\ kind'[u] = kind[u]
      BY <1>2 DEF CInv, IInv, TypeOK, Actors
    <3> QED
      BY <1>2, <1>5, <3>1, <3>2 DEF Unreachable, PointerLeft
  <2>3. Reachable' = Reachable
    BY <1>3, <2>2 DEF Reachable
  <2>4. Lives!Delete(t)
    BY <1>2, <1>5, <2>1, <2>3
       DEF Reachable, Lives!Delete, Lives!Working, Lives!InOthersUse
  <2> QED
    BY <2>4 DEF Lives!Next
<1> QED
  BY <1>4, <1>5

\* What a call returns is new, or a member of what it was given.
LEMMA LivesMake ==
    ASSUME Careful, CInv, NEW t \in Threads, Native(t), NEW o \in Objects, Make(t, o)
    PROVE  Lives!Next
<1>1. \A x : x # o /\ Unreachable(x) => Unreachable(x)'
  BY MakeCareful
<1>2. /\ pc[t] = "native" /\ pc' = [pc EXCEPT ![t] = "return"]
      /\ handles' = [handles EXCEPT ![t] = {}] /\ made' = [made EXCEPT ![t] = o]
      /\ UNCHANGED <<kept, loaded, swigCPtr, referenced, kind>>
  BY NativeNoFault DEF Native, Make, Goto, At, loaderVars, proxyVars
<1>3. /\ handles'[t] = {} /\ pc'[t] = "return" /\ made'[t] = o
      /\ \A u \in Threads \ {t} :
             pc'[u] = pc[u] /\ handles'[u] = handles[u] /\ made'[u] = made[u]
  BY <1>2 DEF CInv, IInv, TypeOK, Actors
<1>4. CASE kind[t] = "member"
  <2>1. o \in Reachable /\ alive' = alive
    BY <1>4 DEF Make, Owned, Manual, Reachable, Unreachable, PointerLeft
  <2>2. Reachable' \in SUBSET Reachable
    BY <1>1, <2>1 DEF Reachable
  <2>3. Lives!Return(t)
    BY <1>2, <2>1, <2>2 DEF Reachable, Lives!Return, Lives!Working, Lives!GiveUp
  <2> QED
    BY <2>3 DEF Lives!Next
<1>5. CASE kind[t] # "member"
  <2>1. o \notin alive /\ alive' = alive \cup {o} /\ kind[t] \notin {"keep", "member"}
    BY <1>5 DEF Make, Owned, Manual
  <2>2. \A x \in Objects : Unreachable(x)' => Unreachable(x)
    BY <1>2, <1>3, <2>1 DEF Unreachable, PointerLeft, Actors
  <2>3. ~ Unreachable(o)'
    BY <1>3 DEF Unreachable, PointerLeft
  <2>4. Reachable' = Reachable \cup {o}
    BY <1>1, <2>2, <2>3 DEF Reachable
  <2>5. Lives!Create(t, o)
    BY <1>2, <2>1, <2>4 DEF Reachable, Lives!Create, Lives!Working
  <2> QED
    BY <2>5 DEF Lives!Next
<1> QED
  BY <1>4, <1>5

\* Dispose and the finalizer free an object that nobody can get at.
LEMMA LivesFree ==
    ASSUME Careful, CInv, NEW t \in Actors, DisposeFree(t)
    PROVE  Lives!Next
<1> DEFINE o == swigCPtr[self[t]]
<1>1. Freeing(t) /\ o \in alive /\ alive' = alive \ {o} /\ pc' = [pc EXCEPT ![t] = "clear"]
      /\ UNCHANGED <<loaderVars, proxyVars, callVars>>
  BY DEF DisposeFree, At, Goto, Freeing, loaderVars, CInv, IInv, ClaimsLive
<1>2. o \notin Reachable /\ \A u \in Threads : o \notin handles[u]
  BY <1>1 DEF CInv, FreedUnused, Reachable
<1>3. \A x \in Objects : Unreachable(x)' => Unreachable(x)
  <2>1. pc[t] = "free" /\ \A u \in Actors \ {t} : pc'[u] = pc[u]
    BY <1>1 DEF Freeing, CInv, IInv, TypeOK
  <2> QED
    BY <1>1, <2>1 DEF Unreachable, PointerLeft, Actors, loaderVars, proxyVars, callVars
<1>4. Reachable' = Reachable
  BY <1>3, DisposeFreeCareful DEF NothingRegained, Reachable
<1>5. o \in Objects
  BY <1>1 DEF CInv, IInv, TypeOK
<1> HIDE DEF o
<1>6. Lives!Reclaim(o)
  BY <1>1, <1>2, <1>4 DEF Reachable, Lives!Reclaim, callVars
<1> QED
  BY <1>5, <1>6 DEF Lives!Next

LEMMA LivesStep == Careful /\ CInv /\ HandsInv /\ [Next]_vars => [Lives!Next]_Lives!lvars
<1> SUFFICES ASSUME Careful, CInv, HandsInv, [Next]_vars PROVE [Lives!Next]_Lives!lvars
  OBVIOUS
<1>1. ASSUME NEW t \in Threads, NEW k \in Calls, NEW ps \in SUBSET Proxies,
             CallNative(t, k, ps)
      PROVE  Lives!Next
  BY <1>1, LivesCall
<1>2. ASSUME NEW t \in Threads, NEW p \in Proxies, CallDispose(t, p) \/ Wrap(t, p)
      PROVE  Lives!Next
  BY <1>2, CallDisposeCareful, WrapCareful, LivesGiveUp
     DEF CallDispose, Wrap, heapVars, loaderVars, callVars
<1>3. ASSUME NEW t \in Threads, Native(t) PROVE Lives!Next
  BY <1>3, NativeNoFault, LivesAnswer, LivesMake DEF Native
<1>4. ASSUME NEW t \in Actors, DisposeStep(t) PROVE Lives!Next
  <2>1. CASE DisposeFree(t)
    BY <2>1, LivesFree
  <2>2. CASE ~ DisposeFree(t)
    <3>1. NothingRegained
      BY <1>4, DisposeStepCareful
    <3>2. UNCHANGED <<alive, handles>>
      BY <1>4, <2>2 DEF DisposeStep, DisposeLock, DisposeTest, DisposeClear, heapVars,
                        loaderVars, callVars
    <3> QED
      BY <3>1, <3>2, LivesGiveUp
  <2> QED
    BY <2>1, <2>2
<1>5. ASSUME NEW t \in Threads, Suppress(t) PROVE Lives!Next
  BY <1>5, SuppressCareful, LivesGiveUp DEF Suppress, heapVars, loaderVars, callVars
<1>6. ASSUME NEW p \in Proxies, Drop(p) \/ Collect(p) PROVE Lives!Next
  BY <1>6, DropCareful, CollectCareful, LivesGiveUp DEF Drop, Collect, heapVars,
                                                        loaderVars, callVars
<1>7. CASE UNCHANGED vars
  BY <1>7 DEF vars, heapVars, loaderVars, proxyVars, callVars, Lives!lvars, Unreachable,
              PointerLeft
<1> QED
  BY <1>1, <1>2, <1>3, <1>4, <1>5, <1>6, <1>7 DEF Next, Finish, Actors

\* The proxies of a careful application implement the lives of native objects: what
\* it has given up it never gets at again, and Dispose, the finalizer and delete_XP
\* free an object once, when it is given up and no call works on it.
THEOREM LivesRefinement == Careful => (Spec => ImplementsLives)
<1> SUFFICES ASSUME Careful PROVE Spec => ImplementsLives
  OBVIOUS
<1>1. Init => CInv /\ HandsInv
  BY CInvInit DEF Init, HandsInv
<1>2. CInv /\ HandsInv /\ [Next]_vars => (CInv /\ HandsInv)'
  BY CInvStep, HandsStep DEF CInv, IInv
<1>3. CInv /\ HandsInv /\ [Next]_vars => [Lives!Next]_Lives!lvars
  BY LivesStep
<1> QED
  BY LivesInit, <1>1, <1>2, <1>3, PTL DEF Spec, ImplementsLives, Lives!Spec

\* Whatever implements the lives of native objects uses no object that is not there.
THEOREM LivesPromise == ImplementsLives => []Lives!UsedExists
<1>1. Lives!Init => Lives!UsedExists
  BY DEF Lives!Init, Lives!UsedExists
<1>2. Lives!UsedExists /\ [Lives!Next]_Lives!lvars => Lives!UsedExists'
  <2> SUFFICES ASSUME Lives!UsedExists, [Lives!Next]_Lives!lvars PROVE Lives!UsedExists'
    OBVIOUS
  <2> USE DEF Lives!UsedExists, Lives!GiveUp, Lives!Working
  <2>1. ASSUME NEW t \in Threads, NEW S \in SUBSET Objects, Lives!Call(t, S)
        PROVE  Lives!UsedExists'
    BY <2>1 DEF Lives!Call
  <2>2. ASSUME NEW t \in Threads, Lives!Return(t) PROVE Lives!UsedExists'
    BY <2>2 DEF Lives!Return
  <2>3. ASSUME NEW t \in Threads, NEW o \in Objects, Lives!Create(t, o)
        PROVE  Lives!UsedExists'
    BY <2>3 DEF Lives!Create
  <2>4. ASSUME NEW t \in Threads, Lives!Delete(t) PROVE Lives!UsedExists'
    BY <2>4 DEF Lives!Delete, Lives!InOthersUse
  <2>5. ASSUME NEW o \in Objects, Lives!Reclaim(o) PROVE Lives!UsedExists'
    BY <2>5 DEF Lives!Reclaim
  <2>6. CASE Lives!GiveUp /\ UNCHANGED <<alive, handles>>
    BY <2>6
  <2>7. CASE UNCHANGED Lives!lvars
    BY <2>7 DEF Lives!lvars
  <2> QED
    BY <2>1, <2>2, <2>3, <2>4, <2>5, <2>6, <2>7 DEF Lives!Next
<1> QED
  BY <1>1, <1>2, PTL DEF ImplementsLives, Lives!Spec
===============================================================================
