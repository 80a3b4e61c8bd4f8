---------------------------- MODULE SwigProxyProofs ----------------------------
(***************************************************************************)
(* Proofs about SwigProxy, for every set of threads, proxies and objects   *)
(* and for careful and careless applications alike: what Dispose and the   *)
(* finalizer keep to, however the application behaves.                     *)
(***************************************************************************)
EXTENDS SwigProxy, TLAPS

USE ProxyAssumption

-------------------------------------------------------------------------------
LEMMA IInvInit == Init => IInv
<1> SUFFICES ASSUME Init PROVE IInv
  OBVIOUS
<1> USE DEF Init
<1>1. TypeOK
  BY DEF TypeOK, Actors, Kinds, Disposing
<1>2. NoDoubleFree
  BY DEF NoDoubleFree
<1>3. ClaimsLive /\ ClaimsUnique /\ ClaimsComplete /\ OwnersFinalizable
  BY DEF ClaimsLive, ClaimsUnique, ClaimsComplete, OwnersFinalizable, Returning, Freeing, Actors
<1>4. \A t \in Actors : DisposeInv(t)
  BY DEF DisposeInv, Disposing
<1>5. DeleteInv
  BY DEF DeleteInv, Actors
<1> QED
  BY <1>1, <1>2, <1>3, <1>4, <1>5 DEF IInv

\* A proxy that is not in use owns nothing.
LEMMA UnusedOwnsNothing ==
    ASSUME IInv, NEW p \in Proxies, Unused(p)
    PROVE  ~ swigCMemOwn[p]
BY DEF IInv, OwnersFinalizable, Unused, InDispose, Actors

-------------------------------------------------------------------------------
(* Steps that leave the native heap and the ownership of the proxies alone.  *)

LEMMA SameOwners ==
    ASSUME IInv, TypeOK',
           UNCHANGED <<alive, manual, swigCPtr, swigCMemOwn>>,
           \A t \in Threads : Returning(t)' <=> Returning(t),
           \A t \in Threads : Returning(t) => made'[t] = made[t],
           \A t \in Actors : Freeing(t)' <=> Freeing(t),
           \A t \in Actors : Freeing(t) => self'[t] = self[t]
    PROVE  ClaimsLive' /\ ClaimsUnique' /\ ClaimsComplete'
<1> USE DEF IInv, Actors
<1>1. ClaimsLive'
  BY DEF ClaimsLive
<1>2. ClaimsUnique'
  BY DEF ClaimsUnique
<1>3. ClaimsComplete'
  BY DEF ClaimsComplete
<1> QED
  BY <1>1, <1>2, <1>3

LEMMA CallNativeStep ==
    ASSUME IInv, NEW t \in Threads, NEW k \in Calls, NEW ps \in SUBSET Proxies,
           CallNative(t, k, ps)
    PROVE  IInv'
<1> USE DEF CallNative, At, Goto, heapVars, loaderVars, Actors
<1>1. TypeOK'
  BY DEF IInv, TypeOK
<1>2. NoDoubleFree'
  BY DEF IInv, NoDoubleFree
<1>3. ClaimsLive' /\ ClaimsUnique' /\ ClaimsComplete'
  <2>1. \A u \in Actors : u # t => pc'[u] = pc[u]
    BY DEF IInv, TypeOK
  <2>2. pc[t] = "idle" /\ pc'[t] = "native" /\ \A u \in Threads \ {t} : kind'[u] = kind[u]
    BY DEF IInv, TypeOK
  <2> QED
    BY <1>1, <2>1, <2>2, SameOwners DEF Returning, Freeing
<1>4. \A u \in Actors : DisposeInv(u)'
  BY DEF IInv, TypeOK, DisposeInv, Disposing
<1>5. OwnersFinalizable'
  BY DEF IInv, TypeOK, OwnersFinalizable, InDispose
<1>6. DeleteInv'
  <2>1. CASE k = "delete"
    BY <2>1 DEF IInv, TypeOK, DeleteInv
  <2>2. CASE k # "delete"
    BY <2>2 DEF IInv, TypeOK, DeleteInv
  <2> QED
    BY <2>1, <2>2
<1> QED
  BY <1>1, <1>2, <1>3, <1>4, <1>5, <1>6 DEF IInv

LEMMA CallDisposeStep ==
    ASSUME IInv, NEW t \in Threads, NEW p \in Proxies, CallDispose(t, p)
    PROVE  IInv'
<1> USE DEF CallDispose, At, Goto, heapVars, loaderVars, callVars, Actors
<1>1. TypeOK'
  BY DEF IInv, TypeOK, Disposing
<1>2. NoDoubleFree' /\ DeleteInv'
  BY DEF IInv, NoDoubleFree, DeleteInv
<1>3. ClaimsLive' /\ ClaimsUnique' /\ ClaimsComplete'
  <2>1. \A u \in Actors : u # t => pc'[u] = pc[u] /\ self'[u] = self[u]
    BY DEF IInv, TypeOK
  <2>2. pc[t] = "idle" /\ pc'[t] = "lock"
    BY DEF IInv, TypeOK
  <2> QED
    BY <1>1, <2>1, <2>2, SameOwners DEF Returning, Freeing
<1>4. \A u \in Actors : DisposeInv(u)'
  BY DEF IInv, TypeOK, DisposeInv, Disposing
<1>5. OwnersFinalizable'
  BY DEF IInv, TypeOK, OwnersFinalizable, InDispose
<1> QED
  BY <1>1, <1>2, <1>3, <1>4, <1>5 DEF IInv

LEMMA DropStep ==
    ASSUME IInv, NEW p \in Proxies, Drop(p)
    PROVE  IInv'
<1> USE DEF Drop, heapVars, loaderVars, callVars, Actors
<1>1. TypeOK'
  BY DEF IInv, TypeOK
<1>2. ClaimsLive' /\ ClaimsUnique' /\ ClaimsComplete'
  BY <1>1, SameOwners DEF Returning, Freeing
<1>3. OwnersFinalizable'
  BY DEF IInv, OwnersFinalizable, InDispose
<1>4. NoDoubleFree' /\ DeleteInv' /\ \A u \in Actors : DisposeInv(u)'
  BY DEF IInv, NoDoubleFree, DeleteInv, DisposeInv
<1> QED
  BY <1>1, <1>2, <1>3, <1>4 DEF IInv

\* An owner that is collected is in its finalizer.
LEMMA CollectStep ==
    ASSUME IInv, NEW p \in Proxies, Collect(p)
    PROVE  IInv'
<1> USE DEF Collect, At, Goto, heapVars, loaderVars, callVars, Actors
<1>1. TypeOK'
  BY DEF IInv, TypeOK, Disposing
<1>2. NoDoubleFree' /\ DeleteInv'
  BY DEF IInv, NoDoubleFree, DeleteInv
<1>3. ClaimsLive' /\ ClaimsUnique' /\ ClaimsComplete'
  <2>1. \A u \in Threads : pc'[u] = pc[u] /\ self'[u] = self[u]
    BY DEF IInv, TypeOK
  <2>2. pc[Finalizer] = "idle" /\ pc'[Finalizer] = "lock"
    BY DEF IInv, TypeOK
  <2> QED
    BY <1>1, <2>1, <2>2, SameOwners DEF Returning, Freeing
<1>4. \A u \in Actors : DisposeInv(u)'
  BY DEF IInv, TypeOK, DisposeInv, Disposing
<1>5. OwnersFinalizable'
  BY DEF IInv, TypeOK, OwnersFinalizable, InDispose
<1> QED
  BY <1>1, <1>2, <1>3, <1>4, <1>5 DEF IInv

-------------------------------------------------------------------------------
(* A native call and its binding *)

\* What a function that returns at once may do to the heap: only delete_XP deletes,
\* and what it deletes was made for it.
AnswerHeap(t) ==
    /\ alive' = IF kind[t] = "delete" THEN alive \ handles[t] ELSE alive
    /\ manual' = IF kind[t] = "delete" THEN manual \ handles[t] ELSE manual
    /\ alive' \ manual' = alive \ manual
    /\ paths' \subseteq alive'
    /\ kept' \in Objects \cup {Null}
    /\ loaded' \in BOOLEAN

LEMMA AnswerHeaps ==
    ASSUME IInv, NEW t \in Threads, FaultOf(t) = "none", Answer(t)
    PROVE  AnswerHeap(t)
<1> USE DEF IInv, TypeOK, AnswerHeap, heapVars, loaderVars
<1>1. CASE Access(t) \/ InitApi(t)
  BY <1>1 DEF Access, InitApi
<1>2. CASE SetPath(t)
  <2>1. handles[t] \ {Null} \subseteq alive
    BY <1>2 DEF SetPath, FaultOf, Touched
  <2> QED
    BY <1>2, <2>1 DEF SetPath
<1>3. CASE Delete(t)
  BY <1>3 DEF Delete, DeleteInv
<1>4. CASE SetRuntimePath(t)
  BY <1>4 DEF SetRuntimePath
<1>5. CASE CloseApi(t)
  BY <1>5 DEF CloseApi, KeptAfterClose
<1> QED
  BY <1>1, <1>2, <1>3, <1>4, <1>5 DEF Answer

\* Such a function leaves the objects of proxies alone.
LEMMA AnswerStep ==
    ASSUME IInv, NEW t \in Threads, Native(t), FaultOf(t) = "none", Answer(t)
    PROVE  IInv'
<1>1. /\ pc[t] = "native" /\ pc' = [pc EXCEPT ![t] = "idle"]
      /\ kind' = [kind EXCEPT ![t] = "none"]
      /\ args' = [args EXCEPT ![t] = {}] /\ handles' = [handles EXCEPT ![t] = {}]
      /\ UNCHANGED <<proxyVars, self, fault, made>>
  BY DEF Native, Answer, At, Goto
<1> USE DEF proxyVars, Actors
<1>2. AnswerHeap(t)
  BY AnswerHeaps
<1>3. TypeOK'
  BY <1>1, <1>2 DEF IInv, TypeOK, AnswerHeap
<1>4. /\ \A u \in Threads : Returning(u)' <=> Returning(u)
      /\ \A u \in Actors : Freeing(u)' <=> Freeing(u)
  BY <1>1 DEF IInv, TypeOK, Returning, Freeing
<1>5. ClaimsLive'
  BY <1>1, <1>2, <1>4 DEF IInv, ClaimsLive, AnswerHeap
<1>6. ClaimsUnique'
  BY <1>1, <1>4 DEF IInv, ClaimsUnique
<1>7. ClaimsComplete'
  BY <1>1, <1>2, <1>4 DEF IInv, ClaimsComplete, AnswerHeap
<1>8. NoDoubleFree' /\ OwnersFinalizable' /\ \A u \in Actors : DisposeInv(u)'
  BY <1>1 DEF IInv, TypeOK, NoDoubleFree, OwnersFinalizable, InDispose, DisposeInv, Disposing
<1>9. DeleteInv'
  BY <1>1, <1>2 DEF IInv, TypeOK, DeleteInv, AnswerHeap
<1> QED
  BY <1>3, <1>5, <1>6, <1>7, <1>8, <1>9 DEF IInv

\* A new object is claimed by the call that returns it, or is for delete_XP.
LEMMA MakeStep ==
    ASSUME IInv, NEW t \in Threads, NEW o \in Objects, Native(t), FaultOf(t) = "none",
           Make(t, o)
    PROVE  IInv'
<1> USE DEF At, Goto, proxyVars, Actors
<1>1. /\ pc[t] = "native" /\ pc' = [pc EXCEPT ![t] = "return"]
      /\ args' = [args EXCEPT ![t] = {}] /\ handles' = [handles EXCEPT ![t] = {}]
      /\ made' = [made EXCEPT ![t] = o]
      /\ UNCHANGED <<proxyVars, paths, loaderVars, kind, self, fault>>
  BY DEF IInv, TypeOK, Native, Make
<1>2. /\ kind[t] \in Owned => /\ o \notin alive /\ alive' = alive \cup {o}
                               /\ UNCHANGED manual
      /\ kind[t] \notin Owned => alive' \ manual' = alive \ manual
      /\ alive \subseteq alive' /\ manual \subseteq manual'
      /\ alive' \subseteq Objects /\ manual' \subseteq alive'
  BY DEF Make, Owned, Manual, IInv, TypeOK
<1>3. TypeOK'
  BY <1>1, <1>2 DEF IInv, TypeOK, loaderVars
<1>4. /\ Returning(t)' <=> kind[t] \in Owned
      /\ ~ Returning(t)
      /\ \A u \in Threads \ {t} : (Returning(u)' <=> Returning(u)) /\ made'[u] = made[u]
      /\ \A u \in Actors : Freeing(u)' <=> Freeing(u)
      /\ made'[t] = o
  BY <1>1 DEF IInv, TypeOK, Returning, Freeing, CMemOwn
<1>5. alive \ manual \subseteq alive' \ manual'
  BY <1>2 DEF IInv, TypeOK
<1>6. kind[t] \in Owned => o \in alive' \ manual' /\ o \notin alive \ manual
  BY <1>2 DEF IInv, TypeOK
<1>7. ClaimsLive'
  BY <1>1, <1>4, <1>5, <1>6 DEF IInv, ClaimsLive
<1>8. ClaimsUnique'
  BY <1>1, <1>4, <1>6 DEF IInv, ClaimsUnique, ClaimsLive
<1>9. ClaimsComplete'
  <2> SUFFICES ASSUME NEW a \in alive' \ manual'
               PROVE  \/ \E u \in Threads : Returning(u)' /\ made'[u] = a
                      \/ \E p \in Proxies : swigCMemOwn'[p] /\ swigCPtr'[p] = a
                      \/ \E u \in Actors : Freeing(u)' /\ swigCPtr'[self'[u]] = a
    BY DEF ClaimsComplete
  <2>1. CASE a \in alive \ manual
    BY <1>1, <1>4, <2>1 DEF IInv, ClaimsComplete
  <2>2. CASE a \notin alive \ manual
    <3>1. kind[t] \in Owned /\ a = o
      BY <1>2, <2>2
    <3> QED
      BY <1>4, <3>1
  <2> QED
    BY <2>1, <2>2
<1>10. NoDoubleFree' /\ OwnersFinalizable' /\ \A u \in Actors : DisposeInv(u)'
  BY <1>1 DEF IInv, TypeOK, NoDoubleFree, OwnersFinalizable, InDispose, DisposeInv, Disposing
<1>11. DeleteInv'
  BY <1>1, <1>2 DEF IInv, TypeOK, DeleteInv
<1> QED
  BY <1>3, <1>7, <1>8, <1>9, <1>10, <1>11 DEF IInv

LEMMA NativeStep ==
    ASSUME IInv, NEW t \in Threads, Native(t)
    PROVE  IInv'
<1>1. CASE FaultOf(t) # "none"
  <2> USE <1>1 DEF Native, Crash, heapVars, loaderVars, proxyVars, callVars
  <2>1. FaultOf(t) # "double_free"
    BY DEF FaultOf, Touched, IInv, DeleteInv, TypeOK
  <2>2. TypeOK' /\ NoDoubleFree'
    BY <2>1 DEF IInv, TypeOK, NoDoubleFree, FaultOf
  <2>3. ClaimsLive' /\ ClaimsUnique' /\ ClaimsComplete'
    BY <2>2, SameOwners DEF Returning, Freeing
  <2>4. /\ \A u \in Actors : DisposeInv(u)'
        /\ OwnersFinalizable' /\ DeleteInv'
    BY DEF IInv, DisposeInv, OwnersFinalizable, InDispose, DeleteInv
  <2> QED
    BY <2>2, <2>3, <2>4 DEF IInv
<1>2. CASE FaultOf(t) = "none"
  <2>1. Answer(t) \/ \E o \in Objects : Make(t, o)
    BY <1>2 DEF Native
  <2> QED
    BY <1>2, <2>1, AnswerStep, MakeStep
<1> QED
  BY <1>1, <1>2

\* The proxy takes over the claim of the call that returns it.
LEMMA WrapStep ==
    ASSUME IInv, NEW t \in Threads, NEW p \in Proxies, Wrap(t, p)
    PROVE  IInv'
<1> USE DEF Wrap, At, Goto, heapVars, loaderVars, Actors
<1>1. TypeOK'
  BY DEF IInv, TypeOK, CMemOwn
<1>2. ~ swigCMemOwn[p]
  BY UnusedOwnsNothing
<1>3. \A u \in Actors : self[u] # p
  BY DEF Unused
<1>4. /\ Returning(t) <=> CMemOwn(kind[t])
      /\ ~ Returning(t)'
      /\ \A u \in Threads \ {t} : (Returning(u)' <=> Returning(u)) /\ made'[u] = made[u]
      /\ \A u \in Actors : Freeing(u)' <=> Freeing(u)
  BY DEF IInv, TypeOK, Returning, Freeing
<1>5. /\ swigCPtr'[p] = made[t] /\ (swigCMemOwn'[p] <=> CMemOwn(kind[t]))
      /\ \A q \in Proxies \ {p} : swigCPtr'[q] = swigCPtr[q] /\ swigCMemOwn'[q] = swigCMemOwn[q]
      /\ UNCHANGED <<alive, manual, self>>
  BY DEF IInv, TypeOK
<1>6. \A u \in Actors : Freeing(u) => self[u] \in Proxies /\ swigCPtr'[self[u]] = swigCPtr[self[u]]
  BY <1>3, <1>5 DEF IInv, DisposeInv, Disposing, Freeing
<1>7. ClaimsLive'
  BY <1>4, <1>5, <1>6 DEF IInv, ClaimsLive
<1>8. ClaimsUnique'
  BY <1>2, <1>4, <1>5, <1>6 DEF IInv, ClaimsUnique
<1>9. ClaimsComplete'
  BY <1>2, <1>4, <1>5, <1>6 DEF IInv, ClaimsComplete
<1>10. NoDoubleFree' /\ DeleteInv'
  BY DEF IInv, NoDoubleFree, DeleteInv
<1>11. \A u \in Actors : DisposeInv(u)'
  BY <1>3 DEF IInv, TypeOK, DisposeInv, Disposing
<1>12. OwnersFinalizable'
  BY <1>2 DEF IInv, TypeOK, OwnersFinalizable, InDispose
<1> QED
  BY <1>1, <1>7, <1>8, <1>9, <1>10, <1>11, <1>12 DEF IInv

-------------------------------------------------------------------------------
(* Dispose and the finalizer *)

LEMMA DisposeLockStep ==
    ASSUME IInv, NEW t \in Actors, DisposeLock(t)
    PROVE  IInv'
<1> USE DEF DisposeLock, LockFree, At, Goto, heapVars, loaderVars, callVars, Actors
<1>1. TypeOK'
  BY DEF IInv, TypeOK, Disposing
<1>2. NoDoubleFree' /\ DeleteInv'
  BY DEF IInv, NoDoubleFree, DeleteInv
<1>3. ClaimsLive' /\ ClaimsUnique' /\ ClaimsComplete'
  <2>1. \A u \in Actors : u # t => pc'[u] = pc[u]
    BY DEF IInv, TypeOK
  <2>2. pc[t] = "lock" /\ pc'[t] = "test"
    BY DEF IInv, TypeOK
  <2> QED
    BY <1>1, <2>1, <2>2, SameOwners DEF Returning, Freeing
<1>4. \A u \in Actors : DisposeInv(u)'
  BY DEF IInv, TypeOK, DisposeInv, Disposing
<1>5. OwnersFinalizable'
  BY DEF IInv, TypeOK, OwnersFinalizable, InDispose
<1> QED
  BY <1>1, <1>2, <1>3, <1>4, <1>5 DEF IInv

\* The thread that clears swigCMemOwn takes over the proxy's claim; the lock keeps
\* every other thread from freeing through the same proxy.
LEMMA DisposeTestStep ==
    ASSUME IInv, NEW t \in Actors, DisposeTest(t)
    PROVE  IInv'
<1> USE DEF DisposeTest, OwnAfterTest, At, Goto, heapVars, loaderVars, callVars, Actors
<1> DEFINE p == self[t]
<1>1. /\ pc[t] = "test" /\ p \in Proxies /\ lock[p] = t
      /\ \A u \in Actors : u # t /\ pc[u] \in {"test", "free", "clear"} => self[u] # p
  BY DEF IInv, DisposeInv, Disposing
<1>2. TypeOK'
  BY DEF IInv, TypeOK, Disposing
<1>3. NoDoubleFree' /\ DeleteInv'
  BY DEF IInv, NoDoubleFree, DeleteInv
<1>5. CASE Deletes(p)
  <2>1. /\ swigCMemOwn[p] /\ ~ swigCMemOwn'[p]
        /\ \A q \in Proxies \ {p} : swigCMemOwn'[q] = swigCMemOwn[q]
        /\ UNCHANGED <<alive, manual, made, swigCPtr, self, finalizable>>
    BY <1>1, <1>5 DEF IInv, TypeOK, Deletes
  <2>2. /\ \A u \in Threads : Returning(u)' <=> Returning(u)
        /\ Freeing(t)' /\ ~ Freeing(t)
        /\ \A u \in Actors \ {t} : Freeing(u)' <=> Freeing(u)
    BY <1>1, <1>5 DEF IInv, TypeOK, Returning, Freeing
  <2>3. ClaimsLive'
    BY <1>1, <2>1, <2>2 DEF IInv, ClaimsLive
  <2>4. ClaimsUnique'
    BY <1>1, <2>1, <2>2 DEF IInv, ClaimsUnique
  <2>5. ClaimsComplete'
    BY <1>1, <2>1, <2>2 DEF IInv, ClaimsComplete
  <2>6. \A u \in Actors : DisposeInv(u)'
    BY <1>1, <1>5 DEF IInv, TypeOK, DisposeInv, Disposing
  <2>7. OwnersFinalizable'
    BY <1>1, <1>5, <2>1 DEF IInv, TypeOK, OwnersFinalizable, InDispose
  <2> QED
    BY <1>2, <1>3, <2>3, <2>4, <2>5, <2>6, <2>7 DEF IInv
<1>6. CASE ~ Deletes(p)
  <2>1. ~ swigCMemOwn[p]
    BY <1>1, <1>6 DEF Deletes, IInv, ClaimsLive, TypeOK
  <2>2. pc' = [pc EXCEPT ![t] = "clear"] /\ UNCHANGED swigCMemOwn
    BY <1>6
  <2>3. ClaimsLive' /\ ClaimsUnique' /\ ClaimsComplete'
    <3>1. \A u \in Actors : u # t => pc'[u] = pc[u]
      BY <2>2 DEF IInv, TypeOK
    <3>2. pc'[t] = "clear"
      BY <2>2 DEF IInv, TypeOK
    <3> QED
      BY <1>1, <1>2, <2>2, <3>1, <3>2, SameOwners DEF Returning, Freeing
  <2>4. \A u \in Actors : DisposeInv(u)'
    BY <1>1, <2>1, <2>2 DEF IInv, TypeOK, DisposeInv, Disposing
  <2>5. OwnersFinalizable'
    BY <1>1, <2>1, <2>2 DEF IInv, TypeOK, OwnersFinalizable, InDispose
  <2> QED
    BY <1>2, <1>3, <2>3, <2>4, <2>5 DEF IInv
<1> QED
  BY <1>5, <1>6

\* The object that is freed is there, and no claim to it is left.
LEMMA DisposeFreeStep ==
    ASSUME IInv, NEW t \in Actors, DisposeFree(t)
    PROVE  IInv'
<1> USE DEF DisposeFree, At, Goto, loaderVars, proxyVars, callVars, Actors
<1> DEFINE o == swigCPtr[self[t]]
<1>1. pc[t] = "free" /\ Freeing(t) /\ o \in alive \ manual
  BY DEF IInv, ClaimsLive, Freeing
<1>2. /\ alive' = alive \ {o} /\ pc' = [pc EXCEPT ![t] = "clear"]
      /\ paths' = paths \ {o}
      /\ UNCHANGED <<manual, loaderVars, proxyVars, callVars, self, fault>>
  BY <1>1
<1>3. TypeOK'
  BY <1>1, <1>2 DEF IInv, TypeOK, Disposing
<1>4. /\ \A u \in Threads : Returning(u)' <=> Returning(u)
      /\ ~ Freeing(t)'
      /\ \A u \in Actors \ {t} : Freeing(u)' <=> Freeing(u)
  BY <1>1, <1>2 DEF IInv, TypeOK, Returning, Freeing
<1>5. /\ \A u \in Threads : Returning(u) => made[u] # o
      /\ \A p \in Proxies : swigCMemOwn[p] => swigCPtr[p] # o
      /\ \A u \in Actors \ {t} : Freeing(u) => swigCPtr[self[u]] # o
  BY <1>1 DEF IInv, ClaimsUnique
<1>6. ClaimsLive'
  BY <1>2, <1>4, <1>5 DEF IInv, ClaimsLive
<1>7. ClaimsUnique'
  BY <1>2, <1>4 DEF IInv, ClaimsUnique
<1>8. ClaimsComplete'
  BY <1>2, <1>4 DEF IInv, ClaimsComplete
<1>9. NoDoubleFree' /\ DeleteInv'
  BY <1>2 DEF IInv, NoDoubleFree, DeleteInv
<1>10. OwnersFinalizable' /\ \A u \in Actors : DisposeInv(u)'
  BY <1>1, <1>2 DEF IInv, TypeOK, OwnersFinalizable, InDispose, DisposeInv, Disposing
<1> QED
  BY <1>3, <1>6, <1>7, <1>8, <1>9, <1>10 DEF IInv

\* The pointer that is cleared belongs to no owner, and no other thread is about to
\* free it.
LEMMA DisposeClearStep ==
    ASSUME IInv, NEW t \in Actors, DisposeClear(t)
    PROVE  IInv'
<1> USE DEF DisposeClear, At, Goto, heapVars, loaderVars, callVars, Actors
<1> DEFINE p == self[t]
<1>1. /\ pc[t] = "clear" /\ p \in Proxies /\ lock[p] = t /\ ~ swigCMemOwn[p]
      /\ \A u \in Actors : u # t /\ pc[u] \in {"test", "free", "clear"} => self[u] # p
  BY DEF IInv, DisposeInv, Disposing
<1>2. /\ pc'[t] \in {"idle", "suppress"}
      /\ pc'[t] = "suppress" => self'[t] = p
      /\ \A u \in Actors \ {t} : pc'[u] = pc[u] /\ self'[u] = self[u]
      /\ \A q \in Proxies \ {p} : swigCPtr'[q] = swigCPtr[q] /\ lock'[q] = lock[q]
      /\ UNCHANGED <<alive, manual, made, kind, handles, swigCMemOwn, finalizable, fault>>
  BY DEF IInv, TypeOK
<1>3. TypeOK'
  BY DEF IInv, TypeOK, Disposing
<1>4. /\ \A u \in Threads : Returning(u)' <=> Returning(u)
      /\ \A u \in Actors : Freeing(u)' <=> Freeing(u)
      /\ \A u \in Actors : Freeing(u) => /\ self[u] \in Proxies \ {p}
                                         /\ swigCPtr'[self'[u]] = swigCPtr[self[u]]
  BY <1>1, <1>2 DEF IInv, DisposeInv, Disposing, Returning, Freeing
<1>5. \A q \in Proxies : swigCMemOwn[q] => swigCPtr'[q] = swigCPtr[q]
  BY <1>1, <1>2
<1>6. ClaimsLive'
  BY <1>2, <1>4, <1>5 DEF IInv, ClaimsLive
<1>7. ClaimsUnique'
  BY <1>2, <1>4, <1>5 DEF IInv, ClaimsUnique
<1>8. ClaimsComplete'
  BY <1>2, <1>4, <1>5 DEF IInv, ClaimsComplete
<1>9. NoDoubleFree' /\ DeleteInv'
  BY <1>2 DEF IInv, NoDoubleFree, DeleteInv
<1>10. \A u \in Actors : DisposeInv(u)'
  BY <1>1, <1>2 DEF IInv, DisposeInv, Disposing
<1>11. OwnersFinalizable'
  BY <1>1, <1>2 DEF IInv, OwnersFinalizable, InDispose
<1> QED
  BY <1>3, <1>6, <1>7, <1>8, <1>9, <1>10, <1>11 DEF IInv

\* A proxy that has been disposed needs no finalizer.
LEMMA SuppressStep ==
    ASSUME IInv, NEW t \in Threads, Suppress(t)
    PROVE  IInv'
<1> USE DEF Suppress, At, Goto, heapVars, loaderVars, callVars, Actors
<1>1. TypeOK'
  BY DEF IInv, TypeOK, Disposing
<1>2. NoDoubleFree' /\ DeleteInv'
  BY DEF IInv, NoDoubleFree, DeleteInv
<1>3. ClaimsLive' /\ ClaimsUnique' /\ ClaimsComplete'
  <2>1. \A u \in Actors : u # t => pc'[u] = pc[u] /\ self'[u] = self[u]
    BY DEF IInv, TypeOK
  <2>2. pc[t] = "suppress" /\ pc'[t] = "idle"
    BY DEF IInv, TypeOK
  <2> QED
    BY <1>1, <2>1, <2>2, SameOwners DEF Returning, Freeing
<1>4. \A u \in Actors : DisposeInv(u)'
  BY DEF IInv, TypeOK, DisposeInv, Disposing
<1>5. OwnersFinalizable'
  <2>1. ~ swigCMemOwn[self[t]]
    BY DEF IInv, DisposeInv
  <2> QED
    BY <2>1 DEF IInv, TypeOK, OwnersFinalizable, InDispose
<1> QED
  BY <1>1, <1>2, <1>3, <1>4, <1>5 DEF IInv

-------------------------------------------------------------------------------
LEMMA DisposeStepInv ==
    ASSUME IInv, NEW t \in Actors, DisposeStep(t)
    PROVE  IInv'
BY DisposeLockStep, DisposeTestStep, DisposeFreeStep, DisposeClearStep DEF DisposeStep

LEMMA StutterStep == IInv /\ UNCHANGED vars => IInv'
BY DEF IInv, vars, heapVars, loaderVars, proxyVars, callVars, TypeOK, NoDoubleFree, ClaimsLive,
       ClaimsUnique, ClaimsComplete, DisposeInv, OwnersFinalizable, InDispose, DeleteInv,
       Returning, Freeing

LEMMA IInvStep == IInv /\ [Next]_vars => IInv'
<1> SUFFICES ASSUME IInv, [Next]_vars PROVE IInv'
  OBVIOUS
<1>1. ASSUME NEW t \in Threads, NEW k \in Calls, NEW ps \in SUBSET Proxies,
             CallNative(t, k, ps)
      PROVE  IInv'
  BY <1>1, CallNativeStep
<1>2. ASSUME NEW t \in Threads, NEW p \in Proxies, CallDispose(t, p) PROVE IInv'
  BY <1>2, CallDisposeStep
<1>3. ASSUME NEW t \in Threads, Finish(t) PROVE IInv'
  BY <1>3, NativeStep, WrapStep, DisposeStepInv, SuppressStep DEF Finish, Actors
<1>4. ASSUME DisposeStep(Finalizer) PROVE IInv'
  BY <1>4, DisposeStepInv DEF Actors
<1>5. ASSUME NEW p \in Proxies, Drop(p) \/ Collect(p) PROVE IInv'
  BY <1>5, DropStep, CollectStep
<1>6. CASE UNCHANGED vars
  BY <1>6, StutterStep
<1> QED
  BY <1>1, <1>2, <1>3, <1>4, <1>5, <1>6 DEF Next

LEMMA IInvHolds == Spec => []IInv
BY IInvInit, IInvStep, PTL DEF Spec

-------------------------------------------------------------------------------
\* The variables of the proxies, of the native heap and of the calls keep their
\* types, whatever the application does with the proxies.
THEOREM ProxyTyping == Spec => []TypeOK
BY IInvHolds, PTL DEF IInv

\* Dispose, called any number of times by any number of threads while the finalizer
\* runs (ctl_power_limits_t.cs:43-59), never deletes an object twice.
THEOREM NeverDoubleFreed == Spec => []NoDoubleFree
BY IInvHolds, PTL DEF IInv

\* An object has at most one proxy with swigCMemOwn, and is allocated as long as it
\* has one (ctl_power_limits_t.cs:17-20, 48-58).
THEOREM SingleOwner == Spec => []OwnedOnce
<1>1. IInv => OwnedOnce
  BY DEF IInv, ClaimsLive, ClaimsUnique, OwnedOnce
<1> QED
  BY <1>1, IInvHolds, PTL

\* Every object that delete_XP is not to free has an owner whose finalizer is still
\* to run or that is being disposed: GC.SuppressFinalize
\* (ctl_power_limits_t.cs:45) is never early.
THEOREM NeverLeaked == Spec => []NothingLeaked
<1>1. IInv => NothingLeaked
  <2> SUFFICES ASSUME IInv, NEW o \in alive \ manual
               PROVE  \/ \E t \in Threads : pc[t] = "return" /\ made[t] = o /\ CMemOwn(kind[t])
                      \/ \E p \in Proxies :
                            /\ swigCPtr[p] = o
                            /\ \/ swigCMemOwn[p] /\ (p \in finalizable \/ InDispose(p, {"lock", "test"}))
                               \/ InDispose(p, {"free"})
    BY DEF NothingLeaked
  <2>1. CASE \E t \in Threads : Returning(t) /\ made[t] = o
    BY <2>1 DEF Returning
  <2>2. ASSUME NEW p \in Proxies, swigCMemOwn[p], swigCPtr[p] = o
        PROVE  swigCMemOwn[p] /\ (p \in finalizable \/ InDispose(p, {"lock", "test"}))
    BY <2>2 DEF IInv, OwnersFinalizable
  <2>3. ASSUME NEW t \in Actors, Freeing(t), swigCPtr[self[t]] = o
        PROVE  self[t] \in Proxies /\ InDispose(self[t], {"free"})
    BY <2>3 DEF IInv, DisposeInv, Disposing, Freeing, InDispose
  <2> QED
    BY <2>1, <2>2, <2>3 DEF IInv, ClaimsComplete
<1> QED
  BY <1>1, IInvHolds, PTL
===============================================================================
