---------------------- MODULE SwigPendingExceptionProofs ----------------------
(***************************************************************************)
(* Proofs about SwigPendingException, for every finite set of threads and  *)
(* every set of exceptions.                                                *)
(***************************************************************************)
EXTENDS SwigPendingException, FiniteSetTheorems, TLAPS

USE BridgeAssumption

-------------------------------------------------------------------------------
LEMMA CountedFinite == IsFiniteSet(Counted) /\ Cardinality(Counted) \in Nat
BY FS_Subset, FS_CardinalityType DEF Counted

\* An exception that is pending is seen: the unlocked read of the counter cannot
\* return 0 to a thread that has one.
LEMMA PendingSeen ==
    ASSUME TypeOK, CountExact, NEW t \in Threads, pc[t] \notin Locking
    PROVE  IsPending(t) <=> pendingException[t] # None
<1>1. ASSUME pendingException[t] # None PROVE numExceptionsPending > 0
  <2>1. t \in Counted
    BY <1>1 DEF Counted
  <2>2. Cardinality(Counted) # 0
    BY <2>1, CountedFinite, FS_EmptySet
  <2> QED
    BY <2>2, CountedFinite DEF CountExact
<1> QED
  BY <1>1 DEF IsPending

-------------------------------------------------------------------------------
LEMMA IInvInit == Init => IInv
<1> SUFFICES ASSUME Init PROVE IInv
  OBVIOUS
<1>1. TypeOK /\ NoFatal
  BY DEF Init, TypeOK, NoFatal, Steps
<1>2. CountExact
  <2>1. Counted = {}
    BY DEF Init, Counted, Locking
  <2> QED
    BY <2>1, FS_EmptySet DEF Init, CountExact
<1>3. \A t \in Threads : ThreadInv(t)
  BY DEF Init, ThreadInv, HoldsLock, Locking
<1> QED
  BY <1>1, <1>2, <1>3 DEF IInv

\* A step of one thread preserves the invariants of all of them.
LEMMA ThreadStep ==
    ASSUME IInv, NEW t \in Threads, CallNative(t) \/ Advance(t) \/ Enter(t)
    PROVE  TypeOK' /\ NoFatal' /\ \A u \in Threads : ThreadInv(u)'
<1> USE DEF IInv, TypeOK, NoFatal, ThreadInv, HoldsLock, At, Goto, End, Steps, Locking,
            sharedVars
<1>0. pc[t] \notin Locking => (IsPending(t) <=> pendingException[t] # None)
  BY PendingSeen
<1>1. CASE CallNative(t)
  BY <1>1 DEF CallNative
<1>2. CASE NativeReturns(t)
  BY <1>2 DEF NativeReturns
<1>3. ASSUME NEW x \in Exceptions, NativeRaises(t, x)
      PROVE  TypeOK' /\ NoFatal' /\ \A u \in Threads : ThreadInv(u)'
  BY <1>3 DEF NativeRaises
<1>4. CASE Check(t)
  BY <1>0, <1>4 DEF Check
<1>5. CASE Retrieve(t)
  BY <1>0, <1>5 DEF Retrieve, Retrieved, PendingAfterRetrieve, ExceptionRead
<1>6. CASE Set(t)
  BY <1>6 DEF Set
<1>7. CASE Enter(t)
  BY <1>7 DEF Enter, LockFree
<1>8. CASE Load(t)
  BY <1>8 DEF Load
<1>9. CASE Store(t)
  <2>1. loaded[t] = numExceptionsPending /\ pc[t] = "store" /\ exceptionsLock = t
    BY <1>9 DEF Store
  <2>2. CASE op[t] = "Set"
    <3>1. /\ loaded[t] + 1 \in Nat
          /\ \A u \in Threads : u # t => pc[u] # "store"
      BY <2>1
    <3>2. /\ pc' = [pc EXCEPT ![t] = "check"]
          /\ inCallback' = [inCallback EXCEPT ![t] = FALSE]
          /\ numExceptionsPending' = loaded[t] + 1
          /\ exceptionsLock' = NoThread
          /\ loaded' = [loaded EXCEPT ![t] = 0]
          /\ UNCHANGED <<pendingException, op, e, raised, outcome, fatal>>
      BY <1>9, <2>2 DEF Store
    <3>3. TypeOK' /\ NoFatal'
      BY <3>1, <3>2
    <3> QED
      BY <2>1, <2>2, <3>1, <3>2, <3>3
  <2>3. CASE op[t] = "Retrieve"
    <3>1. t \in Counted
      BY <2>1, <2>3 DEF Counted
    <3>2. Cardinality(Counted) # 0
      BY <3>1, CountedFinite, FS_EmptySet
    <3>3. loaded[t] - 1 \in Nat
      BY <2>1, <3>2, CountedFinite DEF CountExact
    <3> QED
      BY <1>9, <2>1, <2>3, <3>3 DEF Store, Retrieved
  <2> QED
    BY <2>2, <2>3
<1> QED
  BY <1>1, <1>2, <1>3, <1>4, <1>5, <1>6, <1>7, <1>8, <1>9 DEF Advance

\* Only Store changes who is counted, and it moves the counter by as much.
LEMMA CountStep ==
    ASSUME IInv, NEW t \in Threads, CallNative(t) \/ Advance(t) \/ Enter(t)
    PROVE  CountExact'
<1>1. CASE Store(t)
  <2>1. loaded[t] = numExceptionsPending /\ pc[t] = "store"
    BY <1>1 DEF Store, IInv, ThreadInv, At
  <2>2. CASE op[t] = "Set"
    <3>1. Counted' = Counted \cup {t}
      BY <1>1, <2>1, <2>2 DEF Store, Goto, Counted, IInv, TypeOK, ThreadInv, Locking
    <3>2. t \notin Counted
      BY <2>1, <2>2 DEF Counted, Locking
    <3>3. numExceptionsPending' = numExceptionsPending + 1
      BY <1>1, <2>1, <2>2 DEF Store
    <3> QED
      BY <3>1, <3>2, <3>3, CountedFinite, FS_AddElement DEF IInv, CountExact
  <2>3. CASE op[t] = "Retrieve"
    <3>1. Counted' = Counted \ {t}
      BY <1>1, <2>1, <2>3 DEF Store, Retrieved, End, Goto, Counted, IInv, TypeOK, ThreadInv,
                              Locking
    <3>2. t \in Counted
      BY <2>1, <2>3 DEF Counted, Locking
    <3>3. numExceptionsPending' = numExceptionsPending - 1
      BY <1>1, <2>1, <2>3 DEF Store
    <3> QED
      BY <3>1, <3>2, <3>3, CountedFinite, FS_RemoveElement DEF IInv, CountExact
  <2> QED
    BY <2>2, <2>3, <1>1 DEF Store
<1>2. ASSUME ~ Store(t) PROVE Counted' = Counted /\ UNCHANGED numExceptionsPending
  <2> USE <1>2 DEF IInv, TypeOK, ThreadInv, Counted, Locking, At, Goto, End, sharedVars
  <2>1. CASE CallNative(t)
    BY <2>1 DEF CallNative
  <2>2. CASE NativeReturns(t)
    BY <2>2 DEF NativeReturns
  <2>3. ASSUME NEW x \in Exceptions, NativeRaises(t, x)
        PROVE  Counted' = Counted /\ UNCHANGED numExceptionsPending
    BY <2>3 DEF NativeRaises
  <2>4. CASE Check(t)
    BY <2>4 DEF Check
  <2>5. CASE Retrieve(t)
    BY <2>5 DEF Retrieve, Retrieved, IsPending
  <2>6. CASE Set(t)
    BY <2>6 DEF Set
  <2>7. CASE Enter(t)
    BY <2>7 DEF Enter
  <2>8. CASE Load(t)
    BY <2>8 DEF Load
  <2> QED
    BY <2>1, <2>2, <2>3, <2>4, <2>5, <2>6, <2>7, <2>8 DEF Advance
<1> QED
  BY <1>1, <1>2 DEF IInv, CountExact

LEMMA IInvNext == IInv /\ [Next]_vars => IInv'
<1> SUFFICES ASSUME IInv, [Next]_vars PROVE IInv'
  OBVIOUS
<1>1. ASSUME NEW t \in Threads, CallNative(t) \/ Advance(t) \/ Enter(t)
      PROVE  IInv'
  BY <1>1, ThreadStep, CountStep DEF IInv
<1>2. CASE UNCHANGED vars
  BY <1>2 DEF vars, sharedVars, IInv, TypeOK, NoFatal, CountExact, Counted, ThreadInv, HoldsLock
<1> QED
  BY <1>1, <1>2 DEF Next

LEMMA Invariance == Spec => []IInv
BY IInvInit, IInvNext, PTL DEF Spec

-------------------------------------------------------------------------------
(* The theorems *)

\* The variables keep their types; the counter never goes below zero.
THEOREM BridgeTyping == Spec => []TypeOK
BY Invariance, PTL DEF IInv

\* Set's FATAL exception is never thrown (IGCLPINVOKE.cs:145).
THEOREM NeverFatal == Spec => []NoFatal
BY Invariance, PTL DEF IInv

\* The counter that Pending and Retrieve read without a lock is exact
\* (IGCLPINVOKE.cs:136, 155).
THEOREM CounterExact == Spec => []CountExact
BY Invariance, PTL DEF IInv

\* A call throws exactly the exception native code reported in that call
\* (IGCL.cs, the 27 checks after a native call).
THEOREM ExceptionDelivered == Spec => Delivered
<1>1. ASSUME IInv, [Next]_vars, NEW t \in Threads, pc[t] # "idle", pc'[t] = "idle"
      PROVE  outcome'[t] = raised[t]
  <2>1. PICK u \in Threads : CallNative(u) \/ Advance(u) \/ Enter(u)
    BY <1>1 DEF Next, vars
  <2>2. pc[t] \notin Locking => (IsPending(t) <=> pendingException[t] # None)
    BY <1>1, PendingSeen DEF IInv
  <2> USE <1>1, <2>1, <2>2 DEF IInv, TypeOK, ThreadInv, At, Goto, End, Locking
  <2>3. CASE CallNative(u)
    BY <2>3 DEF CallNative
  <2>4. CASE NativeReturns(u)
    BY <2>4 DEF NativeReturns
  <2>5. ASSUME NEW x \in Exceptions, NativeRaises(u, x) PROVE FALSE
    BY <2>5 DEF NativeRaises
  <2>6. CASE Check(u)
    BY <2>6 DEF Check
  <2>7. CASE Retrieve(u)
    BY <2>7 DEF Retrieve, Retrieved
  <2>8. CASE Set(u)
    BY <2>8 DEF Set
  <2>9. CASE Enter(u)
    BY <2>9 DEF Enter
  <2>10. CASE Load(u)
    BY <2>10 DEF Load
  <2>11. CASE Store(u)
    BY <2>11 DEF Store, Retrieved
  <2> QED
    BY <2>3, <2>4, <2>5, <2>6, <2>7, <2>8, <2>9, <2>10, <2>11 DEF Advance
<1>2. IInv /\ [Next]_vars =>
        [\A t \in Threads : pc[t] # "idle" /\ pc'[t] = "idle" => outcome'[t] = raised[t]]_vars
  BY <1>1
<1> QED
  BY <1>2, Invariance, PTL DEF Spec, Delivered

\* The bridge implements a private slot per thread: no exception is lost, mixed up
\* or thrown twice through the shared counter.
THEOREM SlotRefinement == Spec => ImplementsSlots
<1> DEFINE slot == [t \in Threads |-> IF e[t] # None THEN e[t] ELSE pendingException[t]]
<1>1. Init => Slots!Init
  BY DEF Init, Slots!Init
<1>2. ASSUME IInv, IInv', [Next]_vars PROVE [Slots!Next]_<<slot, outcome>>
  <2>1. CASE UNCHANGED vars
    BY <2>1 DEF vars
  <2>2. ASSUME NEW t \in Threads, CallNative(t) \/ Advance(t) \/ Enter(t)
        PROVE  [Slots!Next]_<<slot, outcome>>
    <3>0. pc[t] \notin Locking => (IsPending(t) <=> pendingException[t] # None)
      BY <1>2, PendingSeen DEF IInv
    <3> USE <1>2 DEF IInv, TypeOK, ThreadInv, At, Goto, Locking
    <3>1. CASE CallNative(t)
      BY <3>1 DEF CallNative
    <3>2. CASE NativeReturns(t)
      BY <3>2 DEF NativeReturns
    <3>3. ASSUME NEW x \in Exceptions, NativeRaises(t, x)
          PROVE  UNCHANGED <<slot, outcome>>
      BY <3>3 DEF NativeRaises
    <3>4. CASE Check(t)
      <4>1. CASE IsPending(t)
        BY <3>4, <4>1 DEF Check
      <4>2. CASE ~ IsPending(t)
        <5>1. e[t] = None /\ pendingException[t] = None
          BY <3>0, <3>4, <4>2 DEF Check
        <5>2. outcome' = [outcome EXCEPT ![t] = None] /\ UNCHANGED <<pendingException>>
              /\ e' = [e EXCEPT ![t] = None]
          BY <3>4, <4>2 DEF Check, End
        <5>3. slot[t] = None /\ slot' = [slot EXCEPT ![t] = None]
          BY <5>1, <5>2
        <5>4. Slots!End(t)
          BY <5>2, <5>3 DEF Slots!End
        <5> QED
          BY <5>4 DEF Slots!Next
      <4> QED
        BY <4>1, <4>2
    <3>5. CASE Retrieve(t)
      <4>1. CASE IsPending(t)
        BY <3>0, <3>5, <4>1 DEF Retrieve, PendingAfterRetrieve, ExceptionRead
      <4>2. CASE ~ IsPending(t)
        <5>1. inCallback[t] /\ e[t] = None
          BY <3>0, <3>5, <4>2 DEF Retrieve
        <5>2. e' = [e EXCEPT ![t] = None] /\ UNCHANGED <<pendingException, outcome>>
          BY <3>5, <4>2, <5>1 DEF Retrieve, Retrieved
        <5> QED
          BY <5>1, <5>2
      <4> QED
        BY <4>1, <4>2
    <3>6. CASE Set(t)
      <4>1. /\ pendingException[t] = None /\ e[t] = None
            /\ raised[t] \in Exceptions
            /\ pendingException' = [pendingException EXCEPT ![t] = raised[t]]
            /\ UNCHANGED <<e, outcome>>
        BY <3>6 DEF Set
      <4>2. slot[t] = None /\ slot' = [slot EXCEPT ![t] = raised[t]]
        BY <4>1
      <4>3. slot[t] = None /\ slot' = [slot EXCEPT ![t] = raised[t]] /\ UNCHANGED outcome
        BY <4>1, <4>2
      <4> QED
        <5>1. \E x \in Exceptions : Slots!Raise(t, x)
          BY <4>1, <4>3 DEF Slots!Raise
        <5> QED
          BY <5>1 DEF Slots!Next
    <3>7. CASE Enter(t)
      BY <3>7 DEF Enter
    <3>8. CASE Load(t)
      BY <3>8 DEF Load
    <3>9. CASE Store(t)
      <4>1. CASE op[t] = "Set"
        BY <3>9, <4>1 DEF Store
      <4>2. CASE op[t] = "Retrieve"
        <5>1. e[t] # None /\ pendingException[t] = None /\ ~ inCallback[t]
          BY <3>9, <4>2 DEF Store
        <5>2. /\ outcome' = [outcome EXCEPT ![t] = e[t]]
              /\ e' = [e EXCEPT ![t] = None]
              /\ UNCHANGED pendingException
          BY <3>9, <4>2, <5>1 DEF Store, Retrieved, End
        <5>3. slot[t] = e[t] /\ slot' = [slot EXCEPT ![t] = None]
          BY <5>1, <5>2
        <5>4. Slots!End(t)
          BY <5>2, <5>3 DEF Slots!End
        <5> QED
          BY <5>4 DEF Slots!Next
      <4> QED
        BY <3>9, <4>1, <4>2 DEF Store
    <3> QED
      BY <2>2, <3>1, <3>2, <3>3, <3>4, <3>5, <3>6, <3>7, <3>8, <3>9 DEF Advance
  <2> QED
    BY <1>2, <2>1, <2>2 DEF Next
<1> QED
  BY <1>1, <1>2, Invariance, PTL DEF Spec, Slots!Spec, Slots!vars, ImplementsSlots
===============================================================================
