------------------------- MODULE WrapperHelpersProofs -------------------------
(***************************************************************************)
(* Proofs about WrapperHelpers, for any number of callers, every finite    *)
(* set of displays and every heap.                                         *)
(***************************************************************************)
EXTENDS WrapperHelpers, FiniteSetTheorems, TLAPS

USE HelpersAssumption

-------------------------------------------------------------------------------
\* The lesser of two numbers.
LEMMA MinOfTwo ==
    ASSUME NEW m \in Nat, NEW n \in Nat
    PROVE  Min({m, n}) \in Nat /\ Min({m, n}) <= m /\ Min({m, n}) <= n
<1>1. \E x \in {m, n} : \A y \in {m, n} : x =< y
  OBVIOUS
<1>2. Min({m, n}) \in {m, n} /\ \A y \in {m, n} : Min({m, n}) =< y
  BY <1>1 DEF Min
<1> QED
  BY <1>2

\* Sets of displays can be counted, and blocks have room for them all.
LEMMA DisplayCount ==
    ASSUME NEW ds \in SUBSET Displays
    PROVE  Cardinality(ds) \in 0..MaxCount /\ MaxCount \in Nat
BY FS_Subset, FS_CardinalityType DEF MaxCount

LEMMA EmptyCount == Cardinality({}) = 0
BY FS_EmptySet

-------------------------------------------------------------------------------
LEMMA IInvInit == Init => IInv
<1> SUFFICES ASSUME Init PROVE IInv
  OBVIOUS
<1>0. MaxCount \in Nat
  BY DisplayCount
<1>1. TypeOK
  BY <1>0 DEF Init, TypeOK
<1>2. HeapIntact
  BY EmptyCount DEF Init, HeapIntact
<1>3. OneOwner /\ HandlesReadable /\ \A c \in Callers : CallerInv(c)
  BY DEF Init, OneOwner, OwnedBy, Live, HandlesReadable, CallerInv
<1> QED
  BY <1>1, <1>2, <1>3 DEF IInv

LEMMA EnumPreserves ==
    ASSUME IInv, NEW c \in Callers, EnumStep(c)
    PROVE  IInv'
<1> USE DEF IInv, TypeOK, At, Goto, Return, enumVars, descVars, heap
<1>0. MaxCount \in Nat /\ Cardinality(connected) \in 0..MaxCount
  BY DisplayCount
<1>1. CASE CallEnumDisplays(c)
  BY <1>1 DEF CallEnumDisplays, RefuseNull, PointerAtStart, HeapIntact, OneOwner,
              OwnedBy, Live, HandlesReadable, CallerInv
<1>2. CASE EnumCount(c)
  <2>1. pCount' \in [Callers -> 0..MaxCount]
    <3>1. Min({pCount[c], Cardinality(connected)}) \in 0..MaxCount
      BY <1>0, MinOfTwo
    <3> QED
      BY <1>0, <1>2, <3>1 DEF EnumCount
  <2>2. TypeOK' /\ HeapIntact'
    BY <1>2, <2>1 DEF EnumCount, AfterCount, HeapIntact, Live
  <2>3. OneOwner'
    BY <1>2 DEF EnumCount, AfterCount, OneOwner, OwnedBy, Live, CallerInv
  <2>4. HandlesReadable' /\ \A d \in Callers : CallerInv(d)'
    BY <1>2, <2>1 DEF EnumCount, AfterCount, HandlesReadable, Live, CallerInv
  <2> QED
    BY <2>2, <2>3, <2>4
<1>3. ASSUME NEW b \in Blocks, Malloc(b, pCount[c]), pc[c] = "enumAlloc", fault = "none",
             ppDisplays' = [ppDisplays EXCEPT ![c] = b], Goto(c, "enumFill"),
             UNCHANGED <<connected, pCount, descVars, result>>
      PROVE  IInv'
  <2>1. pCount[c] > 0 /\ pBuffer[c] = Null
    BY <1>3 DEF CallerInv
  <2>2. TypeOK'
    BY <1>3, <2>1 DEF Malloc, Live
  <2>3. HeapIntact'
    BY <1>0, <1>3, EmptyCount DEF Malloc, HeapIntact
  <2>4. \A d \in Callers : OwnedBy(d)' = IF d = c THEN b ELSE OwnedBy(d)
    BY <1>3 DEF OwnedBy
  <2>5. /\ OwnedBy(c) = Null
        /\ \A d \in Callers : OwnedBy(d) # b
    BY <1>3 DEF Malloc, OneOwner, OwnedBy, Live
  <2>6. \A x : Live(x)' <=> Live(x) \/ x = b
    BY <1>3, <2>1 DEF Malloc, Live
  <2>7. OneOwner'
    BY <2>4, <2>5, <2>6 DEF OneOwner
  <2>8. HandlesReadable'
    BY <1>3, <2>5, <2>6 DEF Malloc, HandlesReadable, OwnedBy
  <2>9. \A d \in Callers : CallerInv(d)'
    BY <1>3, <2>1, <2>5 DEF Malloc, CallerInv, OwnedBy
  <2> QED
    BY <2>2, <2>3, <2>7, <2>8, <2>9
<1>4. ASSUME pc[c] = "enumAlloc", Goto(c, "displays"), Return(c, "OUT_OF_HOST_MEMORY"),
             UNCHANGED <<connected, heap, pCount, ppDisplays, descVars>>
      PROVE  IInv'
  BY <1>4 DEF HeapIntact, OneOwner, OwnedBy, Live, HandlesReadable, CallerInv
<1>5. CASE EnumFill(c)
  <2> DEFINE blk == ppDisplays[c]
             n == Min({pCount[c], Cardinality(connected)})
  <2>0. pc[c] = "enumFill" /\ blk \in Blocks /\ Live(blk) /\ pCount[c] = size[blk]
    BY <1>5 DEF EnumFill, CallerInv, Live
  <2>1. n \in Nat /\ n <= pCount[c]
    BY <1>0, MinOfTwo
  <2>2. OwnedBy(c) = blk /\ \A d \in Callers : d # c => OwnedBy(d) # blk
    BY <2>0 DEF OneOwner, OwnedBy
  <2>3. \A d \in Callers : OwnedBy(d)' = OwnedBy(d)
    BY <1>5, <2>0 DEF EnumFill, OwnedBy, PointerAfterFailure
  <2>4. OneOwner'
    BY <1>5, <2>3 DEF EnumFill, OneOwner, Live
  <2>5. ASSUME NEW ds \in kSubset(n, connected),
               content' = [content EXCEPT ![blk] = ds], UNCHANGED ppDisplays,
               pCount' = [pCount EXCEPT ![c] = n], Return(c, "SUCCESS")
        PROVE  IInv'
    <3>1. ds \in SUBSET connected /\ Cardinality(ds) = n
      BY <2>5 DEF kSubset
    <3>2. TypeOK'
      BY <1>0, <1>5, <2>0, <2>1, <2>5, <3>1 DEF EnumFill, Live
    <3>3. HeapIntact'
      BY <1>5, <2>0, <2>1, <2>5, <3>1 DEF EnumFill, HeapIntact
    <3>4. HandlesReadable'
      BY <1>5, <2>0, <2>1, <2>2, <2>5, <3>1 DEF EnumFill, HandlesReadable, OwnedBy, Live
    <3>5. \A d \in Callers : CallerInv(d)'
      BY <1>5, <2>0, <2>5 DEF EnumFill, CallerInv
    <3> QED
      BY <2>4, <3>2, <3>3, <3>4, <3>5
  <2>6. ASSUME Return(c, "RUNTIME_ERROR"), UNCHANGED <<content, pCount, ppDisplays>>
        PROVE  IInv'
    BY <1>5, <2>0, <2>4, <2>6 DEF EnumFill, HeapIntact, HandlesReadable, CallerInv, Live
  <2> QED
    BY <1>5, <2>5, <2>6 DEF EnumFill, CountAfterFill, PointerAfterFailure
<1> QED
  BY <1>1, <1>2, <1>3, <1>4, <1>5 DEF EnumStep, EnumAlloc

LEMMA DescPreserves ==
    ASSUME IInv, NEW c \in Callers, DescStep(c)
    PROVE  IInv'
<1> USE DEF IInv, TypeOK, At, Goto, Return, enumVars, descVars, heap
<1>1. CASE CallGetPanelDescriptor(c)
  BY <1>1 DEF CallGetPanelDescriptor, RefuseNull, HeapIntact, OneOwner, OwnedBy,
              Live, HandlesReadable, CallerInv
<1>2. CASE DescQuery(c)
  <2>1. TypeOK' /\ HeapIntact' /\ \A d \in Callers : CallerInv(d)'
    BY <1>2 DEF DescQuery, HeapIntact, Live, CallerInv
  <2>2. OneOwner' /\ HandlesReadable'
    BY <1>2 DEF DescQuery, OneOwner, OwnedBy, Live, HandlesReadable, CallerInv
  <2> QED
    BY <2>1, <2>2
<1>3. ASSUME NEW b \in Blocks, Malloc(b, DescriptorDataSize[c]), pc[c] = "descAlloc",
             pBuffer' = [pBuffer EXCEPT ![c] = b], Goto(c, "descRead"),
             UNCHANGED <<connected, enumVars, DescriptorDataSize, pDescriptorData, result>>
      PROVE  IInv'
  <2>1. DescriptorDataSize[c] > 0
    BY <1>3 DEF CallerInv
  <2>5. /\ OwnedBy(c) = Null
        /\ \A d \in Callers : OwnedBy(d) # b
    BY <1>3 DEF Malloc, OneOwner, OwnedBy, Live
  <2>2. TypeOK'
    BY <1>3, <2>1 DEF Malloc, Live
  <2>3. HeapIntact'
    BY <1>3, EmptyCount DEF Malloc, HeapIntact
  <2>4. \A d \in Callers : OwnedBy(d)' = IF d = c THEN b ELSE OwnedBy(d)
    BY <1>3 DEF OwnedBy
  <2>6. \A x : Live(x)' <=> Live(x) \/ x = b
    BY <1>3, <2>1 DEF Malloc, Live
  <2>7. OneOwner'
    BY <2>4, <2>5, <2>6 DEF OneOwner
  <2>8. HandlesReadable'
    BY <1>3, <2>5, <2>6 DEF Malloc, HandlesReadable, OwnedBy
  <2>9. \A d \in Callers : CallerInv(d)'
    BY <1>3, <2>1, <2>5 DEF Malloc, CallerInv, OwnedBy
  <2> QED
    BY <2>2, <2>3, <2>7, <2>8, <2>9
<1>4. ASSUME pc[c] = "descAlloc", pBuffer' = [pBuffer EXCEPT ![c] = Null],
             Goto(c, "descriptor"), Return(c, "OUT_OF_HOST_MEMORY"),
             UNCHANGED <<connected, heap, enumVars, DescriptorDataSize, pDescriptorData>>
      PROVE  IInv'
  BY <1>4 DEF HeapIntact, OneOwner, OwnedBy, Live, HandlesReadable, CallerInv
<1>5. CASE DescRead(c)
  <2>1. content' = content
    BY <1>5 DEF DescRead, CallerInv
  <2> QED
    BY <1>5, <2>1 DEF DescRead, HeapIntact, OneOwner, OwnedBy, Live, HandlesReadable, CallerInv
<1> QED
  BY <1>1, <1>2, <1>3, <1>4, <1>5 DEF DescStep, DescAlloc

LEMMA FreePreserves ==
    ASSUME IInv, NEW c \in Callers, FreeStep(c)
    PROVE  IInv'
<1> USE DEF IInv, TypeOK, At, Goto, enumVars, descVars, heap
<1>1. pc[c] \in {"displays", "descriptor"} /\ ~ DoubleFree
  BY DEF FreeStep, FreeDisplays, FreeDescriptor, DoubleFree, OneOwner, OwnedBy, HeapIntact, Live
<1>2. /\ pc' = [pc EXCEPT ![c] = "idle"]
      /\ FreeBuffer(OwnedBy(c))
      /\ pBuffer' = [pBuffer EXCEPT ![c] = Null]
      /\ UNCHANGED <<connected, enumVars, DescriptorDataSize, pDescriptorData, result, fault>>
  BY <1>1 DEF FreeStep, FreeDisplays, FreeDescriptor, OneOwner, OwnedBy, CallerInv
<1>3. \A d \in Callers : OwnedBy(d)' = IF d = c THEN Null ELSE OwnedBy(d)
  BY <1>1, <1>2 DEF OwnedBy
<1>4. CASE OwnedBy(c) = Null
  BY <1>1, <1>2, <1>3, <1>4 DEF FreeBuffer, HeapIntact, OneOwner, Live, HandlesReadable, CallerInv
<1>5. CASE OwnedBy(c) # Null
  <2> DEFINE blk == OwnedBy(c)
  <2>1. blk \in Blocks /\ Free(blk) /\ \A d \in Callers : d # c => OwnedBy(d) # blk
    BY <1>2, <1>5 DEF FreeBuffer, OneOwner, Live
  <2>2. TypeOK'
    <3>1. MaxCount \in Nat
      BY DisplayCount
    <3>2. \A d \in Callers : pc[d] = "enumFill" => OwnedBy(d) = ppDisplays[d] /\ d # c
      BY <1>1 DEF OwnedBy
    <3> QED
      BY <1>1, <1>2, <2>1, <3>1, <3>2 DEF Free, Live
  <2>3. HeapIntact'
    BY <1>2, <2>1, EmptyCount DEF Free, HeapIntact
  <2>4. OneOwner'
    BY <1>3, <2>1 DEF Free, OneOwner, Live
  <2>5. HandlesReadable'
    BY <1>1, <1>2, <2>1 DEF Free, HandlesReadable, OwnedBy, Live
  <2>6. \A d \in Callers : CallerInv(d)'
    BY <1>1, <1>2, <2>1 DEF Free, CallerInv, OwnedBy
  <2> QED
    BY <2>2, <2>3, <2>4, <2>5, <2>6
<1> QED
  BY <1>4, <1>5

LEMMA IInvNext == IInv /\ [Next]_vars => IInv'
<1> SUFFICES ASSUME IInv, [Next]_vars PROVE IInv'
  OBVIOUS
<1>1. CASE Hotplug
  BY <1>1 DEF Hotplug, IInv, TypeOK, HeapIntact, OneOwner, OwnedBy, Live, HandlesReadable,
              CallerInv, heap, enumVars, descVars
<1>2. CASE UNCHANGED vars
  BY <1>2 DEF vars, IInv, TypeOK, HeapIntact, OneOwner, OwnedBy, Live, HandlesReadable,
              CallerInv, heap, enumVars, descVars
<1> QED
  BY <1>1, <1>2, EnumPreserves, DescPreserves, FreePreserves DEF Next

LEMMA Invariance == Spec => []IInv
BY IInvInit, IInvNext, PTL DEF Spec

-------------------------------------------------------------------------------
\* Type correctness, and an allocated array before the second enumeration.
THEOREM HelpersTyping == Spec => []TypeOK
<1>1. IInv => TypeOK
  BY DEF IInv
<1> QED
  BY <1>1, Invariance, PTL

\* The helpers free no block twice and the runtime writes past no block's end.
THEOREM HeapSafety == Spec => []HeapIntact
<1>1. IInv => HeapIntact
  BY DEF IInv
<1> QED
  BY <1>1, Invariance, PTL

\* The handles a successful enumeration reports were written by the runtime,
\* whatever the displays did between its two calls.
THEOREM ReadableHandles == Spec => []HandlesReadable
<1>1. IInv => HandlesReadable
  BY DEF IInv
<1> QED
  BY <1>1, Invariance, PTL

\* Every allocated block is to be freed by exactly one caller, who points at it.
THEOREM OwnedBlocks == Spec => []BlocksOwned
<1>1. IInv => BlocksOwned
  <2> SUFFICES ASSUME IInv, NEW b \in Blocks, Live(b)
               PROVE  Cardinality({c \in Callers : pc[c] \in {"enumFill", "displays"}
                                                    /\ ppDisplays[c] = b})
                    + Cardinality({c \in Callers : pc[c] \in {"descRead", "descriptor"}
                                                    /\ pBuffer[c] = b}) = 1
    BY DEF BlocksOwned
  <2> DEFINE E == {c \in Callers : pc[c] \in {"enumFill", "displays"} /\ ppDisplays[c] = b}
             D == {c \in Callers : pc[c] \in {"descRead", "descriptor"} /\ pBuffer[c] = b}
  <2>1. PICK c \in Callers : OwnedBy(c) = b
    BY DEF IInv, OneOwner
  <2>2. \A d \in Callers : OwnedBy(d) = b => d = c
    BY <2>1 DEF IInv, OneOwner
  <2>3. \A d \in Callers : d \in E \/ d \in D <=> OwnedBy(d) = b
    BY DEF OwnedBy
  <2>4. (E = {c} /\ D = {}) \/ (E = {} /\ D = {c})
    BY <2>1, <2>2, <2>3
  <2>5. Cardinality({c}) = 1 /\ Cardinality({}) = 0
    BY FS_Singleton, FS_EmptySet
  <2> QED
    BY <2>4, <2>5
<1> QED
  BY <1>1, Invariance, PTL
===============================================================================
