-------------------------- MODULE RebuildDriverProofs --------------------------
(***************************************************************************)
(* Proofs about RebuildDriver, for any SDK releases.                       *)
(***************************************************************************)
EXTENDS RebuildDriver, TLAPS

USE DriverAssumption

LEMMA TypingInit == Init => TypeOK /\ DoneInv
BY DEF Init, TypeOK, DoneInv, Content, Files, Steps

LEMMA TypingNext == TypeOK /\ DoneInv /\ [Next]_vars => TypeOK' /\ DoneInv'
<1> SUFFICES ASSUME TypeOK, DoneInv, [Next]_vars
             PROVE  TypeOK' /\ DoneInv'
  OBVIOUS
<1> USE DEF TypeOK, DoneInv, Steps, Goto, Fail, StepFailed, built, copied
<1>0. \A s \in SDKs : Generated(s) \subseteq Files
  BY DEF Generated, Files
<1>1. CASE Start
  BY <1>1 DEF Start, DllAfterClean, Content
<1>2. CASE Generate
  BY <1>0, <1>2 DEF Generate, Overwrite, Content
<1>3. CASE Compile
  BY <1>3 DEF Compile, CompileFailed, Content
<1>4. CASE CopyBindings
  <2>1. tBindings' \in [Files -> Content]
    BY <1>4 DEF CopyBindings, Overwrite
  <2>2. pc' = "copyDll" => \A f \in Generated(sdk) : tBindings'[f] = sdk
    BY <1>0, <1>4 DEF CopyBindings, Overwrite, CopyFailed
  <2> QED
    BY <1>4, <2>1, <2>2 DEF CopyBindings, CopyFailed
<1>5. CASE CopyDll
  BY <1>5 DEF CopyDll, Content
<1>6. CASE Test
  BY <1>6 DEF Test
<1>7. CASE Interrupt
  BY <1>7 DEF Interrupt
<1>8. CASE BecomeCalm
  BY <1>8 DEF BecomeCalm
<1>9. ASSUME NEW s \in SDKs, Update(s)
      PROVE  TypeOK' /\ DoneInv'
  BY <1>9 DEF Update
<1>10. CASE UNCHANGED vars
  BY <1>10 DEF vars
<1> QED
  BY <1>1, <1>2, <1>3, <1>4, <1>5, <1>6, <1>7, <1>8, <1>9, <1>10 DEF Next, Script

LEMMA StaleInit == Shrinks = FALSE => (Init => NoStaleFile)
BY DEF Init, NoStaleFile, Generated, Files

LEMMA StaleNext ==
    ASSUME Shrinks = FALSE, TypeOK, NoStaleFile, [Next]_vars
    PROVE  NoStaleFile'
<1> USE DEF NoStaleFile, TypeOK, Goto, Fail, StepFailed, built, copied
<1>1. CASE Generate
  BY <1>1 DEF Generate, Overwrite
<1>2. CASE CopyBindings
  BY <1>2 DEF CopyBindings, Overwrite, CopyFailed
<1>3. ASSUME NEW s \in SDKs, Update(s)
      PROVE  NoStaleFile'
  BY <1>3 DEF Update, Generated
<1>4. CASE Start \/ Compile \/ CopyDll \/ Test \/ Interrupt \/ BecomeCalm \/ UNCHANGED vars
  BY <1>4 DEF Start, Compile, CopyDll, Test, Interrupt, BecomeCalm, vars, CompileFailed
<1> QED
  BY <1>1, <1>2, <1>3, <1>4 DEF Next, Script

-------------------------------------------------------------------------------
\* Type correctness: no step is reached without what the step before it makes.
THEOREM DriverTyping == Spec => []TypeOK
<1>1. Spec => [](TypeOK /\ DoneInv)
  BY TypingInit, TypingNext, PTL DEF Spec
<1> QED
  BY <1>1, PTL

\* The invariant of a driver whose SDKs only grow.
LEMMA GrowingInv == Shrinks = FALSE => (Spec => [](TypeOK /\ DoneInv /\ NoStaleFile))
<1> SUFFICES ASSUME Shrinks = FALSE PROVE Spec => [](TypeOK /\ DoneInv /\ NoStaleFile)
  OBVIOUS
<1>1. Init => TypeOK /\ DoneInv /\ NoStaleFile
  BY TypingInit, StaleInit
<1>2. TypeOK /\ DoneInv /\ NoStaleFile /\ [Next]_vars => (TypeOK /\ DoneInv /\ NoStaleFile)'
  BY TypingNext, StaleNext
<1> QED
  BY <1>1, <1>2, PTL DEF Spec

\* As long as SDKs only grow, the tests are built from and run against the
\* bindings and the DLL of the installed SDK, whatever failed before.
THEOREM OneSdkTested == Shrinks = FALSE => (Spec => []TestedTogether)
<1>1. TypeOK /\ DoneInv /\ NoStaleFile => TestedTogether
  BY DEF DoneInv, NoStaleFile, TestedTogether, TypeOK
<1> QED
  BY <1>1, GrowingInv, PTL

\* As long as SDKs only grow, no binding is left that the copied module does not
\* know (rebuild_igcl.bat:26-28): the tests compile.
THEOREM OnlyGeneratedTested == Shrinks = FALSE => (Spec => []OnlyGenerated)
<1>1. TypeOK /\ DoneInv /\ NoStaleFile => OnlyGenerated
  BY DEF DoneInv, NoStaleFile, OnlyGenerated, Compiles, Generated, TypeOK
<1> QED
  BY <1>1, GrowingInv, PTL
===============================================================================
