------------------------- MODULE SwigPendingException -------------------------
(***************************************************************************)
(* IGCLWrapper/cs_bindings/IGCLPINVOKE.cs: how an error that the generated *)
(* native code detects becomes a C# exception.  The native function calls  *)
(* back into C#, which stores the exception in a thread-static variable    *)
(* and counts it in a variable all threads share; when the native function *)
(* has returned, the binding looks whether an exception is pending and     *)
(* throws it.                                                              *)
(*                                                                         *)
(* The counter is read without the lock under which it is written, and ++  *)
(* and -- are a load and a store.  The native side reports a null struct   *)
(* that it was to copy (copy_propertyP, propertyP_assign, 25 more); C#     *)
(* checks after exactly those 27 calls.                                    *)
(*                                                                         *)
(* A definition that stands just above another one with the same           *)
(* parameters is a faulty variant of it, used nowhere in the model: it     *)
(* shows which property notices that fault.                                *)
(***************************************************************************)
EXTENDS Integers, FiniteSets

CONSTANTS
    Threads,      \* the threads that call the bindings
    NoThread,     \* owner of a free lock
    Exceptions,   \* the exception objects the callbacks create
    None          \* a null exception reference

ASSUME BridgeAssumption ==
    /\ IsFiniteSet(Threads)
    /\ NoThread \notin Threads
    /\ None \notin Exceptions

VARIABLES
    pendingException,      \* thread-static: [Threads -> Exceptions or None]
    numExceptionsPending,  \* static, shared
    exceptionsLock,        \* static, shared: the thread that holds it
    pc,                    \* pc[t]: the next step of thread t
    inCallback,            \* inCallback[t]: is t in the callback from native code?
    op,                    \* op[t]: the method whose lock statement t is in
    e,                     \* e[t]: local of Retrieve
    loaded,                \* loaded[t]: the counter as t's ++ or -- has read it
    raised,                \* raised[t]: what native code reported in t's latest call
    outcome,               \* outcome[t]: what that call threw, None if it returned
    fatal                  \* has Set thrown "FATAL: An earlier pending exception..."?

sharedVars == <<numExceptionsPending, exceptionsLock>>
vars == <<pendingException, sharedVars, pc, inCallback, op, e, loaded, raised,
          outcome, fatal>>

Locking == {"enter", "load", "store"}
Steps == {"idle", "native", "retrieve", "set", "check"} \cup Locking

TypeOK ==
    /\ pendingException \in [Threads -> Exceptions \cup {None}]
    /\ numExceptionsPending \in Nat
    /\ exceptionsLock \in Threads \cup {NoThread}
    /\ pc \in [Threads -> Steps]
    /\ inCallback \in [Threads -> BOOLEAN]
    /\ op \in [Threads -> {"Set", "Retrieve"}]
    /\ e \in [Threads -> Exceptions \cup {None}]
    /\ loaded \in [Threads -> Nat]
    /\ raised \in [Threads -> Exceptions \cup {None}]
    /\ outcome \in [Threads -> Exceptions \cup {None}]
    /\ fatal \in BOOLEAN

Init ==
    /\ pendingException = [t \in Threads |-> None]
    /\ numExceptionsPending = 0
    /\ exceptionsLock = NoThread
    /\ pc = [t \in Threads |-> "idle"]
    /\ inCallback = [t \in Threads |-> FALSE]
    /\ op = [t \in Threads |-> "Set"]
    /\ e = [t \in Threads |-> None]
    /\ loaded = [t \in Threads |-> 0]
    /\ raised = [t \in Threads |-> None]
    /\ outcome = [t \in Threads |-> None]
    /\ fatal = FALSE

-------------------------------------------------------------------------------
At(t, step) == ~ fatal /\ pc[t] = step

Goto(t, step) == pc' = [pc EXCEPT ![t] = step]

\* The binding's method ends: it throws x, or returns if x is None.
End(t, x) ==
    /\ Goto(t, "idle")
    /\ outcome' = [outcome EXCEPT ![t] = x]
    /\ e' = [e EXCEPT ![t] = None]

\* Both Pending and Retrieve test the counter and then the thread's own variable.
TestsForMore(t) == numExceptionsPending > 1 /\ pendingException[t] # None
IsPending(t) == numExceptionsPending > 0 /\ pendingException[t] # None

-------------------------------------------------------------------------------
(* The binding's method and the native function it calls. *)

CallNative(t) ==
    /\ At(t, "idle")
    /\ Goto(t, "native")
    /\ raised' = [raised EXCEPT ![t] = None]
    /\ UNCHANGED <<pendingException, sharedVars, inCallback, op, e, loaded, outcome, fatal>>

NativeReturns(t) ==
    /\ At(t, "native")
    /\ Goto(t, "check")
    /\ UNCHANGED <<pendingException, sharedVars, inCallback, op, e, loaded, raised,
                   outcome, fatal>>

\* SWIG_CSharpSetPendingExceptionArgument calls SetPendingArgumentNullException.
NativeRaises(t, x) ==
    /\ At(t, "native")
    /\ Goto(t, "retrieve")
    /\ inCallback' = [inCallback EXCEPT ![t] = TRUE]
    /\ raised' = [raised EXCEPT ![t] = x]
    /\ UNCHANGED <<pendingException, sharedVars, op, e, loaded, outcome, fatal>>

\* if (Pending) throw Retrieve();
Check(t) ==
    /\ At(t, "check")
    /\ IF IsPending(t)
       THEN Goto(t, "retrieve") /\ UNCHANGED <<e, outcome>>
       ELSE End(t, None)
    /\ UNCHANGED <<pendingException, sharedVars, inCallback, op, loaded, raised, fatal>>

-------------------------------------------------------------------------------
(* SWIGPendingException *)

\* Retrieve's caller goes on: the callback with Set, the binding by throwing.
Retrieved(t, x) ==
    IF inCallback[t] THEN Goto(t, "set") /\ e' = [e EXCEPT ![t] = None] /\ UNCHANGED outcome
    ELSE End(t, x)

ReadAfterClear(t) == None
ExceptionRead(t) == pendingException[t]

KeepsPending(t) == pendingException[t]
PendingAfterRetrieve(t) == None

Retrieve(t) ==
    /\ At(t, "retrieve")
    /\ IF IsPending(t)
       THEN /\ Goto(t, "enter")
            /\ op' = [op EXCEPT ![t] = "Retrieve"]
            /\ e' = [e EXCEPT ![t] = ExceptionRead(t)]
            /\ pendingException' = [pendingException EXCEPT ![t] = PendingAfterRetrieve(t)]
            /\ UNCHANGED outcome
       ELSE /\ Retrieved(t, None)
            /\ UNCHANGED <<pendingException, op>>
    /\ UNCHANGED <<sharedVars, inCallback, loaded, raised, fatal>>

Set(t) ==
    /\ At(t, "set")
    /\ IF pendingException[t] # None
       THEN /\ fatal' = TRUE
            /\ UNCHANGED <<pendingException, op, pc>>
       ELSE /\ Goto(t, "enter")
            /\ op' = [op EXCEPT ![t] = "Set"]
            /\ pendingException' = [pendingException EXCEPT ![t] = raised[t]]
            /\ UNCHANGED fatal
    /\ UNCHANGED <<sharedVars, inCallback, e, loaded, raised, outcome>>

NoLock(t) == TRUE
LockFree(t) == exceptionsLock = NoThread

Enter(t) ==
    /\ At(t, "enter")
    /\ LockFree(t)
    /\ exceptionsLock' = t
    /\ Goto(t, "load")
    /\ UNCHANGED <<pendingException, numExceptionsPending, inCallback, op, e, loaded,
                   raised, outcome, fatal>>

Load(t) ==
    /\ At(t, "load")
    /\ loaded' = [loaded EXCEPT ![t] = numExceptionsPending]
    /\ Goto(t, "store")
    /\ UNCHANGED <<pendingException, sharedVars, inCallback, op, e, raised, outcome, fatal>>

\* ++ or --, and the end of the lock statement.
Store(t) ==
    /\ At(t, "store")
    /\ exceptionsLock' = NoThread
    /\ loaded' = [loaded EXCEPT ![t] = 0]
    /\ \/ /\ op[t] = "Set"
          /\ numExceptionsPending' = loaded[t] + 1
          /\ inCallback' = [inCallback EXCEPT ![t] = FALSE]
          /\ Goto(t, "check")
          /\ UNCHANGED <<e, outcome>>
       \/ /\ op[t] = "Retrieve"
          /\ numExceptionsPending' = loaded[t] - 1
          /\ Retrieved(t, e[t])
          /\ UNCHANGED inCallback
    /\ UNCHANGED <<pendingException, op, raised, fatal>>

-------------------------------------------------------------------------------
Advance(t) ==
    \/ NativeReturns(t)
    \/ \E x \in Exceptions : NativeRaises(t, x)
    \/ Check(t) \/ Retrieve(t) \/ Set(t) \/ Load(t) \/ Store(t)

Next == \E t \in Threads : CallNative(t) \/ Advance(t) \/ Enter(t)

Spec == Init /\ [][Next]_vars

\* A thread keeps running, and a lock that is released again and again is
\* granted in the end; no thread need ever make another call.
Fairness == \A t \in Threads : WF_vars(Advance(t)) /\ SF_vars(Enter(t))

FairSpec == Spec /\ Fairness
-------------------------------------------------------------------------------
(* Properties *)

\* The threads whose exception the counter counts: between Set's ++ and
\* Retrieve's --, whatever the thread-static variable holds by then.
Counted ==
    {t \in Threads :
        IF pc[t] \in Locking THEN op[t] = "Retrieve" ELSE pendingException[t] # None}

\* The shared counter is exact although it is read without the lock: no update
\* is lost, so no thread that has an exception pending can read 0.
CountExact == numExceptionsPending = Cardinality(Counted)

\* Set's FATAL exception, thrown through native frames, is never reached: an
\* exception is retrieved before the thread enters native code again.
NoFatal == ~ fatal

\* A call throws exactly what native code reported in that very call: it does
\* not return normally, throw null, or throw an exception an earlier call left.
Delivered ==
    [][\A t \in Threads : pc[t] # "idle" /\ pc'[t] = "idle" => outcome'[t] = raised[t]]_vars

\* What native code reports is thrown in the end, whatever other threads do with
\* the lock.
EventuallyThrown ==
    \A t \in Threads : \A x \in Exceptions :
        (pc[t] # "idle" /\ raised[t] = x) ~> (pc[t] = "idle" /\ outcome[t] = x)

-------------------------------------------------------------------------------
(* The inductive invariant behind the safety properties. *)

HoldsLock(t) == pc[t] \in {"load", "store"}

ThreadInv(t) ==
    /\ HoldsLock(t) <=> exceptionsLock = t
    /\ pc[t] = "store" => loaded[t] = numExceptionsPending
    /\ pc[t] \in Locking /\ op[t] = "Set" =>
           /\ pendingException[t] = raised[t]
           /\ raised[t] # None
           /\ e[t] = None
           /\ inCallback[t]
    /\ pc[t] \in Locking /\ op[t] = "Retrieve" =>
           /\ pendingException[t] = None
           /\ e[t] = raised[t]
           /\ raised[t] # None
           /\ ~ inCallback[t]
    /\ pc[t] \notin Locking => e[t] = None
    /\ pc[t] \in {"idle", "native"} => pendingException[t] = None /\ ~ inCallback[t]
    /\ pc[t] = "native" => raised[t] = None
    /\ pc[t] = "check" => pendingException[t] = raised[t] /\ ~ inCallback[t]
    /\ pc[t] = "set" => pendingException[t] = None /\ raised[t] # None /\ inCallback[t]
    /\ pc[t] = "retrieve" =>
           /\ raised[t] # None
           /\ pendingException[t] = IF inCallback[t] THEN None ELSE raised[t]

IInv == TypeOK /\ NoFatal /\ CountExact /\ \A t \in Threads : ThreadInv(t)

-------------------------------------------------------------------------------
\* The bridge implements private slots: a thread's slot is its thread-static
\* variable or, while Retrieve is at work, its local e.
Slots == INSTANCE ExceptionSlots WITH
    slot <- [t \in Threads |->
                IF e[t] # None THEN e[t] ELSE pendingException[t]]

ImplementsSlots == Slots!Spec
===============================================================================
