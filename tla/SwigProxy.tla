------------------------------- MODULE SwigProxy -------------------------------
(***************************************************************************)
(* IGCLWrapper/cs_bindings/ctl_*.cs, IGCL.cs and the native half of them   *)
(* in IGCLWrapper_wrap.cxx: C# proxies of C structures.  A proxy holds a   *)
(* pointer (swigCPtr) and whether it owns what the pointer names           *)
(* (swigCMemOwn).  All proxy classes have this code; line numbers are      *)
(* those of ctl_power_limits_t.                                            *)
(*                                                                         *)
(*   new T()        a proxy that owns a new object                         *)
(*   XP_value(obj)  a proxy that owns a copy of obj's object               *)
(*   new_XP()       a proxy that does not own its new object               *)
(*   copy_XP(obj)   the same with a copy; delete_XP(obj) deletes either    *)
(*   p.member       a proxy that points into p's object and owns nothing   *)
(*   Dispose(), the finalizer: delete what the proxy owns                  *)
(*   ctlSetRuntimePath(p): the native side keeps the pointer for ctlInit   *)
(*                                                                         *)
(* Objects have no types here: any of them may serve as the structure of   *)
(* ctlSetRuntimePath.  Each native call is one step; how calls of the      *)
(* loader's entry points race is the matter of CApiWrapper.                *)
(*                                                                         *)
(* The application's threads, the garbage collector and its finalizer      *)
(* thread run in parallel.  Only Dispose takes a lock.                     *)
(*                                                                         *)
(* A definition that stands just above another one with the same           *)
(* parameters is a faulty variant of it, used nowhere in the model: it     *)
(* shows which property notices that fault.                                *)
(***************************************************************************)
EXTENDS Naturals, FiniteSets

CONSTANTS
    Threads,      \* the application's threads
    Finalizer,    \* the finalizer thread of the .NET runtime
    NoThread,     \* the owner of a free lock
    Proxies,      \* the C# proxy objects; a collected one is used again
    NoProxy,
    Objects,      \* the blocks of the native heap; a freed one is used again
    Null,
    Calls,        \* the kinds of native calls the application makes
    Careful       \* does the application keep to the rules of MayDelete and MayDrop?

\* Calls by what they do with the objects they get; "set" stands for every setter of
\* a plain member but "setPath", that of pRuntimePath, and "access" for every getter
\* and API function that only reads or writes them.  "keep" is ctlSetRuntimePath,
\* "init" ctlInit and "close" ctlClose.
Owned == {"new", "value"}
Manual == {"newP", "copyP"}
Kinds ==
    {"access", "set", "setPath", "member", "delete", "keep", "init", "close"}
        \cup Owned \cup Manual

ASSUME ProxyAssumption ==
    /\ Finalizer \notin Threads
    /\ NoThread \notin Threads \cup {Finalizer}
    /\ NoProxy \notin Proxies
    /\ Null \notin Objects
    /\ Calls \subseteq Kinds
    /\ Careful \in BOOLEAN

VARIABLES
    alive,         \* the native objects that are allocated
    manual,        \* those of new_XP and copy_XP, which delete_XP is to free
    paths,         \* the objects whose member pRuntimePath is not null
    kept,          \* pRuntimeArgs: the object ctlSetRuntimePath has stored, or Null
    loaded,        \* is hinstLib set?
    swigCPtr,      \* [Proxies -> Objects or Null]
    swigCMemOwn,   \* [Proxies -> BOOLEAN]
    lock,          \* lock[p]: the thread inside lock(this) of p
    finalizable,   \* the proxies whose finalizer has neither run nor been suppressed
    referenced,    \* the proxies the application still uses
    pc,            \* pc[t]: the next step of a thread or the finalizer
    self,          \* self[t]: the proxy t makes or disposes, or NoProxy
    kind,          \* kind[t]: the native function t calls, "none" outside a call
    args,          \* args[t]: the proxies it passes
    handles,       \* handles[t]: the pointers read from them
    made,          \* made[t]: the pointer the native function returned
    fault          \* "none", or how native code went wrong

heapVars == <<alive, manual, paths>>
loaderVars == <<kept, loaded>>
proxyVars == <<swigCPtr, swigCMemOwn, lock, finalizable, referenced>>
callVars == <<kind, args, handles, made>>
vars == <<heapVars, loaderVars, proxyVars, pc, self, callVars, fault>>

Actors == Threads \cup {Finalizer}

Arity(k) ==
    IF k \in {"new", "newP", "init", "close"} THEN {0}
    ELSE IF k = "access" THEN {1, 2} ELSE {1}

Disposing == {"lock", "test", "free", "clear", "suppress"}

TypeOK ==
    /\ alive \subseteq Objects
    /\ manual \subseteq alive
    /\ paths \subseteq alive
    /\ kept \in Objects \cup {Null}
    /\ loaded \in BOOLEAN
    /\ swigCPtr \in [Proxies -> Objects \cup {Null}]
    /\ swigCMemOwn \in [Proxies -> BOOLEAN]
    /\ lock \in [Proxies -> Actors \cup {NoThread}]
    /\ finalizable \subseteq Proxies
    /\ referenced \subseteq Proxies
    /\ pc \in [Actors -> {"idle", "native", "return"} \cup Disposing]
    /\ self \in [Actors -> Proxies \cup {NoProxy}]
    /\ kind \in [Threads -> Kinds \cup {"none"}]
    /\ args \in [Threads -> SUBSET Proxies]
    /\ handles \in [Threads -> SUBSET (Objects \cup {Null})]
    /\ made \in [Threads -> Objects \cup {Null}]
    /\ fault \in {"none", "null_pointer", "use_after_free", "double_free"}

Init ==
    /\ alive = {} /\ manual = {} /\ paths = {}
    /\ kept = Null /\ loaded = FALSE
    /\ swigCPtr = [p \in Proxies |-> Null]
    /\ swigCMemOwn = [p \in Proxies |-> FALSE]
    /\ lock = [p \in Proxies |-> NoThread]
    /\ finalizable = {} /\ referenced = {}
    /\ pc = [t \in Actors |-> "idle"]
    /\ self = [t \in Actors |-> NoProxy]
    /\ kind = [t \in Threads |-> "none"]
    /\ args = [t \in Threads |-> {}]
    /\ handles = [t \in Threads |-> {}]
    /\ made = [t \in Threads |-> Null]
    /\ fault = "none"

-------------------------------------------------------------------------------
At(t, step) == fault = "none" /\ pc[t] = step

Goto(t, step) == pc' = [pc EXCEPT ![t] = step]

Crash(why) ==
    /\ fault' = why
    /\ UNCHANGED <<heapVars, loaderVars, proxyVars, pc, self, callVars>>

\* A proxy the collector has reclaimed, or that was never made.
Unused(p) ==
    /\ p \notin referenced \cup finalizable
    /\ \A t \in Actors : self[t] # p
    /\ \A t \in Threads : p \notin args[t]

\* The bounds on the two heaps: a call finds a block for the object it makes and
\* a proxy to return it in.
Making(ks) == {t \in Threads : pc[t] \in {"native", "return"} /\ kind[t] \in ks}
HeapRoom == Cardinality(Making(Owned \cup Manual)) < Cardinality(Objects \ alive)
ProxyRoom ==
    Cardinality(Making({"member"} \cup Owned \cup Manual))
        < Cardinality({p \in Proxies : Unused(p)})

-------------------------------------------------------------------------------
(* The rules of a careful application: it gives up an object, by dropping or   *)
(* disposing its owner or by delete_XP, when no other proxy of it is in use    *)
(* and ctlInit will not read it any more, because a library is loaded or       *)
(* ctlClose has forgotten it, and it then uses no proxy of the object.         *)

Family(p) == {q \in referenced : swigCPtr[q] = swigCPtr[p]}

PointerLeft(o) ==
    \/ kept = o /\ ~ loaded
    \/ \E t \in Threads : pc[t] = "return" /\ made[t] = o
    \/ \E t \in Threads : o \in handles[t] /\ kind[t] \in {"keep", "member"}

MayDelete(p) == Careful =>
    ~ PointerLeft(swigCPtr[p]) /\ \A t \in Threads : swigCPtr[p] \notin handles[t]

\* A proxy may be dropped while it is itself the argument of a call.
MayDrop(p) == Careful /\ swigCMemOwn[p] =>
    /\ ~ PointerLeft(swigCPtr[p])
    /\ \A t \in Threads : swigCPtr[p] \in handles[t] => p \in args[t]

GivenUp(p) == IF Careful /\ swigCMemOwn[p] THEN Family(p) ELSE {p}

-------------------------------------------------------------------------------
(* A call of a native function *)

\* swigCPtr is read without a lock.  delete_XP is called once for an object of
\* new_XP or copy_XP, by careful and careless applications alike.
CallNative(t, k, ps) ==
    /\ At(t, "idle")
    /\ ps \subseteq referenced
    /\ Cardinality(ps) \in Arity(k)
    /\ k \in Owned \cup Manual => HeapRoom
    /\ k \in {"member"} \cup Owned \cup Manual => ProxyRoom
    /\ k = "delete" => \A p \in ps :
        /\ swigCPtr[p] \in manual
        /\ MayDelete(p)
        /\ \A u \in Threads : kind[u] = "delete" => swigCPtr[p] \notin handles[u]
    /\ referenced' = IF k = "delete" /\ Careful THEN referenced \ UNION {Family(p) : p \in ps}
                     ELSE referenced
    /\ Goto(t, "native")
    /\ kind' = [kind EXCEPT ![t] = k]
    /\ args' = [args EXCEPT ![t] = ps]
    /\ handles' = [handles EXCEPT ![t] = {swigCPtr[p] : p \in ps}]
    /\ UNCHANGED <<heapVars, loaderVars, swigCPtr, swigCMemOwn, lock, finalizable, self,
                   made, fault>>

\* What the native function reads or writes: its arguments and, when ctlInit has to
\* find the library, the stored path arguments.
Touched(t) ==
    handles[t] \cup (IF kind[t] = "init" /\ ~ loaded THEN {kept} \ {Null} ELSE {})

\* A setter tests its object for null, and copy_XP reports an exception.  The others
\* read through the pointer, or compute a member's address from it, which from a
\* null pointer is undefined and counts as a fault here.
ChecksNull == {"set", "setPath", "copyP"}

FaultOf(t) ==
    IF Null \in Touched(t) /\ kind[t] \notin ChecksNull THEN "null_pointer"
    ELSE IF Touched(t) \ {Null} \subseteq alive THEN "none"
    ELSE IF kind[t] = "delete" THEN "double_free" ELSE "use_after_free"

Access(t) ==
    /\ kind[t] \in {"access", "set"} \/ (kind[t] = "copyP" /\ Null \in handles[t])
    /\ UNCHANGED <<heapVars, loaderVars>>

\* p.pRuntimePath = value, for a value that is null or is not.
SetPath(t) ==
    /\ kind[t] = "setPath"
    /\ paths' \in {paths \cup (handles[t] \ {Null}), paths \ handles[t]}
    /\ UNCHANGED <<alive, manual, loaderVars>>

Delete(t) ==
    /\ kind[t] = "delete"
    /\ alive' = alive \ handles[t]
    /\ manual' = manual \ handles[t]
    /\ paths' = paths \ handles[t]
    /\ UNCHANGED loaderVars

\* A loaded library is passed the arguments; without one they are stored, if they
\* name a path.
Stores(o) == ~ loaded /\ o \in paths

SetRuntimePath(t) ==
    /\ kind[t] = "keep"
    /\ \E o \in handles[t] : kept' = IF Stores(o) THEN o ELSE kept
    /\ UNCHANGED <<heapVars, loaded>>

\* The library is found or not; what is stored stays stored.
InitApi(t) ==
    /\ kind[t] = "init"
    /\ loaded' \in {loaded, TRUE}
    /\ UNCHANGED <<heapVars, kept>>

KeepsArgs == kept
KeptAfterClose == Null

\* The library is freed or not; what is stored is forgotten in any case.
CloseApi(t) ==
    /\ kind[t] = "close"
    /\ loaded' \in {loaded, FALSE}
    /\ kept' = KeptAfterClose
    /\ UNCHANGED heapVars

\* The native function runs and returns to a binding that returns at once.
Answer(t) ==
    /\ \/ Access(t) \/ SetPath(t) \/ Delete(t)
       \/ SetRuntimePath(t) \/ InitApi(t) \/ CloseApi(t)
    /\ Goto(t, "idle")
    /\ kind' = [kind EXCEPT ![t] = "none"]
    /\ UNCHANGED made

\* It returns a pointer, to a new object or into its argument.
Make(t, o) ==
    /\ \/ kind[t] = "member" /\ o \in handles[t] /\ UNCHANGED <<alive, manual>>
       \/ /\ kind[t] \in Owned \cup Manual
          /\ o \notin alive
          /\ alive' = alive \cup {o}
          /\ manual' = IF kind[t] \in Manual THEN manual \cup {o} ELSE manual
    /\ made' = [made EXCEPT ![t] = o]
    /\ Goto(t, "return")
    /\ UNCHANGED <<paths, loaderVars, kind>>

Native(t) ==
    /\ At(t, "native")
    /\ IF FaultOf(t) # "none"
       THEN Crash(FaultOf(t))
       ELSE /\ Answer(t) \/ \E o \in Objects : Make(t, o)
            /\ args' = [args EXCEPT ![t] = {}]
            /\ handles' = [handles EXCEPT ![t] = {}]
            /\ UNCHANGED <<proxyVars, self, fault>>

AlwaysOwns(k) == TRUE
CMemOwn(k) == k \in Owned

\* The binding makes a proxy of the returned pointer.
Wrap(t, p) ==
    /\ At(t, "return")
    /\ Unused(p)
    /\ swigCPtr' = [swigCPtr EXCEPT ![p] = made[t]]
    /\ swigCMemOwn' = [swigCMemOwn EXCEPT ![p] = CMemOwn(kind[t])]
    /\ referenced' = referenced \cup {p}
    /\ finalizable' = finalizable \cup {p}
    /\ made' = [made EXCEPT ![t] = Null]
    /\ kind' = [kind EXCEPT ![t] = "none"]
    /\ Goto(t, "idle")
    /\ UNCHANGED <<heapVars, loaderVars, lock, self, args, handles, fault>>

-------------------------------------------------------------------------------
(* Dispose and the finalizer *)

\* A careful application disposes a proxy once; a careless one keeps using it.
CallDispose(t, p) ==
    /\ At(t, "idle")
    /\ p \in referenced
    /\ swigCMemOwn[p] => MayDelete(p)
    /\ referenced' = IF Careful THEN referenced \ GivenUp(p) ELSE referenced
    /\ self' = [self EXCEPT ![t] = p]
    /\ Goto(t, "lock")
    /\ UNCHANGED <<heapVars, loaderVars, swigCPtr, swigCMemOwn, lock, finalizable,
                   callVars, fault>>

\* The application uses p no more: its variable counts as dead from here on.
Drop(p) ==
    /\ fault = "none"
    /\ p \in referenced
    /\ MayDrop(p)
    /\ referenced' = referenced \ GivenUp(p)
    /\ UNCHANGED <<heapVars, loaderVars, swigCPtr, swigCMemOwn, lock, finalizable, pc,
                   self, callVars, fault>>

\* While a native function runs its HandleRef arguments keep the proxies alive.
NotKeptAlive(t) == {}
KeptAlive(t) == args[t]

\* The collector finds p unreachable and the finalizer thread takes it.
Collect(p) ==
    /\ At(Finalizer, "idle")
    /\ p \in finalizable \ referenced
    /\ \A t \in Threads : p \notin KeptAlive(t) /\ self[t] # p
    /\ finalizable' = finalizable \ {p}
    /\ self' = [self EXCEPT ![Finalizer] = p]
    /\ Goto(Finalizer, "lock")
    /\ UNCHANGED <<heapVars, loaderVars, swigCPtr, swigCMemOwn, lock, referenced,
                   callVars, fault>>

NoLock(p) == TRUE
LockFree(p) == lock[p] = NoThread

DisposeLock(t) ==
    /\ At(t, "lock")
    /\ LockFree(self[t])
    /\ lock' = [lock EXCEPT ![self[t]] = t]
    /\ Goto(t, "test")
    /\ UNCHANGED <<heapVars, loaderVars, swigCPtr, swigCMemOwn, finalizable, referenced,
                   callVars, self, fault>>

NeverDeletes(p) == FALSE
Deletes(p) == swigCPtr[p] # Null /\ swigCMemOwn[p]

KeepsOwn(p) == swigCMemOwn[p]
OwnAfterTest(p) == FALSE

DisposeTest(t) ==
    /\ At(t, "test")
    /\ LET p == self[t] IN
       \/ /\ Deletes(p)
          /\ swigCMemOwn' = [swigCMemOwn EXCEPT ![p] = OwnAfterTest(p)]
          /\ Goto(t, "free")
       \/ /\ ~ Deletes(p)
          /\ Goto(t, "clear")
          /\ UNCHANGED swigCMemOwn
    /\ UNCHANGED <<heapVars, loaderVars, swigCPtr, lock, finalizable, referenced,
                   callVars, self, fault>>

DisposeFree(t) ==
    /\ At(t, "free")
    /\ IF swigCPtr[self[t]] \notin alive
       THEN Crash("double_free")
       ELSE /\ alive' = alive \ {swigCPtr[self[t]]}
            /\ paths' = paths \ {swigCPtr[self[t]]}
            /\ Goto(t, "clear")
            /\ UNCHANGED <<manual, loaderVars, proxyVars, callVars, self, fault>>

\* The pointer is cleared and the lock left; the finalizer is done.
DisposeClear(t) ==
    /\ At(t, "clear")
    /\ swigCPtr' = [swigCPtr EXCEPT ![self[t]] = Null]
    /\ lock' = [lock EXCEPT ![self[t]] = NoThread]
    /\ IF t = Finalizer
       THEN Goto(t, "idle") /\ self' = [self EXCEPT ![t] = NoProxy]
       ELSE Goto(t, "suppress") /\ UNCHANGED self
    /\ UNCHANGED <<heapVars, loaderVars, swigCMemOwn, finalizable, referenced, callVars,
                   fault>>

Suppress(t) ==
    /\ At(t, "suppress")
    /\ finalizable' = finalizable \ {self[t]}
    /\ self' = [self EXCEPT ![t] = NoProxy]
    /\ Goto(t, "idle")
    /\ UNCHANGED <<heapVars, loaderVars, swigCPtr, swigCMemOwn, lock, referenced,
                   callVars, fault>>

-------------------------------------------------------------------------------
DisposeStep(t) ==
    DisposeLock(t) \/ DisposeTest(t) \/ DisposeFree(t) \/ DisposeClear(t)

Finish(t) == Native(t) \/ (\E p \in Proxies : Wrap(t, p)) \/ DisposeStep(t) \/ Suppress(t)

Next ==
    \/ \E t \in Threads :
        \/ \E k \in Calls, ps \in SUBSET Proxies : CallNative(t, k, ps)
        \/ \E p \in Proxies : CallDispose(t, p)
        \/ Finish(t)
    \/ DisposeStep(Finalizer)
    \/ \E p \in Proxies : Drop(p) \/ Collect(p)

Spec == Init /\ [][Next]_vars

\* Threads finish the calls they are in, and a collector that keeps running
\* finds every unreachable proxy; nobody need call, dispose or drop anything.
Fairness ==
    /\ \A t \in Threads : WF_vars(Finish(t))
    /\ WF_vars(DisposeStep(Finalizer))
    /\ \A p \in Proxies : WF_vars(Collect(p))

FairSpec == Spec /\ Fairness
-------------------------------------------------------------------------------
(* Properties *)

\* For a careful application: native code never gets a null pointer or one to a
\* freed object, and no object is freed twice (HandleRef, Dispose, finalizer).
NoFault == fault = "none"

\* For any application: Dispose, racing with itself and with the finalizer, never
\* deletes an object twice.
NoDoubleFree == fault # "double_free"

\* For any application: an object has one owner, and an owner's object is there.
OwnedOnce ==
    \A p \in Proxies : swigCMemOwn[p] =>
        /\ swigCPtr[p] \in alive \ manual
        /\ \A q \in Proxies : swigCMemOwn[q] /\ swigCPtr[q] = swigCPtr[p] => q = p

InDispose(p, steps) == \E t \in Actors : self[t] = p /\ pc[t] \in steps

\* For any application: an object that delete_XP is not to free still has an owner
\* that will delete it; in particular SuppressFinalize comes too early for none.
NothingLeaked ==
    \A o \in alive \ manual :
        \/ \E t \in Threads : pc[t] = "return" /\ made[t] = o /\ CMemOwn(kind[t])
        \/ \E p \in Proxies :
              /\ swigCPtr[p] = o
              /\ \/ swigCMemOwn[p] /\ (p \in finalizable \/ InDispose(p, {"lock", "test"}))
                 \/ InDispose(p, {"free"})

\* An object whose owner the application has forgotten is freed in the end
\* (or the process has died).
Reclaimed ==
    \A o \in Objects :
        (\E p \in Proxies \ referenced : swigCMemOwn[p] /\ swigCPtr[p] = o)
            ~> (o \notin alive \/ fault # "none")

\* Dispose frees the object, whoever else disposes the same proxy.
DisposeFrees ==
    \A t \in Threads : \A p \in Proxies : \A o \in Objects :
        (pc[t] = "lock" /\ self[t] = p /\ swigCMemOwn[p] /\ swigCPtr[p] = o)
            ~> (o \notin alive \/ fault # "none")

\* "Free pArgs and pArgs->pRuntimePath only after ctlInit() call"
\* (cApiWrapper.cpp:253): the bindings themselves do not free what ctlSetRuntimePath
\* has stored before ctlInit has loaded the library that it names.
KeptArgsNotCollected ==
    [][DisposeFree(Finalizer) /\ ~ loaded /\ kept \in alive => kept \in alive']_vars

-------------------------------------------------------------------------------
(* The inductive invariant behind the properties of any application.          *)

\* Who is to see to it that an object is deleted: a call that returns it, the
\* proxy that owns it, or the thread that is deleting it.
Returning(t) == pc[t] = "return" /\ CMemOwn(kind[t])
Freeing(t) == pc[t] = "free"

\* The object is there and not for delete_XP ...
ClaimsLive ==
    /\ \A t \in Threads : Returning(t) => made[t] \in alive \ manual
    /\ \A p \in Proxies : swigCMemOwn[p] => swigCPtr[p] \in alive \ manual
    /\ \A t \in Actors : Freeing(t) => swigCPtr[self[t]] \in alive \ manual

\* ... nobody else is to delete it ...
ClaimsUnique ==
    /\ \A t, u \in Threads : Returning(t) /\ Returning(u) /\ made[t] = made[u] => t = u
    /\ \A p, q \in Proxies :
           swigCMemOwn[p] /\ swigCMemOwn[q] /\ swigCPtr[p] = swigCPtr[q] => p = q
    /\ \A t, u \in Actors :
           Freeing(t) /\ Freeing(u) /\ swigCPtr[self[t]] = swigCPtr[self[u]] => t = u
    /\ \A t \in Threads, p \in Proxies : Returning(t) /\ swigCMemOwn[p] => made[t] # swigCPtr[p]
    /\ \A t \in Threads, u \in Actors :
           Returning(t) /\ Freeing(u) => made[t] # swigCPtr[self[u]]
    /\ \A p \in Proxies, u \in Actors :
           swigCMemOwn[p] /\ Freeing(u) => swigCPtr[p] # swigCPtr[self[u]]

\* ... and there is no object that nobody is to delete.
ClaimsComplete ==
    \A o \in alive \ manual :
        \/ \E t \in Threads : Returning(t) /\ made[t] = o
        \/ \E p \in Proxies : swigCMemOwn[p] /\ swigCPtr[p] = o
        \/ \E t \in Actors : Freeing(t) /\ swigCPtr[self[t]] = o

DisposeInv(t) ==
    /\ pc[t] \in Disposing => self[t] \in Proxies
    /\ pc[t] \in {"test", "free", "clear"} => lock[self[t]] = t
    /\ pc[t] \in {"free", "clear", "suppress"} => ~ swigCMemOwn[self[t]]

\* An owner has not been disposed, and its finalizer will do so.
OwnersFinalizable ==
    \A p \in Proxies : swigCMemOwn[p] => p \in finalizable \/ InDispose(p, {"lock", "test"})

DeleteInv ==
    /\ \A t \in Threads : kind[t] = "delete" => handles[t] \subseteq manual
    /\ \A t, u \in Threads : kind[t] = "delete" /\ kind[u] = "delete" /\ t # u =>
           handles[t] \cap handles[u] = {}

IInv ==
    /\ TypeOK
    /\ NoDoubleFree
    /\ ClaimsLive /\ ClaimsUnique /\ ClaimsComplete
    /\ \A t \in Actors : DisposeInv(t)
    /\ OwnersFinalizable
    /\ DeleteInv
-------------------------------------------------------------------------------
(* The inductive invariant behind NoFault, for a careful application.          *)

\* Whatever pointer may still be used is one to an allocated object.
PointersLive ==
    /\ \A p \in referenced : swigCPtr[p] \in alive
    /\ \A t \in Threads : handles[t] \subseteq alive
    /\ \A t \in Threads : pc[t] = "return" => made[t] \in alive
    /\ ~ loaded => kept \in alive \cup {Null}

\* Nothing is left through which a new call could get at o.
Unreachable(o) == ~ PointerLeft(o) /\ \A q \in referenced : swigCPtr[q] # o

\* An owner the application has given up is the last proxy of its object, and
\* calls that still run with the object keep the owner from the collector.
ForgottenOwners ==
    \A p \in Proxies : swigCMemOwn[p] /\ p \notin referenced =>
        /\ Unreachable(swigCPtr[p])
        /\ \A t \in Threads : swigCPtr[p] \in handles[t] =>
               p \in args[t] /\ \A u \in Actors : self[u] # p

\* An object that is about to be freed is in nobody else's hands.
FreedUnused ==
    /\ \A t \in Actors : Freeing(t) =>
           /\ Unreachable(swigCPtr[self[t]])
           /\ \A u \in Threads : swigCPtr[self[t]] \notin handles[u]
    /\ \A t \in Threads : \A o \in handles[t] : kind[t] = "delete" =>
           /\ Unreachable(o)
           /\ \A u \in Threads \ {t} : o \notin handles[u]

\* A proxy that is being disposed is no longer used.
DisposedUnused == \A t \in Actors : self[t] \notin referenced

CInv ==
    /\ IInv
    /\ NoFault
    /\ PointersLive
    /\ ForgottenOwners
    /\ FreedUnused
    /\ DisposedUnused

-------------------------------------------------------------------------------
\* For a careful application the proxies implement the lives of native objects: an
\* object that it can still get at is not freed, and one that it has given up is
\* freed once and never got at again.
Lives == INSTANCE ObjectLives WITH
    reachable <- {o \in Objects : ~ Unreachable(o)},
    inUse <- handles

ImplementsLives == Lives!Spec
===============================================================================
