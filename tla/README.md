# IGCLWrapper: TLA+ models and proofs

IGCLWrapper gives C# programs access to Intel's Graphics Control Library (IGCL).
A C# call goes through generated SWIG bindings into `IGCLWrapper.dll`, there
either straight into Intel's `cApiWrapper.cpp` or first through a helper of
`IGCLWrapper.i`, and `cApiWrapper.cpp` forwards it to the runtime `ControlLib.dll`,
which it loads on the first `ctlInit` and unloads on the last `ctlClose`.

This directory holds TLA+ models of that code, TLC configurations that check
them on small instances, and proofs checked by TLAPS for every instance.
Paths below are relative to `src/`; `cApiWrapper.cpp` stands for
`drivers.gpu.control-library/Source/cApiWrapper.cpp`.

## 1. The system

### Components

| Component | State it keeps | Operations |
|---|---|---|
| API loader, `cApiWrapper.cpp:32-258` | statics `hinstLib`, `pRuntimeArgs` | `ctlInit`, `ctlClose`, `ctlSetRuntimePath` |
| API forwarders, `cApiWrapper.cpp:277-5912` | none of their own; they read `hinstLib` | 125 entry points with one body: read the handle, `GetProcAddress`, call |
| Public API, `igcl_api.h` | the runtime's, behind opaque handles | contracts: result codes, count-then-fill enumerations, size-then-read access |
| Helpers, `IGCLWrapper.i:150-274` | blocks of the C heap, handed to the caller | `IGCL_EnumDisplays`, `IGCL_GetPanelDescriptor`, `IGCL_FreeBuffer`, and setters of `Size`/`Version` before one call |
| SWIG proxies, `IGCLWrapper/cs_bindings/*.cs` | per object: native pointer, ownership flag; the native heap behind them | constructor, property access, nested proxies, pointer functions (`new_`, `copy_`, `delete_`, `_value`, `_assign`), `Dispose`, finalizer |
| SWIG exception bridge, `IGCLPINVOKE.cs:127-169` | thread-static pending exception, shared counter | `Set`, `Pending`, `Retrieve` |
| Test fixtures, `IGCLWrapper.Tests/*.cs` | one API handle per fixture object | constructor (`ctlInit`, enumerations, asserts), tests, `Dispose` (`ctlClose`) |
| SDK preparation, `prepare_igcl.ps1` | files and folders | check, remove, download, extract, rename, validate, clean up |
| Build driver, `rebuild_igcl.bat` | generated files | build, copy bindings, copy DLL, test |
| SWIG glue, DLL entry, samples, vendored SWIG | none that matters here | |

### How they interact

- All application threads share the two statics of the loader. No lock guards
  them: `ctlInit` and `ctlClose` write them, every forwarder reads `hinstLib`.
- `ctlSetRuntimePath` stores a pointer to the *caller's* structure. `ctlInit`
  dereferences it later, and calls `ctlSetRuntimePath` itself after loading.
- The runtime counts sessions; its `ctlClose` answers SUCCESS for the last and
  STILL_OPEN_BY_ANOTHER_CALLER otherwise. The wrapper unloads it on SUCCESS.
- The helpers call one forwarder twice and allocate in between, while the user
  may plug a display in or out.
- xUnit runs the four fixture classes in parallel, so their constructors and
  `Dispose` methods would meet in the loader.
- A C# call reads `swigCPtr` of its arguments and calls into the glue; the
  collector and the finalizer thread run beside it. An error the glue detects
  calls back into C#, which leaves an exception for the binding to throw.
- `prepare_igcl.ps1` fetches SWIG and the SDK; `rebuild_igcl.bat` generates the
  bindings from that SDK, builds the DLL and carries both to the tests.

### What is hard, and what correctness means

| Component | Hard behaviour | Correct when |
|---|---|---|
| Loader | races on the statics; the check of `ctlClose`'s result and the unload are not atomic; loads, lookups and runtime calls that fail half-way; stored pointers that outlive the caller's memory | a delivered handle is an open session of the loaded library; loads and frees balance; SUCCESS means a session; stored arguments are live and are those of the loaded library |
| Forwarders | the library is unmapped between the lookup and the call, or during a call that blocks (`ctlWaitForPropertyChange`) | a call in an open session reaches the runtime and comes back |
| Helpers | hot-plug between two calls, allocation failure, an error in the second call, pointer variables used again | what the caller may read was written; every block is freed once; phase 2 fills the block |
| Handles | 125 copies of one body; every handle comes out of another call | each entry point can be reached: the handles it takes are given out by calls that can be made before it |
| Proxies | finalizer against `Dispose` against a running call; nested proxies without ownership; pointers the native side keeps | each native object is freed once and never used afterwards |
| Exception bridge | unlocked read of a shared counter | a pending exception reaches the call that caused it, on its thread |
| Fixtures | an assert in the constructor after `ctlInit`: `Dispose` never runs | (not modelled, see section 5) |
| SDK preparation | interruption, leftovers of an earlier run, removal before download | a run that reports success leaves a complete SDK; runs converge |
| Build driver | a failed step leaves the products of an older SDK in place | what is tested together was made from one SDK |

`PROJECT.json` lists these as hazards, each at its line with the properties that
cover it.

## 2. The modules

### `ControlLib` (external)

What the wrapper calls and does not implement. `loads[l]` is the operating
system's reference count of DLL `l` (`LoadLibrary`, `FreeLibrary`, `HasExport`
for `GetProcAddress`), `open[l]` the sessions open in its runtime
(`OpenSession`, `CloseSession`, `CloseResult`). Unmapping a DLL ends its sessions.
Which entry points a DLL exports is the constant `Exports`. `MaxLoads` bounds the
reference count; a `LoadLibrary` at the bound is not enabled, and loading then
fails as it may at any time.

### `CApiWrapper`, the core

The two statics and, per thread, the program counter and the locals of the call
it is in. One action per step that touches a static, the loader or the runtime:

| Code | Actions |
|---|---|
| `ctlInit` 99-155 | `CallInit` (test of `hinstLib`), `InitAlloc` (path buffer, may fail), `GetControlAPIDLLPath` with its up to four reads of `pRuntimeArgs` (`InitPath`, `InitPathArgs` in line 54, `InitCopyTest` 74, `InitCopy` 77), `InitLoad`, `InitStore`, `InitLoaded` (132), `InitTestArgs` (136), `InitSetPath` (138), `InitSetGet` (235, in the nested `ctlSetRuntimePath`), `InitGet` (143), `InitProc`, `InitCall` |
| `ctlClose` 172-207 | `CallClose`, `CloseProc`, `CloseCall`, `CloseTest`, `CloseFree`, `CloseClear`, `CloseDrop` |
| `ctlSetRuntimePath` 228-258 | `CallSetRuntimePath`, `SetProc`, `SetCall`, `SetStore`; `SetReturn` goes back to the application or to `ctlInit` |
| forwarders, e.g. 277-299 | `CallForward`, `ForwardProc`, `ForwardCall`, `ForwardReturn` |
| the application | `FreeArgs`, and the guards below |

- `result[t]` is the C variable `result` and then the value returned.
- Unsynchronised accesses to the statics are data races. Every access is a step
  of its own; where the source reads a static again, the build may have kept the
  value of the read before, so that the later use takes either that or the current
  value (`ReadArgsAgain`, `ReadLibAgain`, `InitLoaded`, `CloseFree`).
- A null or freed pointer that is dereferenced, and code of an unmapped library
  that is executed, end the process: `fault` becomes non-`"none"` and nothing
  moves any more.
- A path is a model value: `PathOf[a]` is the DLL that the arguments `a` name, or
  `NoLib` for arguments without a path.

What the application does is given by constants, so that the same module
describes careful and careless ones:

| Constant | FALSE | TRUE |
|---|---|---|
| `Serialised` | threads race on `ctlInit`, `ctlClose`, `ctlSetRuntimePath` | one of those calls at a time; forwarders still run in parallel with them |
| `PassNull` | never | may pass a null `pInitDesc` or `pArgs` |
| `FreeAfterFailedInit` | frees path arguments after a successful `ctlInit` or after `ctlClose` | after any `ctlInit`, as the note at line 253 reads |

Always assumed: the application closes a handle once (`held`), uses only handles it
holds, and closes none under a call of its own that still uses it.

### `ApiSessions`, the abstract service

What the loader promises, without statics, steps or arguments: at most one
runtime is mapped, sessions open and close in it, threads enter and leave it
while a session is open, and it is unmapped only when no session is open and
nobody is inside. `CApiWrapper` implements it with `mapped` as the DLLs with a
positive count and `inside[t]` as the DLL whose code `t` executes
(`ImplementsService`). `OneRuntime` says what follows from the service alone.

### `WrapperHelpers`

`IGCL_EnumDisplays` and `IGCL_GetPanelDescriptor`, one action per runtime call and
allocation, and `IGCL_FreeBuffer`. The heap is `size` and `content` of a few
blocks; `Malloc` takes any free block, so freed blocks are reused, and may fail.
`Hotplug` changes the connected displays between any two steps. A forwarded call
is one step that succeeds or fails: that covers `CApiWrapper`'s whole range of
outcomes, including a library unloaded between the two calls. Null arguments are
refused before anything else happens (`RefuseNull`). The caller's `*pCount` keeps
what an earlier call left in it. A caller uses a result, frees its block, clears a
descriptor pointer and calls again.

### `ControlApi` and `HandleTree`

`ControlApi` is a table: the 125 forwarding entry points of `cApiWrapper.cpp` by
feature, in the order of the file, each with its name, the kinds of handles it
takes and the kinds it gives out (through an out parameter or a field of its
argument structure). `HelperOf` names the entry point behind each plain helper of
`IGCLWrapper.i`, `CSharpOuts` the handles for which the bindings can make an out
parameter (`%pointer_functions`).

`HandleTree` puts an application in front of the table. `Open` is `ctlInit`, `Close`
is `ctlClose`, `Forward(f)` a call of any entry point with handles of the kinds the
application holds; `Delivered` is what it can take of the handles given out. The
constant `Outs` makes it a C++ or a C# application. Handles count by kind only. Calls
are atomic and succeed; `CApiWrapper` has their inside. The name that each of the 125
bodies looks up is not in the model: a table copied from the bodies could only be
compared with itself.

### `SwigPendingException` and `ExceptionSlots`

The bridge that turns errors of the glue into C# exceptions. Per thread: the native
call (`NativeReturns`, `NativeRaises`), the callback (`Retrieve`, then `Set`), the
binding's `if (Pending) throw Retrieve()` (`Check`, `Retrieve`). `Enter`, `Load` and
`Store` are the lock and the two halves of `++` and `--`; tests of the counter
happen without the lock. `ExceptionSlots` is the promise: one slot per thread, and a
call throws what its slot holds. The bridge implements it with `slot` as the
thread-static variable, or what a thread has already taken out of it.

### `SwigProxy`

All proxy classes share one body (line numbers are those of
`ctl_power_limits_t.cs`). The heap is `alive`; `manual` are the objects of `new_XP`
and `copy_XP`, which C# code deletes by hand; `paths` those whose `pRuntimePath` is
set. `kept` and `loaded` are the loader's `pRuntimeArgs` and "is `hinstLib` set?".

`CallNative` reads the pointers of the arguments and `Native` runs the function. It
answers at once (`Answer`: `Access` for plain members and API functions, `SetPath` for
`pRuntimePath`, `Delete` for `delete_XP`, and the three loader calls below) or returns
a pointer (`Make`), of which `Wrap` makes a proxy.

| Loader call | Here | What it does with `kept` |
|---|---|---|
| `ctlSetRuntimePath` | `SetRuntimePath` | stores its argument if no library is loaded and the argument has a path (`Stores`, lines 238, 250) |
| `ctlInit` | `InitApi` | reads it if no library is loaded (`Touched`); leaves it as it is, whether it succeeds or fails |
| `ctlClose` | `CloseApi` | forgets it, whether it succeeds or fails (line 205) |

`CallDispose`, `DisposeLock`, `DisposeTest`, `DisposeFree`, `DisposeClear`, `Suppress` are
`Dispose`; the finalizer thread runs the same steps on a proxy that `Collect` has
found unreachable. `Drop` is the end of the application's use of a proxy. `HandleRef`
keeps the arguments of a running native call from the collector (`KeptAlive`), and
nothing more.

With `Careful`, the application gives an object up only when no other proxy or
running call needs it and no later `ctlInit` would read it, that is, once a library
is loaded or `ctlClose` has forgotten it; a failed `ctlInit` is no reason to free path
arguments. Without `Careful` it does what it likes, except that it deletes an object of
`new_XP` or `copy_XP` once. All proxies and blocks are used again after they are
freed.

### `ObjectLives`, the abstract heap

What the proxies promise a careful application, without proxies, pointers, flags, locks
or a collector: which native objects exist, which the application can still get at,
which the running calls work on. What it can get at or works on is there
(`UsedExists`); what it has given up is not got at again before it has been freed.
`SwigProxy` implements it with `reachable` as the objects that some pointer the
application may still use leads to, and `inUse` as `handles` (`ImplementsLives`).

### `PrepareSdk`

`prepare_igcl.ps1` over the file system it changes: the installed folders, the
temporary ones and the archives of SWIG and of the SDK, as the parts the script's
checks can tell apart, and the output folder. One action per step with all its
outcomes and the clean-up of each error path. `Interrupt` kills the script, in the
middle of a step that touches many files if there is one; `Start` runs it again.
`BecomeCalm` is the moment from which nothing fails any more (for liveness only).
Constants: `SwigHiccups` (`swig -version` may fail although swig.exe is there),
`OutDenied` (the output folder cannot be created). `otherTops`, fixed at the start, says
whether an archive may have another top folder than the script expects.

### `RebuildDriver`

`rebuild_igcl.bat` and the custom build step of `IGCLWrapper.vcxproj`: `Start`
(`/t:Rebuild` deletes the DLL), `Generate` (SWIG), `Compile`, `CopyBindings` (xcopy),
`CopyDll`, `Test`. Every file is described by the SDK it was made from; `Update` is a
run of `prepare_igcl.ps1` between two builds. `Shrinks` says whether an SDK may drop
types. `Test` may fail for any reason: nothing is claimed of the tests themselves.

The modules `MC...` give the constants values for TLC. In every module a definition
that stands just above another one with the same parameters is a faulty variant of
it, used nowhere in the model: it shows which property notices that fault.

## 3. What is checked

| Run | Instance | Shows |
|---|---|---|
| `serialised` | 3 threads, 2 handles, 2 DLLs of which the custom one lacks `ctlSetRuntimePath`, arguments with and without a path | the core properties of a disciplined application |
| `helpers` | 2 callers, 2 displays, 2 blocks | the helpers against hot-plug, failure and reuse |
| `exceptions` | 2 threads, 2 exceptions, fair | the counter, delivery, refinement of `ExceptionSlots` |
| `proxies` | careful, 2 threads, 3 proxies, 2 objects, all kinds of calls | `NoFault` against collector, finalizer, `Dispose`, nested proxies and path arguments kept over failed `ctlInit` calls; refinement of `ObjectLives` |
| `careless_proxies` | careless, 2 threads, 2 proxies, 1 object, the seven kinds of calls that make, share or delete objects, fair | no double free, one owner, no leak; what is forgotten or disposed is freed in the end |
| `handles` | all 125 entry points, out parameters for every kind, fair | everything can be reached |
| `prepare` | any archive, failures and interruptions until they end, fair | exit code 0 and the SDK check mean full installations; the script converges |
| `rebuild` | 3 SDKs, 2 types, growing, failures until they end, fair | what is tested is of one SDK, and is tested in the end |
| `parallel_clients` | 2 threads, not serialised | violation of `StillOpenNotFreed` |
| `descriptor_read` | as `helpers` | violation of `PhaseTwoReads` |
| `collected_args` | careless, 2 threads, 2 proxies, 1 object, `new`, the setter of `pRuntimePath` and the three loader calls | violation of `KeptArgsNotCollected` |
| `handles_csharp` | out parameters as in the bindings | violation of `EveryHelperReached` |

The properties of the core:

- `SessionServed`: handles delivered and not closed are open sessions of the very
  library the wrapper forwards to.
- `NoFault`: nothing dereferences freed or null memory or runs unmapped code.
- `LoadsBalanced`: outside two short windows the loader's counts and `hinstLib` agree.
- `PathIsOfLoaded`, `StoredArgsLive`: stored arguments are those of the loaded
  library, and live as long as the next `ctlInit` would read them.
- `ForwardServed`: a call in an open session is not answered by the wrapper itself.
- `SuccessGivesHandle`: `ctlInit` returns SUCCESS exactly when it delivers a handle.
- `CloseResets`: after a `ctlClose` that returns SUCCESS all is as at the start.
- `UnusedPathKept`: a `ctlClose` that does not succeed forgets the stored arguments
  too; what it forgets is never a path chosen for a load still to come.
- `ImplementsService`: refinement of `ApiSessions`.

Of the helpers: `HeapIntact` (no double free, no overrun), `HandlesReadable` (the
first `*pCount` entries were written), `BlocksOwned` (every block has exactly one
caller who will free it).

Of the handles: `EveryEntryPointReached` (each entry point's handles can be had, from
`ctlInit` on).

Of the exception bridge: `CountExact` (the counter is the number of exceptions
between `++` and `--`, so nobody with a pending exception reads 0), `NoFatal`,
`Delivered` (a call throws what native code reported in it, nothing older, nothing
less), `ImplementsSlots`, `EventuallyThrown`.

Of the proxies: `NoFault` (careful applications: no null, freed or twice-freed
pointer reaches native code), `ImplementsLives` (careful ones: refinement of
`ObjectLives`), `NoDoubleFree`, `OwnedOnce`, `NothingLeaked` (any application), `Reclaimed` and `DisposeFrees` (liveness).

Of the scripts: `SdkCheckSuffices`, `InstalledOnSuccess`, `RenameTargetFree`,
`NeverLost`, `Converges`; `TestedTogether`, `Repairs`.

### Bounds

- Threads of the core: with control calls serialised, a race needs one control call
  and two forwarders (one per session); hence 3. Without serialisation, two threads
  already produce every pairwise race.
- Handles: 2 are needed for STILL_OPEN.
- `MaxLoads`: 2 shows the double load; under discipline `LoadsBalanced` proves that
  1 is never exceeded.
- Two DLLs and two argument objects: default and custom, with and without a path.
- Helpers: 2 displays let the count grow, shrink and vanish between the calls;
  2 blocks for 4 pointers force reuse and exhaustion.
- Exceptions: one thread holds the lock while the other waits for it or reads the
  counter without it. More threads are the theorems' part.
- Proxies: three let an owner, a nested proxy and an unrelated one coexist; two
  threads and the finalizer give every pair of concurrent disposals. The careless
  run, which also checks liveness and so has no symmetry, has room for an owner and
  a nested proxy, and for one object that is freed and allocated again. `HeapRoom`
  and `ProxyRoom` are bounds of the model: a call starts only if a block and a
  proxy will be free for its result. Memory exhaustion in the glue is not modelled.
- `HandleTree`, `PrepareSdk`: none; all entry points and all files are small enough
  to check as they are.
- Build driver: two SDKs with the same types let their files be mixed up, a third
  adds a type; two types tell "some files copied" from "all".
- Threads, handles, callers, displays, blocks, proxies and objects are symmetric in
  the model; no run that uses symmetry checks liveness.

Deadlock is checked wherever the cfg does not switch it off. It is off in
`parallel_clients`, `careless_proxies` and `collected_args` (an access violation ends
the process) and in `handles_csharp`, where the application has nothing left that it
could call.

### Fairness

- `exceptions`: weak fairness of a thread's steps (the scheduler runs every
  thread), strong fairness of entering the lock (a `Monitor` queues its waiters; a
  lock that is released again and again is granted in the end). No thread is made
  to call anything.
- `careless_proxies`: weak fairness of the steps of a call or a `Dispose` that has begun,
  of the finalizer thread, and of `Collect`: a collector that keeps running finds
  what is unreachable. .NET promises no moment for that, only that it happens under
  memory pressure; `Reclaimed` means no more. Two proxies and one object, as in this
  run, need no more than that; for more, the order of the finalizer's queue would have
  to be modelled. Weak fairness is enough for the lock:
  once nobody calls `Dispose` on a proxy anew, those inside come out.
- `prepare`, `rebuild`: weak fairness of the script and of running it
  again, which is the user. Both properties start at `BecomeCalm`: nothing is
  claimed while downloads fail.
- `handles`: the application asks for every kind of handle it lacks, and from some
  point on does not close the session before it has them: an assumption on the
  application, not on the code. Without the last part a program could close its
  session again and again before it gets anywhere.

The loader has no waiting of its own, and how long the runtime takes is not the
wrapper's; its properties are safety, action and refinement properties.

### What disagrees with its documentation

Shown by a run:

1. `ctlClose` frees the library "if its open by another caller do not"
   (`cApiWrapper.cpp:193-199`): true only if no `ctlInit` falls between the
   runtime's answer and `FreeLibrary` (`parallel_clients`).
2. `IGCL_GetPanelDescriptor` never passes its block to "Phase 2: actual read"
   (`descriptor_read`).
3. The note at `cApiWrapper.cpp:253` allows freeing path arguments after `ctlInit`.
   The C# binding of `ctlSetRuntimePath` keeps no reference to them, so the finalizer
   frees them before `ctlInit` reads them (`collected_args`). This takes arguments with
   a path: without one nothing is stored (line 250). `pRuntimePath` is set from a
   `SWIGTYPE_p_wchar_t`, whose constructors are internal or protected, so only code
   compiled together with the bindings, as `README.md:45` advises, can get there.
4. The "small C helpers for safer C# usage" (`IGCLWrapper.i:146`) cannot be called
   from C#: the public bindings have no way to hold an API handle
   (`handles_csharp`). Code compiled together with the bindings could still use
   their internal constructors.

Stated as a property that TLC refutes once it is put into the configuration named,
in place of that configuration's own properties, with the constant changed:

| | Property, configuration | Constant |
|---|---|---|
| 5. `ctlInit` returns SUCCESS without a handle when the library lacks `ctlInit`: `result` still is that of the path lookup (`cApiWrapper.cpp:120, 148`), while the tests expect a handle with SUCCESS (`SystemServicesTests.cs:33-34`) | `SuccessGivesHandle`, `MCSerialised` | `Exports <- NoInitExports` |
| 6. The note at line 253 again: after a `ctlInit` that failed before it loaded, the freed arguments are still read (line 54) | `FreedArgsNotRead`, `MCSerialised` | `FreeAfterFailedInit = TRUE` |
| 7. Null arguments documented as ERROR_INVALID_NULL_POINTER (`igcl_api.h:634, 677`) are dereferenced (`cApiWrapper.cpp:57, 250`) | `NullPointerReported`, `MCSerialised` | `PassNull = TRUE` |
| 8. "Still create the out folder if it doesn't exist" (`prepare_igcl.ps1:227`): a failure to do so goes unnoticed, and the script exits with 0 | `OutFolderOnSuccess`, `MCPrepare` | |
| 9. "Existing SWIG installation is valid" (`prepare_igcl.ps1:207`) may be said of a swig.exe whose library is gone | `AcceptedSwigIsFull`, `MCPrepare` | `SwigHiccups = TRUE` |
| 10. "Validate extracted folder exists" (`prepare_igcl.ps1:143, 290`) may validate what an earlier run left | `ExtractedIsWhole`, `MCPrepare` | |
| 11. "Copy generated C# binding files" (`rebuild_igcl.bat:26`): bindings that are no longer generated stay behind and break the test build | `OnlyGenerated`, `MCRebuild` | `Shrinks = TRUE` |

The code protects itself against none of these either, though no document says that
it does; TLC refutes them in the same way:

| | Property, configuration | Constant |
|---|---|---|
| two `ctlInit` load the library twice (`cApiWrapper.cpp:107, 130`) | `LoadsBalanced`, `MCSerialised` | `Serialised = FALSE` |
| `pRuntimeArgs` is cleared between its test and its use (line 54) | `NullPointerReported`, `MCSerialised` without deadlock check | `Serialised = FALSE` |
| a nested proxy outlives the structure it points into (`ctl_power_limits_t.cs:86`) | `NoFault`, `MCProxies` without deadlock check | `Careful = FALSE` |

Two more, found by reading and not by a run: the tests use a type
`ctl_api_handle_t` and `ref` parameters that the bindings beside them do not declare,
and the repository's README names scripts (`prepare_adlx.ps1`, `test_igcl.bat`) that
do not exist.

## 4. What is proved

`CApiWrapperProofs` proves about `CApiWrapper`, for every set of threads, DLLs,
handles and path arguments, every `Exports` and every `MaxLoads` (from the named
assumptions `LibAssumption` and `WrapperAssumption`):

| Theorem | States | Needs |
|---|---|---|
| `Typing` | `TypeOK` and `StoredPathExists` always hold | nothing |
| `Safety` | `NoFault` and `SessionServed` | `Disciplined` |
| `Bookkeeping` | `LoadsBalanced` and `PathIsOfLoaded` | `Disciplined` |
| `ArgsLive` | `StoredArgsLive` | `Disciplined` |
| `Served` | `ForwardServed` | `Disciplined`, all DLLs export the entry point |
| `Resets` | `CloseResets` | `Disciplined` |
| `ForgetsOnlyUsedPath` | `UnusedPathKept` | `Disciplined` |
| `HandleOnSuccess` | `SuccessGivesHandle` | `Disciplined`, all DLLs export `ctlInit` |
| `OpenLibraryKept` | `StillOpenNotFreed` | `Disciplined` |
| `ServicePromise` | `ImplementsService` implies that `OneRuntime` of `ApiSessions` always holds | nothing |
| `OneRuntimeServes` | `OneRuntime`, from `Refinement` and `ServicePromise` | `Disciplined` |
| `Refinement` | `ImplementsService` | `Disciplined` |

`Disciplined` is `Serialised /\ ~PassNull /\ ~FreeAfterFailedInit`. The refuted
properties 1, 5, 6 and 7 of section 3 show that each conjunct, and the export of
`ctlInit`, is needed. `Typing` and `PathStored` need none of them, and so cover the
applications that race, pass null or free early.

The argument. `SessionServed` alone is not inductive: to see that `CloseFree`
harms no session one must know that a SUCCESS seen at `closeTest` still means that
no session is open. `IInv` (in `CApiWrapper`) adds what each control step knows:
`OneControl` (at most one thread is in a control call), `InitInv`, `CloseInv` and
`SetInv` (what the locals of that call say about the statics at each step),
`ForwardInv` (a forwarder's library is the current one and its handle is held),
`OpenOnlyInLoaded`, and `StoredArgsKept`, which strengthens `StoredArgsLive` to
arguments the application does not even believe it may free. `CloseInv` also says
that the arguments a `ctlClose` is about to forget name the library it was called on,
from which `UnusedPathKept` follows. The chain for a
forwarder: its handle is held, hence open in `hinstLib` (`SessionServed`), hence
no unload is under way (`CloseInv`), hence the library is mapped
(`LoadsBalanced`). `IInv` holds initially (`IInvInit`) and is preserved by each
group of actions (`IInvInitSteps`, `IInvOtherSteps`, `IInvCalls`), one step of the
proof per action; `Invariance` concludes. The action properties and the
refinement follow from `IInv` step by step: `CloseFree` is the only step that maps
to `Unmap`, and `QuietSteps` covers those that stutter.

`CApiWrapperProofs` also states `PathStored`, `NeverFaults` and `PathNamesLoaded`, one
property each, from the same invariants. `OpenLibraryKept` is the other side of the run
`parallel_clients`: what racing clients can break holds for those that take turns.
`StoredPathExists` (stored arguments always carry a path) is a theorem only; no run
repeats it.

`WrapperHelpersProofs`, for every finite set of callers, displays and blocks:
`HelpersTyping`, `HeapSafety`, `ReadableHandles`, `OwnedBlocks`. The invariant (`IInv` in
`WrapperHelpers`) says who is to free a block (`OwnedBy`), that every block in use has
exactly one such caller (`OneOwner`), and what a caller's locals are between the
runtime calls (`CallerInv`); a block is as large as the count that was current when
it was allocated, and that count is what the second call is limited to.

`SwigPendingExceptionProofs`, for every finite set of threads: `BridgeTyping`,
`NeverFatal`, `CounterExact`, `ExceptionDelivered`, `SlotRefinement`. `CountExact` says
whom the counter counts at every step, `ThreadInv` what a thread knows there: that
the value it loaded under the lock is still the counter, and that its slot and its
locals together hold just what native code reported. The unlocked reads are
harmless because a thread that has an exception in its slot is itself counted
(`PendingSeen`). Only `Store` changes the counter and the counted set, together
(`CountStep`).

`SwigProxyProofs`, for every set of threads, proxies and objects, and with no
assumption on the application (`Careful` is either): `ProxyTyping`,
`NeverDoubleFreed`, `SingleOwner`, `NeverLeaked`. The invariant is about claims. Who is to
delete an object is the call that returns it, the proxy that owns it, or the thread
that is at `delete`; `ClaimsLive` says that a claimed object is there and not for
`delete_XP`, `ClaimsUnique` that it has one claim, `ClaimsComplete` that every object not
for `delete_XP` has one. Steps hand a claim on: `Make` creates it, `Wrap` gives it to the
proxy (an unused proxy owns nothing: `UnusedOwnsNothing`), `DisposeTest` to the thread,
`DisposeFree` ends it. `DisposeInv` is what the lock guarantees: between the test and
the end of the lock no other thread frees through the same proxy, and the owner flag
stays cleared. `OwnersFinalizable`, an owner is finalizable or about to be tested,
is what makes `SuppressFinalize` harmless.

`CarefulProxyProofs` adds who may still *use* an object, for an application that keeps
the rules:

| Theorem | States | Needs |
|---|---|---|
| `CarefulNeverFaults` | `NoFault` | `Careful` |
| `LivesRefinement` | `ImplementsLives` | `Careful` |
| `LivesPromise` | `ImplementsLives` implies that `UsedExists` of `ObjectLives` always holds | nothing |

The rules alone do not give `NoFault`: they speak of the moment at which a proxy is
dropped, disposed or passed on, while the object is freed many steps later, by a
thread that tests nothing but the ownership flag. The invariant (`CInv` in `SwigProxy`)
carries the rules over that time. `PointersLive`: every pointer that may still be
used leads to an allocated object, the stored path arguments included while no
library is loaded, since the next `ctlInit` reads them. `ForgottenOwners`: once the application has given up
an owner, nothing else leads to its object, except calls that have the owner itself
among their arguments and so keep it from the collector (`KeptAlive`; without it the
proof fails at `Collect`). `FreedUnused`: a thread about to free an object is the last
that has anything to do with it. `DisposedUnused`: nobody uses a proxy that is being
disposed.

For the refinement one more fact is needed, that a call works on nothing before it
has read its pointers or after it has returned (`HandsInv`). `CallNative` is `Call`,
`DisposeFree` is `Reclaim`, a `delete_XP` is `Delete`, a call that allocates is `Create`
and any other `Return`; steps that only pass pointers around are `GiveUp` or stutter,
because no object given up is regained (`NothingRegained`, a part of the lemma about
each action).

`RebuildDriverProofs`, for every set of SDKs and types: `DriverTyping`, and, if SDKs only
grow (`Shrinks = FALSE`; item 11 of section 3 shows why), `OneSdkTested`
(`TestedTogether`) and `OnlyGeneratedTested` (`OnlyGenerated`: the tests compile), from what
the steps behind the script have left (`DoneInv`) and the absence of files of dropped
types (`NoStaleFile`).

`PrepareSdkProofs`, for every sequence of failures, interruptions and runs, and every
value of the two constants:

| Theorem | States | Needs |
|---|---|---|
| `DiskTyping` | `TypeOK` | nothing |
| `RenameMeetsNothing` | `RenameTargetFree` | nothing |
| `CheckedSdkIsWhole` | `SdkCheckSuffices` | nothing |
| `SuccessMeansInstalled` | `InstalledOnSuccess` | `~SwigHiccups` |
| `InstallationsKept` | `NeverLost` | `~SwigHiccups` |
| `SdkKept` | a full SDK folder is never changed | nothing |
| `AcceptedSwigIsWhole` | `AcceptedSwigIsFull`, for archives of the expected layout | `~SwigHiccups` |

The run has `SwigHiccups = FALSE`; the theorems tell which properties depend on that
(item 9 of section 3 shows why). That two files stand for the whole SDK is not due to
the check but to what the script does around it: what it extracts lacks, if
anything, a file that the check asks for (`ExtractedAlmostWhole`), it puts it where
nothing is (`TargetFree`), and it removes only what has failed the check
(`ReplacesIncomplete`), so that what is left half-way fails it too
(`StaysIncomplete`). `ProgressInv` says what a run that has come this far has
established.

`HandleTreeProofs`, for every set `Outs` of out parameters a language may have:
`HandleTyping`, that handles are held only in a session; the work is in a fact about the
table, read entry by entry (`EveryEntryPointTakesHandles`): none of the 125 entry points
can be called without a handle.

Only model-checked:
- liveness (`EventuallyThrown`, `Reclaimed`, `DisposeFrees`, `EveryEntryPointReached`,
  `Converges`, `Repairs`), which needs fairness and `ENABLED`, out of TLAPS's reach;
- the violations, which are counterexamples and nothing to prove.

Every invariant, safety action property and refinement that a passing run checks
is also a theorem.

## 5. Not modelled

- The names that the 125 bodies pass to `GetProcAddress`: a copied name would be seen
  by comparing texts, not by a model.
- Structure layouts, versions and sizes, names and wording: the wrapper copies or
  ignores them. Of `AppVersion` only "supported, newer, null" is kept.
- Paths as strings: the cut at 511 characters (`cApiWrapper.cpp:77`) makes one path
  another; in the model any path may fail to load.
- `WINDOWS_UWP` and 32-bit builds: other names for the same load.
- What a forwarded call does inside the runtime, apart from sessions.
- The xUnit fixtures: they do not compile against the bindings of this commit (no
  `ctl_api_handle_t`, no `ref` parameters), so that no state of theirs is one the
  program can be in. The races their parallel sessions would run into are in
  `parallel_clients`.
- `swigRelease` of the proxies: internal, called by nothing.
- The other pending-exception callbacks and the string helper: the glue of this
  wrapper never calls them.
- Memory exhaustion in the glue (`new` that throws through the native frames).
- `dllmain.cpp` does nothing. Samples and the SWIG distribution are third-party.

What the map covers. Most lines of the repository are not the wrapper's: SWIG's own
sources and library under `swigwin`, Intel's samples, and generated code that
repeats a handful of patterns once per structure member (the 26,000 lines of
`IGCLWrapper_wrap.cxx`, some 280 proxy classes). The models translate each pattern
once and name one instance of it; `cApiWrapper.cpp`, the part with a logic of its own,
is covered from end to end, and so are the helpers and both scripts.

## 6. What could follow

The plan of this project is done, except for the fixtures. Worth adding when the code
changes:

1. The fixtures, once they compile against the bindings: constructor, tests and
   `Dispose` over `CApiWrapper`, with the assert after `ctlInit`
   (`SystemServicesTests.cs:38`) that leaves a session open.
2. `HandleTree` over `CApiWrapper`'s steps instead of atomic calls, for handles that
   are used while another thread closes their session.

Runs stay at 2-3 actors and one spare resource each; liveness runs use no symmetry.
