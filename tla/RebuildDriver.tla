------------------------------ MODULE RebuildDriver ------------------------------
(***************************************************************************)
(* rebuild_igcl.bat with the custom build step of IGCLWrapper.vcxproj that *)
(* runs SWIG: generate the bindings, build the DLL, copy both into the     *)
(* test project, build and run the tests there.  The script stops at the   *)
(* first step that fails and may be interrupted anywhere; it is then run   *)
(* again, perhaps after prepare_igcl.ps1 has installed another SDK.        *)
(*                                                                         *)
(* What a file contains is the SDK it was made from.  Whether the tests    *)
(* pass is left open; what they are run against is not.                    *)
(*                                                                         *)
(* A definition that stands just above another one with the same           *)
(* parameters is a faulty variant of it, used nowhere in the model.        *)
(***************************************************************************)
CONSTANTS
    SDKs,         \* the releases of the SDK
    NoSdk,        \* the content of a file that does not exist
    Types,        \* the types of igcl_api.h
    Module,       \* IGCL.cs and IGCLPINVOKE.cs
    TypesOf,      \* TypesOf[s]: the types SDK s declares
    Shrinks       \* may an update drop a type?

ASSUME DriverAssumption ==
    /\ NoSdk \notin SDKs
    /\ Module \notin Types
    /\ TypesOf \in [SDKs -> SUBSET Types]
    /\ Shrinks \in BOOLEAN

VARIABLES
    sdk,          \* the installed SDK
    bindings,     \* IGCLWrapper/cs_bindings: [Files -> SDKs or NoSdk]
    wrap,         \* IGCLWrapper_wrap.cxx
    dll,          \* IGCLWrapper/x64/Debug/IGCLWrapper.dll
    tBindings,    \* IGCLWrapper.Tests/cs_bindings
    tDll,         \* IGCLWrapper.Tests/bin/Debug/net8.0/IGCLWrapper.dll
    pc,           \* the step the script is at, "idle" between two runs
    outcome,      \* "none" during a run, then "failed" or "passed"
    calm          \* steps no longer fail, nobody interrupts them or updates the SDK

built == <<bindings, wrap, dll>>
copied == <<tBindings, tDll>>
vars == <<sdk, built, copied, pc, outcome, calm>>

Files == Types \cup {Module}
Content == SDKs \cup {NoSdk}
Steps == {"generate", "compile", "copyBindings", "copyDll", "test"}

\* The bindings SWIG makes of an SDK: a file for each type and the module's.
Generated(s) == TypesOf[s] \cup {Module}

TypeOK ==
    /\ sdk \in SDKs
    /\ bindings \in [Files -> Content] /\ tBindings \in [Files -> Content]
    /\ {wrap, dll, tDll} \subseteq Content
    /\ pc \in Steps \cup {"idle"}
    /\ outcome \in {"none", "failed", "passed"}
    /\ calm \in BOOLEAN
    /\ pc = "copyDll" => dll # NoSdk
    /\ pc = "test" => tDll # NoSdk

\* A clone of the repository: its checked-in bindings are of one SDK.
Init ==
    /\ sdk \in SDKs
    /\ \E s \in SDKs :
        /\ bindings = [f \in Files |-> IF f \in Generated(s) THEN s ELSE NoSdk]
        /\ Shrinks \/ TypesOf[s] \subseteq TypesOf[sdk]
    /\ wrap = bindings[Module]
    /\ dll = NoSdk /\ tDll = NoSdk
    /\ tBindings = bindings
    /\ pc = "idle" /\ outcome = "none" /\ calm = FALSE

-------------------------------------------------------------------------------
\* Every error branch prints a message and exits with 1.
Fail ==
    /\ pc' = "idle"
    /\ outcome' = "failed"
    /\ UNCHANGED <<sdk, calm>>

StepFailed == ~ calm /\ Fail

Goto(next) ==
    /\ pc' = next
    /\ UNCHANGED <<sdk, outcome, calm>>

\* Files written over, all of ws or, when the step fails, some of them.
OnlyAdds(files, ws, new) ==
    [f \in Files |-> IF f \in ws /\ files[f] = NoSdk THEN new[f] ELSE files[f]]
Overwrite(files, ws, new) == [f \in Files |-> IF f \in ws THEN new[f] ELSE files[f]]

\* msbuild /t:Rebuild first deletes what the last build made.
DllAfterClean == NoSdk

Start ==
    /\ pc = "idle"
    /\ pc' = "generate"
    /\ outcome' = "none"
    /\ dll' = DllAfterClean
    /\ UNCHANGED <<sdk, bindings, wrap, copied, calm>>

\* swig.exe: writes the files of the SDK's types and deletes none.
Generate ==
    /\ pc = "generate"
    /\ LET new == [f \in Files |-> sdk] IN
       \/ /\ bindings' = Overwrite(bindings, Generated(sdk), new)
          /\ wrap' = sdk
          /\ Goto("compile")
       \/ /\ \E ws \in SUBSET Generated(sdk) : bindings' = Overwrite(bindings, ws, new)
          /\ wrap' \in {wrap, NoSdk}
          /\ StepFailed
    /\ UNCHANGED <<dll, copied>>

\* The compiler and the linker.
IgnoresCompile == Goto("copyBindings")
CompileFailed == StepFailed

Compile ==
    /\ pc = "compile"
    /\ \/ dll' = wrap /\ Goto("copyBindings")
       \/ ~ calm /\ UNCHANGED dll /\ CompileFailed
    /\ UNCHANGED <<bindings, wrap, copied>>

\* xcopy /Y: adds and overwrites, and stops at the first file it cannot write.
IgnoresCopy == Goto("copyDll")
CopyFailed == StepFailed

CopyBindings ==
    /\ pc = "copyBindings"
    /\ LET made == {f \in Files : bindings[f] # NoSdk} IN
       \/ /\ tBindings' = Overwrite(tBindings, made, bindings)
          /\ Goto("copyDll")
       \/ /\ ~ calm
          /\ \E ws \in SUBSET made \ {made} : tBindings' = Overwrite(tBindings, ws, bindings)
          /\ CopyFailed
    /\ UNCHANGED <<built, tDll>>

CopyDll ==
    /\ pc = "copyDll"
    /\ \/ tDll' = dll /\ Goto("test")
       \/ UNCHANGED tDll /\ StepFailed
    /\ UNCHANGED <<built, tBindings>>

\* A binding of a type that the module no longer knows does not compile.
Compiles == \A f \in Files : tBindings[f] # NoSdk => f \in Generated(tBindings[Module])

Test ==
    /\ pc = "test"
    /\ \/ Compiles /\ pc' = "idle" /\ outcome' = "passed" /\ UNCHANGED <<sdk, calm>>
       \/ Fail
    /\ UNCHANGED <<built, copied>>

-------------------------------------------------------------------------------
\* Ctrl-C, or the machine goes down, between two steps.
Interrupt ==
    /\ ~ calm
    /\ pc \in Steps
    /\ Fail
    /\ UNCHANGED <<built, copied>>

\* prepare_igcl.ps1 has installed SDK s.
Update(s) ==
    /\ ~ calm
    /\ pc = "idle"
    /\ Shrinks \/ TypesOf[sdk] \subseteq TypesOf[s]
    /\ sdk' = s
    /\ UNCHANGED <<built, copied, pc, outcome, calm>>

BecomeCalm ==
    /\ calm' = TRUE
    /\ UNCHANGED <<sdk, built, copied, pc, outcome>>

Script == Start \/ Generate \/ Compile \/ CopyBindings \/ CopyDll \/ Test

Next == Script \/ Interrupt \/ BecomeCalm \/ \E s \in SDKs : Update(s)

Spec == Init /\ [][Next]_vars

\* The developer runs the script again until the tests pass; a step that is
\* started ends.
FairSpec == Spec /\ WF_vars(Script)
-------------------------------------------------------------------------------
(* Properties *)

\* What the tests are built from and run against is of one SDK, the installed
\* one: no step is reached on the leftovers of a run that failed before it.
TestedTogether ==
    pc = "test" =>
        /\ tDll = sdk
        /\ \A f \in Files : tBindings[f] \in {sdk, NoSdk}
        /\ \A f \in Generated(sdk) : tBindings[f] = sdk

\* Whatever failed before, a run that is left alone gets to the tests with the
\* installed SDK's DLL and bindings.
Repairs == calm ~> (pc = "test" /\ Compiles /\ tDll = sdk /\ tBindings[Module] = sdk)

\* "Copy generated C# binding files to IGCLWrapper.Tests project"
\* (rebuild_igcl.bat:26): what the tests are built with is what was generated
\* from the SDK, so that they compile.
OnlyGenerated == pc = "test" => Compiles

-------------------------------------------------------------------------------
(* The inductive invariant behind the safety properties. *)

\* What the steps behind the script have left.
DoneInv ==
    /\ pc \in {"compile", "copyBindings", "copyDll", "test"} =>
           wrap = sdk /\ \A f \in Generated(sdk) : bindings[f] = sdk
    /\ pc \in {"copyBindings", "copyDll", "test"} => dll = sdk
    /\ pc \in {"copyDll", "test"} => \A f \in Generated(sdk) : tBindings[f] = sdk
    /\ pc = "test" => tDll = sdk

\* SDKs only grow: there is no file of a type that the installed one lacks.
NoStaleFile ==
    \A f \in Files : bindings[f] # NoSdk \/ tBindings[f] # NoSdk => f \in Generated(sdk)
===============================================================================
