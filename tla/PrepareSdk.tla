------------------------------ MODULE PrepareSdk ------------------------------
(***************************************************************************)
(* prepare_igcl.ps1: installs two products, SWIG and the IGCL SDK, from    *)
(* archives.  For each: look at what is there, download the archive, remove *)
(* what is there, extract into a temporary folder, rename it, clean up and *)
(* look again.                                                             *)
(*                                                                         *)
(* The state is the file system.  Every step may fail, and the process may *)
(* be killed in the middle of it; an operation on many files then leaves   *)
(* any part of its work.  The user runs the script again.                  *)
(*                                                                         *)
(* A definition that stands just above another one with the same           *)
(* parameters is a faulty variant of it, used nowhere in the model: it     *)
(* shows which property notices that fault.                                *)
(***************************************************************************)
EXTENDS FiniteSets

CONSTANTS
    Absent,       \* no such file or folder
    SwigHiccups,  \* may `swig -version' fail although swig.exe is there?
    OutDenied     \* may the creation of cs_bindings fail?

Products == {"swig", "sdk"}

\* What a full installation consists of, as far as the checks tell parts apart.
Parts == [w \in Products |-> IF w = "swig" THEN {"exe", "lib"} ELSE {"source", "header", "rest"}]

\* What Test-SwigInstallation and Test-IGCLSDKCompleteness look for.
Required == [w \in Products |-> IF w = "swig" THEN {"exe"} ELSE {"source", "header"}]

AllParts == UNION {Parts[w] : w \in Products}

ASSUME ScriptAssumption ==
    /\ {SwigHiccups, OutDenied} \subseteq BOOLEAN
    /\ \A f \in SUBSET AllParts : f # Absent
    /\ Absent \notin {"full", "short", "corrupt", "renamed"}

VARIABLES
    folder,     \* folder[w]: the installed files of w, or Absent
    temp,       \* temp[w]: those in its temporary folder
    zip,        \* zip[w]: what its downloaded archive is, or Absent
    outFolder,  \* does IGCLWrapper\cs_bindings exist?
    pc,         \* the next step of the script, "idle" between runs
    now,        \* the product it is working on
    exit,       \* "0" or "1" after a run that ended, else "none"
    calm,       \* from now on nothing fails and nobody interrupts the script
    otherTops   \* may an archive have another top folder than the script expects?
                \* Fixed at the start: it says which server the script meets.

diskVars == <<folder, temp, zip, outFolder>>
vars == <<diskVars, pc, now, exit, calm, otherTops>>

\* A complete archive; one that lacks a required file; one with another top
\* folder; one that cannot be read or is cut off.
Archives == {"full", "short", "corrupt"} \cup (IF otherTops THEN {"renamed"} ELSE {})

Contents(w, a) ==
    IF a = "full" THEN Parts[w]
    ELSE IF a = "short" THEN Parts[w] \ {"exe", "source"} ELSE {}

Files(f) == IF f = Absent THEN {} ELSE f

TypeOK ==
    /\ {folder, temp} \subseteq [Products -> {Absent} \cup SUBSET AllParts]
    /\ \A w \in Products : Files(folder[w]) \cup Files(temp[w]) \subseteq Parts[w]
    /\ zip \in [Products -> Archives \cup {Absent}]
    /\ outFolder \in BOOLEAN
    /\ pc \in {"idle", "online", "check", "download", "remove", "expand", "checkTemp",
               "rename", "validate", "removeZip", "outFolder", "keepSdk"}
    /\ now \in Products
    /\ exit \in {"none", "0", "1"}
    /\ {calm, otherTops} \subseteq BOOLEAN
    /\ pc = "expand" => zip[now] # Absent

\* A fresh clone, which holds nothing or full copies.
Init ==
    /\ folder \in {f \in [Products -> UNION {{Parts[w], Absent} : w \in Products}] :
                      \A w \in Products : f[w] \in {Parts[w], Absent}}
    /\ temp = [w \in Products |-> Absent]
    /\ zip = [w \in Products |-> Absent]
    /\ outFolder \in BOOLEAN
    /\ pc = "idle"
    /\ now = "swig"
    /\ exit = "none"
    /\ calm = FALSE
    /\ otherTops \in BOOLEAN

-------------------------------------------------------------------------------
Goto(step) == pc' = step /\ UNCHANGED <<exit, calm>>

Exit(code) == pc' = "idle" /\ exit' = code /\ UNCHANGED calm

MayFail == ~ calm

\* Remove-Item -Recurse: all is gone, or an error left some of it.
Removed(f) == {Absent} \cup (IF MayFail THEN SUBSET Files(f) ELSE {})

\* The clean-up of the archive on an error path: its own errors are not caught.
ZipGone == zip' \in {[zip EXCEPT ![now] = Absent]} \cup (IF MayFail THEN {zip} ELSE {})

\* Test-SwigInstallation runs swig.exe, which does not need its library for
\* -version; Test-IGCLSDKCompleteness looks for two files.
Complete(w) == Required[w] \subseteq Files(folder[w])

Verdicts(w) ==
    {Complete(w)} \cup (IF w = "swig" /\ SwigHiccups /\ MayFail THEN {FALSE} ELSE {})

-------------------------------------------------------------------------------
Start ==
    /\ pc = "idle"
    /\ pc' = "online" /\ exit' = "none" /\ now' = "swig"
    /\ UNCHANGED <<diskVars, calm>>

TestConnection ==
    /\ pc = "online"
    /\ Goto("check") \/ (MayFail /\ Exit("1"))
    /\ UNCHANGED <<diskVars, now>>

CheckSwig ==
    /\ pc = "check" /\ now = "swig"
    /\ \/ TRUE \in Verdicts("swig") /\ now' = "sdk" /\ UNCHANGED pc
       \/ FALSE \in Verdicts("swig") /\ pc' = "download" /\ UNCHANGED now
    /\ UNCHANGED <<diskVars, exit, calm>>

AlwaysRenews == IF folder["sdk"] = Absent THEN "download" ELSE "remove"
AfterSdkCheck ==
    IF folder["sdk"] = Absent THEN "download" ELSE IF Complete("sdk") THEN "keepSdk" ELSE "remove"

CheckSdk ==
    /\ pc = "check" /\ now = "sdk"
    /\ Goto(AfterSdkCheck)
    /\ UNCHANGED <<diskVars, now>>

\* SWIG's old folder goes after the download, the SDK's before it.
SkipsRemoval(w) == "expand"
AfterDownload(w) == IF w = "swig" /\ folder[w] # Absent THEN "remove" ELSE "expand"

ExpandsAnyway == Goto("expand")
DownloadFailed == Exit("1")

Download ==
    /\ pc = "download"
    /\ \/ /\ \E a \in IF MayFail THEN Archives ELSE {"full"} : zip' = [zip EXCEPT ![now] = a]
          /\ Goto(AfterDownload(now))
       \/ MayFail /\ ZipGone /\ DownloadFailed
       \/ MayFail /\ zip' = [zip EXCEPT ![now] = "corrupt"] /\ DownloadFailed
    /\ UNCHANGED <<folder, temp, outFolder, now>>

Remove ==
    /\ pc = "remove"
    /\ \/ /\ folder' = [folder EXCEPT ![now] = Absent]
          /\ Goto(IF now = "swig" THEN "expand" ELSE "download")
          /\ UNCHANGED zip
       \/ /\ MayFail
          /\ \E f \in SUBSET Files(folder[now]) : folder' = [folder EXCEPT ![now] = f]
          /\ IF now = "swig" THEN ZipGone ELSE UNCHANGED zip
          /\ Exit("1")
    /\ UNCHANGED <<temp, outFolder, now>>

ExpandIgnored == Goto("checkTemp")
ExpandFailed == Exit("1")

\* Expand-Archive -Force: into what an earlier run may have left, and leaving part
\* of its work or nothing when it fails.
Expand ==
    /\ pc = "expand"
    /\ \/ /\ zip[now] \in {"full", "short"}
          /\ temp' = [temp EXCEPT ![now] = Files(@) \cup Contents(now, zip[now])]
          /\ Goto("checkTemp")
          /\ UNCHANGED zip
       \/ /\ zip[now] = "renamed"
          /\ Goto("checkTemp")
          /\ UNCHANGED <<temp, zip>>
       \/ /\ zip[now] = "corrupt" \/ MayFail
          /\ \E f \in SUBSET Contents(now, zip[now]) :
                temp' \in {[temp EXCEPT ![now] = Files(@) \cup f], [temp EXCEPT ![now] = Absent]}
          /\ ZipGone
          /\ ExpandFailed
    /\ UNCHANGED <<folder, outFolder, now>>

CheckTemp ==
    /\ pc = "checkTemp"
    /\ \/ temp[now] # Absent /\ Goto("rename") /\ UNCHANGED zip
       \/ temp[now] = Absent /\ ZipGone /\ Exit("1")
    /\ UNCHANGED <<folder, temp, outFolder, now>>

Rename ==
    /\ pc = "rename"
    /\ \/ /\ folder[now] = Absent
          /\ folder' = [folder EXCEPT ![now] = temp[now]]
          /\ temp' = [temp EXCEPT ![now] = Absent]
          /\ Goto(IF now = "swig" THEN "removeZip" ELSE "validate")
          /\ UNCHANGED zip
       \/ /\ folder[now] # Absent \/ MayFail
          /\ \E f \in Removed(temp[now]) : temp' = [temp EXCEPT ![now] = f]
          /\ ZipGone
          /\ Exit("1")
          /\ UNCHANGED folder
    /\ UNCHANGED <<outFolder, now>>

\* The SDK is looked at before its archive is removed, and removed with it if
\* it is incomplete; SWIG afterwards, and it stays.
ValidateSdk ==
    /\ pc = "validate" /\ now = "sdk"
    /\ \/ Complete("sdk") /\ Goto("removeZip") /\ UNCHANGED <<folder, zip>>
       \/ /\ ~ Complete("sdk")
          /\ \E f \in Removed(folder["sdk"]) : folder' = [folder EXCEPT !["sdk"] = f]
          /\ ZipGone
          /\ Exit("1")
    /\ UNCHANGED <<temp, outFolder, now>>

RemoveZip ==
    /\ pc = "removeZip"
    /\ ZipGone
    /\ Goto(IF now = "swig" THEN "validate" ELSE "outFolder")
    /\ UNCHANGED <<folder, temp, outFolder, now>>

ValidateSwig ==
    /\ pc = "validate" /\ now = "swig"
    /\ \/ /\ TRUE \in Verdicts("swig")
          /\ Goto("check") /\ now' = "sdk"
       \/ /\ FALSE \in Verdicts("swig")
          /\ Exit("1") /\ UNCHANGED now
    /\ UNCHANGED diskVars

MakeOutFolder ==
    /\ pc = "outFolder"
    /\ \/ outFolder' = TRUE /\ Exit("0")
       \/ ~ outFolder /\ OutDenied /\ MayFail /\ Exit("1") /\ UNCHANGED outFolder
    /\ UNCHANGED <<folder, temp, zip, now>>

\* The path for an SDK that is already there looks at no error.
KeepSdk ==
    /\ pc = "keepSdk"
    /\ Exit("0")
    /\ outFolder' \in {TRUE} \cup (IF OutDenied /\ MayFail THEN {outFolder} ELSE {})
    /\ UNCHANGED <<folder, temp, zip, now>>

-------------------------------------------------------------------------------
\* The process is killed, in the middle of the step if that takes long.
Interrupt ==
    /\ pc # "idle" /\ MayFail
    /\ pc' = "idle" /\ exit' = "none" /\ now' = "swig"
    /\ \/ UNCHANGED diskVars
       \/ /\ pc = "download"
          /\ zip' = [zip EXCEPT ![now] = "corrupt"]
          /\ UNCHANGED <<folder, temp, outFolder>>
       \/ /\ pc = "remove" \/ (pc = "validate" /\ now = "sdk" /\ ~ Complete("sdk"))
          /\ \E f \in Removed(folder[now]) : folder' = [folder EXCEPT ![now] = f]
          /\ UNCHANGED <<temp, zip, outFolder>>
       \/ /\ pc = "expand"
          /\ \E f \in SUBSET Contents(now, zip[now]) :
                temp' = [temp EXCEPT ![now] = Files(@) \cup f]
          /\ UNCHANGED <<folder, zip, outFolder>>
    /\ UNCHANGED calm

BecomeCalm == ~ calm /\ calm' = TRUE /\ UNCHANGED <<diskVars, pc, now, exit>>

Script ==
    \/ TestConnection \/ CheckSwig \/ CheckSdk \/ Download \/ Remove \/ Expand \/ CheckTemp
    \/ Rename \/ ValidateSdk \/ RemoveZip \/ ValidateSwig \/ MakeOutFolder \/ KeepSdk

Next == (Start \/ Script \/ Interrupt \/ BecomeCalm) /\ UNCHANGED otherTops

Spec == Init /\ [][Next]_vars

\* The script runs on, and the user runs it again, at least until it succeeds.
FairSpec == Spec /\ WF_vars(Script /\ UNCHANGED otherTops) /\ WF_vars(Start /\ UNCHANGED otherTops)
-------------------------------------------------------------------------------
(* Properties *)

Full(w) == folder[w] = Parts[w]

\* The two files that Test-IGCLSDKCompleteness looks for stand for the whole SDK:
\* no failure or interruption leaves a folder with both and without the rest, as
\* long as every archive has the expected top folder.
SdkCheckSuffices == Complete("sdk") /\ ~ otherTops => Full("sdk")

\* A run that exits with 0 leaves both products in full (if a swig.exe that is
\* there always answers -version, and archives have the expected top folder).
InstalledOnSuccess == exit = "0" /\ ~ otherTops => Full("swig") /\ Full("sdk")

\* Rename-Item never meets an old folder: leftovers of earlier runs are gone by then.
RenameTargetFree == pc = "rename" => folder[now] = Absent

\* A complete SDK and a complete SWIG are never touched again, whatever fails.
NeverLost ==
    [][\A w \in Products : Full(w) => folder'[w] = folder[w]]_vars

\* Whatever state earlier failures left: once they have stopped, running the
\* script again succeeds (with archives as the script expects them).
Converges ==
    calm /\ ~ otherTops ~> (exit = "0" /\ Full("swig") /\ Full("sdk") /\ outFolder)

\* "Still create the out folder if it doesn't exist" (prepare_igcl.ps1:227).
OutFolderOnSuccess == exit = "0" => outFolder

\* "Validate extracted folder exists" (prepare_igcl.ps1:143, 290): what is renamed
\* has been extracted by this run, from this archive.
ExtractedIsWhole ==
    pc = "rename" => Contents(now, zip[now]) # {} /\ Contents(now, zip[now]) \subseteq temp[now]

\* "Existing SWIG installation is valid" (prepare_igcl.ps1:207): the SWIG that the
\* script accepts is a whole one.
AcceptedSwigIsFull == pc = "check" /\ now = "sdk" => Full("swig")
-------------------------------------------------------------------------------
(* The inductive invariant behind the properties above.                       *)

\* The new files of a product are put where nothing is.
TargetFree ==
    /\ pc \in {"expand", "checkTemp", "rename"} => folder[now] = Absent
    /\ pc = "download" /\ now = "sdk" => folder["sdk"] = Absent

\* Is what the check of w says true?
Reliable(w) == w = "swig" => ~ SwigHiccups

\* What is being replaced has failed its check.
ReplacesIncomplete ==
    Reliable(now) /\ (pc = "remove" \/ (pc = "download" /\ now = "swig")) => ~ Complete(now)

\* What is extracted lacks, if anything, a file that the check asks for ...
ExtractedAlmostWhole ==
    pc \in {"checkTemp", "rename"} /\ ~ otherTops =>
        Contents(now, "short") \subseteq Files(temp[now])

\* ... so that the check asks for enough.
CheckSuffices(w) == Complete(w) /\ ~ otherTops => Full(w)

\* How far the run has got.
ProgressInv ==
    /\ pc = "online" => now = "swig"
    /\ pc \in {"outFolder", "keepSdk"} => now = "sdk"
    /\ now = "sdk" /\ pc # "idle" => Complete("swig")
    /\ now = "sdk" /\ pc \in {"removeZip", "outFolder", "keepSdk"} => Complete("sdk")
    /\ pc # "idle" => exit = "none"
    /\ exit = "0" => Complete("swig") /\ Complete("sdk")

\* An archive that is to be expanded has been downloaded.
ArchiveThere == pc = "remove" /\ now = "swig" => zip["swig"] # Absent

IInv ==
    /\ TypeOK
    /\ TargetFree
    /\ ReplacesIncomplete
    /\ ExtractedAlmostWhole
    /\ \A w \in Products : Reliable(w) => CheckSuffices(w)
    /\ ProgressInv
    /\ ArchiveThere
===============================================================================
