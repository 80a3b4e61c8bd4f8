----------------------------- MODULE PrepareSdkProofs -----------------------------
(***************************************************************************)
(* Proofs about PrepareSdk: what prepare_igcl.ps1 keeps to whichever of    *)
(* its steps fail, wherever it is interrupted and however often it is run  *)
(* again.                                                                  *)
(***************************************************************************)
EXTENDS PrepareSdk, TLAPS

USE ScriptAssumption

-------------------------------------------------------------------------------
(* Files, parts and archives *)

LEMMA PartsFacts ==
    /\ "swig" \in Products /\ "sdk" \in Products
    /\ \A w \in Products : Parts[w] \subseteq AllParts /\ Parts[w] # Absent
    /\ \A w \in Products : Required[w] # {} /\ Required[w] \subseteq Parts[w]
<1>1. \A w \in Products : Parts[w] \subseteq AllParts
  BY DEF AllParts
<1>2. \A w \in Products : Parts[w] # Absent
  BY <1>1
<1> QED
  BY <1>1, <1>2 DEF Products, Parts, Required

LEMMA ContentsFacts ==
    ASSUME NEW w \in Products, NEW a
    PROVE  /\ Contents(w, a) \subseteq Parts[w]
           /\ a \in {"full", "short"} => Contents(w, "short") \subseteq Contents(w, a)
           /\ Parts[w] = Contents(w, "short") \cup (Parts[w] \cap Required[w])
BY DEF Contents, Parts, Required, Products

\* Files that hold all but what the check looks for, and that pass it, are whole.
LEMMA AlmostWhole ==
    ASSUME NEW w \in Products, NEW f, Files(f) \subseteq Parts[w],
           Contents(w, "short") \subseteq Files(f), Required[w] \subseteq Files(f)
    PROVE  f = Parts[w]
BY PartsFacts, ContentsFacts DEF Files

\* Removing files completes nothing.
LEMMA StaysIncomplete ==
    ASSUME NEW w \in Products, ~ Complete(w), Files(folder[w])' \subseteq Files(folder[w])
    PROVE  ~ Complete(w)'
BY DEF Complete

-------------------------------------------------------------------------------
LEMMA IInvInit == Init => IInv
<1> SUFFICES ASSUME Init PROVE IInv
  OBVIOUS
<1>1. \A w \in Products : folder[w] \in {Parts[w], Absent} /\ temp[w] = Absent
  BY DEF Init
<1>2. {folder, temp} \subseteq [Products -> {Absent} \cup SUBSET AllParts]
  BY <1>1, PartsFacts DEF Init
<1>3. TypeOK
  BY <1>1, <1>2, PartsFacts DEF Init, TypeOK, Files, Products
<1>4. \A w \in Products : Complete(w) => Full(w)
  BY <1>1, PartsFacts DEF Complete, Full, Files
<1>5. /\ TargetFree /\ ReplacesIncomplete /\ ExtractedAlmostWhole /\ ProgressInv /\ ArchiveThere
      /\ \A w \in Products : CheckSuffices(w)
  BY <1>4 DEF Init, TargetFree, ReplacesIncomplete, ExtractedAlmostWhole, ProgressInv,
              ArchiveThere, CheckSuffices
<1> QED
  BY <1>3, <1>5 DEF IInv

\* Steps that leave the installed products alone.
LEMMA FolderKept ==
    ASSUME IInv, UNCHANGED <<folder, otherTops>>
    PROVE  /\ \A w \in Products : (Complete(w)' <=> Complete(w)) /\ (Full(w)' <=> Full(w))
           /\ \A w \in Products : (Reliable(w) => CheckSuffices(w))'
BY DEF IInv, Complete, Full, Reliable, CheckSuffices

LEMMA CheckStep ==
    ASSUME IInv, UNCHANGED otherTops,
           Start \/ TestConnection \/ CheckSwig \/ CheckSdk \/ BecomeCalm
    PROVE  IInv'
<1> USE DEF Start, TestConnection, CheckSwig, CheckSdk, BecomeCalm, Goto, Exit, diskVars
<1>0. UNCHANGED diskVars /\ now' \in Products /\ now \in Products
  BY DEF IInv, TypeOK, Products
<1>1. TypeOK'
  BY <1>0 DEF IInv, TypeOK, Archives, AfterSdkCheck
<1>2. TargetFree'
  BY <1>0 DEF IInv, TargetFree, AfterSdkCheck
<1>3. ReplacesIncomplete' /\ ArchiveThere'
  BY <1>0, FolderKept DEF IInv, ReplacesIncomplete, ArchiveThere, AfterSdkCheck, Reliable, Verdicts, MayFail, Products
<1>4. ExtractedAlmostWhole'
  BY <1>0 DEF IInv, ExtractedAlmostWhole, AfterSdkCheck
<1>5. ProgressInv'
  BY <1>0, FolderKept DEF IInv, ProgressInv, AfterSdkCheck, Verdicts, MayFail, Products
<1> QED
  BY <1>1, <1>2, <1>3, <1>4, <1>5, <1>0, FolderKept DEF IInv

LEMMA ZipTyped ==
    ASSUME TypeOK, ZipGone
    PROVE  zip' \in [Products -> Archives \cup {Absent}]
BY DEF TypeOK, ZipGone, Products

\* SWIG's folder is removed after the download if it is there, the SDK's was before.
LEMMA DownloadStep ==
    ASSUME IInv, UNCHANGED otherTops, Download
    PROVE  IInv'
<1>1. /\ pc = "download" /\ now' = now /\ now \in Products
      /\ UNCHANGED <<folder, temp, outFolder>> /\ Archives' = Archives
      /\ (\E a \in Archives : zip' = [zip EXCEPT ![now] = a]) \/ ZipGone
      /\ \/ pc' = AfterDownload(now) /\ zip'[now] # Absent /\ exit' = exit
         \/ pc' = "idle" /\ exit' = "1"
      /\ calm' = calm
  BY DEF Download, IInv, TypeOK, Goto, Exit, DownloadFailed, Archives, MayFail
<1>2. zip' \in [Products -> Archives \cup {Absent}]
  BY <1>1, ZipTyped DEF IInv, TypeOK
<1>3. TypeOK'
  BY <1>1, <1>2 DEF IInv, TypeOK, AfterDownload
<1>4. TargetFree' /\ ArchiveThere' /\ ExtractedAlmostWhole'
  BY <1>1 DEF IInv, TargetFree, ArchiveThere, ExtractedAlmostWhole, AfterDownload, Products
<1>5. ReplacesIncomplete' /\ ProgressInv'
  BY <1>1, FolderKept
     DEF IInv, ReplacesIncomplete, ProgressInv, AfterDownload, Reliable, Products
<1> QED
  BY <1>1, <1>3, <1>4, <1>5, FolderKept DEF IInv

\* Expand-Archive adds the files of this archive to what is there.
LEMMA ExpandStep ==
    ASSUME IInv, UNCHANGED otherTops, Expand
    PROVE  IInv'
<1>1. /\ pc = "expand" /\ now' = now /\ now \in Products /\ zip[now] \in Archives
      /\ UNCHANGED <<folder, outFolder>> /\ Archives' = Archives
      /\ calm' = calm
  BY DEF Expand, IInv, TypeOK, Goto, Exit, ExpandFailed, Archives
<1>2. /\ zip' \in [Products -> Archives \cup {Absent}]
      /\ \/ pc' = "checkTemp" /\ exit' = exit
         \/ pc' = "idle" /\ exit' = "1"
  BY ZipTyped DEF Expand, IInv, TypeOK, Goto, Exit, ExpandFailed
<1>3. \E f \in {Absent} \cup SUBSET Parts[now] : temp' = [temp EXCEPT ![now] = f]
  <2>1. \A f \in SUBSET Contents(now, zip[now]) : Files(temp[now]) \cup f \subseteq Parts[now]
    BY <1>1, ContentsFacts DEF IInv, TypeOK
  <2>2. CASE UNCHANGED temp
    <3>1. temp' = [temp EXCEPT ![now] = temp[now]]
      BY <1>1, <2>2 DEF IInv, TypeOK
    <3>2. temp[now] \in {Absent} \cup SUBSET Parts[now]
      BY <1>1 DEF IInv, TypeOK, Files
    <3> QED
      BY <3>1, <3>2
  <2>3. CASE ~ UNCHANGED temp
    BY <2>1, <2>3 DEF Expand
  <2> QED
    BY <2>2, <2>3
<1>4. TypeOK'
  BY <1>1, <1>2, <1>3, PartsFacts DEF IInv, TypeOK, Files
<1>5. TargetFree' /\ ArchiveThere'
  BY <1>1, <1>2 DEF IInv, TargetFree, ArchiveThere
<1>6. ExtractedAlmostWhole'
  <2> SUFFICES ASSUME pc' = "checkTemp", ~ otherTops
               PROVE  Contents(now, "short") \subseteq Files(temp'[now])
    BY <1>1, <1>2 DEF ExtractedAlmostWhole
  <2>1. /\ zip[now] \in {"full", "short"}
        /\ temp' = [temp EXCEPT ![now] = Files(@) \cup Contents(now, zip[now])]
    BY <1>1 DEF Expand, Archives, ExpandFailed, Exit
  <2>2. Files(temp[now]) \cup Contents(now, zip[now]) \in SUBSET AllParts
    BY <1>1, ContentsFacts, PartsFacts DEF IInv, TypeOK
  <2>3. Files(temp'[now]) = Files(temp[now]) \cup Contents(now, zip[now])
    BY <1>1, <2>1, <2>2 DEF IInv, TypeOK, Files
  <2> QED
    BY <1>1, <2>1, <2>3, ContentsFacts
<1>7. ReplacesIncomplete' /\ ProgressInv'
  BY <1>1, <1>2, FolderKept DEF IInv, ReplacesIncomplete, ProgressInv, Products
<1> QED
  BY <1>1, <1>4, <1>5, <1>6, <1>7, FolderKept DEF IInv

LEMMA CheckTempStep ==
    ASSUME IInv, UNCHANGED otherTops, CheckTemp
    PROVE  IInv'
<1>1. /\ pc = "checkTemp" /\ now' = now /\ now \in Products
      /\ UNCHANGED <<folder, temp, outFolder, calm>> /\ Archives' = Archives
      /\ zip' \in [Products -> Archives \cup {Absent}]
      /\ \/ pc' = "rename" /\ exit' = exit
         \/ pc' = "idle" /\ exit' = "1"
  BY ZipTyped DEF CheckTemp, IInv, TypeOK, Goto, Exit, Archives
<1>2. TypeOK'
  BY <1>1 DEF IInv, TypeOK
<1>3. TargetFree' /\ ArchiveThere' /\ ExtractedAlmostWhole'
  BY <1>1 DEF IInv, TargetFree, ArchiveThere, ExtractedAlmostWhole
<1>4. ReplacesIncomplete' /\ ProgressInv'
  BY <1>1, FolderKept DEF IInv, ReplacesIncomplete, ProgressInv, Products
<1> QED
  BY <1>1, <1>2, <1>3, <1>4, FolderKept DEF IInv

LEMMA RemoveZipStep ==
    ASSUME IInv, UNCHANGED otherTops, RemoveZip
    PROVE  IInv'
<1>1. /\ pc = "removeZip" /\ now' = now /\ now \in Products
      /\ UNCHANGED <<folder, temp, outFolder, calm, exit>> /\ Archives' = Archives
      /\ zip' \in [Products -> Archives \cup {Absent}]
      /\ pc' = IF now = "swig" THEN "validate" ELSE "outFolder"
  BY ZipTyped DEF RemoveZip, IInv, TypeOK, Goto, Archives
<1>2. TypeOK'
  BY <1>1 DEF IInv, TypeOK
<1>3. TargetFree' /\ ArchiveThere' /\ ExtractedAlmostWhole'
  BY <1>1 DEF IInv, TargetFree, ArchiveThere, ExtractedAlmostWhole
<1>4. ReplacesIncomplete' /\ ProgressInv'
  BY <1>1, FolderKept DEF IInv, ReplacesIncomplete, ProgressInv, Products
<1> QED
  BY <1>1, <1>2, <1>3, <1>4, FolderKept DEF IInv

\* The last steps of an installation.
LEMMA LastSteps ==
    ASSUME IInv, UNCHANGED otherTops, ValidateSwig \/ MakeOutFolder \/ KeepSdk
    PROVE  IInv'
<1>1. /\ UNCHANGED <<folder, temp, zip, calm>> /\ Archives' = Archives
      /\ outFolder' \in BOOLEAN /\ now' \in Products
      /\ \/ pc \in {"outFolder", "keepSdk"} /\ pc' = "idle" /\ exit' \in {"0", "1"} /\ now' = now
         \/ pc = "validate" /\ pc' = "idle" /\ exit' = "1"
         \/ pc = "validate" /\ pc' = "check" /\ exit' = exit /\ Complete("swig")
  BY DEF ValidateSwig, MakeOutFolder, KeepSdk, Goto, Exit, IInv, TypeOK, diskVars, Archives,
         Verdicts, Products
<1>2. TypeOK'
  BY <1>1 DEF IInv, TypeOK
<1>3. TargetFree' /\ ArchiveThere' /\ ExtractedAlmostWhole' /\ ReplacesIncomplete'
  BY <1>1 DEF TargetFree, ArchiveThere, ExtractedAlmostWhole, ReplacesIncomplete
<1>4. ProgressInv'
  BY <1>1, FolderKept DEF IInv, ProgressInv, Products
<1> QED
  BY <1>1, <1>2, <1>3, <1>4, FolderKept DEF IInv

-------------------------------------------------------------------------------
(* Steps that replace an installed product by fewer files of it, or by what was *)
(* extracted.                                                                   *)

\* The other product stays as it is.
LEMMA OtherKept ==
    ASSUME IInv, NEW f \in {Absent} \cup SUBSET Parts[now],
           folder' = [folder EXCEPT ![now] = f]
    PROVE  /\ folder' \in [Products -> {Absent} \cup SUBSET AllParts]
           /\ folder'[now] = f
           /\ \A w \in Products \ {now} :
                  folder'[w] = folder[w] /\ (Complete(w)' <=> Complete(w)) /\ (Full(w)' <=> Full(w))
           /\ \A w \in Products : Files(folder'[w]) \subseteq Parts[w]
<1>1. f \in {Absent} \cup SUBSET AllParts /\ now \in Products
  BY PartsFacts DEF IInv, TypeOK
<1>2. /\ folder' \in [Products -> {Absent} \cup SUBSET AllParts] /\ folder'[now] = f
      /\ \A w \in Products \ {now} : folder'[w] = folder[w]
  BY <1>1 DEF IInv, TypeOK
<1>3. \A w \in Products : Files(folder'[w]) \subseteq Parts[w]
  BY <1>1, <1>2 DEF IInv, TypeOK, Files
<1> QED
  BY <1>2, <1>3 DEF Complete, Full

\* Removal, in full or in part, of a product that failed its check.
LEMMA Removal ==
    ASSUME IInv, UNCHANGED otherTops, Reliable(now) => ~ Complete(now),
           NEW f \in {Absent} \cup SUBSET Files(folder[now]),
           folder' = [folder EXCEPT ![now] = f]
    PROVE  /\ \A w \in Products : w = now /\ Reliable(w) => ~ Complete(w)'
           /\ \A w \in Products : (Reliable(w) => CheckSuffices(w))'
<1>1. f \in {Absent} \cup SUBSET Parts[now] /\ now \in Products
  BY DEF IInv, TypeOK
<1>2. Files(folder'[now]) \subseteq Files(folder[now])
  BY <1>1, OtherKept DEF Files
<1>3. \A w \in Products : w = now /\ Reliable(w) => ~ Complete(w)'
  BY <1>2, StaysIncomplete
<1>4. \A w \in Products \ {now} : (Reliable(w) => CheckSuffices(w))'
  BY <1>1, OtherKept DEF IInv, Reliable, CheckSuffices
<1> QED
  BY <1>1, <1>3, <1>4 DEF Reliable, CheckSuffices

LEMMA RemoveStep ==
    ASSUME IInv, UNCHANGED otherTops, Remove
    PROVE  IInv'
<1>1. PICK f \in {Absent} \cup SUBSET Files(folder[now]) : folder' = [folder EXCEPT ![now] = f]
  BY DEF Remove
<1>2. /\ pc = "remove" /\ now' = now /\ now \in Products
      /\ UNCHANGED <<temp, outFolder, calm>> /\ Archives' = Archives
      /\ zip' \in [Products -> Archives \cup {Absent}]
      /\ \/ /\ folder' = [folder EXCEPT ![now] = Absent] /\ zip' = zip /\ exit' = exit
            /\ pc' = IF now = "swig" THEN "expand" ELSE "download"
         \/ pc' = "idle" /\ exit' = "1"
  BY ZipTyped DEF Remove, IInv, TypeOK, Goto, Exit, Archives
<1>3. f \in {Absent} \cup SUBSET Parts[now]
  BY <1>2 DEF IInv, TypeOK
<1>4. TypeOK'
  BY <1>1, <1>2, <1>3, OtherKept DEF IInv, TypeOK, ArchiveThere, Products
<1>5. TargetFree'
  BY <1>1, <1>2, <1>3, OtherKept DEF IInv, TypeOK, TargetFree, Products
<1>6. (Reliable(now) => ~ Complete(now)')
      /\ \A w \in Products : (Reliable(w) => CheckSuffices(w))'
  BY <1>1, <1>2, Removal DEF IInv, ReplacesIncomplete
<1>7. ReplacesIncomplete' /\ ArchiveThere' /\ ExtractedAlmostWhole'
  BY <1>2, <1>6 DEF ReplacesIncomplete, ArchiveThere, ExtractedAlmostWhole, Reliable
<1>8. ProgressInv'
  BY <1>1, <1>2, <1>3, OtherKept DEF IInv, ProgressInv, Products
<1> QED
  BY <1>4, <1>5, <1>6, <1>7, <1>8 DEF IInv

\* Only an SDK that fails its check is removed again.
LEMMA ValidateSdkStep ==
    ASSUME IInv, UNCHANGED otherTops, ValidateSdk
    PROVE  IInv'
<1>1. CASE UNCHANGED folder
  <2>1. /\ pc = "validate" /\ now = "sdk" /\ now' = now /\ now \in Products
        /\ UNCHANGED <<temp, outFolder, calm>> /\ Archives' = Archives
        /\ zip' \in [Products -> Archives \cup {Absent}]
        /\ \/ pc' = "removeZip" /\ exit' = exit /\ Complete("sdk")
           \/ pc' = "idle" /\ exit' = "1"
    BY ZipTyped DEF ValidateSdk, IInv, TypeOK, Goto, Exit, Archives
  <2>2. TypeOK'
    BY <1>1, <2>1 DEF IInv, TypeOK
  <2>3. /\ TargetFree' /\ ReplacesIncomplete' /\ ArchiveThere' /\ ExtractedAlmostWhole'
        /\ ProgressInv'
    BY <1>1, <2>1, FolderKept DEF IInv, TargetFree, ReplacesIncomplete, ArchiveThere,
       ExtractedAlmostWhole, ProgressInv, Products
  <2> QED
    BY <1>1, <2>2, <2>3, FolderKept DEF IInv
<1>2. CASE ~ UNCHANGED folder
  <2>1. PICK f \in {Absent} \cup SUBSET Files(folder[now]) : folder' = [folder EXCEPT ![now] = f]
    BY <1>2 DEF ValidateSdk, Removed
  <2>2. /\ now = "sdk" /\ now' = now /\ now \in Products /\ pc = "validate" /\ ~ Complete("sdk")
        /\ UNCHANGED <<temp, outFolder, calm>> /\ Archives' = Archives
        /\ zip' \in [Products -> Archives \cup {Absent}]
        /\ pc' = "idle" /\ exit' = "1"
    BY <1>2, ZipTyped DEF ValidateSdk, IInv, TypeOK, Exit, Archives
  <2>3. f \in {Absent} \cup SUBSET Parts[now]
    BY <2>2 DEF IInv, TypeOK
  <2>4. TypeOK'
    <3>1. /\ folder' \in [Products -> {Absent} \cup SUBSET AllParts]
          /\ \A w \in Products : Files(folder'[w]) \subseteq Parts[w]
      BY <2>1, <2>3, OtherKept
    <3> QED
      BY <2>2, <3>1 DEF IInv, TypeOK
  <2>5. \A w \in Products : (Reliable(w) => CheckSuffices(w))'
    BY <2>1, <2>2, Removal
  <2>6. /\ TargetFree' /\ ReplacesIncomplete' /\ ArchiveThere' /\ ExtractedAlmostWhole'
        /\ ProgressInv'
    BY <2>2 DEF TargetFree, ReplacesIncomplete, ArchiveThere, ExtractedAlmostWhole, ProgressInv
  <2> QED
    BY <2>4, <2>5, <2>6 DEF IInv
<1> QED
  BY <1>1, <1>2

\* What is put in place lacks, if anything, a file that its check asks for.
LEMMA RenameStep ==
    ASSUME IInv, UNCHANGED otherTops, Rename
    PROVE  IInv'
<1>1. /\ pc = "rename" /\ now' = now /\ now \in Products
      /\ UNCHANGED <<outFolder, calm>> /\ Archives' = Archives
      /\ zip' \in [Products -> Archives \cup {Absent}]
      /\ \/ /\ folder' = [folder EXCEPT ![now] = temp[now]] /\ exit' = exit
            /\ pc' = IF now = "swig" THEN "removeZip" ELSE "validate"
         \/ folder' = folder /\ pc' = "idle" /\ exit' = "1"
  BY ZipTyped DEF Rename, IInv, TypeOK, Goto, Exit, Archives
<1>2. temp[now] \in {Absent} \cup SUBSET Parts[now]
  BY <1>1 DEF IInv, TypeOK, Files
<1>3. \E f \in {Absent} \cup SUBSET Parts[now] : temp' = [temp EXCEPT ![now] = f]
  BY <1>2 DEF Rename, Removed, Files
<1>4. /\ temp' \in [Products -> {Absent} \cup SUBSET AllParts]
      /\ \A w \in Products : Files(temp'[w]) \subseteq Parts[w]
  BY <1>1, <1>3, PartsFacts DEF IInv, TypeOK, Files
<1>5. /\ folder' \in [Products -> {Absent} \cup SUBSET AllParts]
      /\ \A w \in Products : Files(folder'[w]) \subseteq Parts[w]
  BY <1>1, <1>2, OtherKept DEF IInv, TypeOK
<1>6. TypeOK'
  BY <1>1, <1>4, <1>5 DEF IInv, TypeOK
<1>7. \A w \in Products : (Reliable(w) => CheckSuffices(w))'
  <2>1. CASE folder' = folder
    BY <2>1, FolderKept
  <2>2. CASE folder' = [folder EXCEPT ![now] = temp[now]]
    <3>1. folder'[now] = temp[now] /\ Files(temp[now]) \subseteq Parts[now]
      BY <1>1, <1>2, <2>2, OtherKept DEF IInv, TypeOK
    <3>2. Complete(now)' /\ ~ otherTops => Full(now)'
      BY <1>1, <3>1, AlmostWhole DEF IInv, ExtractedAlmostWhole, Complete, Full
    <3> QED
      BY <1>1, <1>2, <2>2, <3>2, OtherKept DEF IInv, Reliable, CheckSuffices
  <2> QED
    BY <1>1, <2>1, <2>2
<1>8. TargetFree' /\ ReplacesIncomplete' /\ ArchiveThere' /\ ExtractedAlmostWhole'
  BY <1>1 DEF TargetFree, ReplacesIncomplete, ArchiveThere, ExtractedAlmostWhole
<1>9. ProgressInv'
  BY <1>1, <1>2, OtherKept DEF IInv, ProgressInv, Products
<1> QED
  BY <1>6, <1>7, <1>8, <1>9 DEF IInv

-------------------------------------------------------------------------------
\* A killed process leaves an archive that cannot be read, part of what it was
\* removing, or part of what it was extracting.
LEMMA InterruptStep ==
    ASSUME IInv, UNCHANGED otherTops, Interrupt
    PROVE  IInv'
<1>1. /\ pc # "idle" /\ pc' = "idle" /\ exit' = "none" /\ now' \in Products /\ now \in Products
      /\ UNCHANGED <<outFolder, calm>> /\ Archives' = Archives
      /\ zip' \in [Products -> Archives \cup {Absent}]
  BY DEF Interrupt, IInv, TypeOK, diskVars, Archives, Products
<1>2. /\ temp' \in [Products -> {Absent} \cup SUBSET AllParts]
      /\ \A w \in Products : Files(temp'[w]) \subseteq Parts[w]
  <2>1. CASE UNCHANGED temp
    BY <2>1 DEF IInv, TypeOK
  <2>2. CASE ~ UNCHANGED temp
    <3>1. PICK f \in SUBSET Contents(now, zip[now]) :
              temp' = [temp EXCEPT ![now] = Files(@) \cup f]
      BY <2>2 DEF Interrupt, diskVars
    <3>2. Files(temp[now]) \cup f \in SUBSET Parts[now]
      BY <1>1, ContentsFacts DEF IInv, TypeOK
    <3> QED
      BY <1>1, <3>1, <3>2, PartsFacts DEF IInv, TypeOK, Files
  <2> QED
    BY <2>1, <2>2
<1>3. /\ folder' \in [Products -> {Absent} \cup SUBSET AllParts]
      /\ \A w \in Products : Files(folder'[w]) \subseteq Parts[w]
      /\ \A w \in Products : (Reliable(w) => CheckSuffices(w))'
  <2>1. CASE UNCHANGED folder
    BY <2>1, FolderKept DEF IInv, TypeOK
  <2>2. CASE ~ UNCHANGED folder
    <3>1. /\ pc = "remove" \/ (now = "sdk" /\ ~ Complete("sdk"))
          /\ \E f \in {Absent} \cup SUBSET Files(folder[now]) :
                 folder' = [folder EXCEPT ![now] = f]
      BY <2>2 DEF Interrupt, diskVars, Removed
    <3>2. PICK f \in {Absent} \cup SUBSET Files(folder[now]) :
              folder' = [folder EXCEPT ![now] = f]
      BY <3>1
    <3>3. f \in {Absent} \cup SUBSET Parts[now]
      BY <1>1 DEF IInv, TypeOK
    <3>4. Reliable(now) => ~ Complete(now)
      BY <3>1 DEF IInv, ReplacesIncomplete
    <3> QED
      BY <3>2, <3>3, <3>4, OtherKept, Removal
  <2> QED
    BY <2>1, <2>2
<1>4. TypeOK'
  BY <1>1, <1>2, <1>3 DEF IInv, TypeOK
<1>5. /\ TargetFree' /\ ReplacesIncomplete' /\ ArchiveThere' /\ ExtractedAlmostWhole'
      /\ ProgressInv'
  BY <1>1 DEF TargetFree, ReplacesIncomplete, ArchiveThere, ExtractedAlmostWhole, ProgressInv
<1> QED
  BY <1>3, <1>4, <1>5 DEF IInv

LEMMA StutterStep == IInv /\ UNCHANGED vars => IInv'
BY DEF IInv, vars, diskVars, TypeOK, Archives, TargetFree, ReplacesIncomplete, Complete,
       ExtractedAlmostWhole, Reliable, CheckSuffices, Full, ProgressInv, ArchiveThere

LEMMA IInvStep == IInv /\ [Next]_vars => IInv'
BY CheckStep, DownloadStep, ExpandStep, CheckTempStep, RemoveZipStep, LastSteps, RemoveStep,
   ValidateSdkStep, RenameStep, InterruptStep, StutterStep DEF Next, Script, vars

LEMMA IInvHolds == Spec => []IInv
BY IInvInit, IInvStep, PTL DEF Spec

-------------------------------------------------------------------------------
\* The installed and the extracted files are parts of their product, and an archive
\* that is expanded has been downloaded.
THEOREM DiskTyping == Spec => []TypeOK
BY IInvHolds, PTL DEF IInv

\* Rename-Item (prepare_igcl.ps1:156, 303) never meets a folder of the name
\* it gives, whatever an earlier run has left.
THEOREM RenameMeetsNothing == Spec => []RenameTargetFree
<1>1. IInv => RenameTargetFree
  BY DEF IInv, TargetFree, RenameTargetFree
<1> QED
  BY <1>1, IInvHolds, PTL

\* A folder with the two files Test-IGCLSDKCompleteness looks for
\* (prepare_igcl.ps1:18-43) holds the whole SDK, wherever earlier runs have failed
\* or been interrupted.
THEOREM CheckedSdkIsWhole == Spec => []SdkCheckSuffices
<1>1. IInv => SdkCheckSuffices
  BY DEF IInv, Reliable, CheckSuffices, SdkCheckSuffices, Products
<1> QED
  BY <1>1, IInvHolds, PTL

\* A run that exits with 0 has left both products in full, as long as swig.exe
\* answers whenever it is there.
THEOREM SuccessMeansInstalled == ~ SwigHiccups => (Spec => []InstalledOnSuccess)
<1> SUFFICES ASSUME ~ SwigHiccups PROVE Spec => []InstalledOnSuccess
  OBVIOUS
<1>1. IInv => InstalledOnSuccess
  BY DEF IInv, ProgressInv, Reliable, CheckSuffices, InstalledOnSuccess, Products
<1> QED
  BY <1>1, IInvHolds, PTL

\* The SWIG that the script accepts (prepare_igcl.ps1:207) on the strength of
\* swig.exe is a whole one, under the same condition and with archives of the
\* expected layout.
THEOREM AcceptedSwigIsWhole == ~ SwigHiccups => (Spec => [](~ otherTops => AcceptedSwigIsFull))
<1> SUFFICES ASSUME ~ SwigHiccups PROVE Spec => [](~ otherTops => AcceptedSwigIsFull)
  OBVIOUS
<1>1. IInv => (~ otherTops => AcceptedSwigIsFull)
  BY DEF IInv, ProgressInv, Reliable, CheckSuffices, AcceptedSwigIsFull, Products
<1> QED
  BY <1>1, IInvHolds, PTL

\* What is removed or replaced is incomplete.
LEMMA FullKept ==
    ASSUME IInv, [Next]_vars, NEW w \in Products, Reliable(w), Full(w)
    PROVE  folder'[w] = folder[w]
<1>1. Complete(w) /\ folder[w] # Absent
  BY PartsFacts DEF Full, Complete, Files
<1>2. CASE UNCHANGED folder
  BY <1>2
<1>3. CASE ~ UNCHANGED folder
  <2>1. now \in Products /\ \E f : folder' = [folder EXCEPT ![now] = f]
    BY <1>3 DEF Next, Script, Start, TestConnection, CheckSwig, CheckSdk, Download, Remove, Expand,
       CheckTemp, Rename, ValidateSdk, RemoveZip, ValidateSwig, MakeOutFolder, KeepSdk, Interrupt,
       BecomeCalm, vars, diskVars, IInv, TypeOK
  <2>2. w # now
    BY <1>1, <1>3
       DEF Next, Script, Start, TestConnection, CheckSwig, CheckSdk, Download, Remove, Expand,
       CheckTemp, Rename, ValidateSdk, RemoveZip, ValidateSwig, MakeOutFolder, KeepSdk, Interrupt,
       BecomeCalm, vars, diskVars, IInv, ReplacesIncomplete, TargetFree
  <2> QED
    BY <2>1, <2>2 DEF IInv, TypeOK
<1> QED
  BY <1>2, <1>3

\* A complete SDK and, as long as swig.exe answers whenever it is there, a
\* complete SWIG are never touched again, whatever fails in between.
THEOREM InstallationsKept == ~ SwigHiccups => (Spec => NeverLost)
<1> SUFFICES ASSUME ~ SwigHiccups PROVE Spec => NeverLost
  OBVIOUS
<1>1. IInv /\ [Next]_vars => [\A w \in Products : Full(w) => folder'[w] = folder[w]]_vars
  BY FullKept DEF Reliable
<1> QED
  BY <1>1, IInvHolds, PTL DEF Spec, NeverLost

\* A complete SDK is not even touched when swig.exe fails to answer.
THEOREM SdkKept == Spec => [][Full("sdk") => folder'["sdk"] = folder["sdk"]]_vars
<1>1. IInv /\ [Next]_vars => [Full("sdk") => folder'["sdk"] = folder["sdk"]]_vars
  BY FullKept DEF Reliable, Products
<1> QED
  BY <1>1, IInvHolds, PTL DEF Spec
===============================================================================
