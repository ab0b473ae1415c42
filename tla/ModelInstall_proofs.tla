------------------------ MODULE ModelInstall_proofs ------------------------
(***************************************************************************)
(* Theorems about ModelInstall, for any number of installers and versions, *)
(* with and without checksums.  Two arguments: with one worker at a time,  *)
(* the temporary file holds what that worker has written, so that what is  *)
(* renamed is whole; with several that bring the same data, whatever is    *)
(* cut short has a writer that still has it open.                          *)
(***************************************************************************)
EXTENDS ModelInstall, TLAPS

Busy(i) == step[i] # "idle"
Recovers == recovery.step # "idle"

(* What an installer at work installs. *)
WorkFits ==
    \A i \in Installers : Busy(i) =>
        work[i].version \in Versions /\ work[i].data \in {work[i].version, Mixed}

-----------------------------------------------------------------------------
(* One worker at a time *)

OneWorker ==
    /\ \A i, j \in Installers : Busy(i) /\ Busy(j) => i = j
    /\ Recovers => \A i \in Installers : ~Busy(i)

(* The temporary file is the worker's, from its creation to the renaming.  *)
OwnFile(i) ==
    /\ step[i] = "fill" => work[i].at = "tmp" /\ file["tmp"] = Partial
    /\ step[i] \in {"verify", "rename"} => file["tmp"] = work[i].data
    /\ step[i] = "rename" /\ work[i].version \in Pinned => file["tmp"] = work[i].version
    /\ step[i] \in {"describe", "close"} => placed = work[i].version
    /\ step[i] = "close" => manifest = Partial

InPlace ==
    \/ file["dest"] = placed
    \/ file["dest"] = Mixed /\ placed # NoFile /\ (decayed \/ placed \notin Pinned)

AloneInv == ~shared => OneWorker /\ InPlace /\ \A i \in Installers : OwnFile(i)

(* No installer is between the model and its manifest.                     *)
Described == \A i \in Installers : step[i] \notin {"describe", "close"}

(* With nothing cut short either, a manifest is that of the model, if      *)
(* there is one: a recovery may have failed to remove the manifest.        *)
ManifestTells ==
    /\ Described /\ manifest \in Versions => placed \in {manifest, NoFile}
    /\ recovery.step \in {"compare", "remove"} =>
          recovery.version = manifest /\ manifest \in Versions
    /\ recovery.step = "remove" => file["dest"] = Mixed

UncutInv == ~shared /\ ~cut => ManifestTells

-----------------------------------------------------------------------------
(* Several workers with the same data *)

SameData(v) == brought \subseteq {v} /\ ~cut

(* Fill(i) is still to come, into the file at p. *)
Filling(i, p) == step[i] = "fill" /\ work[i].at = p

SharedFiles(v) ==
    /\ \A i \in Installers : Busy(i) => work[i].version = v /\ work[i].data = v
    /\ file["tmp"] \in {NoFile, Partial, v}
    /\ file["dest"] \in {NoFile, Partial, v} \/ decayed
    /\ manifest \in {NoFile, Partial, v}
    /\ file["tmp"] = Partial => \E i \in Installers : Filling(i, "tmp")
    /\ file["dest"] = Partial => \E i \in Installers : Filling(i, "dest")
    /\ manifest = Partial => \E i \in Installers : step[i] = "close"
    /\ \A i \in Installers : Filling(i, "tmp") => file["tmp"] # NoFile
    /\ \A i \in Installers : Filling(i, "dest") => file["dest"] # NoFile

SharedInv == \A v \in Versions : SameData(v) => SharedFiles(v)

InstallInv == InstallTypeOK /\ WorkFits /\ AloneInv /\ UncutInv /\ SharedInv

-----------------------------------------------------------------------------
(* Types, and what an installer installs *)

TypeInv == InstallTypeOK /\ WorkFits

WorkSet == [version : Versions \cup {NoFile}, data : Contents, at : Places]

LEMMA ContentsAre ==
    /\ NoFile \in Contents /\ Partial \in Contents /\ Mixed \in Contents
    /\ Versions \subseteq Contents
BY DEF Contents

LEMMA NoWorkTyped == NoWork \in WorkSet
BY ContentsAre DEF NoWork, WorkSet, Places

LEMMA MixTyped ==
    ASSUME NEW old, NEW new \in Contents, NEW c \in Mix(old, new)
    PROVE  c \in Contents /\ c \in {new, Mixed}
BY DEF Mix, Contents

(* A file that a rename or a removal has moved is the same work elsewhere. *)
LEMMA WorkMoved ==
    ASSUME NEW w \in WorkSet, NEW p \in Places
    PROVE  LET m == [w EXCEPT !.at = p] IN
           /\ m \in WorkSet /\ m.at = p
           /\ m.version = w.version /\ m.data = w.data
BY DEF WorkSet

LEMMA UnlinkedTyped ==
    ASSUME NEW p, work \in [Installers -> WorkSet]
    PROVE  /\ Unlinked(p) \in [Installers -> WorkSet]
           /\ \A i \in Installers :
                 /\ Unlinked(p)[i].version = work[i].version
                 /\ Unlinked(p)[i].data = work[i].data
                 /\ Unlinked(p)[i].at = (IF work[i].at = p THEN "gone" ELSE work[i].at)
<1>2. ASSUME NEW i \in Installers
      PROVE  /\ Unlinked(p)[i] \in WorkSet
             /\ Unlinked(p)[i].version = work[i].version
             /\ Unlinked(p)[i].data = work[i].data
             /\ Unlinked(p)[i].at = (IF work[i].at = p THEN "gone" ELSE work[i].at)
  <2> DEFINE a == IF work[i].at = p THEN "gone" ELSE work[i].at
  <2>1. work[i] \in WorkSet
    OBVIOUS
  <2>2. a \in Places
    BY <2>1 DEF WorkSet, Places
  <2>3. Unlinked(p)[i] = [work[i] EXCEPT !.at = a]
    BY <2>1 DEF Unlinked, WorkSet
  <2> HIDE DEF a
  <2>4. /\ Unlinked(p)[i] \in WorkSet /\ Unlinked(p)[i].at = a
        /\ Unlinked(p)[i].version = work[i].version /\ Unlinked(p)[i].data = work[i].data
    BY <2>1, <2>2, <2>3, WorkMoved
  <2> QED
    BY <2>4 DEF a
<1>3. Unlinked(p) \in [Installers -> WorkSet]
  BY <1>2 DEF Unlinked
<1> QED
  BY <1>2, <1>3

LEMMA RenamedTyped ==
    ASSUME work \in [Installers -> WorkSet],
           work' = [j \in Installers |-> [work[j] EXCEPT !.at = Moved(@)]]
    PROVE  /\ work' \in [Installers -> WorkSet]
           /\ \A i \in Installers :
                 /\ work'[i].version = work[i].version
                 /\ work'[i].data = work[i].data
                 /\ work'[i].at = Moved(work[i].at)
<1>1. ASSUME NEW i \in Installers
      PROVE  /\ work'[i] = [work[i] EXCEPT !.at = Moved(work[i].at)]
             /\ work[i] \in WorkSet /\ Moved(work[i].at) \in Places
  BY DEF WorkSet, Places, Moved
<1>2. ASSUME NEW i \in Installers
      PROVE  /\ work'[i] \in WorkSet
             /\ work'[i].version = work[i].version
             /\ work'[i].data = work[i].data
             /\ work'[i].at = Moved(work[i].at)
  BY <1>1, WorkMoved
<1> QED
  BY <1>2

(* What each step of an installer does to what the installers install.     *)
LEMMA InstallerWork ==
    ASSUME TypeInv, NEW i \in Installers, InstallStep(i)
    PROVE  /\ work' \in [Installers -> WorkSet]
           /\ step' \in [Installers -> InstallSteps]
           /\ \A j \in Installers \ {i} :
                 /\ step'[j] = step[j]
                 /\ work'[j].version = work[j].version /\ work'[j].data = work[j].data
           /\ BeginInstall(i) =>
                 /\ work'[i].version \in Versions
                 /\ work'[i].data \in {work'[i].version, Mixed}
           /\ ~BeginInstall(i) /\ Busy(i)' =>
                 work'[i].version = work[i].version /\ work'[i].data = work[i].data
<1> USE DEF Busy
<1>0. work \in [Installers -> WorkSet] /\ step \in [Installers -> InstallSteps]
  BY DEF TypeInv, InstallTypeOK, WorkSet
<1>1. CASE BeginInstall(i)
  <2>1. PICK v \in Versions : \E d \in {v, Mixed} :
           work' = [work EXCEPT ![i] = [version |-> v, data |-> d, at |-> "tmp"]]
    BY <1>1 DEF BeginInstall
  <2>2. PICK d \in {v, Mixed} : work' = [work EXCEPT ![i] = [version |-> v, data |-> d, at |-> "tmp"]]
    BY <2>1
  <2>3. [version |-> v, data |-> d, at |-> "tmp"] \in WorkSet
    BY <2>2, ContentsAre DEF WorkSet, Places
  <2>4. step' = [step EXCEPT ![i] = "create"]
    BY <1>1 DEF BeginInstall, Move
  <2> QED
    BY <1>0, <1>1, <2>2, <2>3, <2>4 DEF InstallSteps
<1>2. CASE Create(i)
  <2>1. step' = [step EXCEPT ![i] = "fill"] /\ work' = [work EXCEPT ![i].at = "tmp"] /\ step[i] = "create"
    BY <1>2 DEF Create, Move, Tmp
  <2>2. work' = [work EXCEPT ![i] = [work[i] EXCEPT !.at = "tmp"]] /\ "tmp" \in Places
    BY <2>1 DEF Places
  <2> QED
    BY <1>0, <2>1, <2>2, WorkMoved DEF InstallSteps, BeginInstall
<1>3. CASE Fill(i) \/ Describe(i)
  <2>1. work' = work /\ \E s \in {"verify", "close"} : step' = [step EXCEPT ![i] = s]
    BY <1>3 DEF Fill, Describe, Move
  <2>2. step[i] # "idle"
    BY <1>3 DEF Fill, Describe
  <2> QED
    BY <1>0, <2>1, <2>2 DEF InstallSteps, BeginInstall
<1>4. CASE WriteFails(i) \/ VerifyFails(i) \/ CloseManifest(i)
  <2>1. step' = [step EXCEPT ![i] = "idle"] /\ work' = [work EXCEPT ![i] = NoWork] /\ step[i] # "idle"
    BY <1>4 DEF WriteFails, VerifyFails, CloseManifest, Leave, Move
  <2> QED
    BY <1>0, <2>1, NoWorkTyped DEF InstallSteps, BeginInstall
<1>5. CASE Verify(i)
  <2>0. step[i] = "verify"
    BY <1>5 DEF Verify
  <2>1. CASE Matches(i)
    <3>1. step' = [step EXCEPT ![i] = "rename"] /\ work' = work
      BY <1>5, <2>1 DEF Verify, Move
    <3> QED
      BY <1>0, <2>0, <3>1 DEF InstallSteps, BeginInstall
  <2>2. CASE ~Matches(i)
    <3>1. step' = [step EXCEPT ![i] = "idle"] /\ work' = [Unlinked("tmp") EXCEPT ![i] = NoWork]
      BY <1>5, <2>2 DEF Verify, Move
    <3> QED
      BY <1>0, <2>0, <3>1, UnlinkedTyped, NoWorkTyped DEF InstallSteps, BeginInstall
  <2> QED
    BY <2>1, <2>2
<1>6. CASE Rename(i)
  <2>0. step[i] = "rename"
    BY <1>6 DEF Rename
  <2>1. CASE file["tmp"] = NoFile
    <3>1. step' = [step EXCEPT ![i] = "idle"] /\ work' = [work EXCEPT ![i] = NoWork]
      BY <1>6, <2>1 DEF Rename, Leave, Move
    <3> QED
      BY <1>0, <2>0, <3>1, NoWorkTyped DEF InstallSteps, BeginInstall
  <2>2. CASE file["tmp"] # NoFile
    <3>1. step' = [step EXCEPT ![i] = "describe"]
          /\ work' = [j \in Installers |-> [work[j] EXCEPT !.at = Moved(@)]]
      BY <1>6, <2>2 DEF Rename, Move
    <3> QED
      BY <1>0, <2>0, <3>1, RenamedTyped DEF InstallSteps, BeginInstall
  <2> QED
    BY <2>1, <2>2
<1> QED
  BY <1>1, <1>2, <1>3, <1>4, <1>5, <1>6 DEF InstallStep

(* The steps of a recovery and of the world leave the work as it is, save  *)
(* where it is written, or end it.                                         *)
LEMMA OtherWork ==
    ASSUME TypeInv,
           \/ ReadManifest \/ CompareChecksum \/ RemoveModel \/ RemoveManifest
           \/ Decay \/ KillAll
    PROVE  /\ work' \in [Installers -> WorkSet]
           /\ step' \in [Installers -> InstallSteps]
           /\ KillAll => \A i \in Installers : ~Busy(i)'
           /\ ~KillAll => step' = step
           /\ ~KillAll => \A i \in Installers :
                 work'[i].version = work[i].version /\ work'[i].data = work[i].data
<1>0. work \in [Installers -> WorkSet] /\ step \in [Installers -> InstallSteps]
  BY DEF TypeInv, InstallTypeOK, WorkSet
<1>1. CASE ReadManifest \/ CompareChecksum \/ RemoveManifest \/ Decay
  <2>1. step' = step /\ work' = work
    BY <1>1 DEF ReadManifest, CompareChecksum, RemoveManifest, Decay
  <2>2. ~KillAll \/ \A i \in Installers : ~Busy(i)'
    BY DEF KillAll, Busy
  <2> QED
    BY <1>0, <2>1, <2>2
<1>2. CASE RemoveModel
  <2>1. step' = step /\ (work' = Unlinked("dest") \/ work' = work)
    BY <1>2 DEF RemoveModel
  <2>2. ~KillAll \/ \A i \in Installers : ~Busy(i)'
    BY DEF KillAll, Busy
  <2> QED
    BY <1>0, <2>1, <2>2, UnlinkedTyped
<1>3. CASE KillAll
  BY <1>3, NoWorkTyped DEF KillAll, Busy, InstallSteps
<1> QED
  BY <1>1, <1>2, <1>3

LEMMA InitInstallTypes == InstallInit => TypeInv
<1> SUFFICES ASSUME InstallInit PROVE TypeInv
  OBVIOUS
<1>1. work \in [Installers -> WorkSet]
  BY NoWorkTyped DEF InstallInit
<1>2. InstallTypeOK
  <2>1. step \in [Installers -> InstallSteps]
    BY DEF InstallInit, InstallSteps
  <2>2. recovery \in [step : {"idle", "compare", "remove", "forget"}, version : Contents]
    BY ContentsAre DEF InstallInit
  <2>3. file \in [{"tmp", "dest"} -> Contents]
    BY ContentsAre DEF InstallInit
  <2> QED
    BY <1>1, <2>1, <2>2, <2>3, ContentsAre DEF InstallInit, InstallTypeOK, WorkSet
<1> QED
  BY <1>2 DEF InstallInit, TypeInv, WorkFits, Busy

(* The rest of the types. *)
LEMMA FilesTyped ==
    ASSUME TypeInv, InstallNext
    PROVE  /\ file' \in [{"tmp", "dest"} -> Contents] /\ manifest' \in Contents
           /\ recovery' \in [step : {"idle", "compare", "remove", "forget"}, version : Contents]
           /\ placed' \in Versions \cup {NoFile}
           /\ decayed' \in BOOLEAN /\ brought' \subseteq Contents
           /\ shared' \in BOOLEAN /\ cut' \in BOOLEAN
<1> DEFINE Goal == /\ file' \in [{"tmp", "dest"} -> Contents] /\ manifest' \in Contents
                   /\ recovery' \in [step : {"idle", "compare", "remove", "forget"}, version : Contents]
                   /\ placed' \in Versions \cup {NoFile}
                   /\ decayed' \in BOOLEAN /\ brought' \subseteq Contents
                   /\ shared' \in BOOLEAN /\ cut' \in BOOLEAN
<1>0. /\ file \in [{"tmp", "dest"} -> Contents] /\ manifest \in Contents
      /\ recovery \in [step : {"idle", "compare", "remove", "forget"}, version : Contents]
      /\ placed \in Versions \cup {NoFile}
      /\ decayed \in BOOLEAN /\ brought \subseteq Contents
      /\ shared \in BOOLEAN /\ cut \in BOOLEAN
      /\ work \in [Installers -> WorkSet] /\ step \in [Installers -> InstallSteps]
  BY DEF TypeInv, InstallTypeOK, WorkSet
<1>1. ASSUME NEW i \in Installers, InstallStep(i)
      PROVE  Goal
  <2>0. /\ work[i] \in WorkSet /\ work[i].data \in Contents
        /\ work[i].version \in Versions \cup {NoFile} /\ work[i].version \in Contents
    BY <1>0, ContentsAre DEF WorkSet
  <2>1. CASE BeginInstall(i)
    <3>1. work'[i].data \in Contents
      BY <1>1, InstallerWork DEF WorkSet
    <3>2. UNCHANGED <<file, manifest, recovery, placed, decayed, cut>>
          /\ brought' = brought \cup {work'[i].data} /\ shared' = (shared \/ Others(i))
      BY <2>1 DEF BeginInstall
    <3>3. shared' \in BOOLEAN
      BY <3>2 DEF Others
    <3> QED
      BY <1>0, <3>1, <3>2, <3>3
  <2>2. CASE Create(i)
    BY <1>0, <2>2, ContentsAre DEF Create, Tmp, history
  <2>3. CASE Fill(i)
    <3>1. file' \in [{"tmp", "dest"} -> Contents]
      BY <1>0, <2>0, <2>3, MixTyped DEF Fill
    <3> QED
      BY <1>0, <2>3, <3>1 DEF Fill, history
  <2>4. CASE WriteFails(i) \/ VerifyFails(i)
    BY <1>0, <2>4 DEF WriteFails, VerifyFails, history
  <2>5. CASE Verify(i)
    <3>1. file' \in {file, [file EXCEPT !["tmp"] = NoFile]}
      BY <2>5 DEF Verify
    <3> QED
      BY <1>0, <2>5, <3>1, ContentsAre DEF Verify, history
  <2>6. CASE Rename(i)
    <3>1. file["tmp"] \in Contents
      BY <1>0
    <3>2. file' \in [{"tmp", "dest"} -> Contents]
      BY <1>0, <2>6, <3>1, ContentsAre DEF Rename
    <3>3. placed' \in Versions \cup {NoFile} /\ decayed' \in BOOLEAN
      BY <1>0, <2>0, <2>6 DEF Rename
    <3> QED
      BY <1>0, <2>6, <3>2, <3>3 DEF Rename
  <2>7. CASE Describe(i)
    BY <1>0, <2>7, ContentsAre DEF Describe, history
  <2>8. CASE CloseManifest(i)
    <3>1. manifest' \in Contents
      BY <1>0, <2>0, <2>8, MixTyped DEF CloseManifest, Description
    <3> QED
      BY <1>0, <2>8, <3>1 DEF CloseManifest, history
  <2> QED
    BY <1>1, <2>1, <2>2, <2>3, <2>4, <2>5, <2>6, <2>7, <2>8 DEF InstallStep
<1>2. CASE ReadManifest \/ CompareChecksum \/ RemoveManifest
  <2>1. recovery' \in [step : {"idle", "compare", "remove", "forget"}, version : Contents]
    BY <1>0, <1>2, ContentsAre DEF ReadManifest, CompareChecksum, RemoveManifest, Recovered, Recovering
  <2>2. manifest' \in Contents /\ shared' \in BOOLEAN
    BY <1>0, <1>2, ContentsAre DEF ReadManifest, CompareChecksum, RemoveManifest, history
  <2> QED
    BY <1>0, <1>2, <2>1, <2>2 DEF ReadManifest, CompareChecksum, RemoveManifest, history
<1>3. CASE RemoveModel
  BY <1>0, <1>3, ContentsAre DEF RemoveModel, Recovering
<1>4. CASE Decay
  BY <1>0, <1>4, ContentsAre DEF Decay
<1>5. CASE KillAll
  BY <1>0, <1>5, ContentsAre DEF KillAll, Recovered
<1> QED
  BY <1>1, <1>2, <1>3, <1>4, <1>5 DEF InstallNext

LEMMA NextKeepsInstallTypes ==
    ASSUME TypeInv, [InstallNext]_installVars
    PROVE  TypeInv'
<1>1. CASE UNCHANGED installVars
  BY <1>1 DEF installVars, history, TypeInv, InstallTypeOK, WorkFits, Busy
<1>2. ASSUME NEW i \in Installers, InstallStep(i)
      PROVE  TypeInv'
  <2>1. InstallTypeOK'
    <3>1. InstallNext
      BY <1>2 DEF InstallNext
    <3> QED
      BY <1>2, <3>1, FilesTyped, InstallerWork DEF InstallTypeOK, WorkSet
  <2>2. BeginInstall(i) \/ Busy(i)
    BY <1>2 DEF InstallStep, Create, Fill, WriteFails, Verify, VerifyFails, Rename, Describe, CloseManifest, Busy
  <2>3. ASSUME NEW j \in Installers, Busy(j)'
        PROVE  work'[j].version \in Versions /\ work'[j].data \in {work'[j].version, Mixed}
    <3>1. CASE j # i
      BY <1>2, <2>3, <3>1, InstallerWork DEF TypeInv, WorkFits, Busy
    <3>2. CASE j = i /\ BeginInstall(i)
      BY <1>2, <3>2, InstallerWork
    <3>3. CASE j = i /\ ~BeginInstall(i)
      BY <1>2, <2>2, <2>3, <3>3, InstallerWork DEF TypeInv, WorkFits
    <3> QED
      BY <3>1, <3>2, <3>3
  <2>4. WorkFits'
    BY <2>3 DEF WorkFits
  <2> QED
    BY <2>1, <2>4 DEF TypeInv
<1>3. ASSUME \/ ReadManifest \/ CompareChecksum \/ RemoveModel \/ RemoveManifest
             \/ Decay \/ KillAll
      PROVE  TypeInv'
  <2>1. InstallTypeOK'
    <3>1. InstallNext
      BY <1>3 DEF InstallNext
    <3> QED
      BY <1>3, <3>1, FilesTyped, OtherWork DEF InstallTypeOK, WorkSet
  <2>2. WorkFits'
    BY <1>3, OtherWork DEF TypeInv, WorkFits, Busy
  <2> QED
    BY <2>1, <2>2 DEF TypeInv
<1> QED
  BY <1>1, <1>2, <1>3 DEF InstallNext

-----------------------------------------------------------------------------
(* One worker at a time *)

(* That workers have met is never forgotten, nor that one was cut short.   *)
LEMMA HistoryGrows ==
    ASSUME [InstallNext]_installVars
    PROVE  (shared => shared') /\ (cut => cut') /\ brought \subseteq brought'
<1> USE DEF history
<1>1. ASSUME NEW i \in Installers, InstallStep(i)
      PROVE  (shared => shared') /\ (cut => cut') /\ brought \subseteq brought'
  <2>1. CASE BeginInstall(i)
    BY <2>1 DEF BeginInstall
  <2>2. CASE Create(i) \/ Fill(i) \/ Verify(i) \/ VerifyFails(i) \/ Describe(i) \/ CloseManifest(i)
    <3>1. UNCHANGED <<shared, cut, brought>>
      BY <2>2 DEF Create, Fill, Verify, VerifyFails, Describe, CloseManifest
    <3> QED
      BY <3>1
  <2>3. CASE WriteFails(i)
    BY <2>3 DEF WriteFails
  <2>4. CASE Rename(i)
    BY <2>4 DEF Rename
  <2> QED
    BY <1>1, <2>1, <2>2, <2>3, <2>4 DEF InstallStep
<1>2. CASE ReadManifest \/ CompareChecksum \/ RemoveModel \/ RemoveManifest \/ Decay \/ KillAll
  <2>1. CASE ReadManifest
    BY <2>1 DEF ReadManifest
  <2>2. CASE CompareChecksum \/ RemoveModel \/ RemoveManifest \/ Decay
    <3>1. UNCHANGED <<shared, cut, brought>>
      BY <2>2 DEF CompareChecksum, RemoveModel, RemoveManifest, Decay
    <3> QED
      BY <3>1
  <2>3. CASE KillAll
    BY <2>3 DEF KillAll
  <2> QED
    BY <1>2, <2>1, <2>2, <2>3
<1>3. CASE UNCHANGED installVars
  BY <1>3 DEF installVars
<1> QED
  BY <1>1, <1>2, <1>3 DEF InstallNext

(* An installer that goes on, or begins without meeting another, is alone  *)
(* before and after.                                                       *)
LEMMA InstallerAlone ==
    ASSUME TypeInv, ~shared', ~shared => OneWorker, NEW i \in Installers, InstallStep(i)
    PROVE  /\ ~shared
           /\ \A j \in Installers \ {i} : ~Busy(j) /\ ~Busy(j)'
           /\ ~Recovers /\ recovery' = recovery
           /\ OneWorker'
<1>1. ~shared
  BY HistoryGrows DEF InstallNext
<1>2. BeginInstall(i) \/ Busy(i)
  BY DEF InstallStep, Create, Fill, WriteFails, Verify, VerifyFails, Rename, Describe, CloseManifest, Busy
<1>3. (\A j \in Installers \ {i} : ~Busy(j)) /\ ~Recovers
  <2>1. CASE BeginInstall(i)
    BY <2>1 DEF BeginInstall, Others, Busy, Recovers
  <2>2. CASE Busy(i)
    BY <1>1, <2>2 DEF OneWorker
  <2> QED
    BY <1>2, <2>1, <2>2
<1>4. recovery' = recovery
  BY DEF InstallStep, BeginInstall, Create, Fill, WriteFails, Verify, VerifyFails, Rename, Describe, CloseManifest
<1>5. \A j \in Installers \ {i} : ~Busy(j)'
  BY <1>3, InstallerWork DEF Busy
<1> QED
  BY <1>1, <1>3, <1>4, <1>5 DEF OneWorker, Recovers

LEMMA InstallerKeepsAlone ==
    ASSUME TypeInv, AloneInv, NEW i \in Installers, InstallStep(i), ~shared'
    PROVE  InPlace' /\ OwnFile(i)'
<1>0. /\ ~shared /\ InPlace /\ OwnFile(i) /\ ~Recovers
      /\ file \in [{"tmp", "dest"} -> Contents] /\ placed \in Versions \cup {NoFile}
      /\ step \in [Installers -> InstallSteps] /\ work \in [Installers -> WorkSet]
  BY InstallerAlone DEF AloneInv, TypeInv, InstallTypeOK, WorkSet
<1>1. Busy(i) => work[i].version \in Versions /\ work[i].data \in {work[i].version, Mixed}
  BY DEF TypeInv, WorkFits
<1>2. CASE BeginInstall(i)
  <2>1. step'[i] = "create" /\ UNCHANGED <<file, placed, decayed>>
    BY <1>0, <1>2 DEF BeginInstall, Move
  <2> QED
    BY <1>0, <2>1 DEF InPlace, OwnFile
<1>3. CASE Create(i)
  <2>1. /\ step'[i] = "fill" /\ work'[i].at = "tmp"
        /\ file'["tmp"] = Partial /\ file'["dest"] = file["dest"]
        /\ UNCHANGED <<placed, decayed>>
    BY <1>0, <1>3 DEF Create, Move, Tmp, history, WorkSet
  <2> QED
    BY <1>0, <2>1 DEF InPlace, OwnFile
<1>4. CASE Fill(i)
  <2>1. /\ step[i] = "fill" /\ work[i].at = "tmp" /\ file["tmp"] = Partial
        /\ step'[i] = "verify" /\ work' = work
        /\ UNCHANGED <<placed, decayed>>
    BY <1>0, <1>4 DEF Fill, Move, history, OwnFile
  <2>2. PICK c \in Mix(Partial, work[i].data) : file' = [file EXCEPT !["tmp"] = c]
    BY <1>4, <2>1 DEF Fill
  <2>3. c = work[i].data
    BY DEF Mix
  <2>4. file'["tmp"] = work[i].data /\ file'["dest"] = file["dest"]
    BY <1>0, <2>2, <2>3
  <2> QED
    BY <1>0, <2>1, <2>4 DEF InPlace, OwnFile
<1>5. CASE WriteFails(i) \/ VerifyFails(i)
  <2>1. step'[i] = "idle" /\ UNCHANGED <<file, placed, decayed>>
    BY <1>0, <1>5 DEF WriteFails, VerifyFails, Leave, Move, history
  <2> QED
    BY <1>0, <2>1 DEF InPlace, OwnFile
<1>6. CASE Verify(i)
  <2>1. step[i] = "verify" /\ UNCHANGED <<placed, decayed>>
    BY <1>6 DEF Verify, history
  <2>2. CASE Matches(i)
    <3>1. step'[i] = "rename" /\ UNCHANGED <<file, work>>
      BY <1>0, <1>6, <2>2 DEF Verify, Move
    <3> QED
      BY <1>0, <2>1, <2>2, <3>1 DEF InPlace, OwnFile, Matches
  <2>3. CASE ~Matches(i)
    <3>1. step'[i] = "idle" /\ file'["dest"] = file["dest"]
      BY <1>0, <1>6, <2>3 DEF Verify, Move
    <3> QED
      BY <1>0, <2>1, <3>1 DEF InPlace, OwnFile
  <2> QED
    BY <2>2, <2>3
<1>7. CASE Rename(i)
  <2>1. /\ step[i] = "rename" /\ Busy(i)
        /\ file["tmp"] = work[i].data
        /\ work[i].version \in Pinned => file["tmp"] = work[i].version
    BY <1>0, <1>7 DEF Rename, OwnFile, Busy
  <2>2. file["tmp"] # NoFile
    BY <1>1, <2>1, InstallAssumption
  <2>3. /\ file'["dest"] = file["tmp"] /\ placed' = work[i].version /\ step'[i] = "describe"
    BY <1>0, <1>7, <2>2 DEF Rename, Move
  <2>4. work'[i].version = work[i].version
    BY <1>7, <2>1, <2>3, InstallerWork DEF Rename, BeginInstall, Busy
  <2> QED
    BY <1>1, <2>1, <2>3, <2>4, InstallAssumption DEF InPlace, OwnFile
<1>8. CASE Describe(i)
  <2>1. /\ step[i] = "describe" /\ step'[i] = "close" /\ manifest' = Partial
        /\ UNCHANGED <<file, work, placed, decayed>>
    BY <1>0, <1>8 DEF Describe, Move, history
  <2> QED
    BY <1>0, <2>1 DEF InPlace, OwnFile
<1>9. CASE CloseManifest(i)
  <2>1. step'[i] = "idle" /\ UNCHANGED <<file, placed, decayed>>
    BY <1>0, <1>9 DEF CloseManifest, Leave, Move, history
  <2> QED
    BY <1>0, <2>1 DEF InPlace, OwnFile
<1> QED
  BY <1>2, <1>3, <1>4, <1>5, <1>6, <1>7, <1>8, <1>9 DEF InstallStep

(* A recovery goes on only where no installer is at work, and the world    *)
(* damages a version that is in place.                                     *)
LEMMA OthersKeepAlone ==
    ASSUME TypeInv, AloneInv, ~shared',
           \/ ReadManifest \/ CompareChecksum \/ RemoveModel \/ RemoveManifest
           \/ Decay \/ KillAll
    PROVE  OneWorker' /\ InPlace' /\ \A i \in Installers : OwnFile(i)'
<1>0. /\ ~shared /\ OneWorker /\ InPlace /\ \A i \in Installers : OwnFile(i)
      /\ file \in [{"tmp", "dest"} -> Contents] /\ placed \in Versions \cup {NoFile}
      /\ recovery \in [step : {"idle", "compare", "remove", "forget"}, version : Contents]
  BY HistoryGrows DEF AloneInv, TypeInv, InstallTypeOK, InstallNext
<1>1. CASE ReadManifest
  <2>1. /\ UNCHANGED <<file, manifest, step, work, placed, decayed>>
        /\ \A i \in Installers : ~Busy(i)
    BY <1>1 DEF ReadManifest, Busy
  <2> QED
    BY <1>0, <2>1 DEF OneWorker, InPlace, OwnFile, Busy
<1>2. CASE CompareChecksum \/ RemoveManifest
  <2>1. /\ Recovers /\ UNCHANGED <<file, step, work, placed, decayed>>
    BY <1>2 DEF CompareChecksum, RemoveManifest, Recovers, history
  <2>2. \A i \in Installers : ~Busy(i)
    BY <1>0, <2>1 DEF OneWorker
  <2> QED
    BY <1>0, <2>1, <2>2 DEF OneWorker, InPlace, OwnFile, Busy
<1>3. CASE RemoveModel
  <2>1. /\ Recovers /\ UNCHANGED <<step, decayed>>
        /\ \/ placed' = NoFile /\ file'["dest"] = NoFile
           \/ UNCHANGED <<file, placed>>
    BY <1>0, <1>3 DEF RemoveModel, Recovers
  <2>2. \A i \in Installers : ~Busy(i)
    BY <1>0, <2>1 DEF OneWorker
  <2> QED
    BY <1>0, <2>1, <2>2 DEF OneWorker, InPlace, OwnFile, Busy
<1>4. CASE Decay
  <2>1. /\ UNCHANGED <<manifest, step, work, recovery, placed>>
        /\ decayed' = TRUE /\ file["dest"] \in Versions
        /\ file'["dest"] = Mixed /\ file'["tmp"] = file["tmp"]
    BY <1>0, <1>4 DEF Decay
  <2>2. file["dest"] = placed
    BY <1>0, <2>1, InstallAssumption DEF InPlace
  <2>3. InPlace'
    BY <2>1, <2>2, InstallAssumption DEF InPlace
  <2> QED
    BY <1>0, <2>1, <2>3 DEF OneWorker, OwnFile, Busy, Recovers
<1>5. CASE KillAll
  <2>1. /\ UNCHANGED <<file, placed, decayed>>
        /\ \A i \in Installers : step'[i] = "idle"
    BY <1>5 DEF KillAll
  <2> QED
    BY <1>0, <2>1 DEF OneWorker, InPlace, OwnFile, Busy
<1> QED
  BY <1>1, <1>2, <1>3, <1>4, <1>5

LEMMA NextKeepsAlone ==
    ASSUME TypeInv, AloneInv, [InstallNext]_installVars
    PROVE  AloneInv'
<1> SUFFICES ASSUME ~shared'
             PROVE  OneWorker' /\ InPlace' /\ \A i \in Installers : OwnFile(i)'
  BY DEF AloneInv
<1>1. ASSUME NEW i \in Installers, InstallStep(i)
      PROVE  OneWorker' /\ InPlace' /\ \A j \in Installers : OwnFile(j)'
  <2>1. OneWorker' /\ \A j \in Installers \ {i} : ~Busy(j)'
    BY <1>1, InstallerAlone DEF AloneInv
  <2>2. InPlace' /\ OwnFile(i)'
    BY <1>1, InstallerKeepsAlone
  <2> QED
    BY <2>1, <2>2 DEF OwnFile, Busy
<1>2. CASE ReadManifest \/ CompareChecksum \/ RemoveModel \/ RemoveManifest \/ Decay \/ KillAll
  BY <1>2, OthersKeepAlone
<1>3. CASE UNCHANGED installVars
  BY <1>3 DEF installVars, history, AloneInv, OneWorker, InPlace, OwnFile, Busy, Recovers
<1> QED
  BY <1>1, <1>2, <1>3 DEF InstallNext

(* What an installation that ends writes beside the model in place.        *)
LEMMA ClosedManifest ==
    ASSUME TypeInv, AloneInv, ~shared, NEW i \in Installers, CloseManifest(i)
    PROVE  manifest' = work[i].version /\ placed = work[i].version /\ placed' = placed
<1>1. step[i] = "close" /\ manifest = Partial /\ placed = work[i].version
  BY DEF AloneInv, OwnFile, CloseManifest
<1>2. PICK c \in Mix(Partial, work[i].version) : manifest' = c
  BY <1>1, InstallAssumption DEF CloseManifest, Description
<1>3. c = work[i].version
  BY DEF Mix
<1> QED
  BY <1>1, <1>2, <1>3 DEF CloseManifest, history

LEMMA NextKeepsManifest ==
    ASSUME TypeInv, AloneInv, UncutInv, [InstallNext]_installVars
    PROVE  UncutInv'
<1> SUFFICES ASSUME ~shared', ~cut'
             PROVE  ManifestTells'
  BY DEF UncutInv
<1>0. /\ ~shared /\ ~cut /\ ManifestTells /\ OneWorker /\ InPlace
      /\ step \in [Installers -> InstallSteps]
      /\ file \in [{"tmp", "dest"} -> Contents]
      /\ recovery \in [step : {"idle", "compare", "remove", "forget"}, version : Contents]
  BY HistoryGrows DEF UncutInv, AloneInv, TypeInv, InstallTypeOK
<1>1. ASSUME NEW i \in Installers, InstallStep(i)
      PROVE  ManifestTells'
  <2>0. /\ \A j \in Installers \ {i} : step[j] = "idle"
        /\ recovery.step = "idle" /\ recovery' = recovery
    BY <1>0, <1>1, InstallerAlone DEF Busy, Recovers
  <2>1. CASE BeginInstall(i) \/ Create(i) \/ Fill(i) \/ Verify(i) \/ VerifyFails(i)
    <3>1. /\ step[i] \notin {"describe", "close"}
          /\ UNCHANGED <<manifest, placed>>
      BY <2>1 DEF BeginInstall, Create, Fill, Verify, VerifyFails, history
    <3>2. Described
      BY <2>0, <3>1 DEF Described
    <3> QED
      BY <1>0, <2>0, <3>1, <3>2 DEF ManifestTells
  <2>2. CASE WriteFails(i)
    BY <2>2 DEF WriteFails
  <2>3. CASE Rename(i)
    <3>1. CASE file["tmp"] = NoFile
      <4>1. step[i] = "rename" /\ UNCHANGED <<manifest, placed>>
        BY <2>3, <3>1 DEF Rename
      <4>2. Described
        BY <2>0, <4>1 DEF Described
      <4> QED
        BY <1>0, <2>0, <4>1, <4>2 DEF ManifestTells
    <3>2. CASE file["tmp"] # NoFile
      <4>1. step'[i] = "describe"
        BY <1>0, <2>3, <3>2 DEF Rename, Move
      <4> QED
        BY <2>0, <4>1 DEF ManifestTells, Described
    <3> QED
      BY <3>1, <3>2
  <2>4. CASE Describe(i)
    <3>1. step'[i] = "close"
      BY <1>0, <2>4 DEF Describe, Move
    <3> QED
      BY <2>0, <3>1 DEF ManifestTells, Described
  <2>5. CASE CloseManifest(i)
    <3>1. manifest' = placed'
      BY <1>0, <2>5, ClosedManifest
    <3> QED
      BY <2>0, <3>1 DEF ManifestTells
  <2> QED
    BY <1>1, <2>1, <2>2, <2>3, <2>4, <2>5 DEF InstallStep
<1>2. CASE ReadManifest
  <2>1. /\ recovery' = [step |-> "compare", version |-> manifest]
        /\ manifest \in Versions /\ recovery.step = "idle"
        /\ UNCHANGED <<file, manifest, step, placed>>
        /\ \A i \in Installers : step[i] = "idle"
    BY <1>2 DEF ReadManifest
  <2> QED
    BY <1>0, <2>1 DEF ManifestTells, Described
<1>3. CASE CompareChecksum
  <2>0. /\ recovery.step = "compare" /\ UNCHANGED <<file, manifest, step, placed>>
        /\ \A i \in Installers : step[i] = "idle"
    BY <1>0, <1>3 DEF CompareChecksum, history, OneWorker, Recovers, Busy
  <2>1. /\ recovery.version = manifest /\ manifest \in Versions /\ placed \in {manifest, NoFile}
    BY <1>0, <2>0 DEF ManifestTells, Described
  <2>2. CASE Corrupted
    <3>1. recovery'.step = "remove" /\ recovery'.version = recovery.version
      BY <1>0, <1>3, <2>2 DEF CompareChecksum, Recovering
    <3>2. file["dest"] = Mixed
      BY <1>0, <2>1, <2>2 DEF Corrupted, InPlace
    <3> QED
      BY <2>0, <2>1, <3>1, <3>2 DEF ManifestTells
  <2>3. CASE ~Corrupted
    <3>1. recovery'.step = "idle"
      BY <1>3, <2>3 DEF CompareChecksum, Recovered
    <3> QED
      BY <2>0, <2>1, <3>1 DEF ManifestTells
  <2> QED
    BY <2>2, <2>3
<1>4. CASE RemoveModel
  <2>1. /\ recovery'.step = "forget" /\ UNCHANGED <<manifest, step>>
        /\ placed' \in {placed, NoFile}
    BY <1>0, <1>4 DEF RemoveModel, Recovering
  <2> QED
    BY <1>0, <2>1 DEF ManifestTells, Described
<1>5. CASE RemoveManifest
  <2>1. /\ recovery'.step = "idle" /\ UNCHANGED <<step, placed>>
        /\ manifest' \in {NoFile, manifest}
    BY <1>5 DEF RemoveManifest, Recovered, history
  <2> QED
    BY <1>0, <2>1, InstallAssumption DEF ManifestTells, Described
<1>6. CASE Decay
  <2>1. UNCHANGED <<manifest, step, recovery, placed>> /\ file'["dest"] = Mixed
    BY <1>0, <1>6 DEF Decay
  <2> QED
    BY <1>0, <2>1 DEF ManifestTells, Described
<1>7. CASE KillAll
  <2>1. /\ \A i \in Installers : step[i] = "idle"
        /\ recovery.step = "idle" /\ recovery'.step = "idle"
        /\ UNCHANGED <<manifest, placed>>
    BY <1>0, <1>7 DEF KillAll, Recovered
  <2> QED
    BY <1>0, <2>1 DEF ManifestTells, Described
<1>8. CASE UNCHANGED installVars
  BY <1>0, <1>8 DEF installVars, history, ManifestTells, Described
<1> QED
  BY <1>1, <1>2, <1>3, <1>4, <1>5, <1>6, <1>7, <1>8 DEF InstallNext

-----------------------------------------------------------------------------
(* Several workers with the same data *)

LEMMA SameDataBefore ==
    ASSUME [InstallNext]_installVars, NEW v, SameData(v)'
    PROVE  SameData(v) /\ ~cut'
BY HistoryGrows DEF SameData

(* All that is at work after the step works on the same version.           *)
LEMMA SameWork ==
    ASSUME TypeInv, NEW v \in Versions, SameData(v)', SharedFiles(v),
           NEW i \in Installers, InstallStep(i)
    PROVE  \A j \in Installers : Busy(j)' => work'[j].version = v /\ work'[j].data = v
<1>1. ASSUME NEW j \in Installers \ {i}, Busy(j)'
      PROVE  work'[j].version = v /\ work'[j].data = v
  BY <1>1, InstallerWork DEF Busy, SharedFiles
<1>2. CASE BeginInstall(i)
  <2>1. brought' = brought \cup {work'[i].data}
    BY <1>2 DEF BeginInstall
  <2>2. work'[i].data = v
    BY <2>1 DEF SameData
  <2>3. work'[i].data \in {work'[i].version, Mixed}
    BY <1>2, InstallerWork
  <2>4. work'[i].version = v
    BY <2>2, <2>3, InstallAssumption
  <2> QED
    BY <1>1, <2>2, <2>4
<1>3. CASE ~BeginInstall(i)
  <2>1. Busy(i)
    BY <1>3 DEF InstallStep, Create, Fill, WriteFails, Verify, VerifyFails, Rename, Describe, CloseManifest, Busy
  <2>2. Busy(i)' => work'[i].version = work[i].version /\ work'[i].data = work[i].data
    BY <1>3, InstallerWork
  <2> QED
    BY <1>1, <2>1, <2>2 DEF SharedFiles
<1> QED
  BY <1>2, <1>3

LEMMA InstallerKeepsShared ==
    ASSUME TypeInv, NEW v \in Versions, SameData(v)', ~cut', SharedFiles(v),
           NEW i \in Installers, InstallStep(i)
    PROVE  SharedFiles(v)'
<1>0. /\ file \in [{"tmp", "dest"} -> Contents]
      /\ step \in [Installers -> InstallSteps] /\ work \in [Installers -> WorkSet]
      /\ v \notin {NoFile, Partial, Mixed}
  BY InstallAssumption DEF TypeInv, InstallTypeOK, WorkSet
<1>w. \A j \in Installers : Busy(j)' => work'[j].version = v /\ work'[j].data = v
  BY SameWork
<1>j. \A j \in Installers \ {i} : step'[j] = step[j]
  BY InstallerWork
<1> HIDE DEF SameData
<1>1. CASE BeginInstall(i)
  <2>1. /\ step[i] = "idle" /\ step'[i] = "create"
        /\ UNCHANGED <<file, manifest, decayed>>
        /\ \A j \in Installers \ {i} : work'[j] = work[j]
    BY <1>0, <1>1 DEF BeginInstall, Move
  <2>2. \A j \in Installers, p \in {"tmp", "dest"} : Filling(j, p)' <=> Filling(j, p)
    BY <1>j, <2>1 DEF Filling
  <2>3. \A j \in Installers : step'[j] = "close" <=> step[j] = "close"
    BY <1>j, <2>1
  <2> QED
    BY <1>w, <2>1, <2>2, <2>3 DEF SharedFiles
<1>2. CASE Create(i)
  <2>1. /\ step[i] = "create" /\ step'[i] = "fill" /\ work'[i].at = "tmp"
        /\ file'["tmp"] = Partial /\ file'["dest"] = file["dest"]
        /\ UNCHANGED <<manifest, decayed>>
        /\ \A j \in Installers \ {i} : work'[j] = work[j]
    BY <1>0, <1>2 DEF Create, Move, Tmp, history, WorkSet
  <2>2. /\ Filling(i, "tmp")' /\ ~Filling(i, "dest")' /\ ~Filling(i, "dest")
        /\ \A j \in Installers \ {i}, p \in {"tmp", "dest"} : Filling(j, p)' <=> Filling(j, p)
    BY <1>j, <2>1 DEF Filling
  <2>3. \A j \in Installers : step'[j] = "close" <=> step[j] = "close"
    BY <1>j, <2>1
  <2>4. file'["dest"] = Partial => \E j \in Installers : Filling(j, "dest")'
    BY <2>1, <2>2 DEF SharedFiles
  <2>5. \A j \in Installers : Filling(j, "dest")' => file'["dest"] # NoFile
    BY <2>1, <2>2 DEF SharedFiles
  <2> QED
    BY <1>w, <2>1, <2>2, <2>3, <2>4, <2>5, InstallAssumption DEF SharedFiles
<1>3. CASE Fill(i)
  <2> DEFINE p == work[i].at
  <2>1. /\ step[i] = "fill" /\ step'[i] = "verify" /\ work' = work
        /\ UNCHANGED <<manifest, decayed>> /\ work[i].data = v /\ p \in Places
    BY <1>0, <1>3 DEF Fill, Move, history, SharedFiles, Busy, WorkSet
  <2>2. /\ \A q \in {"tmp", "dest"} : ~Filling(i, q)'
        /\ \A j \in Installers \ {i}, q \in {"tmp", "dest"} : Filling(j, q)' <=> Filling(j, q)
        /\ \A q \in {"tmp", "dest"} : Filling(i, q) <=> p = q
    BY <1>j, <2>1 DEF Filling
  <2>3. \A j \in Installers : step'[j] = "close" <=> step[j] = "close"
    BY <1>j, <2>1
  <2>4. CASE p = "gone"
    <3>1. file' = file
      BY <1>3, <2>4 DEF Fill
    <3>2. \A j \in Installers, q \in {"tmp", "dest"} : Filling(j, q)' <=> Filling(j, q)
      BY <2>2, <2>4
    <3> QED
      BY <1>w, <2>1, <2>3, <3>1, <3>2 DEF SharedFiles
  <2>5. CASE p = "tmp"
    <3>1. PICK c \in Mix(file["tmp"], v) : file' = [file EXCEPT !["tmp"] = c]
      BY <1>3, <2>1, <2>5 DEF Fill
    <3>2. file["tmp"] \in {Partial, v}
      BY <2>2, <2>5 DEF SharedFiles
    <3>3. file'["tmp"] = v /\ file'["dest"] = file["dest"]
      BY <1>0, <3>1, <3>2 DEF Mix
    <3>4. /\ file'["dest"] = Partial => \E j \in Installers : Filling(j, "dest")'
          /\ \A j \in Installers : Filling(j, "dest")' => file'["dest"] # NoFile
      BY <2>2, <2>5, <3>3 DEF SharedFiles
    <3> QED
      BY <1>0, <1>w, <2>1, <2>3, <3>3, <3>4 DEF SharedFiles
  <2>6. CASE p = "dest"
    <3>1. PICK c \in Mix(file["dest"], v) : file' = [file EXCEPT !["dest"] = c]
      BY <1>3, <2>1, <2>6 DEF Fill
    <3>2. file["dest"] \in {Partial, v} \/ decayed
      BY <2>2, <2>6 DEF SharedFiles
    <3>3. /\ file'["dest"] = v \/ decayed
          /\ file'["dest"] \notin {NoFile, Partial}
          /\ file'["tmp"] = file["tmp"]
      BY <1>0, <3>1, <3>2, InstallAssumption DEF Mix
    <3>4. /\ file'["tmp"] = Partial => \E j \in Installers : Filling(j, "tmp")'
          /\ \A j \in Installers : Filling(j, "tmp")' => file'["tmp"] # NoFile
      BY <2>2, <2>6, <3>3 DEF SharedFiles
    <3> QED
      BY <1>0, <1>w, <2>1, <2>3, <3>3, <3>4 DEF SharedFiles
  <2> QED
    BY <2>1, <2>4, <2>5, <2>6 DEF Places
<1>4. CASE WriteFails(i)
  BY <1>4 DEF WriteFails
<1>5. CASE Verify(i) /\ Matches(i)
  <2>1. /\ step[i] = "verify" /\ step'[i] = "rename" /\ work' = work
        /\ UNCHANGED <<file, manifest, decayed>>
    BY <1>0, <1>5 DEF Verify, Move, history
  <2>2. /\ \A j \in Installers, q \in {"tmp", "dest"} : Filling(j, q)' <=> Filling(j, q)
        /\ \A j \in Installers : step'[j] = "close" <=> step[j] = "close"
    BY <1>j, <2>1 DEF Filling
  <2> QED
    BY <1>w, <2>1, <2>2 DEF SharedFiles
<1>6. CASE Verify(i) /\ ~Matches(i)
  <2>1. /\ step[i] = "verify" /\ step'[i] = "idle"
        /\ UNCHANGED <<manifest, decayed>>
        /\ file'["tmp"] = NoFile /\ file'["dest"] = file["dest"]
        /\ work' = [Unlinked("tmp") EXCEPT ![i] = NoWork]
    BY <1>0, <1>6 DEF Verify, Move, history
  <2>2. \A j \in Installers \ {i} :
           work'[j].at = (IF work[j].at = "tmp" THEN "gone" ELSE work[j].at)
    BY <1>0, <2>1, UnlinkedTyped
  <2>3. /\ \A j \in Installers : ~Filling(j, "tmp")'
        /\ \A j \in Installers : Filling(j, "dest")' <=> Filling(j, "dest")
        /\ \A j \in Installers : step'[j] = "close" <=> step[j] = "close"
    BY <1>j, <2>1, <2>2 DEF Filling
  <2> QED
    BY <1>w, <2>1, <2>3, InstallAssumption DEF SharedFiles
<1>7. CASE VerifyFails(i) \/ (Rename(i) /\ file["tmp"] = NoFile)
  <2>1. /\ step[i] \in {"verify", "rename"} /\ step'[i] = "idle"
        /\ UNCHANGED <<file, manifest, decayed>>
        /\ \A j \in Installers \ {i} : work'[j] = work[j]
    BY <1>0, <1>7 DEF Rename, VerifyFails, Leave, Move, history
  <2>2. /\ \A j \in Installers, q \in {"tmp", "dest"} : Filling(j, q)' <=> Filling(j, q)
        /\ \A j \in Installers : step'[j] = "close" <=> step[j] = "close"
    BY <1>j, <2>1 DEF Filling
  <2> QED
    BY <1>w, <2>1, <2>2 DEF SharedFiles
<1>8. CASE Rename(i) /\ file["tmp"] # NoFile
  <2>1. /\ step[i] = "rename" /\ step'[i] = "describe"
        /\ manifest' = manifest
        /\ file'["tmp"] = NoFile /\ file'["dest"] = file["tmp"]
        /\ work' = [j \in Installers |-> [work[j] EXCEPT !.at = Moved(@)]]
    BY <1>0, <1>8 DEF Rename, Move
  <2>2. \A j \in Installers : work'[j].at = Moved(work[j].at)
    BY <1>0, <2>1, RenamedTyped
  <2>3. /\ \A j \in Installers : ~Filling(j, "tmp")'
        /\ \A j \in Installers : Filling(j, "dest")' <=> Filling(j, "tmp")
        /\ \A j \in Installers : step'[j] = "close" <=> step[j] = "close"
    BY <1>j, <2>1, <2>2 DEF Filling, Moved
  <2> QED
    BY <1>w, <2>1, <2>3, InstallAssumption DEF SharedFiles
<1>9. CASE Describe(i)
  <2>1. /\ step[i] = "describe" /\ step'[i] = "close" /\ manifest' = Partial /\ work' = work
        /\ UNCHANGED <<file, decayed>>
    BY <1>0, <1>9 DEF Describe, Move, history
  <2>2. \A j \in Installers, q \in {"tmp", "dest"} : Filling(j, q)' <=> Filling(j, q)
    BY <1>j, <2>1 DEF Filling
  <2> QED
    BY <1>w, <2>1, <2>2, InstallAssumption DEF SharedFiles
<1>10. CASE CloseManifest(i)
  <2>1. /\ step[i] = "close" /\ step'[i] = "idle"
        /\ UNCHANGED <<file, decayed>> /\ work[i].version = v
        /\ \A j \in Installers \ {i} : work'[j] = work[j]
    BY <1>0, <1>10 DEF CloseManifest, Leave, Move, history, SharedFiles, Busy
  <2>2. manifest' \in {NoFile, v}
    <3>1. CASE manifest = NoFile
      BY <1>10, <3>1 DEF CloseManifest
    <3>2. CASE manifest # NoFile
      <4>1. manifest \in {Partial, v}
        BY <3>2 DEF SharedFiles
      <4>2. PICK c \in Mix(manifest, v) : manifest' = c
        BY <1>10, <2>1, <3>2 DEF CloseManifest, Description
      <4> QED
        BY <4>1, <4>2 DEF Mix
    <3> QED
      BY <3>1, <3>2
  <2>3. \A j \in Installers, q \in {"tmp", "dest"} : Filling(j, q)' <=> Filling(j, q)
    BY <1>j, <2>1 DEF Filling
  <2> QED
    BY <1>0, <1>w, <2>1, <2>2, <2>3, InstallAssumption DEF SharedFiles
<1> QED
  BY <1>1, <1>2, <1>3, <1>4, <1>5, <1>6, <1>7, <1>8, <1>9, <1>10 DEF InstallStep

LEMMA OthersKeepShared ==
    ASSUME TypeInv, NEW v \in Versions, SameData(v)', ~cut', SharedFiles(v),
           \/ ReadManifest \/ CompareChecksum \/ RemoveModel \/ RemoveManifest
           \/ Decay \/ KillAll
    PROVE  SharedFiles(v)'
<1>0. /\ file \in [{"tmp", "dest"} -> Contents]
      /\ work \in [Installers -> WorkSet]
      /\ v \notin {NoFile, Partial, Mixed}
  BY InstallAssumption DEF TypeInv, InstallTypeOK, WorkSet
<1>1. CASE ReadManifest \/ CompareChecksum
  <2>1. UNCHANGED <<file, manifest, step, work, decayed>>
    BY <1>1 DEF ReadManifest, CompareChecksum, history
  <2> QED
    BY <2>1 DEF SharedFiles, Filling, Busy
<1>2. CASE RemoveModel
  <2>0. CASE UNCHANGED <<file, work>>
    <3>1. UNCHANGED <<file, manifest, step, work, decayed>>
      BY <1>2, <2>0 DEF RemoveModel
    <3> QED
      BY <3>1 DEF SharedFiles, Filling, Busy
  <2> SUFFICES ASSUME ~UNCHANGED <<file, work>> PROVE SharedFiles(v)'
    BY <2>0
  <2>1. /\ UNCHANGED <<manifest, step, decayed>> /\ work' = Unlinked("dest")
        /\ file'["dest"] = NoFile /\ file'["tmp"] = file["tmp"]
    BY <1>0, <1>2 DEF RemoveModel
  <2>2. \A j \in Installers :
           /\ work'[j].version = work[j].version /\ work'[j].data = work[j].data
           /\ work'[j].at = (IF work[j].at = "dest" THEN "gone" ELSE work[j].at)
    BY <1>0, <2>1, UnlinkedTyped
  <2>3. /\ \A j \in Installers : ~Filling(j, "dest")'
        /\ \A j \in Installers : Filling(j, "tmp")' <=> Filling(j, "tmp")
    BY <2>1, <2>2 DEF Filling
  <2> QED
    BY <2>1, <2>2, <2>3, InstallAssumption DEF SharedFiles, Busy
<1>3. CASE RemoveManifest
  <2>1. manifest' \in {NoFile, manifest} /\ UNCHANGED <<file, step, work, decayed>>
    BY <1>3 DEF RemoveManifest, history
  <2> QED
    BY <2>1, InstallAssumption DEF SharedFiles, Filling, Busy
<1>4. CASE Decay
  <2>1. /\ UNCHANGED <<manifest, step, work>> /\ decayed' = TRUE
        /\ file'["dest"] = Mixed /\ file'["tmp"] = file["tmp"]
    BY <1>0, <1>4 DEF Decay
  <2> QED
    BY <2>1, InstallAssumption DEF SharedFiles, Filling, Busy
<1>5. CASE KillAll
  <2>1. /\ \A i \in Installers : step[i] = "idle" /\ step'[i] = "idle"
        /\ UNCHANGED <<file, manifest, decayed>>
    BY <1>5 DEF KillAll
  <2> QED
    BY <2>1 DEF SharedFiles, Filling, Busy
<1> QED
  BY <1>1, <1>2, <1>3, <1>4, <1>5

LEMMA NextKeepsShared ==
    ASSUME TypeInv, SharedInv, [InstallNext]_installVars
    PROVE  SharedInv'
<1> SUFFICES ASSUME NEW v \in Versions, SameData(v)'
             PROVE  SharedFiles(v)'
  BY DEF SharedInv
<1>0. SharedFiles(v) /\ ~cut'
  BY SameDataBefore DEF SharedInv
<1>1. ASSUME NEW i \in Installers, InstallStep(i)
      PROVE  SharedFiles(v)'
  BY <1>0, <1>1, InstallerKeepsShared
<1>2. CASE ReadManifest \/ CompareChecksum \/ RemoveModel \/ RemoveManifest \/ Decay \/ KillAll
  BY <1>0, <1>2, OthersKeepShared
<1>3. CASE UNCHANGED installVars
  BY <1>0, <1>3 DEF installVars, history, SharedFiles, Filling, Busy
<1> QED
  BY <1>1, <1>2, <1>3 DEF InstallNext

-----------------------------------------------------------------------------
(* Theorems *)

LEMMA InitInstallInv == InstallInit => InstallInv
<1> SUFFICES ASSUME InstallInit PROVE InstallInv
  OBVIOUS
<1>1. TypeInv
  BY InitInstallTypes
<1>2. AloneInv
  BY DEF InstallInit, AloneInv, OneWorker, InPlace, OwnFile, Busy, Recovers
<1>3. UncutInv
  BY InstallAssumption DEF InstallInit, UncutInv, ManifestTells
<1>4. SharedInv
  BY InstallAssumption DEF InstallInit, SharedInv, SharedFiles, Filling, Busy
<1> QED
  BY <1>1, <1>2, <1>3, <1>4 DEF InstallInv, TypeInv

LEMMA NextKeepsInstallInv ==
    ASSUME InstallInv, [InstallNext]_installVars
    PROVE  InstallInv'
BY NextKeepsInstallTypes, NextKeepsAlone, NextKeepsManifest, NextKeepsShared
   DEF InstallInv, TypeInv

LEMMA InstallInvHolds == InstallSpec => []InstallInv
BY InitInstallInv, NextKeepsInstallInv, PTL DEF InstallSpec

(* Every file, manifest and worker has its type.                           *)
THEOREM InstallTypeCorrect == InstallSpec => []InstallTypeOK
<1>1. InstallInv => InstallTypeOK
  BY DEF InstallInv
<1> QED
  BY <1>1, InstallInvHolds, PTL

(* "Atomic model update" (models.rs:179): with one worker at a time, the   *)
(* model is the version last put in place or none, at every step, kill and *)
(* full disk; damaged only since, or for want of a checksum.               *)
THEOREM UpdateIsAtomic == InstallSpec => []AtomicUpdate
<1>1. InstallInv => AtomicUpdate
  BY DEF InstallInv, AloneInv, InPlace, AtomicUpdate
<1> QED
  BY <1>1, InstallInvHolds, PTL

(* A recovery removes only a damaged model, unless an installation has     *)
(* been cut short (models.rs:197-221).                                     *)
THEOREM RecoveryIsSound == InstallSpec => []RecoverySound
<1>1. InstallInv => RecoverySound
  BY DEF InstallInv, UncutInv, ManifestTells, RecoverySound
<1> QED
  BY <1>1, InstallInvHolds, PTL

(* An installation that ends leaves its version and its manifest, whatever *)
(* an earlier one has left behind (models.rs:180-195).                     *)
THEOREM InstallationRepairs == InstallSpec => InstallRepairs
<1>1. InstallInv /\ [InstallNext]_installVars =>
         [\A i \in Installers :
             ~shared /\ CloseManifest(i) =>
                 manifest' = work[i].version /\ placed = work[i].version]_installVars
  BY ClosedManifest DEF InstallInv, TypeInv
<1> QED
  BY <1>1, InstallInvHolds, PTL DEF InstallSpec, InstallRepairs

(* Any number of installers of the same undamaged data, and a recovery,    *)
(* interleaved at every call of the file system, leave the whole model or  *)
(* none (models.rs:184).                                                   *)
THEOREM SameModelIsWhole == InstallSpec => []SameModelShared
<1>1. InstallInv => SameModelShared
  <2> SUFFICES ASSUME InstallInv, NEW v \in Versions,
                      brought \subseteq {v}, ~cut, ~decayed, Resting
               PROVE  file["dest"] \in {NoFile, v} /\ manifest \in {NoFile, v}
    BY DEF SameModelShared
  <2>1. SharedFiles(v)
    BY DEF InstallInv, SharedInv, SameData
  <2>2. \A i \in Installers : step[i] = "idle"
    BY DEF Resting
  <2> QED
    BY <2>1, <2>2 DEF SharedFiles, Filling
<1> QED
  BY <1>1, InstallInvHolds, PTL

=============================================================================
