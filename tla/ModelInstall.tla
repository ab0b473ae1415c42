---------------------------- MODULE ModelInstall ----------------------------
(***************************************************************************)
(* The installation of a model (models.rs): written beside its place,      *)
(* compared with its checksum, renamed into place, and described by a      *)
(* manifest; a recovery that removes a model its manifest does not         *)
(* describe.  Each call of the file system is a step; an open file is      *)
(* written wherever a rename has put it meanwhile.                         *)
(***************************************************************************)
EXTENDS Naturals

CONSTANTS
    Installers,     \* who installs
    Versions,       \* versions of the model
    Pinned,         \* those whose manifest has a checksum
    NoFile,         \* a file that is not there
    Partial,        \* contents cut short
    Mixed           \* damaged contents, or those of two writers

Contents == Versions \cup {NoFile, Partial, Mixed}

Places == {"tmp", "dest", "gone"}

ASSUME InstallAssumption ==
    /\ Pinned \subseteq Versions
    /\ NoFile \notin Versions /\ Partial \notin Versions /\ Mixed \notin Versions
    /\ NoFile # Partial /\ NoFile # Mixed /\ Partial # Mixed

VARIABLES
    file,       \* contents of the model's temporary file and of the model
    manifest,   \* contents of manifest.json
    step,       \* what each installer does next
    work,       \* what it installs: the version, the data, the open file
    recovery,   \* what the recovery does next, and the manifest it has read
    placed,     \* history: the version last renamed into place
    decayed,    \* history: it has been damaged there
    brought,    \* history: the data installations have been given
    shared,     \* history: two installers, or a recovery, have worked at once
    cut         \* history: a kill or a full disk has stopped one of them

history == <<placed, decayed, brought, shared, cut>>
installVars == <<file, manifest, step, work, recovery, history>>

InstallSteps == {"idle", "create", "fill", "verify", "rename", "describe", "close"}

InstallTypeOK ==
    /\ file \in [{"tmp", "dest"} -> Contents]
    /\ manifest \in Contents
    /\ step \in [Installers -> InstallSteps]
    /\ work \in [Installers -> [version : Versions \cup {NoFile}, data : Contents, at : Places]]
    /\ recovery \in [step : {"idle", "compare", "remove", "forget"}, version : Contents]
    /\ placed \in Versions \cup {NoFile}
    /\ decayed \in BOOLEAN
    /\ brought \subseteq Contents
    /\ shared \in BOOLEAN /\ cut \in BOOLEAN

-----------------------------------------------------------------------------
(* atomic_install_model *)

NoWork == [version |-> NoFile, data |-> NoFile, at |-> "gone"]

Move(i, next) == step' = [step EXCEPT ![i] = next]

Leave(i) == Move(i, "idle") /\ work' = [work EXCEPT ![i] = NoWork]

\* Whoever has the file open keeps it, but it has lost its name.
Unlinked(p) == [i \in Installers |-> [work[i] EXCEPT !.at = IF @ = p THEN "gone" ELSE @]]

Others(i) == recovery.step # "idle" \/ \E j \in Installers \ {i} : step[j] # "idle"

\* An installation starts with data that may have been damaged on their way.
BeginInstall(i) ==
    /\ step[i] = "idle"
    /\ \E v \in Versions : \E d \in {v, Mixed} :
          work' = [work EXCEPT ![i] = [version |-> v, data |-> d, at |-> "tmp"]]
    /\ Move(i, "create")
    /\ brought' = brought \cup {work'[i].data}
    /\ shared' = (shared \/ Others(i))
    /\ UNCHANGED <<file, manifest, recovery, placed, decayed, cut>>

\* Faulty: the model is written in its place.
TmpInPlace == "dest"

Tmp == "tmp"

(* fs::write truncates the temporary file, which another may have open...  *)
Create(i) ==
    /\ step[i] = "create"
    /\ file' = [file EXCEPT ![Tmp] = Partial]
    /\ work' = [work EXCEPT ![i].at = Tmp]
    /\ Move(i, "fill")
    /\ UNCHANGED <<manifest, recovery, history>>

Mix(old, new) == {new} \cup (IF old \in {Partial, new} THEN {} ELSE {Mixed})

(* ... and fills it, wherever it now is. *)
Fill(i) ==
    LET p == work[i].at IN
    /\ step[i] = "fill"
    /\ IF p = "gone"
       THEN UNCHANGED file
       ELSE \E c \in Mix(file[p], work[i].data) : file' = [file EXCEPT ![p] = c]
    /\ Move(i, "verify")
    /\ UNCHANGED <<manifest, work, recovery, history>>

(* The disk is full. *)
WriteFails(i) ==
    /\ step[i] \in {"create", "fill", "describe", "close"}
    /\ Leave(i)
    /\ cut' = TRUE
    /\ UNCHANGED <<file, manifest, recovery, placed, decayed, brought, shared>>

Matches(i) == work[i].version \in Pinned => file["tmp"] = work[i].version

(* verify_checksum reads the file back, if there is a checksum.  One that  *)
(* is not there is an error; one that differs is removed.                  *)
Verify(i) ==
    /\ step[i] = "verify"
    /\ IF Matches(i)
       THEN Move(i, "rename") /\ UNCHANGED <<file, work>>
       ELSE /\ Move(i, "idle")
            /\ file' = [file EXCEPT !["tmp"] = NoFile]
            /\ work' = [Unlinked("tmp") EXCEPT ![i] = NoWork]
    /\ UNCHANGED <<manifest, recovery, history>>

(* The file cannot be read back, or not be removed, which nobody notices:  *)
(* it stays.                                                               *)
VerifyFails(i) ==
    /\ step[i] = "verify"
    /\ work[i].version \in Pinned
    /\ Leave(i)
    /\ UNCHANGED <<file, manifest, recovery, history>>

\* Faulty: the contents are copied.
MovedByCopy(p) == "gone"

\* Where a file opened at p is after the rename.
Moved(p) == IF p = "tmp" THEN "dest" ELSE "gone"

Rename(i) ==
    /\ step[i] = "rename"
    /\ IF file["tmp"] = NoFile
       THEN Leave(i) /\ UNCHANGED <<file, placed, decayed>>
       ELSE /\ file' = [tmp |-> NoFile, dest |-> file["tmp"]]
            /\ work' = [j \in Installers |-> [work[j] EXCEPT !.at = Moved(@)]]
            /\ placed' = work[i].version
            /\ decayed' = FALSE
            /\ Move(i, "describe")
    /\ UNCHANGED <<manifest, recovery, brought, shared, cut>>

\* Faulty: a manifest that is there is kept.
DescribeOnce(i) ==
    /\ step[i] = "describe"
    /\ IF manifest = NoFile
       THEN manifest' = Partial /\ Move(i, "close") /\ UNCHANGED work
       ELSE UNCHANGED manifest /\ Leave(i)
    /\ UNCHANGED <<file, recovery, history>>

(* The manifest is truncated and written. *)
Describe(i) ==
    /\ step[i] = "describe"
    /\ manifest' = Partial
    /\ Move(i, "close")
    /\ UNCHANGED <<file, work, recovery, history>>

\* Faulty: the manifest is left empty.
DescriptionEmpty(i) == Partial

\* Faulty: all there is to the installation is written.
DescriptionWhole(i) == work[i]

Description(i) == work[i].version

(* A recovery may have removed it under the open file. *)
CloseManifest(i) ==
    /\ step[i] = "close"
    /\ IF manifest = NoFile
       THEN UNCHANGED manifest
       ELSE \E c \in Mix(manifest, Description(i)) : manifest' = c
    /\ Leave(i)
    /\ UNCHANGED <<file, recovery, history>>

-----------------------------------------------------------------------------
(* recover_if_corrupted *)

Recovered == recovery' = [step |-> "idle", version |-> NoFile]

Recovering(next) == recovery' = [recovery EXCEPT !.step = next]

(* A manifest that is not there says nothing; one that does not parse is   *)
(* an error.                                                               *)
ReadManifest ==
    /\ recovery.step = "idle"
    /\ manifest \in Versions
    /\ recovery' = [step |-> "compare", version |-> manifest]
    /\ shared' = (shared \/ \E i \in Installers : step[i] # "idle")
    /\ UNCHANGED <<file, manifest, step, work, placed, decayed, brought, cut>>

Corrupted == recovery.version \in Pinned /\ file["dest"] \notin {NoFile, recovery.version}

CompareChecksum ==
    /\ recovery.step = "compare"
    /\ IF Corrupted THEN Recovering("remove") ELSE Recovered
    /\ UNCHANGED <<file, manifest, step, work, history>>

(* Neither removal's error is looked at: what is not removed stays, and    *)
(* the recovery goes on.                                                   *)
RemoveModel ==
    /\ recovery.step = "remove"
    /\ \/ /\ file' = [file EXCEPT !["dest"] = NoFile]
          /\ work' = Unlinked("dest")
          /\ placed' = NoFile
       \/ UNCHANGED <<file, work, placed>>
    /\ Recovering("forget")
    /\ UNCHANGED <<manifest, step, decayed, brought, shared, cut>>

RemoveManifest ==
    /\ recovery.step = "forget"
    /\ manifest' \in {NoFile, manifest}
    /\ Recovered
    /\ UNCHANGED <<file, step, work, history>>

-----------------------------------------------------------------------------
(* The rest of the world *)

(* The disk, or the user, damages the model. *)
Decay ==
    /\ file["dest"] \in Versions
    /\ file' = [file EXCEPT !["dest"] = Mixed]
    /\ decayed' = TRUE
    /\ UNCHANGED <<manifest, step, work, recovery, placed, brought, shared, cut>>

(* All that is running is killed. *)
KillAll ==
    /\ step' = [i \in Installers |-> "idle"]
    /\ work' = [i \in Installers |-> NoWork]
    /\ Recovered
    /\ cut' = (cut \/ recovery.step # "idle" \/ \E i \in Installers : step[i] # "idle")
    /\ UNCHANGED <<file, manifest, placed, decayed, brought, shared>>

InstallInit ==
    /\ file = [tmp |-> NoFile, dest |-> NoFile]
    /\ manifest = NoFile
    /\ step = [i \in Installers |-> "idle"]
    /\ work = [i \in Installers |-> NoWork]
    /\ recovery = [step |-> "idle", version |-> NoFile]
    /\ placed = NoFile /\ decayed = FALSE
    /\ brought = {}
    /\ shared = FALSE /\ cut = FALSE

InstallStep(i) ==
    \/ BeginInstall(i) \/ Create(i) \/ Fill(i) \/ WriteFails(i) \/ Verify(i)
    \/ VerifyFails(i) \/ Rename(i) \/ Describe(i) \/ CloseManifest(i)

InstallNext ==
    \/ \E i \in Installers : InstallStep(i)
    \/ ReadManifest \/ CompareChecksum \/ RemoveModel \/ RemoveManifest
    \/ Decay \/ KillAll

InstallSpec == InstallInit /\ [][InstallNext]_installVars

-----------------------------------------------------------------------------
(* Properties *)

Resting == recovery.step = "idle" /\ \A i \in Installers : step[i] = "idle"

(* "Atomic model update" (models.rs:179), for one installer at a time: at  *)
(* every step, kills and full disks included, the model is the version     *)
(* last put in place, as a whole, or there is none; it is damaged only if  *)
(* it has been since, or if the manifest has no checksum to compare.       *)
AtomicUpdate ==
    ~shared =>
        \/ file["dest"] = placed
        \/ file["dest"] = Mixed /\ placed # NoFile /\ (decayed \/ placed \notin Pinned)

(* A recovery removes only a damaged model.  Not so after an installation  *)
(* stopped between the rename and the manifest: then the manifest is the   *)
(* old one, and the recovery removes the good new model.                   *)
RecoverySound ==
    ~shared /\ ~cut /\ recovery.step = "remove" => file["dest"] = Mixed

(* An installation that ends well leaves its version and its manifest,     *)
(* whatever an earlier one has left behind: a torn manifest, which         *)
(* recover_if_corrupted cannot get past (models.rs:213), or a partial      *)
(* temporary file.                                                         *)
InstallRepairs ==
    [][\A i \in Installers :
          ~shared /\ CloseManifest(i) =>
              manifest' = work[i].version /\ placed = work[i].version]_installVars

(* Installers of one model at once write the same temporary file, and one  *)
(* of them may fail; with undamaged data and no kill or full disk, what    *)
(* they and a recovery leave behind is the whole model or none.            *)
SameModelShared ==
    \A v \in Versions :
        brought \subseteq {v} /\ ~cut /\ ~decayed /\ Resting =>
            file["dest"] \in {NoFile, v} /\ manifest \in {NoFile, v}

=============================================================================
