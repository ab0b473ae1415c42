----------------------------- MODULE Operation -----------------------------
(***************************************************************************)
(* The executor and the undo journal of broomed-core (operation.rs) as the *)
(* desktop shell drives them (execute_plan and undo_last of main.rs).      *)
(*                                                                         *)
(* A process is one run of the application.  Its commands are synchronous, *)
(* so it runs one at a time; each file-system call and each SQL statement  *)
(* is a step of its own, and everything else - other processes, the user's *)
(* edits, an I/O error, a kill - may happen between two of them.           *)
(***************************************************************************)
EXTENDS Naturals, FiniteSets

CONSTANTS
    Procs,          \* running instances of the application
    Ops,            \* operation identifiers (UUIDs drawn by the planner)
    Paths,          \* absolute paths the plans can name
    Files,          \* file contents, told apart by their BLAKE3 hash
    NoFile,         \* what is found at a path that does not exist
    Torn,           \* a file whose contents are incomplete or corrupted
    NoPath,         \* source and destination of an operation not planned yet
    NoOp,           \* no operation is being worked on
    CheckedPlanner, \* plans come from plan_move, not from main.rs
    Faults,         \* I/O errors, corrupted writes and kills may happen
    Interference,   \* the user edits files while a command runs
    MaxEdits,       \* bound on the number of the user's edits
    MaxUndo         \* bound on the count given to undo_last

ASSUME ConstantsAssumption ==
    /\ NoFile \notin Files /\ Torn \notin Files /\ NoFile # Torn
    /\ NoPath \notin Paths /\ NoOp \notin Ops
    /\ CheckedPlanner \in BOOLEAN /\ Faults \in BOOLEAN /\ Interference \in BOOLEAN
    /\ MaxEdits \in Nat /\ MaxUndo \in Nat

VARIABLES
    fs,             \* what is found at each path
    source,         \* Operation.source of each planned operation
    destination,    \* Operation.destination of each planned operation
    rowid,          \* rowid of each operation's journal row, 0 for none
    status,         \* the row's status column
    lastRowid,      \* greatest rowid of the table
    cmd,            \* the command a process runs
    todo,           \* the operations it still has to work on
    cur,            \* the operation it works on
    pc,             \* the step it is about to take
    hash,           \* pre_hash: what the file hashed to before the move,
                    \* NoFile for None
    data,           \* what an open copy has read
    moved,          \* history: the file an operation moved, NoFile for none
    home,           \* history: where the user has put each file
    known,          \* history: files that have come into being
    deleted,        \* history: files the user has deleted
    edits           \* number of the user's edits so far

fileVars    == <<fs>>
planVars    == <<source, destination>>
journalVars == <<rowid, status, lastRowid>>
procVars    == <<cmd, todo, cur, pc, hash, data>>
userVars    == <<home, known, deleted, edits>>
vars == <<fs, source, destination, rowid, status, lastRowid,
          cmd, todo, cur, pc, hash, data, moved, home, known, deleted, edits>>

Entries  == Files \cup {NoFile, Torn}
Statuses == {"none", "planned", "executed", "undone"}
Steps    == {"idle", "next", "check", "hash", "rename", "copy", "copying",
             "verifyCopy", "remove", "verifyRename", "mark"}

TypeOK ==
    /\ fs \in [Paths -> Entries]
    /\ source \in [Ops -> Paths \cup {NoPath}]
    /\ destination \in [Ops -> Paths \cup {NoPath}]
    /\ rowid \in [Ops -> Nat]
    /\ status \in [Ops -> Statuses]
    /\ lastRowid \in Nat
    /\ cmd \in [Procs -> {"none", "execute", "undo"}]
    /\ todo \in [Procs -> SUBSET Ops]
    /\ cur \in [Procs -> Ops \cup {NoOp}]
    /\ pc \in [Procs -> Steps]
    /\ hash \in [Procs -> Entries]
    /\ data \in [Procs -> Entries]
    /\ moved \in [Ops -> Entries]
    /\ home \in [Files -> SUBSET Paths]
    /\ known \in SUBSET Files
    /\ deleted \in SUBSET Files
    /\ edits \in Nat

-----------------------------------------------------------------------------
(* The user's files before the application runs: some paths hold a file,  *)
(* no two the same one.  The journal is new and nothing is planned.        *)
Init ==
    /\ fs \in [Paths -> Files \cup {NoFile}]
    /\ \A x, y \in Paths : fs[x] = fs[y] /\ fs[x] # NoFile => x = y
    /\ source = [o \in Ops |-> NoPath]
    /\ destination = [o \in Ops |-> NoPath]
    /\ rowid = [o \in Ops |-> 0]
    /\ status = [o \in Ops |-> "none"]
    /\ lastRowid = 0
    /\ cmd = [p \in Procs |-> "none"]
    /\ todo = [p \in Procs |-> {}]
    /\ cur = [p \in Procs |-> NoOp]
    /\ pc = [p \in Procs |-> "idle"]
    /\ hash = [p \in Procs |-> NoFile]
    /\ data = [p \in Procs |-> NoFile]
    /\ moved = [o \in Ops |-> NoFile]
    /\ home = [f \in Files |-> {x \in Paths : fs[x] = f}]
    /\ known = {f \in Files : \E x \in Paths : fs[x] = f}
    /\ deleted = {}
    /\ edits = 0

Exists(x)  == fs[x] # NoFile
Planned(o) == source[o] # NoPath

-----------------------------------------------------------------------------
(* Planning *)

(* What the planner requires of a pair of paths.  plan_move rejects a      *)
(* source that is gone and a destination that exists; the shell's          *)
(* plan_organize joins folder and file name and checks nothing: its source *)
(* is a file the scan has just listed.                                     *)
Plannable(s, d) ==
    /\ Exists(s)
    /\ CheckedPlanner => ~Exists(d)

(* The planner draws a fresh id and hands the operation to the front end,  *)
(* which keeps it for as long as it likes.                                 *)
Plan(o, s, d) ==
    /\ ~Planned(o)
    /\ Plannable(s, d)
    /\ source' = [source EXCEPT ![o] = s]
    /\ destination' = [destination EXCEPT ![o] = d]
    /\ UNCHANGED <<fileVars, journalVars, procVars, userVars, moved>>

-----------------------------------------------------------------------------
(* Commands *)

(* execute_plan: the previews the user approved, in an order the steps     *)
(* below leave open (any order is a batch the front end can send).         *)
ExecutePlan(p, batch) ==
    /\ pc[p] = "idle"
    /\ batch # {}
    /\ \A o \in batch : Planned(o)
    /\ cmd' = [cmd EXCEPT ![p] = "execute"]
    /\ todo' = [todo EXCEPT ![p] = batch]
    /\ pc' = [pc EXCEPT ![p] = "next"]
    /\ UNCHANGED <<fileVars, planVars, journalVars, cur, hash, data, userVars, moved>>

LiveRow(o) == rowid[o] # 0 /\ status[o] # "undone"

(* SELECT id ... WHERE status != 'undone' ORDER BY rowid DESC LIMIT n.     *)
LatestIds(n) ==
    {o \in Ops : /\ LiveRow(o)
                 /\ Cardinality({q \in Ops : LiveRow(q) /\ rowid[q] > rowid[o]}) < n}

(* undo_last(n): the ids are listed once and then undone one by one. *)
UndoLast(p, n) ==
    /\ pc[p] = "idle"
    /\ cmd' = [cmd EXCEPT ![p] = "undo"]
    /\ todo' = [todo EXCEPT ![p] = LatestIds(n)]
    /\ pc' = [pc EXCEPT ![p] = "next"]
    /\ UNCHANGED <<fileVars, planVars, journalVars, cur, hash, data, userVars, moved>>

(* The command is over: process p keeps nothing of it. *)
Idle(p) ==
    /\ cmd' = [cmd EXCEPT ![p] = "none"]
    /\ todo' = [todo EXCEPT ![p] = {}]
    /\ cur' = [cur EXCEPT ![p] = NoOp]
    /\ pc' = [pc EXCEPT ![p] = "idle"]
    /\ hash' = [hash EXCEPT ![p] = NoFile]
    /\ data' = [data EXCEPT ![p] = NoFile]

(* `?`: the first error ends the batch and undoes nothing of it. *)
Fail(p) == Idle(p) /\ UNCHANGED <<fileVars, planVars, journalVars, userVars, moved>>

Finish(p) ==
    /\ pc[p] = "next"
    /\ todo[p] = {}
    /\ Idle(p)
    /\ UNCHANGED <<fileVars, planVars, journalVars, userVars, moved>>

-----------------------------------------------------------------------------
(* One operation of the batch *)

(* Faulty: INSERT OR REPLACE. *)
JournaledReplacing(o) == FALSE

(* The row's id is the primary key of the table. *)
Journaled(o) == rowid[o] # 0

Goto(p, step) == pc' = [pc EXCEPT ![p] = step]

Take(p, o) ==
    /\ cur' = [cur EXCEPT ![p] = o]
    /\ todo' = [todo EXCEPT ![p] = @ \ {o}]

(* Faulty: a failed INSERT is ignored. *)
InsertIgnored(o) == UNCHANGED journalVars

(* Journal::record: INSERT before the file is touched. *)
Insert(o) ==
    /\ rowid' = [rowid EXCEPT ![o] = lastRowid + 1]
    /\ status' = [status EXCEPT ![o] = "planned"]
    /\ lastRowid' = lastRowid + 1

Record(p, o) ==
    /\ pc[p] = "next" /\ cmd[p] = "execute" /\ o \in todo[p]
    /\ ~Journaled(o)
    /\ Insert(o)
    /\ Take(p, o)
    /\ Goto(p, "check")
    /\ UNCHANGED <<fileVars, planVars, cmd, hash, data, userVars, moved>>

RecordFails(p, o) ==
    /\ pc[p] = "next" /\ cmd[p] = "execute" /\ o \in todo[p]
    /\ Journaled(o)
    /\ Fail(p)

(* undo_last takes the ids newest first; undo reads the row, not its       *)
(* status.                                                                 *)
SelectRow(p, o) ==
    /\ pc[p] = "next" /\ cmd[p] = "undo" /\ o \in todo[p]
    /\ \A q \in todo[p] : rowid[q] <= rowid[o]
    /\ Take(p, o)
    /\ Goto(p, "check")
    /\ UNCHANGED <<fileVars, planVars, journalVars, cmd, hash, data, userVars, moved>>

(* execute moves source to destination, undo moves it back. *)
From(p) == IF cmd[p] = "execute" THEN source[cur[p]] ELSE destination[cur[p]]
To(p)   == IF cmd[p] = "execute" THEN destination[cur[p]] ELSE source[cur[p]]

(* Faulty: the target is not looked at. *)
MovableOverwriting(p) == From(p) # To(p) /\ Exists(From(p))

(* Both reject a pair whose target exists or whose origin is missing. *)
Movable(p) == From(p) # To(p) /\ ~Exists(To(p)) /\ Exists(From(p))

CheckPaths(p) ==
    /\ pc[p] = "check"
    /\ Movable(p)
    /\ Goto(p, "hash")
    /\ UNCHANGED <<fileVars, planVars, journalVars, cmd, todo, cur, hash, data, userVars, moved>>

CheckFails(p) ==
    /\ pc[p] = "check"
    /\ ~Movable(p)
    /\ Fail(p)

(* pre_hash.  A file that has vanished since the check has none, and the   *)
(* call goes on without...                                                 *)
HashFile(p) ==
    /\ pc[p] = "hash"
    /\ hash' = [hash EXCEPT ![p] = fs[From(p)]]
    /\ Goto(p, "rename")
    /\ UNCHANGED <<fileVars, planVars, journalVars, cmd, todo, cur, data, userVars, moved>>

(* ... unless it vanishes between is_file and the reading. *)
HashFails(p) ==
    /\ pc[p] = "hash"
    /\ ~Exists(From(p))
    /\ Fail(p)

(* The current operation has moved f (an undo leaves the history alone). *)
Moves(p, f) ==
    moved' = IF cmd[p] = "execute" THEN [moved EXCEPT ![cur[p]] = f] ELSE moved

(* rename(2) replaces a file that has appeared at the target since the     *)
(* check.                                                                  *)
Rename(p) ==
    /\ pc[p] = "rename"
    /\ Exists(From(p))
    /\ fs' = [fs EXCEPT ![From(p)] = NoFile, ![To(p)] = fs[From(p)]]
    /\ Moves(p, fs[From(p)])
    /\ Goto(p, "verifyRename")
    /\ UNCHANGED <<planVars, journalVars, cmd, todo, cur, hash, data, userVars>>

(* Any error - another device, no permission, no source - leads to the     *)
(* copy.                                                                   *)
RenameFails(p) ==
    /\ pc[p] = "rename"
    /\ Goto(p, "copy")
    /\ UNCHANGED <<fileVars, planVars, journalVars, cmd, todo, cur, hash, data, userVars, moved>>

(* Faulty: the target is not hashed. *)
VerifiedUnhashed(p) == Exists(To(p))

(* verify_destination, and the same of a copy: the target is there, and    *)
(* its hash is pre_hash if there is one.  Otherwise it stays as it is.     *)
Verified(p) == Exists(To(p)) /\ hash[p] \in {NoFile, fs[To(p)]}

VerifyRename(p) ==
    /\ pc[p] = "verifyRename"
    /\ Verified(p)
    /\ Goto(p, "mark")
    /\ UNCHANGED <<fileVars, planVars, journalVars, cmd, todo, cur, hash, data, userVars, moved>>

VerifyRenameFails(p) ==
    /\ pc[p] = "verifyRename"
    /\ ~Verified(p)
    /\ Fail(p)

(* std::fs::copy opens the origin, then creates or truncates the target... *)
CopyStart(p) ==
    /\ pc[p] = "copy"
    /\ Exists(From(p))
    /\ data' = [data EXCEPT ![p] = fs[From(p)]]
    /\ fs' = [fs EXCEPT ![To(p)] = Torn]
    /\ Goto(p, "copying")
    /\ UNCHANGED <<planVars, journalVars, cmd, todo, cur, hash, userVars, moved>>

CopyStartFails(p) ==
    /\ pc[p] = "copy"
    /\ ~Exists(From(p))
    /\ Fail(p)

(* ... and fills it, wherever it still is; a fault may corrupt what is     *)
(* written without an error.                                               *)
CopyEnd(p) ==
    /\ pc[p] = "copying"
    /\ \E written \in {data[p]} \cup (IF Faults THEN {Torn} ELSE {}) :
          fs' = [fs EXCEPT ![To(p)] = IF Exists(To(p)) THEN written ELSE NoFile]
    /\ Goto(p, "verifyCopy")
    /\ UNCHANGED <<planVars, journalVars, cmd, todo, cur, hash, data, userVars, moved>>

VerifyCopy(p) ==
    /\ pc[p] = "verifyCopy"
    /\ Verified(p)
    /\ Goto(p, "remove")
    /\ UNCHANGED <<fileVars, planVars, journalVars, cmd, todo, cur, hash, data, userVars, moved>>

VerifyCopyFails(p) ==
    /\ pc[p] = "verifyCopy"
    /\ ~Verified(p)
    /\ Fail(p)

RemoveOrigin(p) ==
    /\ pc[p] = "remove"
    /\ Exists(From(p))
    /\ fs' = [fs EXCEPT ![From(p)] = NoFile]
    /\ Moves(p, data[p])
    /\ Goto(p, "mark")
    /\ UNCHANGED <<planVars, journalVars, cmd, todo, cur, hash, data, userVars>>

RemoveFails(p) ==
    /\ pc[p] = "remove"
    /\ ~Exists(From(p))
    /\ Fail(p)

(* Faulty: the command's name for its status; undo that keeps the status. *)
DoneStatusCommand(p) == cmd[p]
DoneStatusExecuted(p) == "executed"

(* UPDATE operations SET status = ... *)
DoneStatus(p) == IF cmd[p] = "execute" THEN "executed" ELSE "undone"

MarkDone(p) ==
    /\ pc[p] = "mark"
    /\ status' = [status EXCEPT ![cur[p]] = DoneStatus(p)]
    /\ cur' = [cur EXCEPT ![p] = NoOp]
    /\ hash' = [hash EXCEPT ![p] = NoFile]
    /\ data' = [data EXCEPT ![p] = NoFile]
    /\ Goto(p, "next")
    /\ UNCHANGED <<fileVars, planVars, rowid, lastRowid, cmd, todo, userVars, moved>>

(* An I/O or SQLite error of the current step, or a kill: files and        *)
(* journal stay as the steps so far have left them.                        *)
Abort(p) ==
    /\ Faults
    /\ pc[p] # "idle"
    /\ Fail(p)

-----------------------------------------------------------------------------
(* The user, outside the application *)

UserMay ==
    /\ edits < MaxEdits
    /\ Interference \/ \A p \in Procs : pc[p] = "idle"

UserSaves(f, x) ==
    /\ UserMay
    /\ f \notin known /\ ~Exists(x)
    /\ fs' = [fs EXCEPT ![x] = f]
    /\ known' = known \cup {f}
    /\ home' = [home EXCEPT ![f] = {x}]
    /\ edits' = edits + 1
    /\ UNCHANGED <<planVars, journalVars, procVars, deleted, moved>>

UserDeletes(x) ==
    /\ UserMay
    /\ fs[x] \in Files
    /\ fs' = [fs EXCEPT ![x] = NoFile]
    /\ deleted' = deleted \cup {fs[x]}
    /\ edits' = edits + 1
    /\ UNCHANGED <<planVars, journalVars, procVars, home, known, moved>>

UserMoves(x, y) ==
    /\ UserMay
    /\ fs[x] \in Files /\ ~Exists(y)
    /\ fs' = [fs EXCEPT ![x] = NoFile, ![y] = fs[x]]
    /\ home' = [home EXCEPT ![fs[x]] = (@ \ {x}) \cup {y}]
    /\ edits' = edits + 1
    /\ UNCHANGED <<planVars, journalVars, procVars, known, deleted, moved>>

-----------------------------------------------------------------------------
(* A running command's next step: exactly one is enabled unless a rename   *)
(* may fail or the batch leaves a choice.                                  *)
Step(p) ==
    \/ Finish(p)
    \/ \E o \in Ops : Record(p, o) \/ RecordFails(p, o) \/ SelectRow(p, o)
    \/ CheckPaths(p) \/ CheckFails(p)
    \/ HashFile(p) \/ HashFails(p)
    \/ Rename(p) \/ RenameFails(p)
    \/ VerifyRename(p) \/ VerifyRenameFails(p)
    \/ CopyStart(p) \/ CopyStartFails(p) \/ CopyEnd(p)
    \/ VerifyCopy(p) \/ VerifyCopyFails(p)
    \/ RemoveOrigin(p) \/ RemoveFails(p)
    \/ MarkDone(p)

Next ==
    \/ \E o \in Ops : \E s, d \in Paths : Plan(o, s, d)
    \/ \E p \in Procs :
          \/ \E batch \in SUBSET Ops : ExecutePlan(p, batch)
          \/ \E n \in 1..MaxUndo : UndoLast(p, n)
          \/ Step(p)
          \/ Abort(p)
    \/ \E f \in Files, x \in Paths : UserSaves(f, x)
    \/ \E x \in Paths : UserDeletes(x)
    \/ \E x, y \in Paths : UserMoves(x, y)

Spec == Init /\ [][Next]_vars

-----------------------------------------------------------------------------
(* Properties *)

(* One instance runs, and the user keeps off the files while it works.     *)
SoleWriter == (\A p, q \in Procs : p = q) /\ ~Interference

(* p is executing an operation and has not moved its file yet. *)
Executing(p) ==
    /\ cmd[p] = "execute"
    /\ pc[p] \in {"check", "hash", "rename", "copy", "copying", "verifyCopy", "remove"}

(* Every file that has come into being and that the user has not deleted   *)
(* is found intact somewhere, whatever fails and whenever the application  *)
(* is killed: execute and undo remove the origin only after the target has *)
(* been verified (operation.rs:118-147 and 390-413).  Holds for a          *)
(* SoleWriter.                                                             *)
NoLoss == \A f \in known \ deleted : \E x \in Paths : fs[x] = f

(* Where each file is found intact. *)
Store == INSTANCE FileStore WITH
             at <- [f \in Files |-> {x \in Paths : fs[x] = f}], edits <- edits

(* Each step of the executor moves a file, copies it to a vacant path,     *)
(* drops a verified duplicate or leaves the files alone, through failed    *)
(* copies, aborted batches and kills: it implements FileStore.             *)
ImplementsStore == Store!Spec

(* A path that holds a file is emptied before it holds another one: "No    *)
(* overwrites - plan_move and execute reject if destination exists"        *)
(* (README.md:76).  The check and the rename are two steps, and rename(2)  *)
(* replaces what appeared in between: two processes break it.              *)
NoOverwrite ==
    [][\A x \in Paths : fs[x] \in Files => fs'[x] \in {fs[x], NoFile}]_vars

(* Whatever moves a file away from where the user put it is in the journal *)
(* first: after a kill or an error at any step, with any number of         *)
(* processes, a displaced file lies at a path some row names               *)
(* (operation.rs:268, "record before execute so undo can recover").        *)
Accounted ==
    \A x \in Paths : fs[x] \in Files /\ x \notin home[fs[x]] =>
        \E o \in Ops : rowid[o] # 0 /\ x \in {source[o], destination[o]}

(* An operation is executed at most once, however often its preview is     *)
(* approved, retried or sent by two processes, and whatever became of the  *)
(* first attempt: the primary key of the journal stops the second INSERT   *)
(* (operation.rs:272, 327).                                                *)
AtMostOnce ==
    \A p \in Procs : Executing(p) =>
        /\ moved[cur[p]] = NoFile
        /\ \A q \in Procs \ {p} : Executing(q) => cur[q] # cur[p]

Quiet == \A p \in Procs : pc[p] = "idle"

(* A row whose operation failed before it moved anything stays "planned".  *)
Phantom(o) == rowid[o] # 0 /\ moved[o] = NoFile

TopRow(o) == LiveRow(o) /\ \A q \in Ops : LiveRow(q) => rowid[q] <= rowid[o]

(* The checks undo makes of a row, and the file it is meant to bring back. *)
PassesUndo(o) == Exists(destination[o]) /\ ~Exists(source[o])
HoldsMoved(o) == fs[destination[o]] = moved[o]

(* "... a journaled history so every change can be undone" (README.md:12): *)
(* between commands, if some executed change has not been undone, the row  *)
(* undo_last tries first can be undone.  The code does not keep this: an   *)
(* operation that failed leaves a row that undo_last tries first, and its  *)
(* error keeps the executed rows below it out of reach.                    *)
UndoNotBlocked ==
    Quiet /\ (\E o \in Ops : status[o] = "executed") =>
        \A o \in Ops : TopRow(o) => PassesUndo(o)

(* What it does keep, while nobody else edits the files and no I/O fails:  *)
(* as long as no operation has failed, undo_last finds the newest row's    *)
(* own file at its destination and the old place free, through any         *)
(* sequence of plans, batches and undos (last in, first out).              *)
UndoReady ==
    Quiet /\ (\A o \in Ops : ~Phantom(o)) =>
        \A o \in Ops : TopRow(o) => PassesUndo(o) /\ HoldsMoved(o)

=============================================================================
