-------------------------- MODULE Operation_proofs --------------------------
(***************************************************************************)
(* Proofs about the executor and its journal, for any number of processes, *)
(* operations, paths and files, with or without faults.                    *)
(***************************************************************************)
EXTENDS Operation, FiniteSetTheorems, TLAPS

-----------------------------------------------------------------------------
(* Type correctness.  TypeOK alone is not inductive: what a step writes    *)
(* depends on the paths of the current operation, so the strengthening     *)
(* says that whatever a command works on has been planned, and that an     *)
(* operation in progress is journaled.                                     *)
Working(p) == pc[p] \notin {"idle", "next"}

WellFormed ==
    /\ \A o \in Ops : Planned(o) => destination[o] \in Paths
    /\ \A o \in Ops : Journaled(o) => Planned(o)
    /\ \A p \in Procs : \A o \in todo[p] :
          Planned(o) /\ (cmd[p] = "undo" => Journaled(o))
    /\ \A p \in Procs : Working(p) => cur[p] \in Ops /\ Journaled(cur[p])

TypeInv == TypeOK /\ WellFormed

(* The step of a process that only ends its command. *)
LEMMA FailKeepsTypeInv ==
    ASSUME TypeInv, NEW p \in Procs, Fail(p)
    PROVE  TypeInv'
<1>1. TypeOK'
  BY DEF TypeInv, TypeOK, Fail, Idle, fileVars, planVars, journalVars, userVars,
         Entries, Steps, Statuses
<1>2. WellFormed'
  BY DEF TypeInv, TypeOK, WellFormed, Working, Planned, Journaled, Fail, Idle,
         fileVars, planVars, journalVars, userVars
<1>3. QED
  BY <1>1, <1>2 DEF TypeInv

(* A step that only moves a process on. *)
LEMMA MoveOnKeepsTypeInv ==
    ASSUME TypeInv, NEW p \in Procs, NEW step \in Steps \ {"idle", "next"},
           Working(p), Goto(p, step),
           UNCHANGED <<fileVars, planVars, journalVars, cmd, todo, cur, hash, data,
                       userVars, moved>>
    PROVE  TypeInv'
<1>1. TypeOK'
  BY DEF TypeInv, TypeOK, Goto, fileVars, planVars, journalVars, userVars,
         Entries, Steps, Statuses
<1>2. WellFormed'
  BY DEF TypeInv, TypeOK, WellFormed, Working, Planned, Journaled, Goto,
         fileVars, planVars, journalVars, userVars
<1>3. QED
  BY <1>1, <1>2 DEF TypeInv

(* The paths of the operation in progress. *)
LEMMA PathsOfCurrent ==
    ASSUME TypeInv, NEW p \in Procs, Working(p)
    PROVE  /\ From(p) \in Paths /\ To(p) \in Paths
           /\ cur[p] \in Ops
           /\ {From(p), To(p)} = {source[cur[p]], destination[cur[p]]}
BY DEF TypeInv, TypeOK, WellFormed, Planned, Journaled, From, To

(* The steps of a command preserve the strengthened type invariant. *)
LEMMA StepKeepsTypeInv ==
    ASSUME TypeInv, NEW p \in Procs, Step(p)
    PROVE  TypeInv'
<1>1. CASE Finish(p)
  BY <1>1, FailKeepsTypeInv DEF Finish, Fail
<1>2. ASSUME NEW o \in Ops, Record(p, o)
      PROVE  TypeInv'
  <2>1. TypeOK'
    BY <1>2 DEF TypeInv, TypeOK, Record, Insert, Take, Goto, fileVars, planVars, userVars,
       Entries, Steps, Statuses
  <2>2. WellFormed'
    BY <1>2 DEF TypeInv, TypeOK, WellFormed, Working, Planned, Journaled, Record, Insert,
       Take, Goto, fileVars, planVars, userVars
  <2>3. QED
    BY <2>1, <2>2 DEF TypeInv
<1>3. ASSUME NEW o \in Ops, RecordFails(p, o)
      PROVE  TypeInv'
  BY <1>3, FailKeepsTypeInv DEF RecordFails
<1>4. ASSUME NEW o \in Ops, SelectRow(p, o)
      PROVE  TypeInv'
  <2>1. TypeOK'
    BY <1>4 DEF TypeInv, TypeOK, SelectRow, Take, Goto, fileVars, planVars, journalVars,
       userVars, Entries, Steps, Statuses
  <2>2. WellFormed'
    BY <1>4 DEF TypeInv, TypeOK, WellFormed, Working, Planned, Journaled, SelectRow, Take,
       Goto, fileVars, planVars, journalVars, userVars
  <2>3. QED
    BY <2>1, <2>2 DEF TypeInv
<1>5. CASE CheckPaths(p) \/ RenameFails(p) \/ VerifyRename(p) \/ VerifyCopy(p)
  BY <1>5, MoveOnKeepsTypeInv DEF CheckPaths, RenameFails, VerifyRename, VerifyCopy,
     Working, Steps
<1>6. CASE \/ CheckFails(p) \/ HashFails(p) \/ VerifyRenameFails(p) \/ CopyStartFails(p)
           \/ VerifyCopyFails(p) \/ RemoveFails(p)
  BY <1>6, FailKeepsTypeInv DEF CheckFails, HashFails, VerifyRenameFails, CopyStartFails,
     VerifyCopyFails, RemoveFails
<1>7. CASE HashFile(p)
  <2>1. From(p) \in Paths /\ To(p) \in Paths /\ cur[p] \in Ops
    BY <1>7, PathsOfCurrent DEF HashFile, Working
  <2>2. TypeOK'
    BY <1>7, <2>1 DEF TypeInv, TypeOK, HashFile, Goto, fileVars, planVars, journalVars,
       userVars, Entries, Steps, Statuses
  <2>3. WellFormed'
    BY <1>7 DEF TypeInv, TypeOK, WellFormed, Working, Planned, Journaled, HashFile, Goto,
       fileVars, planVars, journalVars, userVars
  <2>4. QED
    BY <2>2, <2>3 DEF TypeInv
<1>8. CASE Rename(p)
  <2>1. From(p) \in Paths /\ To(p) \in Paths /\ cur[p] \in Ops
    BY <1>8, PathsOfCurrent DEF Rename, Working
  <2>2. TypeOK'
    BY <1>8, <2>1 DEF TypeInv, TypeOK, Rename, Moves, Goto, planVars, journalVars,
       userVars, Entries, Steps, Statuses
  <2>3. WellFormed'
    BY <1>8 DEF TypeInv, TypeOK, WellFormed, Working, Planned, Journaled, Rename, Goto,
       planVars, journalVars, userVars
  <2>4. QED
    BY <2>2, <2>3 DEF TypeInv
<1>9. CASE CopyStart(p)
  <2>1. From(p) \in Paths /\ To(p) \in Paths /\ cur[p] \in Ops
    BY <1>9, PathsOfCurrent DEF CopyStart, Working
  <2>2. TypeOK'
    BY <1>9, <2>1 DEF TypeInv, TypeOK, CopyStart, Goto, planVars, journalVars,
       userVars, Entries, Steps, Statuses
  <2>3. WellFormed'
    BY <1>9 DEF TypeInv, TypeOK, WellFormed, Working, Planned, Journaled, CopyStart, Goto,
       planVars, journalVars, userVars
  <2>4. QED
    BY <2>2, <2>3 DEF TypeInv
<1>10. CASE CopyEnd(p)
  <2>1. From(p) \in Paths /\ To(p) \in Paths /\ cur[p] \in Ops
    BY <1>10, PathsOfCurrent DEF CopyEnd, Working
  <2>2. PICK written \in {data[p], Torn} :
          fs' = [fs EXCEPT ![To(p)] = IF Exists(To(p)) THEN written ELSE NoFile]
    BY <1>10 DEF CopyEnd
  <2>3. written \in Entries
    BY <2>2 DEF TypeInv, TypeOK, Entries
  <2>4. TypeOK'
    BY <1>10, <2>1, <2>2, <2>3 DEF TypeInv, TypeOK, CopyEnd, Goto, planVars, journalVars,
       userVars, Entries, Steps, Statuses
  <2>5. WellFormed'
    BY <1>10 DEF TypeInv, TypeOK, WellFormed, Working, Planned, Journaled, CopyEnd, Goto,
       planVars, journalVars, userVars
  <2>6. QED
    BY <2>4, <2>5 DEF TypeInv
<1>11. CASE RemoveOrigin(p)
  <2>1. From(p) \in Paths /\ To(p) \in Paths /\ cur[p] \in Ops
    BY <1>11, PathsOfCurrent DEF RemoveOrigin, Working
  <2>2. TypeOK'
    BY <1>11, <2>1 DEF TypeInv, TypeOK, RemoveOrigin, Moves, Goto, planVars, journalVars,
       userVars, Entries, Steps, Statuses
  <2>3. WellFormed'
    BY <1>11 DEF TypeInv, TypeOK, WellFormed, Working, Planned, Journaled, RemoveOrigin, Goto,
       planVars, journalVars, userVars
  <2>4. QED
    BY <2>2, <2>3 DEF TypeInv
<1>12. CASE MarkDone(p)
  <2>1. TypeOK'
    BY <1>12 DEF TypeInv, TypeOK, MarkDone, DoneStatus, Goto, fileVars, planVars,
       userVars, Entries, Steps, Statuses
  <2>2. WellFormed'
    BY <1>12 DEF TypeInv, TypeOK, WellFormed, Working, Planned, Journaled, MarkDone, Goto,
       fileVars, planVars, userVars
  <2>3. QED
    BY <2>1, <2>2 DEF TypeInv
<1>13. QED
  BY <1>1, <1>2, <1>3, <1>4, <1>5, <1>6, <1>7, <1>8, <1>9, <1>10, <1>11, <1>12 DEF Step

(* Planning, new commands and the user's edits preserve it too. *)
LEMMA NextKeepsTypeInv ==
    ASSUME TypeInv, [Next]_vars
    PROVE  TypeInv'
<1>1. ASSUME NEW o \in Ops, NEW s \in Paths, NEW d \in Paths, Plan(o, s, d)
      PROVE  TypeInv'
  <2>1. TypeOK'
    BY <1>1 DEF TypeInv, TypeOK, Plan, fileVars, journalVars, procVars, userVars,
       Entries, Steps, Statuses
  <2>2. WellFormed'
    BY <1>1, ConstantsAssumption DEF TypeInv, TypeOK, WellFormed, Working, Planned, Journaled,
       Plan, fileVars, journalVars, procVars, userVars
  <2>3. QED
    BY <2>1, <2>2 DEF TypeInv
<1>2. ASSUME NEW p \in Procs, NEW batch \in SUBSET Ops, ExecutePlan(p, batch)
      PROVE  TypeInv'
  <2>1. TypeOK'
    BY <1>2 DEF TypeInv, TypeOK, ExecutePlan, fileVars, planVars, journalVars, userVars,
       Entries, Steps, Statuses
  <2>2. WellFormed'
    BY <1>2 DEF TypeInv, TypeOK, WellFormed, Working, Planned, Journaled,
       ExecutePlan, fileVars, planVars, journalVars, userVars
  <2>3. QED
    BY <2>1, <2>2 DEF TypeInv
<1>3. ASSUME NEW p \in Procs, NEW n \in 1..MaxUndo, UndoLast(p, n)
      PROVE  TypeInv'
  <2>1. LatestIds(n) \subseteq {o \in Ops : Journaled(o)}
    BY DEF LatestIds, LiveRow, Journaled
  <2>2. TypeOK'
    BY <1>3, <2>1 DEF TypeInv, TypeOK, UndoLast, fileVars, planVars, journalVars, userVars,
       Entries, Steps, Statuses
  <2>3. WellFormed'
    BY <1>3, <2>1 DEF TypeInv, TypeOK, WellFormed, Working, Planned, Journaled,
       UndoLast, fileVars, planVars, journalVars, userVars
  <2>4. QED
    BY <2>2, <2>3 DEF TypeInv
<1>4. ASSUME NEW p \in Procs, Step(p)
      PROVE  TypeInv'
  BY <1>4, StepKeepsTypeInv
<1>5. ASSUME NEW p \in Procs, Abort(p)
      PROVE  TypeInv'
  BY <1>5, FailKeepsTypeInv DEF Abort
<1>6. ASSUME NEW f \in Files, NEW x \in Paths,
             UserSaves(f, x) \/ UserDeletes(x) \/ \E y \in Paths : UserMoves(x, y)
      PROVE  TypeInv'
  <2>1. TypeOK'
    BY <1>6 DEF TypeInv, TypeOK, UserSaves, UserDeletes, UserMoves, planVars, journalVars,
       procVars, Entries, Steps, Statuses
  <2>2. WellFormed'
    BY <1>6 DEF TypeInv, TypeOK, WellFormed, Working, Planned, Journaled,
       UserSaves, UserDeletes, UserMoves, planVars, journalVars, procVars
  <2>3. QED
    BY <2>1, <2>2 DEF TypeInv
<1>7. CASE UNCHANGED vars
  BY <1>7 DEF vars, TypeInv, TypeOK, WellFormed, Working, Planned, Journaled
<1>8. ASSUME NEW x \in Paths, UserDeletes(x) \/ \E y \in Paths : UserMoves(x, y)
      PROVE  TypeInv'
  <2>1. PICK f \in Files : f = fs[x]
    BY <1>8 DEF UserDeletes, UserMoves
  <2>2. QED
    BY <1>6, <1>8, <2>1
<1>9. QED
  BY <1>1, <1>2, <1>3, <1>4, <1>5, <1>6, <1>7, <1>8 DEF Next

LEMMA InitTypeInv == Init => TypeInv
BY DEF Init, TypeInv, TypeOK, WellFormed, Working, Planned, Journaled, Entries, Steps,
   Statuses

(* The variables keep their types, for any processes, faults and edits.    *)
THEOREM TypeCorrect == Spec => []TypeOK
<1>1. Init => TypeInv
  BY InitTypeInv
<1>2. TypeInv /\ [Next]_vars => TypeInv'
  BY NextKeepsTypeInv
<1>3. TypeInv => TypeOK
  BY DEF TypeInv
<1>4. QED
  BY <1>1, <1>2, <1>3, PTL DEF Spec

-----------------------------------------------------------------------------
(* What the steps have in common. *)

FileStep(p) == Rename(p) \/ CopyStart(p) \/ CopyEnd(p) \/ RemoveOrigin(p)

UserStep ==
    \/ \E f \in Files, x \in Paths : UserSaves(f, x)
    \/ \E x \in Paths : UserDeletes(x)
    \/ \E x, y \in Paths : UserMoves(x, y)

(* Only four steps of a process touch the files, and only they and a       *)
(* user's edit touch anything the history says about files.                *)
LEMMA OtherStepsLeaveFiles ==
    ASSUME TypeInv, [Next]_vars, ~UserStep, \A p \in Procs : ~FileStep(p)
    PROVE  /\ UNCHANGED <<fs, home, known, deleted, edits, moved>>
           /\ \A p \in Procs : data'[p] \in {data[p], NoFile}
<1>1. ASSUME NEW o \in Ops, NEW s \in Paths, NEW d \in Paths, Plan(o, s, d)
      PROVE  /\ UNCHANGED <<fs, home, known, deleted, edits, moved>>
             /\ \A p \in Procs : data'[p] \in {data[p], NoFile}
  BY <1>1 DEF Plan, fileVars, userVars, procVars
<1>2. ASSUME NEW p \in Procs,
             \/ \E batch \in SUBSET Ops : ExecutePlan(p, batch)
             \/ \E n \in 1..MaxUndo : UndoLast(p, n)
             \/ Abort(p)
      PROVE  /\ UNCHANGED <<fs, home, known, deleted, edits, moved>>
             /\ \A q \in Procs : data'[q] \in {data[q], NoFile}
  BY <1>2 DEF ExecutePlan, UndoLast, Abort, Fail, Idle, fileVars, userVars, TypeInv, TypeOK
<1>3. ASSUME NEW p \in Procs, Step(p)
      PROVE  /\ UNCHANGED <<fs, home, known, deleted, edits, moved>>
             /\ \A q \in Procs : data'[q] \in {data[q], NoFile}
  <2>1. CASE Finish(p) \/ \E o \in Ops : Record(p, o) \/ RecordFails(p, o) \/ SelectRow(p, o)
    BY <2>1 DEF Finish, Record, RecordFails, SelectRow, Fail, Idle, fileVars, userVars,
       TypeInv, TypeOK
  <2>2. CASE \/ CheckPaths(p) \/ CheckFails(p) \/ HashFile(p) \/ HashFails(p)
             \/ RenameFails(p) \/ VerifyRename(p) \/ VerifyRenameFails(p)
    BY <2>2 DEF CheckPaths, CheckFails, HashFile, HashFails, RenameFails, VerifyRename,
       VerifyRenameFails, Fail, Idle, fileVars, userVars, TypeInv, TypeOK
  <2>3. CASE \/ CopyStartFails(p) \/ VerifyCopy(p) \/ VerifyCopyFails(p) \/ RemoveFails(p)
             \/ MarkDone(p)
    BY <2>3 DEF CopyStartFails, VerifyCopy, VerifyCopyFails, RemoveFails, MarkDone, Fail, Idle,
       fileVars, userVars, TypeInv, TypeOK
  <2>4. QED
    BY <1>3, <2>1, <2>2, <2>3 DEF Step, FileStep
<1>4. CASE UNCHANGED vars
  BY <1>4 DEF vars
<1>5. QED
  BY <1>1, <1>2, <1>3, <1>4 DEF Next, UserStep

(* Rows are never deleted, and what a row says never changes. *)
LEMMA RowsStay ==
    ASSUME TypeInv, [Next]_vars, NEW o \in Ops, Journaled(o)
    PROVE  Journaled(o)' /\ source'[o] = source[o] /\ destination'[o] = destination[o]
<1>1. Planned(o)
  BY DEF TypeInv, WellFormed
<1>2. CASE \E q \in Ops : \E s, d \in Paths : Plan(q, s, d)
  BY <1>1, <1>2 DEF Plan, Planned, Journaled, journalVars, TypeInv, TypeOK
<1>3. ASSUME NEW p \in Procs,
             \/ \E batch \in SUBSET Ops : ExecutePlan(p, batch)
             \/ \E n \in 1..MaxUndo : UndoLast(p, n)
             \/ Abort(p)
      PROVE  UNCHANGED <<rowid, source, destination>>
  BY <1>3 DEF ExecutePlan, UndoLast, Abort, Fail, Idle, planVars, journalVars
<1>4. ASSUME NEW p \in Procs, NEW q \in Ops, Record(p, q)
      PROVE  Journaled(o)' /\ UNCHANGED <<source, destination>>
  BY <1>4 DEF Record, Insert, Journaled, planVars, TypeInv, TypeOK
<1>5. ASSUME NEW p \in Procs, Step(p), \A q \in Ops : ~Record(p, q)
      PROVE  UNCHANGED <<rowid, source, destination>>
  <2>1. CASE Finish(p) \/ \E q \in Ops : RecordFails(p, q) \/ SelectRow(p, q)
    BY <2>1 DEF Finish, RecordFails, SelectRow, Fail, planVars, journalVars
  <2>2. CASE \/ CheckPaths(p) \/ CheckFails(p) \/ HashFile(p) \/ HashFails(p)
             \/ Rename(p) \/ RenameFails(p) \/ VerifyRename(p) \/ VerifyRenameFails(p)
    BY <2>2 DEF CheckPaths, CheckFails, HashFile, HashFails, Rename, RenameFails, VerifyRename,
       VerifyRenameFails, Fail, planVars, journalVars
  <2>3. CASE \/ CopyStart(p) \/ CopyStartFails(p) \/ CopyEnd(p) \/ VerifyCopy(p)
             \/ VerifyCopyFails(p) \/ RemoveOrigin(p) \/ RemoveFails(p) \/ MarkDone(p)
    BY <2>3 DEF CopyStart, CopyStartFails, CopyEnd, VerifyCopy, VerifyCopyFails, RemoveOrigin,
       RemoveFails, MarkDone, Fail, planVars, journalVars
  <2>4. QED
    BY <1>5, <2>1, <2>2, <2>3 DEF Step
<1>6. CASE UserStep
  BY <1>6 DEF UserStep, UserSaves, UserDeletes, UserMoves, planVars, journalVars, Journaled
<1>7. CASE UNCHANGED vars
  BY <1>7 DEF vars, Journaled
<1>8. QED
  BY <1>2, <1>3, <1>4, <1>5, <1>6, <1>7 DEF Next, UserStep, Journaled

-----------------------------------------------------------------------------
(* Write-ahead journaling.  Accounted is inductive once it is known that   *)
(* the user's new files are new: nothing on disk and nothing in a copy's   *)
(* buffer is a file that has not come into being yet.                      *)
BuffersKnown ==
    /\ \A x \in Paths : fs[x] \in Files => fs[x] \in known
    /\ \A p \in Procs : data[p] \in Files => data[p] \in known

AccountedInv == Accounted /\ BuffersKnown

(* The paths a process touches are named by the row of its operation. *)
Named(x) == \E o \in Ops : rowid[o] # 0 /\ x \in {source[o], destination[o]}

LEMMA NamedStays ==
    ASSUME TypeInv, [Next]_vars, NEW x \in Paths, Named(x)
    PROVE  Named(x)'
<1>1. PICK o \in Ops : rowid[o] # 0 /\ x \in {source[o], destination[o]}
  BY DEF Named
<1>2. Journaled(o)' /\ source'[o] = source[o] /\ destination'[o] = destination[o]
  BY <1>1, RowsStay DEF Journaled
<1>3. QED
  BY <1>1, <1>2 DEF Named, Journaled

LEMMA TouchedIsNamed ==
    ASSUME TypeInv, NEW p \in Procs, Working(p)
    PROVE  Named(From(p)) /\ Named(To(p))
BY PathsOfCurrent DEF TypeInv, WellFormed, Named, Journaled

LEMMA NextKeepsAccounted ==
    ASSUME TypeInv, AccountedInv, [Next]_vars
    PROVE  AccountedInv'
<1>1. ASSUME NEW p \in Procs, FileStep(p)
      PROVE  AccountedInv'
  <2>1. Working(p) /\ UNCHANGED <<home, known>>
    BY <1>1 DEF FileStep, Working, Rename, CopyStart, CopyEnd, RemoveOrigin, userVars
  <2>2. From(p) \in Paths /\ To(p) \in Paths
    BY <2>1, PathsOfCurrent
  <2>3. \A x \in Paths : fs'[x] \in Files =>
            \/ fs'[x] = fs[x]
            \/ x = To(p) /\ fs'[x] \in known
    <3>1. CASE Rename(p)
      BY <3>1, <2>2, ConstantsAssumption DEF Rename, TypeInv, TypeOK, AccountedInv, BuffersKnown
    <3>2. CASE CopyStart(p)
      BY <3>2, <2>2, ConstantsAssumption DEF CopyStart, TypeInv, TypeOK
    <3>3. CASE CopyEnd(p)
      <4>1. PICK written \in {data[p], Torn} :
              fs' = [fs EXCEPT ![To(p)] = IF Exists(To(p)) THEN written ELSE NoFile]
        BY <3>3 DEF CopyEnd
      <4>2. QED
        BY <4>1, <2>2, ConstantsAssumption DEF TypeInv, TypeOK, AccountedInv, BuffersKnown
    <3>4. CASE RemoveOrigin(p)
      BY <3>4, <2>2, ConstantsAssumption DEF RemoveOrigin, TypeInv, TypeOK
    <3>5. QED
      BY <1>1, <3>1, <3>2, <3>3, <3>4 DEF FileStep
  <2>4. \A q \in Procs : data'[q] \in Files => data'[q] \in known
    BY <1>1, <2>2 DEF FileStep, Rename, CopyStart, CopyEnd, RemoveOrigin, TypeInv, TypeOK,
       AccountedInv, BuffersKnown
  <2>5. BuffersKnown'
    BY <2>1, <2>3, <2>4 DEF AccountedInv, BuffersKnown
  <2>6. ASSUME NEW x \in Paths, fs'[x] \in Files, x \notin home'[fs'[x]]
        PROVE  Named(x)'
    <3>1. Named(x)
      BY <2>1, <2>3, <2>6, TouchedIsNamed DEF AccountedInv, Accounted, Named
    <3>2. QED
      BY <3>1, NamedStays
  <2>7. QED
    BY <2>5, <2>6 DEF AccountedInv, Accounted, Named
<1>2. CASE UserStep
  <2>1. BuffersKnown'
    BY <1>2, ConstantsAssumption DEF UserStep, UserSaves, UserDeletes, UserMoves, TypeInv, TypeOK,
       AccountedInv, BuffersKnown, procVars
  <2>2. \A x \in Paths : fs'[x] \in Files /\ x \notin home'[fs'[x]] =>
            fs'[x] = fs[x] /\ x \notin home[fs[x]]
    BY <1>2, ConstantsAssumption DEF UserStep, UserSaves, UserDeletes, UserMoves, TypeInv, TypeOK,
       AccountedInv, BuffersKnown
  <2>3. QED
    BY <2>1, <2>2, NamedStays DEF AccountedInv, Accounted, Named
<1>3. CASE ~UserStep /\ \A p \in Procs : ~FileStep(p)
  <2>1. /\ UNCHANGED <<fs, home, known>>
        /\ \A p \in Procs : data'[p] \in {data[p], NoFile}
    BY <1>3, OtherStepsLeaveFiles
  <2>2. BuffersKnown'
    BY <2>1, ConstantsAssumption DEF AccountedInv, BuffersKnown
  <2>3. QED
    BY <2>1, <2>2, NamedStays DEF AccountedInv, Accounted, Named
<1>4. QED
  BY <1>1, <1>2, <1>3

(* A displaced file lies at a path that some row of the journal names,     *)
(* with any number of processes and whatever fails.                        *)
THEOREM DisplacedFilesAreJournaled == Spec => []Accounted
<1>1. Init => TypeInv
  BY InitTypeInv
<1>2. Init => AccountedInv
  BY ConstantsAssumption DEF Init, AccountedInv, Accounted, BuffersKnown
<1>3. TypeInv /\ AccountedInv /\ [Next]_vars => TypeInv' /\ AccountedInv'
  BY NextKeepsTypeInv, NextKeepsAccounted
<1>4. AccountedInv => Accounted
  BY DEF AccountedInv
<1>5. QED
  BY <1>1, <1>2, <1>3, <1>4, PTL DEF Spec

-----------------------------------------------------------------------------
(* At most one execution.  The strengthening says that an operation without *)
(* a row has moved nothing: the INSERT that starts an execution is the      *)
(* first one for its id.                                                    *)
OnceInv ==
    /\ AtMostOnce
    /\ \A o \in Ops : ~Journaled(o) => moved[o] = NoFile

(* Only Record starts an execution. *)
LEMMA ExecutionsContinue ==
    ASSUME TypeInv, [Next]_vars, \A p \in Procs, o \in Ops : ~Record(p, o), NEW q \in Procs,
           Executing(q)'
    PROVE  Executing(q) /\ cur'[q] = cur[q]
<1>1. ASSUME NEW p \in Procs,
             \/ \E batch \in SUBSET Ops : ExecutePlan(p, batch)
             \/ \E n \in 1..MaxUndo : UndoLast(p, n)
             \/ Abort(p)
      PROVE  Executing(q) /\ cur'[q] = cur[q]
  BY <1>1 DEF ExecutePlan, UndoLast, Abort, Fail, Idle, Executing, TypeInv, TypeOK
<1>2. ASSUME NEW p \in Procs, Step(p)
      PROVE  Executing(q) /\ cur'[q] = cur[q]
  <2>1. CASE \/ CheckPaths(p) \/ HashFile(p) \/ Rename(p) \/ RenameFails(p) \/ VerifyRename(p)
             \/ CopyStart(p) \/ CopyEnd(p) \/ VerifyCopy(p) \/ RemoveOrigin(p) \/ MarkDone(p)
    BY <2>1 DEF CheckPaths, HashFile, Rename, RenameFails, VerifyRename, CopyStart, CopyEnd,
       VerifyCopy, RemoveOrigin, MarkDone, Goto, Executing, TypeInv, TypeOK
  <2>2. CASE \/ CheckFails(p) \/ HashFails(p) \/ VerifyRenameFails(p) \/ CopyStartFails(p)
             \/ VerifyCopyFails(p) \/ RemoveFails(p)
    BY <2>2 DEF CheckFails, HashFails, VerifyRenameFails, CopyStartFails, VerifyCopyFails,
       RemoveFails, Fail, Idle, Executing, TypeInv, TypeOK
  <2>3. CASE Finish(p) \/ \E o \in Ops : RecordFails(p, o) \/ SelectRow(p, o)
    BY <2>3 DEF Finish, RecordFails, SelectRow, Take, Goto, Fail, Idle, Executing,
       TypeInv, TypeOK
  <2>4. QED
    BY <1>2, <2>1, <2>2, <2>3 DEF Step
<1>3. CASE UserStep \/ (\E o \in Ops : \E s, d \in Paths : Plan(o, s, d)) \/ UNCHANGED vars
  BY <1>3 DEF UserStep, UserSaves, UserDeletes, UserMoves, Plan, procVars, vars, Executing
<1>4. QED
  BY <1>1, <1>2, <1>3 DEF Next, UserStep

LEMMA NextKeepsOnce ==
    ASSUME TypeInv, OnceInv, [Next]_vars
    PROVE  OnceInv'
<1>1. ASSUME NEW p \in Procs, NEW o \in Ops, Record(p, o)
      PROVE  OnceInv'
  <2>1. \A q \in Procs : Executing(q) => cur[q] \in Ops /\ cur[q] # o
    BY <1>1 DEF TypeInv, WellFormed, Working, Executing, Record
  <2>2. moved[o] = NoFile /\ moved' = moved
    BY <1>1 DEF Record, OnceInv
  <2>3. \A q \in Procs \ {p} : (Executing(q)' <=> Executing(q)) /\ cur'[q] = cur[q]
    BY <1>1 DEF Record, Take, Goto, Executing, TypeInv, TypeOK
  <2>4. cur'[p] = o
    BY <1>1 DEF Record, Take, TypeInv, TypeOK
  <2>5. AtMostOnce'
    BY <2>1, <2>2, <2>3, <2>4 DEF OnceInv, AtMostOnce
  <2>6. \A q \in Ops : ~Journaled(q)' => moved'[q] = NoFile
    BY <1>1, <2>2 DEF OnceInv, Record, Insert, Journaled, TypeInv, TypeOK
  <2>7. QED
    BY <2>5, <2>6 DEF OnceInv
<1>2. ASSUME NEW p \in Procs, Rename(p) \/ RemoveOrigin(p)
      PROVE  OnceInv'
  <2>1. \A q \in Procs, o \in Ops : ~Record(q, o)
    BY <1>2 DEF Rename, RemoveOrigin, Record, Insert, journalVars, TypeInv, TypeOK
  <2>2. Working(p) /\ cur[p] \in Ops /\ Journaled(cur[p])
    BY <1>2 DEF Rename, RemoveOrigin, Working, TypeInv, WellFormed
  <2>3. ~Executing(p)'
    BY <1>2 DEF Rename, RemoveOrigin, Goto, Executing, TypeInv, TypeOK
  <2>4. \A o \in Ops : o # cur[p] \/ cmd[p] # "execute" => moved'[o] = moved[o]
    BY <1>2 DEF Rename, RemoveOrigin, Moves, TypeInv, TypeOK
  <2>5. \A q \in Procs : Executing(q)' =>
            /\ Executing(q) /\ cur'[q] = cur[q] /\ q # p
            /\ moved'[cur[q]] = NoFile
    <3>1. SUFFICES ASSUME NEW q \in Procs, Executing(q)'
                   PROVE  /\ Executing(q) /\ cur'[q] = cur[q] /\ q # p
                          /\ moved'[cur[q]] = NoFile
      OBVIOUS
    <3>2. Executing(q) /\ cur'[q] = cur[q] /\ q # p
      BY <2>1, <2>3, <3>1, ExecutionsContinue
    <3>3. cmd[p] = "execute" => Executing(p)
      BY <1>2 DEF Rename, RemoveOrigin, Executing
    <3>4. cur[q] \in Ops
      BY <3>2 DEF Executing, Working, TypeInv, WellFormed
    <3>5. QED
      BY <2>4, <3>2, <3>3, <3>4 DEF OnceInv, AtMostOnce
  <2>6. AtMostOnce'
    BY <2>5 DEF OnceInv, AtMostOnce
  <2>7. \A o \in Ops : ~Journaled(o)' => moved'[o] = NoFile
    BY <2>2, <2>4, RowsStay DEF OnceInv
  <2>8. QED
    BY <2>6, <2>7 DEF OnceInv
<1>3. ASSUME \A p \in Procs : ~Rename(p) /\ ~RemoveOrigin(p),
             \A p \in Procs, o \in Ops : ~Record(p, o)
      PROVE  OnceInv'
  <2>1. moved' = moved
    <3>1. CASE \E p \in Procs : CopyStart(p) \/ CopyEnd(p)
      BY <3>1 DEF CopyStart, CopyEnd
    <3>2. CASE UserStep
      BY <3>2 DEF UserStep, UserSaves, UserDeletes, UserMoves
    <3>3. CASE ~UserStep /\ \A p \in Procs : ~FileStep(p)
      BY <3>3, OtherStepsLeaveFiles
    <3>4. QED
      BY <1>3, <3>1, <3>2, <3>3 DEF FileStep
  <2>2. AtMostOnce'
    BY <1>3, <2>1, ExecutionsContinue DEF OnceInv, AtMostOnce
  <2>3. QED
    BY <2>1, <2>2, RowsStay DEF OnceInv
<1>4. QED
  BY <1>1, <1>2, <1>3

(* An operation is executed at most once, by whatever process and however  *)
(* often its preview is submitted.                                         *)
THEOREM ExecutedAtMostOnce == Spec => []AtMostOnce
<1>1. Init => TypeInv /\ OnceInv
  BY InitTypeInv DEF Init, OnceInv, AtMostOnce, Executing
<1>2. TypeInv /\ OnceInv /\ [Next]_vars => TypeInv' /\ OnceInv'
  BY NextKeepsTypeInv, NextKeepsOnce
<1>3. OnceInv => AtMostOnce
  BY DEF OnceInv
<1>4. QED
  BY <1>1, <1>2, <1>3, PTL DEF Spec

-----------------------------------------------------------------------------
(* No file is lost, for a sole writer.  The strengthening follows the one   *)
(* process through a move: from the check on the target is free, from the   *)
(* hash on the origin is the file that was hashed, while a copy runs the    *)
(* origin is whole, and the origin is removed only when both ends agree.    *)
InMove(p) ==
    /\ pc[p] \in {"hash", "rename", "copy"} =>
          From(p) # To(p) /\ fs[To(p)] = NoFile /\ fs[From(p)] # NoFile
    /\ pc[p] \in {"rename", "copy"} => hash[p] = fs[From(p)]
    /\ pc[p] \in {"copying", "verifyCopy", "remove"} =>
          From(p) # To(p) /\ fs[From(p)] = hash[p] /\ hash[p] # NoFile
    /\ pc[p] \in {"copying", "verifyCopy", "remove"} => data[p] = hash[p]
    /\ pc[p] = "copying" => fs[To(p)] = Torn
    /\ pc[p] = "verifyCopy" => fs[To(p)] \in {hash[p], Torn}
    /\ pc[p] = "remove" => fs[To(p)] = hash[p]

SafeInv == NoLoss /\ \A p \in Procs : InMove(p)

(* The paths of the operation in progress do not change under its feet. *)
LEMMA PathsStay ==
    ASSUME TypeInv, [Next]_vars, NEW p \in Procs, Working(p), cur'[p] = cur[p], cmd'[p] = cmd[p]
    PROVE  From(p)' = From(p) /\ To(p)' = To(p)
<1>1. cur[p] \in Ops /\ Journaled(cur[p])
  BY DEF TypeInv, WellFormed
<1>2. source'[cur[p]] = source[cur[p]] /\ destination'[cur[p]] = destination[cur[p]]
  BY <1>1, RowsStay
<1>3. QED
  BY <1>2 DEF From, To

(* Ending a command and starting one leave nothing in progress. *)
LEMMA AtRestInMove ==
    ASSUME NEW p \in Procs, pc[p] \in {"idle", "next", "check", "mark", "verifyRename"}
    PROVE  InMove(p)
BY DEF InMove

LEMMA StepKeepsInMove ==
    ASSUME SoleWriter, TypeInv, SafeInv, NEW p \in Procs, Step(p)
    PROVE  InMove(p)'
<1> DEFINE Rest == {"idle", "next", "check", "mark", "verifyRename"}
<1>0. [Next]_vars
  BY DEF Next
<1>1. CASE \/ Finish(p) \/ MarkDone(p)
           \/ \E o \in Ops : Record(p, o) \/ RecordFails(p, o) \/ SelectRow(p, o)
  <2>1. pc'[p] \in Rest
    BY <1>1 DEF Finish, MarkDone, Record, RecordFails, SelectRow, Fail, Idle, Goto, TypeInv, TypeOK
  <2>2. QED
    BY <2>1 DEF InMove
<1>2. CASE \/ CheckFails(p) \/ HashFails(p) \/ VerifyRename(p) \/ VerifyRenameFails(p)
           \/ CopyStartFails(p) \/ VerifyCopyFails(p) \/ RemoveFails(p)
           \/ Rename(p) \/ RemoveOrigin(p)
  <2>1. pc'[p] \in Rest
    BY <1>2 DEF CheckFails, HashFails, VerifyRename, VerifyRenameFails, CopyStartFails,
       VerifyCopyFails, RemoveFails, Rename, RemoveOrigin, Fail, Idle, Goto, TypeInv, TypeOK
  <2>2. QED
    BY <2>1 DEF InMove
<1>3. CASE CheckPaths(p) \/ HashFile(p) \/ RenameFails(p) \/ VerifyCopy(p)
  <2>1. From(p)' = From(p) /\ To(p)' = To(p)
    BY <1>0, <1>3, PathsStay DEF CheckPaths, HashFile, RenameFails, VerifyCopy, Working
  <2>2. CASE CheckPaths(p)
    BY <2>1, <2>2 DEF CheckPaths, Movable, Exists, Goto, fileVars, InMove, TypeInv, TypeOK
  <2>3. CASE HashFile(p)
    BY <2>1, <2>3 DEF HashFile, Exists, Goto, fileVars, InMove, SafeInv, TypeInv, TypeOK
  <2>4. CASE RenameFails(p)
    BY <2>1, <2>4 DEF RenameFails, Goto, fileVars, InMove, SafeInv, TypeInv, TypeOK
  <2>5. CASE VerifyCopy(p)
    BY <2>1, <2>5 DEF VerifyCopy, Verified, Goto, fileVars, InMove, SafeInv, TypeInv, TypeOK
  <2>6. QED
    BY <1>3, <2>2, <2>3, <2>4, <2>5
<1>4. CASE CopyStart(p) \/ CopyEnd(p)
  <2>1. From(p)' = From(p) /\ To(p)' = To(p)
    BY <1>0, <1>4, PathsStay DEF CopyStart, CopyEnd, Working
  <2>2. From(p) \in Paths /\ To(p) \in Paths
    BY <1>4, PathsOfCurrent DEF CopyStart, CopyEnd, Working
  <2>3. CASE CopyStart(p)
    BY <2>1, <2>2, <2>3 DEF CopyStart, Goto, InMove, SafeInv, TypeInv, TypeOK
  <2>4. CASE CopyEnd(p)
    <3>1. PICK written \in {data[p], Torn} :
            fs' = [fs EXCEPT ![To(p)] = IF Exists(To(p)) THEN written ELSE NoFile]
      BY <2>4 DEF CopyEnd
    <3>2. fs[To(p)] = Torn /\ data[p] = hash[p] /\ From(p) # To(p)
      BY <2>4 DEF CopyEnd, SafeInv, InMove
    <3>3. fs'[To(p)] \in {hash[p], Torn} /\ fs'[From(p)] = fs[From(p)]
      BY <2>2, <3>1, <3>2, ConstantsAssumption DEF Exists, TypeInv, TypeOK
    <3>4. QED
      BY <2>1, <2>4, <3>2, <3>3 DEF CopyEnd, Goto, InMove, SafeInv, TypeInv, TypeOK
  <2>5. QED
    BY <1>4, <2>3, <2>4
<1>5. QED
  BY <1>1, <1>2, <1>3, <1>4 DEF Step

(* The files stay where they are as far as NoLoss is concerned. *)
LEMMA FileStepsKeepFiles ==
    ASSUME TypeInv, SafeInv, NEW p \in Procs, FileStep(p), NEW f \in Files, NEW x \in Paths,
           fs[x] = f
    PROVE  \E y \in Paths : fs'[y] = f
<1>1. From(p) \in Paths /\ To(p) \in Paths
  BY PathsOfCurrent DEF FileStep, Rename, CopyStart, CopyEnd, RemoveOrigin, Working
<1>2. CASE Rename(p)
  BY <1>1, <1>2, ConstantsAssumption DEF Rename, SafeInv, InMove, TypeInv, TypeOK
<1>3. CASE CopyStart(p)
  BY <1>1, <1>3, ConstantsAssumption DEF CopyStart, SafeInv, InMove, TypeInv, TypeOK
<1>4. CASE CopyEnd(p)
  <2>1. PICK written \in {data[p], Torn} :
          fs' = [fs EXCEPT ![To(p)] = IF Exists(To(p)) THEN written ELSE NoFile]
    BY <1>4 DEF CopyEnd
  <2>2. QED
    BY <1>1, <1>4, <2>1, ConstantsAssumption DEF CopyEnd, SafeInv, InMove, TypeInv, TypeOK
<1>5. CASE RemoveOrigin(p)
  BY <1>1, <1>5, ConstantsAssumption DEF RemoveOrigin, SafeInv, InMove, TypeInv, TypeOK
<1>6. QED
  BY <1>2, <1>3, <1>4, <1>5 DEF FileStep

LEMMA NextKeepsSafe ==
    ASSUME SoleWriter, TypeInv, SafeInv, [Next]_vars
    PROVE  SafeInv'
<1>1. ASSUME NEW p \in Procs, FileStep(p)
      PROVE  NoLoss'
  <2>1. UNCHANGED <<known, deleted>>
    BY <1>1 DEF FileStep, Rename, CopyStart, CopyEnd, RemoveOrigin, userVars
  <2>2. QED
    BY <1>1, <2>1, FileStepsKeepFiles DEF SafeInv, NoLoss, TypeInv, TypeOK
<1>2. CASE UserStep
  <2>1. NoLoss'
    <3>1. CASE \E f \in Files, x \in Paths : UserSaves(f, x)
      BY <3>1, ConstantsAssumption DEF UserSaves, Exists, SafeInv, NoLoss, TypeInv, TypeOK
    <3>2. CASE \E x \in Paths : UserDeletes(x)
      BY <3>2 DEF UserDeletes, SafeInv, NoLoss, TypeInv, TypeOK
    <3>3. CASE \E x, y \in Paths : UserMoves(x, y)
      BY <3>3, ConstantsAssumption DEF UserMoves, Exists, SafeInv, NoLoss, TypeInv, TypeOK
    <3>4. QED
      BY <1>2, <3>1, <3>2, <3>3 DEF UserStep
  <2>2. \A p \in Procs : pc'[p] = "idle"
    BY <1>2 DEF UserStep, UserSaves, UserDeletes, UserMoves, UserMay, SoleWriter, procVars
  <2>3. QED
    BY <2>1, <2>2 DEF SafeInv, InMove
<1>3. CASE ~UserStep /\ \A p \in Procs : ~FileStep(p)
  <2>1. UNCHANGED <<fs, known, deleted>>
    BY <1>3, OtherStepsLeaveFiles
  <2>2. NoLoss'
    BY <2>1 DEF SafeInv, NoLoss
  <2>3. ASSUME NEW p \in Procs
        PROVE  InMove(p)'
    <3>1. CASE \E q \in Procs : Step(q)
      BY <2>3, <3>1, StepKeepsInMove DEF SoleWriter
    <3>2. CASE \E q \in Procs : \/ \E batch \in SUBSET Ops : ExecutePlan(q, batch)
                                \/ \E n \in 1..MaxUndo : UndoLast(q, n)
                                \/ Abort(q)
      <4>1. pc'[p] \in {"idle", "next"}
        BY <2>3, <3>2 DEF SoleWriter, ExecutePlan, UndoLast, Abort, Fail, Idle, TypeInv, TypeOK
      <4>2. QED
        BY <4>1 DEF InMove
    <3>3. CASE (\E o \in Ops : \E s, d \in Paths : Plan(o, s, d)) \/ UNCHANGED vars
      <4>1. UNCHANGED <<fs, procVars>>
        BY <3>3 DEF Plan, fileVars, vars, procVars
      <4>2. CASE Working(p)
        BY <2>3, <4>1, <4>2, PathsStay DEF procVars, SafeInv, InMove
      <4>3. CASE ~Working(p)
        BY <4>1, <4>3 DEF procVars, Working, InMove
      <4>4. QED
        BY <4>2, <4>3
    <3>4. CASE UserStep
      BY <1>3, <3>4
    <3>5. CASE Next
      BY <3>1, <3>2, <3>3, <3>4, <3>5 DEF Next, UserStep
    <3>6. QED
      BY <3>3, <3>5
  <2>4. QED
    BY <2>2, <2>3 DEF SafeInv
<1>4. ASSUME NEW p \in Procs, FileStep(p)
      PROVE  SafeInv'
  <2>1. Step(p)
    BY <1>4 DEF FileStep, Step
  <2>2. QED
    BY <1>1, <1>4, <2>1, StepKeepsInMove DEF SoleWriter, SafeInv
<1>5. QED
  BY <1>2, <1>3, <1>4

(* One instance, and a user who keeps off while it works: no file is ever  *)
(* lost, through failed copies, corrupted writes, aborted batches, kills   *)
(* at any step, stale plans and undos of anything.                         *)
THEOREM NoFileLost ==
    ASSUME SoleWriter
    PROVE  Spec => []NoLoss
<1>1. Init => TypeInv /\ SafeInv
  BY InitTypeInv DEF Init, SafeInv, NoLoss, InMove
<1>2. TypeInv /\ SafeInv /\ [Next]_vars => TypeInv' /\ SafeInv'
  BY NextKeepsTypeInv, NextKeepsSafe, SoleWriter
<1>3. SafeInv => NoLoss
  BY DEF SafeInv
<1>4. QED
  BY <1>1, <1>2, <1>3, PTL DEF Spec

-----------------------------------------------------------------------------
(* Refinement.  A path that changes hands makes the store's step: `Where`  *)
(* is what the refinement mapping puts for the variable `at`.              *)
Where == [f \in Files |-> {x \in Paths : fs[x] = f}]

(* The paths at which each file lies after one path has changed.           *)
LEMMA WhereAfterOne ==
    ASSUME TypeInv, NEW x \in Paths, NEW new \in Entries, fs' = [fs EXCEPT ![x] = new]
    PROVE  Where' = [f \in Files |-> IF f = new THEN Where[f] \cup {x} ELSE Where[f] \ {x}]
<1>1. ASSUME NEW f \in Files
      PROVE  {y \in Paths : fs'[y] = f}
                = IF f = new THEN Where[f] \cup {x} ELSE Where[f] \ {x}
  BY DEF Where, TypeInv, TypeOK
<1>2. QED
  BY <1>1 DEF Where

(* A rename takes its file to a vacant path; a torn file is none.          *)
LEMMA RenameRelocates ==
    ASSUME TypeInv, SafeInv, NEW p \in Procs, Rename(p)
    PROVE  Store!Broomed \/ UNCHANGED Store!storeVars
<1>1. PICK x \in Paths, y \in Paths : x = From(p) /\ y = To(p)
  BY PathsOfCurrent DEF Rename, Working
<1>2. x # y /\ fs[y] = NoFile /\ fs[x] # NoFile /\ edits' = edits
  BY <1>1 DEF Rename, Exists, SafeInv, InMove, userVars
<1>3. fs' = [fs EXCEPT ![x] = NoFile, ![y] = fs[x]]
  BY <1>1 DEF Rename
<1>4. PICK f \in Files \cup {Torn} : f = fs[x]
  BY <1>2 DEF TypeInv, TypeOK, Entries
<1>5. ASSUME NEW g \in Files
      PROVE  {z \in Paths : fs'[z] = g}
                = IF g = f THEN (Where[g] \ {x}) \cup {y} ELSE Where[g]
  BY <1>2, <1>3, <1>4, ConstantsAssumption DEF Where, TypeInv, TypeOK
<1>6. CASE f = Torn
  BY <1>2, <1>5, <1>6, ConstantsAssumption DEF Where, Store!storeVars
<1>7. CASE f \in Files
  <2>1. Where' = [Where EXCEPT ![f] = (@ \ {x}) \cup {y}]
    BY <1>5, <1>7 DEF Where
  <2>2. x \in Where[f] /\ \A g \in Files : y \notin Where[g]
    BY <1>2, <1>4, <1>7, ConstantsAssumption DEF Where
  <2>3. Store!Relocate(f, x, y)
    BY <2>1, <2>2 DEF Where, Store!Relocate, Store!Vacant
  <2>4. QED
    BY <1>2, <1>7, <2>3 DEF Store!Broomed
<1>8. QED
  BY <1>6, <1>7

(* An open copy leaves no trace in the store; a finished one is a          *)
(* duplicate at a path that was vacant.                                    *)
LEMMA CopyDuplicates ==
    ASSUME TypeInv, SafeInv, NEW p \in Procs, CopyStart(p) \/ CopyEnd(p)
    PROVE  Store!Broomed \/ UNCHANGED Store!storeVars
<1>1. PICK x \in Paths, y \in Paths : x = From(p) /\ y = To(p)
  BY PathsOfCurrent DEF CopyStart, CopyEnd, Working
<1>2. edits' = edits
  BY DEF CopyStart, CopyEnd, userVars
<1>3. \A f \in Files : y \notin Where[f]
  BY <1>1, ConstantsAssumption DEF CopyStart, CopyEnd, SafeInv, InMove, Where
<1>4. CASE CopyStart(p)
  <2>1. Where' = [f \in Files |-> IF f = Torn THEN Where[f] \cup {y}
                                             ELSE Where[f] \ {y}]
    BY <1>1, <1>4, WhereAfterOne DEF CopyStart, Entries
  <2>2. Where' = Where
    <3>1. \A f \in Files : Where[f] \ {y} = Where[f] /\ f # Torn
      BY <1>3, ConstantsAssumption
    <3>2. QED
      BY <2>1, <3>1 DEF Where
  <2>3. QED
    BY <1>2, <2>2 DEF Where, Store!storeVars
<1>5. CASE CopyEnd(p)
  <2>1. /\ fs[y] = Torn /\ data[p] = hash[p] /\ fs[x] = hash[p]
        /\ hash[p] \in Files \cup {Torn}
    BY <1>1, <1>5 DEF CopyEnd, SafeInv, InMove, TypeInv, TypeOK, Entries
  <2>2. PICK written \in {data[p], Torn} : fs' = [fs EXCEPT ![y] = written]
    BY <1>1, <1>5, <2>1, ConstantsAssumption DEF CopyEnd, Exists
  <2>3. Where' = [f \in Files |-> IF f = written THEN Where[f] \cup {y}
                                                 ELSE Where[f] \ {y}]
    <3>1. written \in Entries
      BY <2>1, <2>2 DEF Entries
    <3>2. QED
      BY <1>1, <2>2, <3>1, WhereAfterOne
  <2>4. \A f \in Files : Where[f] \ {y} = Where[f]
    BY <1>3
  <2>5. CASE written = Torn
    <3>1. Where' = Where
      BY <2>3, <2>4, <2>5, ConstantsAssumption DEF Where
    <3>2. QED
      BY <1>2, <3>1 DEF Where, Store!storeVars
  <2>6. CASE written \in Files
    <3>1. Where' = [Where EXCEPT ![written] = @ \cup {y}]
      BY <2>3, <2>4, <2>6 DEF Where
    <3>2. Where[written] # {}
      BY <1>1, <2>1, <2>2, <2>6, ConstantsAssumption DEF Where
    <3>3. Store!Duplicate(written, y)
      BY <1>3, <3>1, <3>2 DEF Where, Store!Duplicate, Store!Vacant
    <3>4. QED
      BY <1>2, <2>6, <3>3 DEF Store!Broomed
  <2>7. QED
    BY <2>1, <2>2, <2>5, <2>6
<1>6. QED
  BY <1>4, <1>5

(* The origin is dropped while the target holds the same file.             *)
LEMMA RemoveDrops ==
    ASSUME TypeInv, SafeInv, NEW p \in Procs, RemoveOrigin(p)
    PROVE  Store!Broomed \/ UNCHANGED Store!storeVars
<1>1. PICK x \in Paths, y \in Paths : x = From(p) /\ y = To(p)
  BY PathsOfCurrent DEF RemoveOrigin, Working
<1>2. x # y /\ fs[y] = fs[x] /\ fs[x] # NoFile /\ edits' = edits
  BY <1>1 DEF RemoveOrigin, Exists, SafeInv, InMove, userVars
<1>3. NoFile \in Entries /\ fs' = [fs EXCEPT ![x] = NoFile]
  BY <1>1 DEF RemoveOrigin, Entries
<1>4. PICK f \in Files \cup {Torn} : f = fs[x]
  BY <1>2 DEF TypeInv, TypeOK, Entries
<1>5. Where' = [g \in Files |-> IF g = NoFile THEN Where[g] \cup {x} ELSE Where[g] \ {x}]
  BY <1>3, WhereAfterOne
<1>6. \A g \in Files : g # NoFile /\ (g # f => Where[g] \ {x} = Where[g])
  BY <1>4, ConstantsAssumption DEF Where
<1>7. CASE f = Torn
  <2>1. Where' = Where
    BY <1>5, <1>6, <1>7, ConstantsAssumption DEF Where
  <2>2. QED
    BY <1>2, <2>1 DEF Where, Store!storeVars
<1>8. CASE f \in Files
  <2>1. Where' = [Where EXCEPT ![f] = @ \ {x}]
    BY <1>5, <1>6, <1>8 DEF Where
  <2>2. x \in Where[f] /\ Where[f] # {x}
    BY <1>2, <1>4, <1>8 DEF Where
  <2>3. Store!DropCopy(f, x)
    BY <2>1, <2>2 DEF Where, Store!DropCopy
  <2>4. QED
    BY <1>2, <1>8, <2>3 DEF Store!Broomed
<1>9. QED
  BY <1>7, <1>8

(* An edit concerns one file. *)
LEMMA EditsAreTheUsers ==
    ASSUME TypeInv, UserStep
    PROVE  Store!User
<1>1. \E f \in Files : /\ \A g \in Files \ {f} : {y \in Paths : fs'[y] = g} = Where[g]
                       /\ edits' = edits + 1
  <2>1. ASSUME NEW f \in Files, NEW x \in Paths, UserSaves(f, x)
        PROVE  \A g \in Files \ {f} : {y \in Paths : fs'[y] = g} = Where[g]
    BY <2>1, ConstantsAssumption DEF UserSaves, Exists, Where, TypeInv, TypeOK
  <2>2. ASSUME NEW x \in Paths, UserDeletes(x)
        PROVE  \A g \in Files \ {fs[x]} : {y \in Paths : fs'[y] = g} = Where[g]
    BY <2>2, ConstantsAssumption DEF UserDeletes, Where, TypeInv, TypeOK
  <2>3. ASSUME NEW x \in Paths, NEW y \in Paths, UserMoves(x, y)
        PROVE  \A g \in Files \ {fs[x]} : {z \in Paths : fs'[z] = g} = Where[g]
    BY <2>3, ConstantsAssumption DEF UserMoves, Exists, Where, TypeInv, TypeOK
  <2>4. QED
    BY <2>1, <2>2, <2>3 DEF UserStep, UserSaves, UserDeletes, UserMoves
<1>2. PICK f \in Files : /\ \A g \in Files \ {f} : {y \in Paths : fs'[y] = g} = Where[g]
                         /\ edits' = edits + 1
  BY <1>1
<1>3. Where' = [Where EXCEPT ![f] = {y \in Paths : fs'[y] = f}]
  BY <1>2 DEF Where
<1>4. QED
  BY <1>2, <1>3 DEF Where, Store!User

LEMMA InitMaps == Init => Store!Init
BY ConstantsAssumption DEF Init, Store!Init

LEMMA NextMaps ==
    ASSUME TypeInv, SafeInv, [Next]_vars
    PROVE  [Store!Next]_(Store!storeVars)
<1>1. CASE UserStep
  BY <1>1, EditsAreTheUsers DEF Store!Next
<1>2. ASSUME NEW p \in Procs, FileStep(p)
      PROVE  Store!Broomed \/ UNCHANGED Store!storeVars
  BY <1>2, RenameRelocates, CopyDuplicates, RemoveDrops DEF FileStep
<1>3. CASE ~UserStep /\ \A p \in Procs : ~FileStep(p)
  BY <1>3, OtherStepsLeaveFiles DEF Store!storeVars
<1>4. QED
  BY <1>1, <1>2, <1>3 DEF Store!Next

(* The executor implements the abstract store: with one instance and a     *)
(* user who keeps off while it works, every step of it moves a file to a   *)
(* vacant path, duplicates one, drops a duplicate or leaves the files      *)
(* alone.                                                                  *)
THEOREM ExecutorImplementsStore ==
    ASSUME SoleWriter
    PROVE  Spec => ImplementsStore
<1>1. Init => TypeInv /\ SafeInv
  BY InitTypeInv DEF Init, SafeInv, NoLoss, InMove
<1>2. TypeInv /\ SafeInv /\ [Next]_vars => TypeInv' /\ SafeInv'
  BY NextKeepsTypeInv, NextKeepsSafe, SoleWriter
<1>3. TypeInv /\ SafeInv /\ [Next]_vars => [Store!Next]_(Store!storeVars)
  BY NextMaps
<1>4. QED
  BY <1>1, <1>2, <1>3, InitMaps, PTL DEF Spec, ImplementsStore, Store!Spec

-----------------------------------------------------------------------------
(* Undo is ready.  The inductive invariant says what the history of the     *)
(* files is: for each path the live rows that name it, in the order of      *)
(* their rowids, tell what has lain there, each row finding what the one    *)
(* below it left, and the top one what lies there now.  The operation in    *)
(* progress does not count; the files are looked at as if it had not begun. *)
Touches(o, x) == x \in {source[o], destination[o]}
Before(o, x)  == IF x = source[o] THEN moved[o] ELSE NoFile
After(o, x)   == IF x = destination[o] THEN moved[o] ELSE NoFile

(* What lay at x before the operation in progress. *)
Was(p, x) ==
    CASE /\ pc[p] \in {"copying", "verifyCopy", "remove", "verifyRename", "mark"}
         /\ x = To(p)                                            -> NoFile
      [] /\ pc[p] \in {"verifyRename", "mark"}
         /\ x = From(p) /\ x # To(p)                             -> hash[p]
      [] OTHER                                                   -> fs[x]

Stack(p) == {o \in Ops : LiveRow(o) /\ ~(Working(p) /\ cur[p] = o)}

(* The topmost row of S that names x. *)
LastOn(S, o, x) ==
    /\ o \in S /\ Touches(o, x)
    /\ \A r \in S : Touches(r, x) => rowid[r] <= rowid[o]

Below(S, q) == {r \in S : rowid[r] < rowid[q]}

(* q found what the rows of S had left at its two paths. *)
Fits(S, q) ==
    \A o \in S, x \in Paths : Touches(q, x) /\ LastOn(S, o, x) => Before(q, x) = After(o, x)

(* The row that is undone is not in S, but has not been left behind.       *)
Undoes(p, x) == Working(p) /\ cmd[p] = "undo" /\ Touches(cur[p], x)

History(p) ==
    LET S == Stack(p) IN
    /\ \A o \in S : moved[o] # NoFile /\ source[o] # destination[o]
    /\ \A o \in S, x \in Paths :
          LastOn(S, o, x) /\ ~Undoes(p, x) => Was(p, x) = After(o, x)
    /\ \A q \in S : Fits(Below(S, q), q)

(* An undo takes the rows from the top. *)
FromTheTop(p) ==
    cmd[p] = "undo" =>
        /\ todo[p] \subseteq Stack(p)
        /\ \A t \in todo[p], r \in Stack(p) \ todo[p] : rowid[r] < rowid[t]

(* The operation in progress is the newest one, and has done what its step *)
(* says.                                                                   *)
OnTop(p) ==
    Working(p) =>
        /\ cmd[p] # "none"
        /\ \A r \in Stack(p) : rowid[r] < rowid[cur[p]]
        /\ pc[p] = "verifyCopy" => fs[To(p)] = hash[p]
        /\ pc[p] \in {"verifyRename", "mark"} =>
              /\ From(p) # To(p) /\ hash[p] # NoFile
              /\ fs[From(p)] = NoFile /\ fs[To(p)] = hash[p]

MovedHashed(p) ==
    cmd[p] = "execute" /\ pc[p] \in {"verifyRename", "mark"} => moved[cur[p]] = hash[p]

(* An operation that is undone was the top of the stack. *)
Undoing(p) ==
    Working(p) /\ cmd[p] = "undo" =>
        /\ source[cur[p]] # destination[cur[p]] /\ moved[cur[p]] # NoFile
        /\ \A x \in Paths : Touches(cur[p], x) => Was(p, x) = After(cur[p], x)
        /\ Fits(Stack(p), cur[p])

Orderly(p) == History(p) /\ FromTheTop(p) /\ OnTop(p) /\ MovedHashed(p) /\ Undoing(p)

(* An operation failed: its row will never be executed. *)
Failed(p) == \E o \in Ops : Phantom(o) /\ ~(Executing(p) /\ cur[p] = o)

(* The rows have rowids of their own, and are finitely many. *)
Numbered ==
    \A o, q \in Ops : Journaled(o) =>
        rowid[o] <= lastRowid /\ (rowid[q] = rowid[o] => q = o)

RowsNumbered == Numbered /\ IsFiniteSet({o \in Ops : Journaled(o)})

ReadyInv ==
    /\ RowsNumbered
    /\ \A p \in Procs : Failed(p) \/ Orderly(p)

(* Nobody else writes files, and no I/O fails. *)
Undisturbed == SoleWriter /\ ~Faults /\ MaxEdits = 0

(* What a row says, as far as the history of the files depends on it. *)
SameRow(o) ==
    /\ rowid'[o] = rowid[o] /\ moved'[o] = moved[o]
    /\ source'[o] = source[o] /\ destination'[o] = destination[o]

LEMMA SameRowReads ==
    ASSUME NEW o, SameRow(o), NEW x
    PROVE  /\ Touches(o, x)' <=> Touches(o, x)
           /\ Before(o, x)' = Before(o, x) /\ After(o, x)' = After(o, x)
BY DEF SameRow, Touches, Before, After

LEMMA SameRowsFit ==
    ASSUME NEW S, \A o \in S : SameRow(o), NEW q, SameRow(q), Fits(S, q)
    PROVE  Fits(S, q)'
<1>1. \A o \in S, x \in Paths : LastOn(S, o, x)' <=> LastOn(S, o, x)
  BY SameRowReads DEF LastOn, SameRow
<1> QED
  BY <1>1, SameRowReads DEF Fits

LEMMA HistoryStays ==
    ASSUME NEW p \in Procs, History(p), Stack(p)' = Stack(p), \A o \in Stack(p) : SameRow(o),
           \A x \in Paths : Was(p, x)' = Was(p, x) /\ (Undoes(p, x)' <=> Undoes(p, x))
    PROVE  History(p)'
<1> DEFINE S == Stack(p)
<1>1. \A o \in S : moved'[o] # NoFile /\ source'[o] # destination'[o]
  BY DEF History, SameRow
<1>2. ASSUME NEW o \in S, NEW x \in Paths, LastOn(S, o, x)', ~Undoes(p, x)'
      PROVE  Was(p, x)' = After(o, x)'
  <2>1. LastOn(Stack(p), o, x)
    BY <1>2, SameRowReads DEF LastOn, SameRow
  <2>2. Was(p, x) = After(o, x)
    BY <1>2, <2>1 DEF History
  <2> QED
    BY <2>2, SameRowReads
<1>3. ASSUME NEW q \in S
      PROVE  Fits(Below(S, q), q)'
  <2>1. Below(S, q)' = Below(S, q) /\ Below(S, q) \subseteq S
    BY <1>3 DEF Below, SameRow
  <2>2. Fits(Below(S, q), q)
    BY <1>3 DEF History
  <2> DEFINE B == Below(S, q)
  <2>3. \A o \in B : SameRow(o)
    BY <2>1
  <2> HIDE DEF B
  <2>4. ASSUME NEW T, T = B PROVE Fits(T, q)'
    BY <1>3, <2>2, <2>3, <2>4, SameRowsFit DEF B
  <2> QED
    BY <2>1, <2>4 DEF B
<1> QED
  BY <1>1, <1>2, <1>3 DEF History

(* A row whose operation failed stays as it is. *)
LEMMA FailedStays ==
    ASSUME TypeInv, OnceInv, [Next]_vars, SoleWriter, NEW p \in Procs, Failed(p)
    PROVE  Failed(p)'
<1>1. PICK o \in Ops : Phantom(o) /\ ~(Executing(p) /\ cur[p] = o)
  BY DEF Failed
<1>2. Journaled(o) /\ Journaled(o)'
  BY <1>1, RowsStay DEF Phantom, Journaled
<1>3. moved'[o] = NoFile
  <2>1. ASSUME NEW q \in Procs, Rename(q) \/ RemoveOrigin(q)
        PROVE  moved'[o] = NoFile
    <3>1. q = p
      BY DEF SoleWriter
    <3>2. cmd[p] = "execute" => Executing(p)
      BY <2>1, <3>1 DEF Rename, RemoveOrigin, Executing
    <3> QED
      BY <1>1, <2>1, <3>1, <3>2 DEF Rename, RemoveOrigin, Moves, Phantom, TypeInv, TypeOK
  <2>2. CASE \E q \in Procs : CopyStart(q) \/ CopyEnd(q)
    BY <1>1, <2>2 DEF CopyStart, CopyEnd, Phantom
  <2>3. CASE UserStep
    BY <1>1, <2>3 DEF UserStep, UserSaves, UserDeletes, UserMoves, Phantom
  <2>4. CASE ~UserStep /\ \A q \in Procs : ~FileStep(q)
    BY <1>1, <2>4, OtherStepsLeaveFiles DEF Phantom
  <2> QED
    BY <2>1, <2>2, <2>3, <2>4 DEF FileStep
<1>4. ~(Executing(p)' /\ cur'[p] = o)
  <2>1. CASE \E q \in Procs, r \in Ops : Record(q, r)
    <3>1. PICK r \in Ops : Record(p, r)
      BY <2>1 DEF SoleWriter
    <3>2. cur'[p] = r /\ r # o
      BY <1>2, <3>1 DEF Record, Take, TypeInv, TypeOK
    <3> QED
      BY <3>2
  <2>2. CASE \A q \in Procs, r \in Ops : ~Record(q, r)
    BY <1>1, <2>2, ExecutionsContinue
  <2> QED
    BY <2>1, <2>2
<1> QED
  BY <1>2, <1>3, <1>4 DEF Failed, Phantom, Journaled

LEMMA RowsStayNumbered ==
    ASSUME TypeInv, RowsNumbered, [Next]_vars
    PROVE  RowsNumbered'
<1>1. ASSUME NEW p \in Procs, NEW o \in Ops, Record(p, o)
      PROVE  RowsNumbered'
  <2>1. /\ rowid' = [rowid EXCEPT ![o] = lastRowid + 1] /\ lastRowid' = lastRowid + 1
        /\ ~Journaled(o) /\ rowid \in [Ops -> Nat] /\ lastRowid \in Nat
    BY <1>1 DEF Record, Insert, TypeInv, TypeOK
  <2>2. Numbered'
    BY <2>1 DEF RowsNumbered, Numbered, Journaled
  <2>3. {q \in Ops : Journaled(q)}' = {q \in Ops : Journaled(q)} \cup {o}
    BY <2>1 DEF Journaled
  <2>4. IsFiniteSet({q \in Ops : Journaled(q)}')
    BY <2>3, FS_AddElement DEF RowsNumbered
  <2> QED
    BY <2>2, <2>4 DEF RowsNumbered
<1>2. ASSUME \A p \in Procs, o \in Ops : ~Record(p, o)
      PROVE  UNCHANGED <<rowid, lastRowid>>
  <2>1. ASSUME NEW p \in Procs,
               \/ \E batch \in SUBSET Ops : ExecutePlan(p, batch)
               \/ \E n \in 1..MaxUndo : UndoLast(p, n)
               \/ Abort(p)
        PROVE  UNCHANGED <<rowid, lastRowid>>
    BY <2>1 DEF ExecutePlan, UndoLast, Abort, Fail, journalVars
  <2>2. ASSUME NEW p \in Procs, Step(p)
        PROVE  UNCHANGED <<rowid, lastRowid>>
    <3>1. CASE Finish(p) \/ \E q \in Ops : RecordFails(p, q) \/ SelectRow(p, q)
      BY <3>1 DEF Finish, RecordFails, SelectRow, Fail, journalVars
    <3>2. CASE \/ CheckPaths(p) \/ CheckFails(p) \/ HashFile(p) \/ HashFails(p)
               \/ Rename(p) \/ RenameFails(p) \/ VerifyRename(p) \/ VerifyRenameFails(p)
      BY <3>2 DEF CheckPaths, CheckFails, HashFile, HashFails, Rename, RenameFails,
         VerifyRename, VerifyRenameFails, Fail, journalVars
    <3>3. CASE \/ CopyStart(p) \/ CopyStartFails(p) \/ CopyEnd(p) \/ VerifyCopy(p)
               \/ VerifyCopyFails(p) \/ RemoveOrigin(p) \/ RemoveFails(p) \/ MarkDone(p)
      BY <3>3 DEF CopyStart, CopyStartFails, CopyEnd, VerifyCopy, VerifyCopyFails,
         RemoveOrigin, RemoveFails, MarkDone, Fail, journalVars
    <3> QED
      BY <1>2, <2>2, <3>1, <3>2, <3>3 DEF Step
  <2>3. CASE UserStep \/ (\E o \in Ops : \E s, d \in Paths : Plan(o, s, d)) \/ UNCHANGED vars
    BY <2>3 DEF UserStep, UserSaves, UserDeletes, UserMoves, Plan, vars, journalVars
  <2> QED
    BY <2>1, <2>2, <2>3 DEF Next, UserStep
<1>3. CASE \A p \in Procs, o \in Ops : ~Record(p, o)
  <2>1. UNCHANGED <<rowid, lastRowid>>
    BY <1>2, <1>3
  <2> QED
    BY <2>1 DEF RowsNumbered, Numbered, Journaled
<1> QED
  BY <1>1, <1>3

-----------------------------------------------------------------------------
(* A step of an operation in progress, up to its UPDATE. *)
MoveStep(p) ==
    \/ CheckPaths(p) \/ HashFile(p) \/ Rename(p) \/ RenameFails(p) \/ VerifyRename(p)
    \/ CopyStart(p) \/ CopyEnd(p) \/ VerifyCopy(p) \/ RemoveOrigin(p)

LEMMA MoveStepKeeps ==
    ASSUME TypeInv, NEW p \in Procs, MoveStep(p)
    PROVE  /\ UNCHANGED <<source, destination, rowid, status, lastRowid, cmd, todo, cur>>
           /\ Working(p) /\ Working(p)'
           /\ From(p)' = From(p) /\ To(p)' = To(p)
           /\ \A o \in Ops : ~(cmd[p] = "execute" /\ o = cur[p]) => moved'[o] = moved[o]
<1>1. UNCHANGED <<source, destination, rowid, status, lastRowid, cmd, todo, cur>>
  BY DEF MoveStep, CheckPaths, HashFile, Rename, RenameFails, VerifyRename, CopyStart, CopyEnd,
     VerifyCopy, RemoveOrigin, planVars, journalVars
<1>2. Working(p) /\ Working(p)'
  BY DEF MoveStep, CheckPaths, HashFile, Rename, RenameFails, VerifyRename, CopyStart, CopyEnd,
     VerifyCopy, RemoveOrigin, Goto, Working, TypeInv, TypeOK
<1>3. \A o \in Ops : ~(cmd[p] = "execute" /\ o = cur[p]) => moved'[o] = moved[o]
  <2>1. CASE Rename(p) \/ RemoveOrigin(p)
    BY <2>1 DEF Rename, RemoveOrigin, Moves, TypeInv, TypeOK
  <2>2. CASE ~(Rename(p) \/ RemoveOrigin(p))
    BY <2>2 DEF MoveStep, CheckPaths, HashFile, RenameFails, VerifyRename, CopyStart, CopyEnd,
       VerifyCopy
  <2> QED
    BY <2>1, <2>2
<1> QED
  BY <1>1, <1>2, <1>3 DEF From, To

LEMMA MoveStepShowsTheSame ==
    ASSUME TypeInv, SafeInv, NEW p \in Procs, MoveStep(p), NEW x \in Paths
    PROVE  Was(p, x)' = Was(p, x)
<1>0. /\ From(p)' = From(p) /\ To(p)' = To(p)
      /\ From(p) \in Paths /\ To(p) \in Paths
  BY MoveStepKeeps, PathsOfCurrent
<1>1. CASE CheckPaths(p) \/ HashFile(p) \/ RenameFails(p) \/ VerifyRename(p) \/ VerifyCopy(p)
  <2>1. fs' = fs
    BY <1>1 DEF CheckPaths, HashFile, RenameFails, VerifyRename, VerifyCopy, fileVars
  <2>2. \/ /\ pc[p] \in {"check", "hash", "rename"} /\ pc'[p] \in {"hash", "rename", "copy"}
        \/ pc[p] = "verifyRename" /\ pc'[p] = "mark" /\ hash' = hash
        \/ pc[p] = "verifyCopy" /\ pc'[p] = "remove"
    BY <1>1 DEF CheckPaths, HashFile, RenameFails, VerifyRename, VerifyCopy, Goto, TypeInv, TypeOK
  <2> QED
    BY <1>0, <2>1, <2>2 DEF Was
<1>2. CASE Rename(p)
  <2>1. /\ pc[p] = "rename" /\ pc'[p] = "verifyRename" /\ hash' = hash
        /\ fs' = [fs EXCEPT ![From(p)] = NoFile, ![To(p)] = fs[From(p)]]
        /\ fs[To(p)] = NoFile /\ hash[p] = fs[From(p)]
    BY <1>2 DEF Rename, Goto, SafeInv, InMove, TypeInv, TypeOK
  <2>2. x \notin {From(p), To(p)} => fs'[x] = fs[x]
    BY <1>0, <2>1 DEF TypeInv, TypeOK
  <2> QED
    BY <1>0, <2>1, <2>2 DEF Was
<1>3. CASE CopyStart(p)
  <2>1. /\ pc[p] = "copy" /\ pc'[p] = "copying"
        /\ fs' = [fs EXCEPT ![To(p)] = Torn] /\ fs[To(p)] = NoFile
    BY <1>3 DEF CopyStart, Goto, SafeInv, InMove, TypeInv, TypeOK
  <2>2. x # To(p) => fs'[x] = fs[x]
    BY <1>0, <2>1 DEF TypeInv, TypeOK
  <2> QED
    BY <1>0, <2>1, <2>2 DEF Was
<1>4. CASE CopyEnd(p)
  <2>1. /\ pc[p] = "copying" /\ pc'[p] = "verifyCopy"
        /\ x # To(p) => fs'[x] = fs[x]
    BY <1>0, <1>4 DEF CopyEnd, Goto, TypeInv, TypeOK
  <2> QED
    BY <1>0, <2>1 DEF Was
<1>5. CASE RemoveOrigin(p)
  <2>1. /\ pc[p] = "remove" /\ pc'[p] = "mark" /\ hash' = hash
        /\ fs' = [fs EXCEPT ![From(p)] = NoFile] /\ fs[From(p)] = hash[p]
    BY <1>5 DEF RemoveOrigin, Goto, SafeInv, InMove, TypeInv, TypeOK
  <2>2. x # From(p) => fs'[x] = fs[x]
    BY <1>0, <2>1 DEF TypeInv, TypeOK
  <2> QED
    BY <1>0, <2>1, <2>2 DEF Was
<1> QED
  BY <1>1, <1>2, <1>3, <1>4, <1>5 DEF MoveStep

LEMMA MoveStepKeepsGood ==
    ASSUME Undisturbed, TypeInv, SafeInv, NEW p \in Procs, Orderly(p), MoveStep(p)
    PROVE  Orderly(p)'
<1>0. /\ UNCHANGED <<source, destination, rowid, status, cmd, todo, cur>>
      /\ Working(p) /\ Working(p)'
      /\ From(p)' = From(p) /\ To(p)' = To(p)
      /\ From(p) \in Paths /\ To(p) \in Paths /\ cur[p] \in Ops
      /\ \A o \in Ops : ~(cmd[p] = "execute" /\ o = cur[p]) => moved'[o] = moved[o]
  BY MoveStepKeeps, PathsOfCurrent
<1>1. Stack(p)' = Stack(p) /\ Stack(p) \subseteq Ops \ {cur[p]}
  BY <1>0 DEF Stack, LiveRow
<1>2. \A o \in Ops : (o # cur[p] \/ cmd[p] # "execute") => SameRow(o)
  BY <1>0 DEF SameRow
<1>3. \A x \in Paths : Undoes(p, x)' <=> Undoes(p, x)
  BY <1>0 DEF Undoes, Touches
<1>4. \A x \in Paths : Was(p, x)' = Was(p, x)
  BY MoveStepShowsTheSame
<1>5. History(p)'
  <2>1. \A o \in Stack(p) : SameRow(o)
    BY <1>1, <1>2
  <2> QED
    BY <1>1, <1>3, <1>4, <2>1, HistoryStays DEF Orderly
<1>6. FromTheTop(p)'
  BY <1>0, <1>1 DEF Orderly, FromTheTop
<1>7. Undoing(p)'
  <2> SUFFICES ASSUME cmd[p] = "undo" PROVE Undoing(p)'
    BY <1>0 DEF Undoing
  <2>1. SameRow(cur[p]) /\ \A o \in Stack(p) : SameRow(o)
    BY <1>0, <1>1, <1>2
  <2>2. Fits(Stack(p), cur[p]) /\ \A x \in Paths : Touches(cur[p], x) => Was(p, x) = After(cur[p], x)
    BY <1>0 DEF Orderly, Undoing
  <2>3. ASSUME NEW S, S = Stack(p), NEW c, c = cur[p] PROVE Fits(S, c)'
    BY <2>1, <2>2, <2>3, SameRowsFit
  <2>4. Fits(Stack(p), cur[p])'
    BY <1>0, <1>1, <2>3 DEF Fits
  <2>5. \A x \in Paths : Touches(cur[p], x)' => Was(p, x)' = After(cur[p], x)'
    BY <1>0, <1>4, <2>1, <2>2 DEF Touches, After, SameRow
  <2>6. source'[cur[p]] # destination'[cur[p]] /\ moved'[cur[p]] # NoFile
    BY <1>0, <2>1 DEF Orderly, Undoing, SameRow
  <2> QED
    BY <1>0, <2>4, <2>5, <2>6 DEF Undoing
<1>8. OnTop(p)'
  <2>1. cmd'[p] # "none" /\ \A r \in Stack(p)' : rowid'[r] < rowid'[cur'[p]]
    BY <1>0, <1>1 DEF Orderly, OnTop
  <2>2. pc'[p] = "verifyCopy" => fs'[To(p)] = hash'[p]
    <3>1. CASE CopyEnd(p)
      <4>1. /\ fs[To(p)] = Torn /\ data[p] = hash[p] /\ hash' = hash
            /\ fs' = [fs EXCEPT ![To(p)] = IF Exists(To(p)) THEN data[p] ELSE NoFile]
        BY <3>1 DEF CopyEnd, SafeInv, InMove, Undisturbed
      <4> QED
        BY <1>0, <4>1, ConstantsAssumption DEF Exists, TypeInv, TypeOK
    <3>2. CASE ~CopyEnd(p)
      BY <3>2 DEF MoveStep, CheckPaths, HashFile, Rename, RenameFails, VerifyRename, CopyStart,
         VerifyCopy, RemoveOrigin, Goto, TypeInv, TypeOK
    <3> QED
      BY <3>1, <3>2
  <2>3. pc'[p] \in {"verifyRename", "mark"} =>
            /\ From(p) # To(p) /\ hash'[p] # NoFile
            /\ fs'[From(p)] = NoFile /\ fs'[To(p)] = hash'[p]
    <3>1. CASE Rename(p)
      BY <1>0, <3>1 DEF Rename, SafeInv, InMove, TypeInv, TypeOK
    <3>2. CASE RemoveOrigin(p)
      BY <1>0, <3>2 DEF RemoveOrigin, SafeInv, InMove, TypeInv, TypeOK
    <3>3. CASE VerifyRename(p)
      BY <1>0, <3>3 DEF VerifyRename, fileVars, Orderly, OnTop
    <3>4. CASE ~(Rename(p) \/ RemoveOrigin(p) \/ VerifyRename(p))
      BY <3>4 DEF MoveStep, CheckPaths, HashFile, RenameFails, CopyStart, CopyEnd,
         VerifyCopy, Goto, TypeInv, TypeOK
    <3> QED
      BY <3>1, <3>2, <3>3, <3>4
  <2> QED
    BY <1>0, <2>1, <2>2, <2>3 DEF OnTop
<1>9. MovedHashed(p)'
  <2>1. CASE Rename(p)
    BY <1>0, <2>1 DEF Rename, Moves, SafeInv, InMove, MovedHashed, TypeInv, TypeOK
  <2>2. CASE RemoveOrigin(p)
    BY <1>0, <2>2 DEF RemoveOrigin, Moves, MovedHashed, SafeInv, InMove, TypeInv, TypeOK
  <2>3. CASE VerifyRename(p)
    BY <1>0, <2>3 DEF VerifyRename, Orderly, MovedHashed
  <2>4. CASE ~(Rename(p) \/ RemoveOrigin(p) \/ VerifyRename(p))
    BY <2>4 DEF MoveStep, CheckPaths, HashFile, RenameFails, CopyStart, CopyEnd,
       VerifyCopy, Goto, MovedHashed, TypeInv, TypeOK
  <2> QED
    BY <2>1, <2>2, <2>3, <2>4
<1> QED
  BY <1>5, <1>6, <1>7, <1>8, <1>9 DEF Orderly

(* Steps between two operations. *)
LEMMA RestingShows ==
    ASSUME NEW p, pc[p] \in {"idle", "next", "check"}, NEW x
    PROVE  Was(p, x) = fs[x]
BY DEF Was

LEMMA CommandsKeepGood ==
    ASSUME TypeInv, RowsNumbered, NEW p \in Procs, Orderly(p),
           \/ \E batch \in SUBSET Ops : ExecutePlan(p, batch)
           \/ \E n \in 1..MaxUndo : UndoLast(p, n)
           \/ Finish(p)
           \/ \E o \in Ops : RecordFails(p, o)
    PROVE  Orderly(p)'
<1>0. /\ UNCHANGED <<source, destination, rowid, status, moved, fs>>
      /\ pc[p] \in {"idle", "next"} /\ pc'[p] \in {"idle", "next"}
  BY DEF ExecutePlan, UndoLast, Finish, RecordFails, Fail, Idle, fileVars, planVars, journalVars,
     TypeInv, TypeOK
<1>1. ~Working(p) /\ ~Working(p)'
  BY <1>0 DEF Working
<1>2. Stack(p) = {o \in Ops : LiveRow(o)} /\ Stack(p)' = Stack(p)
  BY <1>0, <1>1 DEF Stack, LiveRow
<1>3. \A x \in Paths : Was(p, x)' = Was(p, x) /\ ~Undoes(p, x) /\ ~Undoes(p, x)'
  BY <1>0, <1>1 DEF Was, Undoes
<1>4. History(p)'
  <2>1. \A o \in Stack(p) : SameRow(o)
    BY <1>0 DEF SameRow
  <2> QED
    BY <1>2, <1>3, <2>1, HistoryStays DEF Orderly
<1>5. FromTheTop(p)'
  <2>1. CASE \E n \in 1..MaxUndo : UndoLast(p, n)
    <3>1. PICK n \in 1..MaxUndo : UndoLast(p, n)
      BY <2>1
    <3>2. todo'[p] = LatestIds(n)
      BY <3>1 DEF UndoLast, TypeInv, TypeOK
    <3>3. LatestIds(n) \subseteq Stack(p)
      BY <1>2 DEF LatestIds
    <3>4. ASSUME NEW t \in LatestIds(n), NEW r \in Stack(p) \ LatestIds(n)
          PROVE  rowid[r] < rowid[t]
      <4> DEFINE Newer(o) == {q \in Ops : LiveRow(q) /\ rowid[q] > rowid[o]}
      <4>1. /\ LiveRow(t) /\ Cardinality(Newer(t)) < n
            /\ LiveRow(r) /\ ~(Cardinality(Newer(r)) < n)
            /\ t \in Ops /\ r \in Ops /\ t # r
        BY <1>2, <3>4 DEF LatestIds
      <4>2. rowid[t] \in Nat /\ rowid[r] \in Nat /\ rowid[t] # rowid[r]
        BY <4>1 DEF RowsNumbered, Numbered, Journaled, LiveRow, TypeInv, TypeOK
      <4>3. CASE rowid[t] < rowid[r]
        <5>1. Newer(r) \subseteq Newer(t)
          BY <4>1, <4>2, <4>3 DEF TypeInv, TypeOK
        <5>2. IsFiniteSet(Newer(t))
          <6>1. Newer(t) \subseteq {o \in Ops : Journaled(o)}
            BY DEF LiveRow, Journaled
          <6> QED
            BY <6>1, FS_Subset DEF RowsNumbered
        <5> HIDE DEF Newer
        <5>3. /\ Cardinality(Newer(r)) <= Cardinality(Newer(t))
              /\ Cardinality(Newer(r)) \in Nat /\ Cardinality(Newer(t)) \in Nat
          BY <5>1, <5>2, FS_Subset, FS_CardinalityType
        <5> QED
          BY <4>1, <5>3
      <4> QED
        BY <4>2, <4>3
    <3> QED
      BY <1>0, <1>2, <3>2, <3>3, <3>4 DEF FromTheTop
  <2>2. CASE ~\E n \in 1..MaxUndo : UndoLast(p, n)
    <3>1. cmd'[p] # "undo"
      BY <2>2 DEF ExecutePlan, Finish, RecordFails, Fail, Idle, TypeInv, TypeOK
    <3> QED
      BY <3>1 DEF FromTheTop
  <2> QED
    BY <2>1, <2>2
<1> QED
  BY <1>0, <1>1, <1>4, <1>5 DEF Orderly, OnTop, MovedHashed, Undoing, Working

LEMMA RecordKeepsGood ==
    ASSUME TypeInv, RowsNumbered, NEW p \in Procs, NEW o \in Ops, Orderly(p), Record(p, o)
    PROVE  Orderly(p)'
<1>0. /\ UNCHANGED <<source, destination, moved, fs, cmd>>
      /\ rowid' = [rowid EXCEPT ![o] = lastRowid + 1]
      /\ status' = [status EXCEPT ![o] = "planned"]
      /\ cur'[p] = o /\ cmd[p] = "execute" /\ pc[p] = "next" /\ pc'[p] = "check"
      /\ ~Journaled(o)
  BY DEF Record, Insert, Take, Goto, fileVars, planVars, TypeInv, TypeOK
<1>1. \A q \in Ops \ {o} : SameRow(q) /\ (LiveRow(q)' <=> LiveRow(q))
  BY <1>0 DEF SameRow, LiveRow, TypeInv, TypeOK
<1>2. Stack(p)' = Stack(p) /\ Stack(p) \subseteq Ops \ {o}
  BY <1>0, <1>1 DEF Stack, LiveRow, Journaled, Working
<1>3. \A x \in Paths : Was(p, x)' = Was(p, x) /\ ~Undoes(p, x) /\ ~Undoes(p, x)'
  BY <1>0 DEF Was, Undoes, Working
<1>4. History(p)'
  <2>1. \A q \in Stack(p) : SameRow(q)
    BY <1>1, <1>2
  <2> QED
    BY <1>2, <1>3, <2>1, HistoryStays DEF Orderly
<1>5. \A r \in Stack(p)' : rowid'[r] < rowid'[o]
  <2>1. \A r \in Stack(p) : rowid[r] <= lastRowid /\ rowid[r] \in Nat /\ lastRowid \in Nat
    BY DEF RowsNumbered, Numbered, Stack, LiveRow, Journaled, TypeInv, TypeOK
  <2>2. \A r \in Stack(p) : rowid'[r] = rowid[r]
    BY <1>1, <1>2 DEF SameRow
  <2>3. rowid'[o] = lastRowid + 1
    BY <1>0 DEF TypeInv, TypeOK
  <2> QED
    BY <1>2, <2>1, <2>2, <2>3
<1> QED
  BY <1>0, <1>4, <1>5 DEF Orderly, FromTheTop, OnTop, MovedHashed, Undoing

(* The row that is taken is the topmost one. *)
LEMMA SelectKeepsGood ==
    ASSUME TypeInv, RowsNumbered, NEW p \in Procs, NEW o \in Ops, Orderly(p), SelectRow(p, o)
    PROVE  Orderly(p)'
<1> SUFFICES ASSUME NEW S, S = Stack(p) PROVE Orderly(p)'
  OBVIOUS
<1>0. /\ UNCHANGED <<source, destination, rowid, status, moved, fs, cmd>>
      /\ cur'[p] = o /\ cmd[p] = "undo" /\ pc[p] = "next" /\ pc'[p] = "check"
      /\ todo'[p] = todo[p] \ {o} /\ o \in todo[p]
      /\ \A q \in todo[p] : rowid[q] <= rowid[o]
  BY DEF SelectRow, Take, Goto, fileVars, planVars, journalVars, TypeInv, TypeOK
<1>1. ~Working(p) /\ Working(p)'
  BY <1>0 DEF Working
<1>2. Stack(p)' = S \ {o} /\ o \in S
  <2>1. \A q \in Ops : LiveRow(q)' <=> LiveRow(q)
    BY <1>0 DEF LiveRow
  <2> QED
    BY <1>0, <1>1, <2>1 DEF Stack, Orderly, FromTheTop
<1>2a. rowid[o] \in Nat
  BY DEF TypeInv, TypeOK
<1>3. \A r \in S \ {o} : rowid[r] < rowid[o] /\ rowid[r] \in Nat /\ rowid[o] \in Nat
  <2>1. \A r \in S \ {o} : rowid[r] # rowid[o] /\ rowid[r] \in Nat /\ rowid[o] \in Nat
    BY <1>2 DEF RowsNumbered, Numbered, Stack, LiveRow, Journaled, TypeInv, TypeOK
  <2>2. ASSUME NEW r \in S \ {o} PROVE rowid[r] <= rowid[o]
    <3>1. CASE r \in todo[p]
      BY <1>0, <3>1
    <3>2. CASE r \notin todo[p]
      BY <1>0, <2>1, <2>2, <3>2 DEF Orderly, FromTheTop
    <3> QED
      BY <3>1, <3>2
  <2> QED
    BY <2>1, <2>2
<1>4. \A x \in Paths : Was(p, x)' = Was(p, x) /\ ~Undoes(p, x)
  BY <1>0, <1>1 DEF Was, Undoes
<1>5. \A q \in Ops : SameRow(q)
  BY <1>0 DEF SameRow
<1>6. ASSUME NEW q \in S \ {o}
      PROVE  Below(S \ {o}, q) = Below(S, q)
  BY <1>3, <1>6 DEF Below
<1>7. \A q \in S \ {o} : Fits(Below(S \ {o}, q), q)
  BY <1>6 DEF Orderly, History
<1>8. Fits(S \ {o}, o)
  <2>1. Below(S, o) = S \ {o}
    BY <1>2, <1>3, <1>2a DEF Below
  <2> QED
    BY <1>2, <2>1 DEF Orderly, History
<1>9. ASSUME NEW r \in S \ {o}, NEW x \in Paths, LastOn(S \ {o}, r, x), ~Touches(o, x)
      PROVE  Was(p, x) = After(r, x)
  <2>1. LastOn(S, r, x)
    BY <1>9 DEF LastOn
  <2> QED
    BY <1>4, <1>9, <2>1 DEF Orderly, History
<1>10. \A x \in Paths : Touches(o, x) => Was(p, x) = After(o, x)
  <2>1. ASSUME NEW x \in Paths, Touches(o, x) PROVE LastOn(S, o, x)
    BY <1>2, <1>3, <1>2a, <2>1 DEF LastOn
  <2> QED
    BY <1>2, <1>4, <2>1 DEF Orderly, History
<1>11. \A q \in S : q \in Ops /\ moved[q] # NoFile /\ source[q] # destination[q]
  BY DEF Orderly, History, Stack
<1>12. History(p)'
  <2>1. \A q \in S \ {o} : moved'[q] # NoFile /\ source'[q] # destination'[q]
    BY <1>0, <1>11
  <2>2. ASSUME NEW r \in S \ {o}, NEW x \in Paths, LastOn(S \ {o}, r, x)', ~Undoes(p, x)'
        PROVE  Was(p, x)' = After(r, x)'
    <3>1. LastOn(S \ {o}, r, x) /\ ~Touches(o, x)
      BY <1>0, <1>1, <1>2, <2>2 DEF LastOn, Touches, Undoes
    <3> QED
      BY <1>0, <1>4, <1>9, <2>2, <3>1 DEF After
  <2>3. ASSUME NEW q \in S \ {o}
        PROVE  Fits(Below(Stack(p), q), q)'
    <3>1. Below(Stack(p), q)' = Below(S \ {o}, q)
      BY <1>0, <1>2 DEF Below
    <3>2. ASSUME NEW T, T = Below(S \ {o}, q) PROVE Fits(T, q)'
      BY <1>5, <1>7, <1>11, <2>3, <3>2, SameRowsFit DEF Below
    <3> QED
      BY <3>1, <3>2
  <2>4. \A r \in S \ {o}, x \in Paths : LastOn(Stack(p), r, x)' => LastOn(S \ {o}, r, x)'
    BY <1>0, <1>2 DEF LastOn, Touches
  <2> QED
    BY <1>2, <2>1, <2>2, <2>3, <2>4 DEF History
<1>13. FromTheTop(p)'
  <2>1. todo'[p] \subseteq S \ {o}
    BY <1>0, <1>2 DEF Orderly, FromTheTop
  <2>2. \A t \in todo'[p], r \in (S \ {o}) \ todo'[p] : rowid[r] < rowid[t]
    BY <1>0 DEF Orderly, FromTheTop
  <2> QED
    BY <1>0, <1>2, <2>1, <2>2 DEF FromTheTop
<1>14. Undoing(p)'
  <2>1. \A T : T = S \ {o} => Fits(T, o)'
    BY <1>5, <1>8, <1>11, SameRowsFit
  <2>2. Fits(Stack(p), cur[p])'
    BY <1>0, <1>2, <2>1 DEF Fits
  <2>3. \A x \in Paths : Touches(cur[p], x)' => Was(p, x)' = After(cur[p], x)'
    BY <1>0, <1>4, <1>10 DEF Touches, After
  <2> QED
    BY <1>0, <1>2, <1>11, <2>2, <2>3 DEF Undoing
<1>15. OnTop(p)' /\ MovedHashed(p)'
  BY <1>0, <1>2, <1>3 DEF OnTop, MovedHashed
<1> QED
  BY <1>12, <1>13, <1>14, <1>15 DEF Orderly

(* The UPDATE puts an executed operation on the stack ... *)
LEMMA ExecutedKeepsGood ==
    ASSUME TypeInv, RowsNumbered, NEW p \in Procs, Orderly(p), MarkDone(p), cmd[p] = "execute"
    PROVE  Orderly(p)'
<1> SUFFICES ASSUME NEW S, S = Stack(p), NEW c, c = cur[p] PROVE Orderly(p)'
  OBVIOUS
<1>1. /\ UNCHANGED <<source, destination, rowid, moved, fs, cmd>>
      /\ status' = [status EXCEPT ![c] = "executed"]
      /\ pc[p] = "mark" /\ pc'[p] = "next" /\ c \in Ops /\ Journaled(c)
      /\ Working(p) /\ ~Working(p)'
  BY DEF MarkDone, DoneStatus, Goto, fileVars, planVars, TypeInv, TypeOK, WellFormed, Working
<1>2. /\ From(p) = source[c] /\ To(p) = destination[c] /\ source[c] # destination[c]
      /\ source[c] \in Paths /\ destination[c] \in Paths
      /\ moved[c] = hash[p] /\ moved[c] # NoFile
      /\ fs[source[c]] = NoFile /\ fs[destination[c]] = moved[c]
  <2>1. From(p) = source[c] /\ To(p) = destination[c]
    BY DEF From, To
  <2>2. From(p) \in Paths /\ To(p) \in Paths
    BY <1>1, PathsOfCurrent
  <2> QED
    BY <1>1, <2>1, <2>2 DEF Orderly, OnTop, MovedHashed
<1>3. Stack(p)' = S \cup {c} /\ c \notin S
  <2>1. \A q \in Ops \ {c} : LiveRow(q)' <=> LiveRow(q)
    BY <1>1 DEF LiveRow, TypeInv, TypeOK
  <2>2. LiveRow(c)'
    BY <1>1 DEF LiveRow, Journaled, TypeInv, TypeOK
  <2> QED
    BY <1>1, <2>1, <2>2 DEF Stack
<1>4. \A r \in S : rowid[r] < rowid[c] /\ rowid[r] \in Nat /\ rowid[c] \in Nat
  BY <1>1 DEF Orderly, OnTop, Stack, TypeInv, TypeOK
<1>5. rowid[c] \in Nat
  BY <1>1 DEF TypeInv, TypeOK
<1>6. \A x \in Paths : Was(p, x) = IF x = destination[c] THEN NoFile
                                   ELSE IF x = source[c] THEN moved[c] ELSE fs[x]
  BY <1>1, <1>2 DEF Was
<1>7. \A x \in Paths : Was(p, x)' = fs[x] /\ ~Undoes(p, x)
  BY <1>1 DEF Was, Undoes
<1>8. \A q \in Ops : SameRow(q)
  BY <1>1 DEF SameRow
<1>9. \A q \in S : q \in Ops /\ moved[q] # NoFile /\ source[q] # destination[q]
  BY DEF Orderly, History, Stack
<1>10. \A r \in S, x \in Paths : LastOn(S, r, x) => Was(p, x) = After(r, x)
  BY <1>7 DEF Orderly, History
<1>11. Fits(S, c)
  <2> SUFFICES ASSUME NEW r \in S, NEW x \in Paths, Touches(c, x), LastOn(S, r, x)
               PROVE  Before(c, x) = After(r, x)
    BY DEF Fits
  <2>1. Was(p, x) = After(r, x)
    BY <1>10
  <2>2. Was(p, x) = Before(c, x)
    BY <1>2, <1>6 DEF Touches, Before
  <2> QED
    BY <2>1, <2>2
<1>12. \A q \in S \cup {c} : Fits(Below(S \cup {c}, q), q)
  <2>1. Below(S \cup {c}, c) = S
    BY <1>4, <1>5 DEF Below
  <2>2. \A q \in S : Below(S \cup {c}, q) = Below(S, q)
    BY <1>4 DEF Below
  <2> QED
    BY <1>11, <2>1, <2>2 DEF Orderly, History
<1>13. ASSUME NEW r \in S \cup {c}, NEW x \in Paths, LastOn(S \cup {c}, r, x)
       PROVE  fs[x] = After(r, x)
  <2>1. CASE r = c
    BY <1>2, <1>13, <2>1 DEF LastOn, Touches, After
  <2>2. CASE r # c
    <3>1. ~Touches(c, x) /\ LastOn(S, r, x)
      BY <1>4, <1>13, <2>2 DEF LastOn
    <3>2. Was(p, x) = After(r, x) /\ x \notin {source[c], destination[c]}
      BY <1>10, <2>2, <3>1 DEF Touches
    <3> QED
      BY <1>6, <3>2
  <2> QED
    BY <2>1, <2>2
<1>14. History(p)'
  <2>1. \A q \in S \cup {c} : moved'[q] # NoFile /\ source'[q] # destination'[q]
    BY <1>1, <1>2, <1>9
  <2>2. \A r \in S \cup {c}, x \in Paths : LastOn(Stack(p), r, x)' => LastOn(S \cup {c}, r, x)
    BY <1>1, <1>3 DEF LastOn, Touches
  <2>3. \A r \in S \cup {c}, x \in Paths : LastOn(Stack(p), r, x)' => Was(p, x)' = After(r, x)'
    BY <1>1, <1>7, <1>13, <2>2 DEF After
  <2>4. ASSUME NEW q \in S \cup {c}
        PROVE  Fits(Below(Stack(p), q), q)'
    <3>1. Below(Stack(p), q)' = Below(S \cup {c}, q)
      BY <1>1, <1>3 DEF Below
    <3>2. ASSUME NEW T, T = Below(S \cup {c}, q) PROVE Fits(T, q)'
      BY <1>1, <1>8, <1>9, <1>12, <2>4, <3>2, SameRowsFit DEF Below
    <3> QED
      BY <3>1, <3>2
  <2> QED
    BY <1>3, <2>1, <2>3, <2>4 DEF History
<1> QED
  BY <1>1, <1>14 DEF Orderly, FromTheTop, OnTop, MovedHashed, Undoing, Working

(* ... and takes an undone one off it. *)
LEMMA UndoneKeepsGood ==
    ASSUME TypeInv, RowsNumbered, NEW p \in Procs, Orderly(p), MarkDone(p), cmd[p] = "undo"
    PROVE  Orderly(p)'
<1> SUFFICES ASSUME NEW S, S = Stack(p), NEW c, c = cur[p] PROVE Orderly(p)'
  OBVIOUS
<1>1. /\ UNCHANGED <<source, destination, rowid, moved, fs, cmd, todo>>
      /\ status' = [status EXCEPT ![c] = "undone"]
      /\ pc[p] = "mark" /\ pc'[p] = "next" /\ c \in Ops /\ Journaled(c)
      /\ Working(p) /\ ~Working(p)'
  BY DEF MarkDone, DoneStatus, Goto, fileVars, planVars, TypeInv, TypeOK, WellFormed, Working
<1>2. /\ From(p) = destination[c] /\ To(p) = source[c] /\ source[c] # destination[c]
      /\ source[c] \in Paths /\ destination[c] \in Paths
      /\ fs[destination[c]] = NoFile /\ fs[source[c]] = hash[p]
  <2>1. From(p) = destination[c] /\ To(p) = source[c]
    BY DEF From, To
  <2>2. From(p) \in Paths /\ To(p) \in Paths
    BY <1>1, PathsOfCurrent
  <2> QED
    BY <1>1, <2>1, <2>2 DEF Orderly, OnTop
<1>3. Stack(p)' = S /\ c \notin S
  <2>1. \A q \in Ops \ {c} : LiveRow(q)' <=> LiveRow(q)
    BY <1>1 DEF LiveRow, TypeInv, TypeOK
  <2>2. ~LiveRow(c)'
    BY <1>1 DEF LiveRow, Journaled, TypeInv, TypeOK
  <2> QED
    BY <1>1, <2>1, <2>2 DEF Stack
<1>4. hash[p] = moved[c] /\ Fits(S, c)
  <2>1. Was(p, destination[c]) = After(c, destination[c]) /\ Fits(S, c)
    BY <1>1, <1>2 DEF Orderly, Undoing, Touches
  <2>2. Was(p, destination[c]) = hash[p]
    BY <1>1, <1>2 DEF Was
  <2> QED
    BY <2>1, <2>2 DEF After
<1>5. \A x \in Paths : Was(p, x)' = fs[x] /\ (Undoes(p, x) <=> Touches(c, x))
  BY <1>1 DEF Was, Undoes
<1>6. \A x \in Paths : ~Touches(c, x) => Was(p, x) = fs[x]
  BY <1>2 DEF Was, Touches
<1>7. \A x \in Paths : Touches(c, x) => fs[x] = Before(c, x)
  BY <1>2, <1>4 DEF Touches, Before
<1>8. \A q \in S : q \in Ops /\ moved[q] # NoFile /\ source[q] # destination[q]
  BY DEF Orderly, History, Stack
<1>9. ASSUME NEW r \in S, NEW x \in Paths, LastOn(S, r, x)
      PROVE  fs[x] = After(r, x)
  <2>1. CASE Touches(c, x)
    BY <1>4, <1>7, <1>9, <2>1 DEF Fits
  <2>2. CASE ~Touches(c, x)
    BY <1>5, <1>6, <1>9, <2>2 DEF Orderly, History
  <2> QED
    BY <2>1, <2>2
<1>10. \A q \in S : Fits(Below(S, q), q)
  BY DEF Orderly, History
<1>11. History(p)'
  <2>1. \A q \in S : moved'[q] # NoFile /\ source'[q] # destination'[q]
    BY <1>1, <1>8
  <2>2. \A r \in S, x \in Paths : LastOn(Stack(p), r, x)' => LastOn(S, r, x)
    BY <1>1, <1>3 DEF LastOn, Touches
  <2>3. \A r \in S, x \in Paths : LastOn(Stack(p), r, x)' => Was(p, x)' = After(r, x)'
    BY <1>1, <1>5, <1>9, <2>2 DEF After
  <2>4. ASSUME NEW q \in S
        PROVE  Fits(Below(Stack(p), q), q)'
    <3>1. Below(Stack(p), q)' = Below(S, q) /\ \A r \in S : SameRow(r)
      BY <1>1, <1>3 DEF Below, SameRow
    <3>2. ASSUME NEW T, T = Below(S, q) PROVE Fits(T, q)'
      BY <1>10, <2>4, <3>1, <3>2, SameRowsFit DEF Below
    <3> QED
      BY <3>1, <3>2
  <2> QED
    BY <1>3, <2>1, <2>3, <2>4 DEF History
<1>12. FromTheTop(p)'
  BY <1>1, <1>3 DEF Orderly, FromTheTop
<1> QED
  BY <1>1, <1>11, <1>12 DEF Orderly, OnTop, MovedHashed, Undoing, Working

-----------------------------------------------------------------------------
(* Only the check can fail, and only in an execution. *)
LEMMA UndoPassesItsCheck ==
    ASSUME TypeInv, NEW p \in Procs, Orderly(p), pc[p] = "check", cmd[p] = "undo"
    PROVE  Movable(p)
<1> SUFFICES ASSUME NEW c, c = cur[p] PROVE Movable(p)
  OBVIOUS
<1>1. /\ source[c] # destination[c] /\ moved[c] # NoFile
      /\ source[c] \in Paths /\ destination[c] \in Paths
      /\ From(p) = destination[c] /\ To(p) = source[c]
  <2>1. Working(p) /\ From(p) = destination[c] /\ To(p) = source[c]
    BY DEF Working, From, To
  <2> QED
    BY <2>1, PathsOfCurrent DEF Orderly, Undoing
<1>2. \A x \in Paths : Touches(c, x) => fs[x] = After(c, x)
  BY RestingShows DEF Orderly, Undoing, Working
<1> QED
  BY <1>1, <1>2 DEF Movable, Exists, Touches, After

LEMMA FailuresLeaveAPhantom ==
    ASSUME TypeInv, SafeInv, OnceInv, NEW p \in Procs, Orderly(p),
           \/ CheckFails(p) \/ HashFails(p) \/ VerifyRenameFails(p) \/ CopyStartFails(p)
           \/ VerifyCopyFails(p) \/ RemoveFails(p)
    PROVE  Failed(p)'
<1>1. ~HashFails(p) /\ ~CopyStartFails(p) /\ ~RemoveFails(p)
  BY DEF HashFails, CopyStartFails, RemoveFails, Exists, SafeInv, InMove
<1>2. ~VerifyRenameFails(p) /\ ~VerifyCopyFails(p)
  BY DEF VerifyRenameFails, VerifyCopyFails, Verified, Exists, SafeInv, InMove, Orderly, OnTop,
     Working
<1>3. CheckFails(p) /\ cmd[p] = "execute"
  BY <1>1, <1>2, UndoPassesItsCheck DEF CheckFails, Orderly, OnTop, Working, TypeInv, TypeOK
<1>4. Executing(p) /\ cur[p] \in Ops /\ Journaled(cur[p])
  BY <1>3 DEF CheckFails, Executing, Working, TypeInv, WellFormed
<1>5. UNCHANGED <<rowid, moved>> /\ pc'[p] = "idle"
  BY <1>3 DEF CheckFails, Fail, Idle, journalVars, TypeInv, TypeOK
<1>6. PICK o \in Ops : o = cur[p]
  BY <1>4
<1>7. Phantom(o)'
  BY <1>4, <1>5, <1>6 DEF OnceInv, AtMostOnce, Phantom, Journaled
<1> QED
  BY <1>5, <1>7 DEF Failed, Executing

LEMMA StepKeepsGood ==
    ASSUME Undisturbed, TypeInv, SafeInv, OnceInv, RowsNumbered, NEW p \in Procs, Orderly(p), Step(p)
    PROVE  Failed(p)' \/ Orderly(p)'
<1>1. CASE MoveStep(p)
  BY <1>1, MoveStepKeepsGood
<1>2. CASE Finish(p) \/ \E o \in Ops : RecordFails(p, o)
  BY <1>2, CommandsKeepGood
<1>3. CASE \E o \in Ops : Record(p, o)
  BY <1>3, RecordKeepsGood
<1>4. CASE \E o \in Ops : SelectRow(p, o)
  BY <1>4, SelectKeepsGood
<1>5. CASE MarkDone(p)
  <2>1. cmd[p] \in {"execute", "undo"}
    BY <1>5 DEF MarkDone, Orderly, OnTop, Working, TypeInv, TypeOK
  <2> QED
    BY <1>5, <2>1, ExecutedKeepsGood, UndoneKeepsGood
<1>6. CASE \/ CheckFails(p) \/ HashFails(p) \/ VerifyRenameFails(p) \/ CopyStartFails(p)
           \/ VerifyCopyFails(p) \/ RemoveFails(p)
  BY <1>6, FailuresLeaveAPhantom
<1> QED
  BY <1>1, <1>2, <1>3, <1>4, <1>5, <1>6 DEF Step, MoveStep

(* Planning concerns operations without a row. *)
LEMMA PlanKeepsGood ==
    ASSUME TypeInv, NEW p \in Procs, Orderly(p),
           (\E o \in Ops : \E s, d \in Paths : Plan(o, s, d)) \/ UNCHANGED vars
    PROVE  Orderly(p)'
<1>1. UNCHANGED <<fs, rowid, status, cmd, todo, cur, pc, hash, moved>>
  BY DEF Plan, fileVars, journalVars, procVars, vars
<1>2. \A o \in Ops : Journaled(o) => source'[o] = source[o] /\ destination'[o] = destination[o]
  BY RowsStay DEF Next
<1>3. \A o \in Ops : Journaled(o) => SameRow(o)
  BY <1>1, <1>2 DEF SameRow
<1>4. Stack(p)' = Stack(p) /\ \A o \in Stack(p) : SameRow(o)
  BY <1>1, <1>3 DEF Stack, LiveRow, Journaled, Working
<1>5. Working(p) => /\ cur[p] \in Ops /\ SameRow(cur[p])
                    /\ From(p)' = From(p) /\ To(p)' = To(p)
  BY <1>1, <1>3 DEF TypeInv, WellFormed, SameRow, From, To
<1>6. \A x \in Paths : Was(p, x)' = Was(p, x) /\ (Undoes(p, x)' <=> Undoes(p, x))
  <2>1. CASE Working(p)
    BY <1>1, <1>5, <2>1 DEF Was, Undoes, Working, Touches, SameRow
  <2>2. CASE ~Working(p)
    BY <1>1, <2>2 DEF Was, Undoes, Working
  <2> QED
    BY <2>1, <2>2
<1>7. History(p)'
  BY <1>4, <1>6, HistoryStays DEF Orderly
<1>8. FromTheTop(p)'
  BY <1>1, <1>4 DEF Orderly, FromTheTop
<1>9. OnTop(p)' /\ MovedHashed(p)'
  <2>1. CASE Working(p)
    BY <1>1, <1>4, <1>5, <2>1 DEF Orderly, OnTop, MovedHashed, Working
  <2>2. CASE ~Working(p)
    BY <1>1, <2>2 DEF OnTop, MovedHashed, Working
  <2> QED
    BY <2>1, <2>2
<1>10. Undoing(p)'
  <2> SUFFICES ASSUME Working(p), cmd[p] = "undo" PROVE Undoing(p)'
    BY <1>1 DEF Undoing, Working
  <2>1. ASSUME NEW S, S = Stack(p), NEW c, c = cur[p] PROVE Fits(S, c)'
    BY <1>4, <1>5, <2>1, SameRowsFit DEF Orderly, Undoing
  <2>2. Fits(Stack(p), cur[p])'
    BY <1>1, <1>4, <2>1 DEF Fits
  <2>3. \A x \in Paths : Touches(cur[p], x)' => Was(p, x)' = After(cur[p], x)'
    BY <1>1, <1>5, <1>6 DEF Orderly, Undoing, Touches, After, SameRow
  <2> QED
    BY <1>1, <1>5, <2>2, <2>3 DEF Orderly, Undoing, SameRow
<1> QED
  BY <1>7, <1>8, <1>9, <1>10 DEF Orderly

LEMMA NextKeepsReady ==
    ASSUME Undisturbed, TypeInv, SafeInv, OnceInv, ReadyInv, [Next]_vars
    PROVE  ReadyInv'
<1>1. RowsNumbered'
  BY RowsStayNumbered DEF ReadyInv
<1>2. ASSUME NEW p \in Procs
      PROVE  Failed(p)' \/ Orderly(p)'
  <2>1. CASE Failed(p)
    BY <2>1, FailedStays DEF Undisturbed
  <2>2. CASE Orderly(p)
    <3>1. RowsNumbered
      BY DEF ReadyInv
    <3>2. ASSUME NEW q \in Procs PROVE q = p
      BY DEF Undisturbed, SoleWriter
    <3>3. CASE \E q \in Procs : Step(q)
      BY <2>2, <3>1, <3>2, <3>3, StepKeepsGood
    <3>4. CASE \E q \in Procs : \/ \E batch \in SUBSET Ops : ExecutePlan(q, batch)
                                \/ \E n \in 1..MaxUndo : UndoLast(q, n)
      BY <2>2, <3>1, <3>2, <3>4, CommandsKeepGood
    <3>5. CASE (\E o \in Ops : \E s, d \in Paths : Plan(o, s, d)) \/ UNCHANGED vars
      BY <2>2, <3>5, PlanKeepsGood
    <3>6. ~UserStep /\ \A q \in Procs : ~Abort(q)
      BY DEF Undisturbed, UserStep, UserSaves, UserDeletes, UserMoves, UserMay, Abort, TypeInv, TypeOK
    <3> QED
      BY <3>3, <3>4, <3>5, <3>6 DEF Next, UserStep
  <2> QED
    BY <2>1, <2>2 DEF ReadyInv
<1> QED
  BY <1>1, <1>2 DEF ReadyInv

LEMMA ReadyIsReady ==
    ASSUME TypeInv, ReadyInv, NEW p \in Procs
    PROVE  UndoReady
<1> SUFFICES ASSUME Quiet, \A o \in Ops : ~Phantom(o), NEW o \in Ops, TopRow(o)
             PROVE  PassesUndo(o) /\ HoldsMoved(o)
  BY DEF UndoReady
<1>1. Orderly(p) /\ ~Working(p) /\ pc[p] = "idle"
  BY DEF ReadyInv, Failed, Quiet, Working
<1>2. o \in Stack(p) /\ \A r \in Stack(p) : rowid[r] <= rowid[o]
  BY <1>1 DEF Stack, TopRow
<1>3. source[o] \in Paths /\ destination[o] \in Paths
  BY <1>2 DEF Stack, LiveRow, Journaled, Planned, TypeInv, TypeOK, WellFormed
<1>4. \A x \in Paths : Touches(o, x) => fs[x] = After(o, x)
  BY <1>1, <1>2, RestingShows DEF Orderly, History, LastOn, Undoes
<1>5. moved[o] # NoFile /\ source[o] # destination[o]
  BY <1>1, <1>2 DEF Orderly, History
<1> QED
  BY <1>3, <1>4, <1>5 DEF PassesUndo, HoldsMoved, Exists, Touches, After

(* While nobody else edits the files and no I/O fails: as long as no       *)
(* operation has failed, the newest row can be undone and brings back the  *)
(* file it moved, after any sequence of plans, batches and undos, with any *)
(* number of operations, paths and files (operation.rs:344, 445).  (There  *)
(* has to be a process, for a journal to be opened at all.)                *)
THEOREM NewestRowCanBeUndone ==
    ASSUME Undisturbed, NEW p \in Procs
    PROVE  Spec => []UndoReady
<1>1. Init => TypeInv /\ SafeInv /\ OnceInv /\ ReadyInv
  <2> SUFFICES ASSUME Init PROVE TypeInv /\ SafeInv /\ OnceInv /\ ReadyInv
    OBVIOUS
  <2>1. SafeInv /\ OnceInv
    BY DEF Init, SafeInv, NoLoss, InMove, OnceInv, AtMostOnce, Executing
  <2>2. {o \in Ops : Journaled(o)} = {}
    BY DEF Init, Journaled
  <2>3. RowsNumbered
    BY <2>2, FS_EmptySet DEF RowsNumbered, Numbered
  <2>4. ASSUME NEW q \in Procs PROVE Orderly(q)
    <3>1. Stack(q) = {} /\ ~Working(q) /\ cmd[q] = "none"
      BY <2>2 DEF Init, Stack, LiveRow, Journaled, Working
    <3> QED
      BY <3>1 DEF Orderly, History, FromTheTop, OnTop, MovedHashed, Undoing
  <2> QED
    BY <2>1, <2>3, <2>4, InitTypeInv DEF ReadyInv
<1>2. TypeInv /\ SafeInv /\ OnceInv /\ ReadyInv /\ [Next]_vars
      => TypeInv' /\ SafeInv' /\ OnceInv' /\ ReadyInv'
  BY NextKeepsTypeInv, NextKeepsSafe, NextKeepsOnce, NextKeepsReady, Undisturbed DEF Undisturbed
<1>3. TypeInv /\ ReadyInv => UndoReady
  BY ReadyIsReady
<1> QED
  BY <1>1, <1>2, <1>3, PTL DEF Spec

=============================================================================
