----------------------------- MODULE FileStore -----------------------------
(***************************************************************************)
(* What Broomed promises about the user's files, without saying how.       *)
(*                                                                         *)
(* `at[f]` is the set of paths at which the contents of file f are intact  *)
(* and `edits` counts what the user does to the files by hand.  Broomed    *)
(* moves a file, copies it to a vacant path and drops a copy while another *)
(* one remains.  It never writes over a file and never drops the last copy *)
(* (README.md:12, "atomically with hash verification"; README.md:76, "No   *)
(* overwrites").  Only the user saves new files and deletes them.          *)
(***************************************************************************)
EXTENDS Naturals

CONSTANTS
    Files,      \* file contents, told apart by their hash
    Paths       \* places in the file system

VARIABLES
    at,         \* [Files -> SUBSET Paths], where each file is found intact
    edits       \* number of the user's own edits so far

storeVars == <<at, edits>>

(* No intact file is found at path x. *)
Vacant(x) == \A f \in Files : x \notin at[f]

(* Each file starts at one place at most, and each path holds at most one. *)
Init ==
    /\ at \in [Files -> SUBSET Paths]
    /\ \A f, g \in Files : \A x \in at[f], y \in at[g] : x = y <=> f = g
    /\ edits = 0

(* A file leaves x and is found at the vacant path y, in one step. *)
Relocate(f, x, y) ==
    /\ x \in at[f]
    /\ Vacant(y)
    /\ at' = [at EXCEPT ![f] = (@ \ {x}) \cup {y}]

(* A second copy of a file appears at a vacant path. *)
Duplicate(f, y) ==
    /\ at[f] # {}
    /\ Vacant(y)
    /\ at' = [at EXCEPT ![f] = @ \cup {y}]

(* One copy of a file is dropped while another one stays. *)
DropCopy(f, x) ==
    /\ x \in at[f]
    /\ at[f] # {x}
    /\ at' = [at EXCEPT ![f] = @ \ {x}]

Broomed ==
    /\ \E f \in Files, x \in Paths :
          \/ \E y \in Paths : Relocate(f, x, y)
          \/ Duplicate(f, x)
          \/ DropCopy(f, x)
    /\ UNCHANGED edits

User ==
    /\ \E f \in Files : \E S \in SUBSET Paths : at' = [at EXCEPT ![f] = S]
    /\ edits' = edits + 1

Next == Broomed \/ User

Spec == Init /\ [][Next]_storeVars
=============================================================================
