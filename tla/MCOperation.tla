---------------------------- MODULE MCOperation ----------------------------
(* Instances of Operation for TLC. *)
EXTENDS Operation, TLC

(* Processes, identifiers, paths and contents are interchangeable, and no  *)
(* run of this module checks liveness.                                     *)
Symmetry == Permutations(Procs) \cup Permutations(Ops)
            \cup Permutations(Paths) \cup Permutations(Files)

=============================================================================
