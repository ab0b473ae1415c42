------------------------------- MODULE Lease -------------------------------
(***************************************************************************)
(* What a licence promises: online AI is on up to a deadline the server    *)
(* has set, and nothing but a new word of the server puts the deadline     *)
(* off.  The deadline is kept on disk too; a restart goes back to that     *)
(* copy, and a copy may fail to be made or be lost.                        *)
(***************************************************************************)
EXTENDS Naturals

VARIABLES
    time,       \* the clock
    deadline,   \* online AI is on before this time
    copy,       \* the deadline on disk
    on          \* online AI is on

lease == <<time, deadline, copy, on>>

\* Online AI follows the deadline; one of 0 is no lease.
Follows == on' = (time' < deadline')

LeaseInit == deadline = 0 /\ copy = 0 /\ time \in Nat /\ on = FALSE

Pass == /\ time' \in Nat /\ time' # time
        /\ Follows
        /\ UNCHANGED <<deadline, copy>>

Grant == /\ deadline' \in Nat
         /\ Follows
         /\ copy' \in {deadline', copy, 0}
         /\ UNCHANGED time

Restart == deadline' = copy /\ Follows /\ UNCHANGED <<time, copy>>

LeaseNext == Pass \/ Grant \/ Restart

LeaseSpec == LeaseInit /\ [][LeaseNext]_lease

=============================================================================
