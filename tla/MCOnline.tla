------------------------------ MODULE MCOnline ------------------------------
(* Instances of License and Routing for TLC. *)
EXTENDS Routing

Base == [plan |-> "pro", status |-> "active", expires |-> Absent,
         period |-> Absent, credits |-> Absent, session |-> "token"]

\* A full grant; an answer without a plan; a canceled subscription whose
\* period ends before the entitlement, with an empty session, which does not
\* survive a restart; a lapsed subscription.
MCAnswers ==
    {Base,
     [Base EXCEPT !.plan = Absent, !.status = Absent, !.credits = 0],
     [Base EXCEPT !.status = "canceled", !.expires = 2, !.period = 1, !.session = ""],
     [Base EXCEPT !.status = "past_due", !.expires = 2]}

\* The user's machine, and a developer's.
MCEnvironments == {[key |-> FALSE, direct |-> FALSE], [key |-> FALSE, direct |-> TRUE]}

=============================================================================
