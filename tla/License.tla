------------------------------ MODULE License ------------------------------
(***************************************************************************)
(* The licence of the shell: LicenseManager (license.rs) behind the mutex  *)
(* of the licence commands (main.rs).  A command holds the mutex while it  *)
(* waits for the server; time passes meanwhile.  The server may answer     *)
(* whatever Answers holds: an answer without a session, or any other       *)
(* error, is a failure.                                                    *)
(***************************************************************************)
EXTENDS Integers

CONSTANTS
    Answers,    \* successful answers of the server
    Absent,     \* a field that is not there
    Grace,      \* LICENSE_GRACE_SECS
    Term,       \* what a grant without an end lasts
    MaxNow,     \* bound on the clock
    MaxGrants   \* bound on the grants of the server

Plans    == {"lite", "pro", "other"}
Statuses == {"active", "canceled", "past_due"}

Answer == [plan    : Plans \cup {Absent},
           status  : Statuses \cup {Absent},
           expires : Nat \cup {Absent},
           period  : Nat \cup {Absent},
           credits : Nat \cup {Absent},
           session : {"", "token"}]

Entitlement == [status  : Statuses,
                ai      : BOOLEAN,
                expires : Nat,
                period  : Nat \cup {Absent},
                credits : Nat \cup {Absent},
                token   : {"", "token"}]

ASSUME LicenseAssumption ==
    /\ Answers \subseteq Answer
    /\ Absent \notin Nat \cup Plans \cup Statuses \cup Entitlement
    /\ Grace \in Nat /\ Term \in Nat
    /\ MaxNow \in Nat /\ MaxGrants \in Nat

VARIABLES
    now,        \* the clock
    ent,        \* LicenseManager.entitlement
    cached,     \* the entitlement in the credentials file
    asking,     \* the command that holds the mutex and waits for the server
    grants,     \* history: grants received
    unstored    \* history: a store of an entitlement has failed

licenseVars == <<now, ent, cached, asking, grants, unstored>>

LicenseTypeOK ==
    /\ now \in Nat
    /\ ent \in Entitlement \cup {Absent}
    /\ cached \in Entitlement \cup {Absent}
    /\ asking \in {"none", "activate", "refresh"}
    /\ grants \in Nat
    /\ unstored \in BOOLEAN

-----------------------------------------------------------------------------
(* The entitlement and the clock *)

\* Faulty: a canceled subscription lasts as long as its entitlement.
PeriodOverIgnored(e, t) == e.status = "canceled" /\ e.period # Absent

PeriodRuns(e, t) == e.status = "canceled" /\ e.period # Absent /\ t < e.period

IsValid(e, t) == t < e.expires /\ (e.status = "active" \/ PeriodRuns(e, t))

InGrace(e, t) == IsValid(e, t) \/ t < e.expires + Grace

Entitled(e) == e.ai /\ (e.credits = Absent \/ e.credits > 0)

(* LicenseManager::check *)
Check(e, t) ==
    CASE e = Absent    -> "activation_required"
      [] e # Absent /\ IsValid(e, t) -> "active"
      [] e # Absent /\ ~IsValid(e, t) /\ InGrace(e, t) -> "offline_grace"
      [] OTHER         -> "expired"

\* Faulty: the end of the entitlement is not looked at.
EnabledEndless(e, t) ==
    e # Absent /\ Entitled(e) /\ (e.status = "active" \/ PeriodRuns(e, t))

(* LicenseManager::is_online_ai_enabled *)
Enabled(e, t) ==
    /\ e # Absent
    /\ Entitled(e)
    /\ IsValid(e, t) \/ InGrace(e, t)
    /\ e.status = "active" \/ PeriodRuns(e, t)

\* What new() accepts of an entitlement whose signature is empty, as those
\* that activate and refresh make are: it has a session.
Accepted(e) == IF e # Absent /\ e.token # "" THEN e ELSE Absent

-----------------------------------------------------------------------------
(* Activation and refresh *)

Given(field, default) == IF field = Absent THEN default ELSE field

(* A refresh takes the cached entitlement, "online_ai" or "none", for a    *)
(* plan it is not given: neither is the name of a plan.                    *)
Plan(kind, a) == Given(a.plan, IF kind = "activate" THEN "lite" ELSE "other")

Status(kind, a) == Given(a.status, IF kind = "activate" THEN "active" ELSE ent.status)

\* Faulty: the session is taken from another field.
SessionOfPlan(a) == a.plan

Session(a) == a.session

Granted(kind, a) ==
    [status  |-> Status(kind, a),
     ai      |-> Plan(kind, a) \in {"lite", "pro"},
     expires |-> Given(a.expires, now + Term),
     period  |-> a.period,
     credits |-> a.credits,
     token   |-> Session(a)]

Ask(kind) ==
    /\ asking = "none"
    /\ kind = "refresh" => ent # Absent
    /\ asking' = kind
    /\ UNCHANGED <<now, ent, cached, grants, unstored>>

\* Faulty: what is stored is the entitlement so far.
StoredSoFar(e) == ent

Stored(e) == e

(* The answer is a grant: cache_entitlement stores it, whatever comes of   *)
(* that, and takes it.  A failed store leaves the file or ruins it.        *)
Grant(a) ==
    LET e == Granted(asking, a) IN
    /\ asking # "none"
    /\ grants < MaxGrants
    /\ grants' = grants + 1
    /\ ent' = e
    /\ \/ cached' = Stored(e) /\ UNCHANGED unstored
       \/ cached' \in {cached, Absent} /\ unstored' = TRUE
    /\ asking' = "none"
    /\ UNCHANGED now

(* The request or the server fails, or the server refuses: every error     *)
(* return leaves the entitlement and the file as they are, a refusal with  *)
(* SUBSCRIPTION_EXPIRED too; what it returns only decides what is shown.   *)
Fail ==
    /\ asking # "none"
    /\ asking' = "none"
    /\ UNCHANGED <<now, ent, cached, grants, unstored>>

-----------------------------------------------------------------------------
(* Time and restarts *)

(* The wall clock goes on, and may be set, forward or back. *)
Tick ==
    /\ now' \in 0 .. MaxNow
    /\ now' # now
    /\ UNCHANGED <<ent, cached, asking, grants, unstored>>

(* The application ends, or is killed, and starts again. *)
Restart ==
    /\ ent' = Accepted(cached)
    /\ asking' = "none"
    /\ UNCHANGED <<now, cached, grants, unstored>>

LicenseInit ==
    /\ now = 0
    /\ ent = Absent /\ cached = Absent
    /\ asking = "none"
    /\ grants = 0
    /\ unstored = FALSE

Answered == (\E a \in Answers : Grant(a)) \/ Fail

LicenseNext ==
    \/ \E kind \in {"activate", "refresh"} : Ask(kind)
    \/ Answered
    \/ Tick
    \/ Restart

LicenseSpec == LicenseInit /\ [][LicenseNext]_licenseVars

-----------------------------------------------------------------------------
(* Properties *)

(* When online AI ends if the server is not heard again: 72 hours after    *)
(* the entitlement, a canceled subscription no later than its period.      *)
Deadline(e) ==
    IF e = Absent \/ ~Entitled(e) \/ e.status = "past_due"
       \/ (e.status = "canceled" /\ e.period = Absent)
    THEN 0
    ELSE LET end == e.expires + Grace IN
         IF e.status = "canceled" /\ e.period < end THEN e.period ELSE end

L == INSTANCE Lease WITH time <- now,
                         deadline <- Deadline(ent),
                         copy <- Deadline(Accepted(cached)),
                         on <- Enabled(ent, now)

(* is_online_ai_enabled (license.rs:293-314), built from a validity, a     *)
(* grace and a period that each ask the clock, amounts to one deadline,    *)
(* which only a grant of the server, or a restart from the file, moves.    *)
ImplementsLease == L!LeaseSpec

(* Online AI never comes back by itself: once it is off, only a grant of   *)
(* the server turns it on, as long as every grant has been stored.  If     *)
(* one has not, the restart brings back the licence the server has since   *)
(* withdrawn: cache_entitlement ignores the result (license.rs:322-327).   *)
(* A clock that is set back brings back what had lapsed: nothing in the    *)
(* code remembers a later time (license.rs:121-141).                        *)
NoRevival ==
    [][~unstored /\ now' >= now /\ ~Enabled(ent, now) /\ Enabled(ent', now')
          => grants' > grants]_licenseVars

(* The two sides of what the widget is shown (main.rs:60-71) agree: online *)
(* AI is on only under a licence whose state is active or offline_grace.   *)
EnabledIsLicensed ==
    Enabled(ent, now) => Check(ent, now) \in {"active", "offline_grace"}

=============================================================================
