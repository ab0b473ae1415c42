------------------------------ MODULE Routing ------------------------------
(***************************************************************************)
(* How a file is classified (main.rs, classify_auto): by the gateway under *)
(* a licence that has online AI, by the provider of the user's own API     *)
(* key, or locally.  A plan classifies its files one by one; each of them  *)
(* reads the clock, waits for the licence mutex, reads the key, and waits  *)
(* for what it asks, while the user, the server and the clock go on.       *)
(***************************************************************************)
EXTENDS License

CONSTANTS
    Commands,   \* plan_organize commands in progress, of a task the cloud provider supports
    Environments,   \* what the environment may say
    MaxFiles    \* most files a plan has

Steps == {"idle", "clock", "lock", "gateway", "key", "load", "cloud", "local"}

ASSUME RoutingAssumption ==
    /\ MaxFiles \in Nat
    /\ Environments \subseteq [key : BOOLEAN, direct : BOOLEAN]

VARIABLES
    key,        \* the file holds the user's API key
    env,        \* what the environment says: a key, and direct access
    pc,         \* each command's step
    left,       \* the files it has not classified, this one included
    sampled,    \* the time it has read, while it waits for the mutex
    cfg,        \* its copy of the AiModeConfig, until it ends: a mode that is
                \* not local, with the opt-in
    \* history, of the file a command is at
    shown,      \* recipients the status has had to show since it began
    sentTo      \* recipients it has gone to

routingVars == <<key, env, pc, left, sampled, cfg, shown, sentTo>>
onlineVars == <<licenseVars, routingVars>>

RoutingTypeOK ==
    /\ LicenseTypeOK
    /\ key \in BOOLEAN
    /\ env \in Environments
    /\ pc \in [Commands -> Steps]
    /\ left \in [Commands -> 0 .. MaxFiles]
    /\ sampled \in [Commands -> Nat]
    /\ cfg \in [Commands -> BOOLEAN]
    /\ shown \in [Commands -> SUBSET {"gateway", "cloud"}]
    /\ sentTo \in [Commands -> SUBSET {"gateway", "cloud"}]

-----------------------------------------------------------------------------
(* The key and the status *)

(* load_byok_config: the stored key, else one of the environment. *)
Configured == key \/ env.key

(* get_active_ai_status_cmd *)
ActiveTier(t) ==
    CASE Enabled(ent, t) -> "pro_online"
      [] ~Enabled(ent, t) /\ Configured -> "byok"
      [] OTHER -> "local"

SaveKey ==
    /\ key' = TRUE
    /\ UNCHANGED <<licenseVars, env, pc, left, sampled, cfg, sentTo>>

(* clear_byok_config_cmd *)
ClearKey ==
    /\ key' = FALSE
    /\ UNCHANGED <<licenseVars, env, pc, left, sampled, cfg, sentTo>>

-----------------------------------------------------------------------------
(* The classification of a file *)

Goto(c, step) == pc' = [pc EXCEPT ![c] = step]
At(c, step) == pc[c] = step

Quiet == UNCHANGED <<licenseVars, key, env>>

(* plan_organize is called with some files.  It copies the AiModeConfig,   *)
(* as the user has set it last (set_ai_mode_cmd), for classify_auto, which *)
(* does not look at it.                                                    *)
Begin(c) ==
    /\ At(c, "idle")
    /\ \E n \in 1 .. MaxFiles : left' = [left EXCEPT ![c] = n]
    /\ \E consent \in BOOLEAN : cfg' = [cfg EXCEPT ![c] = consent]
    /\ sentTo' = [sentTo EXCEPT ![c] = {}]
    /\ Goto(c, "clock")
    /\ UNCHANGED sampled
    /\ Quiet

(* The time is read before the mutex is waited for... *)
ReadClock(c) ==
    /\ At(c, "clock")
    /\ sampled' = [sampled EXCEPT ![c] = now]
    /\ Goto(c, "lock")
    /\ UNCHANGED <<left, cfg, sentTo>>
    /\ Quiet

(* ... and is what the licence is held against. *)
LookAtLicense(c) ==
    /\ At(c, "lock")
    /\ asking = "none"
    /\ Goto(c, IF Enabled(ent, sampled[c]) THEN "gateway" ELSE "key")
    /\ sentTo' = [sentTo EXCEPT ![c] =
          IF Enabled(ent, sampled[c]) THEN {"gateway"} ELSE {}]
    /\ sampled' = [sampled EXCEPT ![c] = 0]
    /\ UNCHANGED <<left, cfg>>
    /\ Quiet

\* Faulty: the next file goes where this one went.
FirstAlways(c) == IF sentTo[c] = {} THEN "clock" ELSE "load"

First(c) == "clock"

\* Faulty: one file too many.
LastFileLate(c) == left[c] = 0

LastFile(c) == left[c] = 1

(* The file has its result: the next one, or the end of the plan. *)
Serve(c) ==
    /\ cfg' = [cfg EXCEPT ![c] = @ /\ ~LastFile(c)]
    /\ left' = [left EXCEPT ![c] = @ - 1]
    /\ sentTo' = [sentTo EXCEPT ![c] = {}]
    /\ Goto(c, IF LastFile(c) THEN "idle" ELSE First(c))
    /\ UNCHANGED sampled
    /\ Quiet

(* The body is a result, bare or under "result". *)
GatewayAnswers(c) == At(c, "gateway") /\ Serve(c)

\* Faulty: the file is begun again.
AfterFailureAgain == "clock"

AfterFailure == "key"

(* No answer, an error status, or a body that is no result: the next tier. *)
GatewayFails(c) ==
    /\ At(c, "gateway")
    /\ Goto(c, AfterFailure)
    /\ UNCHANGED <<left, sampled, cfg, sentTo>>
    /\ Quiet

(* load_byok_config, once for every file. *)
LoadKey(c) ==
    /\ At(c, "key")
    /\ Goto(c, IF Configured THEN "load" ELSE "local")
    /\ UNCHANGED <<left, sampled, cfg, sentTo>>
    /\ Quiet

(* CloudProvider::classify sends only if direct access is on. *)
SendToCloud(c) ==
    /\ At(c, "load")
    /\ Goto(c, IF env.direct THEN "cloud" ELSE "local")
    /\ sentTo' = [sentTo EXCEPT ![c] = IF env.direct THEN @ \cup {"cloud"} ELSE @]
    /\ UNCHANGED <<left, sampled, cfg>>
    /\ Quiet

(* parse_ai_json finds a category, and a confidence from 0 to 1. *)
CloudAnswers(c) == At(c, "cloud") /\ Serve(c)

CloudFails(c) ==
    /\ At(c, "cloud")
    /\ Goto(c, "local")
    /\ UNCHANGED <<left, sampled, cfg, sentTo>>
    /\ Quiet

(* The bundled model, or the heuristic if it does not load or the task is  *)
(* not its own: neither ever fails.                                        *)
ClassifyLocally(c) == At(c, "local") /\ Serve(c)

-----------------------------------------------------------------------------
(* The system *)

(* The licence goes on beside the commands; a restart ends them.           *)
LicenseStep ==
    /\ (\E kind \in {"activate", "refresh"} : Ask(kind)) \/ Answered \/ Tick
    /\ UNCHANGED <<key, env, pc, left, sampled, cfg, sentTo>>

RestartAll ==
    /\ Restart
    /\ pc' = [c \in Commands |-> "idle"]
    /\ left' = [c \in Commands |-> 0]
    /\ sampled' = [c \in Commands |-> 0]
    /\ cfg' = [c \in Commands |-> FALSE]
    /\ sentTo' = [c \in Commands |-> {}]
    /\ UNCHANGED <<key, env>>

\* What waits for no one.
OwnStep(c) == ReadClock(c) \/ LoadKey(c) \/ SendToCloud(c) \/ ClassifyLocally(c)

NetworkStep(c) ==
    GatewayAnswers(c) \/ GatewayFails(c) \/ CloudAnswers(c) \/ CloudFails(c)

RoutingInit ==
    /\ key = FALSE
    /\ env \in Environments
    /\ pc = [c \in Commands |-> "idle"]
    /\ left = [c \in Commands |-> 0]
    /\ sampled = [c \in Commands |-> 0]
    /\ cfg = [c \in Commands |-> FALSE]
    /\ shown = [c \in Commands |-> {}]
    /\ sentTo = [c \in Commands |-> {}]

OnlineInit == LicenseInit /\ RoutingInit

Act ==
    \/ LicenseStep
    \/ RestartAll
    \/ SaveKey \/ ClearKey
    \/ \E c \in Commands : Begin(c) \/ LookAtLicense(c) \/ OwnStep(c) \/ NetworkStep(c)

(* What the status would show (a key beside a licence serves when the      *)
(* gateway fails), at a time the command may go by: now, or, while it      *)
(* waits for the mutex, when it has read the clock.                        *)
Times(c) == IF At(c, "lock") THEN {sampled[c], now} ELSE {now}

ShownAt(t) ==
    CASE ActiveTier(t) = "local" -> {}
      [] ActiveTier(t) = "byok" -> {"cloud"}
      [] OTHER -> {"gateway"} \cup (IF Configured THEN {"cloud"} ELSE {})

ShownNow(c) == UNION {ShownAt(t) : t \in Times(c)}

\* A file begins when the one before it, or the command, ends or begins.
Recall ==
    shown' = [c \in Commands |->
        CASE pc'[c] = "idle" -> {}
          [] pc'[c] # "idle" /\ left'[c] # left[c] -> ShownNow(c)'
          [] OTHER -> shown[c] \cup ShownNow(c)']

OnlineNext == Act /\ Recall

(* A command goes on unless it waits for someone, and the mutex is given   *)
(* in the order it was asked for.  Not assumed: that a server ever answers *)
(* or a request ever fails; no client has a timeout (ai.rs:984,            *)
(* online.rs:21, license.rs:248, main.rs:873).                             *)
OnlineFairness ==
    \A c \in Commands :
        /\ WF_onlineVars(OwnStep(c) /\ Recall)
        /\ SF_onlineVars(LookAtLicense(c) /\ Recall)

OnlineSpec == OnlineInit /\ [][OnlineNext]_onlineVars /\ OnlineFairness

-----------------------------------------------------------------------------
(* Properties *)

(* A file goes only where the status (main.rs:299) would have said so      *)
(* since its classification began, by the clock or by the time that was    *)
(* read before the mutex was waited for: a key cleared, or a licence       *)
(* lapsed or withdrawn, in the middle of a plan stops every file but the   *)
(* one in progress (classify_auto reads both for each file,                *)
(* main.rs:850-907).  The status does not ask for the AI mode either.      *)
SentOnlyWhereShown == \A c \in Commands : sentTo[c] \subseteq shown[c]

(* "Local => false" (mode.rs:45) and "only selected file content           *)
(* transmitted when online_opt_in && entitlement valid" (online.rs:60): no *)
(* file of a plan leaves the computer unless the plan was begun with a     *)
(* mode that is not local and with the opt-in.  The code does not keep     *)
(* this: classify_auto takes the configuration as _ai_mode_cfg.            *)
SentOnlyWithConsent == \A c \in Commands : sentTo[c] # {} => cfg[c]

\* The one answer a command waits for.
AwaitsLicense(c) == At(c, "lock") /\ asking # "none"

(* A plan comes to its end, whatever fails, or waits for ever for one      *)
(* answer, its own or that of the licence command that holds the mutex:    *)
(* no failure, fallback or withdrawn licence keeps it going round, and     *)
(* commands that take the mutex again and again do not keep it out         *)
(* (main.rs:848-944, 978-1012).                                            *)
PlanCompletes ==
    \A c \in Commands :
        \/ []<>At(c, "idle")
        \/ <>[]At(c, "gateway") \/ <>[]At(c, "cloud") \/ <>[]AwaitsLicense(c)

=============================================================================
