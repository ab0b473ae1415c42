----------------------------- MODULE Providers -----------------------------
(***************************************************************************)
(* The core's own routing (ai.rs, mode.rs, online.rs), beside the shell's  *)
(* classify_auto: a table of providers to choose from, and a classifier    *)
(* that asks the local model first and the gateway if need be.             *)
(***************************************************************************)
EXTENDS Naturals, FiniteSetsExt

Tasks == {"ClassifyFile", "DescribeImage", "SuggestFilename", "SuggestFolder",
          "DetectSemanticDuplicate", "GenerateTags", "SemanticSearch", "SummarizeDocument"}

Modes == {"local", "hybrid", "online"}

\* From this priority on a provider is online.
OnlinePriority == 20

Provider == [text : BOOLEAN, vision : BOOLEAN, embeddings : BOOLEAN,
             priority : Nat, enabled : BOOLEAN]

(* AiProviderConfig::supports, by capability. *)
Supports(p, task) ==
    CASE task = "DescribeImage" -> p.vision
      [] task \in {"DetectSemanticDuplicate", "SemanticSearch"} -> p.embeddings
      [] OTHER -> p.text

(* What each kind of provider says of itself: its tasks, ... *)
OwnTasks(kind) ==
    CASE kind = "heuristic" ->
            {"ClassifyFile", "SuggestFolder", "SuggestFilename", "GenerateTags"}
      [] kind = "bundled" ->
            {"ClassifyFile", "SemanticSearch", "DetectSemanticDuplicate", "GenerateTags"}
      [] kind = "cloud" ->
            {"ClassifyFile", "SuggestFilename", "SuggestFolder", "GenerateTags",
             "SummarizeDocument"}
      [] kind = "gateway" ->
            {"ClassifyFile", "DescribeImage", "GenerateTags", "SuggestFolder",
             "SuggestFilename", "SummarizeDocument"}

Kinds == {"heuristic", "bundled", "cloud", "gateway"}

(* ... its capabilities and its priority. *)
Declared(kind) ==
    [text       |-> TRUE,
     vision     |-> kind = "gateway",
     embeddings |-> kind = "bundled",
     priority   |-> CASE kind = "heuristic" -> 1 [] kind = "bundled" -> 10 [] OTHER -> OnlinePriority,
     enabled    |-> TRUE]

\* The last of those with the highest priority, 0 if there is none.
Best(table, I) ==
    LET best == {i \in I : \A j \in I : table[j].priority <= table[i].priority} IN
    IF I = {} THEN 0 ELSE Max(best)

Fit(table, task) == {i \in DOMAIN table : table[i].enabled /\ Supports(table[i], task)}

(* AiRouter::route *)
Route(table, task) == Best(table, Fit(table, task))

\* Faulty: a provider that is not online is left out too.
AllowedInMode(p, mode, available) ==
    (p.priority >= OnlinePriority) = (mode # "local" /\ available)

\* The user's consent (online_opt_in) is not asked for here.
Allowed(p, mode, available) ==
    p.priority >= OnlinePriority => mode # "local" /\ available

(* AiRouter::route_with_mode *)
RouteWithMode(table, task, mode, available) ==
    Best(table, {i \in Fit(table, task) : Allowed(table[i], mode, available)})

-----------------------------------------------------------------------------
(* hybrid_classify *)

(* AiModeConfig::should_try_online *)
ShouldTryOnline(cfg, confidence, available) ==
    /\ cfg.optIn
    /\ available
    /\ CASE cfg.mode = "local"  -> FALSE
         [] cfg.mode = "online" -> TRUE
         [] cfg.mode = "hybrid" -> confidence < cfg.threshold

\* Faulty: what the user has not consented to is asked.
AsksUnconsented(cfg, confidence, available) ==
    \/ cfg.mode = "hybrid" /\ ShouldTryOnline(cfg, confidence, available)
    \/ cfg.mode = "online" /\ available

\* The two modes test the same things in two places.
Asks(cfg, confidence, available) ==
    \/ cfg.mode = "hybrid" /\ ShouldTryOnline(cfg, confidence, available)
    \/ cfg.mode = "online" /\ available /\ cfg.optIn

(* request_capability asks the licence again, which may have ended since.  *)
Request(asked, enabled, answered) ==
    [sent |-> asked /\ enabled, result |-> asked /\ enabled /\ answered]

(* What happens on the way: there is a client; the licence is good when    *)
(* first asked, and when the request is made; the gateway answers.         *)
HybridClassify(cfg, local, way) ==
    LET r == Request(way.client /\ Asks(cfg, local, way.before), way.enabled, way.answered)
    IN  [by |-> IF r.result THEN "online" ELSE "local", sent |-> r.sent]

=============================================================================
