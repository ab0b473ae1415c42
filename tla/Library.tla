------------------------------ MODULE Library ------------------------------
(***************************************************************************)
(* The parts that stand by themselves: of the core library what keeps      *)
(* state (ModelInstall, Index) and what is a function of its arguments,    *)
(* called with each argument of a small set; of the widget, the dragging   *)
(* of the mascot (Drag).  They share nothing, so that one of them moves in *)
(* a behaviour while the rest rest.                                        *)
(***************************************************************************)
EXTENDS ModelInstall, Index, Search, Watch, Folders, Providers, Analysis, Drag

CONSTANTS
    Arguments   \* for each function of the library, what it is called with

(* The arguments have the types of the functions' parameters, of any size; *)
(* a tree's links are resolved, and its entries come in any order.         *)
ASSUME SearchAssumption ==
    \A x \in Arguments["search"] : Searchable(x.known, x.rows, x.limit)
ASSUME DebounceAssumption ==
    \A x \in Arguments["debounce"] :
        /\ x.window \in Nat
        /\ x.events \in Seq(Range(x.events)) /\ Timed(Range(x.events))
ASSUME WalkAssumption ==
    \A x \in Arguments["walk"] : WalkAsked(x.fs, x.base, x.budget, x.order)
ASSUME ValidateAssumption ==
    \A x \in Arguments["validate"] :
        /\ Tree(x.fs) /\ x.base \in Seq(Names)
        /\ x.path.absolute \in BOOLEAN
        /\ x.path.names \in Seq(Names \cup {".", ".."})
ASSUME RouteAssumption   == \A x \in Arguments["route"] : x.table \in Seq(Provider)
ASSUME ExtractAssumption == \A x \in Arguments["extract"] : x.raw \in Seq(Marks)

VARIABLES
    part,       \* the part that moves
    asked,      \* the call that has just returned, Quiet if there is none
    answer      \* its results

callVars == <<asked, answer>>
libraryVars == <<part, callVars, installVars, indexVars, dragVars>>

Quiet == [to |-> "none"]

LibraryTypeOK ==
    /\ part \in {"models", "index", "functions", "drag"}
    /\ InstallTypeOK
    /\ IndexTypeOK
    /\ DragTypeOK

-----------------------------------------------------------------------------

Answer(to, x) ==
    CASE to = "search"   -> SearchHybrid(x.query, x.known, x.rows, x.embeds, x.limit)
      [] to = "debounce" -> [timed   |-> DebounceTimed(x.events, x.window),
                             untimed |-> Debounce(At(x.events, {i \in DOMAIN x.events :
                                             ~Ignored(x.config, x.events[i].path)}))]
      [] to = "walk"     -> Walk(x.fs, x.base, x.budget, x.order)
      [] to = "validate" -> ValidatePath(x.fs, x.path, x.base)
      [] to = "route"    -> [plain   |-> Route(x.table, x.task),
                             offline |-> RouteWithMode(x.table, x.task, x.mode, FALSE),
                             online  |-> RouteWithMode(x.table, x.task, x.mode, TRUE)]
      [] to = "hybrid"   -> LET local == ClassifyBundled(x.ext, x.local, x.exemplars) IN
                            [local   |-> local,
                             outcome |-> HybridClassify(x.cfg, local.confidence, x.way)]
      [] to = "analyze"  -> [one |-> Analyze(x.file, x.one, x.fails),
                             two |-> Analyze(x.file, x.two, x.fails)]
      [] to = "extract"  -> ExtractJson(x.raw)

CallFunction(to) ==
    /\ asked = Quiet
    /\ \E x \in Arguments[to] :
          /\ asked' = [to |-> to, with |-> x]
          /\ answer' = Answer(to, x)

Done == asked # Quiet /\ asked' = Quiet /\ answer' = Quiet

LibraryInit ==
    /\ part \in {"models", "index", "functions", "drag"}
    /\ asked = Quiet /\ answer = Quiet
    /\ InstallInit
    /\ IndexInit
    /\ DragInit /\ (part = "drag" \/ system = CHOOSE s \in Systems : TRUE)

LibraryNext ==
    /\ UNCHANGED part
    /\ \/ part = "models" /\ InstallNext /\ UNCHANGED <<callVars, indexVars, dragVars>>
       \/ part = "index" /\ IndexNext /\ UNCHANGED <<callVars, installVars, dragVars>>
       \/ part = "drag" /\ DragNext /\ UNCHANGED <<callVars, installVars, indexVars>>
       \/ /\ part = "functions"
          /\ Done \/ \E to \in DOMAIN Arguments : CallFunction(to)
          /\ UNCHANGED <<installVars, indexVars, dragVars>>

LibrarySpec == LibraryInit /\ [][LibraryNext]_libraryVars

-----------------------------------------------------------------------------
(* Properties of the functions *)

Answered(to, Holds(_, _)) == asked.to = to => Holds(asked.with, answer)

(* A search lists known files, each once, and no more than it was asked    *)
(* for: "dedup" (search.rs:162), unless a file has embeddings of several   *)
(* models.  Then the results by meaning alone (search.rs:192) list it for  *)
(* each of them; Index!OneEmbedding says when that cannot be.              *)
SearchOnce ==
    Answered("search", LAMBDA x, found :
        /\ Len(found) <= x.limit
        /\ Range(found) \subseteq x.known
        /\ EachOnce(Files(x.rows)) => EachOnce(found))

(* "LIKE matches boosted" (search.rs:160): if the limit leaves room, a     *)
(* file that matches by name is found.  Not so a file that has no          *)
(* embedding yet, when no other result is any good by its meaning: the     *)
(* results by meaning alone then replace those by name.                    *)
SearchFindsNames ==
    Answered("search", LAMBDA x, found :
        x.limit >= Cardinality(x.known) + Len(x.rows) =>
            \A f \in Matching(x.query, x.known) \ Range(found) :
                LET seen == Scored(x.rows, x.known) IN
                f \notin Range(Files(seen)) /\ \A i \in DOMAIN seen : seen[i].score < 1)

(* Of each path, the results are the ends of its bursts, in order: no      *)
(* last event is lost (watcher.rs:80), as long as the clock that gave the  *)
(* times has not been set back.  If nothing ends a burst they are, in      *)
(* another order, what debounce_events says.                               *)
Debounced ==
    Answered("debounce", LAMBDA x, result :
        InOrder(x.events) =>
            /\ \A p \in {e.path : e \in Range(x.events)} :
                  Of(p, result.timed) = BurstEnds(Of(p, x.events), x.window)
            /\ Range(result.untimed) =
                  {e \in Range(DebounceTimed(x.events, Latest(x.events))) :
                      ~Ignored(x.config, e.path)})

(* Whatever the order the entries come in, a walk lists every visible file *)
(* once, or fails if there are more than the budget has (fs.rs:118-139).   *)
WalkExact ==
    Answered("walk", LAMBDA x, found :
        LET base == Resolved(x.fs, x.base)
            visible == Visible(x.fs, base, x.budget)
        IN  IF Found(x.fs, base).kind # "dir" THEN found = NoBase
            ELSE IF Cardinality(visible) > x.budget.files THEN found = TooMany
            ELSE found.ends = "ok" /\ EachOnce(found.files) /\ Range(found.files) = visible)

(* A path that is accepted lies below the base and has no link on its way, *)
(* and nothing that is not there yet can be reached through one; what was  *)
(* accepted is accepted again, as itself: plan_move hands it on.           *)
ValidatedStraight ==
    Answered("validate", LAMBDA x, valid :
        valid.ok =>
            /\ Below(valid.place, Resolved(x.fs, x.base))
            /\ Straight(x.fs, valid.place)
            /\ ValidatePath(x.fs, [absolute |-> TRUE, names |-> valid.place], x.base) = valid)

(* To be online only adds to what can be done: no task is served then by a *)
(* provider of a lower priority, and without it, or in local mode, by a    *)
(* local one or by none (ai.rs:1201); a provider alone in the table gets   *)
(* the tasks it supports itself.                                           *)
OnlineOnlyAdds ==
    Answered("route", LAMBDA x, chosen :
        LET rank(i) == IF i = 0 THEN 0 ELSE x.table[i].priority + 1 IN
        /\ rank(chosen.offline) <= rank(chosen.online)
        /\ rank(chosen.online) <= rank(chosen.plain)
        /\ rank(chosen.offline) <= OnlinePriority
        /\ x.mode = "local" => chosen.online = chosen.offline
        /\ \A i \in Fit(x.table, x.task) :
              x.table[i].priority < OnlinePriority => rank(i) <= rank(chosen.offline)
        /\ \A kind \in Kinds : x.task \in OwnTasks(kind) => Route(<<Declared(kind)>>, x.task) = 1)

(* "privacy: only selected file content transmitted when online_opt_in &&  *)
(* entitlement valid" (ai.rs:1240): it is, whatever ends between the check *)
(* and the request, and in hybrid mode only if the local result is unsure. *)
(* An answer is the gateway's only if the file was sent.                   *)
HybridPrivate ==
    Answered("hybrid", LAMBDA x, given :
        LET sent == given.outcome.sent IN
        /\ sent => x.cfg.optIn /\ x.way.enabled /\ x.cfg.mode # "local"
        /\ sent /\ x.cfg.mode = "hybrid" => given.local.confidence < x.cfg.threshold
        /\ given.outcome.by = "online" <=> sent /\ x.way.answered)

(* A file analysed again by other engines has another cache key if its     *)
(* category, its embedding or its visual summary came from another model   *)
(* (analysis.rs:96).  The key does not tell the models of the transcript   *)
(* and of the OCR.                                                         *)
KeyTells ==
    Answered("analyze", LAMBDA x, done :
        done.one # Failed /\ CacheKey(done.one) = CacheKey(done.two) =>
            /\ done.one.category = done.two.category
            /\ done.one.vector = done.two.vector
            /\ done.one.seen = done.two.seen)

\* An object and nothing else in braces, fenced or not.
WellFormed(raw) ==
    LET i == FirstAt(raw, "open")
        j == LastAt(raw, "close")
        fences == {k \in DOMAIN raw : raw[k] = "fence"}
    IN  /\ 0 < i /\ i < j
        /\ \/ fences = {}
           \/ \E k \in 1 .. i - 1 : fences = {k}
           \/ \E k \in 1 .. i - 1 :
                 /\ fences = {k, j + 1}
                 /\ SubSeq(raw, k + 1, i - 1) \in {<<>>, <<"json">>}

\* What lies between the first fence and the next one or the end.
Inner(raw) ==
    LET i == FirstAt(raw, "fence")
        rest == SubSeq(raw, i + 1, Len(raw))
        j == FirstAt(rest, "fence")
    IN  CASE i = 0 -> <<>>
          [] i # 0 /\ j = 0 -> rest
          [] OTHER -> SubSeq(rest, 1, j - 1)

(* The object in a model's answer is found whatever is around it, save     *)
(* that extract_json panics where the fourth byte after a fence ends       *)
(* within a character (ai.rs:1310, 1319), and then always.  Where the only *)
(* braces are the wrong way round it panics too.                           *)
JsonFound ==
    Answered("extract", LAMBDA x, found :
        WellFormed(x.raw) =>
            found = IF CutsCharacter(Inner(x.raw)) THEN Panic
                    ELSE SubSeq(x.raw, FirstAt(x.raw, "open"), LastAt(x.raw, "close")))

=============================================================================
