-------------------------------- MODULE Index --------------------------------
(***************************************************************************)
(* The two caches of analyses (cache.rs): a bounded map in memory behind a *)
(* mutex, and rows of the index database.  A call is several statements,   *)
(* each committed by itself, so that other connections come in between and *)
(* a kill stops it half-way.  One file stands for all: no statement        *)
(* touches the rows of two.                                                *)
(***************************************************************************)
EXTENDS Naturals, Sequences, SequencesExt

CONSTANTS
    Writers,    \* connections to the database
    Analyses,   \* analyses of the file, each with a key and an embedding
    NoRow,      \* a row that is not there
    MemCap      \* DEFAULT_CAP

Keys   == {a.key : a \in Analyses}
Models == {a.model : a \in Analyses} \ {NoRow}

ASSUME IndexAssumption ==
    /\ NoRow \notin Analyses /\ NoRow \notin Keys
    /\ \A a, b \in Analyses : a.key = b.key => a.model = b.model     \* cache_key
    /\ MemCap \in Nat \ {0}

VARIABLES
    map, order,     \* CacheStore
    known,          \* the file has a row in files
    metadata,       \* its row in file_metadata
    setting,        \* the key in settings
    embeddings,     \* its row in file_embeddings for each model
    call,           \* each connection's statement, and what the call is given
    \* history
    mixed,          \* calls have overlapped since all were at rest
    torn,           \* metadata and setting may be of different calls, by an
                    \* overlap or by a call cut short
    cleared,        \* the key of the last invalidation, until something is stored
    untidy          \* a row of another call may have been left in file_embeddings

memVars == <<map, order>>
rowVars == <<known, metadata, setting, embeddings>>
indexVars == <<memVars, rowVars, call, mixed, torn, cleared, untidy>>

NoCall == [next |-> "rest", about |-> NoRow]

IndexTypeOK ==
    /\ DOMAIN map \subseteq Keys /\ \A k \in DOMAIN map : map[k] \in Analyses
    /\ order \in Seq(Keys)
    /\ known \in BOOLEAN
    /\ metadata \in Analyses \cup {NoRow}
    /\ setting \in Keys \cup {NoRow}
    /\ embeddings \in [Models -> Analyses \cup {NoRow}]
    /\ \A w \in Writers :
          \/ call[w] = NoCall
          \/ call[w].next \in {"metadata", "setting", "embedding"} /\ call[w].about \in Analyses
          \/ call[w].next \in {"compare", "drop metadata", "drop embeddings"}
             /\ call[w].about \in Keys
    /\ cleared \in Keys \cup {NoRow}
    /\ mixed \in BOOLEAN /\ torn \in BOOLEAN /\ untidy \in BOOLEAN

-----------------------------------------------------------------------------
(* The cache in memory *)

Without(f, k) == [x \in DOMAIN f \ {k} |-> f[x]]
With(f, k, v) == [x \in DOMAIN f \cup {k} |-> IF x = k THEN v ELSE f[x]]

(* order.retain, by a recursive function: the provers do not know what     *)
(* SelectSeq selects.                                                      *)
Retained(s, k) ==
    LET kept[i \in 0 .. Len(s)] ==
            IF i = 0 THEN <<>>
            ELSE IF s[i] = k THEN kept[i - 1] ELSE Append(kept[i - 1], s[i])
    IN  kept[Len(s)]

Reordered(k) == Append(Retained(order, k), k)

\* Faulty: the bound is looked at too late.
AtCapLate == Cardinality(DOMAIN map) > MemCap

AtCap == Cardinality(DOMAIN map) >= MemCap

(* cache_put: CacheStore::insert.  The oldest goes, used or not since. *)
CachePut(a) ==
    /\ IF a.key \in DOMAIN map
       THEN map' = With(map, a.key, a) /\ order' = Reordered(a.key)
       ELSE IF AtCap /\ order # <<>>
       THEN /\ map' = With(Without(map, Head(order)), a.key, a)
            /\ order' = Append(Tail(order), a.key)
       ELSE map' = With(map, a.key, a) /\ order' = Append(order, a.key)
    /\ UNCHANGED <<rowVars, call, mixed, torn, cleared, untidy>>

(* load_analysis *)
LoadAnalysis == metadata

(* cache_get *)
CacheGet(key) == IF key \in DOMAIN map THEN map[key] ELSE NoRow

-----------------------------------------------------------------------------
(* The calls on the database *)

AtRest(w) == call[w] = NoCall
Alone(w) == \A v \in Writers \ {w} : AtRest(v)

CallsAtRest == \A w \in Writers : AtRest(w)

Begin(w, next, about) ==
    /\ AtRest(w)
    /\ call' = [call EXCEPT ![w] = [next |-> next, about |-> about]]
    /\ mixed' = ~Alone(w)

Goto(w, next) == call' = [call EXCEPT ![w].next = next]
Return(w) == call' = [call EXCEPT ![w] = NoCall]

\* Rows of one call only: it has not been overlapped, and ends.
Whole(w) == ~mixed /\ Alone(w)

(* persist_analysis.  A caller that brings a new key is expected to have   *)
(* invalidated under it before.                                            *)
Persist(w, a) ==
    /\ Begin(w, "metadata", a)
    /\ torn' = (torn \/ ~Alone(w))
    /\ untidy' = \/ untidy
                 \/ ~Alone(w)
                 \/ setting \notin {NoRow, a.key} /\ cleared # a.key
    /\ cleared' = NoRow
    /\ UNCHANGED <<memVars, rowVars>>

(* The statements on the file's rows are refused if the file is unknown    *)
(* (REFERENCES files), which ends the call with an error.                  *)
PutMetadata(w) ==
    /\ call[w].next = "metadata"
    /\ IF known
       THEN metadata' = call[w].about /\ Goto(w, "setting")
       ELSE UNCHANGED metadata /\ Return(w)
    /\ UNCHANGED <<memVars, known, setting, embeddings, mixed, torn, cleared, untidy>>

\* Faulty: a key that is there is kept.
SettingKept(w) == IF setting = NoRow THEN call[w].about.key ELSE setting

Setting(w) == call[w].about.key

PutSetting(w) ==
    /\ call[w].next = "setting"
    /\ setting' = Setting(w)
    /\ IF call[w].about.model = NoRow
       THEN Return(w) /\ torn' = (torn /\ ~Whole(w))
       ELSE Goto(w, "embedding") /\ UNCHANGED torn
    /\ UNCHANGED <<memVars, known, metadata, embeddings, mixed, cleared, untidy>>

PutEmbedding(w) ==
    /\ call[w].next = "embedding"
    /\ embeddings' = IF known
                     THEN [embeddings EXCEPT ![call[w].about.model] = call[w].about]
                     ELSE embeddings
    /\ Return(w)
    /\ torn' = (torn /\ ~Whole(w))
    /\ UNCHANGED <<memVars, known, metadata, setting, mixed, cleared, untidy>>

(* invalidate_if_model_changed *)
Invalidate(w, key) ==
    /\ Begin(w, "compare", key)
    /\ torn' = (torn \/ ~Alone(w))
    /\ untidy' = (untidy \/ ~Alone(w))
    /\ cleared' = key
    /\ UNCHANGED <<memVars, rowVars>>

CompareKey(w) ==
    /\ call[w].next = "compare"
    /\ IF setting \in {NoRow, call[w].about} THEN Return(w) ELSE Goto(w, "drop metadata")
    /\ UNCHANGED <<memVars, rowVars, mixed, torn, cleared, untidy>>

DropMetadata(w) ==
    /\ call[w].next = "drop metadata"
    /\ metadata' = NoRow
    /\ Goto(w, "drop embeddings")
    /\ UNCHANGED <<memVars, known, setting, embeddings, mixed, torn, cleared, untidy>>

\* Faulty: the embeddings are left.
KeptEmbeddings == embeddings

NoEmbeddings == [m \in Models |-> NoRow]

DropEmbeddings(w) ==
    /\ call[w].next = "drop embeddings"
    /\ embeddings' = NoEmbeddings
    /\ Return(w)
    /\ untidy' = (untidy /\ ~Whole(w))
    /\ UNCHANGED <<memVars, known, metadata, setting, mixed, torn, cleared>>

-----------------------------------------------------------------------------
(* The rest of the world *)

Learn ==
    /\ ~known
    /\ known' = TRUE
    /\ UNCHANGED <<memVars, metadata, setting, embeddings, call, mixed, torn, cleared, untidy>>

(* The rows that refer to the file go with it, the setting does not. *)
Forget ==
    /\ known
    /\ known' = FALSE
    /\ metadata' = NoRow
    /\ embeddings' = [m \in Models |-> NoRow]
    /\ mixed' = (mixed \/ ~CallsAtRest)
    /\ untidy' = (untidy \/ ~CallsAtRest)
    /\ UNCHANGED <<memVars, setting, call, torn, cleared>>

(* The process is killed; a call in progress is left as it is. *)
KillCalls ==
    /\ map' = << >> /\ order' = << >>
    /\ call' = [w \in Writers |-> NoCall]
    /\ torn' = (torn \/ ~CallsAtRest)
    /\ untidy' = (untidy \/ ~CallsAtRest)
    /\ UNCHANGED <<rowVars, mixed, cleared>>

IndexInit ==
    /\ map = << >> /\ order = << >>
    /\ known = FALSE
    /\ metadata = NoRow /\ setting = NoRow
    /\ embeddings = [m \in Models |-> NoRow]
    /\ call = [w \in Writers |-> NoCall]
    /\ mixed = FALSE /\ torn = FALSE /\ cleared = NoRow /\ untidy = FALSE

(* A statement fails on a locked database or a full disk: `?' ends the     *)
(* call there, and what it has committed before stays.                     *)
StatementFails(w) ==
    /\ ~AtRest(w)
    /\ Return(w)
    /\ torn' = (torn \/ call[w].next = "setting")
    /\ untidy' = (untidy \/ call[w].next = "drop embeddings")
    /\ cleared' = NoRow
    /\ UNCHANGED <<memVars, rowVars, mixed>>

IndexStep(w) ==
    \/ \E a \in Analyses : Persist(w, a)
    \/ \E k \in Keys : Invalidate(w, k)
    \/ PutMetadata(w) \/ PutSetting(w) \/ PutEmbedding(w)
    \/ CompareKey(w) \/ DropMetadata(w) \/ DropEmbeddings(w)
    \/ StatementFails(w)

IndexNext ==
    \/ \E a \in Analyses : CachePut(a)
    \/ \E w \in Writers : IndexStep(w)
    \/ Learn \/ Forget \/ KillCalls

IndexSpec == IndexInit /\ [][IndexNext]_indexVars

-----------------------------------------------------------------------------
(* Properties *)

(* The order lists each key of the map once, so that what is dropped at    *)
(* the bound is there, and the map stays within the bound (cache.rs:32).   *)
CacheBounded ==
    /\ IsInjective(order) /\ Range(order) = DOMAIN map
    /\ Len(order) <= MemCap
    /\ \A k \in Keys : CacheGet(k) # NoRow => CacheGet(k).key = k

(* The key in the settings, by which invalidate_if_model_changed keeps a   *)
(* row (cache.rs:137), is that of the analysis load_analysis returns,      *)
(* unless a call has been killed, overlapped by another or ended between   *)
(* its two statements by an error (cache.rs:89), and no call has run as a  *)
(* whole since: persist_analysis has no transaction.                       *)
KeyDescribesRow ==
    CallsAtRest /\ ~torn /\ LoadAnalysis # NoRow => setting = LoadAnalysis.key

(* A file has one embedding at most, and of the analysis in its metadata,  *)
(* as search_hybrid takes for granted (search.rs:143), if every analysis   *)
(* under a new key was stored after an invalidation that succeeded.  Not   *)
(* otherwise: the rows are kept by model (cache.rs:99).                    *)
OneEmbedding ==
    CallsAtRest /\ ~untidy =>
        \A m \in Models : embeddings[m] # NoRow =>
            metadata # NoRow /\ metadata.model = m /\ embeddings[m].key = metadata.key

=============================================================================
