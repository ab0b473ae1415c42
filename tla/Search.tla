------------------------------- MODULE Search -------------------------------
(***************************************************************************)
(* The search over the index (search.rs): files are numbered in the order  *)
(* of their paths.  A query has free text, with the files whose path or    *)
(* name it occurs in, and filters (tag, type, path), with the files that   *)
(* pass them.  A row of file_embeddings has its file, whether its vector   *)
(* is as long as the query's, and its cosine with it in tenths.            *)
(***************************************************************************)
EXTENDS Lists, SequencesExt

Matching(q, known) == {f \in known : (q.text => f \in q.named) /\ f \in q.passing}

Cut(s, limit) == SubSeq(s, 1, IF Len(s) < limit THEN Len(s) ELSE limit)

(* search_files: ORDER BY path LIMIT limit. *)
SearchFiles(q, known, limit) == Cut(Ordered(Matching(q, known), <), limit)

\* Vec::sort_by is stable.
ByScore(scored) ==
    LET before(i, j) ==
          scored[i].score > scored[j].score \/ (scored[i].score = scored[j].score /\ i < j)
        order == Ordered(DOMAIN scored, before)
    IN  [k \in DOMAIN scored |-> scored[order[k]]]

Scored(rows, known) ==
    ByScore(At(rows, {i \in DOMAIN rows : rows[i].fits /\ rows[i].file \in known}))

Files(scored) == [i \in DOMAIN scored |-> scored[i].file]

\* Faulty: what is there already is not looked at.
AddAlways(out, f, limit) == IF Len(out) >= limit THEN out ELSE Append(out, f)

\* The files by name come first, then the best by meaning, each once.
Add(out, f, limit) ==
    IF Len(out) >= limit \/ f \in Range(out) THEN out ELSE Append(out, f)

Merge(named, scored, limit) ==
    FoldLeft(LAMBDA out, f : Add(out, f, limit), <<>>, named \o Files(scored))

ScoreOf(scored, f) ==
    LET i == SelectInSeq(scored, LAMBDA r : r.file = f) IN
    [file |-> f, score |-> IF i = 0 THEN 0 ELSE scored[i].score]

\* Faulty: one weak result is enough.
WeakAny(ranked) == \E i \in DOMAIN ranked : ranked[i].score < 1

Weak(ranked) == \A i \in DOMAIN ranked : ranked[i].score < 1

(* search_hybrid: without text, embeddings or a vector for the query it is *)
(* search_files; if no result scores 0.1, the results are those by meaning *)
(* alone.                                                                  *)
SearchHybrid(q, known, rows, embeds, limit) ==
    IF ~q.text \/ rows = <<>> \/ ~embeds
    THEN SearchFiles(q, known, limit)
    ELSE LET scored == Scored(rows, known)
             merged == Merge(SearchFiles(q, known, 2 * limit), scored, limit)
             ranked == ByScore([i \in DOMAIN merged |-> ScoreOf(scored, merged[i])])
         IN  Cut(Files(IF Weak(ranked) /\ scored # <<>> THEN scored ELSE ranked), limit)

-----------------------------------------------------------------------------
(* An argument of a search: the known files are numbers, and the rows have *)
(* scores.                                                                 *)
Searchable(known, rows, limit) ==
    /\ known \subseteq Nat /\ IsFiniteSet(known) /\ limit \in Nat
    /\ rows \in Seq(Range(rows)) /\ \A r \in Range(rows) : r.score \in Int

=============================================================================
