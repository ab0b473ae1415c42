------------------------------ MODULE MCLibrary ------------------------------
(* Library for TLC: the arguments of the functions. *)
EXTENDS Library, TLC

Symmetry == Permutations(Installers) \cup Permutations(Writers)

\* Two analyses under one key, one under another, and one without embedding.
MCAnalyses ==
    {[key |-> "k1", model |-> "m1", take |-> 1], [key |-> "k1", model |-> "m1", take |-> 2],
     [key |-> "k2", model |-> "m2", take |-> 1], [key |-> "k3", model |-> NoRow, take |-> 1]}

ListsOf(n, S) == UNION {[1 .. k -> S] : k \in 0 .. n}

-----------------------------------------------------------------------------

Queries ==
    [text : {TRUE}, named : SUBSET {1, 2}, passing : {{1}, {1, 2}}]
    \cup {[text |-> FALSE, named |-> {}, passing |-> {1}]}

Rows == [file : {1, 2}, fits : {TRUE}, score : {0, 1, 5}]
        \cup {[file |-> 1, fits |-> FALSE, score |-> 5]}

Searches ==
    [query : Queries, known : {{1}, {1, 2}}, rows : ListsOf(3, Rows), embeds : {TRUE},
     limit : {1, 2, 5}]
    \cup [query : Queries, known : {{1, 2}}, rows : ListsOf(1, Rows), embeds : {FALSE},
          limit : {1, 5}]

-----------------------------------------------------------------------------

Events == [path : {<<"d", "a">>, <<"d", "x", "b">>}, kind : {"created", "deleted"}, time : 0 .. 3]

Debounces ==
    [events : {s \in ListsOf(3, Events) : InOrder(s)}
              \cup {s \in [1 .. 4 -> {e \in Events : e.kind = "created"}] : InOrder(s)},
     window : {0, 1},
     config : [watched : {{}, {<<"d">>}}, excluded : {{<<"d", "x">>}}]]

-----------------------------------------------------------------------------

MCNames == {"b", "o", "l", "x", "y", ".h"}

\* A base b, an alias l of it, a folder o beside it, and what is in b and o.
Disk(x, xy, h, hy, oy) ==
    <<"b">> :> ADir @@ <<"o">> :> ADir @@ <<"l">> :> Link(<<"b">>)
    @@ <<"b", "x">> :> x @@ <<"b", "x", "y">> :> xy
    @@ <<"b", ".h">> :> h @@ <<"b", ".h", "y">> :> hy @@ <<"o", "y">> :> oy

Out == Link(<<"o">>)
InDir(dir, S) == IF dir = ADir THEN S ELSE {Nothing}

Disks ==
    UNION {UNION {{Disk(x, xy, h, hy, oy) : xy \in InDir(x, {Nothing, AFile, Out}),
                                            hy \in InDir(h, {Nothing, AFile}),
                                            oy \in {Nothing, AFile}}
                  : h \in {Nothing, AFile, ADir, Out}}
           : x \in {Nothing, AFile, ADir, Out}}

Budgets == [files : 0 .. 2, depth : 1 .. 2, hidden : BOOLEAN]

Orders(fs, given, budget) ==
    LET base == Resolved(fs, given) IN
    IF base = Nowhere THEN {<<>>} ELSE SetToSeqs(Entries(fs, base, budget))

Walks ==
    UNION {[fs : {fs}, base : {base}, budget : {budget}, order : Orders(fs, base, budget)]
           : fs \in Disks, base \in {<<"b">>, <<"l">>, <<"b", ".h">>, <<"b", "y">>},
             budget \in Budgets}

Validations ==
    [fs   : {fs \in Disks : fs[<<"b", ".h">>] = Nothing},
     path : [absolute : BOOLEAN, names : ListsOf(3, {"b", "x", "y", "o", ".", ".."})],
     base : {<<"b">>, <<"l">>, <<"b", "x">>}]

-----------------------------------------------------------------------------

Rated == {p \in [text : BOOLEAN, vision : BOOLEAN, embeddings : BOOLEAN,
                 priority : {10, 20, 25}, enabled : BOOLEAN] :
             ~(p.vision /\ p.embeddings)}

Routes == [table : ListsOf(2, {p \in Rated : p.text \/ p.vision}), task : Tasks, mode : Modes]

Exemplars == {<<[category |-> "c1", embeds |-> e, cosine |-> 90],
                [category |-> "c2", embeds |-> TRUE, cosine |-> c]>> :
                e \in BOOLEAN, c \in {-50, 90}}

Hybrids ==
    [cfg   : [mode : Modes, optIn : BOOLEAN, threshold : {70}],
     way   : [client : BOOLEAN, before : BOOLEAN, enabled : BOOLEAN, answered : BOOLEAN],
     ext   : {"text", "other"},
     local : [files : BOOLEAN, loaded : BOOLEAN, loads : BOOLEAN, embeds : BOOLEAN],
     exemplars : Exemplars]

-----------------------------------------------------------------------------

Engine(stages) ==
    [s \in {"reasoning", "embedding", "vision", "audio", "ocr"} |->
        IF s \in stages THEN "new" ELSE "old"]

Analyzes ==
    [file : [content : {"c"}, ext : Extensions, text : BOOLEAN, telling : BOOLEAN,
             image : BOOLEAN, tags : {FALSE}],
     one  : {Engine({})},
     two  : {Engine(S) : S \in SUBSET {"reasoning", "embedding", "vision", "audio", "ocr"}},
     fails : SUBSET {"embedding", "vision", "audio", "ocr"} \cup {{"reasoning"}}]

-----------------------------------------------------------------------------

\* Nothing, another program's window over a folder's, the desktop, and folder
\* windows: one that is read, one that is not, one with a user's title, and
\* one too small.
Listed(hwnd, folder) == [hwnd |-> hwnd, covers |-> TRUE, folder |-> folder]

Lying(root, class, large, named, listed) ==
    [root |-> root, class |-> class, large |-> large, known |-> named, listed |-> listed]

MCSpots ==
    {Lying(NoWindow, "other", FALSE, FALSE, <<>>),
     Lying("app", "other", TRUE, FALSE, <<Listed("w1", "f1")>>),
     Lying("desk", "desktop", TRUE, FALSE, <<>>),
     Lying("w1", "folder", TRUE, FALSE, <<Listed("w2", "f2"), Listed("w1", "f1")>>),
     Lying("w2", "folder", TRUE, FALSE, <<Listed("w2", Unread), Listed("w1", "f1")>>),
     Lying("w3", "folder", TRUE, TRUE, <<Listed("w3", "f3")>>),
     Lying("w4", "folder", FALSE, FALSE, <<Listed("w4", "f1")>>)}

-----------------------------------------------------------------------------

MCArguments ==
    [search |-> Searches, debounce |-> Debounces, walk |-> Walks, validate |-> Validations,
     route |-> Routes, hybrid |-> Hybrids, analyze |-> Analyzes,
     extract |-> [raw : ListsOf(6, Marks)]]

=============================================================================
