---------------------------- MODULE Index_proofs ----------------------------
(***************************************************************************)
(* Theorems about Index, for any number of connections, analyses and rows  *)
(* and any capacity.  What the cache in memory does when a key is put      *)
(* again is a recursion over its order, and needs an induction; the rows   *)
(* of the database need what each statement of a call leaves for the next  *)
(* one, as long as the history says that no other has come between.        *)
(***************************************************************************)
EXTENDS Index, Listing_proofs

-----------------------------------------------------------------------------
(* The cache in memory *)

CacheInv ==
    /\ DOMAIN map \subseteq Keys /\ \A k \in DOMAIN map : map[k] \in Analyses
    /\ order \in Seq(Keys)
    /\ CacheBounded

-----------------------------------------------------------------------------
(* The calls on the database *)

Storing(w)  == call[w].next \in {"metadata", "setting", "embedding"}
Clearing(w) == call[w].next \in {"compare", "drop metadata", "drop embeddings"}

Calls ==
    {NoCall} \cup [next : {"metadata", "setting", "embedding"}, about : Analyses]
    \cup [next : {"compare", "drop metadata", "drop embeddings"}, about : Keys]

RowTypes ==
    /\ known \in BOOLEAN
    /\ metadata \in Analyses \cup {NoRow}
    /\ setting \in Keys \cup {NoRow}
    /\ embeddings \in [Models -> Analyses \cup {NoRow}]
    /\ call \in [Writers -> Calls]
    /\ cleared \in Keys \cup {NoRow}
    /\ mixed \in BOOLEAN /\ torn \in BOOLEAN /\ untidy \in BOOLEAN

(* The row of a model is of an analysis by that model. *)
RowsByModel ==
    /\ \A w \in Writers : call[w].next = "embedding" => call[w].about.model # NoRow
    /\ \A m \in Models : embeddings[m] # NoRow => embeddings[m].model = m

(* What the history says of the overlaps: where one of its three marks is  *)
(* not set, one call at most is in progress.                               *)
OneCall ==
    ~mixed \/ ~torn \/ ~untidy =>
        \A v, w \in Writers : ~AtRest(v) /\ ~AtRest(w) => v = w

(* A call that is not overlapped, or has begun where the rows agreed, has  *)
(* put its own metadata, or they have been dropped with the file.          *)
KeyInv ==
    /\ ~mixed \/ ~torn =>
          \A w \in Writers :
              /\ call[w].next \in {"setting", "embedding"} => metadata \in {NoRow, call[w].about}
              /\ call[w].next = "embedding" => setting = call[w].about.key
    /\ ~torn /\ (\A w \in Writers : call[w].next # "setting") =>
          (metadata # NoRow => setting = metadata.key)

(* The embeddings, if there are any, are of the analyses under key. *)
EmbeddedUnder(key) == \A m \in Models : embeddings[m] # NoRow => embeddings[m].key = key

(* Without a row of another call, the embeddings are of the key in the     *)
(* settings and of the metadata; a call that stores has found them of its  *)
(* own key, or has found none, and so does the next one under the key of   *)
(* the last invalidation.                                                  *)
EmbeddingInv ==
    ~untidy =>
        /\ EmbeddedUnder(setting)
        /\ (\A w \in Writers : call[w].next # "drop embeddings") =>
              \A m \in Models : embeddings[m] # NoRow =>
                  metadata # NoRow /\ embeddings[m].key = metadata.key
        /\ \A w \in Writers :
              /\ Storing(w) => cleared = NoRow /\ EmbeddedUnder(call[w].about.key)
              /\ call[w].next \in {"setting", "embedding"} => metadata = call[w].about
              /\ call[w].next = "embedding" => setting = call[w].about.key
              /\ Clearing(w) => call[w].about = cleared
        /\ cleared # NoRow /\ (\A w \in Writers : ~Clearing(w)) => EmbeddedUnder(cleared)

RowInv == RowTypes /\ RowsByModel /\ OneCall /\ KeyInv /\ EmbeddingInv

-----------------------------------------------------------------------------
(* The order without a key *)

(* What Retained computes for the first i elements. *)
KeptStep(s, k, f, i) ==
    IF i = 0 THEN <<>>
    ELSE IF s[i] = k THEN f[i - 1] ELSE Append(f[i - 1], s[i])

IsKept(s, k, n, f) == f = [i \in 0 .. n |-> KeptStep(s, k, f, i)]

LEMMA KeptExists ==
    ASSUME NEW s, NEW k, NEW n \in Nat
    PROVE  \E f : IsKept(s, k, n, f)
<1> DEFINE T == {j \in Nat : \E f : IsKept(s, k, j, f)}
<1>1. 0 \in T
  <2> DEFINE f == [i \in 0 .. 0 |-> <<>>]
  <2>1. IsKept(s, k, 0, f)
    BY DEF IsKept, KeptStep
  <2> HIDE DEF f
  <2> QED
    BY <2>1
<1>2. ASSUME NEW j \in Nat, j \in T PROVE j + 1 \in T
  <2>1. PICK f : IsKept(s, k, j, f)
    BY <1>2
  <2> DEFINE g == [i \in 0 .. j + 1 |-> KeptStep(s, k, f, i)]
  <2>2. \A i \in 0 .. j : g[i] = f[i]
    BY <2>1 DEF IsKept
  <2>3. \A i \in 0 .. j + 1 : KeptStep(s, k, f, i) = KeptStep(s, k, g, i)
    <3> SUFFICES ASSUME NEW i \in 0 .. j + 1
                 PROVE  KeptStep(s, k, f, i) = KeptStep(s, k, g, i)
      OBVIOUS
    <3>1. CASE i = 0
      BY <3>1 DEF KeptStep
    <3>2. CASE i # 0
      <4>1. i - 1 \in 0 .. j
        BY <3>2
      <4>2. g[i - 1] = f[i - 1]
        BY <4>1, <2>2
      <4> HIDE DEF g
      <4> QED
        BY <3>2, <4>2 DEF KeptStep
    <3> QED
      BY <3>1, <3>2
  <2>4. g = [i \in 0 .. j + 1 |-> KeptStep(s, k, g, i)]
    <3> DEFINE h == [i \in 0 .. j + 1 |-> KeptStep(s, k, g, i)]
    <3>1. \A i \in 0 .. j + 1 : g[i] = h[i]
      BY <2>3
    <3> QED
      BY <3>1
  <2> HIDE DEF g
  <2> QED
    BY <2>4 DEF IsKept
<1> HIDE DEF T
<1>3. Nat \subseteq T
  BY <1>1, <1>2, SetInduction
<1> QED
  BY <1>3 DEF T

LEMMA RetainedIs ==
    ASSUME NEW s, NEW k, Len(s) \in Nat
    PROVE  \E f : IsKept(s, k, Len(s), f) /\ Retained(s, k) = f[Len(s)]
<1> DEFINE f == CHOOSE f : IsKept(s, k, Len(s), f)
<1>1. IsKept(s, k, Len(s), f)
  BY KeptExists
<1>2. Retained(s, k) = f[Len(s)]
  BY DEF Retained, IsKept, KeptStep
<1> QED
  BY <1>1, <1>2

(* What is kept of the first i elements of s: those that are not k, each   *)
(* once, and fewer if k is one of them.                                    *)
KeptTells(s, k, S, i, kept) ==
    /\ kept \in Seq(S)
    /\ \A x : (\E a \in 1 .. Len(kept) : kept[a] = x) <=> x # k /\ \E j \in 1 .. i : s[j] = x
    /\ \A a, b \in 1 .. Len(kept) : kept[a] = kept[b] => a = b
    /\ Len(kept) <= i
    /\ (\E j \in 1 .. i : s[j] = k) => Len(kept) < i

LEMMA KeptOneMore ==
    ASSUME NEW S, NEW s \in Seq(S), NEW k, NEW i \in Nat, i < Len(s),
           \A a, b \in 1 .. Len(s) : s[a] = s[b] => a = b,
           NEW kept, KeptTells(s, k, S, i, kept)
    PROVE  KeptTells(s, k, S, i + 1, IF s[i + 1] = k THEN kept ELSE Append(kept, s[i + 1]))
<1>0. /\ i + 1 \in 1 .. Len(s) /\ s[i + 1] \in S
      /\ kept \in Seq(S) /\ Len(kept) \in Nat
      /\ \A x : (\E j \in 1 .. i + 1 : s[j] = x) <=> x = s[i + 1] \/ \E j \in 1 .. i : s[j] = x
      /\ ~\E j \in 1 .. i : s[j] = s[i + 1]
  BY DEF KeptTells
<1>1. CASE s[i + 1] = k
  <2>1. \A x : x # k /\ (\E j \in 1 .. i + 1 : s[j] = x) <=> x # k /\ \E j \in 1 .. i : s[j] = x
    BY <1>0, <1>1
  <2>2. Len(kept) <= i + 1 /\ Len(kept) < i + 1
    BY <1>0 DEF KeptTells
  <2>3. KeptTells(s, k, S, i + 1, kept)
    BY <2>1, <2>2 DEF KeptTells
  <2> QED
    BY <1>1, <2>3
<1>2. CASE s[i + 1] # k
  <2> DEFINE more == Append(kept, s[i + 1])
  <2>1. /\ more \in Seq(S) /\ Len(more) = Len(kept) + 1
        /\ \A a \in 1 .. Len(kept) : more[a] = kept[a]
        /\ more[Len(kept) + 1] = s[i + 1]
    BY <1>0
  <2> HIDE DEF more
  <2>2. ASSUME NEW x
        PROVE  (\E a \in 1 .. Len(more) : more[a] = x)
                   <=> x = s[i + 1] \/ \E a \in 1 .. Len(kept) : kept[a] = x
    <3>1. 1 .. Len(more) = 1 .. Len(kept) \cup {Len(kept) + 1}
      BY <1>0, <2>1
    <3> QED
      BY <2>1, <3>1
  <2>3. ASSUME NEW x
        PROVE  (\E a \in 1 .. Len(more) : more[a] = x) <=> x # k /\ \E j \in 1 .. i + 1 : s[j] = x
    BY <1>0, <1>2, <2>2 DEF KeptTells
  <2>4. ~\E a \in 1 .. Len(kept) : kept[a] = s[i + 1]
    BY <1>0 DEF KeptTells
  <2>5. \A a, b \in 1 .. Len(more) : more[a] = more[b] => a = b
    BY <1>0, <2>1, <2>4 DEF KeptTells
  <2>6. /\ Len(more) <= i + 1
        /\ (\E j \in 1 .. i + 1 : s[j] = k) => Len(more) < i + 1
    <3>1. (\E j \in 1 .. i + 1 : s[j] = k) => \E j \in 1 .. i : s[j] = k
      BY <1>0, <1>2
    <3> QED
      BY <1>0, <2>1, <3>1 DEF KeptTells
  <2>7. KeptTells(s, k, S, i + 1, more)
    BY <2>1, <2>3, <2>5, <2>6 DEF KeptTells
  <2> QED
    BY <1>2, <2>7 DEF more
<1> QED
  BY <1>1, <1>2

LEMMA RetainedTells ==
    ASSUME NEW S, NEW s \in Seq(S), NEW k,
           \A a, b \in 1 .. Len(s) : s[a] = s[b] => a = b
    PROVE  KeptTells(s, k, S, Len(s), Retained(s, k))
<1>1. PICK f : IsKept(s, k, Len(s), f) /\ Retained(s, k) = f[Len(s)]
  BY RetainedIs
<1> DEFINE T == {i \in Nat : i <= Len(s) => KeptTells(s, k, S, i, f[i])}
<1>2. 0 \in T
  <2>1. f[0] = <<>>
    BY <1>1 DEF IsKept, KeptStep
  <2>2. KeptTells(s, k, S, 0, <<>>)
    BY DEF KeptTells
  <2> QED
    BY <2>1, <2>2
<1>3. ASSUME NEW i \in Nat, i \in T PROVE i + 1 \in T
  <2> SUFFICES ASSUME i + 1 <= Len(s) PROVE KeptTells(s, k, S, i + 1, f[i + 1])
    OBVIOUS
  <2>1. KeptTells(s, k, S, i, f[i])
    BY <1>3
  <2>2. f[i + 1] = KeptStep(s, k, f, i + 1)
    BY <1>1 DEF IsKept
  <2>3. i + 1 # 0 /\ (i + 1) - 1 = i
    OBVIOUS
  <2>4. f[i + 1] = IF s[i + 1] = k THEN f[i] ELSE Append(f[i], s[i + 1])
    BY <2>2, <2>3 DEF KeptStep
  <2> QED
    BY <2>1, <2>4, KeptOneMore
<1> HIDE DEF T
<1>4. Nat \subseteq T
  BY <1>2, <1>3, SetInduction
<1> QED
  BY <1>1, <1>4 DEF T

-----------------------------------------------------------------------------
(* Sequences without repetition, and what CachePut makes of one *)

Listed(s, S, T) ==
    s \in Seq(S) /\ IsInjective(s) /\ Range(s) = T

LEMMA ListedCounts ==
    ASSUME NEW S, NEW T, NEW s, Listed(s, S, T)
    PROVE  Cardinality(T) = Len(s)
<1>1. s \in [1 .. Len(s) -> T] /\ Len(s) \in Nat
  BY DEF Listed, Range
<1>2. s \in Bijection(1 .. Len(s), T)
  <2>1. s \in Injection(1 .. Len(s), T)
    BY <1>1 DEF Listed, Injection
  <2>2. \A t \in T : \E i \in 1 .. Len(s) : s[i] = t
    BY DEF Listed, Range
  <2> QED
    BY <1>1, <2>1, <2>2 DEF Bijection, Surjection
<1> QED
  BY <1>1, <1>2, FS_CountingElements DEF ExistsBijection

LEMMA ListedAppend ==
    ASSUME NEW S, NEW T, NEW s, Listed(s, S, T), NEW k \in S, k \notin T
    PROVE  Listed(Append(s, k), S, T \cup {k}) /\ Len(Append(s, k)) = Len(s) + 1
<1> DEFINE more == Append(s, k)
<1>1. s \in Seq(S) /\ DOMAIN s = 1 .. Len(s) /\ Len(s) \in Nat
  BY DEF Listed
<1>2. /\ more \in Seq(S) /\ Len(more) = Len(s) + 1
      /\ \A i \in 1 .. Len(s) : more[i] = s[i]
      /\ more[Len(s) + 1] = k
  BY <1>1
<1>3. DOMAIN more = 1 .. Len(s) \cup {Len(s) + 1}
  BY <1>1, <1>2
<1> HIDE DEF more
<1>4. \A i \in 1 .. Len(s) : s[i] \in T
  BY <1>1 DEF Listed, Range
<1>5. IsInjective(more)
  BY <1>1, <1>2, <1>3, <1>4 DEF Listed, IsInjective
<1>6. Range(more) = T \cup {k}
  BY <1>1, <1>2, <1>3 DEF Listed, Range
<1> QED
  BY <1>2, <1>5, <1>6 DEF Listed, more

LEMMA ListedTail ==
    ASSUME NEW S, NEW T, NEW s, Listed(s, S, T), s # <<>>
    PROVE  /\ Listed(Tail(s), S, T \ {Head(s)})
           /\ Len(Tail(s)) = Len(s) - 1
           /\ Head(s) \in T /\ Len(s) > 0
<1> DEFINE less == Tail(s)
<1>1. s \in Seq(S) /\ DOMAIN s = 1 .. Len(s) /\ Len(s) \in Nat \ {0}
  BY DEF Listed
<1>2. /\ less \in Seq(S) /\ Len(less) = Len(s) - 1
      /\ DOMAIN less = 1 .. Len(s) - 1
      /\ \A i \in 1 .. Len(s) - 1 : less[i] = s[i + 1]
      /\ Head(s) = s[1]
  BY <1>1
<1> HIDE DEF less
<1>3. IsInjective(less)
  <2> SUFFICES ASSUME NEW i \in 1 .. Len(s) - 1, NEW j \in 1 .. Len(s) - 1, less[i] = less[j]
               PROVE  i = j
    BY <1>2 DEF IsInjective
  <2>1. i + 1 \in DOMAIN s /\ j + 1 \in DOMAIN s /\ s[i + 1] = s[j + 1]
    BY <1>1, <1>2
  <2>2. i + 1 = j + 1
    BY <2>1 DEF Listed, IsInjective
  <2> QED
    BY <1>1, <2>2
<1>4. Range(less) = T \ {s[1]}
  <2>1. ASSUME NEW x \in T \ {s[1]} PROVE x \in Range(less)
    <3>1. PICK j \in 1 .. Len(s) : s[j] = x
      BY <1>1 DEF Listed, Range
    <3>2. j # 1 /\ j - 1 \in 1 .. Len(s) - 1 /\ (j - 1) + 1 = j
      BY <1>1, <3>1
    <3> QED
      BY <1>2, <3>1, <3>2 DEF Range
  <2>2. ASSUME NEW i \in 1 .. Len(s) - 1 PROVE less[i] \in T \ {s[1]}
    <3>1. i + 1 \in 1 .. Len(s) /\ 1 \in 1 .. Len(s) /\ i + 1 # 1
      BY <1>1
    <3> QED
      BY <1>1, <1>2, <3>1 DEF Listed, Range, IsInjective
  <2> QED
    BY <1>2, <2>1, <2>2 DEF Range
<1> QED
  BY <1>1, <1>2, <1>3, <1>4 DEF Listed, Range, less

(* order.retain takes one key out, if it is there.                         *)
LEMMA RetainedListed ==
    ASSUME NEW S, NEW T, NEW s, Listed(s, S, T), NEW k \in T
    PROVE  Listed(Retained(s, k), S, T \ {k}) /\ Len(Retained(s, k)) + 1 <= Len(s)
<1>1. s \in Seq(S) /\ DOMAIN s = 1 .. Len(s) /\ Len(s) \in Nat
  BY DEF Listed
<1>2. KeptTells(s, k, S, Len(s), Retained(s, k))
  BY <1>1, RetainedTells DEF Listed, IsInjective
<1> DEFINE o == Retained(s, k)
<1> HIDE DEF o
<1>3. o \in Seq(S) /\ DOMAIN o = 1 .. Len(o) /\ Len(o) \in Nat
  BY <1>2 DEF KeptTells, o
<1>4. IsInjective(o)
  BY <1>2, <1>3 DEF KeptTells, IsInjective, o
<1>5. Range(o) = T \ {k}
  <2>1. \A x : x \in Range(o) <=> \E a \in 1 .. Len(o) : o[a] = x
    BY <1>3 DEF Range
  <2>2. \A x : x \in T <=> \E j \in 1 .. Len(s) : s[j] = x
    BY <1>1 DEF Listed, Range
  <2>3. \A x : (\E a \in 1 .. Len(o) : o[a] = x) <=> x # k /\ \E j \in 1 .. Len(s) : s[j] = x
    BY <1>2 DEF KeptTells, o
  <2> QED
    BY <2>1, <2>2, <2>3
<1>6. Len(o) < Len(s)
  <2>1. \E j \in 1 .. Len(s) : s[j] = k
    BY <1>1 DEF Listed, Range
  <2> QED
    BY <1>2, <2>1 DEF KeptTells, o
<1> QED
  BY <1>1, <1>3, <1>4, <1>5, <1>6 DEF Listed, o

(* An entry is under its own key. *)
LEMMA CacheInvIs ==
    ASSUME DOMAIN map \subseteq Keys,
           \A k \in DOMAIN map : map[k] \in Analyses /\ map[k].key = k,
           Listed(order, Keys, DOMAIN map), Len(order) <= MemCap
    PROVE  CacheInv
<1>1. \A k \in Keys : CacheGet(k) # NoRow => CacheGet(k).key = k
  BY DEF CacheGet
<1> QED
  BY <1>1 DEF CacheInv, CacheBounded, Listed

LEMMA CacheInvGives ==
    ASSUME CacheInv
    PROVE  /\ DOMAIN map \subseteq Keys
           /\ \A k \in DOMAIN map : map[k] \in Analyses /\ map[k].key = k
           /\ Listed(order, Keys, DOMAIN map) /\ Len(order) <= MemCap
<1>1. \A k \in DOMAIN map : map[k] \in Analyses /\ map[k].key = k
  <2> SUFFICES ASSUME NEW k \in DOMAIN map PROVE map[k] \in Analyses /\ map[k].key = k
    OBVIOUS
  <2>1. CacheGet(k) = map[k] /\ map[k] \in Analyses /\ k \in Keys
    BY DEF CacheInv, CacheGet
  <2> QED
    BY <2>1, IndexAssumption DEF CacheInv, CacheBounded
<1> QED
  BY <1>1 DEF CacheInv, CacheBounded, Listed

LEMMA PutKeepsCache ==
    ASSUME CacheInv, NEW a \in Analyses, CachePut(a)
    PROVE  CacheInv'
<1> DEFINE k == a.key
<1>0. k \in Keys /\ MemCap \in Nat \ {0}
  BY IndexAssumption DEF Keys
<1>1. /\ DOMAIN map \subseteq Keys
      /\ \A x \in DOMAIN map : map[x] \in Analyses /\ map[x].key = x
      /\ Listed(order, Keys, DOMAIN map) /\ Len(order) <= MemCap
      /\ Len(order) \in Nat
  BY CacheInvGives DEF Listed
<1> SUFFICES /\ DOMAIN map' \subseteq Keys
             /\ \A x \in DOMAIN map' : map'[x] \in Analyses /\ map'[x].key = x
             /\ Listed(order', Keys, DOMAIN map') /\ Len(order') <= MemCap
  <2>1. \A x \in Keys : CacheGet(x)' # NoRow => CacheGet(x)'.key = x
    BY DEF CacheGet
  <2> QED
    BY <2>1 DEF CacheInv, CacheBounded, Listed
<1>2. CASE k \in DOMAIN map
  <2>1. map' = With(map, k, a) /\ order' = Append(Retained(order, k), k)
    BY <1>2 DEF CachePut, Reordered
  <2> DEFINE T == DOMAIN map \ {k}
  <2>2. Listed(Retained(order, k), Keys, T) /\ k \notin T
    BY <1>1, <1>2, RetainedListed
  <2> HIDE DEF T
  <2>3. Listed(order', Keys, T \cup {k}) /\ Len(order') = Len(Retained(order, k)) + 1
    BY <1>0, <2>1, <2>2, ListedAppend
  <2>4. DOMAIN map' = DOMAIN map /\ T \cup {k} = DOMAIN map
    BY <1>2, <2>1 DEF With, T
  <2>5. Len(Retained(order, k)) + 1 <= Len(order)
    BY <1>1, <1>2, RetainedListed
  <2>6. \A x \in DOMAIN map' : map'[x] \in Analyses /\ map'[x].key = x
    BY <1>1, <2>1 DEF With
  <2>7. Len(order') \in Nat
    BY <2>3 DEF Listed
  <2>8. Len(order') <= MemCap
    BY <1>0, <1>1, <2>5, <2>7, <2>3
  <2> QED
    BY <1>1, <2>4, <2>6, <2>8, <2>3
<1>3. CASE k \notin DOMAIN map /\ AtCap /\ order # <<>>
  <2> DEFINE rest == Without(map, Head(order))
  <2>1. map' = With(rest, k, a) /\ order' = Append(Tail(order), k)
    BY <1>3 DEF CachePut
  <2>2. DOMAIN rest = DOMAIN map \ {Head(order)} /\ \A x \in DOMAIN rest : rest[x] = map[x]
    BY DEF Without
  <2> HIDE DEF rest
  <2>3. /\ Listed(Tail(order), Keys, DOMAIN rest)
        /\ Len(Tail(order)) = Len(order) - 1
    BY <1>1, <1>3, <2>2, ListedTail
  <2>4. /\ Listed(order', Keys, DOMAIN rest \cup {k})
        /\ Len(order') = Len(Tail(order)) + 1
    BY <1>0, <1>3, <2>1, <2>2, <2>3, ListedAppend
  <2>5. DOMAIN map' = DOMAIN rest \cup {k}
    BY <2>1 DEF With
  <2>6. \A x \in DOMAIN map' : map'[x] \in Analyses /\ map'[x].key = x
    BY <1>1, <2>1, <2>2 DEF With
  <2>7. Len(order') <= MemCap
    BY <1>0, <1>1, <2>3, <2>4
  <2> QED
    BY <1>0, <1>1, <2>2, <2>4, <2>5, <2>6, <2>7
<1>4. CASE k \notin DOMAIN map /\ ~(AtCap /\ order # <<>>)
  <2>1. map' = With(map, k, a) /\ order' = Append(order, k)
    BY <1>4 DEF CachePut
  <2>2. /\ Listed(order', Keys, DOMAIN map \cup {k})
        /\ Len(order') = Len(order) + 1
    BY <1>0, <1>1, <1>4, <2>1, ListedAppend
  <2>3. DOMAIN map' = DOMAIN map \cup {k}
    BY <2>1 DEF With
  <2>4. \A x \in DOMAIN map' : map'[x] \in Analyses /\ map'[x].key = x
    BY <1>1, <2>1 DEF With
  <2>5. Cardinality(DOMAIN map) = Len(order)
    BY <1>1, ListedCounts
  <2>6. Len(order) < MemCap
    <3>1. CASE order = <<>>
      BY <1>0, <3>1
    <3>2. CASE ~AtCap
      BY <1>0, <1>1, <2>5, <3>2 DEF AtCap
    <3> QED
      BY <1>4, <3>1, <3>2
  <2>7. Len(order') <= MemCap
    BY <1>0, <1>1, <2>2, <2>6
  <2> QED
    BY <1>0, <1>1, <2>2, <2>3, <2>4, <2>7
<1> QED
  BY <1>2, <1>3, <1>4

-----------------------------------------------------------------------------
(* What a call is given, and what a statement leaves of the others *)

CallStages ==
    {"rest", "metadata", "setting", "embedding", "compare", "drop metadata", "drop embeddings"}

LEMMA RestIs == NoCall \in Calls /\ NoCall.next = "rest"
BY DEF Calls, NoCall

LEMMA CallAt ==
    ASSUME RowTypes, NEW w \in Writers
    PROVE  /\ call[w] \in Calls
           /\ call[w].next \in CallStages
           /\ call[w].next = "rest" <=> AtRest(w)
           /\ Storing(w) => call[w].about \in Analyses
           /\ Clearing(w) => call[w].about \in Keys
<1>1. call[w] \in Calls
  BY DEF RowTypes
<1>2. CASE call[w] = NoCall
  BY <1>1, <1>2 DEF NoCall, CallStages, AtRest, Storing, Clearing
<1>3. CASE call[w] \in [next : {"metadata", "setting", "embedding"}, about : Analyses]
  <2>1. call[w].next \in {"metadata", "setting", "embedding"} /\ call[w].about \in Analyses
    BY <1>3
  <2>2. ~AtRest(w)
    BY <2>1, RestIs DEF AtRest
  <2> QED
    BY <1>1, <2>1, <2>2 DEF CallStages, Storing, Clearing
<1>4. CASE call[w] \in [next : {"compare", "drop metadata", "drop embeddings"}, about : Keys]
  <2>1. call[w].next \in {"compare", "drop metadata", "drop embeddings"} /\ call[w].about \in Keys
    BY <1>4
  <2>2. ~AtRest(w)
    BY <2>1, RestIs DEF AtRest
  <2> QED
    BY <1>1, <2>1, <2>2 DEF CallStages, Storing, Clearing
<1> QED
  BY <1>1, <1>2, <1>3, <1>4 DEF Calls

LEMMA BeginLeaves ==
    ASSUME RowTypes, NEW w \in Writers, NEW n, NEW x, [next |-> n, about |-> x] \in Calls,
           Begin(w, n, x)
    PROVE  /\ AtRest(w) /\ call' \in [Writers -> Calls]
           /\ call'[w].next = n /\ call'[w].about = x
           /\ \A v \in Writers \ {w} : call'[v] = call[v]
           /\ mixed' \in BOOLEAN
           /\ ~mixed' => Alone(w)
BY DEF RowTypes, Begin

LEMMA GotoLeaves ==
    ASSUME RowTypes, NEW w \in Writers, NEW n, Goto(w, n),
           \/ Storing(w) /\ n \in {"metadata", "setting", "embedding"}
           \/ Clearing(w) /\ n \in {"compare", "drop metadata", "drop embeddings"}
    PROVE  /\ call' \in [Writers -> Calls]
           /\ call'[w].next = n /\ call'[w].about = call[w].about
           /\ \A v \in Writers \ {w} : call'[v] = call[v]
<1> DEFINE new == [call[w] EXCEPT !.next = n]
<1>1. call' = [call EXCEPT ![w] = new]
  BY DEF Goto
<1>2. new \in Calls /\ new.next = n /\ new.about = call[w].about
  <2>1. call[w] \in Calls
    BY CallAt
  <2>2. CASE Storing(w) /\ n \in {"metadata", "setting", "embedding"}
    <3>1. \A c \in [next : {"metadata", "setting", "embedding"}, about : Analyses] :
              LET d == [c EXCEPT !.next = n] IN
              /\ d \in [next : {"metadata", "setting", "embedding"}, about : Analyses]
              /\ d.next = n /\ d.about = c.about
      BY <2>2
    <3>2. call[w] \in [next : {"metadata", "setting", "embedding"}, about : Analyses]
      BY <2>1, <2>2, RestIs DEF Calls, Storing
    <3> QED
      BY <3>1, <3>2 DEF Calls
  <2>3. CASE Clearing(w) /\ n \in {"compare", "drop metadata", "drop embeddings"}
    <3>1. \A c \in [next : {"compare", "drop metadata", "drop embeddings"}, about : Keys] :
              LET d == [c EXCEPT !.next = n] IN
              /\ d \in [next : {"compare", "drop metadata", "drop embeddings"}, about : Keys]
              /\ d.next = n /\ d.about = c.about
      BY <2>3
    <3>2. call[w] \in [next : {"compare", "drop metadata", "drop embeddings"}, about : Keys]
      BY <2>1, <2>3, RestIs DEF Calls, Clearing
    <3> QED
      BY <3>1, <3>2 DEF Calls
  <2> QED
    BY <2>2, <2>3
<1> HIDE DEF new
<1> QED
  BY <1>1, <1>2 DEF RowTypes

LEMMA ReturnLeaves ==
    ASSUME RowTypes, NEW w \in Writers, Return(w)
    PROVE  /\ call' \in [Writers -> Calls]
           /\ call'[w] = NoCall /\ call'[w].next = "rest"
           /\ \A v \in Writers \ {w} : call'[v] = call[v]
BY RestIs DEF RowTypes, Return

(* One call at most goes on as one, and ends as none. *)
LEMMA OneCallBegins ==
    ASSUME RowTypes, OneCall, NEW w \in Writers, NEW n, NEW x,
           [next |-> n, about |-> x] \in Calls, Begin(w, n, x),
           ~torn' => Alone(w), ~untidy' => Alone(w)
    PROVE  OneCall'
<1>1. /\ \A v \in Writers \ {w} : call'[v] = call[v]
      /\ ~mixed' => Alone(w)
  BY BeginLeaves
<1> QED
  BY <1>1 DEF OneCall, Alone, AtRest

LEMMA OneCallGoesOn ==
    ASSUME RowTypes, OneCall, NEW w \in Writers, ~AtRest(w),
           \A v \in Writers \ {w} : call'[v] = call[v],
           ~mixed' \/ ~torn' \/ ~untidy' => ~mixed \/ ~torn \/ ~untidy
    PROVE  OneCall'
BY DEF OneCall, AtRest

(* Where that is so, a call at work is alone. *)
LEMMA AloneWhere ==
    ASSUME RowTypes, OneCall, ~mixed \/ ~torn \/ ~untidy, NEW w \in Writers, ~AtRest(w)
    PROVE  \A v \in Writers \ {w} : AtRest(v) /\ call[v].next = "rest"
BY RestIs DEF OneCall, AtRest

LEMMA RestOf ==
    ASSUME NEW w, AtRest(w)
    PROVE  call[w].next = "rest" /\ ~Storing(w) /\ ~Clearing(w)
BY RestIs DEF AtRest, Storing, Clearing

-----------------------------------------------------------------------------
(* persist_analysis *)

LEMMA PersistKeepsRows ==
    ASSUME RowInv, NEW w \in Writers, NEW a \in Analyses, Persist(w, a)
    PROVE  RowInv'
<1>0. RowTypes /\ RowsByModel /\ OneCall /\ KeyInv /\ EmbeddingInv
  BY DEF RowInv
<1>1. [next |-> "metadata", about |-> a] \in Calls /\ a.key \in Keys /\ NoRow \notin Keys
  BY IndexAssumption DEF Calls, Keys
<1>2. /\ AtRest(w) /\ call' \in [Writers -> Calls]
      /\ call'[w].next = "metadata" /\ call'[w].about = a
      /\ \A v \in Writers \ {w} : call'[v] = call[v]
      /\ mixed' \in BOOLEAN
      /\ ~mixed' => Alone(w)
      /\ call[w].next = "rest"
  BY <1>0, <1>1, BeginLeaves, RestOf DEF Persist
<1>3. UNCHANGED rowVars /\ cleared' = NoRow
      /\ torn' = (torn \/ ~Alone(w))
      /\ untidy' = (untidy \/ ~Alone(w) \/ (setting \notin {NoRow, a.key} /\ cleared # a.key))
  BY DEF Persist
<1>4. RowTypes'
  BY <1>0, <1>2, <1>3 DEF RowTypes, rowVars
<1>5. RowsByModel'
  BY <1>0, <1>2, <1>3 DEF RowsByModel, rowVars
<1>6. OneCall'
  BY <1>0, <1>1, <1>3, OneCallBegins DEF Persist
<1>7. KeyInv'
  <2>1. ASSUME ~mixed' \/ ~torn' PROVE \A v \in Writers : call'[v].next \in {"rest", "metadata"}
    BY <2>1, <1>2, <1>3, RestIs DEF Alone, AtRest
  <2>2. ASSUME ~torn', metadata' # NoRow PROVE setting' = metadata'.key
    <3>1. \A v \in Writers : call[v].next = "rest"
      BY <2>2, <1>2, <1>3, RestIs DEF Alone, AtRest
    <3> QED
      BY <2>2, <3>1, <1>0, <1>3 DEF KeyInv, rowVars
  <2> QED
    BY <2>1, <2>2 DEF KeyInv
<1>8. EmbeddingInv'
  <2> SUFFICES ASSUME ~untidy' PROVE EmbeddingInv'
    BY DEF EmbeddingInv
  <2>1. \A v \in Writers : call[v].next = "rest" /\ ~Clearing(v)
    BY <1>2, <1>3, RestOf DEF Alone
  <2>2. ~untidy /\ (setting \in {NoRow, a.key} \/ cleared = a.key)
    BY <1>0, <1>3 DEF RowTypes
  <2>3. /\ EmbeddedUnder(setting)
        /\ \A m \in Models : embeddings[m] # NoRow =>
               metadata # NoRow /\ embeddings[m].key = metadata.key
        /\ cleared # NoRow => EmbeddedUnder(cleared)
    BY <1>0, <2>1, <2>2 DEF EmbeddingInv
  <2>4. EmbeddedUnder(a.key)
    <3>1. ASSUME NEW m \in Models, embeddings[m] # NoRow PROVE embeddings[m].key # NoRow
      BY <3>1, <1>0, <1>1 DEF RowTypes, Keys
    <3> QED
      BY <3>1, <1>1, <2>2, <2>3 DEF EmbeddedUnder
  <2>5. \A v \in Writers :
            /\ call'[v].next \in {"rest", "metadata"}
            /\ call'[v].next = "metadata" => call'[v].about = a
    BY <1>2, <2>1
  <2> QED
    BY <1>3, <2>3, <2>4, <2>5 DEF EmbeddingInv, EmbeddedUnder, Storing, Clearing, rowVars
<1> QED
  BY <1>4, <1>5, <1>6, <1>7, <1>8 DEF RowInv

LEMMA PutMetadataKeepsRows ==
    ASSUME RowInv, NEW w \in Writers, PutMetadata(w)
    PROVE  RowInv'
<1>0. RowTypes /\ RowsByModel /\ OneCall /\ KeyInv /\ EmbeddingInv
  BY DEF RowInv
<1>1. /\ call[w].next = "metadata" /\ Storing(w) /\ ~AtRest(w)
      /\ call[w].about \in Analyses
      /\ UNCHANGED <<known, setting, embeddings, mixed, torn, cleared, untidy>>
  BY <1>0, CallAt, RestOf DEF PutMetadata, Storing
<1>2. /\ call' \in [Writers -> Calls]
      /\ \A v \in Writers \ {w} : call'[v] = call[v]
      /\ \/ /\ metadata' = call[w].about
            /\ call'[w].next = "setting" /\ call'[w].about = call[w].about
         \/ metadata' = metadata /\ call'[w].next = "rest"
  <2>1. CASE known
    <3>1. metadata' = call[w].about /\ Goto(w, "setting")
      BY <2>1 DEF PutMetadata
    <3> QED
      BY <1>0, <1>1, <3>1, GotoLeaves
  <2>2. CASE ~known
    <3>1. metadata' = metadata /\ Return(w)
      BY <2>2 DEF PutMetadata
    <3> QED
      BY <1>0, <3>1, ReturnLeaves
  <2> QED
    BY <2>1, <2>2
<1>3. RowTypes'
  BY <1>0, <1>1, <1>2 DEF RowTypes
<1>4. RowsByModel'
  BY <1>0, <1>1, <1>2 DEF RowsByModel
<1>5. OneCall'
  BY <1>0, <1>1, <1>2, OneCallGoesOn
<1>6. KeyInv'
  <2>1. ASSUME ~mixed \/ ~torn PROVE \A v \in Writers \ {w} : call'[v].next = "rest"
    BY <2>1, <1>0, <1>1, <1>2, AloneWhere
  <2>2. ASSUME ~torn' , call'[w].next = "rest", metadata' # NoRow PROVE setting' = metadata'.key
    <3>1. \A v \in Writers : call[v].next # "setting"
      BY <2>1, <2>2, <1>1, <1>2
    <3> QED
      BY <2>2, <3>1, <1>0, <1>1, <1>2 DEF KeyInv
  <2> QED
    BY <2>1, <2>2, <1>1, <1>2 DEF KeyInv
<1>7. EmbeddingInv'
  <2> SUFFICES ASSUME ~untidy' PROVE EmbeddingInv'
    BY DEF EmbeddingInv
  <2>1. ~untidy
    BY <1>1
  <2>2. \A v \in Writers \ {w} : call[v].next = "rest"
    BY <2>1, <1>0, <1>1, AloneWhere
  <2>3. /\ EmbeddedUnder(setting)
        /\ \A m \in Models : embeddings[m] # NoRow =>
               metadata # NoRow /\ embeddings[m].key = metadata.key
        /\ EmbeddedUnder(call[w].about.key)
        /\ cleared = NoRow
    BY <1>0, <1>1, <2>1, <2>2 DEF EmbeddingInv
  <2>4. call[w].about # NoRow
    BY <1>1, IndexAssumption
  <2>5. /\ \A v \in Writers : call'[v].next \in {"rest", "setting"}
        /\ \A v \in Writers : call'[v].next = "setting" =>
               v = w /\ metadata' = call[w].about /\ call'[v].about = call[w].about
    BY <1>2, <2>2
  <2>6. \A m \in Models : embeddings'[m] # NoRow =>
            metadata' # NoRow /\ embeddings'[m].key = metadata'.key
    BY <1>1, <1>2, <2>3, <2>4 DEF EmbeddedUnder
  <2>7. EmbeddedUnder(setting)' /\ (cleared' # NoRow => EmbeddedUnder(cleared)')
    BY <1>1, <2>3 DEF EmbeddedUnder
  <2>8. \A v \in Writers :
            /\ Storing(v)' => cleared' = NoRow /\ EmbeddedUnder(call[v].about.key)'
            /\ call'[v].next \in {"setting", "embedding"} => metadata' = call'[v].about
            /\ call'[v].next # "embedding"
            /\ ~Clearing(v)'
    BY <1>1, <2>3, <2>5 DEF EmbeddedUnder, Storing, Clearing
  <2> QED
    BY <2>6, <2>7, <2>8 DEF EmbeddingInv
<1> QED
  BY <1>3, <1>4, <1>5, <1>6, <1>7 DEF RowInv

LEMMA PutSettingKeepsRows ==
    ASSUME RowInv, NEW w \in Writers, PutSetting(w)
    PROVE  RowInv'
<1>0. RowTypes /\ RowsByModel /\ OneCall /\ KeyInv /\ EmbeddingInv
  BY DEF RowInv
<1>1. /\ call[w].next = "setting" /\ Storing(w) /\ ~AtRest(w)
      /\ call[w].about \in Analyses /\ call[w].about.key \in Keys
      /\ setting' = call[w].about.key
      /\ UNCHANGED <<known, metadata, embeddings, mixed, cleared, untidy>>
  BY <1>0, CallAt, RestOf DEF PutSetting, Storing, Setting, Keys
<1>2. /\ call' \in [Writers -> Calls]
      /\ \A v \in Writers \ {w} : call'[v] = call[v]
      /\ \/ /\ torn' = torn /\ call[w].about.model # NoRow
            /\ call'[w].next = "embedding" /\ call'[w].about = call[w].about
         \/ torn' = (torn /\ ~Whole(w)) /\ call'[w].next = "rest"
  <2>1. CASE call[w].about.model = NoRow
    <3>1. torn' = (torn /\ ~Whole(w)) /\ Return(w)
      BY <2>1 DEF PutSetting
    <3> QED
      BY <1>0, <3>1, ReturnLeaves
  <2>2. CASE call[w].about.model # NoRow
    <3>1. torn' = torn /\ Goto(w, "embedding")
      BY <2>2 DEF PutSetting
    <3> QED
      BY <1>0, <1>1, <2>2, <3>1, GotoLeaves
  <2> QED
    BY <2>1, <2>2
<1>3. RowTypes'
  BY <1>0, <1>1, <1>2 DEF RowTypes
<1>4. RowsByModel'
  BY <1>0, <1>1, <1>2 DEF RowsByModel
<1>5. ~mixed' \/ ~torn' => ~mixed \/ ~torn
  BY <1>0, <1>1, <1>2 DEF Whole, RowTypes
<1>6. OneCall'
  BY <1>0, <1>1, <1>2, <1>5, OneCallGoesOn
<1>7. KeyInv'
  <2> SUFFICES ASSUME ~mixed' \/ ~torn' PROVE KeyInv'
    BY DEF KeyInv
  <2>1. \A v \in Writers \ {w} : call'[v].next = "rest"
    BY <1>0, <1>1, <1>2, <1>5, AloneWhere
  <2>2. metadata' \in {NoRow, call[w].about}
    BY <1>0, <1>1, <1>5 DEF KeyInv
  <2> QED
    BY <1>1, <1>2, <2>1, <2>2 DEF KeyInv
<1>8. EmbeddingInv'
  <2> SUFFICES ASSUME ~untidy' PROVE EmbeddingInv'
    BY DEF EmbeddingInv
  <2>1. ~untidy
    BY <1>1
  <2>2. \A v \in Writers \ {w} : call[v].next = "rest"
    BY <2>1, <1>0, <1>1, AloneWhere
  <2>3. /\ \A m \in Models : embeddings[m] # NoRow =>
               metadata # NoRow /\ embeddings[m].key = metadata.key
        /\ EmbeddedUnder(call[w].about.key)
        /\ metadata = call[w].about
        /\ cleared = NoRow
    BY <1>0, <1>1, <2>1, <2>2 DEF EmbeddingInv
  <2>4. /\ \A v \in Writers : call'[v].next \in {"rest", "embedding"}
        /\ \A v \in Writers : call'[v].next = "embedding" => v = w /\ call'[v].about = call[w].about
    BY <1>2, <2>2
  <2>5. EmbeddedUnder(setting)' /\ (cleared' # NoRow => EmbeddedUnder(cleared)')
    BY <1>1, <2>3 DEF EmbeddedUnder
  <2>6. \A v \in Writers :
            /\ Storing(v)' => cleared' = NoRow /\ EmbeddedUnder(call[v].about.key)'
            /\ call'[v].next \in {"setting", "embedding"} =>
                   metadata' = call'[v].about /\ setting' = call'[v].about.key
            /\ ~Clearing(v)'
    BY <1>1, <2>3, <2>4 DEF EmbeddedUnder, Storing, Clearing
  <2> QED
    BY <1>1, <2>3, <2>5, <2>6 DEF EmbeddingInv
<1> QED
  BY <1>3, <1>4, <1>6, <1>7, <1>8 DEF RowInv

LEMMA PutEmbeddingKeepsRows ==
    ASSUME RowInv, NEW w \in Writers, PutEmbedding(w)
    PROVE  RowInv'
<1>0. RowTypes /\ RowsByModel /\ OneCall /\ KeyInv /\ EmbeddingInv
  BY DEF RowInv
<1> DEFINE a == call[w].about
<1>1. /\ call[w].next = "embedding" /\ Storing(w) /\ ~AtRest(w)
      /\ a \in Analyses /\ a.key \in Keys /\ a.model \in Models
      /\ UNCHANGED <<known, metadata, setting, mixed, cleared, untidy>>
      /\ torn' = (torn /\ ~Whole(w))
  BY <1>0, CallAt, RestOf DEF PutEmbedding, Storing, Keys, Models, RowsByModel
<1>2. /\ call' \in [Writers -> Calls]
      /\ \A v \in Writers \ {w} : call'[v] = call[v]
      /\ call'[w].next = "rest"
  BY <1>0, ReturnLeaves DEF PutEmbedding
<1> HIDE DEF a
<1>3. /\ embeddings' \in [Models -> Analyses \cup {NoRow}]
      /\ \A m \in Models : embeddings'[m] = embeddings[m] \/ (m = a.model /\ embeddings'[m] = a)
  <2>0. embeddings \in [Models -> Analyses \cup {NoRow}]
    BY <1>0 DEF RowTypes
  <2>1. CASE known
    <3>1. embeddings' = [embeddings EXCEPT ![a.model] = a]
      BY <2>1 DEF PutEmbedding, a
    <3> QED
      BY <2>0, <1>1, <3>1
  <2>2. CASE ~known
    <3>1. embeddings' = embeddings
      BY <2>2 DEF PutEmbedding
    <3> QED
      BY <2>0, <3>1
  <2> QED
    BY <2>1, <2>2
<1>4. RowTypes'
  BY <1>0, <1>1, <1>2, <1>3 DEF RowTypes
<1>5. RowsByModel'
  BY <1>0, <1>1, <1>2, <1>3 DEF RowsByModel
<1>6. ~mixed' \/ ~torn' => ~mixed \/ ~torn
  BY <1>0, <1>1 DEF Whole, RowTypes
<1>7. OneCall'
  BY <1>0, <1>1, <1>2, <1>6, OneCallGoesOn
<1>8. KeyInv'
  <2> SUFFICES ASSUME ~mixed' \/ ~torn' PROVE KeyInv'
    BY DEF KeyInv
  <2>1. \A v \in Writers : call'[v].next = "rest"
    BY <1>0, <1>1, <1>2, <1>6, AloneWhere
  <2>2. metadata' \in {NoRow, a} /\ setting' = a.key
    BY <1>0, <1>1, <1>6 DEF KeyInv, a
  <2> QED
    BY <2>1, <2>2 DEF KeyInv
<1>9. EmbeddingInv'
  <2> SUFFICES ASSUME ~untidy' PROVE EmbeddingInv'
    BY DEF EmbeddingInv
  <2>1. ~untidy
    BY <1>1
  <2>2. \A v \in Writers \ {w} : call[v].next = "rest"
    BY <2>1, <1>0, <1>1, AloneWhere
  <2>3. /\ EmbeddedUnder(a.key)
        /\ metadata = a /\ setting = a.key
        /\ cleared = NoRow
    BY <1>0, <1>1, <2>1 DEF EmbeddingInv, a
  <2>4. \A v \in Writers : call'[v].next = "rest" /\ ~Storing(v)' /\ ~Clearing(v)'
    BY <1>2, <2>2 DEF Storing, Clearing
  <2>5. \A m \in Models : embeddings'[m] # NoRow => embeddings'[m].key = a.key
    BY <1>3, <2>3 DEF EmbeddedUnder
  <2>6. a # NoRow
    BY <1>1, IndexAssumption
  <2> QED
    BY <1>1, <2>3, <2>4, <2>5, <2>6 DEF EmbeddingInv, EmbeddedUnder
<1> QED
  BY <1>4, <1>5, <1>7, <1>8, <1>9 DEF RowInv

-----------------------------------------------------------------------------
(* invalidate_if_model_changed *)

LEMMA InvalidateKeepsRows ==
    ASSUME RowInv, NEW w \in Writers, NEW k \in Keys, Invalidate(w, k)
    PROVE  RowInv'
<1>0. RowTypes /\ RowsByModel /\ OneCall /\ KeyInv /\ EmbeddingInv
  BY DEF RowInv
<1>1. [next |-> "compare", about |-> k] \in Calls
  BY DEF Calls
<1>2. /\ AtRest(w) /\ call' \in [Writers -> Calls]
      /\ call'[w].next = "compare" /\ call'[w].about = k
      /\ \A v \in Writers \ {w} : call'[v] = call[v]
      /\ mixed' \in BOOLEAN
      /\ ~mixed' => Alone(w)
      /\ call[w].next = "rest"
  BY <1>0, <1>1, BeginLeaves, RestOf DEF Invalidate
<1>3. UNCHANGED rowVars /\ cleared' = k
      /\ torn' = (torn \/ ~Alone(w))
      /\ untidy' = (untidy \/ ~Alone(w))
  BY DEF Invalidate
<1>4. RowTypes'
  BY <1>0, <1>2, <1>3 DEF RowTypes, rowVars
<1>5. RowsByModel'
  BY <1>0, <1>2, <1>3 DEF RowsByModel, rowVars
<1>6. OneCall'
  BY <1>0, <1>1, <1>3, OneCallBegins DEF Invalidate
<1>7. KeyInv'
  <2>1. ASSUME ~mixed' \/ ~torn' PROVE \A v \in Writers : call'[v].next \in {"rest", "compare"}
    BY <2>1, <1>2, <1>3, RestIs DEF Alone, AtRest
  <2>2. ASSUME ~torn', metadata' # NoRow PROVE setting' = metadata'.key
    <3>1. \A v \in Writers : call[v].next = "rest"
      BY <2>2, <1>2, <1>3, RestIs DEF Alone, AtRest
    <3> QED
      BY <2>2, <3>1, <1>0, <1>3 DEF KeyInv, rowVars
  <2> QED
    BY <2>1, <2>2 DEF KeyInv
<1>8. EmbeddingInv'
  <2> SUFFICES ASSUME ~untidy' PROVE EmbeddingInv'
    BY DEF EmbeddingInv
  <2>1. \A v \in Writers : call[v].next = "rest"
    BY <1>2, <1>3, RestOf DEF Alone
  <2>2. /\ EmbeddedUnder(setting)
        /\ \A m \in Models : embeddings[m] # NoRow =>
               metadata # NoRow /\ embeddings[m].key = metadata.key
    BY <1>0, <1>3, <2>1 DEF EmbeddingInv
  <2>3. \A v \in Writers :
            /\ call'[v].next \in {"rest", "compare"}
            /\ call'[v].next = "compare" => v = w /\ call'[v].about = k
    BY <1>2, <2>1
  <2>4. Clearing(w)'
    BY <1>2 DEF Clearing
  <2> QED
    BY <1>3, <2>2, <2>3, <2>4 DEF EmbeddingInv, EmbeddedUnder, Storing, Clearing, rowVars
<1> QED
  BY <1>4, <1>5, <1>6, <1>7, <1>8 DEF RowInv

LEMMA CompareKeyKeepsRows ==
    ASSUME RowInv, NEW w \in Writers, CompareKey(w)
    PROVE  RowInv'
<1>0. RowTypes /\ RowsByModel /\ OneCall /\ KeyInv /\ EmbeddingInv
  BY DEF RowInv
<1>1. /\ call[w].next = "compare" /\ Clearing(w) /\ ~AtRest(w)
      /\ UNCHANGED <<rowVars, mixed, torn, cleared, untidy>>
  BY <1>0, CallAt, RestOf DEF CompareKey, Clearing
<1>2. /\ call' \in [Writers -> Calls]
      /\ \A v \in Writers \ {w} : call'[v] = call[v]
      /\ \/ call'[w].next = "rest" /\ setting \in {NoRow, call[w].about}
         \/ call'[w].next = "drop metadata" /\ call'[w].about = call[w].about
  <2>1. CASE setting \in {NoRow, call[w].about}
    <3>1. Return(w)
      BY <2>1 DEF CompareKey
    <3> QED
      BY <1>0, <2>1, <3>1, ReturnLeaves
  <2>2. CASE setting \notin {NoRow, call[w].about}
    <3>1. Goto(w, "drop metadata")
      BY <2>2 DEF CompareKey
    <3> QED
      BY <1>0, <1>1, <3>1, GotoLeaves
  <2> QED
    BY <2>1, <2>2
<1>3. RowTypes'
  BY <1>0, <1>1, <1>2 DEF RowTypes, rowVars
<1>4. RowsByModel'
  BY <1>0, <1>1, <1>2 DEF RowsByModel, rowVars
<1>5. OneCall'
  BY <1>0, <1>1, <1>2, OneCallGoesOn
<1>6. KeyInv'
  BY <1>0, <1>1, <1>2 DEF KeyInv, rowVars
<1>7. EmbeddingInv'
  <2> SUFFICES ASSUME ~untidy' PROVE EmbeddingInv'
    BY DEF EmbeddingInv
  <2>1. ~untidy
    BY <1>1
  <2>2. \A v \in Writers \ {w} : call[v].next = "rest"
    BY <2>1, <1>0, <1>1, AloneWhere
  <2>3. /\ EmbeddedUnder(setting)
        /\ \A m \in Models : embeddings[m] # NoRow =>
               metadata # NoRow /\ embeddings[m].key = metadata.key
        /\ call[w].about = cleared
    BY <1>0, <1>1, <2>1, <2>2 DEF EmbeddingInv
  <2>4. \A m \in Models : embeddings[m] # NoRow => embeddings[m].key # NoRow
    BY <1>0, IndexAssumption DEF RowTypes, Keys
  <2>5. \A v \in Writers :
            /\ call'[v].next \in {"rest", "drop metadata"}
            /\ call'[v].next = "drop metadata" => v = w /\ call'[v].about = cleared
    BY <1>2, <2>2, <2>3
  <2>6. (\A v \in Writers : ~Clearing(v)') => EmbeddedUnder(cleared)
    <3>1. CASE call'[w].next = "rest"
      BY <1>2, <2>3, <2>4, <3>1 DEF EmbeddedUnder
    <3>2. CASE call'[w].next = "drop metadata"
      BY <3>2 DEF Clearing
    <3> QED
      BY <1>2, <3>1, <3>2
  <2>7. \A v \in Writers : ~Storing(v)' /\ (Clearing(v)' => call'[v].about = cleared)
    BY <2>5 DEF Storing, Clearing
  <2> QED
    BY <1>1, <2>3, <2>5, <2>6, <2>7 DEF EmbeddingInv, EmbeddedUnder, rowVars
<1> QED
  BY <1>3, <1>4, <1>5, <1>6, <1>7 DEF RowInv

LEMMA DropMetadataKeepsRows ==
    ASSUME RowInv, NEW w \in Writers, DropMetadata(w)
    PROVE  RowInv'
<1>0. RowTypes /\ RowsByModel /\ OneCall /\ KeyInv /\ EmbeddingInv
  BY DEF RowInv
<1>1. /\ call[w].next = "drop metadata" /\ Clearing(w) /\ ~AtRest(w)
      /\ metadata' = NoRow
      /\ UNCHANGED <<known, setting, embeddings, mixed, torn, cleared, untidy>>
  BY <1>0, CallAt, RestOf DEF DropMetadata, Clearing
<1>2. /\ call' \in [Writers -> Calls]
      /\ \A v \in Writers \ {w} : call'[v] = call[v]
      /\ call'[w].next = "drop embeddings" /\ call'[w].about = call[w].about
  BY <1>0, <1>1, GotoLeaves DEF DropMetadata
<1>3. RowTypes'
  BY <1>0, <1>1, <1>2 DEF RowTypes
<1>4. RowsByModel'
  BY <1>0, <1>1, <1>2 DEF RowsByModel
<1>5. OneCall'
  BY <1>0, <1>1, <1>2, OneCallGoesOn
<1>6. KeyInv'
  BY <1>0, <1>1, <1>2 DEF KeyInv
<1>7. EmbeddingInv'
  <2> SUFFICES ASSUME ~untidy' PROVE EmbeddingInv'
    BY DEF EmbeddingInv
  <2>1. ~untidy
    BY <1>1
  <2>2. \A v \in Writers \ {w} : call[v].next = "rest"
    BY <2>1, <1>0, <1>1, AloneWhere
  <2>3. EmbeddedUnder(setting) /\ call[w].about = cleared
    BY <1>0, <1>1, <2>1 DEF EmbeddingInv
  <2>4. /\ \A v \in Writers : call'[v].next \in {"rest", "drop embeddings"}
        /\ \A v \in Writers : call'[v].next = "drop embeddings" => call'[v].about = cleared
        /\ Clearing(w)'
    BY <1>2, <2>2, <2>3 DEF Clearing
  <2>5. \A v \in Writers : ~Storing(v)' /\ (Clearing(v)' => call'[v].about = cleared)
    BY <2>4 DEF Storing, Clearing
  <2> QED
    BY <1>1, <1>2, <2>3, <2>4, <2>5 DEF EmbeddingInv, EmbeddedUnder
<1> QED
  BY <1>3, <1>4, <1>5, <1>6, <1>7 DEF RowInv

LEMMA DropEmbeddingsKeepsRows ==
    ASSUME RowInv, NEW w \in Writers, DropEmbeddings(w)
    PROVE  RowInv'
<1>0. RowTypes /\ RowsByModel /\ OneCall /\ KeyInv /\ EmbeddingInv
  BY DEF RowInv
<1>1. /\ call[w].next = "drop embeddings" /\ Clearing(w) /\ ~AtRest(w)
      /\ embeddings' = NoEmbeddings
      /\ UNCHANGED <<known, metadata, setting, mixed, torn, cleared>>
      /\ untidy' = (untidy /\ ~Whole(w))
  BY <1>0, CallAt, RestOf DEF DropEmbeddings, Clearing
<1>2. /\ call' \in [Writers -> Calls]
      /\ \A v \in Writers \ {w} : call'[v] = call[v]
      /\ call'[w].next = "rest"
  BY <1>0, ReturnLeaves DEF DropEmbeddings
<1>3. /\ embeddings' \in [Models -> Analyses \cup {NoRow}]
      /\ \A m \in Models : embeddings'[m] = NoRow
  BY <1>1 DEF NoEmbeddings
<1>4. RowTypes'
  BY <1>0, <1>1, <1>2, <1>3 DEF RowTypes
<1>5. RowsByModel'
  BY <1>0, <1>1, <1>2, <1>3 DEF RowsByModel
<1>6. ~mixed' \/ ~torn' \/ ~untidy' => ~mixed \/ ~torn \/ ~untidy
  BY <1>0, <1>1 DEF Whole, RowTypes
<1>7. OneCall'
  BY <1>0, <1>1, <1>2, <1>6, OneCallGoesOn
<1>8. KeyInv'
  BY <1>0, <1>1, <1>2 DEF KeyInv
<1>9. EmbeddingInv'
  <2> SUFFICES ASSUME ~untidy' PROVE EmbeddingInv'
    BY DEF EmbeddingInv
  <2>0. ~mixed \/ ~torn \/ ~untidy
    BY <1>6
  <2>1. \A v \in Writers \ {w} : call[v].next = "rest"
    BY <2>0, <1>0, <1>1, AloneWhere
  <2>2. \A v \in Writers : call'[v].next = "rest"
    BY <2>1, <1>2
  <2>3. \A v \in Writers : ~Storing(v)' /\ ~Clearing(v)'
    BY <2>2 DEF Storing, Clearing
  <2> QED
    BY <1>3, <2>2, <2>3 DEF EmbeddingInv, EmbeddedUnder
<1> QED
  BY <1>4, <1>5, <1>7, <1>8, <1>9 DEF RowInv

LEMMA FailKeepsRows ==
    ASSUME RowInv, NEW w \in Writers, StatementFails(w)
    PROVE  RowInv'
<1>0. RowTypes /\ RowsByModel /\ OneCall /\ KeyInv /\ EmbeddingInv
  BY DEF RowInv
<1>1. /\ ~AtRest(w) /\ cleared' = NoRow
      /\ UNCHANGED <<rowVars, mixed>>
      /\ torn' = (torn \/ call[w].next = "setting")
      /\ untidy' = (untidy \/ call[w].next = "drop embeddings")
  BY DEF StatementFails
<1>2. /\ call' \in [Writers -> Calls]
      /\ \A v \in Writers \ {w} : call'[v] = call[v]
      /\ call'[w].next = "rest"
  BY <1>0, ReturnLeaves DEF StatementFails
<1>3. RowTypes'
  BY <1>0, <1>1, <1>2 DEF RowTypes, rowVars
<1>4. RowsByModel'
  BY <1>0, <1>1, <1>2 DEF RowsByModel, rowVars
<1>5. OneCall'
  BY <1>0, <1>1, <1>2, OneCallGoesOn DEF RowTypes
<1>6. KeyInv'
  <2>1. ASSUME ~torn', metadata' # NoRow PROVE setting' = metadata'.key
    <3>1. ~torn /\ call[w].next # "setting"
      BY <2>1, <1>1
    <3>2. \A v \in Writers \ {w} : call[v].next = "rest"
      BY <3>1, <1>0, <1>1, AloneWhere
    <3> QED
      BY <2>1, <3>1, <3>2, <1>0, <1>1 DEF KeyInv, rowVars
  <2> QED
    BY <2>1, <1>0, <1>1, <1>2 DEF KeyInv, rowVars
<1>7. EmbeddingInv'
  <2> SUFFICES ASSUME ~untidy' PROVE EmbeddingInv'
    BY DEF EmbeddingInv
  <2>1. ~untidy /\ call[w].next # "drop embeddings"
    BY <1>1
  <2>2. \A v \in Writers \ {w} : call[v].next = "rest"
    BY <2>1, <1>0, <1>1, AloneWhere
  <2>3. /\ EmbeddedUnder(setting)
        /\ \A m \in Models : embeddings[m] # NoRow =>
               metadata # NoRow /\ embeddings[m].key = metadata.key
    BY <2>1, <2>2, <1>0 DEF EmbeddingInv
  <2>4. \A v \in Writers : call'[v].next = "rest"
    BY <2>2, <1>2
  <2>5. \A v \in Writers : ~Storing(v)' /\ ~Clearing(v)'
    BY <2>4 DEF Storing, Clearing
  <2> QED
    BY <1>1, <2>3, <2>4, <2>5 DEF EmbeddingInv, EmbeddedUnder, rowVars
<1> QED
  BY <1>3, <1>4, <1>5, <1>6, <1>7 DEF RowInv

-----------------------------------------------------------------------------
(* The rest of the world *)

LEMMA LearnKeepsRows ==
    ASSUME RowInv, Learn
    PROVE  RowInv'
<1>0. RowTypes /\ RowsByModel /\ OneCall /\ KeyInv /\ EmbeddingInv
  BY DEF RowInv
<1>1. /\ known' = TRUE
      /\ UNCHANGED <<metadata, setting, embeddings, call, mixed, torn, cleared, untidy>>
  BY DEF Learn
<1>2. RowTypes'
  BY <1>0, <1>1 DEF RowTypes
<1>3. RowsByModel' /\ OneCall'
  BY <1>0, <1>1 DEF RowsByModel, OneCall, AtRest
<1>4. KeyInv'
  BY <1>0, <1>1 DEF KeyInv
<1>5. EmbeddingInv'
  BY <1>0, <1>1 DEF EmbeddingInv, EmbeddedUnder, Storing, Clearing
<1> QED
  BY <1>2, <1>3, <1>4, <1>5 DEF RowInv

LEMMA ForgetKeepsRows ==
    ASSUME RowInv, Forget
    PROVE  RowInv'
<1>0. RowTypes /\ RowsByModel /\ OneCall /\ KeyInv /\ EmbeddingInv
  BY DEF RowInv
<1>1. /\ known' = FALSE /\ metadata' = NoRow
      /\ embeddings' = [m \in Models |-> NoRow]
      /\ mixed' = (mixed \/ ~CallsAtRest) /\ untidy' = (untidy \/ ~CallsAtRest)
      /\ UNCHANGED <<setting, call, torn, cleared>>
  BY DEF Forget
<1>2. /\ embeddings' \in [Models -> Analyses \cup {NoRow}]
      /\ \A m \in Models : embeddings'[m] = NoRow
  BY <1>1
<1>3. RowTypes'
  BY <1>0, <1>1, <1>2 DEF RowTypes
<1>4. RowsByModel'
  BY <1>0, <1>1, <1>2 DEF RowsByModel
<1>5. OneCall'
  BY <1>0, <1>1 DEF OneCall, AtRest, RowTypes
<1>6. KeyInv'
  <2>1. ~mixed' => ~mixed
    BY <1>1
  <2> QED
    BY <1>0, <1>1, <2>1 DEF KeyInv
<1>7. EmbeddingInv'
  <2> SUFFICES ASSUME ~untidy' PROVE EmbeddingInv'
    BY DEF EmbeddingInv
  <2>1. \A v \in Writers : call'[v].next = "rest"
    BY <1>1, RestIs DEF CallsAtRest, AtRest
  <2>2. \A v \in Writers : ~Storing(v)' /\ ~Clearing(v)'
    BY <2>1 DEF Storing, Clearing
  <2> QED
    BY <1>2, <2>1, <2>2 DEF EmbeddingInv, EmbeddedUnder
<1> QED
  BY <1>3, <1>4, <1>5, <1>6, <1>7 DEF RowInv

LEMMA KillKeepsRows ==
    ASSUME RowInv, KillCalls
    PROVE  RowInv'
<1>0. RowTypes /\ RowsByModel /\ OneCall /\ KeyInv /\ EmbeddingInv
  BY DEF RowInv
<1>1. /\ UNCHANGED <<rowVars, mixed, cleared>>
      /\ torn' = (torn \/ ~CallsAtRest) /\ untidy' = (untidy \/ ~CallsAtRest)
      /\ call' = [w \in Writers |-> NoCall]
  BY DEF KillCalls
<1>2. /\ call' \in [Writers -> Calls]
      /\ \A w \in Writers : call'[w] = NoCall /\ call'[w].next = "rest"
  BY <1>1, RestIs
<1>3. \A w \in Writers : AtRest(w)' /\ ~Storing(w)' /\ ~Clearing(w)'
  BY <1>2 DEF AtRest, Storing, Clearing
<1>4. RowTypes'
  BY <1>0, <1>1, <1>2 DEF RowTypes, rowVars
<1>5. RowsByModel'
  BY <1>0, <1>1, <1>2 DEF RowsByModel, rowVars
<1>6. OneCall'
  BY <1>3 DEF OneCall
<1>7. CallsAtRest => \A w \in Writers : call[w].next = "rest" /\ ~Clearing(w)
  BY RestOf DEF CallsAtRest
<1>8. KeyInv'
  <2>1. ASSUME ~torn', metadata' # NoRow PROVE setting' = metadata'.key
    BY <1>0, <1>1, <1>7, <2>1 DEF KeyInv, rowVars
  <2> QED
    BY <1>2, <2>1 DEF KeyInv
<1>9. EmbeddingInv'
  <2> SUFFICES ASSUME ~untidy' PROVE EmbeddingInv'
    BY DEF EmbeddingInv
  <2>1. /\ EmbeddedUnder(setting)
        /\ \A m \in Models : embeddings[m] # NoRow =>
               metadata # NoRow /\ embeddings[m].key = metadata.key
        /\ cleared # NoRow => EmbeddedUnder(cleared)
    BY <1>0, <1>1, <1>7 DEF EmbeddingInv
  <2> QED
    BY <1>1, <1>2, <1>3, <2>1 DEF EmbeddingInv, EmbeddedUnder, rowVars
<1> QED
  BY <1>4, <1>5, <1>6, <1>8, <1>9 DEF RowInv

LEMMA RowsUntouched ==
    ASSUME RowInv, UNCHANGED <<rowVars, call, mixed, torn, cleared, untidy>>
    PROVE  RowInv'
<1>0. RowTypes /\ RowsByModel /\ OneCall /\ KeyInv /\ EmbeddingInv
  BY DEF RowInv
<1>1. RowTypes'
  BY <1>0 DEF RowTypes, rowVars
<1>2. RowsByModel' /\ OneCall'
  BY <1>0 DEF RowsByModel, OneCall, AtRest, rowVars
<1>3. KeyInv'
  BY <1>0 DEF KeyInv, rowVars
<1>4. EmbeddingInv'
  BY <1>0 DEF EmbeddingInv, EmbeddedUnder, Storing, Clearing, rowVars
<1> QED
  BY <1>1, <1>2, <1>3, <1>4 DEF RowInv

-----------------------------------------------------------------------------
(* Theorems *)

IndexInv == CacheInv /\ RowInv

LEMMA InitIndexInv == IndexInit => IndexInv
<1> SUFFICES ASSUME IndexInit PROVE IndexInv
  OBVIOUS
<1>1. CacheInv
  <2>1. map = << >> /\ order = << >> /\ DOMAIN map = {} /\ DOMAIN order = {}
    BY DEF IndexInit
  <2>2. Listed(order, Keys, DOMAIN map) /\ Len(order) = 0
    BY <2>1 DEF Listed, IsInjective, Range
  <2> QED
    BY <2>1, <2>2, CacheInvIs, IndexAssumption
<1>2. RowInv
  <2>1. /\ \A w \in Writers : call[w] = NoCall /\ call[w].next = "rest"
        /\ call \in [Writers -> Calls]
        /\ embeddings \in [Models -> Analyses \cup {NoRow}]
        /\ \A m \in Models : embeddings[m] = NoRow
    BY RestIs DEF IndexInit
  <2>2. RowTypes
    BY <2>1 DEF IndexInit, RowTypes
  <2>3. RowsByModel /\ OneCall
    BY <2>1 DEF RowsByModel, OneCall, AtRest
  <2>4. KeyInv
    BY <2>1 DEF IndexInit, KeyInv
  <2>5. EmbeddingInv
    BY <2>1 DEF IndexInit, EmbeddingInv, EmbeddedUnder, Storing, Clearing
  <2> QED
    BY <2>2, <2>3, <2>4, <2>5 DEF RowInv
<1> QED
  BY <1>1, <1>2 DEF IndexInv

LEMMA CacheUntouched ==
    ASSUME CacheInv, UNCHANGED memVars
    PROVE  CacheInv'
BY DEF CacheInv, CacheBounded, CacheGet, memVars

LEMMA StepKeepsRows ==
    ASSUME RowInv, NEW w \in Writers, IndexStep(w)
    PROVE  RowInv' /\ UNCHANGED memVars
<1>1. RowInv'
  BY PersistKeepsRows, PutMetadataKeepsRows, PutSettingKeepsRows, PutEmbeddingKeepsRows,
     InvalidateKeepsRows, CompareKeyKeepsRows, DropMetadataKeepsRows, DropEmbeddingsKeepsRows,
     FailKeepsRows
     DEF IndexStep
<1>2. UNCHANGED memVars
  BY DEF IndexStep, Persist, PutMetadata, PutSetting, PutEmbedding, Invalidate, CompareKey,
         DropMetadata, DropEmbeddings, StatementFails
<1> QED
  BY <1>1, <1>2

LEMMA NextKeepsIndexInv ==
    ASSUME IndexInv, [IndexNext]_indexVars
    PROVE  IndexInv'
<1>0. CacheInv /\ RowInv
  BY DEF IndexInv
<1>1. ASSUME NEW a \in Analyses, CachePut(a) PROVE IndexInv'
  <2>1. UNCHANGED <<rowVars, call, mixed, torn, cleared, untidy>>
    BY <1>1 DEF CachePut
  <2> QED
    BY <1>0, <1>1, <2>1, PutKeepsCache, RowsUntouched DEF IndexInv
<1>2. ASSUME NEW w \in Writers, IndexStep(w) PROVE IndexInv'
  BY <1>0, <1>2, StepKeepsRows, CacheUntouched DEF IndexInv
<1>3. CASE Learn
  BY <1>0, <1>3, LearnKeepsRows, CacheUntouched DEF IndexInv, Learn
<1>4. CASE Forget
  BY <1>0, <1>4, ForgetKeepsRows, CacheUntouched DEF IndexInv, Forget
<1>5. CASE KillCalls
  <2>1. map' = << >> /\ order' = << >> /\ DOMAIN map' = {} /\ DOMAIN order' = {}
    BY <1>5 DEF KillCalls
  <2>2. CacheInv'
    BY <2>1, IndexAssumption DEF CacheInv, CacheBounded, CacheGet, IsInjective, Range
  <2> QED
    BY <1>0, <1>5, <2>2, KillKeepsRows DEF IndexInv
<1>6. CASE UNCHANGED indexVars
  BY <1>0, <1>6, RowsUntouched, CacheUntouched DEF IndexInv, indexVars
<1> QED
  BY <1>1, <1>2, <1>3, <1>4, <1>5, <1>6 DEF IndexNext

LEMMA IndexInvHolds == IndexSpec => []IndexInv
BY InitIndexInv, NextKeepsIndexInv, PTL DEF IndexSpec

(* Every row, every entry and every call in progress has its type.         *)
THEOREM IndexTypeCorrect == IndexSpec => []IndexTypeOK
<1>1. IndexInv => IndexTypeOK
  <2> SUFFICES ASSUME IndexInv PROVE IndexTypeOK
    OBVIOUS
  <2>1. RowTypes /\ CacheInv
    BY DEF IndexInv, RowInv
  <2>2. ASSUME NEW w \in Writers
        PROVE  \/ call[w] = NoCall
               \/ call[w].next \in {"metadata", "setting", "embedding"} /\ call[w].about \in Analyses
               \/ call[w].next \in {"compare", "drop metadata", "drop embeddings"}
                  /\ call[w].about \in Keys
    BY <2>1, CallAt DEF CallStages, AtRest, Storing, Clearing
  <2> QED
    BY <2>1, <2>2 DEF IndexTypeOK, RowTypes, CacheInv
<1> QED
  BY <1>1, IndexInvHolds, PTL

(* The order of the cache in memory lists each of its keys once, so that   *)
(* what goes at the bound is there, and the map never grows beyond it      *)
(* (cache.rs:32).                                                          *)
THEOREM CacheStaysBounded == IndexSpec => []CacheBounded
<1>1. IndexInv => CacheBounded
  BY DEF IndexInv, CacheInv
<1> QED
  BY <1>1, IndexInvHolds, PTL

(* The key in the settings is that of the analysis in the metadata, unless *)
(* a call has been cut short by a kill or an error, or overlapped, and     *)
(* none has run as a whole since (cache.rs:73-107, 137).                   *)
THEOREM SettingNamesRow == IndexSpec => []KeyDescribesRow
<1>1. IndexInv => KeyDescribesRow
  BY RestOf DEF IndexInv, RowInv, KeyInv, KeyDescribesRow, CallsAtRest, LoadAnalysis
<1> QED
  BY <1>1, IndexInvHolds, PTL

(* A file has one embedding at most, of the analysis in its metadata, if   *)
(* every analysis under a new key was stored after an invalidation that    *)
(* succeeded (cache.rs:99, search.rs:143).                                 *)
THEOREM OneEmbeddingAtMost == IndexSpec => []OneEmbedding
<1>1. IndexInv => OneEmbedding
  <2> SUFFICES ASSUME IndexInv, CallsAtRest, ~untidy, NEW m \in Models, embeddings[m] # NoRow
               PROVE  /\ metadata # NoRow /\ metadata.model = m
                      /\ embeddings[m].key = metadata.key
    BY DEF OneEmbedding
  <2>1. RowTypes /\ RowsByModel /\ EmbeddingInv
    BY DEF IndexInv, RowInv
  <2>2. metadata # NoRow /\ embeddings[m].key = metadata.key
    BY <2>1, RestOf DEF EmbeddingInv, CallsAtRest
  <2>3. embeddings[m] \in Analyses /\ metadata \in Analyses /\ embeddings[m].model = m
    BY <2>1, <2>2 DEF RowTypes, RowsByModel
  <2> QED
    BY <2>2, <2>3, IndexAssumption
<1> QED
  BY <1>1, IndexInvHolds, PTL

=============================================================================
