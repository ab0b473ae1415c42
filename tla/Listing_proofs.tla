--------------------------- MODULE Listing_proofs ---------------------------
(***************************************************************************)
(* What the functions that make lists return, for all arguments: the       *)
(* search, the debouncers, the walk and the validation of paths.  Each is  *)
(* a fold or a filter; a fold is taken apart into the values it goes       *)
(* through, and a filter into the increasing numbers of what it keeps.     *)
(***************************************************************************)
EXTENDS Search, Watch, Folders, FiniteSetTheorems, WellFoundedInduction, TLAPS

-----------------------------------------------------------------------------
(* Induction, as a fact about sets of numbers *)

Less == {pair \in Nat \X Nat : pair[1] < pair[2]}

LEMMA LessIsWellFounded == IsWellFoundedOn(Less, Nat)
BY NatLessThanWellFounded DEF OpToRel, Less

LEMMA LeastOf ==
    ASSUME NEW T, T \subseteq Nat, T # {}
    PROVE  \E n \in T : \A m \in T : n <= m
<1>1. PICK n \in T : \A m \in T : ~(<<m, n>> \in Less)
  BY LessIsWellFounded, WFMin
<1>2. ASSUME NEW m \in T PROVE n <= m
  <2>1. n \in Nat /\ m \in Nat
    OBVIOUS
  <2>2. ASSUME m < n PROVE FALSE
    <3>1. <<m, n>> \in Less
      BY <2>1, <2>2 DEF Less
    <3> QED
      BY <1>1, <3>1
  <2> QED
    BY <2>1, <2>2
<1> QED
  BY <1>2

LEMMA SetInduction ==
    ASSUME NEW T, 0 \in T, \A n \in Nat : n \in T => n + 1 \in T
    PROVE  Nat \subseteq T
<1> SUFFICES ASSUME Nat \ T # {} PROVE FALSE
  OBVIOUS
<1>1. PICK n \in Nat \ T : \A m \in Nat \ T : n <= m
  BY LeastOf
<1>2. n # 0 /\ n - 1 \in Nat
  OBVIOUS
<1>3. n - 1 \in T
  BY <1>1, <1>2
<1> QED
  BY <1>2, <1>3

LEMMA GreatestUpTo ==
    ASSUME NEW n \in Nat, NEW T, T \subseteq 0 .. n, T # {}
    PROVE  Max(T) \in T /\ \A t \in T : t <= Max(T)
<1> DEFINE U == {n - t : t \in T}
<1>1. U \subseteq Nat /\ U # {}
  <2>1. PICK t \in T : TRUE
    OBVIOUS
  <2>2. n - t \in U
    BY <2>1
  <2>3. \A t_1 \in T : n - t_1 \in Nat
    OBVIOUS
  <2> QED
    BY <2>2, <2>3
<1>2. PICK u \in U : \A v \in U : u <= v
  BY <1>1, LeastOf
<1>3. PICK t \in T : u = n - t
  OBVIOUS
<1>4. ASSUME NEW s \in T PROVE s <= t
  <2>1. n - s \in U
    OBVIOUS
  <2>2. n - t <= n - s
    BY <1>2, <1>3, <2>1
  <2> QED
    BY <2>2
<1> QED
  BY <1>4 DEF Max

LEMMA GreatestOf ==
    ASSUME NEW n \in Nat, NEW T, T \subseteq 1 .. n, T # {}
    PROVE  Max(T) \in T /\ \A t \in T : t <= Max(T)
<1>1. T \subseteq 0 .. n
  OBVIOUS
<1> QED
  BY <1>1, GreatestUpTo

-----------------------------------------------------------------------------
(* Sorting *)

Rising(s) == \A i, j \in DOMAIN s : i < j => s[i] < s[j]

(* What comes before x. *)
Earlier(S, rel, x) == {y \in S : <<y, x>> \in rel}

Orders(S, rel) ==
    /\ \A x \in S : ~(<<x, x>> \in rel)
    /\ \A x, y, z \in S : <<x, y>> \in rel /\ <<y, z>> \in rel => <<x, z>> \in rel
    /\ \A x, y \in S : x = y \/ <<x, y>> \in rel \/ <<y, x>> \in rel

(* In a finite set that is ordered, each rank has an element and each      *)
(* element has a rank.                                                     *)
LEMMA Ranks ==
    ASSUME NEW S, IsFiniteSet(S), NEW rel, Orders(S, rel)
    PROVE  /\ Cardinality(S) \in Nat
           /\ \A x \in S : Cardinality(Earlier(S, rel, x)) \in 0 .. Cardinality(S) - 1
           /\ \A x, y \in S : <<x, y>> \in rel =>
                  Cardinality(Earlier(S, rel, x)) < Cardinality(Earlier(S, rel, y))
           /\ \A k \in 0 .. Cardinality(S) - 1 :
                  \E x \in S : Cardinality(Earlier(S, rel, x)) = k
<1> DEFINE n == Cardinality(S)
           before(x) == Earlier(S, rel, x)
           rank == [x \in S |-> Cardinality(before(x))]
<1>1. n \in Nat
  BY FS_CardinalityType
<1>2. ASSUME NEW x \in S
      PROVE  /\ IsFiniteSet(before(x)) /\ Cardinality(before(x)) \in Nat
             /\ Cardinality(before(x)) < n
  <2>1. before(x) \in SUBSET S /\ x \notin before(x)
    BY DEF Earlier, Orders
  <2>2. /\ IsFiniteSet(before(x)) /\ Cardinality(before(x)) <= n
        /\ n = Cardinality(before(x)) => S = before(x)
    BY <2>1, FS_Subset
  <2>3. Cardinality(before(x)) \in Nat
    BY <2>2, FS_CardinalityType
  <2> QED
    BY <1>1, <2>1, <2>2, <2>3
<1>3. ASSUME NEW x \in S, NEW y \in S, <<x, y>> \in rel
      PROVE  Cardinality(before(x)) < Cardinality(before(y))
  <2>1. before(x) \in SUBSET before(y) /\ x \in before(y) /\ x \notin before(x)
    BY <1>3 DEF Earlier, Orders
  <2>2. /\ Cardinality(before(x)) <= Cardinality(before(y))
        /\ Cardinality(before(y)) = Cardinality(before(x)) => before(y) = before(x)
    BY <1>2, <2>1, FS_Subset
  <2> QED
    BY <1>2, <2>1, <2>2
<1>4. IsFiniteSet(0 .. n - 1) /\ Cardinality(0 .. n - 1) = n
  BY <1>1, FS_Interval
<1>5. rank \in [S -> 0 .. n - 1]
  BY <1>1, <1>2
<1>6. \A x, y \in S : rank[x] = rank[y] => x = y
  <2> SUFFICES ASSUME NEW x \in S, NEW y \in S, rank[x] = rank[y], x # y PROVE FALSE
    OBVIOUS
  <2>1. <<x, y>> \in rel \/ <<y, x>> \in rel
    BY DEF Orders
  <2>2. rank[x] < rank[y] \/ rank[y] < rank[x]
    BY <1>3, <2>1
  <2>3. rank[x] \in Int /\ rank[y] \in Int
    BY <1>5
  <2> HIDE DEF rank
  <2> QED
    BY <2>2, <2>3
<1>7. rank \in Injection(S, 0 .. n - 1)
  BY <1>5, <1>6 DEF Injection, IsInjective
<1>8. rank \in Surjection(S, 0 .. n - 1)
  BY <1>4, <1>7, FS_Injection
<1>9. \A k \in 0 .. n - 1 : \E x \in S : rank[x] = k
  BY <1>8 DEF Surjection
<1> QED
  BY <1>1, <1>2, <1>3, <1>9

(* A finite set of numbers in its order. *)
Sorted(S) == Ordered(S, <)

LEMMA NumbersOrdered ==
    ASSUME NEW S, S \subseteq Nat, IsFiniteSet(S)
    PROVE  /\ Cardinality(S) \in Nat
           /\ Sorted(S) \in Seq(S) /\ Len(Sorted(S)) = Cardinality(S)
           /\ Rising(Sorted(S)) /\ EachOnce(Sorted(S))
           /\ Range(Sorted(S)) = S
<1> DEFINE n == Cardinality(S)
           rel == {pair \in S \X S : pair[1] < pair[2]}
           before(x) == {y \in S : y < x}
           o == Sorted(S)
<1>1. \A x, y \in S : <<x, y>> \in rel <=> x < y
  OBVIOUS
<1>2. Orders(S, rel)
  BY <1>1 DEF Orders
<1>3. ASSUME NEW x \in S PROVE Earlier(S, rel, x) = before(x)
  BY <1>1 DEF Earlier
<1> HIDE DEF rel
<1>4. /\ n \in Nat
      /\ \A x \in S : Cardinality(before(x)) \in 0 .. n - 1
      /\ \A x, y \in S : x < y => Cardinality(before(x)) < Cardinality(before(y))
      /\ \A k \in 0 .. n - 1 : \E x \in S : Cardinality(before(x)) = k
  <2>1. /\ n \in Nat
        /\ \A x \in S : Cardinality(Earlier(S, rel, x)) \in 0 .. n - 1
        /\ \A x, y \in S : <<x, y>> \in rel =>
               Cardinality(Earlier(S, rel, x)) < Cardinality(Earlier(S, rel, y))
        /\ \A k \in 0 .. n - 1 : \E x \in S : Cardinality(Earlier(S, rel, x)) = k
    BY <1>2, Ranks
  <2> HIDE DEF before, n
  <2> QED
    BY <1>1, <1>3, <2>1
<1>5. ASSUME NEW k \in 1 .. n
      PROVE  o[k] \in S /\ Cardinality(before(o[k])) = k - 1
  <2>1. o[k] = CHOOSE x \in S : Cardinality(before(x)) = k - 1
    BY DEF Sorted, Ordered
  <2>2. \E x \in S : Cardinality(before(x)) = k - 1
    BY <1>4
  <2> HIDE DEF before, o
  <2> QED
    BY <2>1, <2>2
<1>6. DOMAIN o = 1 .. n /\ o = [k \in 1 .. n |-> o[k]]
  <2> DEFINE at(k) == CHOOSE x \in S : Cardinality({y \in S : y < x}) = k - 1
  <2>1. o = [k \in 1 .. n |-> at(k)]
    BY DEF Sorted, Ordered
  <2> HIDE DEF o, at
  <2> QED
    BY <2>1
<1> HIDE DEF before, o
<1>7. o \in [1 .. n -> S]
  BY <1>5, <1>6
<1>8. o \in Seq(S) /\ Len(o) = n
  BY <1>4, <1>7
<1>9. ASSUME NEW i \in 1 .. n, NEW j \in 1 .. n, i < j PROVE o[i] < o[j]
  <2>1. o[i] \in Nat /\ o[j] \in Nat
    BY <1>5
  <2>2. o[i] # o[j]
    BY <1>5, <1>9
  <2>3. ~(o[j] < o[i])
    <3> SUFFICES ASSUME o[j] < o[i] PROVE FALSE
      OBVIOUS
    <3>1. Cardinality(before(o[j])) < Cardinality(before(o[i]))
      BY <1>4, <1>5
    <3> QED
      BY <1>5, <1>9, <3>1
  <2> QED
    BY <2>1, <2>2, <2>3
<1>10. ASSUME NEW x \in S PROVE \E k \in 1 .. n : o[k] = x
  <2> DEFINE k == Cardinality(before(x)) + 1
  <2>1. k \in 1 .. n
    BY <1>4
  <2>2. Cardinality(before(o[k])) = Cardinality(before(x))
    BY <1>4, <1>5, <2>1
  <2>3. o[k] \in S
    BY <1>5, <2>1
  <2> HIDE DEF k
  <2>4. ~(o[k] < x) /\ ~(x < o[k])
    <3>1. Cardinality(before(x)) \in Nat
      BY <1>4
    <3>2. ~(Cardinality(before(x)) < Cardinality(before(o[k])))
          /\ ~(Cardinality(before(o[k])) < Cardinality(before(x)))
      BY <2>2, <3>1
    <3> QED
      BY <1>4, <2>3, <3>2
  <2>5. o[k] = x
    <3>1. o[k] \in Nat /\ x \in Nat
      BY <2>3
    <3> QED
      BY <2>4, <3>1
  <2> QED
    BY <2>1, <2>5
<1>11. Range(o) = S
  BY <1>6, <1>7, <1>10 DEF Range
<1>12. Rising(o)
  BY <1>6, <1>9 DEF Rising
<1>13. EachOnce(o)
  <2> SUFFICES ASSUME NEW i \in 1 .. n, NEW j \in 1 .. n, o[i] = o[j], i # j PROVE FALSE
    BY <1>6 DEF EachOnce
  <2>1. o[i] < o[j] \/ o[j] < o[i]
    BY <1>9
  <2> QED
    BY <1>5, <2>1
<1> QED
  BY <1>4, <1>7, <1>8, <1>11, <1>12, <1>13 DEF o

(* There is one order of a set of numbers. *)
LEMMA OneOrder ==
    ASSUME NEW o \in Seq(Nat), NEW p \in Seq(Nat), Rising(o), Rising(p), Range(o) = Range(p)
    PROVE  o = p
<1> DEFINE T == {k \in Nat : k <= Len(o) /\ k <= Len(p) => \A i \in 1 .. k : o[i] = p[i]}
<1>0. /\ DOMAIN o = 1 .. Len(o) /\ DOMAIN p = 1 .. Len(p)
      /\ Len(o) \in Nat /\ Len(p) \in Nat
      /\ \A i \in 1 .. Len(o) : o[i] \in Nat
      /\ \A i \in 1 .. Len(p) : p[i] \in Nat
  OBVIOUS
<1>1. ASSUME NEW k \in Nat, \A i \in 1 .. k : o[i] = p[i], k < Len(o), k <= Len(p)
      PROVE  k < Len(p) /\ p[k + 1] <= o[k + 1]
  <2>1. k + 1 \in 1 .. Len(o)
    BY <1>0, <1>1
  <2>2. PICK j \in 1 .. Len(p) : p[j] = o[k + 1]
    BY <1>0, <2>1 DEF Range
  <2>3. ~(j <= k)
    <3> SUFFICES ASSUME j <= k PROVE FALSE
      OBVIOUS
    <3>1. j \in 1 .. k /\ j \in 1 .. Len(o) /\ j < k + 1
      BY <1>0, <1>1
    <3>2. o[j] = o[k + 1] /\ o[j] < o[k + 1]
      BY <1>0, <1>1, <2>1, <2>2, <3>1 DEF Rising
    <3> QED
      BY <1>0, <2>1, <3>1, <3>2
  <2>4. k + 1 \in 1 .. Len(p) /\ (k + 1 = j \/ k + 1 < j)
    BY <1>0, <2>3
  <2>5. p[k + 1] = p[j] \/ p[k + 1] < p[j]
    BY <1>0, <2>4 DEF Rising
  <2> QED
    BY <1>0, <2>1, <2>2, <2>4, <2>5
<1>2. ASSUME NEW k \in Nat, \A i \in 1 .. k : o[i] = p[i], k < Len(p), k <= Len(o)
      PROVE  k < Len(o) /\ o[k + 1] <= p[k + 1]
  <2>1. k + 1 \in 1 .. Len(p)
    BY <1>0, <1>2
  <2>2. PICK j \in 1 .. Len(o) : o[j] = p[k + 1]
    BY <1>0, <2>1 DEF Range
  <2>3. ~(j <= k)
    <3> SUFFICES ASSUME j <= k PROVE FALSE
      OBVIOUS
    <3>1. j \in 1 .. k /\ j \in 1 .. Len(p) /\ j < k + 1
      BY <1>0, <1>2
    <3>2. p[j] = p[k + 1] /\ p[j] < p[k + 1]
      BY <1>0, <1>2, <2>1, <2>2, <3>1 DEF Rising
    <3> QED
      BY <1>0, <2>1, <3>1, <3>2
  <2>4. k + 1 \in 1 .. Len(o) /\ (k + 1 = j \/ k + 1 < j)
    BY <1>0, <2>3
  <2>5. o[k + 1] = o[j] \/ o[k + 1] < o[j]
    BY <1>0, <2>4 DEF Rising
  <2> QED
    BY <1>0, <2>1, <2>2, <2>4, <2>5
<1>3. 0 \in T
  OBVIOUS
<1>4. ASSUME NEW k \in Nat, k \in T PROVE k + 1 \in T
  <2> SUFFICES ASSUME k + 1 <= Len(o), k + 1 <= Len(p), NEW i \in 1 .. k + 1
               PROVE  o[i] = p[i]
    OBVIOUS
  <2>1. \A h \in 1 .. k : o[h] = p[h]
    BY <1>0, <1>4
  <2>2. p[k + 1] <= o[k + 1] /\ o[k + 1] <= p[k + 1]
    <3>1. k < Len(o) /\ k <= Len(o) /\ k < Len(p) /\ k <= Len(p)
      BY <1>0
    <3> QED
      BY <1>1, <1>2, <2>1, <3>1
  <2>3. p[k + 1] \in Nat /\ o[k + 1] \in Nat
    BY <1>0
  <2> QED
    BY <2>1, <2>2, <2>3
<1>5. Nat \subseteq T
  <2> HIDE DEF T
  <2> QED
    BY <1>3, <1>4, SetInduction
<1>6. Len(o) = Len(p)
  <2>1. \A k \in Nat : k <= Len(o) /\ k <= Len(p) => \A i \in 1 .. k : o[i] = p[i]
    BY <1>5
  <2>2. Len(o) \in Nat /\ Len(p) \in Nat
    OBVIOUS
  <2>3. PICK m \in Nat, n \in Nat : m = Len(o) /\ n = Len(p)
    BY <2>2
  <2>4. ~(m < n)
    <3> SUFFICES ASSUME m < n PROVE FALSE
      OBVIOUS
    <3>1. \A i \in 1 .. m : o[i] = p[i]
      BY <2>1, <2>3
    <3>2. m < m
      BY <1>2, <2>3, <3>1
    <3> QED
      BY <3>2
  <2>5. ~(n < m)
    <3> SUFFICES ASSUME n < m PROVE FALSE
      OBVIOUS
    <3>1. \A i \in 1 .. n : o[i] = p[i]
      BY <2>1, <2>3
    <3>2. n < n
      BY <1>1, <2>3, <3>1
    <3> QED
      BY <3>2
  <2> QED
    BY <2>3, <2>4, <2>5
<1>7. \A i \in 1 .. Len(o) : o[i] = p[i]
  BY <1>0, <1>5, <1>6
<1> QED
  BY <1>6, <1>7

(* What a list keeps at some of its numbers. *)
LEMMA Kept ==
    ASSUME NEW s, NEW n \in Nat, NEW I, I \subseteq 1 .. n
    PROVE  /\ Sorted(I) \in Seq(I) /\ Sorted(I) \in Seq(Nat)
           /\ Rising(Sorted(I)) /\ EachOnce(Sorted(I)) /\ Range(Sorted(I)) = I
           /\ Len(Sorted(I)) = Cardinality(I)
           /\ DOMAIN At(s, I) = 1 .. Len(Sorted(I))
           /\ At(s, I) = [k \in 1 .. Len(Sorted(I)) |-> s[Sorted(I)[k]]]
<1>1. I \subseteq Nat /\ IsFiniteSet(I)
  <2>1. IsFiniteSet(1 .. n)
    BY FS_Interval
  <2>2. I \in SUBSET (1 .. n) /\ I \subseteq Nat
    OBVIOUS
  <2> QED
    BY <2>1, <2>2, FS_Subset
<1>2. /\ Sorted(I) \in Seq(I) /\ Rising(Sorted(I)) /\ EachOnce(Sorted(I))
      /\ Range(Sorted(I)) = I /\ Len(Sorted(I)) = Cardinality(I)
  BY <1>1, NumbersOrdered
<1>3. PICK o : o = Sorted(I)
  OBVIOUS
<1>4. At(s, I) = [k \in DOMAIN o |-> s[o[k]]]
  BY <1>3 DEF At, Sorted
<1>5. o \in Seq(I) /\ o \in Seq(Nat) /\ DOMAIN o = 1 .. Len(o)
  <2>1. o \in Seq(I)
    BY <1>2, <1>3
  <2>2. Len(o) \in Nat /\ o \in [1 .. Len(o) -> I]
    BY <2>1
  <2>3. o \in [1 .. Len(o) -> Nat]
    BY <1>1, <2>2
  <2> QED
    BY <2>1, <2>2, <2>3
<1> QED
  BY <1>2, <1>3, <1>4, <1>5

LEMMA KeptOf ==
    ASSUME NEW s, NEW n \in Nat, NEW I, I \subseteq 1 .. n
    PROVE  /\ Range(At(s, I)) = {s[i] : i \in I}
           /\ Len(At(s, I)) = Cardinality(I) /\ Cardinality(I) <= n /\ Cardinality(I) \in Nat
           /\ DOMAIN At(s, I) = 1 .. Len(At(s, I))
           /\ At(s, I) \in Seq({s[i] : i \in I})
<1>1. PICK o : o = Sorted(I)
  OBVIOUS
<1>2. /\ o \in Seq(I) /\ Range(o) = I /\ Len(o) = Cardinality(I)
      /\ At(s, I) = [k \in 1 .. Len(o) |-> s[o[k]]]
  <2>1. o \in Seq(I) /\ Range(o) = I /\ Len(o) = Cardinality(I)
    BY <1>1, Kept
  <2>2. At(s, I) = [k \in DOMAIN o |-> s[o[k]]]
    BY <1>1 DEF At, Sorted
  <2>3. DOMAIN o = 1 .. Len(o)
    BY <2>1
  <2> QED
    BY <2>1, <2>2, <2>3
<1>3. Len(o) \in Nat /\ DOMAIN o = 1 .. Len(o) /\ \A k \in 1 .. Len(o) : o[k] \in I
  BY <1>2
<1>4. At(s, I) \in Seq({s[i] : i \in I}) /\ Len(At(s, I)) = Len(o) /\ DOMAIN At(s, I) = 1 .. Len(o)
  BY <1>2, <1>3
<1>5. Range(At(s, I)) = {s[i] : i \in I}
  <2>1. PICK a : a = At(s, I)
    OBVIOUS
  <2>2. DOMAIN a = 1 .. Len(o) /\ \A k \in 1 .. Len(o) : a[k] = s[o[k]]
    BY <1>2, <2>1
  <2>3. \A i \in I : \E k \in 1 .. Len(o) : o[k] = i
    BY <1>2, <1>3 DEF Range
  <2>4. Range(a) = {a[k] : k \in 1 .. Len(o)}
    BY <2>2 DEF Range
  <2>5. ASSUME NEW k \in 1 .. Len(o) PROVE o[k] \in I /\ a[k] = s[o[k]]
    BY <1>3, <2>2
  <2>6. ASSUME NEW i \in I PROVE \E k \in 1 .. Len(o) : a[k] = s[i]
    BY <2>2, <2>3
  <2>7. Range(a) = {s[i] : i \in I}
    <3>1. ASSUME NEW x \in Range(a) PROVE x \in {s[i] : i \in I}
      <4>1. PICK k \in 1 .. Len(o) : x = a[k]
        BY <2>4
      <4>2. o[k] \in I /\ x = s[o[k]]
        BY <2>5, <4>1
      <4> QED
        BY <4>2
    <3>2. {s[i] : i \in I} \subseteq Range(a)
      BY <2>4, <2>6
    <3> QED
      BY <3>1, <3>2
  <2> QED
    BY <2>1, <2>7
<1>6. Cardinality(I) <= n
  <2>1. IsFiniteSet(1 .. n) /\ Cardinality(1 .. n) = n /\ I \in SUBSET (1 .. n)
    BY FS_Interval
  <2> QED
    BY <2>1, FS_Subset
<1> QED
  BY <1>2, <1>3, <1>4, <1>5, <1>6

(* Any increasing enumeration of the numbers gives the list that is kept.  *)
LEMMA KeptInOrder ==
    ASSUME NEW s, NEW n \in Nat, NEW I, I \subseteq 1 .. n,
           NEW t \in Seq(Nat), Rising(t), Range(t) = I
    PROVE  At(s, I) = [k \in 1 .. Len(t) |-> s[t[k]]]
<1>1. PICK o : o = Sorted(I)
  OBVIOUS
<1>2. o \in Seq(Nat) /\ Rising(o) /\ Range(o) = I
  BY <1>1, Kept
<1>3. At(s, I) = [k \in DOMAIN o |-> s[o[k]]]
  BY <1>1 DEF At, Sorted
<1>4. t = o
  BY <1>2, OneOrder
<1>5. DOMAIN o = 1 .. Len(o)
  BY <1>2
<1> QED
  BY <1>3, <1>4, <1>5

-----------------------------------------------------------------------------
(* Folding *)

Parts(n) == SUBSET (1 .. n)

Steps(n, R) == [1 .. n -> [R -> R]]

Step(step, base, f, s) == IF s = {} THEN base ELSE step[Max(s)][f[s \ {Max(s)}]]

IsFold(step, base, n, R, f) ==
    f \in [Parts(n) -> R] /\ \A s \in Parts(n) : f[s] = Step(step, base, f, s)

\* The same of a function that is not known to stay in R.
Folds(step, base, n, R, f) ==
    /\ f[{}] = base
    /\ \A s \in Parts(n) :
           s # {} /\ f[s \ {Max(s)}] \in R => f[s] = step[Max(s)][f[s \ {Max(s)}]]

\* The values such a function goes through.
Goes(step, base, n, R, f, g) ==
    /\ g \in [0 .. n -> R]
    /\ g[0] = base /\ g[n] = f[1 .. n]
    /\ \A k \in 1 .. n : g[k] = step[k][g[k - 1]]

(* A fold over 1 .. n is defined.  FoldLeft goes through the sets of       *)
(* numbers that are left when the greatest is taken away.                  *)
LEMMA FoldExists ==
    ASSUME NEW n \in Nat, NEW R, NEW base \in R, NEW step \in Steps(n, R)
    PROVE  \E f : IsFold(step, base, n, R, f)
<1> DEFINE Has(m) == \E f \in [SUBSET (1 .. m) -> R] :
                         \A s \in SUBSET (1 .. m) : f[s] = Step(step, base, f, s)
           T == {m \in Nat : m <= n => Has(m)}
<1>1. 0 \in T
  <2> DEFINE f == [s \in SUBSET (1 .. 0) |-> base]
  <2>1. f \in [SUBSET (1 .. 0) -> R]
    OBVIOUS
  <2>2. \A s \in SUBSET (1 .. 0) : s = {}
    OBVIOUS
  <2>3. \A s \in SUBSET (1 .. 0) : f[s] = Step(step, base, f, s)
    BY <2>2 DEF Step
  <2> HIDE DEF f
  <2>5. Has(0)
    BY <2>1, <2>3
  <2> HIDE DEF Has
  <2> QED
    BY <2>5
<1>2. ASSUME NEW m \in Nat, m \in T PROVE m + 1 \in T
  <2> HIDE DEF Has
  <2> SUFFICES ASSUME m + 1 <= n, Has(m) PROVE Has(m + 1)
    BY <1>2
  <2> HIDE DEF T
  <2>1. PICK f \in [SUBSET (1 .. m) -> R] :
            \A s \in SUBSET (1 .. m) : f[s] = Step(step, base, f, s)
    BY DEF Has
  <2> DEFINE g == [s \in SUBSET (1 .. m + 1) |->
                       IF m + 1 \in s THEN step[m + 1][f[s \ {m + 1}]] ELSE f[s]]
  <2>2. ASSUME NEW s \in SUBSET (1 .. m + 1), m + 1 \in s
        PROVE  /\ s \ {m + 1} \in SUBSET (1 .. m) /\ Max(s) = m + 1
               /\ g[s] = step[m + 1][f[s \ {m + 1}]] /\ g[s \ {m + 1}] = f[s \ {m + 1}]
    <3>1. s \ {m + 1} \in SUBSET (1 .. m) /\ s \ {m + 1} \in SUBSET (1 .. m + 1)
      BY <2>2
    <3>2. Max(s) \in s /\ \A i \in s : i <= Max(s)
      BY <2>2, GreatestOf, m + 1 \in Nat
    <3>3. Max(s) = m + 1
      <4>1. Max(s) \in 1 .. m + 1 /\ m + 1 <= Max(s)
        BY <2>2, <3>2
      <4> QED
        BY <4>1
    <3> QED
      BY <2>2, <3>1, <3>3
  <2>3. ASSUME NEW s \in SUBSET (1 .. m + 1), m + 1 \notin s
        PROVE  s \in SUBSET (1 .. m) /\ g[s] = f[s]
    BY <2>3
  <2>4. ASSUME NEW s \in SUBSET (1 .. m + 1) PROVE g[s] = Step(step, base, g, s) /\ g[s] \in R
    <3>1. CASE m + 1 \in s
      <4>1. g[s] = step[m + 1][f[s \ {m + 1}]]
        BY <2>2, <3>1
      <4>2. f[s \ {m + 1}] \in R /\ m + 1 \in 1 .. n
        <5>1. s \ {m + 1} \in SUBSET (1 .. m)
          BY <2>2, <3>1
        <5> QED
          BY <2>1, <5>1
      <4>3. step[m + 1][f[s \ {m + 1}]] \in R
        BY <4>2 DEF Steps
      <4>4. Step(step, base, g, s) = step[m + 1][f[s \ {m + 1}]]
        BY <2>2, <3>1 DEF Step
      <4> QED
        BY <4>1, <4>3, <4>4
    <3>2. CASE m + 1 \notin s
      <4>1. s \in SUBSET (1 .. m) /\ g[s] = f[s]
        BY <2>3, <3>2
      <4>2. f[s] = Step(step, base, f, s) /\ f[s] \in R
        BY <2>1, <4>1
      <4>3. CASE s = {}
        BY <4>1, <4>2, <4>3 DEF Step
      <4>4. CASE s # {}
        <5>1. s \ {Max(s)} \in SUBSET (1 .. m + 1) /\ m + 1 \notin s \ {Max(s)}
          BY <3>2
        <5>2. g[s \ {Max(s)}] = f[s \ {Max(s)}]
          BY <2>3, <5>1
        <5> QED
          BY <4>1, <4>2, <5>2 DEF Step
      <4> QED
        BY <4>3, <4>4
    <3> QED
      BY <3>1, <3>2
  <2>5. g \in [SUBSET (1 .. m + 1) -> R]
    <3>1. g = [s \in SUBSET (1 .. m + 1) |-> g[s]]
      OBVIOUS
    <3> HIDE DEF g
    <3> QED
      BY <2>4, <3>1
  <2> HIDE DEF g
  <2> QED
    BY <2>4, <2>5 DEF Has
<1> HIDE DEF Has
<1>3. n \in T
  <2> HIDE DEF T
  <2> QED
    BY <1>1, <1>2, SetInduction
<1>4. Has(n)
  BY <1>3
<1> QED
  BY <1>4 DEF Has, IsFold, Parts

(* The greatest of an initial segment, and what is left without it.        *)
LEMMA Segment ==
    ASSUME NEW k \in Nat, k # 0
    PROVE  Max(1 .. k) = k /\ (1 .. k) \ {k} = 1 .. k - 1
<1>1. Max(1 .. k) \in 1 .. k /\ k <= Max(1 .. k)
  <2>1. 1 .. k \subseteq 1 .. k /\ k \in 1 .. k
    OBVIOUS
  <2> QED
    BY <2>1, GreatestOf
<1> QED
  BY <1>1

(* The values a fold goes through. *)
LEMMA FoldGoes ==
    ASSUME NEW n \in Nat, NEW R, NEW base \in R, NEW step \in Steps(n, R), NEW f,
           Folds(step, base, n, R, f)
    PROVE  \E g : Goes(step, base, n, R, f, g)
<1> DEFINE T == {k \in Nat : k <= n => f[1 .. k] \in R}
           g == [k \in 0 .. n |-> f[1 .. k]]
<1>1. 1 .. 0 = {}
  OBVIOUS
<1>2. ASSUME NEW k \in 1 .. n, f[1 .. k - 1] \in R
      PROVE  f[1 .. k] = step[k][f[1 .. k - 1]] /\ f[1 .. k] \in R
  <2>1. 1 .. k \in Parts(n) /\ 1 .. k # {}
    BY DEF Parts
  <2>2. Max(1 .. k) = k /\ (1 .. k) \ {k} = 1 .. k - 1
    BY Segment
  <2>3. f[1 .. k] = step[k][f[1 .. k - 1]]
    BY <1>2, <2>1, <2>2 DEF Folds
  <2> QED
    BY <1>2, <2>3 DEF Steps
<1>3. 0 \in T
  BY <1>1 DEF Folds
<1>4. ASSUME NEW k \in Nat, k \in T PROVE k + 1 \in T
  <2> SUFFICES ASSUME k + 1 <= n PROVE f[1 .. k + 1] \in R
    OBVIOUS
  <2>1. k + 1 \in 1 .. n /\ f[1 .. k] \in R /\ (k + 1) - 1 = k
    BY <1>4
  <2> QED
    BY <1>2, <2>1
<1>5. Nat \subseteq T
  <2> HIDE DEF T
  <2> QED
    BY <1>3, <1>4, SetInduction
<1>6. \A k \in 0 .. n : g[k] = f[1 .. k] /\ f[1 .. k] \in R
  BY <1>5
<1>7. g \in [0 .. n -> R]
  BY <1>6
<1> HIDE DEF g, T
<1>8. ASSUME NEW k \in 1 .. n PROVE g[k] = step[k][g[k - 1]]
  <2>1. k \in 0 .. n /\ k - 1 \in 0 .. n
    OBVIOUS
  <2>2. g[k] = f[1 .. k] /\ g[k - 1] = f[1 .. k - 1] /\ f[1 .. k - 1] \in R
    BY <1>6, <2>1
  <2> QED
    BY <1>2, <2>2
<1>9. g[0] = base /\ g[n] = f[1 .. n]
  <2>1. 0 \in 0 .. n /\ n \in 0 .. n
    OBVIOUS
  <2> QED
    BY <1>1, <1>6, <2>1 DEF Folds
<1> QED
  BY <1>7, <1>8, <1>9 DEF Goes

-----------------------------------------------------------------------------
(* Debouncing *)

(* The results that an event fits. *)
Fitting(results, event, window) == {i \in 1 .. Len(results) : Fits(results[i], event, window)}

LEMMA CoalesceIs ==
    ASSUME NEW E, NEW results \in Seq(E), NEW event \in E, NEW window
    PROVE  LET I == Fitting(results, event, window) IN
           /\ Coalesce(results, event, window) \in Seq(E)
           /\ I = {} => Coalesce(results, event, window) = Append(results, event)
           /\ I # {} => /\ Max(I) \in I /\ \A i \in I : i <= Max(I)
                       /\ Coalesce(results, event, window) = [results EXCEPT ![Max(I)] = event]
<1> DEFINE I == Fitting(results, event, window)
           last == IF I # {} THEN Max(I) ELSE 0
<1>1. I \subseteq 1 .. Len(results) /\ Len(results) \in Nat
  BY DEF Fitting
<1>2. Coalesce(results, event, window) =
          IF last = 0 THEN Append(results, event) ELSE [results EXCEPT ![last] = event]
  BY DEF Coalesce, SelectLastInSeq, Merged, Fitting
<1> HIDE DEF I
<1>3. I # {} => Max(I) \in I /\ \A i \in I : i <= Max(I)
  BY <1>1, GreatestOf
<1>4. CASE I = {}
  <2>1. Coalesce(results, event, window) = Append(results, event)
    BY <1>2, <1>4
  <2> QED
    BY <1>4, <2>1 DEF I
<1>5. CASE I # {}
  <2>1. Max(I) \in 1 .. Len(results)
    BY <1>1, <1>3, <1>5
  <2>2. Coalesce(results, event, window) = [results EXCEPT ![Max(I)] = event]
    BY <1>2, <1>5, <2>1
  <2>3. [results EXCEPT ![Max(I)] = event] \in Seq(E)
    BY <2>1
  <2> QED
    BY <1>3, <1>5, <2>2, <2>3 DEF I
<1> QED
  BY <1>4, <1>5

Debounces(E, events, window, g) ==
    /\ g \in [0 .. Len(events) -> Seq(E)]
    /\ g[0] = <<>> /\ g[Len(events)] = DebounceTimed(events, window)
    /\ \A k \in 1 .. Len(events) : g[k] = Coalesce(g[k - 1], events[k], window)

LEMMA DebounceGoes ==
    ASSUME NEW E, NEW events \in Seq(E), NEW window
    PROVE  \E g : Debounces(E, events, window, g)
<1>0. PICK n, R, none : n = Len(events) /\ R = Seq(E) /\ none = <<>>
  OBVIOUS
<1> DEFINE body(f) == [s \in SUBSET DOMAIN events |->
                          IF s = {} THEN <<>>
                          ELSE Coalesce(f[s \ {Max(s)}], events[Max(s)], window)]
           goes == CHOOSE f : f = body(f)
<1>1. n \in Nat /\ DOMAIN events = 1 .. n /\ \A k \in 1 .. n : events[k] \in E
  BY <1>0
<1>2. DebounceTimed(events, window) = goes[DOMAIN events]
  BY DEF DebounceTimed, FoldLeft, MapThenFoldSet
<1>3. PICK step : step = [k \in 1 .. n |-> [r \in R |-> Coalesce(r, events[k], window)]]
  OBVIOUS
<1>3a. step \in Steps(n, R) /\ none \in R
  <2>1. none \in R
    BY <1>0
  <2>2. ASSUME NEW k \in 1 .. n, NEW r \in R PROVE Coalesce(r, events[k], window) \in R
    BY <1>0, <1>1, CoalesceIs
  <2> QED
    BY <1>3, <2>1, <2>2 DEF Steps
<1>4. \A k \in 1 .. n : \A r \in R : step[k][r] = Coalesce(r, events[k], window)
  BY <1>3
<1>a. n \in Nat
  BY <1>1
<1>5. PICK f : IsFold(step, none, n, R, f)
  BY <1>a, <1>3a, FoldExists
<1>6. ASSUME NEW s \in Parts(n), s # {}
      PROVE  Max(s) \in 1 .. n /\ s \ {Max(s)} \in Parts(n)
  BY <1>1, <1>6, GreatestOf DEF Parts
<1>7. f = body(f)
  <2>1. ASSUME NEW s \in Parts(n) PROVE f[s] = body(f)[s]
    <3>1. f[s] = Step(step, none, f, s)
      BY <1>5 DEF IsFold
    <3>2. CASE s = {}
      BY <1>0, <1>1, <3>1, <3>2 DEF Step, Parts
    <3>3. CASE s # {}
      <4>1. Max(s) \in 1 .. n /\ s \ {Max(s)} \in Parts(n)
        BY <1>6, <3>3
      <4>2. f[s \ {Max(s)}] \in R
        BY <1>5, <4>1 DEF IsFold
      <4>3. f[s] = Coalesce(f[s \ {Max(s)}], events[Max(s)], window)
        BY <1>4, <3>1, <3>3, <4>1, <4>2 DEF Step
      <4> QED
        BY <1>1, <3>3, <4>3 DEF Parts
    <3> QED
      BY <3>2, <3>3
  <2> QED
    BY <1>1, <1>5, <2>1 DEF IsFold, Parts
<1>8. goes = body(goes)
  <2> HIDE DEF body
  <2> QED
    BY <1>7
<1>9. /\ goes[{}] = none
      /\ \A s \in Parts(n) :
             s # {} => goes[s] = Coalesce(goes[s \ {Max(s)}], events[Max(s)], window)
  BY <1>0, <1>1, <1>8 DEF Parts
<1> HIDE DEF goes
<1>10. Folds(step, none, n, R, goes)
  BY <1>4, <1>6, <1>9 DEF Folds
<1>11. PICK g : Goes(step, none, n, R, goes, g)
  BY <1>a, <1>3a, <1>10, FoldGoes
<1>12. ASSUME NEW k \in 1 .. n PROVE g[k] = Coalesce(g[k - 1], events[k], window)
  <2>1. k - 1 \in 0 .. n
    BY <1>1
  <2> QED
    BY <1>4, <1>11, <2>1 DEF Goes
<1> QED
  BY <1>0, <1>1, <1>2, <1>11, <1>12 DEF Goes, Debounces

LEMMA TimesRise ==
    ASSUME NEW E, Timed(E), NEW events \in Seq(E), InOrder(events)
    PROVE  /\ DOMAIN events = 1 .. Len(events) /\ Len(events) \in Nat
           /\ \A i \in 1 .. Len(events) : events[i] \in E /\ events[i].time \in Nat
           /\ \A i, j \in 1 .. Len(events) : i <= j => events[i].time <= events[j].time
<1>1. DOMAIN events = 1 .. Len(events) /\ Len(events) \in Nat
  OBVIOUS
<1>2. ASSUME NEW i \in 1 .. Len(events) PROVE events[i] \in E /\ events[i].time \in Nat
  BY DEF Timed
<1>3. \A i, j \in 1 .. Len(events) : i < j => events[i].time <= events[j].time
  BY DEF InOrder, IsSorted
<1>4. ASSUME NEW i \in 1 .. Len(events), NEW j \in 1 .. Len(events), i <= j
      PROVE  events[i].time <= events[j].time
  <2>1. i = j \/ i < j
    BY <1>4
  <2> QED
    BY <1>2, <1>3, <2>1
<1> QED
  BY <1>1, <1>2, <1>4

(* Of the first n events, the jth ends a burst: every later one of its     *)
(* path, and not only the next one, is more than the window away.          *)
EndsBurst(events, window, n, j) ==
    \A l \in j + 1 .. n :
        events[l].path = events[j].path => events[l].time - events[j].time > window

(* The results are the ends of the bursts among the first n events; source *)
(* says which, and is in order for each path.                              *)
AreEnds(events, window, n, results, source) ==
    /\ source \in [1 .. Len(results) -> 1 .. n]
    /\ \A i \in 1 .. Len(results) : results[i] = events[source[i]]
    /\ \A i, j \in 1 .. Len(results) :
           i < j /\ results[i].path = results[j].path => source[i] < source[j]
    /\ \A i \in 1 .. Len(results) : EndsBurst(events, window, n, source[i])
    /\ \A j \in 1 .. n : EndsBurst(events, window, n, j) => \E i \in 1 .. Len(results) : source[i] = j

LEMMA CoalesceKeepsEnds ==
    ASSUME NEW E, Timed(E), NEW events \in Seq(E), InOrder(events), NEW window \in Nat,
           NEW n \in Nat, n + 1 <= Len(events), NEW results \in Seq(E), NEW source,
           AreEnds(events, window, n, results, source)
    PROVE  \E after : AreEnds(events, window, n + 1,
                              Coalesce(results, events[n + 1], window), after)
<1> DEFINE event == events[n + 1]
           I == Fitting(results, event, window)
           next == Coalesce(results, event, window)
<1>1. /\ \A i \in 1 .. Len(events) : events[i] \in E /\ events[i].time \in Nat
      /\ \A i, j \in 1 .. Len(events) : i <= j => events[i].time <= events[j].time
      /\ Len(events) \in Nat /\ n + 1 \in 1 .. Len(events) /\ 1 .. n \subseteq 1 .. Len(events)
  BY TimesRise
<1>2. PICK m : m = Len(results)
  OBVIOUS
<1>3. m \in Nat /\ DOMAIN results = 1 .. m /\ \A i \in 1 .. m : results[i] \in E
  BY <1>2
<1>4. /\ source \in [1 .. m -> 1 .. n]
      /\ \A i \in 1 .. m : results[i] = events[source[i]]
      /\ \A i, j \in 1 .. m : i < j /\ results[i].path = results[j].path => source[i] < source[j]
      /\ \A i \in 1 .. m : EndsBurst(events, window, n, source[i])
      /\ \A j \in 1 .. n : EndsBurst(events, window, n, j) => \E i \in 1 .. m : source[i] = j
  BY <1>2 DEF AreEnds
<1>5. ASSUME NEW j \in 1 .. n
      PROVE  EndsBurst(events, window, n + 1, j) <=>
                 /\ EndsBurst(events, window, n, j)
                 /\ event.path = events[j].path => event.time - events[j].time > window
  <2>1. \A l : l \in j + 1 .. n + 1 <=> (l \in j + 1 .. n \/ l = n + 1)
    OBVIOUS
  <2> QED
    BY <2>1 DEF EndsBurst
<1>6. EndsBurst(events, window, n + 1, n + 1)
  BY DEF EndsBurst
<1>7. ASSUME NEW i \in 1 .. m
      PROVE  /\ source[i] \in 1 .. n /\ results[i].time \in Nat
             /\ i \in I <=> /\ results[i].path = event.path
                            /\ ~(event.time - events[source[i]].time > window)
  <2>1. source[i] \in 1 .. n /\ source[i] \in 1 .. Len(events) /\ source[i] <= n + 1
    BY <1>1, <1>4
  <2>2. results[i] = events[source[i]] /\ results[i].time \in Nat /\ event.time \in Nat
        /\ results[i].time <= event.time
    BY <1>1, <1>4, <2>1
  <2>3. i \in I <=> Fits(results[i], event, window)
    BY <1>2 DEF Fitting
  <2>4. event.time - results[i].time \in Int
    BY <2>2
  <2> HIDE DEF I, event
  <2> QED
    BY <2>1, <2>2, <2>3, <2>4 DEF Fits
<1>8. event \in E /\ event.time \in Nat
  BY <1>1
<1>9. /\ next \in Seq(E)
      /\ I = {} => next = Append(results, event)
      /\ I # {} => /\ Max(I) \in I /\ \A i \in I : i <= Max(I)
                   /\ next = [results EXCEPT ![Max(I)] = event]
  BY <1>8, CoalesceIs
<1>10. I \subseteq 1 .. m
  BY <1>2 DEF Fitting
<1> HIDE DEF I, event, next
<1>11. CASE I = {}
  <2> DEFINE after == [i \in 1 .. m + 1 |-> IF i = m + 1 THEN n + 1 ELSE source[i]]
  <2>1. /\ Len(next) = m + 1 /\ next[m + 1] = event
        /\ \A i \in 1 .. m : next[i] = results[i]
    BY <1>2, <1>3, <1>9, <1>11
  <2>2. after \in [1 .. m + 1 -> 1 .. n + 1]
    BY <1>3, <1>7
  <2>3. /\ after[m + 1] = n + 1
        /\ \A i \in 1 .. m : after[i] = source[i] /\ i \in 1 .. m + 1
    BY <1>3
  <2>4. \A i \in 1 .. m + 1 : i \in 1 .. m \/ i = m + 1
    BY <1>3
  <2> HIDE DEF after
  <2>5. ASSUME NEW i \in 1 .. m + 1 PROVE next[i] = events[after[i]]
    BY <1>4, <2>1, <2>3, <2>4 DEF event
  <2>6. ASSUME NEW i \in 1 .. m + 1, NEW j \in 1 .. m + 1, i < j, next[i].path = next[j].path
        PROVE  after[i] < after[j]
    <3>1. i \in 1 .. m /\ after[i] = source[i] /\ source[i] \in 1 .. n
      BY <1>3, <1>7, <2>3, <2>6
    <3>2. CASE j = m + 1
      BY <2>3, <3>1, <3>2
    <3>3. CASE j \in 1 .. m
      BY <1>4, <2>1, <2>3, <2>6, <3>1, <3>3
    <3> QED
      BY <2>4, <3>2, <3>3
  <2>7. ASSUME NEW i \in 1 .. m + 1 PROVE EndsBurst(events, window, n + 1, after[i])
    <3>1. CASE i \in 1 .. m
      <4>1. source[i] \in 1 .. n /\ results[i] = events[source[i]] /\ i \notin I
        BY <1>4, <1>7, <1>11, <3>1
      <4>2. EndsBurst(events, window, n, source[i])
        BY <1>4, <3>1
      <4>3. event.path = events[source[i]].path => event.time - events[source[i]].time > window
        BY <1>7, <3>1, <4>1
      <4> QED
        BY <1>5, <2>3, <3>1, <4>1, <4>2, <4>3
    <3> QED
      BY <1>6, <2>3, <2>4, <3>1
  <2>8. ASSUME NEW j \in 1 .. n + 1, EndsBurst(events, window, n + 1, j)
        PROVE  \E i \in 1 .. m + 1 : after[i] = j
    <3>1. CASE j = n + 1
      BY <1>3, <2>3, <3>1
    <3>2. CASE j \in 1 .. n
      <4>1. PICK i \in 1 .. m : source[i] = j
        BY <1>4, <1>5, <2>8, <3>2
      <4> QED
        BY <2>3, <4>1
    <3> QED
      BY <3>1, <3>2
  <2>9. AreEnds(events, window, n + 1, next, after)
    BY <2>1, <2>2, <2>5, <2>6, <2>7, <2>8 DEF AreEnds
  <2> QED
    BY <2>9 DEF next, event
<1>12. CASE I # {}
  <2>1. PICK k : k = Max(I)
    OBVIOUS
  <2>2. k \in I /\ k \in 1 .. m /\ (\A i \in I : i <= k) /\ next = [results EXCEPT ![k] = event]
    BY <1>9, <1>10, <1>12, <2>1
  <2> DEFINE after == [source EXCEPT ![k] = n + 1]
  <2>3. /\ Len(next) = m /\ next[k] = event
        /\ \A i \in 1 .. m : i # k => next[i] = results[i]
    BY <1>2, <1>3, <2>2
  <2>4. after \in [1 .. m -> 1 .. n + 1]
    <3>1. \A i \in 1 .. n : i \in 1 .. n + 1
      OBVIOUS
    <3> QED
      BY <1>4, <2>2, <3>1
  <2>5. after[k] = n + 1 /\ \A i \in 1 .. m : i # k => after[i] = source[i]
    BY <1>4, <2>2
  <2> HIDE DEF after
  <2>6. results[k].path = event.path /\ source[k] \in 1 .. n /\ results[k] = events[source[k]]
    BY <1>4, <1>7, <2>2
  (* Every other end of the path is further from the event. *)
  <2>7. ASSUME NEW i \in 1 .. m, i # k, results[i].path = event.path
        PROVE  i < k /\ event.time - events[source[i]].time > window
    <3>1. ASSUME ~(i < k) PROVE event.time - events[source[i]].time > window
      <4>1. ~(i <= k)
        BY <1>3, <2>2, <2>7, <3>1
      <4> QED
        BY <1>7, <2>2, <2>7, <4>1
    <3>2. ASSUME i < k PROVE event.time - events[source[i]].time > window
      <4>1. source[i] < source[k] /\ source[i] \in 1 .. n
        BY <1>4, <1>7, <2>2, <2>6, <2>7, <3>2
      <4>2. events[source[k]].path = events[source[i]].path
        BY <1>4, <2>6, <2>7
      <4>3. EndsBurst(events, window, n, source[i]) /\ source[k] \in source[i] + 1 .. n
        BY <1>4, <2>6, <4>1
      <4>4. events[source[k]].time - events[source[i]].time > window
        BY <4>2, <4>3 DEF EndsBurst
      <4>5. source[k] \in 1 .. Len(events) /\ source[i] \in 1 .. Len(events) /\ source[k] <= n + 1
        BY <1>1, <2>6, <4>1
      <4>6. /\ events[source[k]].time <= event.time /\ events[source[k]].time \in Nat
            /\ events[source[i]].time \in Nat
        BY <1>1, <4>5 DEF event
      <4> QED
        BY <1>8, <4>4, <4>6
    <3>3. ASSUME ~(i < k) PROVE FALSE
      <4>1. k < i
        BY <1>3, <2>2, <2>7, <3>3
      <4>2. source[k] < source[i] /\ source[i] \in 1 .. n
        BY <1>4, <1>7, <2>2, <2>6, <2>7, <4>1
      <4>3. source[k] \in 1 .. Len(events) /\ source[i] \in 1 .. Len(events)
            /\ source[i] <= n + 1 /\ source[k] <= source[i] /\ source[k] <= n + 1
        BY <1>1, <2>6, <4>2
      <4>4. /\ events[source[k]].time <= events[source[i]].time
            /\ events[source[i]].time <= event.time
            /\ events[source[k]].time \in Nat /\ events[source[i]].time \in Nat
        BY <1>1, <4>3 DEF event
      <4>5. ~(event.time - events[source[k]].time > window)
        BY <1>7, <2>2
      <4>6. event.time - events[source[i]].time > window
        BY <3>1, <3>3
      <4> QED
        BY <1>8, <4>4, <4>5, <4>6
    <3> QED
      BY <3>1, <3>2, <3>3
  <2>8. ASSUME NEW i \in 1 .. m PROVE next[i] = events[after[i]]
    BY <1>4, <2>3, <2>5 DEF event
  <2>9. ASSUME NEW i \in 1 .. m, NEW j \in 1 .. m, i < j, next[i].path = next[j].path
        PROVE  after[i] < after[j]
    <3>1. CASE i = k
      <4>1. j # k /\ results[j].path = event.path
        BY <2>3, <2>9, <3>1
      <4>2. j < k
        BY <2>7, <4>1
      <4> QED
        BY <1>3, <2>2, <2>9, <3>1, <4>2
    <3>2. CASE i # k /\ j = k
      <4>1. after[i] = source[i] /\ source[i] \in 1 .. n /\ after[j] = n + 1
        BY <1>7, <2>5, <3>2
      <4> QED
        BY <4>1
    <3>3. CASE i # k /\ j # k
      BY <1>4, <2>3, <2>5, <2>9, <3>3
    <3> QED
      BY <3>1, <3>2, <3>3
  <2>10. ASSUME NEW i \in 1 .. m PROVE EndsBurst(events, window, n + 1, after[i])
    <3>1. CASE i = k
      BY <1>6, <2>5, <3>1
    <3>2. CASE i # k
      <4>1. source[i] \in 1 .. n /\ results[i] = events[source[i]] /\ after[i] = source[i]
        BY <1>4, <1>7, <2>5, <3>2
      <4>2. EndsBurst(events, window, n, source[i])
        BY <1>4
      <4>3. event.path = events[source[i]].path => event.time - events[source[i]].time > window
        BY <2>7, <3>2, <4>1
      <4> QED
        BY <1>5, <4>1, <4>2, <4>3
    <3> QED
      BY <3>1, <3>2
  <2>11. ASSUME NEW j \in 1 .. n + 1, EndsBurst(events, window, n + 1, j)
         PROVE  \E i \in 1 .. m : after[i] = j
    <3>1. CASE j = n + 1
      BY <2>2, <2>5, <3>1
    <3>2. CASE j \in 1 .. n
      <4>1. PICK i \in 1 .. m : source[i] = j
        BY <1>4, <1>5, <2>11, <3>2
      <4>2. i # k
        <5> SUFFICES ASSUME i = k PROVE FALSE
          OBVIOUS
        <5>1. event.path = events[j].path
          BY <2>6, <4>1
        <5>2. event.time - events[j].time > window
          BY <1>5, <2>11, <3>2, <5>1
        <5> QED
          BY <1>7, <2>2, <4>1, <5>2
      <4> QED
        BY <2>5, <4>1, <4>2
    <3> QED
      BY <3>1, <3>2
  <2>12. AreEnds(events, window, n + 1, next, after)
    BY <2>3, <2>4, <2>8, <2>9, <2>10, <2>11 DEF AreEnds
  <2> QED
    BY <2>12 DEF next, event
<1> QED
  BY <1>11, <1>12

LEMMA ResultsAreEnds ==
    ASSUME NEW E, Timed(E), NEW events \in Seq(E), InOrder(events), NEW window \in Nat
    PROVE  /\ DebounceTimed(events, window) \in Seq(E)
           /\ \E source : AreEnds(events, window, Len(events), DebounceTimed(events, window), source)
<1> DEFINE n == Len(events)
<1>1. n \in Nat
  OBVIOUS
<1>2a. PICK g : Debounces(E, events, window, g)
  BY DebounceGoes
<1>2. /\ g \in [0 .. n -> Seq(E)]
      /\ g[0] = <<>> /\ g[n] = DebounceTimed(events, window)
      /\ \A k \in 1 .. n : g[k] = Coalesce(g[k - 1], events[k], window)
  BY <1>2a DEF Debounces
<1> DEFINE T == {k \in Nat : k <= n => \E source : AreEnds(events, window, k, g[k], source)}
<1> HIDE DEF n
<1>3. 0 \in T
  <2>1. PICK r : r = g[0]
    OBVIOUS
  <2>2. r = <<>>
    BY <1>2, <2>1
  <2>3. AreEnds(events, window, 0, r, <<>>)
    BY <2>2 DEF AreEnds
  <2> QED
    BY <2>1, <2>3
<1>4. ASSUME NEW k \in Nat, k \in T PROVE k + 1 \in T
  <2> SUFFICES ASSUME k + 1 <= n
               PROVE  \E source : AreEnds(events, window, k + 1, g[k + 1], source)
    OBVIOUS
  <2>1. k \in 0 .. n /\ k + 1 \in 1 .. n /\ (k + 1) - 1 = k
    BY <1>1
  <2>2. PICK source : AreEnds(events, window, k, g[k], source)
    BY <1>1, <1>4
  <2>3. g[k] \in Seq(E) /\ g[k + 1] = Coalesce(g[k], events[k + 1], window)
    BY <1>2, <2>1
  <2> QED
    BY <2>2, <2>3, CoalesceKeepsEnds DEF n
<1>5. Nat \subseteq T
  <2> HIDE DEF T
  <2> QED
    BY <1>3, <1>4, SetInduction
<1>6. \E source : AreEnds(events, window, n, g[n], source)
  BY <1>1, <1>5
<1>7. g[n] \in Seq(E)
  BY <1>1, <1>2
<1> QED
  BY <1>2, <1>6, <1>7 DEF n

(* An increasing choice from an increasing list is increasing.             *)
Picked(o, I) == {o[k] : k \in I}

Picks(o, m, q, t) ==
    /\ m \in Nat /\ q \in Seq(1 .. m) /\ Rising(q)
    /\ \A k \in 1 .. m : o[k] \in Nat
    /\ \A k, l \in Range(q) : k < l => o[k] < o[l]
    /\ t \in Seq(Nat) /\ Len(t) = Len(q)
    /\ \A h \in 1 .. Len(q) : t[h] = o[q[h]]

LEMMA RisingChoice ==
    ASSUME NEW o, NEW m, NEW q, NEW t, Picks(o, m, q, t)
    PROVE  Rising(t) /\ Range(t) = Picked(o, Range(q))
<1> USE DEF Picked
<1>0. /\ m \in Nat /\ q \in Seq(1 .. m) /\ Rising(q)
      /\ \A k \in 1 .. m : o[k] \in Nat
      /\ \A k, l \in Range(q) : k < l => o[k] < o[l]
      /\ t \in Seq(Nat) /\ Len(t) = Len(q)
      /\ \A h \in 1 .. Len(q) : t[h] = o[q[h]]
  BY DEF Picks
<1>1. Len(q) \in Nat /\ DOMAIN q = 1 .. Len(q) /\ \A h \in 1 .. Len(q) : q[h] \in 1 .. m
  BY <1>0
<1>2. \A h \in 1 .. Len(q) : q[h] \in Range(q)
  BY <1>1 DEF Range
<1>3. ASSUME NEW h \in 1 .. Len(q) PROVE t[h] = o[q[h]] /\ t[h] \in Nat
  BY <1>0, <1>1
<1>4. t \in Seq(Nat) /\ Len(t) = Len(q) /\ DOMAIN t = 1 .. Len(q)
  BY <1>0, <1>1, <1>3
<1>5. Rising(t)
  <2> SUFFICES ASSUME NEW h \in 1 .. Len(q), NEW i \in 1 .. Len(q), h < i PROVE t[h] < t[i]
    BY <1>4 DEF Rising
  <2>1. q[h] < q[i]
    BY <1>0, <1>1 DEF Rising
  <2> QED
    BY <1>0, <1>2, <1>3, <2>1
<1>6. Range(t) \subseteq {o[k] : k \in Range(q)}
  <2>1. ASSUME NEW h \in 1 .. Len(q) PROVE t[h] \in {o[k] : k \in Range(q)}
    BY <1>2, <1>3
  <2> QED
    BY <1>4, <2>1 DEF Range
<1>7. {o[k] : k \in Range(q)} \subseteq Range(t)
  <2>1. ASSUME NEW k \in Range(q) PROVE o[k] \in Range(t)
    <3>1. PICK h \in 1 .. Len(q) : q[h] = k
      BY <1>1 DEF Range
    <3>2. t[h] = o[k]
      BY <1>3, <3>1
    <3> QED
      BY <1>4, <3>2 DEF Range
  <2> QED
    BY <2>1
<1> QED
  BY <1>4, <1>5, <1>6, <1>7

LEMMA Part ==
    ASSUME NEW S, NEW s \in Seq(S), NEW a \in Nat \ {0}, NEW b \in Nat, a <= b + 1, b <= Len(s)
    PROVE  /\ SubSeq(s, a, b) \in Seq(S) /\ Len(SubSeq(s, a, b)) = b - a + 1
           /\ \A m \in 1 .. b - a + 1 : SubSeq(s, a, b)[m] = s[m + a - 1]
OBVIOUS

LEMMA SameSeq ==
    ASSUME NEW S, NEW u \in Seq(S), NEW v \in Seq(S), Len(u) = Len(v),
           \A m \in 1 .. Len(u) : u[m] = v[m]
    PROVE  u = v
OBVIOUS

LEMMA SeqWithin ==
    ASSUME NEW S, NEW T, S \subseteq T, NEW q \in Seq(S)
    PROVE  q \in Seq(T) /\ \A h \in 1 .. Len(q) : q[h] \in S /\ q[h] \in T
<1>1. Len(q) \in Nat /\ q \in [1 .. Len(q) -> S]
  OBVIOUS
<1>2. q \in [1 .. Len(q) -> T]
  BY <1>1
<1> QED
  BY <1>1, <1>2

(* Of each path the results are the ends of its bursts, in order.          *)
LEMMA EachPathDebounced ==
    ASSUME NEW E, Timed(E), NEW events \in Seq(E), InOrder(events), NEW window \in Nat, NEW p
    PROVE  Of(p, DebounceTimed(events, window)) = BurstEnds(Of(p, events), window)
<1>1. PICK n, r : n = Len(events) /\ r = DebounceTimed(events, window)
  OBVIOUS
<1>2. /\ n \in Nat /\ DOMAIN events = 1 .. n
      /\ \A i \in 1 .. n : events[i].time \in Nat
      /\ \A i, j \in 1 .. n : i <= j => events[i].time <= events[j].time
  BY <1>1, TimesRise
<1>3. PICK source : r \in Seq(E) /\ AreEnds(events, window, n, r, source)
  BY <1>1, ResultsAreEnds
<1>4. PICK m : m = Len(r)
  OBVIOUS
<1>5. /\ m \in Nat /\ DOMAIN r = 1 .. m
      /\ \A i \in 1 .. m : source[i] \in 1 .. n /\ r[i] = events[source[i]]
      /\ \A i, j \in 1 .. m : i < j /\ r[i].path = r[j].path => source[i] < source[j]
      /\ \A i \in 1 .. m : EndsBurst(events, window, n, source[i])
      /\ \A j \in 1 .. n : EndsBurst(events, window, n, j) => \E i \in 1 .. m : source[i] = j
  BY <1>3, <1>4 DEF AreEnds
<1> DEFINE Mine == {j \in 1 .. n : events[j].path = p}
           Final == {j \in Mine : EndsBurst(events, window, n, j)}
(* The results of the path, by the events they come from. *)
<1>6. PICK t \in Seq(Nat) : /\ Rising(t) /\ Range(t) = Final
                            /\ Of(p, r) = [h \in 1 .. Len(t) |-> events[t[h]]]
  <2> DEFINE A == {i \in 1 .. m : r[i].path = p}
  <2>1. PICK q : q = Sorted(A)
    OBVIOUS
  <2>2. A \subseteq 1 .. m
    OBVIOUS
  <2>3. /\ q \in Seq(A) /\ Rising(q) /\ Range(q) = A
        /\ At(r, A) = [h \in 1 .. Len(q) |-> r[q[h]]]
    <3> HIDE DEF A
    <3>1. q \in Seq(A) /\ Rising(q) /\ Range(q) = A
      BY <1>5, <2>1, <2>2, Kept
    <3>2. At(r, A) = [h \in DOMAIN q |-> r[q[h]]]
      BY <2>1 DEF At, Sorted
    <3>3. DOMAIN q = 1 .. Len(q)
      BY <3>1
    <3> QED
      BY <3>1, <3>2, <3>3
  <2>4. PICK s : s = [h \in 1 .. Len(q) |-> source[q[h]]]
    OBVIOUS
  <2>5. q \in Seq(1 .. m) /\ \A h \in 1 .. Len(q) : q[h] \in 1 .. m
    <3> HIDE DEF A
    <3> QED
      BY <2>2, <2>3, SeqWithin
  <2>6. \A k, l \in A : k < l => source[k] < source[l]
    BY <1>5
  <2>7. s \in Seq(Nat) /\ Len(s) = Len(q) /\ Rising(s) /\ Range(s) = Picked(source, A)
    <3>1. \A k \in 1 .. m : source[k] \in Nat
      BY <1>5
    <3> HIDE DEF A
    <3>2. \A k, l \in Range(q) : k < l => source[k] < source[l]
      BY <2>3, <2>6
    <3>3. m \in Nat /\ q \in Seq(1 .. m) /\ Rising(q)
      BY <1>5, <2>3, <2>5
    <3>4. s \in Seq(Nat) /\ Len(s) = Len(q) /\ \A h \in 1 .. Len(q) : s[h] = source[q[h]]
      BY <2>4, <2>5, <3>1, <3>3
    <3>5. Rising(s) /\ Range(s) = Picked(source, Range(q))
      <4>1. Picks(source, m, q, s)
        BY <3>1, <3>2, <3>3, <3>4 DEF Picks
      <4> QED
        BY <4>1, RisingChoice
    <3> QED
      BY <2>3, <3>4, <3>5
  <2>8. Picked(source, A) = Final
    <3>1. ASSUME NEW k \in A PROVE source[k] \in Final
      BY <1>5
    <3>2. ASSUME NEW j \in Final PROVE \E k \in A : source[k] = j
      <4>1. PICK i \in 1 .. m : source[i] = j
        BY <1>5
      <4>2. i \in A
        BY <1>5, <4>1
      <4> QED
        BY <4>1, <4>2
    <3> HIDE DEF A, Final
    <3> QED
      BY <3>1, <3>2 DEF Picked
  <2>9. Of(p, r) = At(r, A)
    BY <1>5 DEF Of
  <2>10. \A h \in 1 .. Len(q) : r[q[h]] = events[s[h]]
    BY <1>5, <2>4, <2>5
  <2>11. Of(p, r) = [h \in 1 .. Len(s) |-> events[s[h]]]
    BY <2>3, <2>7, <2>9, <2>10
  <2> HIDE DEF A, Final
  <2> QED
    BY <2>7, <2>8, <2>11
(* The ends of the bursts of the path, by the same events. *)
<1>7. PICK u \in Seq(Nat) : /\ Rising(u) /\ Range(u) = Final
                            /\ BurstEnds(Of(p, events), window) = [h \in 1 .. Len(u) |-> events[u[h]]]
  <2>1. PICK o, mine : o = Sorted(Mine) /\ mine = Of(p, events)
    OBVIOUS
  <2>2. Mine \subseteq 1 .. n
    OBVIOUS
  <2>3. o \in Seq(Mine) /\ o \in Seq(Nat) /\ Rising(o) /\ Range(o) = Mine
    <3> HIDE DEF Mine
    <3> QED
      BY <1>2, <2>1, <2>2, Kept
  <2>4. PICK k : k = Len(o)
    OBVIOUS
  <2>5. k \in Nat /\ DOMAIN o = 1 .. k /\ \A h \in 1 .. k : o[h] \in Mine /\ o[h] \in 1 .. n
    BY <2>3, <2>4
  <2>6. mine = [h \in 1 .. k |-> events[o[h]]]
    <3>1. mine = At(events, Mine)
      BY <1>2, <2>1 DEF Of
    <3>2. At(events, Mine) = [h \in DOMAIN o |-> events[o[h]]]
      <4> HIDE DEF Mine
      <4> QED
        BY <2>1 DEF At, Sorted
    <3> QED
      BY <2>5, <3>1, <3>2
  <2>7. Len(mine) = k /\ DOMAIN mine = 1 .. k /\ \A h \in 1 .. k : mine[h] = events[o[h]]
    BY <2>5, <2>6
  <2> DEFINE K == {h \in 1 .. k : h = k \/ mine[h + 1].time - mine[h].time > window}
  <2>8. BurstEnds(mine, window) = At(mine, K)
    BY <2>7 DEF BurstEnds
  <2>9. \A h, i \in 1 .. k : h < i => o[h] < o[i]
    BY <2>3, <2>5 DEF Rising
  <2>10. \A j \in Mine : \E h \in 1 .. k : o[h] = j
    BY <2>3, <2>5 DEF Range
  <2>11. ASSUME NEW h \in 1 .. k
         PROVE  h \in K <=> EndsBurst(events, window, n, o[h])
    <3>1. o[h] \in 1 .. n /\ events[o[h]].path = p /\ events[o[h]].time \in Nat
      BY <1>2, <2>5
    <3>2. ASSUME h \in K, NEW l \in o[h] + 1 .. n, events[l].path = events[o[h]].path
          PROVE  events[l].time - events[o[h]].time > window
      <4>1. l \in Mine /\ o[h] < l
        BY <3>1, <3>2
      <4>2. PICK i \in 1 .. k : o[i] = l
        BY <2>10, <4>1
      <4>3. h < i
        <5>1. ~(i < h)
          BY <2>9, <3>1, <4>1, <4>2
        <5>2. i # h
          BY <3>1, <4>1, <4>2
        <5> QED
          BY <2>5, <5>1, <5>2
      <4>4. h # k /\ h + 1 \in 1 .. k /\ (h + 1 = i \/ h + 1 < i)
        BY <2>5, <4>3
      <4>5. mine[h + 1].time - mine[h].time > window
        BY <3>2, <4>4
      <4>6. o[h + 1] \in 1 .. n /\ o[h + 1] <= l
        BY <2>5, <2>9, <4>2, <4>4
      <4>7. events[o[h + 1]].time <= events[l].time /\ events[o[h + 1]].time \in Nat /\ events[l].time \in Nat
        BY <1>2, <4>1, <4>6
      <4>8. mine[h] = events[o[h]] /\ mine[h + 1] = events[o[h + 1]]
        BY <2>7, <4>4
      <4>9. events[o[h + 1]].time - events[o[h]].time > window
        BY <4>5, <4>8
      <4>10. \A a, b, c \in Nat : b <= c /\ b - a > window => c - a > window
        OBVIOUS
      <4> QED
        BY <3>1, <4>7, <4>9, <4>10
    <3>3. ASSUME EndsBurst(events, window, n, o[h]), h # k
          PROVE  mine[h + 1].time - mine[h].time > window
      <4>1. h + 1 \in 1 .. k /\ h < h + 1
        BY <2>5, <3>3
      <4>2. o[h + 1] \in o[h] + 1 .. n /\ events[o[h + 1]].path = p
        BY <2>5, <2>9, <3>1, <4>1
      <4>3. events[o[h + 1]].time - events[o[h]].time > window
        BY <3>1, <3>3, <4>2 DEF EndsBurst
      <4> QED
        BY <2>7, <4>1, <4>3
    <3>4. h \in K => EndsBurst(events, window, n, o[h])
      BY <3>2 DEF EndsBurst
    <3> QED
      BY <3>3, <3>4
  <2>12. PICK q : q = Sorted(K)
    OBVIOUS
  <2>13. K \subseteq 1 .. k
    OBVIOUS
  <2>14. /\ q \in Seq(K) /\ Rising(q) /\ Range(q) = K
         /\ At(mine, K) = [h \in 1 .. Len(q) |-> mine[q[h]]]
    <3> HIDE DEF K
    <3>1. q \in Seq(K) /\ Rising(q) /\ Range(q) = K
      BY <2>5, <2>12, <2>13, Kept
    <3>2. At(mine, K) = [h \in DOMAIN q |-> mine[q[h]]]
      BY <2>12 DEF At, Sorted
    <3>3. DOMAIN q = 1 .. Len(q)
      BY <3>1
    <3> QED
      BY <3>1, <3>2, <3>3
  <2>15. PICK s : s = [h \in 1 .. Len(q) |-> o[q[h]]]
    OBVIOUS
  <2> HIDE DEF K
  <2>16. q \in Seq(1 .. k) /\ \A h \in 1 .. Len(q) : q[h] \in 1 .. k
    BY <2>13, <2>14, SeqWithin
  <2>17. s \in Seq(Nat) /\ Len(s) = Len(q) /\ Rising(s) /\ Range(s) = Picked(o, K)
    <3>1. \A h \in 1 .. k : o[h] \in Nat
      BY <2>5
    <3>2. \A h, i \in Range(q) : h < i => o[h] < o[i]
      BY <2>9, <2>13, <2>14
    <3>3. k \in Nat /\ q \in Seq(1 .. k) /\ Rising(q)
      BY <2>5, <2>14, <2>16
    <3>4. s \in Seq(Nat) /\ Len(s) = Len(q) /\ \A h \in 1 .. Len(q) : s[h] = o[q[h]]
      BY <2>15, <2>16, <3>1, <3>3
    <3>5. Rising(s) /\ Range(s) = Picked(o, Range(q))
      <4>1. Picks(o, k, q, s)
        BY <3>1, <3>2, <3>3, <3>4 DEF Picks
      <4> QED
        BY <4>1, RisingChoice
    <3> QED
      BY <2>14, <3>4, <3>5
  <2>18. Picked(o, K) = Final
    <3>1. ASSUME NEW h \in K PROVE o[h] \in Final
      BY <2>5, <2>11, <2>13
    <3>2. ASSUME NEW j \in Final PROVE \E h \in K : o[h] = j
      <4>1. PICK h \in 1 .. k : o[h] = j
        BY <2>10
      <4> QED
        BY <2>11, <4>1
    <3> HIDE DEF Final
    <3> QED
      BY <3>1, <3>2 DEF Picked
  <2>19. \A h \in 1 .. Len(q) : mine[q[h]] = events[s[h]]
    BY <2>7, <2>15, <2>16
  <2>20. BurstEnds(mine, window) = [h \in 1 .. Len(s) |-> events[s[h]]]
    BY <2>8, <2>14, <2>17, <2>19
  <2> HIDE DEF Final
  <2> QED
    BY <2>1, <2>17, <2>18, <2>20
<1> HIDE DEF Final
<1>8. t = u
  BY <1>6, <1>7, OneOrder
<1> QED
  BY <1>1, <1>6, <1>7, <1>8

(* The window that spans all there is: only the last event of a path ends  *)
(* a burst of it.                                                          *)
LEMMA LatestSpans ==
    ASSUME NEW E, Timed(E), NEW events \in Seq(E), InOrder(events)
    PROVE  /\ Latest(events) \in Nat
           /\ \A i \in 1 .. Len(events) : events[i].time <= Latest(events)
<1>1. PICK n : n = Len(events)
  OBVIOUS
<1>2. /\ n \in Nat /\ DOMAIN events = 1 .. n
      /\ \A i \in 1 .. n : events[i].time \in Nat
      /\ \A i, j \in 1 .. n : i <= j => events[i].time <= events[j].time
  BY <1>1, TimesRise
<1> DEFINE T == {0} \cup {events[i].time : i \in 1 .. n}
<1>3. Latest(events) = Max(T)
  BY <1>2 DEF Latest
<1>4. PICK m \in Nat : \A i \in 1 .. n : events[i].time <= m
  <2>1. CASE n = 0
    BY <2>1
  <2>2. CASE n # 0
    <3>1. n \in 1 .. n
      BY <1>2, <2>2
    <3>2. events[n].time \in Nat /\ \A i \in 1 .. n : events[i].time <= events[n].time
      BY <1>2, <3>1
    <3> QED
      BY <3>2
  <2> QED
    BY <2>1, <2>2
<1>5. T \subseteq 0 .. m /\ T # {} /\ \A i \in 1 .. n : events[i].time \in T
  BY <1>2, <1>4
<1> HIDE DEF T
<1>6. Max(T) \in T /\ \A t \in T : t <= Max(T)
  BY <1>5, GreatestUpTo
<1>7. Max(T) \in Nat
  BY <1>5, <1>6
<1> QED
  BY <1>1, <1>3, <1>5, <1>6, <1>7

LEMMA UnboundedWindow ==
    ASSUME NEW E, Timed(E), NEW events \in Seq(E), InOrder(events)
    PROVE  Range(DebounceTimed(events, Latest(events))) =
               {events[j] : j \in {i \in 1 .. Len(events) : Ends(events, i)}}
<1>1. PICK n, w, r : n = Len(events) /\ w = Latest(events) /\ r = DebounceTimed(events, w)
  OBVIOUS
<1>2. n \in Nat /\ \A i \in 1 .. n : events[i].time \in Nat
  BY <1>1, TimesRise
<1>3. w \in Nat /\ \A i \in 1 .. n : events[i].time <= w
  BY <1>1, LatestSpans
<1>4. PICK source : r \in Seq(E) /\ AreEnds(events, w, n, r, source)
  BY <1>1, <1>3, ResultsAreEnds
<1>5. ASSUME NEW j \in 1 .. n PROVE EndsBurst(events, w, n, j) <=> Ends(events, j)
  <2>1. ASSUME NEW l \in j + 1 .. n PROVE ~(events[l].time - events[j].time > w)
    <3>1. l \in 1 .. n
      BY <1>2
    <3>2. events[l].time <= w /\ events[l].time \in Nat /\ events[j].time \in Nat
      BY <1>2, <1>3, <3>1
    <3> QED
      BY <1>3, <3>2
  <2> QED
    BY <1>1, <2>1 DEF EndsBurst, Ends
<1> DEFINE I == {i \in 1 .. n : Ends(events, i)}
<1>6. PICK m : m = Len(r)
  OBVIOUS
<1>7. /\ DOMAIN r = 1 .. m
      /\ \A i \in 1 .. m : source[i] \in I /\ r[i] = events[source[i]]
      /\ \A j \in I : \E i \in 1 .. m : source[i] = j
  BY <1>4, <1>5, <1>6 DEF AreEnds
<1> HIDE DEF I
<1>8. Range(r) = {events[j] : j \in I}
  <2>1. ASSUME NEW i \in 1 .. m PROVE r[i] \in {events[j] : j \in I}
    BY <1>7
  <2>2. ASSUME NEW j \in I PROVE events[j] \in Range(r)
    BY <1>7 DEF Range
  <2>3. Range(r) \subseteq {events[j] : j \in I}
    BY <1>7, <2>1 DEF Range
  <2> QED
    BY <2>2, <2>3
<1> QED
  BY <1>1, <1>8 DEF I

(* What debounce_events leaves of the events of some paths.                *)
LEMMA LastEvents ==
    ASSUME NEW E, NEW events \in Seq(E), NEW J, J \subseteq 1 .. Len(events),
           \A i \in J : \A j \in 1 .. Len(events) : events[j].path = events[i].path => j \in J
    PROVE  Range(Debounce(At(events, J))) = {events[j] : j \in {i \in J : Ends(events, i)}}
<1>1. PICK n, a, o : n = Len(events) /\ a = At(events, J) /\ o = Sorted(J)
  OBVIOUS
<1>2. n \in Nat /\ J \subseteq 1 .. n
  BY <1>1
<1>3. o \in Seq(J) /\ o \in Seq(Nat) /\ Rising(o) /\ Range(o) = J
  BY <1>1, <1>2, Kept
<1>4. a = [k \in DOMAIN o |-> events[o[k]]]
  BY <1>1 DEF At, Sorted
<1>5. PICK m : m = Len(o)
  OBVIOUS
<1>6. /\ m \in Nat /\ DOMAIN o = 1 .. m /\ \A k \in 1 .. m : o[k] \in J
      /\ \A j \in J : \E k \in 1 .. m : o[k] = j
      /\ \A k, l \in 1 .. m : k < l => o[k] < o[l]
  <2>1. m \in Nat /\ DOMAIN o = 1 .. m /\ \A k \in 1 .. m : o[k] \in J
    BY <1>3, <1>5
  <2>2. \A k, l \in 1 .. m : k < l => o[k] < o[l]
    BY <1>3, <2>1 DEF Rising
  <2>3. \A j \in J : \E k \in 1 .. m : o[k] = j
    BY <1>3, <2>1 DEF Range
  <2> QED
    BY <2>1, <2>2, <2>3
<1>7. DOMAIN a = 1 .. m /\ Len(a) = m /\ \A k \in 1 .. m : a[k] = events[o[k]]
  BY <1>4, <1>6
<1>8. ASSUME NEW k \in 1 .. m PROVE Ends(a, k) <=> Ends(events, o[k])
  <2>1. ASSUME Ends(a, k), NEW j \in o[k] + 1 .. n, events[j].path = events[o[k]].path
        PROVE  FALSE
    <3>0. o[k] \in J /\ o[k] \in 1 .. n
      BY <1>2, <1>6
    <3>1. o[k] \in J /\ o[k] \in 1 .. n /\ j \in 1 .. n /\ o[k] < j
      BY <1>2, <3>0
    <3>2. j \in J
      BY <1>1, <2>1, <3>1
    <3>3. PICK l \in 1 .. m : o[l] = j
      BY <1>6, <3>2
    <3>4. ~(l < k) /\ l # k
      <4>1. l # k
        BY <3>1, <3>3
      <4>2. ASSUME l < k PROVE FALSE
        <5>1. o[l] < o[k]
          BY <1>6, <4>2
        <5> QED
          BY <3>1, <3>3, <5>1
      <4> QED
        BY <4>1, <4>2
    <3>5. l \in k + 1 .. m
      BY <1>6, <3>4
    <3>6. a[l].path # a[k].path
      BY <1>7, <2>1, <3>5 DEF Ends
    <3> QED
      BY <1>7, <2>1, <3>3, <3>6
  <2>2. ASSUME Ends(events, o[k]), NEW l \in k + 1 .. m PROVE a[l].path # a[k].path
    <3>1. l \in 1 .. m /\ k < l
      BY <1>6
    <3>2. o[k] < o[l] /\ o[l] \in 1 .. n /\ o[k] \in 1 .. n
      BY <1>2, <1>6, <3>1
    <3>3. o[l] \in o[k] + 1 .. n
      BY <1>2, <3>2
    <3> QED
      BY <1>1, <1>7, <2>2, <3>1, <3>3 DEF Ends
  <2> QED
    BY <1>1, <1>7, <2>1, <2>2 DEF Ends
<1> DEFINE I == {k \in 1 .. m : Ends(a, k)}
           L == {i \in J : Ends(events, i)}
<1>9. Debounce(a) = At(a, I)
  BY <1>7 DEF Debounce
<1>10. \A k \in I : o[k] \in L /\ a[k] = events[o[k]]
  BY <1>6, <1>7, <1>8
<1>11. \A j \in L : \E k \in I : o[k] = j
  <2> SUFFICES ASSUME NEW j \in L PROVE \E k \in I : o[k] = j
    OBVIOUS
  <2>1. PICK k \in 1 .. m : o[k] = j
    BY <1>6
  <2> QED
    BY <1>8, <2>1
<1>12. I \subseteq 1 .. m
  OBVIOUS
<1> HIDE DEF I, L
<1>13. Range(Debounce(a)) = {a[k] : k \in I}
  BY <1>6, <1>9, <1>12, KeptOf
<1>14. {a[k] : k \in I} = {events[j] : j \in L}
  <2>1. ASSUME NEW k \in I PROVE a[k] \in {events[j] : j \in L}
    BY <1>10
  <2>2. ASSUME NEW j \in L PROVE events[j] \in {a[k] : k \in I}
    BY <1>10, <1>11
  <2> QED
    BY <2>1, <2>2
<1> QED
  BY <1>1, <1>13, <1>14 DEF L

-----------------------------------------------------------------------------
(* Walking *)

LEMMA EmptySeq == \A S : <<>> \in Seq(S)
OBVIOUS

(* What a walk in a folder that is there can end with. *)
Outs(S) == {TooMany} \cup {Listing(f) : f \in Seq(S)}

LEMMA CollectStays ==
    ASSUME NEW fs, NEW budget, NEW out, NEW p, out = TooMany \/ fs[p].kind # "file"
    PROVE  Collect(fs, budget, out, p) = out
BY DEF Collect

LEMMA CollectAdds ==
    ASSUME NEW fs, NEW budget, NEW f, NEW p, fs[p].kind = "file"
    PROVE  Collect(fs, budget, Listing(f), p) =
               IF Len(f) >= budget.files THEN TooMany ELSE Listing(Append(f, p))
BY DEF Collect, Full, Listing, TooMany

LEMMA CollectIn ==
    ASSUME NEW S, NEW fs, NEW budget, NEW out \in Outs(S), NEW p \in S
    PROVE  Collect(fs, budget, out, p) \in Outs(S)
<1>1. CASE out = TooMany \/ fs[p].kind # "file"
  BY <1>1, CollectStays
<1>2. CASE out # TooMany /\ fs[p].kind = "file"
  <2>1. PICK f \in Seq(S) : out = Listing(f)
    BY <1>2 DEF Outs
  <2>2. Collect(fs, budget, out, p) =
            IF Len(f) >= budget.files THEN TooMany ELSE Listing(Append(f, p))
    BY <1>2, <2>1, CollectAdds
  <2>3. Append(f, p) \in Seq(S)
    OBVIOUS
  <2> QED
    BY <2>2, <2>3 DEF Outs
<1> QED
  BY <1>1, <1>2

Collected(fs, budget, order) ==
    FoldLeft(LAMBDA out, p : Collect(fs, budget, out, p), Listing(<<>>), order)

Collects(S, fs, budget, order, g) ==
    /\ g \in [0 .. Len(order) -> Outs(S)]
    /\ g[0] = Listing(<<>>) /\ g[Len(order)] = Collected(fs, budget, order)
    /\ \A k \in 1 .. Len(order) : g[k] = Collect(fs, budget, g[k - 1], order[k])

LEMMA CollectGoes ==
    ASSUME NEW S, NEW fs, NEW budget, NEW order \in Seq(S)
    PROVE  \E g : Collects(S, fs, budget, order, g)
<1>0. PICK n, R, none : n = Len(order) /\ R = Outs(S) /\ none = Listing(<<>>)
  OBVIOUS
<1> DEFINE body(f) == [s \in SUBSET DOMAIN order |->
                          IF s = {} THEN Listing(<<>>)
                          ELSE Collect(fs, budget, f[s \ {Max(s)}], order[Max(s)])]
           goes == CHOOSE f : f = body(f)
<1>1. n \in Nat /\ DOMAIN order = 1 .. n
  BY <1>0
<1>2. Collected(fs, budget, order) = goes[DOMAIN order]
  BY DEF Collected, FoldLeft, MapThenFoldSet
<1>3. PICK step : step = [k \in 1 .. n |-> [r \in R |-> Collect(fs, budget, r, order[k])]]
  OBVIOUS
<1>4. step \in Steps(n, R) /\ none \in R
  <2>1. none \in R
    BY <1>0, EmptySeq DEF Outs
  <2>2. ASSUME NEW k \in 1 .. n, NEW r \in R PROVE Collect(fs, budget, r, order[k]) \in R
    <3>1. order[k] \in S
      BY <1>1
    <3> QED
      BY <1>0, <3>1, CollectIn
  <2> QED
    BY <1>3, <2>1, <2>2 DEF Steps
<1>5. \A k \in 1 .. n : \A r \in R : step[k][r] = Collect(fs, budget, r, order[k])
  BY <1>3
<1>6. n \in Nat
  BY <1>1
<1>7. PICK f : IsFold(step, none, n, R, f)
  BY <1>4, <1>6, FoldExists
<1>8. ASSUME NEW s \in Parts(n), s # {}
      PROVE  Max(s) \in 1 .. n /\ s \ {Max(s)} \in Parts(n)
  BY <1>1, <1>8, GreatestOf DEF Parts
<1>9. f = body(f)
  <2>1. ASSUME NEW s \in Parts(n) PROVE f[s] = body(f)[s]
    <3>1. f[s] = Step(step, none, f, s)
      BY <1>7 DEF IsFold
    <3>2. CASE s = {}
      BY <1>0, <1>1, <3>1, <3>2 DEF Step, Parts
    <3>3. CASE s # {}
      <4>1. Max(s) \in 1 .. n /\ s \ {Max(s)} \in Parts(n)
        BY <1>8, <3>3
      <4>2. f[s \ {Max(s)}] \in R
        BY <1>7, <4>1 DEF IsFold
      <4>3. f[s] = Collect(fs, budget, f[s \ {Max(s)}], order[Max(s)])
        BY <1>5, <3>1, <3>3, <4>1, <4>2 DEF Step
      <4> QED
        BY <1>1, <3>3, <4>3 DEF Parts
    <3> QED
      BY <3>2, <3>3
  <2> QED
    BY <1>1, <1>7, <2>1 DEF IsFold, Parts
<1>10. goes = body(goes)
  <2> HIDE DEF body
  <2> QED
    BY <1>9
<1>11. /\ goes[{}] = none
       /\ \A s \in Parts(n) :
              s # {} => goes[s] = Collect(fs, budget, goes[s \ {Max(s)}], order[Max(s)])
  BY <1>0, <1>1, <1>10 DEF Parts
<1> HIDE DEF goes
<1>12. Folds(step, none, n, R, goes)
  BY <1>5, <1>8, <1>11 DEF Folds
<1>13. PICK g : Goes(step, none, n, R, goes, g)
  BY <1>4, <1>6, <1>12, FoldGoes
<1>14. ASSUME NEW k \in 1 .. n PROVE g[k] = Collect(fs, budget, g[k - 1], order[k])
  <2>1. k - 1 \in 0 .. n
    BY <1>1
  <2> QED
    BY <1>5, <1>13, <2>1 DEF Goes
<1> QED
  BY <1>0, <1>1, <1>2, <1>13, <1>14 DEF Goes, Collects


(* The files among the first k entries. *)
FilesOf(fs, order, k) == {order[i] : i \in {j \in 1 .. k : fs[order[j]].kind = "file"}}

(* As many files as the budget has are listed, each once; from the first   *)
(* beyond it on there are too many.                                        *)
IsListing(fs, budget, order, k, out) ==
    LET seen == FilesOf(fs, order, k) IN
    /\ IsFiniteSet(seen) /\ Cardinality(seen) \in Nat
    /\ Cardinality(seen) > budget.files => out = TooMany
    /\ ~(Cardinality(seen) > budget.files) =>
           \E f \in Seq(Range(order)) :
               /\ out = Listing(f) /\ Len(f) = Cardinality(seen)
               /\ EachOnce(f) /\ Range(f) = seen

LEMMA CollectKeeps ==
    ASSUME NEW fs, NEW budget, budget.files \in Nat, NEW order, NEW k \in Nat,
           order \in Seq(Range(order)), EachOnce(order), k + 1 <= Len(order),
           NEW out, IsListing(fs, budget, order, k, out)
    PROVE  IsListing(fs, budget, order, k + 1, Collect(fs, budget, out, order[k + 1]))
<1> DEFINE S == Range(order)
           p == order[k + 1]
           next == Collect(fs, budget, out, p)
           seen == FilesOf(fs, order, k)
           then == FilesOf(fs, order, k + 1)
<1>1. k + 1 \in 1 .. Len(order) /\ DOMAIN order = 1 .. Len(order) /\ p \in S /\ Len(order) \in Nat
  BY DEF Range
<1>2. \A j \in 1 .. k + 1 : j \in 1 .. k \/ j = k + 1
  OBVIOUS
<1>3. /\ IsFiniteSet(seen) /\ Cardinality(seen) \in Nat
      /\ Cardinality(seen) > budget.files => out = TooMany
      /\ ~(Cardinality(seen) > budget.files) =>
             \E f \in Seq(S) : /\ out = Listing(f) /\ Len(f) = Cardinality(seen)
                               /\ EachOnce(f) /\ Range(f) = seen
  BY DEF IsListing
<1>5. CASE fs[p].kind # "file"
  <2>1. then = seen
    BY <1>2, <1>5 DEF FilesOf
  <2>2. next = out
    BY <1>5, CollectStays
  <2> QED
    BY <2>1, <2>2 DEF IsListing
<1>6. CASE fs[p].kind = "file"
  <2>1. then = seen \cup {p}
    <3>1. then \subseteq seen \cup {p}
      BY <1>2 DEF FilesOf
    <3>2. \A j \in 1 .. k : j \in 1 .. k + 1
      OBVIOUS
    <3>3. seen \subseteq then /\ p \in then
      BY <1>6, <3>2 DEF FilesOf
    <3> QED
      BY <3>1, <3>3
  <2>2. p \notin seen
    <3> SUFFICES ASSUME p \in seen PROVE FALSE
      OBVIOUS
    <3>1. PICK i \in 1 .. k : p = order[i]
      BY DEF FilesOf
    <3>2. i \in DOMAIN order /\ i # k + 1
      BY <1>1
    <3> QED
      BY <1>1, <3>1, <3>2 DEF EachOnce
  <2> HIDE DEF seen, then, p, next
  <2>3. IsFiniteSet(then) /\ Cardinality(then) = Cardinality(seen) + 1
    BY <1>3, <2>1, <2>2, FS_AddElement
  <2>4. CASE Cardinality(seen) > budget.files
    <3>1. out = TooMany
      BY <1>3, <2>4
    <3>2. next = TooMany
      BY <3>1, CollectStays DEF next
    <3>3. Cardinality(then) \in Nat /\ Cardinality(then) > budget.files
      BY <1>3, <2>3, <2>4
    <3> QED
      BY <2>3, <3>2, <3>3 DEF IsListing, next, p, then
  <2>5. CASE ~(Cardinality(seen) > budget.files)
    <3>1. PICK f \in Seq(S) : /\ out = Listing(f) /\ Len(f) = Cardinality(seen)
                              /\ EachOnce(f) /\ Range(f) = seen
      BY <1>3, <2>5
    <3>2. next = IF Len(f) >= budget.files THEN TooMany ELSE Listing(Append(f, p))
      BY <1>6, <3>1, CollectAdds DEF next
    <3>3. CASE Len(f) >= budget.files
      <4>1. Cardinality(then) \in Nat /\ Cardinality(then) > budget.files /\ next = TooMany
        BY <1>3, <2>3, <3>1, <3>2, <3>3
      <4> QED
        BY <2>3, <4>1 DEF IsListing, next, p, then
    <3>4. CASE ~(Len(f) >= budget.files)
      <4>1. PICK h : h = Append(f, p)
        OBVIOUS
      <4>2. next = Listing(h)
        BY <3>2, <3>4, <4>1
      <4>3. h \in Seq(S) /\ Len(h) = Len(f) + 1 /\ h[Len(f) + 1] = p
            /\ DOMAIN h = 1 .. Len(f) + 1 /\ DOMAIN f = 1 .. Len(f) /\ Len(f) \in Nat
            /\ \A i \in 1 .. Len(f) : h[i] = f[i]
        BY <1>1, <4>1
      <4>4. \A i \in 1 .. Len(f) : f[i] \in seen
        BY <3>1, <4>3 DEF Range
      <4>5. \A i \in 1 .. Len(f) + 1 : i \in 1 .. Len(f) \/ i = Len(f) + 1
        BY <4>3
      <4>6. EachOnce(h)
        BY <2>2, <3>1, <4>3, <4>4, <4>5 DEF EachOnce
      <4>7. Range(h) = then
        <5>1. Range(h) \subseteq seen \cup {p}
          BY <4>3, <4>4, <4>5 DEF Range
        <5>2. \A i \in 1 .. Len(f) : i \in 1 .. Len(f) + 1
          BY <4>3
        <5>3. seen \subseteq Range(h)
          BY <3>1, <4>3, <5>2 DEF Range
        <5>4. p \in Range(h)
          <6>1. Len(f) + 1 \in DOMAIN h
            BY <4>3
          <6> QED
            BY <4>3, <6>1 DEF Range
        <5> QED
          BY <2>1, <5>1, <5>3, <5>4
      <4>8. Cardinality(then) \in Nat /\ ~(Cardinality(then) > budget.files)
            /\ Len(h) = Cardinality(then)
        BY <1>3, <2>3, <3>1, <3>4, <4>3
      <4> QED
        BY <2>3, <4>2, <4>3, <4>6, <4>7, <4>8 DEF IsListing, next, p, then
    <3> QED
      BY <3>3, <3>4
  <2> QED
    BY <2>4, <2>5
<1> QED
  BY <1>5, <1>6

(* Whatever the order of the entries: each file once, if the budget has    *)
(* room for them all.                                                      *)
LEMMA WalkLists ==
    ASSUME NEW fs, NEW budget, budget.files \in Nat, NEW order,
           order \in Seq(Range(order)), EachOnce(order)
    PROVE  IsListing(fs, budget, order, Len(order),
                 Collected(fs, budget, order))
<1>1. PICK n, S : n = Len(order) /\ S = Range(order)
  OBVIOUS
<1>2. n \in Nat /\ order \in Seq(S)
  BY <1>1
<1>3. PICK g : Collects(S, fs, budget, order, g)
  BY <1>2, CollectGoes
<1>4. /\ g[0] = Listing(<<>>)
      /\ g[n] = Collected(fs, budget, order)
      /\ \A k \in 1 .. n : g[k] = Collect(fs, budget, g[k - 1], order[k])
  BY <1>1, <1>3 DEF Collects
<1> DEFINE T == {k \in Nat : k <= n => IsListing(fs, budget, order, k, g[k])}
<1>5. 0 \in T
  <2>1. FilesOf(fs, order, 0) = {}
    BY DEF FilesOf
  <2>2. IsFiniteSet({}) /\ Cardinality({}) = 0
    BY FS_EmptySet
  <2>3. PICK none : none = <<>>
    OBVIOUS
  <2>4. none \in Seq(Range(order)) /\ Len(none) = 0 /\ EachOnce(none) /\ Range(none) = {}
    BY <2>3 DEF EachOnce, Range
  <2>5. IsListing(fs, budget, order, 0, Listing(none))
    <3>1. PICK seen : seen = FilesOf(fs, order, 0)
      OBVIOUS
    <3>2. IsFiniteSet(seen) /\ Cardinality(seen) = 0 /\ ~(Cardinality(seen) > budget.files)
      <4>1. seen = {}
        BY <2>1, <3>1
      <4>2. IsFiniteSet(seen) /\ Cardinality(seen) = 0
        BY <2>2, <4>1
      <4> QED
        BY <4>2
    <3>3. Len(none) = Cardinality(seen) /\ Range(none) = seen
      BY <2>1, <2>2, <2>4, <3>1
    <3> QED
      <4>1. PICK out : out = Listing(none)
        OBVIOUS
      <4>2. \E f \in Seq(Range(order)) : /\ out = Listing(f) /\ Len(f) = Cardinality(seen)
                                        /\ EachOnce(f) /\ Range(f) = seen
        <5> none \in Seq(Range(order))
          BY <2>4
        <5> WITNESS none \in Seq(Range(order))
        <5> QED
          BY <2>4, <3>3, <4>1
      <4>3. Cardinality(seen) \in Nat
        BY <3>2
      <4>4. IsListing(fs, budget, order, 0, out)
        BY <3>1, <3>2, <4>2, <4>3 DEF IsListing
      <4> QED
        BY <4>1, <4>4
  <2> QED
    BY <1>4, <2>3, <2>5
<1>6. ASSUME NEW k \in Nat, k \in T PROVE k + 1 \in T
  <2> SUFFICES ASSUME k + 1 <= n PROVE IsListing(fs, budget, order, k + 1, g[k + 1])
    OBVIOUS
  <2>1. k + 1 \in 1 .. n /\ (k + 1) - 1 = k /\ IsListing(fs, budget, order, k, g[k])
    BY <1>2, <1>6
  <2>2. g[k + 1] = Collect(fs, budget, g[k], order[k + 1])
    BY <1>4, <2>1
  <2> QED
    BY <1>1, <2>1, <2>2, CollectKeeps
<1>7. Nat \subseteq T
  <2> HIDE DEF T
  <2> QED
    BY <1>5, <1>6, SetInduction
<1>8. IsListing(fs, budget, order, n, g[n])
  BY <1>2, <1>7
<1> QED
  BY <1>1, <1>4, <1>8

LEMMA NowhereIsNot ==
    ASSUME NEW fs, DOMAIN fs \subseteq Seq(Names) \ {<<>>}
    PROVE  Found(fs, Nowhere) = Nothing /\ Nowhere \notin Seq(Names)
<1>1. PICK p : p = Nowhere
  OBVIOUS
<1>2. p # <<>> /\ Len(p) = 1 /\ p[1] = "."
  BY <1>1 DEF Nowhere
<1>3. p \notin Seq(Names)
  <2> SUFFICES ASSUME p \in Seq(Names) PROVE FALSE
    OBVIOUS
  <2>1. p[1] \in Names
    BY <1>2
  <2> QED
    BY <1>2, <2>1, FoldersAssumption
<1> QED
  BY <1>1, <1>2, <1>3 DEF Found

(* What a walk must answer.                                                *)
WalkAnswered(fs, given, budget, found) ==
    LET base == Resolved(fs, given)
        visible == Visible(fs, base, budget)
    IN  IF Found(fs, base).kind # "dir" THEN found = NoBase
        ELSE IF Cardinality(visible) > budget.files THEN found = TooMany
        ELSE found.ends = "ok" /\ EachOnce(found.files) /\ Range(found.files) = visible

LEMMA WalkIsExact ==
    ASSUME NEW fs, NEW given, NEW budget, NEW order, WalkAsked(fs, given, budget, order)
    PROVE  WalkAnswered(fs, given, budget, Walk(fs, given, budget, order))
<1>0. DOMAIN fs \subseteq Seq(Names) \ {<<>>} /\ budget.files \in Nat
  BY DEF WalkAsked
<1>1. PICK base : base = Resolved(fs, given)
  OBVIOUS
<1>2. PICK visible : visible = Visible(fs, base, budget)
  OBVIOUS
<1>3. PICK found : found = Walk(fs, given, budget, order)
  OBVIOUS
<1>4. base = Nowhere => Found(fs, base).kind # "dir"
  BY <1>0, NowhereIsNot DEF Nothing
<1>5. CASE Found(fs, base).kind # "dir"
  <2>1. found = NoBase
    BY <1>1, <1>3, <1>5 DEF Walk
  <2> QED
    BY <1>1, <1>3, <1>5, <2>1 DEF WalkAnswered
<1>6. CASE Found(fs, base).kind = "dir"
  <2>1. base # Nowhere /\ Yields(fs, base, budget, order)
    BY <1>1, <1>4, <1>6 DEF WalkAsked
  <2>2. found = Collected(fs, budget, order)
    BY <1>1, <1>3, <1>6, <2>1 DEF Walk, Collected, FoldLeft, MapThenFoldSet
  <2>3. PICK S : S = Range(order)
    OBVIOUS
  <2>4. S = Entries(fs, base, budget) /\ order \in Seq(S) /\ EachOnce(order)
    BY <2>1, <2>3 DEF Yields
  <2>5. PICK n : n = Len(order)
    OBVIOUS
  <2>6. n \in Nat /\ DOMAIN order = 1 .. n
    BY <2>4, <2>5
  <2>7. FilesOf(fs, order, n) = visible
    <3>1. ASSUME NEW p \in S PROVE Found(fs, p) = fs[p]
      BY <1>0, <2>4 DEF Entries, Found
    <3>2. visible = {p \in S : fs[p].kind = "file"}
      BY <1>2, <2>4, <3>1 DEF Visible
    <3>3. \A i \in 1 .. n : order[i] \in S
      BY <2>4, <2>5
    <3>4. \A p \in S : \E i \in 1 .. n : order[i] = p
      BY <2>3, <2>6 DEF Range
    <3>5. FilesOf(fs, order, n) \subseteq visible
      BY <3>2, <3>3 DEF FilesOf
    <3>6. visible \subseteq FilesOf(fs, order, n)
      <4> SUFFICES ASSUME NEW p \in visible PROVE p \in FilesOf(fs, order, n)
        OBVIOUS
      <4>1. PICK i \in 1 .. n : order[i] = p
        BY <3>2, <3>4
      <4>2. fs[order[i]].kind = "file"
        BY <3>2, <4>1
      <4> QED
        BY <4>1, <4>2 DEF FilesOf
    <3> QED
      BY <3>5, <3>6
  <2>8. IsListing(fs, budget, order, n, found)
    BY <2>2, <2>3, <2>4, <2>5, <1>0, WalkLists
  <2>9. CASE Cardinality(visible) > budget.files
    <3>1. found = TooMany
      BY <2>7, <2>8, <2>9 DEF IsListing
    <3> QED
      BY <1>1, <1>2, <1>3, <1>6, <2>9, <3>1 DEF WalkAnswered
  <2>10. CASE ~(Cardinality(visible) > budget.files)
    <3>1. PICK f : found = Listing(f) /\ EachOnce(f) /\ Range(f) = visible
      BY <2>7, <2>8, <2>10 DEF IsListing
    <3>2. found.ends = "ok" /\ found.files = f
      BY <3>1 DEF Listing
    <3> QED
      BY <1>1, <1>2, <1>3, <1>6, <2>10, <3>1, <3>2 DEF WalkAnswered
  <2> QED
    BY <2>9, <2>10
<1> QED
  BY <1>5, <1>6

-----------------------------------------------------------------------------
(* Resolving *)

(* The places above a place, and the place.                                *)
LEMMA UptoIs ==
    ASSUME NEW S, NEW place \in Seq(S)
    PROVE  /\ Upto(place, Len(place)) = place /\ Upto(place, 0) = <<>>
           /\ \A k \in 0 .. Len(place) :
                  /\ Upto(place, k) \in Seq(S) /\ Len(Upto(place, k)) = k
                  /\ \A i \in 1 .. k : Upto(place, k)[i] = place[i]
           /\ \A k \in 0 .. Len(place) : \A i \in 0 .. k : Upto(Upto(place, k), i) = Upto(place, i)
           /\ \A k \in 1 .. Len(place) : Append(Upto(place, k - 1), place[k]) = Upto(place, k)
<1>1. PICK n : n = Len(place)
  OBVIOUS
<1>2. n \in Nat /\ \A i \in 1 .. n : place[i] \in S
  BY <1>1
<1>3. ASSUME NEW q \in Seq(S), NEW k \in 0 .. Len(q)
      PROVE  /\ Upto(q, k) \in Seq(S) /\ Len(Upto(q, k)) = k
             /\ \A i \in 1 .. k : Upto(q, k)[i] = q[i]
  <2>1. /\ SubSeq(q, 1, k) \in Seq(S) /\ Len(SubSeq(q, 1, k)) = k - 1 + 1
        /\ \A m \in 1 .. k - 1 + 1 : SubSeq(q, 1, k)[m] = q[m + 1 - 1]
    <3>1. 1 \in Nat \ {0} /\ k \in Nat /\ 1 <= k + 1 /\ k <= Len(q)
      OBVIOUS
    <3> QED
      BY <3>1, Part
  <2>2. k - 1 + 1 = k /\ \A m \in 1 .. k : m + 1 - 1 = m
    OBVIOUS
  <2> QED
    BY <2>1, <2>2 DEF Upto
<1>4. n \in 0 .. Len(place) /\ 0 \in 0 .. Len(place) /\ 0 .. n = 0 .. Len(place)
  BY <1>1, <1>2
<1>5. Upto(place, n) = place
  <2>1. /\ Upto(place, n) \in Seq(S) /\ Len(Upto(place, n)) = Len(place)
        /\ \A i \in 1 .. n : Upto(place, n)[i] = place[i]
    BY <1>1, <1>3, <1>4
  <2> QED
    BY <1>1, <2>1, SameSeq
<1>6. Upto(place, 0) = <<>>
  <2>1. Upto(place, 0) \in Seq(S) /\ Len(Upto(place, 0)) = 0
    BY <1>3, <1>4
  <2> QED
    BY <2>1
<1>7. ASSUME NEW k \in 0 .. n, NEW i \in 0 .. k PROVE Upto(Upto(place, k), i) = Upto(place, i)
  <2>1. PICK p, q, r : p = Upto(place, k) /\ q = Upto(p, i) /\ r = Upto(place, i)
    OBVIOUS
  <2>2. p \in Seq(S) /\ Len(p) = k /\ \A h \in 1 .. k : p[h] = place[h]
    BY <1>3, <1>4, <2>1
  <2>3. q \in Seq(S) /\ Len(q) = i /\ \A h \in 1 .. i : q[h] = p[h]
    BY <1>3, <2>1, <2>2
  <2>4. i \in 0 .. n /\ 1 .. i \subseteq 1 .. k
    BY <1>2
  <2>5. r \in Seq(S) /\ Len(r) = i /\ \A h \in 1 .. i : r[h] = place[h]
    BY <1>3, <1>4, <2>1, <2>4
  <2>6. \A h \in 1 .. i : q[h] = r[h]
    BY <2>2, <2>3, <2>4, <2>5
  <2> QED
    BY <2>1, <2>3, <2>5, <2>6, SameSeq
<1>8. ASSUME NEW k \in 1 .. n PROVE Append(Upto(place, k - 1), place[k]) = Upto(place, k)
  <2>1. PICK p, q, r : p = Upto(place, k - 1) /\ q = Append(p, place[k]) /\ r = Upto(place, k)
    OBVIOUS
  <2>2. k - 1 \in 0 .. n /\ k \in 0 .. n /\ (k - 1) + 1 = k
    BY <1>2
  <2>3. p \in Seq(S) /\ Len(p) = k - 1 /\ \A h \in 1 .. k - 1 : p[h] = place[h]
    BY <1>3, <1>4, <2>1, <2>2
  <2>4. r \in Seq(S) /\ Len(r) = k /\ \A h \in 1 .. k : r[h] = place[h]
    BY <1>3, <1>4, <2>1, <2>2
  <2>5. q \in Seq(S) /\ Len(q) = k /\ q[k] = place[k] /\ \A h \in 1 .. k - 1 : q[h] = p[h]
    BY <1>2, <2>1, <2>2, <2>3
  <2>6. \A h \in 1 .. k : q[h] = r[h]
    <3>1. \A h \in 1 .. k : h \in 1 .. k - 1 \/ h = k
      BY <1>2
    <3> QED
      BY <2>3, <2>4, <2>5, <3>1
  <2> QED
    BY <2>1, <2>4, <2>5, <2>6, SameSeq
<1> QED
  BY <1>1, <1>3, <1>4, <1>5, <1>6, <1>7, <1>8

LEMMA UptoAt ==
    ASSUME NEW S, NEW place \in Seq(S), NEW k \in 0 .. Len(place)
    PROVE  /\ Upto(place, k) \in Seq(S) /\ Len(Upto(place, k)) = k
           /\ \A i \in 1 .. k : Upto(place, k)[i] = place[i]
BY UptoIs

LEMMA UptoNext ==
    ASSUME NEW S, NEW place \in Seq(S), NEW k \in Nat, k + 1 <= Len(place)
    PROVE  Append(Upto(place, k), place[k + 1]) = Upto(place, k + 1)
<1>1. k + 1 \in 1 .. Len(place) /\ (k + 1) - 1 = k
  OBVIOUS
<1> QED
  BY <1>1, UptoIs

EndPlaces == Seq(Names) \cup {Nowhere}

LEMMA FollowLost ==
    ASSUME NEW fs, NEW at, NEW name, at = Nowhere \/ Found(fs, at).kind # "dir"
    PROVE  Follow(fs, at, name) = Nowhere
BY DEF Follow

(* The step from a folder to what has a name in it. *)
Enters(fs, at, name, next) ==
    at # Nowhere /\ Found(fs, at).kind = "dir" /\ next = Append(at, name)

LEMMA FollowNext ==
    ASSUME NEW fs, NEW at, NEW name, NEW next, Enters(fs, at, name, next)
    PROVE  /\ Found(fs, next).kind = "none" => Follow(fs, at, name) = Nowhere
           /\ Found(fs, next).kind = "link" => Follow(fs, at, name) = Found(fs, next).to
           /\ Found(fs, next).kind \notin {"none", "link"} => Follow(fs, at, name) = next
BY DEF Follow, Enters

LEMMA LinkLeads ==
    ASSUME NEW fs, Tree(fs), NEW place, Found(fs, place).kind = "link"
    PROVE  Real(fs, Found(fs, place).to) \/ Found(fs, place).to = Nowhere
<1>1. place # <<>> /\ place \in DOMAIN fs /\ Found(fs, place) = fs[place]
  BY DEF Found, ADir, Nothing
<1> QED
  BY <1>1 DEF Tree

LEMMA FollowIn ==
    ASSUME NEW fs, Tree(fs), NEW at \in EndPlaces, NEW name \in Names
    PROVE  Follow(fs, at, name) \in EndPlaces
<1>1. CASE at = Nowhere \/ Found(fs, at).kind # "dir"
  BY <1>1, FollowLost DEF EndPlaces
<1>2. CASE at # Nowhere /\ Found(fs, at).kind = "dir"
  <2>1. at \in Seq(Names)
    BY <1>2 DEF EndPlaces
  <2>2. PICK next \in Seq(Names) : next = Append(at, name)
    <3>1. Append(at, name) \in Seq(Names)
      BY <2>1
    <3> QED
      BY <3>1
  <2>3. Enters(fs, at, name, next)
    BY <1>2, <2>2 DEF Enters
  <2>4. CASE Found(fs, next).kind = "none"
    BY <2>3, <2>4, FollowNext DEF EndPlaces
  <2>5. CASE Found(fs, next).kind = "link"
    BY <2>3, <2>5, FollowNext, LinkLeads DEF EndPlaces, Real
  <2>6. CASE Found(fs, next).kind \notin {"none", "link"}
    BY <2>2, <2>3, <2>6, FollowNext DEF EndPlaces
  <2> QED
    BY <2>4, <2>5, <2>6
<1> QED
  BY <1>1, <1>2

Follows(fs, place, g) ==
    /\ g \in [0 .. Len(place) -> EndPlaces]
    /\ g[0] = <<>> /\ g[Len(place)] = Resolved(fs, place)
    /\ \A k \in 1 .. Len(place) : g[k] = Follow(fs, g[k - 1], place[k])

LEMMA FollowGoes ==
    ASSUME NEW fs, Tree(fs), NEW place \in Seq(Names)
    PROVE  \E g : Follows(fs, place, g)
<1>0. PICK n, R, none : n = Len(place) /\ R = EndPlaces /\ none = <<>>
  OBVIOUS
<1> DEFINE body(f) == [s \in SUBSET DOMAIN place |->
                          IF s = {} THEN <<>>
                          ELSE Follow(fs, f[s \ {Max(s)}], place[Max(s)])]
           goes == CHOOSE f : f = body(f)
<1>1. n \in Nat /\ DOMAIN place = 1 .. n
  BY <1>0
<1>2. Resolved(fs, place) = goes[DOMAIN place]
  BY DEF Resolved, FoldLeft, MapThenFoldSet
<1>3. PICK step : step = [k \in 1 .. n |-> [r \in R |-> Follow(fs, r, place[k])]]
  OBVIOUS
<1>4. step \in Steps(n, R) /\ none \in R
  <2>1. none \in R
    BY <1>0, EmptySeq DEF EndPlaces
  <2>2. ASSUME NEW k \in 1 .. n, NEW r \in R PROVE Follow(fs, r, place[k]) \in R
    <3>1. place[k] \in Names
      BY <1>1
    <3> QED
      BY <1>0, <3>1, FollowIn
  <2> QED
    BY <1>3, <2>1, <2>2 DEF Steps
<1>5. \A k \in 1 .. n : \A r \in R : step[k][r] = Follow(fs, r, place[k])
  BY <1>3
<1>6. n \in Nat
  BY <1>1
<1>7. PICK f : IsFold(step, none, n, R, f)
  BY <1>4, <1>6, FoldExists
<1>8. ASSUME NEW s \in Parts(n), s # {}
      PROVE  Max(s) \in 1 .. n /\ s \ {Max(s)} \in Parts(n)
  BY <1>1, <1>8, GreatestOf DEF Parts
<1>9. f = body(f)
  <2>1. ASSUME NEW s \in Parts(n) PROVE f[s] = body(f)[s]
    <3>1. f[s] = Step(step, none, f, s)
      BY <1>7 DEF IsFold
    <3>2. CASE s = {}
      BY <1>0, <1>1, <3>1, <3>2 DEF Step, Parts
    <3>3. CASE s # {}
      <4>1. Max(s) \in 1 .. n /\ s \ {Max(s)} \in Parts(n)
        BY <1>8, <3>3
      <4>2. f[s \ {Max(s)}] \in R
        BY <1>7, <4>1 DEF IsFold
      <4>3. f[s] = Follow(fs, f[s \ {Max(s)}], place[Max(s)])
        BY <1>5, <3>1, <3>3, <4>1, <4>2 DEF Step
      <4> QED
        BY <1>1, <3>3, <4>3 DEF Parts
    <3> QED
      BY <3>2, <3>3
  <2> QED
    BY <1>1, <1>7, <2>1 DEF IsFold, Parts
<1>10. goes = body(goes)
  <2> HIDE DEF body
  <2> QED
    BY <1>9
<1>11. /\ goes[{}] = none
       /\ \A s \in Parts(n) :
              s # {} => goes[s] = Follow(fs, goes[s \ {Max(s)}], place[Max(s)])
  BY <1>0, <1>1, <1>10 DEF Parts
<1> HIDE DEF goes
<1>12. Folds(step, none, n, R, goes)
  BY <1>5, <1>8, <1>11 DEF Folds
<1>13. PICK g : Goes(step, none, n, R, goes, g)
  BY <1>4, <1>6, <1>12, FoldGoes
<1>14. ASSUME NEW k \in 1 .. n PROVE g[k] = Follow(fs, g[k - 1], place[k])
  <2>1. k - 1 \in 0 .. n
    BY <1>1
  <2> QED
    BY <1>5, <1>13, <2>1 DEF Goes
<1> QED
  BY <1>0, <1>1, <1>2, <1>13, <1>14 DEF Goes, Follows


(* Where a path leads, name by name. *)
LEMMA ResolvedStep ==
    ASSUME NEW fs, Tree(fs), NEW place \in Seq(Names)
    PROVE  /\ Resolved(fs, <<>>) = <<>>
           /\ \A k \in 1 .. Len(place) :
                  Resolved(fs, Upto(place, k)) =
                      Follow(fs, Resolved(fs, Upto(place, k - 1)), place[k])
<1>1. ASSUME NEW q \in Seq(Names), NEW g, Follows(fs, q, g), NEW p \in Seq(Names), NEW h,
             Follows(fs, p, h), Len(p) <= Len(q), \A i \in 1 .. Len(p) : p[i] = q[i]
      PROVE  g[Len(p)] = Resolved(fs, p)
  <2>1. PICK m : m = Len(p)
    OBVIOUS
  <2>2. m \in Nat /\ 1 .. m \subseteq 1 .. Len(q)
    BY <1>1, <2>1
  <2>3. /\ h[0] = <<>> /\ h[m] = Resolved(fs, p) /\ g[0] = <<>>
        /\ \A i \in 1 .. m : h[i] = Follow(fs, h[i - 1], p[i])
        /\ \A i \in 1 .. m : g[i] = Follow(fs, g[i - 1], q[i])
    BY <1>1, <2>1, <2>2 DEF Follows
  <2> DEFINE T == {i \in Nat : i <= m => g[i] = h[i]}
  <2>4. 0 \in T
    BY <2>3
  <2>5. ASSUME NEW i \in Nat, i \in T PROVE i + 1 \in T
    <3> SUFFICES ASSUME i + 1 <= m PROVE g[i + 1] = h[i + 1]
      OBVIOUS
    <3>1. i + 1 \in 1 .. m /\ (i + 1) - 1 = i /\ g[i] = h[i]
      BY <2>2, <2>5
    <3> QED
      BY <1>1, <2>1, <2>3, <3>1
  <2>6. Nat \subseteq T
    <3> HIDE DEF T
    <3> QED
      BY <2>4, <2>5, SetInduction
  <2>7. g[m] = h[m]
    BY <2>2, <2>6
  <2> QED
    BY <2>1, <2>3, <2>7
<1>2. PICK n : n = Len(place)
  OBVIOUS
<1>3. n \in Nat
  BY <1>2
<1>4. PICK g : Follows(fs, place, g)
  BY FollowGoes
<1>5. ASSUME NEW k \in 0 .. n PROVE g[k] = Resolved(fs, Upto(place, k))
  <2>1. PICK p : p = Upto(place, k)
    OBVIOUS
  <2>2. p \in Seq(Names) /\ Len(p) = k /\ \A i \in 1 .. k : p[i] = place[i]
    BY <1>2, <2>1, UptoIs
  <2>3. PICK h : Follows(fs, p, h)
    BY <2>2, FollowGoes
  <2>4. Len(p) <= Len(place)
    BY <1>2, <1>3, <2>2
  <2> QED
    BY <1>1, <1>4, <2>1, <2>2, <2>3, <2>4
<1>6. Resolved(fs, <<>>) = <<>>
  <2>1. 0 \in 0 .. n /\ Upto(place, 0) = <<>>
    BY <1>3, UptoIs
  <2>2. g[0] = <<>>
    BY <1>4 DEF Follows
  <2> QED
    BY <1>5, <2>1, <2>2
<1>7. ASSUME NEW k \in 1 .. n
      PROVE  Resolved(fs, Upto(place, k)) = Follow(fs, Resolved(fs, Upto(place, k - 1)), place[k])
  <2>1. k \in 0 .. n /\ k - 1 \in 0 .. n
    BY <1>3
  <2>2. g[k] = Follow(fs, g[k - 1], place[k])
    BY <1>2, <1>4 DEF Follows
  <2> QED
    BY <1>5, <2>1, <2>2
<1> QED
  BY <1>2, <1>6, <1>7

(* A place that is where it says is where it leads. *)
LEMMA RealStays ==
    ASSUME NEW fs, Tree(fs), NEW place, Real(fs, place)
    PROVE  \A k \in 0 .. Len(place) : Resolved(fs, Upto(place, k)) = Upto(place, k)
<1>1. PICK n : n = Len(place)
  OBVIOUS
<1>2. /\ place \in Seq(Names) /\ n \in Nat
      /\ \A k \in 1 .. n : Found(fs, Upto(place, k)).kind \notin {"none", "link"}
      /\ \A k \in 0 .. n - 1 : Found(fs, Upto(place, k)).kind = "dir"
  BY <1>1 DEF Real
<1> DEFINE T == {k \in Nat : k <= n => Resolved(fs, Upto(place, k)) = Upto(place, k)}
<1>3. 0 \in T
  BY <1>2, ResolvedStep, UptoIs
<1>4. ASSUME NEW k \in Nat, k \in T PROVE k + 1 \in T
  <2> SUFFICES ASSUME k + 1 <= n PROVE Resolved(fs, Upto(place, k + 1)) = Upto(place, k + 1)
    OBVIOUS
  <2>1. k + 1 \in 1 .. n /\ (k + 1) - 1 = k /\ k \in 0 .. n - 1 /\ k \in 0 .. n
    BY <1>2
  <2>2. PICK at, name, next : at = Upto(place, k) /\ name = place[k + 1] /\ next = Upto(place, k + 1)
    OBVIOUS
  <2>3. next = Append(at, name) /\ at \in Seq(Names)
    BY <1>1, <1>2, <2>1, <2>2, UptoAt, UptoNext
  <2>4. at # Nowhere
    <3>1. Nowhere \notin Seq(Names)
      BY NowhereIsNot DEF Tree
    <3> QED
      BY <2>3, <3>1
  <2>5. Found(fs, at).kind = "dir" /\ Found(fs, next).kind \notin {"none", "link"}
    BY <1>2, <2>1, <2>2
  <2>6. Follow(fs, at, name) = next
    <3>1. Enters(fs, at, name, next)
      BY <2>3, <2>4, <2>5 DEF Enters
    <3> QED
      BY <2>5, <3>1, FollowNext
  <2>7. Resolved(fs, at) = at
    BY <1>2, <1>4, <2>1, <2>2
  <2>8. Resolved(fs, Upto(place, k + 1)) = Follow(fs, Resolved(fs, Upto(place, k)), place[k + 1])
    BY <1>1, <1>2, <2>1, ResolvedStep
  <2> QED
    BY <2>2, <2>6, <2>7, <2>8
<1>5. Nat \subseteq T
  <2> HIDE DEF T
  <2> QED
    BY <1>3, <1>4, SetInduction
<1> QED
  BY <1>1, <1>5

(* A step from such a place leads to such a place, or nowhere. *)
LEMMA FollowReal ==
    ASSUME NEW fs, Tree(fs), NEW at, Real(fs, at), NEW name \in Names
    PROVE  Real(fs, Follow(fs, at, name)) \/ Follow(fs, at, name) = Nowhere
<1>1. PICK n : n = Len(at)
  OBVIOUS
<1>2. /\ at \in Seq(Names) /\ n \in Nat
      /\ \A k \in 1 .. n : Found(fs, Upto(at, k)).kind \notin {"none", "link"}
      /\ \A k \in 0 .. n - 1 : Found(fs, Upto(at, k)).kind = "dir"
  BY <1>1 DEF Real
<1>3. CASE at = Nowhere \/ Found(fs, at).kind # "dir"
  BY <1>3, FollowLost
<1>4. CASE at # Nowhere /\ Found(fs, at).kind = "dir"
  <2>1. PICK next : next = Append(at, name)
    OBVIOUS
  <2>0. Enters(fs, at, name, next)
    BY <1>4, <2>1 DEF Enters
  <2>2. CASE Found(fs, next).kind = "none"
    BY <2>0, <2>2, FollowNext
  <2>3. CASE Found(fs, next).kind = "link"
    <3>1. Follow(fs, at, name) = Found(fs, next).to
      BY <2>0, <2>3, FollowNext
    <3> QED
      BY <2>3, <3>1, LinkLeads
  <2>4. CASE Found(fs, next).kind \notin {"none", "link"}
    <3>1. Follow(fs, at, name) = next
      BY <2>0, <2>4, FollowNext
    <3>2. next \in Seq(Names) /\ Len(next) = n + 1 /\ next[n + 1] = name
          /\ \A i \in 1 .. n : next[i] = at[i]
      BY <1>1, <1>2, <2>1
    <3>3. ASSUME NEW k \in 0 .. n PROVE Upto(next, k) = Upto(at, k)
      <4>1. PICK p, q : p = Upto(next, k) /\ q = Upto(at, k)
        OBVIOUS
      <4>2. k \in 0 .. n + 1 /\ 1 .. k \subseteq 1 .. n
        BY <1>2
      <4>3. p \in Seq(Names) /\ Len(p) = k /\ \A i \in 1 .. k : p[i] = next[i]
        BY <3>2, <4>1, <4>2, UptoAt
      <4>4. q \in Seq(Names) /\ Len(q) = k /\ \A i \in 1 .. k : q[i] = at[i]
        BY <1>1, <1>2, <4>1, UptoAt
      <4>5. \A i \in 1 .. k : p[i] = q[i]
        BY <3>2, <4>2, <4>3, <4>4
      <4> QED
        BY <4>1, <4>3, <4>4, <4>5, SameSeq
    <3>4. Upto(next, n + 1) = next /\ Upto(at, n) = at
      BY <1>1, <1>2, <3>2, UptoIs
    <3>5. ASSUME NEW k \in 1 .. n + 1
          PROVE  Found(fs, Upto(next, k)).kind \notin {"none", "link"}
      <4>1. CASE k = n + 1
        BY <2>4, <3>4, <4>1
      <4>2. CASE k \in 1 .. n
        <5>1. k \in 0 .. n
          BY <4>2
        <5> QED
          BY <1>2, <3>3, <4>2, <5>1
      <4> QED
        BY <1>2, <4>1, <4>2
    <3>6. ASSUME NEW k \in 0 .. n PROVE Found(fs, Upto(next, k)).kind = "dir"
      <4>1. CASE k = n
        BY <1>4, <3>3, <3>4, <4>1
      <4>2. CASE k # n
        <5>1. k \in 0 .. n - 1
          BY <1>2, <4>2
        <5> QED
          BY <1>2, <3>3, <5>1
      <4> QED
        BY <4>1, <4>2
    <3>7. (n + 1) - 1 = n
      BY <1>2
    <3>8. Real(fs, next)
      BY <3>2, <3>5, <3>6, <3>7 DEF Real
    <3> QED
      BY <3>1, <3>8
  <2> QED
    BY <2>2, <2>3, <2>4
<1> QED
  BY <1>3, <1>4

(* Every path leads to such a place, or nowhere. *)
LEMMA LeadsToReal ==
    ASSUME NEW fs, Tree(fs), NEW place \in Seq(Names)
    PROVE  Real(fs, Resolved(fs, place)) \/ Resolved(fs, place) = Nowhere
<1>1. PICK n : n = Len(place)
  OBVIOUS
<1>2. n \in Nat /\ \A k \in 1 .. n : place[k] \in Names
  BY <1>1
<1> DEFINE end(k) == Resolved(fs, Upto(place, k))
           T == {k \in Nat : k <= n => Real(fs, end(k)) \/ end(k) = Nowhere}
<1>3. 0 \in T
  <2>1. Real(fs, <<>>)
    <3>1. PICK none : none = <<>>
      OBVIOUS
    <3>2. none \in Seq(Names) /\ Len(none) = 0
      BY <3>1
    <3>3. Real(fs, none)
      BY <3>2 DEF Real
    <3> QED
      BY <3>1, <3>3
  <2>2. end(0) = <<>>
    BY ResolvedStep, UptoIs
  <2> HIDE DEF end
  <2> QED
    BY <2>1, <2>2
<1>4. ASSUME NEW k \in Nat, k \in T PROVE k + 1 \in T
  <2> SUFFICES ASSUME k + 1 <= n PROVE Real(fs, end(k + 1)) \/ end(k + 1) = Nowhere
    OBVIOUS
  <2>1. k + 1 \in 1 .. n /\ (k + 1) - 1 = k /\ place[k + 1] \in Names
    BY <1>2
  <2>2. end(k + 1) = Follow(fs, end(k), place[k + 1])
    BY <1>1, <2>1, ResolvedStep
  <2>3. Real(fs, end(k)) \/ end(k) = Nowhere
    BY <1>2, <1>4
  <2> HIDE DEF end
  <2>4. CASE Real(fs, end(k))
    BY <2>1, <2>2, <2>4, FollowReal
  <2>5. CASE end(k) = Nowhere
    BY <2>2, <2>5, FollowLost
  <2> QED
    BY <2>3, <2>4, <2>5
<1>5. Nat \subseteq T
  <2> HIDE DEF T
  <2> QED
    BY <1>3, <1>4, SetInduction
<1>6. Real(fs, end(n)) \/ end(n) = Nowhere
  BY <1>2, <1>5
<1>7. end(n) = Resolved(fs, place)
  BY <1>1, UptoIs
<1> QED
  BY <1>6, <1>7

(* What has no link on its way is where it says, as far as it is there.    *)
LEMMA LinklessIsStraight ==
    ASSUME NEW fs, Tree(fs), NEW place \in Seq(Names),
           \A k \in 1 .. Len(place) : Found(fs, Upto(place, k)).kind # "link"
    PROVE  Straight(fs, place)
<1>1. PICK n : n = Len(place)
  OBVIOUS
<1>2. n \in Nat /\ \A k \in 1 .. n : place[k] \in Names
  BY <1>1
<1> DEFINE T == {k \in Nat : k <= n => Resolved(fs, Upto(place, k)) \in {Upto(place, k), Nowhere}}
<1>3. 0 \in T
  BY ResolvedStep, UptoIs
<1>4. ASSUME NEW k \in Nat, k \in T PROVE k + 1 \in T
  <2> SUFFICES ASSUME k + 1 <= n
               PROVE  Resolved(fs, Upto(place, k + 1)) \in {Upto(place, k + 1), Nowhere}
    OBVIOUS
  <2>1. k + 1 \in 1 .. n /\ (k + 1) - 1 = k
    BY <1>2
  <2>2. PICK at, name, next : at = Upto(place, k) /\ name = place[k + 1] /\ next = Upto(place, k + 1)
    OBVIOUS
  <2>3. next = Append(at, name)
    BY <1>1, <1>2, <2>1, <2>2, UptoNext
  <2>4. Resolved(fs, next) = Follow(fs, Resolved(fs, at), name)
    BY <1>1, <2>1, <2>2, ResolvedStep
  <2>5. Resolved(fs, at) \in {at, Nowhere}
    BY <1>2, <1>4, <2>2
  <2>6. Found(fs, next).kind # "link"
    BY <1>1, <2>1, <2>2
  <2>7. Follow(fs, Nowhere, name) = Nowhere
    BY FollowLost
  <2>8. Follow(fs, at, name) \in {next, Nowhere}
    <3>1. CASE at = Nowhere \/ Found(fs, at).kind # "dir"
      BY <3>1, FollowLost
    <3>2. CASE at # Nowhere /\ Found(fs, at).kind = "dir"
      <4>1. Enters(fs, at, name, next)
        BY <2>3, <3>2 DEF Enters
      <4>2. Found(fs, next).kind = "none" \/ Found(fs, next).kind \notin {"none", "link"}
        BY <2>6
      <4> QED
        BY <4>1, <4>2, FollowNext
    <3> QED
      BY <3>1, <3>2
  <2> QED
    BY <2>2, <2>4, <2>5, <2>7, <2>8
<1>5. Nat \subseteq T
  <2> HIDE DEF T
  <2> QED
    BY <1>3, <1>4, SetInduction
<1> QED
  BY <1>1, <1>5 DEF Straight, Upto

-----------------------------------------------------------------------------
(* Validating *)

(* A list keeps itself. *)
LEMMA AllKept ==
    ASSUME NEW S, NEW s \in Seq(S), NEW I, I = DOMAIN s
    PROVE  At(s, I) = s
<1>1. PICK n : n = Len(s)
  OBVIOUS
<1>2. n \in Nat /\ DOMAIN s = 1 .. n /\ I \subseteq 1 .. n /\ I = 1 .. n
  BY <1>1
<1>3. PICK t : t = [k \in 1 .. n |-> k]
  OBVIOUS
<1>4. t \in Seq(Nat) /\ Len(t) = n /\ Rising(t) /\ Range(t) = I
  <2>1. t \in Seq(Nat) /\ Len(t) = n /\ DOMAIN t = 1 .. n /\ \A k \in 1 .. n : t[k] = k
    BY <1>2, <1>3
  <2>2. Rising(t)
    BY <2>1 DEF Rising
  <2>3. Range(t) = 1 .. n
    BY <2>1 DEF Range
  <2> QED
    BY <1>2, <2>1, <2>2, <2>3
<1>5. At(s, I) = [k \in 1 .. n |-> s[t[k]]]
  BY <1>2, <1>4, KeptInOrder
<1>6. [k \in 1 .. n |-> s[t[k]]] = s
  BY <1>1, <1>2, <1>3
<1> QED
  BY <1>5, <1>6

LEMMA NoDots ==
    ASSUME NEW place \in Seq(Names)
    PROVE  /\ \A i \in DOMAIN place : place[i] # "." /\ place[i] # ".."
           /\ ".." \notin Range(place)
<1>1. \A i \in DOMAIN place : place[i] \in Names
  OBVIOUS
<1>2. \A i \in DOMAIN place : place[i] # "." /\ place[i] # ".."
  BY <1>1, FoldersAssumption
<1> QED
  BY <1>2 DEF Range

LEMMA NormalIsPlace ==
    ASSUME NEW path, path.names \in Seq(Names \cup {".", ".."}), path.absolute \in BOOLEAN,
           ".." \notin Range(path.names), NEW base \in Seq(Names)
    PROVE  Normal(path, base) \in Seq(Names)
<1>1. PICK names : names = path.names
  OBVIOUS
<1>2. PICK n : n = Len(names)
  OBVIOUS
<1>3. /\ n \in Nat /\ DOMAIN names = 1 .. n
      /\ \A i \in 1 .. n : names[i] \in Names \cup {".", ".."}
  BY <1>1, <1>2
<1> DEFINE I == {i \in 1 .. n : names[i] # "."}
<1>4. ASSUME NEW i \in I PROVE names[i] \in Names
  <2>1. names[i] # ".."
    BY <1>1, <1>3 DEF Range
  <2> QED
    BY <1>3, <2>1
<1>5. I \subseteq 1 .. n
  OBVIOUS
<1>6. Normal(path, base) = (IF path.absolute THEN <<>> ELSE base) \o At(names, I)
  BY <1>1, <1>3 DEF Normal
<1> HIDE DEF I
<1>7. PICK S, kept : S = {names[i] : i \in I} /\ kept = At(names, I)
  OBVIOUS
<1>8. kept \in Seq(S) /\ S \subseteq Names
  BY <1>3, <1>4, <1>5, <1>7, KeptOf
<1>9. kept \in Seq(Names)
  BY <1>8, SeqWithin
<1>10. Normal(path, base) = (IF path.absolute THEN <<>> ELSE base) \o kept
  BY <1>6, <1>7
<1>11. PICK front \in Seq(Names) : front = IF path.absolute THEN <<>> ELSE base
  BY EmptySeq
<1>12. front \o kept \in Seq(Names)
  BY <1>9
<1> QED
  BY <1>10, <1>11, <1>12

(* A path is refused, or it is accepted as one of these places. *)
Accepts(fs, base, place) ==
    /\ Below(place, base) /\ ~LinkBelow(fs, base, place) /\ ~Escapes(fs, base, place)

Leads(fs, place) == IF Resolved(fs, place) # Nowhere THEN Resolved(fs, place) ELSE place

LEMMA AcceptedIs ==
    ASSUME NEW fs, NEW path, NEW given, ValidatePath(fs, path, given).ok
    PROVE  LET base == Resolved(fs, given)
               place == Normal(path, base)
           IN  /\ base # Nowhere /\ ".." \notin Range(path.names)
               /\ Accepts(fs, base, place)
               /\ ValidatePath(fs, path, given) = Accept(Leads(fs, place))
BY DEF ValidatePath, Refused, Accept, Accepts, Leads

LEMMA AcceptedAgain ==
    ASSUME NEW fs, NEW given, Resolved(fs, given) # Nowhere, NEW place \in Seq(Names),
           Accepts(fs, Resolved(fs, given), place), Leads(fs, place) = place
    PROVE  ValidatePath(fs, [absolute |-> TRUE, names |-> place], given) = Accept(place)
<1>1. PICK path : path = [absolute |-> TRUE, names |-> place]
  OBVIOUS
<1>2. PICK base : base = Resolved(fs, given)
  OBVIOUS
<1>3. path.absolute = TRUE /\ path.names = place
  BY <1>1
<1>4. Normal(path, base) = place
  <2>1. PICK I : I = {i \in DOMAIN place : place[i] # "."}
    OBVIOUS
  <2>2. I = DOMAIN place
    BY <2>1, NoDots
  <2>3. At(place, I) = place
    BY <2>2, AllKept
  <2>4. Normal(path, base) = <<>> \o At(place, I)
    BY <1>3, <2>1 DEF Normal
  <2> QED
    BY <2>3, <2>4
<1>5. ".." \notin Range(place)
  BY NoDots
<1> QED
  BY <1>1, <1>2, <1>3, <1>4, <1>5 DEF ValidatePath, Accepts, Leads

LEMMA RealIsAccepted ==
    ASSUME NEW fs, Tree(fs), NEW base \in Seq(Names), NEW place, Real(fs, place),
           Below(place, base)
    PROVE  /\ Accepts(fs, base, place) /\ Leads(fs, place) = place
           /\ Straight(fs, place)
<1>1. PICK n : n = Len(place)
  OBVIOUS
<1>2. /\ place \in Seq(Names) /\ n \in Nat
      /\ \A k \in 1 .. n : Found(fs, Upto(place, k)).kind # "link"
  BY <1>1 DEF Real
<1>3. Straight(fs, place)
  BY <1>1, <1>2, LinklessIsStraight
<1>4. Resolved(fs, place) = place
  <2>1. n \in 0 .. n /\ Upto(place, n) = place
    BY <1>1, <1>2, UptoIs
  <2> QED
    BY <1>1, <2>1, RealStays
<1>5. place # Nowhere
  BY <1>2, NowhereIsNot DEF Tree
<1>6. ~LinkBelow(fs, base, place)
  <2>1. Len(base) \in Nat
    OBVIOUS
  <2>2. \A k \in Len(base) + 1 .. n : k \in 1 .. n
    BY <1>2, <2>1
  <2> QED
    BY <1>1, <1>2, <2>2 DEF LinkBelow, Upto
<1> QED
  BY <1>3, <1>4, <1>5, <1>6 DEF Accepts, Escapes, Leads

LEMMA ValidatedIsStraight ==
    ASSUME NEW fs, Tree(fs), NEW path, path.names \in Seq(Names \cup {".", ".."}),
           path.absolute \in BOOLEAN, NEW given \in Seq(Names),
           ValidatePath(fs, path, given).ok
    PROVE  LET valid == ValidatePath(fs, path, given) IN
           /\ Below(valid.place, Resolved(fs, given))
           /\ Straight(fs, valid.place)
           /\ ValidatePath(fs, [absolute |-> TRUE, names |-> valid.place], given) = valid
<1>1. PICK base : base = Resolved(fs, given)
  OBVIOUS
<1>2. PICK place : place = Normal(path, base)
  OBVIOUS
<1>3. PICK valid : valid = ValidatePath(fs, path, given)
  OBVIOUS
<1>4. /\ base # Nowhere /\ ".." \notin Range(path.names)
      /\ Accepts(fs, base, place) /\ valid = Accept(Leads(fs, place))
  BY <1>1, <1>2, <1>3, AcceptedIs
<1>5. Real(fs, base) /\ base \in Seq(Names)
  BY <1>1, <1>4, LeadsToReal DEF Real
<1>6. place \in Seq(Names)
  BY <1>2, <1>4, <1>5, NormalIsPlace
<1>7. \A p : Accept(p).place = p
  BY DEF Accept
<1>8. CASE Resolved(fs, place) # Nowhere
  <2>1. PICK end : end = Resolved(fs, place)
    OBVIOUS
  <2>2. Real(fs, end) /\ end \in Seq(Names)
    BY <1>6, <1>8, <2>1, LeadsToReal DEF Real
  <2>3. Below(end, base)
    BY <1>4, <1>8, <2>1 DEF Accepts, Escapes
  <2>4. valid = Accept(end) /\ valid.place = end
    BY <1>4, <1>7, <1>8, <2>1 DEF Leads
  <2>5. Accepts(fs, base, end) /\ Leads(fs, end) = end /\ Straight(fs, end)
    BY <1>5, <2>2, <2>3, RealIsAccepted
  <2>6. ValidatePath(fs, [absolute |-> TRUE, names |-> end], given) = Accept(end)
    BY <1>1, <1>4, <2>2, <2>5, AcceptedAgain
  <2> QED
    BY <1>1, <1>3, <2>3, <2>4, <2>5, <2>6
<1>9. CASE Resolved(fs, place) = Nowhere
  <2>1. Leads(fs, place) = place /\ valid = Accept(place) /\ valid.place = place
    BY <1>4, <1>7, <1>9 DEF Leads
  <2>2. Below(place, base)
    BY <1>4 DEF Accepts
  <2>3. ASSUME NEW k \in 1 .. Len(place) PROVE Found(fs, Upto(place, k)).kind # "link"
    <3>1. PICK b : b = Len(base)
      OBVIOUS
    <3>2. b \in Nat /\ b <= Len(place) /\ Upto(base, b) = Upto(place, b) /\ Len(place) \in Nat
      BY <1>5, <1>6, <2>2, <3>1 DEF Below, IsPrefix, Upto
    <3>3. CASE k \in b + 1 .. Len(place)
      BY <1>4, <3>1, <3>3 DEF Accepts, LinkBelow, Upto
    <3>4. CASE k <= b
      <4>1. k \in 1 .. b /\ k \in 0 .. b /\ b \in 0 .. Len(place) /\ b \in 0 .. Len(base)
        BY <3>1, <3>2, <3>4
      <4>2. Upto(Upto(base, b), k) = Upto(base, k)
        BY <1>5, <4>1, UptoIs
      <4>3. Upto(Upto(place, b), k) = Upto(place, k)
        BY <1>6, <4>1, UptoIs
      <4>4. Found(fs, Upto(base, k)).kind # "link"
        BY <1>5, <3>1, <4>1 DEF Real
      <4> QED
        BY <3>2, <4>2, <4>3, <4>4
    <3> QED
      BY <3>2, <3>3, <3>4
  <2>4. Straight(fs, place)
    BY <1>6, <2>3, LinklessIsStraight
  <2>5. ValidatePath(fs, [absolute |-> TRUE, names |-> place], given) = Accept(place)
    BY <1>1, <1>4, <1>6, <2>1, AcceptedAgain
  <2> QED
    BY <1>1, <1>3, <2>1, <2>2, <2>4, <2>5
<1> QED
  BY <1>8, <1>9

-----------------------------------------------------------------------------
(* Searching *)

LEMMA CutIs ==
    ASSUME NEW S, NEW s \in Seq(S), NEW limit \in Nat
    PROVE  /\ Cut(s, limit) \in Seq(S) /\ Len(Cut(s, limit)) <= limit
           /\ Range(Cut(s, limit)) \subseteq Range(s)
           /\ EachOnce(s) => EachOnce(Cut(s, limit))
           /\ Len(s) <= limit => Cut(s, limit) = s
<1>1. PICK n : n = Len(s)
  OBVIOUS
<1>2. PICK m \in Nat : m = IF n < limit THEN n ELSE limit
  <2>1. n \in Nat
    BY <1>1
  <2> QED
    BY <2>1
<1>3. n \in Nat /\ m <= n /\ m <= limit /\ (n <= limit => m = n) /\ m \in 0 .. n
  BY <1>1, <1>2
<1>4. PICK c : c = Cut(s, limit)
  OBVIOUS
<1>5. c = Upto(s, m)
  BY <1>1, <1>2, <1>4 DEF Cut, Upto
<1>6. c \in Seq(S) /\ Len(c) = m /\ \A i \in 1 .. m : c[i] = s[i]
  BY <1>1, <1>3, <1>5, UptoAt
<1>7. DOMAIN c = 1 .. m /\ DOMAIN s = 1 .. n /\ 1 .. m \subseteq 1 .. n
  BY <1>1, <1>3, <1>6
<1>8. Range(c) \subseteq Range(s)
  BY <1>6, <1>7 DEF Range
<1>9. EachOnce(s) => EachOnce(c)
  BY <1>6, <1>7 DEF EachOnce
<1>10. n <= limit => c = s
  BY <1>1, <1>3, <1>5, UptoIs
<1> QED
  BY <1>1, <1>3, <1>4, <1>6, <1>8, <1>9, <1>10

(* A list with each element once is no longer than there are elements, and *)
(* if it is as long it has them all.                                       *)
LEMMA OnceFits ==
    ASSUME NEW S, IsFiniteSet(S), NEW s \in Seq(S), EachOnce(s)
    PROVE  /\ Cardinality(S) \in Nat /\ Len(s) <= Cardinality(S)
           /\ Len(s) = Cardinality(S) => \A x \in S : x \in Range(s)
<1>1. PICK n : n = Len(s)
  OBVIOUS
<1>2. n \in Nat /\ DOMAIN s = 1 .. n /\ s \in [1 .. n -> S]
  BY <1>1
<1>3. IsFiniteSet(1 .. n) /\ Cardinality(1 .. n) = n
  BY <1>2, FS_Interval
<1>4. s \in Injection(1 .. n, S)
  BY <1>2 DEF Injection, IsInjective, EachOnce
<1>5. n <= Cardinality(S) /\ (n = Cardinality(S) => s \in Surjection(1 .. n, S))
  BY <1>3, <1>4, FS_Injection
<1>6. s \in Surjection(1 .. n, S) => \A x \in S : x \in Range(s)
  BY <1>2 DEF Surjection, Range
<1>7. Cardinality(S) \in Nat
  BY FS_CardinalityType
<1> QED
  BY <1>1, <1>5, <1>6, <1>7

(* t has the elements of s in another order, by their scores.              *)
ByRank(s, t, order) ==
    /\ DOMAIN t = 1 .. Len(s) /\ Len(t) = Len(s)
    /\ order \in [1 .. Len(s) -> 1 .. Len(s)] /\ EachOnce(order)
    /\ \A i \in 1 .. Len(s) : \E k \in 1 .. Len(s) : order[k] = i
    /\ \A k \in 1 .. Len(s) : t[k] = s[order[k]]
    /\ \A k, l \in 1 .. Len(s) : k < l => t[l].score <= t[k].score

Before(s, i, j) == s[i].score > s[j].score \/ (s[i].score = s[j].score /\ i < j)

LEMMA ByScoreRanks ==
    ASSUME NEW R, \A r \in R : r.score \in Int, NEW s \in Seq(R)
    PROVE  ByScore(s) \in Seq(R) /\ \E order : ByRank(s, ByScore(s), order)
<1>1. PICK n, D : n = Len(s) /\ D = 1 .. n
  OBVIOUS
<1>2. /\ n \in Nat /\ DOMAIN s = D /\ D \subseteq Int
      /\ \A i \in D : s[i] \in R /\ s[i].score \in Int
  BY <1>1
<1>3. IsFiniteSet(D) /\ Cardinality(D) = n
  <2>1. IsFiniteSet(1 .. n) /\ Cardinality(1 .. n) = n
    BY <1>2, FS_Interval
  <2> QED
    BY <1>1, <2>1
<1> DEFINE rel == {pair \in D \X D : Before(s, pair[1], pair[2])}
           before(x) == {y \in D : Before(s, y, x)}
<1>4. \A i, j \in D : <<i, j>> \in rel <=> Before(s, i, j)
  OBVIOUS
<1> HIDE DEF rel
<1>5. Orders(D, rel)
  <2>1. \A i \in D : ~Before(s, i, i)
    BY <1>2 DEF Before
  <2>2. \A i, j, k \in D : Before(s, i, j) /\ Before(s, j, k) => Before(s, i, k)
    BY <1>2 DEF Before
  <2>3. \A i, j \in D : i = j \/ Before(s, i, j) \/ Before(s, j, i)
    BY <1>2 DEF Before
  <2> QED
    BY <1>4, <2>1, <2>2, <2>3 DEF Orders
<1>6. ASSUME NEW x \in D PROVE Earlier(D, rel, x) = before(x)
  BY <1>4 DEF Earlier
<1>7. /\ \A x \in D : Cardinality(before(x)) \in 0 .. n - 1
      /\ \A x, y \in D : Before(s, x, y) => Cardinality(before(x)) < Cardinality(before(y))
      /\ \A k \in 0 .. n - 1 : \E x \in D : Cardinality(before(x)) = k
  <2>1. /\ \A x \in D : Cardinality(Earlier(D, rel, x)) \in 0 .. n - 1
        /\ \A x, y \in D : <<x, y>> \in rel =>
               Cardinality(Earlier(D, rel, x)) < Cardinality(Earlier(D, rel, y))
        /\ \A k \in 0 .. n - 1 : \E x \in D : Cardinality(Earlier(D, rel, x)) = k
    BY <1>3, <1>5, Ranks
  <2> HIDE DEF before
  <2> QED
    BY <1>4, <1>6, <2>1
<1>8. PICK order : order = [k \in 1 .. n |-> CHOOSE x \in D : Cardinality(before(x)) = k - 1]
  OBVIOUS
<1>9. PICK t : t = ByScore(s)
  OBVIOUS
<1>10. t = [k \in D |-> s[order[k]]]
  <2> DEFINE o == [k \in 1 .. Cardinality(D) |->
                      CHOOSE x \in D : Cardinality({y \in D : Before(s, y, x)}) = k - 1]
  <2>1. t = [k \in D |-> s[o[k]]]
    BY <1>2, <1>9 DEF ByScore, Ordered, Before
  <2>2. o = order
    BY <1>3, <1>8
  <2> HIDE DEF o
  <2> QED
    BY <2>1, <2>2
<1>11. ASSUME NEW k \in D PROVE order[k] \in D /\ Cardinality(before(order[k])) = k - 1
  <2>1. order[k] = CHOOSE x \in D : Cardinality(before(x)) = k - 1
    BY <1>1, <1>8
  <2>2. \E x \in D : Cardinality(before(x)) = k - 1
    <3>1. k - 1 \in 0 .. n - 1
      BY <1>1, <1>2
    <3> HIDE DEF before
    <3> QED
      BY <1>7, <3>1
  <2> HIDE DEF before
  <2> QED
    BY <2>1, <2>2
<1>12. order \in [D -> D]
  BY <1>1, <1>8, <1>11
<1> HIDE DEF before
<1>13. EachOnce(order)
  <2> SUFFICES ASSUME NEW k \in D, NEW l \in D, order[k] = order[l] PROVE k = l
    BY <1>12 DEF EachOnce
  <2>1. k - 1 = l - 1
    BY <1>11
  <2> QED
    BY <1>2, <2>1
<1>14. ASSUME NEW i \in D PROVE \E k \in D : order[k] = i
  <2>1. PICK k : k = Cardinality(before(i)) + 1
    OBVIOUS
  <2>2. k \in D /\ k - 1 = Cardinality(before(i))
    BY <1>1, <1>2, <1>7, <2>1
  <2>3. order[k] \in D /\ Cardinality(before(order[k])) = Cardinality(before(i))
    BY <1>11, <2>2
  <2>4. ~Before(s, order[k], i) /\ ~Before(s, i, order[k])
    <3>1. Cardinality(before(i)) \in Int
      BY <1>7
    <3> QED
      BY <1>7, <2>3, <3>1
  <2>5. order[k] = i
    BY <1>2, <2>3, <2>4 DEF Before
  <2> QED
    BY <2>2, <2>5
<1>15. ASSUME NEW k \in D, NEW l \in D, k < l PROVE t[l].score <= t[k].score
  <2>1. order[k] \in D /\ order[l] \in D /\ t[k] = s[order[k]] /\ t[l] = s[order[l]]
    BY <1>10, <1>11
  <2>2. ~Before(s, order[l], order[k])
    <3> SUFFICES ASSUME Before(s, order[l], order[k]) PROVE FALSE
      OBVIOUS
    <3>1. Cardinality(before(order[l])) < Cardinality(before(order[k]))
      BY <1>7, <2>1
    <3>2. l - 1 < k - 1
      BY <1>11, <3>1
    <3> QED
      BY <1>2, <1>15, <3>2
  <2> QED
    BY <1>2, <2>1, <2>2 DEF Before
<1>16. t \in Seq(R) /\ Len(t) = n /\ DOMAIN t = D /\ \A k \in D : t[k] = s[order[k]]
  <2>1. t \in [D -> R]
    BY <1>2, <1>10, <1>11
  <2> QED
    BY <1>1, <1>2, <1>10, <2>1
<1>17. ByRank(s, t, order)
  BY <1>1, <1>12, <1>13, <1>14, <1>15, <1>16 DEF ByRank
<1> QED
  BY <1>9, <1>16, <1>17

(* The rows that count, by their scores: each once.                        *)
RowsOf(rows, known) == {i \in 1 .. Len(rows) : rows[i].fits /\ rows[i].file \in known}

From(rows, known, scored, source) ==
    /\ DOMAIN scored = 1 .. Len(scored) /\ Len(scored) \in Nat /\ Len(scored) <= Len(rows)
    /\ source \in [1 .. Len(scored) -> RowsOf(rows, known)] /\ EachOnce(source)
    /\ \A k \in 1 .. Len(scored) : scored[k] = rows[source[k]]
    /\ \A k, l \in 1 .. Len(scored) : k < l => scored[l].score <= scored[k].score

LEMMA ScoredRanks ==
    ASSUME NEW R, \A r \in R : r.score \in Int, NEW rows \in Seq(R), NEW known
    PROVE  Scored(rows, known) \in Seq(R) /\ \E source : From(rows, known, Scored(rows, known), source)
<1>1. PICK J, o, kept, t : /\ J = RowsOf(rows, known) /\ o = Sorted(J)
                           /\ kept = At(rows, J) /\ t = Scored(rows, known)
  OBVIOUS
<1>2. PICK n : n = Len(rows)
  OBVIOUS
<1>3. n \in Nat /\ J \subseteq 1 .. n /\ DOMAIN rows = 1 .. n /\ \A i \in 1 .. n : rows[i] \in R
  BY <1>1, <1>2 DEF RowsOf
<1>4. /\ o \in Seq(J) /\ EachOnce(o) /\ Range(o) = J /\ Len(o) = Cardinality(J)
      /\ Cardinality(J) <= n
  BY <1>1, <1>3, Kept, KeptOf
<1>5. PICK m : m = Len(o)
  OBVIOUS
<1>6. m \in Nat /\ m <= n /\ DOMAIN o = 1 .. m /\ \A k \in 1 .. m : o[k] \in J
  BY <1>4, <1>5
<1>7. kept = [k \in 1 .. m |-> rows[o[k]]]
  <2>1. kept = [k \in DOMAIN o |-> rows[o[k]]]
    BY <1>1 DEF At, Sorted
  <2> QED
    BY <1>6, <2>1
<1>8. kept \in Seq(R) /\ Len(kept) = m /\ \A k \in 1 .. m : kept[k] = rows[o[k]]
  <2>1. kept \in [1 .. m -> R]
    BY <1>3, <1>6, <1>7
  <2> QED
    BY <1>6, <1>7, <2>1
<1>9. t = ByScore(kept)
  <2>1. {i \in DOMAIN rows : rows[i].fits /\ rows[i].file \in known} = J
    BY <1>1, <1>2, <1>3 DEF RowsOf
  <2> QED
    BY <1>1, <2>1 DEF Scored
<1>10. t \in Seq(R) /\ \E order : ByRank(kept, t, order)
  BY <1>8, <1>9, ByScoreRanks
<1>11. PICK order : ByRank(kept, t, order)
  BY <1>10
<1>12. /\ DOMAIN t = 1 .. m /\ Len(t) = m
       /\ order \in [1 .. m -> 1 .. m] /\ EachOnce(order)
       /\ \A k \in 1 .. m : t[k] = kept[order[k]]
       /\ \A k, l \in 1 .. m : k < l => t[l].score <= t[k].score
  BY <1>8, <1>11 DEF ByRank
<1>13. PICK source : source = [k \in 1 .. m |-> o[order[k]]]
  OBVIOUS
<1>14. /\ source \in [1 .. m -> J]
       /\ \A k \in 1 .. m : order[k] \in 1 .. m /\ source[k] = o[order[k]] /\ t[k] = rows[source[k]]
  BY <1>6, <1>8, <1>12, <1>13
<1>15. EachOnce(source)
  <2> SUFFICES ASSUME NEW k \in 1 .. m, NEW l \in 1 .. m, source[k] = source[l] PROVE k = l
    BY <1>14 DEF EachOnce
  <2>1. order[k] = order[l]
    BY <1>4, <1>6, <1>14 DEF EachOnce
  <2> QED
    BY <1>12, <2>1 DEF EachOnce
<1>16. From(rows, known, t, source)
  BY <1>1, <1>2, <1>6, <1>12, <1>14, <1>15 DEF From
<1> QED
  BY <1>1, <1>10, <1>16

LEMMA FilesOfRows ==
    ASSUME NEW R, NEW s \in Seq(R), NEW F, \A i \in 1 .. Len(s) : s[i].file \in F
    PROVE  /\ Files(s) \in Seq(F) /\ Len(Files(s)) = Len(s) /\ DOMAIN Files(s) = 1 .. Len(s)
           /\ \A i \in 1 .. Len(s) : Files(s)[i] = s[i].file
BY DEF Files

LEMMA ScoredOnce ==
    ASSUME NEW R, \A r \in R : r.score \in Int, NEW rows \in Seq(R), NEW known
    PROVE  /\ Files(Scored(rows, known)) \in Seq(known)
           /\ Len(Files(Scored(rows, known))) = Len(Scored(rows, known))
           /\ Len(Scored(rows, known)) <= Len(rows)
           /\ EachOnce(Files(rows)) => EachOnce(Files(Scored(rows, known)))
<1>1. PICK s : s = Scored(rows, known)
  OBVIOUS
<1>2. s \in Seq(R) /\ \E source : From(rows, known, s, source)
  BY <1>1, ScoredRanks
<1>3. PICK source : From(rows, known, s, source)
  BY <1>2
<1>4. PICK m : m = Len(s)
  OBVIOUS
<1>5. /\ DOMAIN s = 1 .. m /\ m \in Nat /\ m <= Len(rows) /\ EachOnce(source)
      /\ DOMAIN source = 1 .. m
      /\ \A k \in 1 .. m : source[k] \in 1 .. Len(rows) /\ s[k] = rows[source[k]] /\ s[k].file \in known
  BY <1>3, <1>4 DEF From, RowsOf
<1>6. /\ Files(s) \in Seq(known) /\ Len(Files(s)) = m /\ DOMAIN Files(s) = 1 .. m
      /\ \A k \in 1 .. m : Files(s)[k] = s[k].file
  BY <1>2, <1>4, <1>5, FilesOfRows
<1>7. ASSUME EachOnce(Files(rows)) PROVE EachOnce(Files(s))
  <2>1. DOMAIN Files(rows) = 1 .. Len(rows) /\ \A i \in 1 .. Len(rows) : Files(rows)[i] = rows[i].file
    BY DEF Files
  <2> SUFFICES ASSUME NEW k \in 1 .. m, NEW l \in 1 .. m, Files(s)[k] = Files(s)[l] PROVE k = l
    BY <1>6 DEF EachOnce
  <2>2. rows[source[k]].file = rows[source[l]].file
    BY <1>5, <1>6
  <2>3. source[k] = source[l]
    BY <1>5, <1>7, <2>1, <2>2 DEF EachOnce
  <2> QED
    BY <1>5, <2>3 DEF EachOnce
<1> QED
  BY <1>1, <1>4, <1>5, <1>6, <1>7

Added(all, limit) == FoldLeft(LAMBDA out, f : Add(out, f, limit), <<>>, all)

Adds(S, all, limit, g) ==
    /\ g \in [0 .. Len(all) -> Seq(S)]
    /\ g[0] = <<>> /\ g[Len(all)] = Added(all, limit)
    /\ \A k \in 1 .. Len(all) : g[k] = Add(g[k - 1], all[k], limit)

LEMMA AddGoes ==
    ASSUME NEW S, NEW all \in Seq(S), NEW limit
    PROVE  \E g : Adds(S, all, limit, g)
<1>0. PICK n, R, none : n = Len(all) /\ R = Seq(S) /\ none = <<>>
  OBVIOUS
<1> DEFINE body(f) == [s \in SUBSET DOMAIN all |->
                          IF s = {} THEN <<>>
                          ELSE Add(f[s \ {Max(s)}], all[Max(s)], limit)]
           goes == CHOOSE f : f = body(f)
<1>1. n \in Nat /\ DOMAIN all = 1 .. n
  BY <1>0
<1>2. Added(all, limit) = goes[DOMAIN all]
  BY DEF Added, FoldLeft, MapThenFoldSet
<1>3. PICK step : step = [k \in 1 .. n |-> [r \in R |-> Add(r, all[k], limit)]]
  OBVIOUS
<1>4. step \in Steps(n, R) /\ none \in R
  <2>1. none \in R
    BY <1>0, EmptySeq
  <2>2. ASSUME NEW k \in 1 .. n, NEW r \in R PROVE Add(r, all[k], limit) \in R
    BY <1>0, <1>1 DEF Add
  <2> QED
    BY <1>3, <2>1, <2>2 DEF Steps
<1>5. \A k \in 1 .. n : \A r \in R : step[k][r] = Add(r, all[k], limit)
  BY <1>3
<1>6. n \in Nat
  BY <1>1
<1>7. PICK f : IsFold(step, none, n, R, f)
  BY <1>4, <1>6, FoldExists
<1>8. ASSUME NEW s \in Parts(n), s # {}
      PROVE  Max(s) \in 1 .. n /\ s \ {Max(s)} \in Parts(n)
  BY <1>1, <1>8, GreatestOf DEF Parts
<1>9. f = body(f)
  <2>1. ASSUME NEW s \in Parts(n) PROVE f[s] = body(f)[s]
    <3>1. f[s] = Step(step, none, f, s)
      BY <1>7 DEF IsFold
    <3>2. CASE s = {}
      BY <1>0, <1>1, <3>1, <3>2 DEF Step, Parts
    <3>3. CASE s # {}
      <4>1. Max(s) \in 1 .. n /\ s \ {Max(s)} \in Parts(n)
        BY <1>8, <3>3
      <4>2. f[s \ {Max(s)}] \in R
        BY <1>7, <4>1 DEF IsFold
      <4>3. f[s] = Add(f[s \ {Max(s)}], all[Max(s)], limit)
        BY <1>5, <3>1, <3>3, <4>1, <4>2 DEF Step
      <4> QED
        BY <1>1, <3>3, <4>3 DEF Parts
    <3> QED
      BY <3>2, <3>3
  <2> QED
    BY <1>1, <1>7, <2>1 DEF IsFold, Parts
<1>10. goes = body(goes)
  <2> HIDE DEF body
  <2> QED
    BY <1>9
<1>11. /\ goes[{}] = none
       /\ \A s \in Parts(n) :
              s # {} => goes[s] = Add(goes[s \ {Max(s)}], all[Max(s)], limit)
  BY <1>0, <1>1, <1>10 DEF Parts
<1> HIDE DEF goes
<1>12. Folds(step, none, n, R, goes)
  BY <1>5, <1>8, <1>11 DEF Folds
<1>13. PICK g : Goes(step, none, n, R, goes, g)
  BY <1>4, <1>6, <1>12, FoldGoes
<1>14. ASSUME NEW k \in 1 .. n PROVE g[k] = Add(g[k - 1], all[k], limit)
  <2>1. k - 1 \in 0 .. n
    BY <1>1
  <2> QED
    BY <1>5, <1>13, <2>1 DEF Goes
<1> QED
  BY <1>0, <1>1, <1>2, <1>13, <1>14 DEF Goes, Adds


(* What is merged is there once; if there is room for all that is known,   *)
(* none is left out.                                                       *)
LEMMA AddedOnce ==
    ASSUME NEW known, IsFiniteSet(known), NEW all \in Seq(known), NEW limit \in Nat
    PROVE  /\ Added(all, limit) \in Seq(known) /\ EachOnce(Added(all, limit))
           /\ Len(Added(all, limit)) <= limit
           /\ Cardinality(known) <= limit =>
                  \A i \in 1 .. Len(all) : all[i] \in Range(Added(all, limit))
<1>1. PICK n : n = Len(all)
  OBVIOUS
<1>2. n \in Nat /\ \A i \in 1 .. n : all[i] \in known
  BY <1>1
<1>3. PICK g : Adds(known, all, limit, g)
  BY AddGoes
<1>4. /\ g[0] = <<>> /\ g[n] = Added(all, limit)
      /\ \A k \in 1 .. n : g[k] = Add(g[k - 1], all[k], limit)
  BY <1>1, <1>3 DEF Adds
<1> DEFINE Good(k) == /\ g[k] \in Seq(known) /\ EachOnce(g[k]) /\ Len(g[k]) <= limit
                      /\ Cardinality(known) <= limit => \A i \in 1 .. k : all[i] \in Range(g[k])
           T == {k \in Nat : k <= n => Good(k)}
<1>5. 0 \in T
  <2>1. PICK none : none = <<>>
    OBVIOUS
  <2>2. none \in Seq(known) /\ EachOnce(none) /\ Len(none) <= limit
    BY <2>1 DEF EachOnce
  <2>3. g[0] = none
    BY <1>4, <2>1
  <2> QED
    BY <2>2, <2>3
<1>6. ASSUME NEW k \in Nat, k \in T PROVE k + 1 \in T
  <2> SUFFICES ASSUME k + 1 <= n PROVE Good(k + 1)
    OBVIOUS
  <2>1. k + 1 \in 1 .. n /\ (k + 1) - 1 = k /\ Good(k)
    BY <1>2, <1>6
  <2>2. PICK f, out, next : f = all[k + 1] /\ out = g[k] /\ next = g[k + 1]
    OBVIOUS
  <2>3. next = Add(out, f, limit) /\ f \in known
    BY <1>2, <1>4, <2>1, <2>2
  <2>4. /\ out \in Seq(known) /\ EachOnce(out) /\ Len(out) <= limit /\ Len(out) \in Nat
        /\ DOMAIN out = 1 .. Len(out)
        /\ Cardinality(known) <= limit => \A i \in 1 .. k : all[i] \in Range(out)
    BY <2>1, <2>2
  <2>5. \A i \in 1 .. k + 1 : i \in 1 .. k \/ i = k + 1
    OBVIOUS
  <2>6. CASE Len(out) >= limit \/ f \in Range(out)
    <3>1. next = out
      BY <2>3, <2>6 DEF Add
    <3>2. Cardinality(known) <= limit => f \in Range(out)
      <4>1. Len(out) >= limit /\ Cardinality(known) <= limit => Len(out) = Cardinality(known)
        <5>1. Cardinality(known) \in Nat /\ Len(out) <= Cardinality(known)
          BY <2>4, OnceFits
        <5> QED
          BY <2>4, <5>1
      <4>2. Len(out) = Cardinality(known) => f \in Range(out)
        BY <2>3, <2>4, OnceFits
      <4> QED
        BY <2>6, <4>1, <4>2
    <3> QED
      BY <2>2, <2>4, <2>5, <3>1, <3>2
  <2>7. CASE ~(Len(out) >= limit \/ f \in Range(out))
    <3>1. next = Append(out, f)
      BY <2>3, <2>7 DEF Add
    <3>2. /\ next \in Seq(known) /\ Len(next) = Len(out) + 1 /\ next[Len(out) + 1] = f
          /\ DOMAIN next = 1 .. Len(out) + 1 /\ \A i \in 1 .. Len(out) : next[i] = out[i]
      BY <2>3, <2>4, <3>1
    <3>3. Len(next) <= limit
      BY <2>4, <2>7, <3>2
    <3>4. \A i \in 1 .. Len(out) + 1 : i \in 1 .. Len(out) \/ i = Len(out) + 1
      BY <2>4
    <3>5. \A i \in 1 .. Len(out) : out[i] # f
      BY <2>4, <2>7 DEF Range
    <3>6. EachOnce(next)
      BY <2>4, <3>2, <3>4, <3>5 DEF EachOnce
    <3>7. Range(out) \subseteq Range(next)
      <4>1. \A i \in 1 .. Len(out) : i \in 1 .. Len(out) + 1
        BY <2>4
      <4> QED
        BY <2>4, <3>2, <4>1 DEF Range
    <3>8. f \in Range(next)
      <4>1. Len(out) + 1 \in DOMAIN next
        BY <2>4, <3>2
      <4> QED
        BY <3>2, <4>1 DEF Range
    <3> QED
      BY <2>2, <2>4, <2>5, <3>2, <3>3, <3>6, <3>7, <3>8
  <2> QED
    BY <2>6, <2>7
<1> HIDE DEF Good
<1>7. Nat \subseteq T
  <2> HIDE DEF T
  <2> QED
    BY <1>5, <1>6, SetInduction
<1>8. Good(n)
  BY <1>2, <1>7
<1> QED
  BY <1>1, <1>4, <1>8 DEF Good

(* The score of a file is that of its best row. *)
LEMMA ScoreOfIs ==
    ASSUME NEW R, \A r \in R : r.score \in Int, NEW scored \in Seq(R), NEW f,
           \A k, l \in 1 .. Len(scored) : k < l => scored[l].score <= scored[k].score
    PROVE  /\ ScoreOf(scored, f).file = f /\ ScoreOf(scored, f).score \in Int
           /\ \A i \in 1 .. Len(scored) :
                  scored[i].file = f => scored[i].score <= ScoreOf(scored, f).score
<1>1. PICK n, r : n = Len(scored) /\ r = ScoreOf(scored, f)
  OBVIOUS
<1>2. /\ n \in Nat /\ \A i \in 1 .. n : scored[i].score \in Int
      /\ \A k, l \in 1 .. n : k < l => scored[l].score <= scored[k].score
  BY <1>1
<1> DEFINE I == {i \in 1 .. n : scored[i].file = f}
           first == IF I # {} THEN Min(I) ELSE 0
<1>3. r = [file |-> f, score |-> IF first = 0 THEN 0 ELSE scored[first].score]
  BY <1>1 DEF ScoreOf, SelectInSeq
<1>4. I \subseteq 1 .. n /\ I \subseteq Nat
  OBVIOUS
<1>5. \A i \in 1 .. n : scored[i].file = f => i \in I
  OBVIOUS
<1> HIDE DEF I
<1>6. CASE I = {}
  <2>1. r.file = f /\ r.score = 0
    BY <1>3, <1>6
  <2> QED
    BY <1>1, <1>5, <1>6, <2>1
<1>7. CASE I # {}
  <2>1. Min(I) \in I /\ \A i \in I : Min(I) <= i
    <3>1. \E m \in I : \A i \in I : m <= i
      BY <1>4, <1>7, LeastOf
    <3> QED
      BY <3>1 DEF Min
  <2>2. PICK m : m = Min(I)
    OBVIOUS
  <2>3. m \in 1 .. n /\ m # 0 /\ \A i \in I : m <= i
    <3>1. m \in I /\ \A i \in I : m <= i
      BY <2>1, <2>2
    <3>2. m \in 1 .. n
      BY <1>4, <3>1
    <3> QED
      BY <1>2, <3>1, <3>2
  <2>4. r.file = f /\ r.score = scored[m].score
    BY <1>3, <1>7, <2>2, <2>3
  <2>5. ASSUME NEW i \in 1 .. n, scored[i].file = f PROVE scored[i].score <= scored[m].score
    <3>1. m = i \/ m < i
      BY <1>5, <2>3, <2>5
    <3> QED
      BY <1>2, <2>3, <3>1
  <2> QED
    BY <1>1, <1>2, <2>3, <2>4, <2>5
<1> QED
  BY <1>6, <1>7

(* What search_files finds. *)
LEMMA FilesFound ==
    ASSUME NEW known, known \subseteq Nat, IsFiniteSet(known), NEW q, NEW limit \in Nat
    PROVE  /\ SearchFiles(q, known, limit) \in Seq(known) /\ EachOnce(SearchFiles(q, known, limit))
           /\ Len(SearchFiles(q, known, limit)) <= limit
           /\ Cardinality(known) <= limit =>
                  Range(SearchFiles(q, known, limit)) = Matching(q, known)
<1>1. PICK M, o, s : M = Matching(q, known) /\ o = Sorted(M) /\ s = SearchFiles(q, known, limit)
  OBVIOUS
<1>2. M \subseteq known /\ M \in SUBSET known
  BY <1>1 DEF Matching
<1>3. M \subseteq Nat /\ IsFiniteSet(M) /\ Cardinality(M) <= Cardinality(known)
  BY <1>2, FS_Subset
<1>4. o \in Seq(M) /\ EachOnce(o) /\ Range(o) = M /\ Len(o) = Cardinality(M) /\ Cardinality(M) \in Nat
  BY <1>1, <1>3, NumbersOrdered
<1>5. o \in Seq(known)
  BY <1>2, <1>4, SeqWithin
<1>6. s = Cut(o, limit)
  BY <1>1 DEF SearchFiles, Sorted
<1>7. /\ s \in Seq(known) /\ Len(s) <= limit /\ (EachOnce(o) => EachOnce(s))
      /\ Len(o) <= limit => s = o
  BY <1>5, <1>6, CutIs
<1>8. Cardinality(known) \in Nat
  BY FS_CardinalityType
<1> QED
  BY <1>1, <1>3, <1>4, <1>7, <1>8

(* What search_hybrid makes of both kinds of results. *)
Ranking(scored, merged) == ByScore([i \in DOMAIN merged |-> ScoreOf(scored, merged[i])])

ScoresKept(scored, merged, ranked) ==
    \A i \in 1 .. Len(merged) : \E k \in 1 .. Len(merged) :
        ranked[k].file = merged[i] /\ ranked[k].score = ScoreOf(scored, merged[i]).score

LEMMA RankingIs ==
    ASSUME NEW R, \A r \in R : r.score \in Int, NEW scored \in Seq(R),
           \A k, l \in 1 .. Len(scored) : k < l => scored[l].score <= scored[k].score,
           NEW known, NEW merged \in Seq(known), EachOnce(merged)
    PROVE  /\ Files(Ranking(scored, merged)) \in Seq(known)
           /\ EachOnce(Files(Ranking(scored, merged)))
           /\ Len(Files(Ranking(scored, merged))) = Len(merged)
           /\ Range(Files(Ranking(scored, merged))) = Range(merged)
           /\ DOMAIN Ranking(scored, merged) = 1 .. Len(merged)
           /\ ScoresKept(scored, merged, Ranking(scored, merged))
<1>1. PICK n : n = Len(merged)
  OBVIOUS
<1>2. n \in Nat /\ DOMAIN merged = 1 .. n /\ \A i \in 1 .. n : merged[i] \in known
  BY <1>1
<1>3. PICK s : s = [i \in 1 .. n |-> ScoreOf(scored, merged[i])]
  OBVIOUS
<1>4. PICK t : t = Ranking(scored, merged)
  OBVIOUS
<1>5. t = ByScore(s)
  BY <1>2, <1>3, <1>4 DEF Ranking
<1>6. ASSUME NEW i \in 1 .. n PROVE s[i] = ScoreOf(scored, merged[i])
  BY <1>3
<1>7. ASSUME NEW i \in 1 .. n PROVE s[i].file = merged[i] /\ s[i].score \in Int
  BY <1>6, ScoreOfIs
<1>8. PICK Q : Q = {s[i] : i \in 1 .. n}
  OBVIOUS
<1>9. \A r \in Q : r.score \in Int
  BY <1>7, <1>8
<1>10. s \in Seq(Q) /\ Len(s) = n
  BY <1>2, <1>3, <1>6, <1>8
<1>11. t \in Seq(Q) /\ \E order : ByRank(s, t, order)
  BY <1>5, <1>9, <1>10, ByScoreRanks
<1>12. PICK order : ByRank(s, t, order)
  BY <1>11
<1>13. /\ DOMAIN t = 1 .. n /\ Len(t) = n
       /\ order \in [1 .. n -> 1 .. n] /\ EachOnce(order)
       /\ \A i \in 1 .. n : \E k \in 1 .. n : order[k] = i
       /\ \A k \in 1 .. n : t[k] = s[order[k]]
  BY <1>10, <1>12 DEF ByRank
<1>14. \A k \in 1 .. n : order[k] \in 1 .. n /\ t[k].file = merged[order[k]]
  BY <1>7, <1>13
<1>15. \A k \in 1 .. n : t[k].file \in known
  BY <1>2, <1>14
<1>16. PICK f : f = Files(t)
  OBVIOUS
<1>17. /\ f \in Seq(known) /\ Len(f) = n /\ DOMAIN f = 1 .. n
       /\ \A k \in 1 .. n : f[k] = t[k].file
  <2>1. t \in Seq(Q) /\ \A k \in 1 .. Len(t) : t[k].file \in known
    BY <1>11, <1>13, <1>15
  <2>2. /\ Files(t) \in Seq(known) /\ Len(Files(t)) = Len(t) /\ DOMAIN Files(t) = 1 .. Len(t)
        /\ \A k \in 1 .. Len(t) : Files(t)[k] = t[k].file
    BY <2>1, FilesOfRows
  <2> QED
    BY <1>13, <1>16, <2>2
<1>18. EachOnce(f)
  <2> SUFFICES ASSUME NEW k \in 1 .. n, NEW l \in 1 .. n, f[k] = f[l] PROVE k = l
    BY <1>17 DEF EachOnce
  <2>1. order[k] = order[l]
    BY <1>2, <1>14, <1>17 DEF EachOnce
  <2> QED
    BY <1>13, <2>1 DEF EachOnce
<1>19. ASSUME NEW i \in 1 .. n
       PROVE  \E k \in 1 .. n : t[k].file = merged[i] /\ t[k].score = ScoreOf(scored, merged[i]).score
  <2>1. PICK k \in 1 .. n : order[k] = i
    BY <1>13
  <2> QED
    BY <1>6, <1>13, <1>14, <2>1
<1>20. Range(f) = Range(merged)
  <2>1. \A k \in 1 .. n : f[k] \in Range(merged)
    BY <1>2, <1>14, <1>17 DEF Range
  <2>2. Range(f) \subseteq Range(merged)
    BY <1>17, <2>1 DEF Range
  <2>3. ASSUME NEW i \in 1 .. n PROVE merged[i] \in Range(f)
    <3>1. PICK k \in 1 .. n : t[k].file = merged[i]
      BY <1>19
    <3>2. k \in DOMAIN f /\ f[k] = merged[i]
      BY <1>17, <3>1
    <3> QED
      BY <3>2 DEF Range
  <2>4. Range(merged) \subseteq Range(f)
    BY <1>2, <2>3 DEF Range
  <2> QED
    BY <2>2, <2>4
<1> QED
  BY <1>1, <1>4, <1>13, <1>16, <1>17, <1>18, <1>19, <1>20 DEF ScoresKept

(* The results by name and by meaning, and by meaning alone. *)
MergedOf(q, known, rows, limit) ==
    Merge(SearchFiles(q, known, 2 * limit), Scored(rows, known), limit)

LEMMA HybridIs ==
    ASSUME NEW q, NEW known, NEW rows, NEW embeds, NEW limit
    PROVE  LET plain  == ~q.text \/ rows = <<>> \/ ~embeds
               scored == Scored(rows, known)
               ranked == Ranking(scored, MergedOf(q, known, rows, limit))
           IN  SearchHybrid(q, known, rows, embeds, limit) =
                   IF plain THEN SearchFiles(q, known, limit)
                   ELSE Cut(Files(IF Weak(ranked) /\ scored # <<>> THEN scored ELSE ranked), limit)
BY DEF SearchHybrid, Ranking, MergedOf

LEMMA Joined ==
    ASSUME NEW S, NEW u \in Seq(S), NEW v \in Seq(S)
    PROVE  u \o v \in Seq(S) /\ Len(u \o v) = Len(u) + Len(v)
OBVIOUS

LEMMA MergedIs ==
    ASSUME NEW q, NEW known, NEW rows, NEW limit, Searchable(known, rows, limit)
    PROVE  LET merged == MergedOf(q, known, rows, limit)
               scored == Scored(rows, known)
           IN  /\ merged \in Seq(known) /\ EachOnce(merged) /\ Len(merged) <= limit
               /\ Cardinality(known) <= limit =>
                      /\ \A f \in Matching(q, known) : f \in Range(merged)
                      /\ \A i \in 1 .. Len(scored) : scored[i].file \in Range(merged)
<1>1. PICK R : rows \in Seq(R) /\ \A r \in R : r.score \in Int
  BY DEF Searchable
<1>2. known \subseteq Nat /\ IsFiniteSet(known) /\ limit \in Nat /\ 2 * limit \in Nat /\ limit <= 2 * limit
  BY DEF Searchable
<1>3. PICK merged, scored, named : /\ merged = MergedOf(q, known, rows, limit)
                                   /\ scored = Scored(rows, known)
                                   /\ named = SearchFiles(q, known, 2 * limit)
  OBVIOUS
<1>4. /\ named \in Seq(known)
      /\ Cardinality(known) <= 2 * limit => Range(named) = Matching(q, known)
  BY <1>2, <1>3, FilesFound
<1>5. Files(scored) \in Seq(known) /\ Len(Files(scored)) = Len(scored)
  BY <1>1, <1>3, ScoredOnce
<1>6. PICK all : all = named \o Files(scored)
  OBVIOUS
<1>7. PICK a, b : a = Len(named) /\ b = Len(scored)
  OBVIOUS
<1>8. /\ all \in Seq(known) /\ Len(all) = a + b /\ a \in Nat /\ b \in Nat
      /\ \A i \in 1 .. a : all[i] = named[i]
      /\ \A i \in 1 .. b : all[a + i] = Files(scored)[i]
  <2>1. PICK s \in Seq(known) : s = Files(scored) /\ Len(s) = b
    BY <1>5, <1>7
  <2>2. all = named \o s /\ a \in Nat /\ b \in Nat
    BY <1>4, <1>6, <1>7, <2>1
  <2>3. \A i \in 1 .. a : i \in 1 .. a + b /\ i <= a
    BY <2>2
  <2>4. \A i \in 1 .. b : a + i \in 1 .. a + b /\ ~(a + i <= a) /\ (a + i) - a = i
    BY <2>2
  <2>5. all \in Seq(known) /\ Len(all) = a + b
    <3>1. named \in Seq(known) /\ s \in Seq(known)
      BY <1>4, <2>1
    <3>2. named \o s \in Seq(known) /\ Len(named \o s) = Len(named) + Len(s)
      BY <3>1, Joined
    <3> QED
      BY <1>7, <2>1, <2>2, <3>2
  <2>6. \A i \in 1 .. a + b : all[i] = IF i <= a THEN named[i] ELSE s[i - a]
    BY <1>4, <1>7, <2>1, <2>2
  <2>7. \A i \in 1 .. a : all[i] = named[i]
    BY <2>3, <2>6
  <2>8. \A i \in 1 .. b : all[a + i] = s[i]
    BY <2>4, <2>6
  <2> QED
    BY <2>1, <2>2, <2>5, <2>7, <2>8
<1>9. merged = Added(all, limit)
  BY <1>3, <1>6 DEF MergedOf, Merge, Added, FoldLeft, MapThenFoldSet
<1>10. /\ merged \in Seq(known) /\ EachOnce(merged) /\ Len(merged) <= limit
       /\ Cardinality(known) <= limit => \A i \in 1 .. Len(all) : all[i] \in Range(merged)
  BY <1>2, <1>8, <1>9, AddedOnce
<1>11. ASSUME Cardinality(known) <= limit, NEW f \in Matching(q, known) PROVE f \in Range(merged)
  <2>1. Cardinality(known) <= 2 * limit
    <3>1. Cardinality(known) \in Nat
      BY <1>2, FS_CardinalityType
    <3> QED
      BY <1>2, <1>11, <3>1
  <2>2. f \in Range(named)
    BY <1>4, <2>1
  <2>3. PICK i \in 1 .. a : named[i] = f
    BY <1>4, <1>7, <2>2 DEF Range
  <2>4. i \in 1 .. Len(all) /\ all[i] = f
    BY <1>8, <2>3
  <2> QED
    BY <1>10, <1>11, <2>4
<1>12. ASSUME Cardinality(known) <= limit, NEW i \in 1 .. Len(scored)
       PROVE  scored[i].file \in Range(merged)
  <2>1. i \in 1 .. b /\ Files(scored)[i] = scored[i].file
    <3>1. scored \in Seq(R)
      BY <1>1, <1>3, ScoredRanks
    <3>2. i \in DOMAIN scored
      BY <3>1
    <3> QED
      BY <1>7, <3>2 DEF Files
  <2>2. a + i \in 1 .. Len(all) /\ all[a + i] = scored[i].file
    BY <1>8, <2>1
  <2> QED
    BY <1>10, <1>12, <2>2
<1> QED
  BY <1>3, <1>10, <1>11, <1>12

(* A search lists known files, each once, and no more than it is asked.    *)
LEMMA SearchIsOnce ==
    ASSUME NEW q, NEW known, NEW rows, NEW embeds, NEW limit, Searchable(known, rows, limit)
    PROVE  LET found == SearchHybrid(q, known, rows, embeds, limit) IN
           /\ Len(found) <= limit
           /\ Range(found) \subseteq known
           /\ EachOnce(Files(rows)) => EachOnce(found)
<1>1. PICK R : rows \in Seq(R) /\ \A r \in R : r.score \in Int
  BY DEF Searchable
<1>2. known \subseteq Nat /\ IsFiniteSet(known) /\ limit \in Nat
  BY DEF Searchable
<1>3. PICK found, scored, merged : /\ found = SearchHybrid(q, known, rows, embeds, limit)
                                   /\ scored = Scored(rows, known)
                                   /\ merged = MergedOf(q, known, rows, limit)
  OBVIOUS
<1>4. PICK ranked : ranked = Ranking(scored, merged)
  OBVIOUS
<1>5. \A s \in Seq(known) : Range(s) \subseteq known
  BY DEF Range
<1>6. CASE ~q.text \/ rows = <<>> \/ ~embeds
  <2>1. found = SearchFiles(q, known, limit)
    BY <1>3, <1>6, HybridIs
  <2>2. found \in Seq(known) /\ EachOnce(found) /\ Len(found) <= limit
    BY <1>2, <2>1, FilesFound
  <2> QED
    BY <1>3, <1>5, <2>2
<1>7. CASE ~(~q.text \/ rows = <<>> \/ ~embeds)
  <2>1. found = Cut(Files(IF Weak(ranked) /\ scored # <<>> THEN scored ELSE ranked), limit)
    BY <1>3, <1>4, <1>7, HybridIs
  <2>2. Files(scored) \in Seq(known) /\ (EachOnce(Files(rows)) => EachOnce(Files(scored)))
    BY <1>1, <1>3, ScoredOnce
  <2>3. merged \in Seq(known) /\ EachOnce(merged)
    BY <1>3, MergedIs
  <2>4. /\ scored \in Seq(R)
        /\ \A k, l \in 1 .. Len(scored) : k < l => scored[l].score <= scored[k].score
    BY <1>1, <1>3, ScoredRanks DEF From
  <2>5. Files(ranked) \in Seq(known) /\ EachOnce(Files(ranked))
    BY <1>1, <1>4, <2>3, <2>4, RankingIs
  <2>6. PICK s \in Seq(known) : found = Cut(s, limit) /\ (EachOnce(Files(rows)) => EachOnce(s))
    <3>1. CASE Weak(ranked) /\ scored # <<>>
      BY <2>1, <2>2, <3>1
    <3>2. CASE ~(Weak(ranked) /\ scored # <<>>)
      BY <2>1, <2>5, <3>2
    <3> QED
      BY <3>1, <3>2
  <2>7. found \in Seq(known) /\ Len(found) <= limit /\ (EachOnce(s) => EachOnce(found))
    BY <1>2, <2>6, CutIs
  <2> QED
    BY <1>3, <1>5, <2>6, <2>7
<1> QED
  BY <1>6, <1>7

(* With room for all, what matches by name is found, unless the results by *)
(* meaning alone are given, none of them good.                             *)
LEMMA SearchFindsAll ==
    ASSUME NEW q, NEW known, NEW rows, NEW embeds, NEW limit, Searchable(known, rows, limit),
           limit >= Cardinality(known) + Len(rows)
    PROVE  LET found == SearchHybrid(q, known, rows, embeds, limit)
               seen  == Scored(rows, known)
           IN  \A f \in Matching(q, known) \ Range(found) :
                   f \notin Range(Files(seen)) /\ \A i \in DOMAIN seen : seen[i].score < 1
<1>1. PICK R : rows \in Seq(R) /\ \A r \in R : r.score \in Int
  BY DEF Searchable
<1>2. known \subseteq Nat /\ IsFiniteSet(known) /\ limit \in Nat
  BY DEF Searchable
<1>3. PICK found, scored, merged : /\ found = SearchHybrid(q, known, rows, embeds, limit)
                                   /\ scored = Scored(rows, known)
                                   /\ merged = MergedOf(q, known, rows, limit)
  OBVIOUS
<1>4. PICK ranked : ranked = Ranking(scored, merged)
  OBVIOUS
<1>5. Cardinality(known) \in Nat /\ Len(rows) \in Nat
  BY <1>1, <1>2, FS_CardinalityType
<1>6. Cardinality(known) <= limit /\ Len(rows) <= limit
  BY <1>2, <1>5
<1>7. CASE ~q.text \/ rows = <<>> \/ ~embeds
  <2>1. found = SearchFiles(q, known, limit)
    BY <1>3, <1>7, HybridIs
  <2>2. Range(found) = Matching(q, known)
    BY <1>2, <1>6, <2>1, FilesFound
  <2> QED
    BY <1>3, <2>2
<1>8. CASE ~(~q.text \/ rows = <<>> \/ ~embeds)
  <2>1. found = Cut(Files(IF Weak(ranked) /\ scored # <<>> THEN scored ELSE ranked), limit)
    BY <1>3, <1>4, <1>8, HybridIs
  <2>2. /\ Files(scored) \in Seq(known) /\ Len(Files(scored)) = Len(scored)
        /\ Len(scored) <= Len(rows)
    BY <1>1, <1>3, ScoredOnce
  <2>3. /\ merged \in Seq(known) /\ EachOnce(merged) /\ Len(merged) <= limit
        /\ \A f \in Matching(q, known) : f \in Range(merged)
        /\ \A i \in 1 .. Len(scored) : scored[i].file \in Range(merged)
    BY <1>3, <1>6, MergedIs
  <2>4. /\ scored \in Seq(R)
        /\ \A k, l \in 1 .. Len(scored) : k < l => scored[l].score <= scored[k].score
    BY <1>1, <1>3, ScoredRanks DEF From
  <2>5. /\ Files(ranked) \in Seq(known) /\ Len(Files(ranked)) = Len(merged)
        /\ Range(Files(ranked)) = Range(merged)
        /\ DOMAIN ranked = 1 .. Len(merged)
        /\ ScoresKept(scored, merged, ranked)
    BY <1>1, <1>4, <2>3, <2>4, RankingIs
  <2>6. CASE ~(Weak(ranked) /\ scored # <<>>)
    <3>1. found = Cut(Files(ranked), limit)
      BY <2>1, <2>6
    <3>2. found = Files(ranked)
      BY <1>2, <2>3, <2>5, <3>1, CutIs
    <3> QED
      BY <1>3, <2>3, <2>5, <3>2
  <2>7. CASE Weak(ranked) /\ scored # <<>>
    <3>1. found = Cut(Files(scored), limit)
      BY <2>1, <2>7
    <3>2. Len(Files(scored)) <= limit
      <4>1. Len(scored) \in Nat
        BY <2>4
      <4> QED
        BY <1>2, <1>5, <1>6, <2>2, <4>1
    <3>3. found = Files(scored)
      BY <1>2, <2>2, <3>1, <3>2, CutIs
    <3>4. ASSUME NEW i \in DOMAIN scored PROVE scored[i].score < 1
      <4>1. i \in 1 .. Len(scored) /\ scored[i] \in R /\ scored[i].score \in Int
        BY <1>1, <2>4
      <4>2. PICK h \in 1 .. Len(merged) : merged[h] = scored[i].file
        <5>1. scored[i].file \in Range(merged)
          BY <2>3, <4>1
        <5>2. DOMAIN merged = 1 .. Len(merged)
          BY <2>3
        <5> QED
          BY <5>1, <5>2 DEF Range
      <4>3. PICK k \in 1 .. Len(merged) : ranked[k].score = ScoreOf(scored, merged[h]).score
        BY <2>5 DEF ScoresKept
      <4>4. ranked[k].score < 1
        BY <2>5, <2>7 DEF Weak
      <4>5. ScoreOf(scored, merged[h]).score \in Int
            /\ scored[i].score <= ScoreOf(scored, merged[h]).score
        BY <1>1, <2>4, <4>1, <4>2, ScoreOfIs
      <4> QED
        BY <4>1, <4>3, <4>4, <4>5
    <3> QED
      BY <1>3, <3>3, <3>4
  <2> QED
    BY <2>6, <2>7
<1> QED
  BY <1>7, <1>8

=============================================================================
