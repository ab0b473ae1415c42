------------------------------- MODULE Lists -------------------------------
(***************************************************************************)
(* Sorting and filtering, as the functions of the library do them: defined *)
(* by the rank of an element, which is what can be reasoned about.         *)
(***************************************************************************)
EXTENDS Integers, Sequences, FiniteSets

(* The elements of a finite set, each after those that come before it.     *)
Ordered(S, before(_, _)) ==
    [k \in 1 .. Cardinality(S) |->
        CHOOSE x \in S : Cardinality({y \in S : before(y, x)}) = k - 1]

(* The elements of a list at the indices in I, in their order.             *)
At(s, I) ==
    LET order == Ordered(I, <) IN [k \in DOMAIN order |-> s[order[k]]]

(* No element of a list is there twice.                                    *)
EachOnce(s) == \A i, j \in DOMAIN s : s[i] = s[j] => i = j

=============================================================================
