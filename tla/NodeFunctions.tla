----------------------------- MODULE NodeFunctions -----------------------------
(***************************************************************************)
(* The sorted array of a node of the B+-tree as a function on the keys it  *)
(* holds.  BPTree is written in these terms; NodeArrays has the arrays.    *)
(***************************************************************************)
EXTENDS Integers, FiniteSets

Least(S) == CHOOSE x \in S : \A y \in S : x <= y
Greatest(S) == CHOOSE x \in S : \A y \in S : y <= x

With(f, k, x) == [y \in DOMAIN f \cup {k} |-> IF y = k THEN x ELSE f[y]]
Only(f, S) == [y \in S |-> f[y]]
Size(f) == Cardinality(DOMAIN f)

\* The first n keys of f: a split at index n keeps them and moves the others.
First(f, n) ==
    {k \in DOMAIN f : Cardinality({j \in DOMAIN f : j < k}) < n}

=============================================================================
