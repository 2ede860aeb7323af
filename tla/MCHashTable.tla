----------------------------- MODULE MCHashTable -----------------------------
(***************************************************************************)
(* A table of two buckets of two slots.  k1, k2 and k3 fall into bucket 0, *)
(* so the last of them to arrive is refused.                               *)
(***************************************************************************)
EXTENDS HashTableRefinement, TLC

CONSTANTS t1, t2, k1, k2, k3, a1, a2, a3, a4

MCThreads == {t1, t2}
MCKeys == {k1, k2, k3}
MCAddrs == {a1, a2, a3, a4}

MCKeyAt == [a \in Addrs |-> CASE a \in {a1, a2} -> k1 [] a = a3 -> k2 [] a = a4 -> k3]

\* Hash values under the seed of the code and, for comparison, another one.
MCHash64 == 178535877 :> (k1 :> 4 @@ k2 :> 2 @@ k3 :> 6) @@
            178535878 :> (k1 :> 1 @@ k2 :> 2 @@ k3 :> 5)
=============================================================================
