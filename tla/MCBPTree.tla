------------------------------ MODULE MCBPTree ------------------------------
(***************************************************************************)
(* Nodes of two slots, so that five keys give an inner node to split and   *)
(* the inserts of all entries a tree of three inner levels.  Key 3 is      *)
(* inserted twice, with two values; for liveness, which cannot use the     *)
(* symmetry of the threads, every key once.                                *)
(***************************************************************************)
EXTENDS BPTreeRefinement, TLC

CONSTANTS t1, t2, t3

TwoThreads == {t1, t2}
ThreeThreads == {t1, t2, t3}
SixKeys == 1 .. 6
MCValues == 0 .. 2
MCEntries == {<<k, 1>> : k \in Keys} \cup {<<3, 2>>}
OneEach == {<<k, 1>> : k \in Keys}
MCAsked == {3, 4}

Symmetry == Permutations(Threads)
=============================================================================
