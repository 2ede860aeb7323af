------------------------------ MODULE TreeReaders ------------------------------
(***************************************************************************)
(* The operations of the B+-tree that walk it without the mutex and        *)
(* without leaf locks: Scan, Iterator and Print of                         *)
(* hikv/bptree-template.hpp.  Next to an insert they promise nothing: a    *)
(* split may hide keys from them or show them twice.  The properties are   *)
(* about a tree at rest, whatever concurrent inserts and removes built it. *)
(***************************************************************************)
EXTENDS BPTree, Sequences, Functions

\* No insert is under way.
AtRest == \A t \in Threads : pc[t] = "idle"

Ascending(S) ==
    [i \in 1 .. Cardinality(S) |-> CHOOSE k \in S : Cardinality({j \in S : j < k}) = i - 1]

\* The keys of a leaf in the order of kv_entries.
KeysInOrder(n) == Ascending(DOMAIN entry[n])

NodesOrNull == Nodes \cup {Null}

-----------------------------------------------------------------------------
(* bptree_scan *)

ScanAll(n) == [i \in 1 .. Size(entry[n]) |->
                 <<KeysInOrder(n)[i], entry[n][KeysInOrder(n)[i]]>>]

\* One round of the loop: a leaf is added, and the scan goes on behind it or ends.
ScanRound(scan, count) ==
    LET all == scan.vec_result \o ScanAll(scan.leaf_node) IN
    IF scan.leaf_node = Null THEN scan
    ELSE [vec_result |-> all,
          leaf_node |-> IF Len(all) >= count THEN Null ELSE next[scan.leaf_node]]

\* Mutant of Scan: an entry too few is enough.
ScanShort(k, count) ==
    LET rounds[i \in 0 .. MaxNode] ==
            IF i = 0 THEN [vec_result |-> <<>>, leaf_node |-> SearchLeaf(k)]
            ELSE ScanRound(rounds[i - 1], count - 1)
    IN  rounds[MaxNode].vec_result

\* Whole leaves, from the leaf of k on, until there are count entries.
Scan(k, count) ==
    LET rounds[i \in 0 .. MaxNode] ==
            IF i = 0 THEN [vec_result |-> <<>>, leaf_node |-> SearchLeaf(k)]
            ELSE ScanRound(rounds[i - 1], count)
    IN  rounds[MaxNode].vec_result

-----------------------------------------------------------------------------
(* Begin and Iterator *)

Iterators == [cur_ : NodesOrNull, pos_ : 0 .. LeafSlots]

(***************************************************************************)
(* Only the header of an empty tree is read at or above nkeys, where its   *)
(* entries are still the zeros of initialize.                              *)
(***************************************************************************)
ValueAt(it) ==
    IF it.pos_ < Size(entry[it.cur_])
    THEN entry[it.cur_][KeysInOrder(it.cur_)[it.pos_ + 1]] ELSE 0

\* Mutant of Advance: the last entry of a leaf is left out.
AdvanceEarly(it) ==
    IF it.pos_ + 2 >= Size(entry[it.cur_])
    THEN [cur_ |-> next[it.cur_], pos_ |-> 0]
    ELSE [it EXCEPT !.pos_ = @ + 1]

Advance(it) ==
    IF it.pos_ + 1 >= Size(entry[it.cur_])
    THEN [cur_ |-> next[it.cur_], pos_ |-> 0]
    ELSE [it EXCEPT !.pos_ = @ + 1]

\* Removed entries, whose value is 0, are skipped.
Settle[it \in Iterators] ==
    IF it.cur_ = Null THEN it
    ELSE IF ValueAt(it) # 0 THEN it
    ELSE Settle[Advance(it)]

\* Begin starts at whatever the uninitialised _pos holds.
Begin(_pos) == Settle[[cur_ |-> Header, pos_ |-> _pos]]

IteratorNext(it) == Settle[Advance(it)]

\* GetKey and GetValue
Current(it) == <<KeysInOrder(it.cur_)[it.pos_ + 1], ValueAt(it)>>

-----------------------------------------------------------------------------
(* Print *)

LeftMost(n) == {leftmost[n]} \ {Null}

Live(n) == {k \in DOMAIN entry[n] : entry[n][k] # 0}

\* Mutant of DfsSum: the left-most child is not visited.
DfsSumKeyed(leaf, inner) ==
    LET sum[n \in Nodes] ==
            IF n \in leaves THEN leaf[n]
            ELSE inner + SumFunction([s \in DOMAIN child[n] |-> sum[child[n][s]]])
    IN  sum[root]

\* bptree_dfs_search adds up leaf[n] over the leaves and inner over the rest.
DfsSum(leaf, inner) ==
    LET sum[n \in Nodes] ==
            IF n \in leaves THEN leaf[n]
            ELSE inner + SumFunction([c \in LeftMost(n) |-> sum[c]])
                       + SumFunction([s \in DOMAIN child[n] |-> sum[child[n][s]]])
    IN  sum[root]

num_kv == DfsSum([n \in leaves |-> Cardinality(Live(n))], 0)
num_leaf_node == DfsSum([n \in leaves |-> 1], 0)
num_inner_node == DfsSum([n \in leaves |-> 0], 1)

\* bptree_line_search
num_next_node ==
    LET cur_[i \in 0 .. MaxNode] ==
            IF i = 0 THEN Header
            ELSE IF cur_[i - 1] = Null THEN Null ELSE next[cur_[i - 1]]
    IN  Cardinality({i \in 0 .. MaxNode : cur_[i] # Null})

-----------------------------------------------------------------------------
(* Properties *)

\* The keys in the tree, and the entries at a set of them, in order.
Held == UNION {DOMAIN entry[n] : n \in leaves}
LeafOf(k) == CHOOSE n \in leaves : k \in DOMAIN entry[n]
ValueOf(k) == entry[LeafOf(k)][k]
EntriesAt(S) ==
    [i \in 1 .. Cardinality(S) |-> <<Ascending(S)[i], ValueOf(Ascending(S)[i])>>]
AllEntries == EntriesAt(Held)
NotRemoved == {k \in Held : ValueOf(k) # 0}

(***************************************************************************)
(* A scan of a tree at rest returns, in order, a stretch of the entries    *)
(* without a gap or a repetition.  It begins at or before the first key    *)
(* from k on and has count entries unless it reaches the end.  It may have *)
(* entries below k and removed ones, and count includes them.              *)
(***************************************************************************)
ScanAtRest ==
    AtRest => \A k \in Keys, count \in 1 .. Cardinality(Keys) :
        LET found == Scan(k, count)
            all == AllEntries
        IN  \E i \in 1 .. Len(all) + 1 : LET j == i + Len(found) - 1 IN
                /\ j <= Len(all) /\ found = SubSeq(all, i, j)
                /\ \A b \in 1 .. i - 1 : all[b][1] < k
                /\ Len(found) >= count \/ j = Len(all)

(***************************************************************************)
(* An iterator over a tree at rest visits every entry that is not removed  *)
(* once, in order: all of them if _pos happens to start as 0, and else     *)
(* those behind the first _pos of the header.                              *)
(***************************************************************************)
Visited[it \in Iterators] ==
    IF it.cur_ = Null THEN <<>> ELSE <<Current(it)>> \o Visited[IteratorNext(it)]

IteratorAtRest ==
    AtRest => \A _pos \in 0 .. Size(entry[Header]) :
        _pos = 0 \/ _pos < Size(entry[Header]) =>
            Visited[Begin(_pos)] =
                EntriesAt({k \in NotRemoved : Cardinality({j \in Held : j < k}) >= _pos})

(***************************************************************************)
(* The two walks of Print agree: the search from the root and the chain    *)
(* from header_ meet the same leaves, every node once, all the live keys,  *)
(* and all leaves are at the same depth.                                   *)
(***************************************************************************)
Depth[n \in NodesOrNull] == IF n = Null THEN -1 ELSE 1 + Depth[parent[n]]

PrintAtRest ==
    AtRest =>
        /\ num_leaf_node = num_next_node
        /\ num_leaf_node + num_inner_node = top
        /\ num_kv = Cardinality(NotRemoved)
        /\ \A m, n \in leaves : Depth[m] = Depth[n]

=============================================================================
