------------------------------- MODULE NodeArrays -------------------------------
(***************************************************************************)
(* One node of the B+-tree as the arrays it consists of (InnerNode and     *)
(* LeafNode of hikv/bptree-template.hpp): binary search, insertion by      *)
(* shifting, and the split, which leaves what it moved behind in the       *)
(* lower half.  Arrays are indexed from 0; nkeys of their elements count.  *)
(*                                                                         *)
(* A node has one writer at a time (OneWriter of BPTree), so that an       *)
(* operation is one step.  A key that goes into an inner node is not in it *)
(* yet (LinkTarget of BPTree).                                             *)
(***************************************************************************)
EXTENDS Integers, FiniteSets

CONSTANTS
    Slots,          \* leaf_node_slots, inner_node_slots
    Keys,           \* the keys, in the order of memcmp; 0 is the zeroed key
    Values,         \* the values of a leaf; 0 is the removed one
    Children,       \* the children of an inner node
    Null

ASSUME ArraysAssumption ==
    /\ Slots \in Nat /\ Slots >= 2
    /\ Keys \subseteq Int /\ 0 \in Keys
    /\ Values \subseteq Int /\ 0 \in Values
    /\ Null \notin Children

Index == 0 .. Slots - 1

VARIABLES
    is_leaf,        \* is_leaf: a LeafNode or an InnerNode
    node,           \* nkeys, keys and their items: values or child_pointers
    left,           \* left_most_pointer
    call            \* the last operation, its arguments and what it returned

vars == <<is_leaf, node, left, call>>

Items == IF is_leaf THEN Values ELSE Children

InsertCall(k, x) == [op |-> "insert", key |-> k, item |-> x]
SplitCall(k, x, half, separator) ==
    [op |-> "split", key |-> k, item |-> x, half |-> half, separator |-> separator]
SearchCall(k, ok, value) == [op |-> "search", key |-> k, ok |-> ok, value |-> value]
RemoveCall(k, ok) == [op |-> "remove", key |-> k, ok |-> ok]
SearchDownCall(k, c) == [op |-> "search_down", key |-> k, child |-> c]

-----------------------------------------------------------------------------
(* Nodes *)

\* malloc leaves whatever was in the arrays of an inner node.
AnyInner == {[nkeys |-> 0, keys |-> [i \in Index |-> k], item |-> [i \in Index |-> c]] :
                k \in Keys, c \in Children}

\* initialize zeroes the entries of a leaf.
ZeroLeaf == [nkeys |-> 0, keys |-> [i \in Index |-> 0], item |-> [i \in Index |-> 0]]

Fresh == IF is_leaf THEN {ZeroLeaf} ELSE AnyInner

\* A new leaf, or a new root with its first separator.
Init ==
    /\ is_leaf \in BOOLEAN
    /\ \/ is_leaf /\ node = ZeroLeaf /\ left = Null
       \/ /\ ~is_leaf
          /\ left \in Children
          /\ \E n \in AnyInner, k \in Keys, c \in Children :
                node = [n EXCEPT !.nkeys = 1, !.keys[0] = k, !.item[0] = c]
    /\ call = Null

IsFull(n) == n.nkeys = Slots

Live(n) == {i \in Index : i < n.nkeys}

-----------------------------------------------------------------------------
(* Binary search *)

\* The number of keys below k, or, with equal, of keys up to k.
BinarySearch(n, k, equal) ==
    LET search[range \in (0 .. Slots) \X (0 .. Slots)] ==
            LET l == range[1]
                h == range[2]
                mid == l + (h - l) \div 2
                right == n.keys[mid] < k \/ (equal /\ n.keys[mid] = k)
            IN  IF l >= h THEN l
                ELSE IF right THEN search[<<mid + 1, h>>] ELSE search[<<l, mid>>]
    IN  search[<<0, n.nkeys>>]

LowerBound(n, k) == BinarySearch(n, k, FALSE)

\* Mutant of UpperBound: an equal key is passed on its left.
UpperBoundStrict(n, k) == BinarySearch(n, k, FALSE)

UpperBound(n, k) == BinarySearch(n, k, TRUE)

\* Mutant of HasKeyAt: entries behind the last one are looked at.
HasKeyAtStale(n, l, k) == l \in Index /\ k = n.keys[l]

HasKeyAt(n, l, k) == l < n.nkeys /\ k = n.keys[l]

-----------------------------------------------------------------------------
(* Insertion *)

\* Array a with x at index l and the elements from l to last - 1 moved up.
Shifted(a, l, last, x) ==
    [j \in Index |-> IF j = l THEN x ELSE IF l < j /\ j <= last THEN a[j - 1] ELSE a[j]]

InsertAt(n, l, k, x) ==
    [nkeys |-> n.nkeys + 1,
     keys |-> Shifted(n.keys, l, n.nkeys, k),
     item |-> Shifted(n.item, l, n.nkeys, x)]

LeafInsert(n, k, v) ==
    LET l == LowerBound(n, k) IN
    IF HasKeyAt(n, l, k) THEN [n EXCEPT !.item[l] = v] ELSE InsertAt(n, l, k, v)

InnerInsert(n, k, c) == InsertAt(n, UpperBound(n, k), k, c)

Inserted(n, k, x) == IF is_leaf THEN LeafInsert(n, k, x) ELSE InnerInsert(n, k, x)

NotASeparator(k) == is_leaf \/ \A i \in Live(node) : node.keys[i] # k

Insert(k, x) ==
    /\ ~IsFull(node)
    /\ NotASeparator(k)
    /\ node' = Inserted(node, k, x)
    /\ call' = InsertCall(k, x)
    /\ UNCHANGED <<is_leaf, left>>

-----------------------------------------------------------------------------
(* Split *)

Middle(n) == n.nkeys \div 2

\* Node m with the elements of n from its middle on.
UpperHalf(n, m) ==
    LET moved == n.nkeys - Middle(n)
        Move(a, b) == [j \in Index |-> IF j < moved THEN a[Middle(n) + j] ELSE b[j]]
    IN  [nkeys |-> moved, keys |-> Move(n.keys, m.keys), item |-> Move(n.item, m.item)]

LowerHalf(n) == [n EXCEPT !.nkeys = Middle(n)]

\* The old node or the new one is followed; the new one has no left child.
Split(k, x) ==
    /\ IsFull(node)
    /\ NotASeparator(k)
    /\ \E m \in Fresh :
          LET low == LowerHalf(node)
              high == UpperHalf(node, m)
              below == k < high.keys[0]
              low_after == IF below THEN Inserted(low, k, x) ELSE low
              high_after == IF below THEN high ELSE Inserted(high, k, x)
              Follow(half) == call' = SplitCall(k, x, half, high_after.keys[0])
          IN  \/ node' = low_after /\ left' = left /\ Follow("lower")
              \/ node' = high_after /\ left' = Null /\ Follow("upper")
    /\ UNCHANGED is_leaf

-----------------------------------------------------------------------------
(* Search and removal *)

Search(k) ==
    LET l == LowerBound(node, k) IN
    /\ is_leaf
    /\ call' = IF HasKeyAt(node, l, k) THEN SearchCall(k, TRUE, node.item[l])
               ELSE SearchCall(k, FALSE, Null)
    /\ UNCHANGED <<is_leaf, node, left>>

Remove(k) ==
    LET l == LowerBound(node, k) IN
    /\ is_leaf
    /\ call' = RemoveCall(k, HasKeyAt(node, l, k))
    /\ node' = IF HasKeyAt(node, l, k) THEN [node EXCEPT !.item[l] = 0] ELSE node
    /\ UNCHANGED <<is_leaf, left>>

SearchDown(k) ==
    LET l == UpperBound(node, k) IN
    /\ ~is_leaf
    /\ call' = SearchDownCall(k, IF l = 0 THEN left ELSE node.item[l - 1])
    /\ UNCHANGED <<is_leaf, node, left>>

Next ==
    \E k \in Keys :
        \/ \E x \in Items : Insert(k, x) \/ Split(k, x)
        \/ Search(k) \/ Remove(k) \/ SearchDown(k)

Spec == Init /\ [][Next]_vars

-----------------------------------------------------------------------------
(* Properties *)

(***************************************************************************)
(* The arrays implement the functions that BPTree is written with: every   *)
(* operation does to the function what is asked, and answers for the key   *)
(* it is asked for, whatever the slots behind nkeys hold: garbage of       *)
(* malloc, zeros that look like a key, or entries a split has moved away.  *)
(***************************************************************************)
IndexOf(k) == CHOOSE i \in Live(node) : node.keys[i] = k

Map == INSTANCE NodeMap WITH
    held <- [k \in {node.keys[i] : i \in Live(node)} |-> node.item[IndexOf(k)]]

ImplementsFunctions == Map!Spec

=============================================================================
