-------------------------------- MODULE NodeMap --------------------------------
(***************************************************************************)
(* What the B+-tree relies on about one node: the functions and answers in *)
(* terms of which BPTree is written.  A leaf maps keys to values; an inner *)
(* node maps keys to children and has one more child to their left.  When  *)
(* a node is split, one of the halves is followed.  call is the last       *)
(* operation with its arguments and what it returned, so that an answer    *)
(* can only be the one to what was asked.                                  *)
(***************************************************************************)
EXTENDS NodeFunctions

CONSTANTS Slots, Keys, Values, Children, Null

VARIABLES is_leaf, held, left, call

vars == <<is_leaf, held, left, call>>

Items == IF is_leaf THEN Values ELSE Children

InsertCall(k, x) == [op |-> "insert", key |-> k, item |-> x]
SplitCall(k, x, half, separator) ==
    [op |-> "split", key |-> k, item |-> x, half |-> half, separator |-> separator]
SearchCall(k, ok, value) == [op |-> "search", key |-> k, ok |-> ok, value |-> value]
RemoveCall(k, ok) == [op |-> "remove", key |-> k, ok |-> ok]
SearchDownCall(k, c) == [op |-> "search_down", key |-> k, child |-> c]

Init ==
    /\ is_leaf \in BOOLEAN
    /\ \/ is_leaf /\ held = [k \in {} |-> 0] /\ left = Null
       \/ ~is_leaf /\ left \in Children /\ \E k \in Keys : held \in [{k} -> Children]
    /\ call = Null

Insert(k, x) ==
    /\ Size(held) < Slots
    /\ held' = With(held, k, x)
    /\ call' = InsertCall(k, x)
    /\ UNCHANGED <<is_leaf, left>>

\* The new node is linked under the first key of the upper half.
Split(k, x) ==
    LET lower == First(held, Slots \div 2)
        upper == DOMAIN held \ lower
        below == k < Least(upper)
        low == IF below THEN With(Only(held, lower), k, x) ELSE Only(held, lower)
        high == IF below THEN Only(held, upper) ELSE With(Only(held, upper), k, x)
        Follow(half) == call' = SplitCall(k, x, half, Least(DOMAIN high))
    IN
    /\ Size(held) = Slots
    /\ \/ held' = low /\ left' = left /\ Follow("lower")
       \/ held' = high /\ left' = Null /\ Follow("upper")
    /\ UNCHANGED is_leaf

Search(k) ==
    /\ is_leaf
    /\ call' = IF k \in DOMAIN held THEN SearchCall(k, TRUE, held[k])
               ELSE SearchCall(k, FALSE, Null)
    /\ UNCHANGED <<is_leaf, held, left>>

Remove(k) ==
    /\ is_leaf
    /\ call' = RemoveCall(k, k \in DOMAIN held)
    /\ held' = IF k \in DOMAIN held THEN With(held, k, 0) ELSE held
    /\ UNCHANGED <<is_leaf, left>>

SearchDown(k) ==
    LET below == {s \in DOMAIN held : s <= k} IN
    /\ ~is_leaf
    /\ call' = SearchDownCall(k, IF below = {} THEN left ELSE held[Greatest(below)])
    /\ UNCHANGED <<is_leaf, held, left>>

Next ==
    \E k \in Keys :
        \/ \E x \in Items : Insert(k, x) \/ Split(k, x)
        \/ Search(k) \/ Remove(k) \/ SearchDown(k)

Spec == Init /\ [][Next]_vars

=============================================================================
