-------------------------------- MODULE BPTree --------------------------------
(***************************************************************************)
(* The concurrent B+-tree of HiKV (hikv/bptree-template.hpp), the ordered  *)
(* index that the backend threads maintain.                                *)
(*                                                                         *)
(* Inner nodes are read and written under one mutex (a speculative spin    *)
(* mutex, elided by hardware transactions when it can be: either way its   *)
(* critical sections are atomic to each other).  A leaf has a lock byte    *)
(* that is set and tested under the mutex; an insert sets it, leaves the   *)
(* critical section, and writes or splits the leaf outside of it.  The     *)
(* split leaf is then linked into its parents in a second critical         *)
(* section, and unlocked.                                                  *)
(*                                                                         *)
(* The sorted array of a node is a function on the keys it holds (module   *)
(* NodeFunctions; NodeArrays shows that the arrays implement it).  A       *)
(* critical section that finds its leaf unlocked (a search, a remove, a    *)
(* find-and-lock) is one step.  One that finds it locked takes the mutex   *)
(* in one step and gives it up in another, to try again.                   *)
(* insert_into_parent is one step per level, with the mutex held in        *)
(* between.                                                                *)
(***************************************************************************)
EXTENDS Integers, NodeFunctions

CONSTANTS
    Threads,        \* the callers: the backend threads
    Keys,           \* the keys, in the order of memcmp
    Values,         \* values; 0 is the one that Remove writes
    Entries,        \* the <<key, value>> pairs that are inserted, once each
    LeafSlots,      \* leaf_node_slots
    InnerSlots,     \* inner_node_slots
    MaxNode,        \* bound on the nodes allocated
    Asked,          \* bound: the keys that are searched and removed
    Null            \* nullptr

ASSUME KeysAssumption ==
    /\ Keys \subseteq Int
    /\ Values \subseteq Int /\ 0 \in Values
    /\ Entries \subseteq Keys \X Values
    /\ Asked \subseteq Keys

ASSUME SlotsAssumption ==
    /\ LeafSlots \in Nat /\ LeafSlots >= 2
    /\ InnerSlots \in Nat /\ InnerSlots >= 2
    /\ MaxNode \in Nat \ {0}

Nodes == 1 .. MaxNode

ASSUME NullAssumption == Null \notin Nodes /\ Null \notin Threads /\ Null \notin Values

VARIABLES
    top,        \* nodes 1 .. top are allocated
    leaves,     \* the nodes with is_leaf set
    root,       \* root_
    entry,      \* kv_entries[0 .. nkeys-1] of a leaf, by key
    next,       \* next of a leaf
    locked,     \* the leaves whose mlock is 1
    leftmost,   \* left_most_pointer of an inner node
    child,      \* child_pointers[0 .. nkeys-1] of an inner node, by keys[i]
    parent,     \* parent of a node
    mutex,      \* the thread inside a critical section, or Null
    todo,       \* entries not yet inserted
    pc,         \* what a thread does next
    arg,        \* the <<key, value>> of an insert, the <<key>> of the others
    cur,        \* leaf_node: the leaf it locked
    par,        \* parent_node of the current level of insert_into_parent
    new,        \* new_node of that level
    answer      \* what the last Search or Remove returned

node_vars == <<top, leaves, root, entry, next, locked, leftmost, child, parent>>
thread_vars == <<pc, arg, cur, par, new>>
vars == <<node_vars, mutex, todo, thread_vars, answer>>

(***************************************************************************)
(* The constructor: the root, which is also header_, is an empty leaf.     *)
(***************************************************************************)
Header == 1
NoEntries == [k \in {} |-> 0]

Init ==
    /\ top = 1
    /\ leaves = {Header}
    /\ root = Header
    /\ entry = [n \in Nodes |-> NoEntries]
    /\ next = [n \in Nodes |-> Null]
    /\ locked = {}
    /\ leftmost = [n \in Nodes |-> Null]
    /\ child = [n \in Nodes |-> NoEntries]
    /\ parent = [n \in Nodes |-> Null]
    /\ mutex = Null
    /\ todo = Entries
    /\ pc = [t \in Threads |-> "idle"]
    /\ arg = [t \in Threads |-> Null]
    /\ cur = [t \in Threads |-> Null]
    /\ par = [t \in Threads |-> Null]
    /\ new = [t \in Threads |-> Null]
    /\ answer = Null

-----------------------------------------------------------------------------
(* Finding a leaf *)

\* Mutant of SearchDown: a key equal to a separator goes to its left.
SearchDownStrict(n, k) ==
    LET below == {s \in DOMAIN child[n] : s < k}
    IN  IF below = {} THEN leftmost[n] ELSE child[n][Greatest(below)]

SearchDown(n, k) ==
    LET below == {s \in DOMAIN child[n] : s <= k}
    IN  IF below = {} THEN leftmost[n] ELSE child[n][Greatest(below)]

SearchLeafFrom(from, k) ==
    LET down[n \in Nodes \cup {Null}] ==
            IF n = Null \/ n \in leaves THEN n ELSE down[SearchDown(n, k)]
    IN  down[from]

SearchLeaf(k) == SearchLeafFrom(root, k)

\* Mutant of OpenLeaf: the lock byte is not tested.
OpenLeafUntested(k, n) ==
    /\ mutex = Null
    /\ n = SearchLeaf(k)
    /\ n \in leaves

\* The leaf on which an operation on k may work in a critical section.
OpenLeaf(k, n) ==
    /\ mutex = Null
    /\ n = SearchLeaf(k)
    /\ n \in leaves \ locked

-----------------------------------------------------------------------------
(* The loop around a critical section that needs a leaf *)

Key(t) == arg[t][1]
Value(t) == arg[t][2]
Goto(t, label) == pc' = [pc EXCEPT ![t] = label]

\* Insert, Search and Remove begin with that loop.
Looks(t) == pc[t] \in {"find", "search", "remove"}

(***************************************************************************)
(* An iteration that finds the leaf locked: the mutex is taken, the lock   *)
(* byte is read, and nothing is done.                                      *)
(***************************************************************************)
MeetLock(t) ==
    /\ Looks(t)
    /\ mutex = Null
    /\ SearchLeaf(Key(t)) \in locked
    /\ mutex' = t
    /\ UNCHANGED <<node_vars, todo, thread_vars, answer>>

\* Mutant of Retry: the mutex is not given up.
RetryHolding(t) ==
    /\ Looks(t)
    /\ mutex = t
    /\ UNCHANGED vars

\* Its end: the mutex is given up and the next iteration begins.
Retry(t) ==
    /\ Looks(t)
    /\ mutex = t
    /\ mutex' = Null
    /\ UNCHANGED <<node_vars, todo, thread_vars, answer>>

-----------------------------------------------------------------------------
(* Insert *)

InsertInvoke(t, e) ==
    /\ pc[t] = "idle"
    /\ e \in todo
    /\ todo' = todo \ {e}
    /\ arg' = [arg EXCEPT ![t] = e]
    /\ Goto(t, "find")
    /\ UNCHANGED <<node_vars, mutex, cur, par, new, answer>>

\* The iteration that finds the leaf unlocked: the leaf is locked.
FindAndLock(t) ==
    /\ pc[t] = "find"
    /\ \E n \in Nodes :
          /\ OpenLeaf(Key(t), n)
          /\ locked' = locked \cup {n}
          /\ cur' = [cur EXCEPT ![t] = n]
    /\ Goto(t, "write")
    /\ UNCHANGED <<top, leaves, root, entry, next, leftmost, child, parent,
                   mutex, todo, arg, par, new, answer>>

\* Mutant of WriteLeaf: a full leaf is not noticed.
WriteLeafUntested(t) ==
    /\ pc[t] = "write"
    /\ entry' = [entry EXCEPT ![cur[t]] = With(@, Key(t), Value(t))]
    /\ Goto(t, "unlock")
    /\ UNCHANGED <<top, leaves, root, next, locked, leftmost, child, parent,
                   mutex, todo, arg, cur, par, new, answer>>

\* Mutant of WriteLeaf: a key that is there keeps its value.
WriteLeafKeeping(t) ==
    /\ pc[t] = "write"
    /\ Size(entry[cur[t]]) # LeafSlots
    /\ entry' = IF Key(t) \in DOMAIN entry[cur[t]] THEN entry
                ELSE [entry EXCEPT ![cur[t]] = With(@, Key(t), Value(t))]
    /\ Goto(t, "unlock")
    /\ UNCHANGED <<top, leaves, root, next, locked, leftmost, child, parent,
                   mutex, todo, arg, cur, par, new, answer>>

WriteLeaf(t) ==
    /\ pc[t] = "write"
    /\ Size(entry[cur[t]]) # LeafSlots
    /\ entry' = [entry EXCEPT ![cur[t]] = With(@, Key(t), Value(t))]
    /\ Goto(t, "unlock")
    /\ UNCHANGED <<top, leaves, root, next, locked, leftmost, child, parent,
                   mutex, todo, arg, cur, par, new, answer>>

\* Mutant of ChainAfter: the old leaf's next is overwritten before it is read.
ChainAfterSwapped(n, m) == [next EXCEPT ![n] = m, ![m] = m]

\* Leaf m joins the chain behind leaf n.
ChainAfter(n, m) == [next EXCEPT ![m] = next[n], ![n] = m]

(***************************************************************************)
(* Split a full leaf: the upper half moves to a new leaf, the argument     *)
(* goes into one of the halves, and the new leaf joins the chain.          *)
(***************************************************************************)
SplitLeaf(t) ==
    LET old == entry[cur[t]]
        lower == First(old, LeafSlots \div 2)
        upper == DOMAIN old \ lower
        low == Only(old, lower)
        high == Only(old, upper)
        below == Key(t) < Least(upper)
        n == top + 1
    IN
    /\ pc[t] = "write"
    /\ Size(old) = LeafSlots
    /\ n \in Nodes
    /\ top' = n
    /\ leaves' = leaves \cup {n}
    /\ entry' = [entry EXCEPT
                    ![cur[t]] = IF below THEN With(low, Key(t), Value(t)) ELSE low,
                    ![n] = IF below THEN high ELSE With(high, Key(t), Value(t))]
    /\ next' = ChainAfter(cur[t], n)
    /\ new' = [new EXCEPT ![t] = n]
    /\ Goto(t, "link")
    /\ UNCHANGED <<root, locked, leftmost, child, parent, mutex, todo,
                   arg, cur, par, answer>>

\* The parent of the leaf is read inside the second critical section.
EnterParent(t) ==
    /\ pc[t] = "link"
    /\ mutex = Null
    /\ mutex' = t
    /\ par' = [par EXCEPT ![t] = parent[cur[t]]]
    /\ Goto(t, "parent")
    /\ UNCHANGED <<node_vars, todo, arg, cur, new, answer>>

\* Mutant of MinKey: the key being inserted.
MinKeyArgument(t) ==
    IF new[t] \in leaves THEN Key(t) ELSE Least(DOMAIN child[new[t]])

\* min_key: the first key of the new node.
MinKey(t) ==
    Least(IF new[t] \in leaves THEN DOMAIN entry[new[t]] ELSE DOMAIN child[new[t]])

\* insert_into_parent returns and the critical section ends.
LeaveParent(t) ==
    /\ mutex' = Null
    /\ par' = [par EXCEPT ![t] = Null]
    /\ new' = [new EXCEPT ![t] = Null]
    /\ Goto(t, "unlock")
    /\ UNCHANGED <<leaves, entry, next, locked, todo, arg, cur, answer>>

GrowRoot(t) ==
    LET n == top + 1 IN
    /\ pc[t] = "parent"
    /\ par[t] = Null
    /\ n \in Nodes
    /\ top' = n
    /\ leftmost' = [leftmost EXCEPT ![n] = root]
    /\ child' = [child EXCEPT ![n] = With(NoEntries, MinKey(t), new[t])]
    /\ parent' = [parent EXCEPT ![root] = n, ![new[t]] = n]
    /\ root' = n
    /\ LeaveParent(t)

InsertChild(t) ==
    /\ pc[t] = "parent"
    /\ par[t] # Null
    /\ Size(child[par[t]]) # InnerSlots
    /\ child' = [child EXCEPT ![par[t]] = With(@, MinKey(t), new[t])]
    /\ parent' = [parent EXCEPT ![new[t]] = par[t]]
    /\ LeaveParent(t)
    /\ UNCHANGED <<top, root, leftmost>>

\* Mutant of Adopted: the moved children keep their old parent.
AdoptedNot(moved, p) == parent

\* The nodes moved to node p name it as their parent.
Adopted(moved, p) == [c \in Nodes |-> IF c \in moved THEN p ELSE parent[c]]

(***************************************************************************)
(* Split a full inner node.  The new one has no left-most pointer: it is   *)
(* never searched for a key below its first.                               *)
(***************************************************************************)
SplitInner(t) ==
    LET p == par[t]
        old == child[p]
        lower == First(old, InnerSlots \div 2)
        upper == DOMAIN old \ lower
        low == Only(old, lower)
        high == Only(old, upper)
        k == MinKey(t)
        below == k < Least(upper)
        n == top + 1
    IN
    /\ pc[t] = "parent"
    /\ p # Null
    /\ Size(old) = InnerSlots
    /\ n \in Nodes
    /\ top' = n
    /\ child' = [child EXCEPT
                    ![p] = IF below THEN With(low, k, new[t]) ELSE low,
                    ![n] = IF below THEN high ELSE With(high, k, new[t])]
    /\ parent' = [Adopted({old[s] : s \in upper}, n) EXCEPT
                    ![new[t]] = IF below THEN p ELSE n]
    /\ new' = [new EXCEPT ![t] = n]
    /\ par' = [par EXCEPT ![t] = parent[p]]
    /\ UNCHANGED <<leaves, root, entry, next, locked, leftmost,
                   mutex, todo, pc, arg, cur, answer>>

Unlock(t) ==
    /\ pc[t] = "unlock"
    /\ locked' = locked \ {cur[t]}
    /\ arg' = [arg EXCEPT ![t] = Null]
    /\ cur' = [cur EXCEPT ![t] = Null]
    /\ Goto(t, "idle")
    /\ UNCHANGED <<top, leaves, root, entry, next, leftmost, child, parent,
                   mutex, todo, par, new, answer>>

InsertStep(t) ==
    \/ FindAndLock(t) \/ WriteLeaf(t) \/ SplitLeaf(t) \/ EnterParent(t)
    \/ GrowRoot(t) \/ InsertChild(t) \/ SplitInner(t) \/ Unlock(t)

-----------------------------------------------------------------------------
(* Search and Remove, each one critical section once the leaf is unlocked *)

Invoke(t, k, label) ==
    /\ pc[t] = "idle"
    /\ arg' = [arg EXCEPT ![t] = <<k>>]
    /\ Goto(t, label)
    /\ UNCHANGED <<node_vars, mutex, todo, cur, par, new, answer>>

SearchInvoke(t, k) == Invoke(t, k, "search")
RemoveInvoke(t, k) == Invoke(t, k, "remove")

Return(t) ==
    /\ arg' = [arg EXCEPT ![t] = Null]
    /\ Goto(t, "idle")
    /\ UNCHANGED <<top, leaves, root, next, locked, leftmost, child, parent,
                   mutex, todo, cur, par, new>>

Found(n, k) == k \in DOMAIN entry[n]

Search(t) ==
    LET k == Key(t) IN
    /\ pc[t] = "search"
    /\ \E n \in Nodes :
          /\ OpenLeaf(k, n)
          /\ answer' = [key |-> k, ok |-> Found(n, k),
                        value |-> IF Found(n, k) THEN entry[n][k] ELSE 0]
    /\ UNCHANGED entry
    /\ Return(t)

\* A removed key stays in its leaf with the value 0.
Remove(t) ==
    LET k == Key(t) IN
    /\ pc[t] = "remove"
    /\ \E n \in Nodes :
          /\ OpenLeaf(k, n)
          /\ answer' = [key |-> k, ok |-> Found(n, k), value |-> 0]
          /\ entry' = IF Found(n, k) THEN [entry EXCEPT ![n] = With(@, k, 0)] ELSE entry
    /\ Return(t)

-----------------------------------------------------------------------------

CallStep(t) == MeetLock(t) \/ Retry(t) \/ InsertStep(t) \/ Search(t) \/ Remove(t)

Next ==
    \E t \in Threads :
        \/ \E e \in Entries : InsertInvoke(t, e)
        \/ \E k \in Asked : SearchInvoke(t, k) \/ RemoveInvoke(t, k)
        \/ CallStep(t)

Spec == Init /\ [][Next]_vars

(***************************************************************************)
(* A thread inside a call keeps running.  A thread that waits for a leaf   *)
(* takes and gives up the mutex again and again, so another one finds it   *)
(* free only now and then: strong fairness says that it gets the mutex     *)
(* nevertheless.  The code assumes this and does not ensure it: the mutex  *)
(* is a spin mutex without a queue.  With weak fairness the waiting thread *)
(* may always win against the one that has to unlock its leaf.             *)
(***************************************************************************)
FairSpec == Spec /\ \A t \in Threads : SF_vars(CallStep(t))

-----------------------------------------------------------------------------
(* Properties *)

TypeOK ==
    /\ top \in Nodes
    /\ leaves \subseteq 1 .. top
    /\ root \in 1 .. top
    /\ locked \subseteq leaves
    /\ \A n \in Nodes :
          /\ DOMAIN entry[n] \subseteq Keys /\ Size(entry[n]) <= LeafSlots
          /\ DOMAIN child[n] \subseteq Keys /\ Size(child[n]) <= InnerSlots
          /\ next[n] \in leaves \cup {Null}
          /\ leftmost[n] \in (1 .. top) \cup {Null}
          /\ parent[n] \in (1 .. top \ leaves) \cup {Null}
    /\ mutex \in Threads \cup {Null}
    /\ todo \subseteq Entries
    /\ pc \in [Threads -> {"idle", "find", "write", "link", "parent", "unlock",
                           "search", "remove"}]
    /\ arg \in [Threads -> Entries \cup {<<k>> : k \in Asked} \cup {Null}]
    /\ cur \in [Threads -> leaves \cup {Null}]
    /\ par \in [Threads -> (1 .. top \ leaves) \cup {Null}]
    /\ new \in [Threads -> (1 .. top) \cup {Null}]

(***************************************************************************)
(* A leaf has one writer: it is locked exactly while one insert works on   *)
(* it, and no two inserts work on one leaf.                                *)
(***************************************************************************)
OneWriter ==
    /\ locked = {cur[t] : t \in Threads} \ {Null}
    /\ \A t, u \in Threads : cur[t] = cur[u] /\ cur[t] # Null => t = u

\* No critical section is changing the inner nodes.
InnerAtRest == \A t \in Threads : pc[t] # "parent"

(***************************************************************************)
(* Whenever a search may start, the path from the root to a key leads to   *)
(* the leaf that holds it, or, if that leaf has just been split off, to    *)
(* its locked left half, where the operation waits.                        *)
(***************************************************************************)
PathFindsKey ==
    InnerAtRest =>
        \A n \in leaves : \A k \in DOMAIN entry[n] :
            \/ SearchLeaf(k) = n
            \/ \E t \in Threads : /\ pc[t] = "link" /\ new[t] = n
                                  /\ SearchLeaf(k) = cur[t]

(***************************************************************************)
(* Every node names its parent, which the next split of one of its         *)
(* children reads, in the middle of insert_into_parent too.                *)
(***************************************************************************)
ParentLinks ==
    /\ parent[root] = Null
    /\ \A p \in 1 .. top \ leaves :
          \A s \in DOMAIN child[p] : parent[child[p][s]] = p
    /\ \A p \in 1 .. top \ leaves : leftmost[p] # Null => parent[leftmost[p]] = p

(***************************************************************************)
(* A new leaf is linked right behind the leaf it was split from, under a   *)
(* key that its parent does not have yet, although other splits may have   *)
(* moved that leaf to another parent since it was locked.  Until it is     *)
(* linked, no other insert finds it.                                       *)
(***************************************************************************)
LinkTarget ==
    \A t \in Threads : new[t] \in leaves =>
        /\ new[t] \notin locked
        /\ pc[t] = "parent" /\ par[t] # Null =>
              /\ MinKey(t) \notin DOMAIN child[par[t]]
              /\ SearchDown(par[t], MinKey(t)) = cur[t]

\* The nodes on the chain that are at most so many steps behind header_.
Chain[steps \in 0 .. MaxNode] ==
    IF steps = 0 THEN {Header}
    ELSE LET seen == Chain[steps - 1] IN seen \cup ({next[n] : n \in seen} \ {Null})

(***************************************************************************)
(* The chain from header_ visits every leaf once in ascending key order,   *)
(* also while a split-off leaf has no parent: bptree_scan and the Iterator *)
(* follow it without the mutex.                                            *)
(***************************************************************************)
ChainSorted ==
    /\ Chain[MaxNode] = leaves
    /\ \A n \in leaves : next[n] # Null =>
          /\ next[n] # Header
          /\ \A j \in DOMAIN entry[n], k \in DOMAIN entry[next[n]] : j < k
          /\ DOMAIN entry[next[n]] # {}

(***************************************************************************)
(* Every insert returns: no leaf stays locked, and the threads that wait   *)
(* for a leaf, trying the mutex again and again, do not keep the one that  *)
(* has to link and unlock it from getting there.                           *)
(***************************************************************************)
InsertsReturn == \A t \in Threads : pc[t] # "idle" ~> pc[t] = "idle"

=============================================================================
