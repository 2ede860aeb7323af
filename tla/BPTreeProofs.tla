----------------------------- MODULE BPTreeProofs -----------------------------
(***************************************************************************)
(* The B+-tree is an atomic map, for every number of threads, every tree   *)
(* and every size of its nodes: leaf locks exclude, nodes do not overflow, *)
(* links and routes lead every key to its leaf, the chain of leaves is     *)
(* whole and in order, and the readers of a tree at rest see all of it.    *)
(***************************************************************************)
EXTENDS BPTreeRefinement, TreeReaders, TLAPS, FiniteSetTheorems, SequenceTheorems,
        WellFoundedInduction

\* A thread at one of these labels has no leaf, at the others it has one.
Outside == {"idle", "find", "search", "remove"}
Labels == Outside \cup {"write", "link", "parent", "unlock"}

\* Every step but those of an insert that takes, has or gives up a leaf.
OutsideStep(t) ==
    \/ \E e \in Entries : InsertInvoke(t, e)
    \/ \E k \in Asked : SearchInvoke(t, k) \/ RemoveInvoke(t, k)
    \/ MeetLock(t) \/ Retry(t) \/ Search(t) \/ Remove(t)

LEMMA NextIs ==
    ASSUME Next
    PROVE  \E t \in Threads : OutsideStep(t) \/ InsertStep(t)
  BY DEF Next, CallStep, OutsideStep

(***************************************************************************)
(* The inductive invariant: a thread that holds no leaf has no cur left    *)
(* over, so that FindAndLock forgets no lock.                              *)
(***************************************************************************)
LockInv ==
    /\ pc \in [Threads -> Labels]
    /\ cur \in [Threads -> Nodes \cup {Null}]
    /\ \A t \in Threads : pc[t] \in Outside => cur[t] = Null
    /\ OneWriter

LEMMA InitLockInv == Init => LockInv
  BY NullAssumption DEF Init, LockInv, Labels, Outside, OneWriter

(***************************************************************************)
(* A step that touches no lock, and moves its thread only between labels   *)
(* with a leaf or only between labels without one.                         *)
(***************************************************************************)
LEMMA UnlockedStep ==
    ASSUME LockInv, NEW t \in Threads, NEW label \in Labels,
           Goto(t, label), UNCHANGED <<cur, locked>>,
           label \in Outside => pc[t] \in Outside
    PROVE  LockInv'
<1>1. pc' \in [Threads -> Labels]
  BY DEF LockInv, Goto
<1>2. \A u \in Threads : pc'[u] = IF u = t THEN label ELSE pc[u]
  BY DEF LockInv, Goto
<1>3. OneWriter'
  BY DEF LockInv, OneWriter
<1> QED
  BY <1>1, <1>2, <1>3 DEF LockInv

(***************************************************************************)
(* Locking a leaf that nobody has locked.                                  *)
(***************************************************************************)
LEMMA FindAndLockStep ==
    ASSUME LockInv, NEW t \in Threads, FindAndLock(t)
    PROVE  LockInv'
<1>1. PICK n \in Nodes : /\ n \notin locked
                         /\ locked' = locked \cup {n}
                         /\ cur' = [cur EXCEPT ![t] = n]
  BY DEF FindAndLock, OpenLeaf
<1>2. cur[t] = Null /\ n # Null
  BY NullAssumption DEF LockInv, FindAndLock, Outside
<1>3. /\ \A u \in Threads : cur'[u] = IF u = t THEN n ELSE cur[u]
      /\ cur' \in [Threads -> Nodes \cup {Null}]
  BY <1>1 DEF LockInv
<1>4. /\ \A u \in Threads : pc'[u] = IF u = t THEN "write" ELSE pc[u]
      /\ pc' \in [Threads -> Labels]
  BY DEF LockInv, Labels, Outside, FindAndLock, Goto
<1>5. \A u \in Threads : cur[u] # n
  BY <1>1, <1>2 DEF LockInv, OneWriter
<1>6. locked' = {cur'[u] : u \in Threads} \ {Null}
  BY <1>1, <1>2, <1>3 DEF LockInv, OneWriter
<1>7. \A u, v \in Threads : cur'[u] = cur'[v] /\ cur'[u] # Null => u = v
  BY <1>3, <1>5 DEF LockInv, OneWriter
<1> QED
  BY <1>3, <1>4, <1>6, <1>7 DEF LockInv, OneWriter, Outside

(***************************************************************************)
(* Unlocking the leaf of one thread leaves the others' locks alone.        *)
(***************************************************************************)
LEMMA UnlockStep ==
    ASSUME LockInv, NEW t \in Threads, Unlock(t)
    PROVE  LockInv'
<1>1. /\ \A u \in Threads : cur'[u] = IF u = t THEN Null ELSE cur[u]
      /\ cur' \in [Threads -> Nodes \cup {Null}]
  BY DEF LockInv, Unlock
<1>2. /\ \A u \in Threads : pc'[u] = IF u = t THEN "idle" ELSE pc[u]
      /\ pc' \in [Threads -> Labels]
  BY DEF LockInv, Labels, Outside, Unlock, Goto
<1>3. locked' = {cur'[u] : u \in Threads} \ {Null}
  BY <1>1 DEF LockInv, OneWriter, Unlock
<1>4. \A u, v \in Threads : cur'[u] = cur'[v] /\ cur'[u] # Null => u = v
  BY <1>1 DEF LockInv, OneWriter
<1> QED
  BY <1>1, <1>2, <1>3, <1>4 DEF LockInv, OneWriter

LEMMA OutsideLocks ==
    ASSUME LockInv, NEW t \in Threads, OutsideStep(t)
    PROVE  /\ pc[t] \in Outside /\ \E label \in Outside : Goto(t, label)
           /\ UNCHANGED <<top, leaves, root, next, locked, leftmost, child, parent, cur, par, new>>
           /\ Remove(t) \/ UNCHANGED entry
<1>1. CASE MeetLock(t) \/ Retry(t)
  <2>1. pc[t] \in Outside /\ UNCHANGED <<node_vars, thread_vars>>
    BY <1>1 DEF MeetLock, Retry, Looks, Outside
  <2>2. Goto(t, pc[t])
    BY <2>1 DEF Goto, LockInv, thread_vars
  <2> QED
    BY <2>1, <2>2 DEF node_vars, thread_vars
<1>2. CASE \E e \in Entries : InsertInvoke(t, e)
  BY <1>2 DEF InsertInvoke, Outside, node_vars
<1>3. CASE \E k \in Asked : SearchInvoke(t, k) \/ RemoveInvoke(t, k)
  BY <1>3 DEF SearchInvoke, RemoveInvoke, Invoke, Outside, node_vars
<1>4. CASE Search(t) \/ Remove(t)
  <2>1. pc[t] \in {"search", "remove"} /\ Return(t)
    BY <1>4 DEF Search, Remove
  <2>2. Remove(t) \/ UNCHANGED entry
    BY <1>4 DEF Search
  <2> QED
    BY <2>1, <2>2 DEF Return, Outside
<1> QED
  BY <1>1, <1>2, <1>3, <1>4 DEF OutsideStep

LEMMA NextLockInv == LockInv /\ [Next]_vars => LockInv'
<1> SUFFICES ASSUME LockInv, [Next]_vars PROVE LockInv'
  OBVIOUS
<1>1. ASSUME UNCHANGED <<pc, cur, locked>> PROVE LockInv'
  BY <1>1 DEF LockInv, OneWriter
<1>2. ASSUME NEW t \in Threads, OutsideStep(t) PROVE LockInv'
  <2>1. PICK label \in Outside : Goto(t, label)
    BY <1>2, OutsideLocks
  <2>2. pc[t] \in Outside /\ UNCHANGED <<cur, locked>> /\ label \in Labels
    BY <1>2, <2>1, OutsideLocks DEF Labels
  <2> QED
    BY <2>1, <2>2, UnlockedStep
<1>3. ASSUME NEW t \in Threads, InsertStep(t) PROVE LockInv'
  <2>1. CASE WriteLeaf(t) \/ SplitLeaf(t)
    BY <2>1, UnlockedStep DEF WriteLeaf, SplitLeaf, Labels, Outside
  <2>2. CASE EnterParent(t)
    BY <2>2, UnlockedStep DEF EnterParent, node_vars, Labels, Outside
  <2>3. CASE GrowRoot(t) \/ InsertChild(t)
    BY <2>3, UnlockedStep DEF GrowRoot, InsertChild, LeaveParent, Labels, Outside
  <2>4. CASE SplitInner(t)
    BY <1>1, <2>4 DEF SplitInner
  <2> QED
    BY <1>3, <2>1, <2>2, <2>3, <2>4, FindAndLockStep, UnlockStep DEF InsertStep
<1>4. CASE UNCHANGED vars
  BY <1>1, <1>4 DEF vars, node_vars, thread_vars
<1> QED
  BY <1>2, <1>3, <1>4, NextIs

(***************************************************************************)
(* Two inserts never write or split one leaf at a time, and the lock byte  *)
(* of a leaf is set exactly while an insert works on it                    *)
(* (bptree-template.hpp:623-667): no lock is lost or left behind.          *)
(***************************************************************************)
THEOREM OneWriterHolds == Spec => []OneWriter
<1>1. LockInv => OneWriter
  BY DEF LockInv
<1> QED
  BY <1>1, InitLockInv, NextLockInv, PTL DEF Spec

-----------------------------------------------------------------------------
(* Finite sets of keys, and the nodes of the tree *)

LEMMA LeastNat ==
    ASSUME NEW S \in SUBSET Nat, S # {}
    PROVE  \E x \in S : \A y \in S : x <= y
<1>1. PICK x \in S : \A y \in S : ~ (<<y, x>> \in OpToRel(<, Nat))
  BY NatLessThanWellFounded, WFMin
<1>2. ASSUME NEW y \in S PROVE x <= y
  <2>1. x \in Nat /\ y \in Nat
    OBVIOUS
  <2>2. <<y, x>> \in OpToRel(<, Nat) <=> y < x
    BY <2>1 DEF OpToRel
  <2>3. ~ (<<y, x>> \in OpToRel(<, Nat))
    BY <1>1
  <2>4. ~ (y < x)
    BY <2>2, <2>3, Zenon
  <2> QED
    BY <2>1, <2>4
<1> QED
  BY <1>2

\* Every nonempty subset of a finite set of integers has an element below and
\* one above all others.
LEMMA FiniteBounds ==
    ASSUME NEW S \in SUBSET Int, IsFiniteSet(S), S # {}
    PROVE  /\ \E x \in S : \A y \in S : x <= y
           /\ \E x \in S : \A y \in S : y <= x
<1> DEFINE Bounded(T) == /\ \E x \in T : \A y \in T : x <= y
                         /\ \E x \in T : \A y \in T : y <= x
           Bad == {T \in SUBSET S : T # {} /\ ~Bounded(T)}
<1>1. CASE Bad = {}
  BY <1>1
<1>2. CASE Bad # {}
  <2>1. Bad \subseteq FiniteSubsetsOf(S)
    BY FS_Subset DEF FiniteSubsetsOf
  <2>2. PICK T \in Bad : \A U \in Bad : ~ (<<U, T>> \in StrictSubsetOrdering(S))
    <3> HIDE DEF Bad
    <3> QED
      BY <1>2, <2>1, FS_StrictSubsetOrderingWellFounded, WFMin
  <2>3. T \subseteq S /\ T # {} /\ ~Bounded(T)
    OBVIOUS
  <2>4. PICK x \in T : TRUE
    BY <2>3
  <2> DEFINE U == T \ {x}
  <2>5. U \notin Bad
    <3>1. <<U, T>> \in StrictSubsetOrdering(S)
      BY <2>3, <2>4 DEF StrictSubsetOrdering
    <3> QED
      BY <2>2, <3>1
  <2>6. CASE U = {}
    <3>1. T = {x} /\ x <= x
      BY <2>3, <2>4, <2>6
    <3> QED
      BY <2>3, <3>1
  <2>7. CASE U # {}
    <3>1. Bounded(U)
      BY <2>3, <2>5, <2>7
    <3>2. PICK a \in U : \A y \in U : a <= y
      BY <3>1
    <3>3. PICK b \in U : \A y \in U : y <= b
      BY <3>1
    <3> HIDE DEF Bad, Bounded
    <3>4. \E z \in T : \A y \in T : z <= y
      <4>1. CASE a <= x
        BY <2>3, <2>4, <3>2, <4>1
      <4>2. CASE ~(a <= x)
        <5>1. \A y \in T : x <= y
          BY <2>3, <2>4, <3>2, <4>2
        <5> QED
          BY <5>1
      <4> QED
        BY <4>1, <4>2
    <3>5. \E z \in T : \A y \in T : y <= z
      <4>1. CASE x <= b
        BY <2>3, <2>4, <3>3, <4>1
      <4>2. CASE ~(x <= b)
        <5>1. \A y \in T : y <= x
          BY <2>3, <2>4, <3>3, <4>2
        <5> QED
          BY <5>1
      <4> QED
        BY <4>1, <4>2
    <3> QED
      BY <2>3, <3>4, <3>5 DEF Bounded
  <2> QED
    BY <2>6, <2>7
<1> QED
  BY <1>1, <1>2

LEMMA LeastIs ==
    ASSUME NEW S \in SUBSET Int, IsFiniteSet(S), S # {}
    PROVE  Least(S) \in S /\ \A y \in S : Least(S) <= y
  BY FiniteBounds DEF Least

LEMMA GreatestIs ==
    ASSUME NEW S \in SUBSET Int, IsFiniteSet(S), S # {}
    PROVE  Greatest(S) \in S /\ \A y \in S : y <= Greatest(S)
  BY FiniteBounds DEF Greatest

\* An array of at most n keys and values from a set.
IsNode(f, n, range) ==
    /\ f \in [DOMAIN f -> range]
    /\ DOMAIN f \subseteq Keys
    /\ IsFiniteSet(DOMAIN f)
    /\ Size(f) <= n

LEMMA NodeSize ==
    ASSUME NEW f, NEW n, NEW range, IsNode(f, n, range)
    PROVE  Size(f) \in Nat /\ DOMAIN f \subseteq Int
  BY FS_CardinalityType, KeysAssumption DEF IsNode, Size

LEMMA WithNode ==
    ASSUME NEW n \in Nat, NEW range, NEW f, IsNode(f, n, range), NEW k \in Keys, NEW x \in range,
           Size(f) # n \/ k \in DOMAIN f
    PROVE  IsNode(With(f, k, x), n, range)
<1>1. DOMAIN With(f, k, x) = DOMAIN f \cup {k}
  BY DEF With
<1>2. With(f, k, x) \in [DOMAIN f \cup {k} -> range]
  BY DEF With, IsNode
<1>3. /\ IsFiniteSet(DOMAIN f \cup {k})
      /\ Cardinality(DOMAIN f \cup {k}) =
            IF k \in DOMAIN f THEN Cardinality(DOMAIN f) ELSE Cardinality(DOMAIN f) + 1
  BY FS_AddElement DEF IsNode
<1>4. Size(f) \in Nat /\ Size(f) <= n
  BY NodeSize DEF IsNode
<1> QED
  BY <1>1, <1>2, <1>3, <1>4 DEF IsNode, Size

\* The two halves of a node at a separator.
LowerHalf(f, sep) == Only(f, {j \in DOMAIN f : j < sep})
UpperHalf(f, sep) == Only(f, {j \in DOMAIN f : sep <= j})

LEMMA FirstIsLow ==
    ASSUME NEW f, NEW n \in Nat, NEW m \in Nat, NEW range, IsNode(f, n, range),
           Size(f) = n, 0 < m, m < n
    PROVE  /\ \E j \in DOMAIN f : j \in First(f, m)
           /\ \E j \in DOMAIN f : j \notin First(f, m)
           /\ \A i, j \in DOMAIN f : i < j /\ j \in First(f, m) => i \in First(f, m)
<1> DEFINE D == DOMAIN f
           Before(j) == {i \in D : i < j}
<1>1. D \in SUBSET Int /\ IsFiniteSet(D) /\ Cardinality(D) = n /\ D # {}
  BY NodeSize, FS_EmptySet DEF IsNode, Size
<1>2. \A j \in D : j \in First(f, m) <=> Cardinality(Before(j)) < m
  BY DEF First
<1>3. ASSUME NEW j \in D
      PROVE  Before(j) \in SUBSET D /\ IsFiniteSet(Before(j)) /\ Cardinality(Before(j)) \in Nat
  BY <1>1, FS_Subset, FS_CardinalityType
<1> HIDE DEF D
<1>4. \E j \in D : j \in First(f, m)
  <2>1. PICK j \in D : \A y \in D : j <= y
    BY <1>1, FiniteBounds
  <2>2. \A i \in D : ~ (i < j)
    BY <1>1, <2>1
  <2>3. Before(j) = {}
    BY <2>2
  <2> QED
    BY <1>2, <2>3, FS_EmptySet
<1>5. \E j \in D : j \notin First(f, m)
  <2>1. PICK j \in D : \A y \in D : y <= j
    BY <1>1, FiniteBounds
  <2>2. \A i \in D : i < j <=> i # j
    BY <1>1, <2>1
  <2>3. Before(j) = D \ {j}
    BY <2>2
  <2>4. Cardinality(D \ {j}) = n - 1
    BY <1>1, FS_RemoveElement
  <2> QED
    BY <1>2, <2>3, <2>4
<1>6. ASSUME NEW i \in D, NEW j \in D, i < j, j \in First(f, m)
      PROVE  i \in First(f, m)
  <2>1. Before(i) \in SUBSET Before(j)
    <3>1. i \in Int /\ j \in Int /\ D \subseteq Int
      BY <1>1
    <3>2. \A h \in D : h < i => h < j
      BY <1>6, <3>1
    <3> QED
      BY <3>2
  <2> HIDE DEF Before
  <2>2. Cardinality(Before(i)) <= Cardinality(Before(j))
    BY <1>3, <2>1, FS_Subset
  <2> QED
    BY <1>2, <1>3, <1>6, <2>2
<1> QED
  BY <1>4, <1>5, <1>6 DEF D

\* A split of a full node that takes one more entry is that entry and a cut.
LEMMA SplitIsCut ==
    ASSUME NEW f, NEW n \in Nat, n >= 2, NEW range, IsNode(f, n, range), Size(f) = n,
           NEW k \in Keys, NEW x \in range,
           NEW lower, lower = First(f, n \div 2), NEW upper, upper = DOMAIN f \ lower,
           NEW sep, sep = Least(upper), NEW g, g = With(f, k, x)
    PROVE  /\ sep \in DOMAIN f /\ \E j \in DOMAIN f : j < sep
           /\ upper = {j \in DOMAIN f : sep <= j}
           /\ IF k < sep THEN /\ With(Only(f, lower), k, x) = LowerHalf(g, sep)
                              /\ Only(f, upper) = UpperHalf(g, sep)
              ELSE /\ Only(f, lower) = LowerHalf(g, sep)
                   /\ With(Only(f, upper), k, x) = UpperHalf(g, sep)
           /\ IsNode(LowerHalf(g, sep), n, range)
           /\ IsNode(UpperHalf(g, sep), n, range)
<1> DEFINE D == DOMAIN f
<1>1. D \in SUBSET Int /\ IsFiniteSet(D) /\ Cardinality(D) = n /\ k \in Int
  BY NodeSize, KeysAssumption DEF IsNode, Size
<1>2. n \div 2 \in Nat /\ 0 < n \div 2 /\ n \div 2 < n
  OBVIOUS
<1>3. /\ \E j \in D : j \in lower
      /\ \E j \in D : j \notin lower
      /\ \A i, j \in D : i < j /\ j \in lower => i \in lower
  BY <1>2, FirstIsLow
<1>4. lower \subseteq D /\ upper \in SUBSET D /\ upper # {}
  BY <1>3 DEF First
<1>5. IsFiniteSet(upper) /\ upper \in SUBSET Int
  BY <1>1, <1>4, FS_Subset
<1>6. sep \in upper /\ \A y \in upper : sep <= y
  BY <1>4, <1>5, LeastIs
<1>7. sep \in D /\ sep \in Int
  BY <1>1, <1>4, <1>6
<1>8. \A j \in D : j \in lower <=> j < sep
  <2>1. ASSUME NEW j \in D, j \in lower PROVE j < sep
    <3>1. ~ (sep < j) /\ sep # j
      BY <1>3, <1>6, <1>7, <2>1
    <3> QED
      BY <1>1, <1>7, <3>1
  <2>2. ASSUME NEW j \in D, j \notin lower PROVE ~ (j < sep)
    BY <1>1, <1>6, <1>7, <2>2
  <2> QED
    BY <2>1, <2>2
<1>9. upper = {j \in D : sep <= j}
  BY <1>1, <1>7, <1>8
<1>10. lower = {j \in D : j < sep}
  BY <1>4, <1>8
<1>11. DOMAIN g = D \cup {k} /\ \A j \in D \cup {k} : g[j] = IF j = k THEN x ELSE f[j]
  BY DEF With
<1>12. ASSUME NEW S \in SUBSET D, S # D
       PROVE  IsFiniteSet(S) /\ Cardinality(S) < n /\ Cardinality(S) \in Nat
  <2>1. IsFiniteSet(S) /\ Cardinality(S) <= n /\ Cardinality(S) # n
    BY <1>1, <1>12, FS_Subset
  <2> QED
    BY <2>1, FS_CardinalityType
<1>13. ASSUME NEW S \in SUBSET D, S # D PROVE IsNode(Only(f, S), n, range) /\ Size(Only(f, S)) # n
  <2>1. DOMAIN Only(f, S) = S /\ Only(f, S) \in [S -> range]
    BY DEF Only, IsNode
  <2> QED
    BY <1>12, <1>13, <2>1 DEF IsNode, Size
<1>14. /\ lower \in SUBSET D /\ lower # D /\ upper # D
  BY <1>3, <1>4
<1>15. /\ IsNode(Only(f, lower), n, range) /\ IsNode(With(Only(f, lower), k, x), n, range)
       /\ IsNode(Only(f, upper), n, range) /\ IsNode(With(Only(f, upper), k, x), n, range)
  BY <1>4, <1>13, <1>14, WithNode
<1>16. sep \in D /\ \E j \in D : j < sep
  BY <1>3, <1>7, <1>8
<1>17. CASE k < sep
  <2>1. {j \in DOMAIN g : j < sep} = lower \cup {k}
    BY <1>10, <1>11, <1>17
  <2>2. {j \in DOMAIN g : sep <= j} = upper
    <3>1. ~ (sep <= k)
      BY <1>1, <1>7, <1>17
    <3> QED
      BY <1>9, <1>11, <3>1
  <2>3. k \notin upper
    BY <1>1, <1>7, <1>9, <1>17
  <2>4. With(Only(f, lower), k, x) = LowerHalf(g, sep)
    BY <1>4, <1>11, <2>1 DEF With, Only, LowerHalf
  <2>5. Only(f, upper) = UpperHalf(g, sep)
    BY <1>4, <1>11, <2>2, <2>3 DEF Only, UpperHalf
  <2> QED
    BY <1>9, <1>15, <1>17, <1>16, <2>4, <2>5
<1>18. CASE ~ (k < sep)
  <2>1. {j \in DOMAIN g : j < sep} = lower
    BY <1>10, <1>11, <1>18
  <2>2. {j \in DOMAIN g : sep <= j} = upper \cup {k}
    BY <1>1, <1>7, <1>9, <1>11, <1>18
  <2>3. k \notin lower
    BY <1>10, <1>18
  <2>4. Only(f, lower) = LowerHalf(g, sep)
    BY <1>4, <1>11, <2>1, <2>3 DEF Only, LowerHalf
  <2>5. With(Only(f, upper), k, x) = UpperHalf(g, sep)
    BY <1>4, <1>11, <2>2 DEF With, Only, UpperHalf
  <2> QED
    BY <1>9, <1>15, <1>18, <1>16, <2>4, <2>5
<1> QED
  BY <1>17, <1>18

-----------------------------------------------------------------------------
(* Types *)

Inner == 1 .. top \ leaves

Over(f, S) == f = [x \in S |-> f[x]]

NodesTyped ==
    /\ top \in Nodes /\ leaves \subseteq 1 .. top /\ root \in 1 .. top /\ Header \in leaves
    /\ Over(entry, Nodes) /\ \A n \in Nodes : IsNode(entry[n], LeafSlots, Values)
    /\ Over(child, Nodes) /\ \A n \in Nodes : IsNode(child[n], InnerSlots, 1 .. top)
    /\ next \in [Nodes -> leaves \cup {Null}]
    /\ leftmost \in [Nodes -> (1 .. top) \cup {Null}]
    /\ parent \in [Nodes -> Inner \cup {Null}]

\* Only the first leaf may be empty; a node that is not allocated is blank.
NodesFilled ==
    /\ \A n \in leaves : n # Header => DOMAIN entry[n] # {}
    /\ \A p \in Inner : DOMAIN child[p] # {}
    /\ \A n \in Nodes \ leaves : DOMAIN entry[n] = {} /\ next[n] = Null
    /\ \A n \in Nodes \ Inner : DOMAIN child[n] = {} /\ leftmost[n] = Null
    /\ \A n \in Nodes : top < n => parent[n] = Null

AskedArgs == {<<k>> : k \in Asked}
Args == Entries \cup AskedArgs

CallOf(t) ==
    /\ pc[t] \in {"find", "write", "link", "parent", "unlock"} => arg[t] \in Entries
    /\ pc[t] \in {"search", "remove"} => arg[t] \in AskedArgs
    /\ pc[t] \in {"write", "link", "parent", "unlock"} => cur[t] # Null
    /\ new[t] # Null <=> pc[t] \in {"link", "parent"}
    /\ new[t] # Header
    /\ par[t] # Null => pc[t] = "parent"
    /\ pc[t] = "link" => new[t] \in leaves
    /\ pc[t] = "parent" => mutex = t
    /\ mutex = t => pc[t] \in {"parent", "find", "search", "remove"}

Calls ==
    /\ mutex \in Threads \cup {Null}
    /\ todo \subseteq Entries
    /\ arg \in [Threads -> Args \cup {Null}]
    /\ cur \in [Threads -> leaves \cup {Null}]
    /\ par \in [Threads -> Inner \cup {Null}]
    /\ new \in [Threads -> (1 .. top) \cup {Null}]
    /\ \A t \in Threads : CallOf(t)

TypeInv == LockInv /\ NodesTyped /\ NodesFilled /\ Calls

LEMMA TypeInvShowsIt ==
    ASSUME TypeInv, locked \subseteq leaves
    PROVE  TypeOK
<1>1. \A n \in Nodes : DOMAIN entry[n] \subseteq Keys /\ Size(entry[n]) <= LeafSlots
  BY DEF TypeInv, NodesTyped, IsNode
<1>2. \A n \in Nodes : DOMAIN child[n] \subseteq Keys /\ Size(child[n]) <= InnerSlots
  BY DEF TypeInv, NodesTyped, IsNode
<1>3. \A n \in Nodes : /\ next[n] \in leaves \cup {Null}
                       /\ leftmost[n] \in (1 .. top) \cup {Null}
                       /\ parent[n] \in (1 .. top \ leaves) \cup {Null}
  BY DEF TypeInv, NodesTyped, Inner
<1> QED
  BY <1>1, <1>2, <1>3 DEF TypeOK, TypeInv, NodesTyped, Calls, Inner, LockInv, Labels, Outside,
     Args, AskedArgs

LEMMA LockedLeaves == TypeInv => locked \subseteq leaves
  BY DEF TypeInv, Calls, LockInv, OneWriter

LEMMA NoEntriesIsNode ==
    ASSUME NEW n \in Nat, NEW range
    PROVE  IsNode(NoEntries, n, range) /\ DOMAIN NoEntries = {}
<1>1. DOMAIN NoEntries = {} /\ NoEntries \in [{} -> range]
  BY DEF NoEntries
<1>2. IsFiniteSet({}) /\ Cardinality({}) = 0
  BY FS_EmptySet
<1> QED
  BY <1>1, <1>2 DEF IsNode, Size

LEMMA InitTypeInv == Init => TypeInv
<1> SUFFICES ASSUME Init PROVE TypeInv
  OBVIOUS
<1>1. LockInv
  BY InitLockInv
<1>2. 1 \in Nodes /\ 1 .. 1 = {1} /\ Header = 1 /\ Header # Null
  BY SlotsAssumption, NullAssumption DEF Nodes, Header
<1>3. \A n \in Nodes : IsNode(entry[n], LeafSlots, Values) /\ IsNode(child[n], InnerSlots, 1 .. top)
  BY NoEntriesIsNode, SlotsAssumption DEF Init
<1>4. NodesTyped
  BY <1>2, <1>3 DEF Init, NodesTyped, Over
<1>5. NodesFilled
  <2>1. DOMAIN NoEntries = {}
    BY DEF NoEntries
  <2>2. Inner = {}
    BY <1>2 DEF Init, Inner
  <2> QED
    BY <1>2, <2>1, <2>2 DEF Init, NodesFilled
<1>6. Calls
  BY <1>2, NullAssumption DEF Init, Calls, CallOf
<1> QED
  BY <1>1, <1>4, <1>5, <1>6 DEF TypeInv

LEMMA WiderNode ==
    ASSUME NEW f, NEW n, NEW r, NEW s, IsNode(f, n, r), r \subseteq s
    PROVE  IsNode(f, n, s)
<1>1. f \in [DOMAIN f -> s]
  BY DEF IsNode
<1> QED
  BY <1>1 DEF IsNode

\* The argument of a call, and the first key of the node it has split off.
LEMMA ArgKey ==
    ASSUME TypeInv, NEW t \in Threads, pc[t] \in {"find", "write", "link", "parent", "unlock"}
    PROVE  Key(t) \in Keys /\ Value(t) \in Values
  BY KeysAssumption DEF TypeInv, Calls, CallOf, Key, Value

LEMMA AskedKey ==
    ASSUME TypeInv, NEW t \in Threads, pc[t] \in {"search", "remove"}
    PROVE  Key(t) \in Asked /\ Key(t) \in Keys /\ arg[t] = <<Key(t)>>
  BY KeysAssumption DEF TypeInv, Calls, CallOf, Key, AskedArgs

LEMMA MinKeyIs ==
    ASSUME TypeInv, NEW t \in Threads, pc[t] \in {"link", "parent"}
    PROVE  /\ new[t] \in 1 .. top /\ new[t] \in Nodes
           /\ MinKey(t) \in Keys
           /\ new[t] \in leaves => /\ MinKey(t) \in DOMAIN entry[new[t]]
                                   /\ \A j \in DOMAIN entry[new[t]] : MinKey(t) <= j
           /\ new[t] \notin leaves => /\ MinKey(t) \in DOMAIN child[new[t]]
                                      /\ \A j \in DOMAIN child[new[t]] : MinKey(t) <= j
<1>1. /\ new[t] \in 1 .. top /\ new[t] # Header
      /\ top \in Nodes
  BY DEF TypeInv, NodesTyped, Calls, CallOf
<1>2. new[t] \in Nodes
  BY <1>1, SlotsAssumption DEF Nodes
<1>3. CASE new[t] \in leaves
  <2>1. DOMAIN entry[new[t]] # {} /\ IsNode(entry[new[t]], LeafSlots, Values)
    BY <1>1, <1>2, <1>3 DEF TypeInv, NodesTyped, NodesFilled
  <2>2. DOMAIN entry[new[t]] \in SUBSET Int /\ DOMAIN entry[new[t]] \subseteq Keys
    BY <2>1, KeysAssumption DEF IsNode
  <2>3. Least(DOMAIN entry[new[t]]) \in DOMAIN entry[new[t]]
        /\ \A j \in DOMAIN entry[new[t]] : Least(DOMAIN entry[new[t]]) <= j
    BY <2>1, <2>2, LeastIs DEF IsNode
  <2> QED
    BY <1>1, <1>2, <1>3, <2>2, <2>3 DEF MinKey
<1>4. CASE new[t] \notin leaves
  <2>1. DOMAIN child[new[t]] # {} /\ IsNode(child[new[t]], InnerSlots, 1 .. top)
    BY <1>1, <1>2, <1>4 DEF TypeInv, NodesTyped, NodesFilled, Inner
  <2>2. DOMAIN child[new[t]] \in SUBSET Int /\ DOMAIN child[new[t]] \subseteq Keys
    BY <2>1, KeysAssumption DEF IsNode
  <2>3. Least(DOMAIN child[new[t]]) \in DOMAIN child[new[t]]
        /\ \A j \in DOMAIN child[new[t]] : Least(DOMAIN child[new[t]]) <= j
    BY <2>1, <2>2, LeastIs DEF IsNode
  <2> QED
    BY <1>1, <1>2, <1>4, <2>2, <2>3 DEF MinKey
<1> QED
  BY <1>3, <1>4

-----------------------------------------------------------------------------
(* What a split does *)

LEMMA NodesWithin ==
    ASSUME TypeInv
    PROVE  /\ 1 .. top \subseteq Nodes /\ leaves \subseteq 1 .. top /\ Inner \subseteq 1 .. top
           /\ top \in Nat /\ Null \notin 1 .. top
           /\ top + 1 \notin 1 .. top
<1>1. top \in 1 .. MaxNode /\ leaves \subseteq 1 .. top /\ MaxNode \in Nat
  BY SlotsAssumption DEF TypeInv, NodesTyped, Nodes
<1>2. 1 .. top \subseteq Nodes /\ top \in Nat
  BY <1>1 DEF Nodes
<1> QED
  BY <1>1, <1>2, NullAssumption DEF Inner

LEMMA WriteAt ==
    ASSUME TypeInv, NEW t \in Threads, pc[t] = "write"
    PROVE  /\ cur[t] \in leaves /\ cur[t] \in Nodes
           /\ Key(t) \in Keys /\ Value(t) \in Values
           /\ IsNode(entry[cur[t]], LeafSlots, Values)
<1>1. cur[t] \in leaves /\ leaves \subseteq 1 .. top /\ top \in Nodes
  BY DEF TypeInv, NodesTyped, Calls, CallOf
<1>2. cur[t] \in Nodes
  BY <1>1, NodesWithin
<1> QED
  BY <1>1, <1>2, ArgKey DEF TypeInv, NodesTyped

LEMMA SplitLeafIs ==
    ASSUME TypeInv, NEW t \in Threads, SplitLeaf(t),
           NEW q, q = cur[t], NEW n, n = top + 1, NEW e, e = With(entry[q], Key(t), Value(t))
    PROVE  /\ n \in Nodes
           /\ \E sep \in DOMAIN entry[q] :
                 /\ \E j \in DOMAIN entry[q] : j < sep
                 /\ IsNode(LowerHalf(e, sep), LeafSlots, Values)
                 /\ IsNode(UpperHalf(e, sep), LeafSlots, Values)
                 /\ entry' = [entry EXCEPT ![q] = LowerHalf(e, sep), ![n] = UpperHalf(e, sep)]
<1> DEFINE old == entry[q]
           lower == First(old, LeafSlots \div 2)
           upper == DOMAIN old \ lower
           sep == Least(upper)
<1>1. /\ Size(old) = LeafSlots /\ n \in Nodes
      /\ entry' = [entry EXCEPT
            ![q] = IF Key(t) < sep THEN With(Only(old, lower), Key(t), Value(t)) ELSE Only(old, lower),
            ![n] = IF Key(t) < sep THEN Only(old, upper) ELSE With(Only(old, upper), Key(t), Value(t))]
  BY DEF SplitLeaf
<1>2. /\ Key(t) \in Keys /\ Value(t) \in Values /\ IsNode(old, LeafSlots, Values)
  BY WriteAt DEF SplitLeaf
<1>3. LeafSlots \in Nat /\ LeafSlots >= 2
  BY SlotsAssumption
<1>4. /\ sep \in DOMAIN old /\ \E j \in DOMAIN old : j < sep
      /\ IF Key(t) < sep THEN /\ With(Only(old, lower), Key(t), Value(t)) = LowerHalf(e, sep)
                              /\ Only(old, upper) = UpperHalf(e, sep)
         ELSE /\ Only(old, lower) = LowerHalf(e, sep)
              /\ With(Only(old, upper), Key(t), Value(t)) = UpperHalf(e, sep)
      /\ IsNode(LowerHalf(e, sep), LeafSlots, Values)
      /\ IsNode(UpperHalf(e, sep), LeafSlots, Values)
  <2> HIDE DEF old
  <2>1. PICK lo, up, s : lo = lower /\ up = upper /\ s = sep
    OBVIOUS
  <2>2. lo = First(old, LeafSlots \div 2) /\ up = DOMAIN old \ lo /\ s = Least(up)
    BY <2>1
  <2>3. e = With(old, Key(t), Value(t))
    BY DEF old
  <2> HIDE DEF lower, upper, sep
  <2> QED
    BY <1>1, <1>2, <1>3, <2>1, <2>2, <2>3, SplitIsCut
<1>5. entry' = [entry EXCEPT ![q] = LowerHalf(e, sep), ![n] = UpperHalf(e, sep)]
  <2> HIDE DEF lower, upper, sep
  <2>1. CASE Key(t) < sep
    BY <1>1, <1>4, <2>1
  <2>2. CASE ~ (Key(t) < sep)
    BY <1>1, <1>4, <2>2
  <2> QED
    BY <2>1, <2>2
<1> HIDE DEF sep, old
<1> QED
  BY <1>1, <1>4, <1>5 DEF old

LEMMA ParentAt ==
    ASSUME TypeInv, NEW t \in Threads, pc[t] = "parent", par[t] # Null
    PROVE  /\ par[t] \in Inner /\ par[t] \in Nodes /\ par[t] \in 1 .. top
           /\ IsNode(child[par[t]], InnerSlots, 1 .. top)
<1>1. par[t] \in Inner /\ top \in Nodes
  BY DEF TypeInv, NodesTyped, Calls
<1>2. par[t] \in Nodes /\ par[t] \in 1 .. top
  BY <1>1, SlotsAssumption DEF Nodes, Inner
<1> QED
  BY <1>1, <1>2 DEF TypeInv, NodesTyped

\* Node m joins its full parent p under key k, and p is cut at sep.
CutAt(p, n, m, k, g, sep) ==
    /\ \E j \in DOMAIN child[p] : j < sep
    /\ IsNode(LowerHalf(g, sep), InnerSlots, 1 .. top)
    /\ IsNode(UpperHalf(g, sep), InnerSlots, 1 .. top)
    /\ child' = [child EXCEPT ![p] = LowerHalf(g, sep), ![n] = UpperHalf(g, sep)]
    /\ parent' = [Adopted({child[p][s] : s \in {s \in DOMAIN child[p] : sep <= s}}, n)
                    EXCEPT ![m] = IF k < sep THEN p ELSE n]

LEMMA SplitInnerIs ==
    ASSUME TypeInv, NEW t \in Threads, SplitInner(t),
           NEW p, p = par[t], NEW n, n = top + 1, NEW k, k = MinKey(t),
           NEW g, g = With(child[p], k, new[t])
    PROVE  /\ n \in Nodes
           /\ \E sep \in DOMAIN child[p] : CutAt(p, n, new[t], k, g, sep)
<1> DEFINE old == child[p]
           lower == First(old, InnerSlots \div 2)
           upper == DOMAIN old \ lower
           sep == Least(upper)
<1>1. /\ Size(old) = InnerSlots /\ n \in Nodes
      /\ child' = [child EXCEPT
            ![p] = IF k < sep THEN With(Only(old, lower), k, new[t]) ELSE Only(old, lower),
            ![n] = IF k < sep THEN Only(old, upper) ELSE With(Only(old, upper), k, new[t])]
      /\ parent' = [Adopted({old[s] : s \in upper}, n) EXCEPT ![new[t]] = IF k < sep THEN p ELSE n]
  BY DEF SplitInner
<1>2. /\ k \in Keys /\ new[t] \in 1 .. top /\ IsNode(old, InnerSlots, 1 .. top)
  BY MinKeyIs, ParentAt DEF SplitInner
<1>3. InnerSlots \in Nat /\ InnerSlots >= 2
  BY SlotsAssumption
<1>4. /\ sep \in DOMAIN old /\ \E j \in DOMAIN old : j < sep
      /\ upper = {j \in DOMAIN old : sep <= j}
      /\ IF k < sep THEN /\ With(Only(old, lower), k, new[t]) = LowerHalf(g, sep)
                         /\ Only(old, upper) = UpperHalf(g, sep)
         ELSE /\ Only(old, lower) = LowerHalf(g, sep)
              /\ With(Only(old, upper), k, new[t]) = UpperHalf(g, sep)
      /\ IsNode(LowerHalf(g, sep), InnerSlots, 1 .. top)
      /\ IsNode(UpperHalf(g, sep), InnerSlots, 1 .. top)
  <2> HIDE DEF old
  <2>1. PICK lo, up, s : lo = lower /\ up = upper /\ s = sep
    OBVIOUS
  <2>2. lo = First(old, InnerSlots \div 2) /\ up = DOMAIN old \ lo /\ s = Least(up)
    BY <2>1
  <2>3. g = With(old, k, new[t])
    BY DEF old
  <2> HIDE DEF lower, upper, sep
  <2>4. PICK r : r = 1 .. top
    OBVIOUS
  <2>5. new[t] \in r /\ IsNode(old, InnerSlots, r) /\ Size(old) = InnerSlots
    BY <1>1, <1>2, <2>4
  <2>6. /\ s \in DOMAIN old /\ \E j \in DOMAIN old : j < s
        /\ up = {j \in DOMAIN old : s <= j}
        /\ IF k < s THEN /\ With(Only(old, lo), k, new[t]) = LowerHalf(g, s)
                         /\ Only(old, up) = UpperHalf(g, s)
           ELSE /\ Only(old, lo) = LowerHalf(g, s)
                /\ With(Only(old, up), k, new[t]) = UpperHalf(g, s)
        /\ IsNode(LowerHalf(g, s), InnerSlots, r)
        /\ IsNode(UpperHalf(g, s), InnerSlots, r)
    BY <1>2, <1>3, <2>2, <2>3, <2>5, SplitIsCut
  <2> QED
    BY <2>1, <2>4, <2>6
<1>5. child' = [child EXCEPT ![p] = LowerHalf(g, sep), ![n] = UpperHalf(g, sep)]
  <2> HIDE DEF lower, upper, sep
  <2>1. CASE k < sep
    BY <1>1, <1>4, <2>1
  <2>2. CASE ~ (k < sep)
    BY <1>1, <1>4, <2>2
  <2> QED
    BY <2>1, <2>2
<1> HIDE DEF sep
<1>6. parent' = [Adopted({old[s] : s \in {s \in DOMAIN old : sep <= s}}, n)
                   EXCEPT ![new[t]] = IF k < sep THEN p ELSE n]
  BY <1>1, <1>4
<1> HIDE DEF upper, lower
<1> QED
  BY <1>1, <1>4, <1>5, <1>6 DEF CutAt

-----------------------------------------------------------------------------
(* Every step keeps the types *)

\* A step that changes no node, and of one thread its call.
LEMMA CallStepTypes ==
    ASSUME TypeInv, LockInv', NEW t \in Threads, CallOf(t)',
           UNCHANGED <<top, leaves, root, entry, next, leftmost, child, parent>>,
           mutex' \in Threads \cup {Null}, todo' \subseteq Entries,
           \A u \in Threads \ {t} : mutex' = u <=> mutex = u,
           pc' \in [Threads -> Labels], \A u \in Threads \ {t} : pc'[u] = pc[u],
           arg' \in [Threads -> Args \cup {Null}], \A u \in Threads \ {t} : arg'[u] = arg[u],
           cur' \in [Threads -> leaves \cup {Null}], \A u \in Threads \ {t} : cur'[u] = cur[u],
           par' \in [Threads -> Inner \cup {Null}], \A u \in Threads \ {t} : par'[u] = par[u],
           new' \in [Threads -> (1 .. top) \cup {Null}], \A u \in Threads \ {t} : new'[u] = new[u]
    PROVE  TypeInv'
<1>1. NodesTyped' /\ NodesFilled'
  BY DEF TypeInv, NodesTyped, NodesFilled, Over, Inner
<1>2. \A u \in Threads : CallOf(u)'
  BY DEF TypeInv, Calls, CallOf
<1>3. Calls'
  BY <1>2 DEF TypeInv, Calls, Inner
<1> QED
  BY <1>1, <1>3 DEF TypeInv

\* A call is made, tries in vain, or returns.
LEMMA OutsideCalls ==
    ASSUME TypeInv, NEW t \in Threads, OutsideStep(t)
    PROVE  Calls' /\ \A u \in Threads \ {t} : arg'[u] = arg[u] /\ pc'[u] = pc[u]
<1>1. /\ pc[t] \in Outside /\ \E label \in Outside : pc' = [pc EXCEPT ![t] = label]
      /\ UNCHANGED <<top, leaves, cur, par, new>>
  BY OutsideLocks DEF TypeInv, Goto
<1>2. /\ arg' \in [Threads -> Args \cup {Null}] /\ \A u \in Threads \ {t} : arg'[u] = arg[u]
      /\ pc'[t] = "find" => arg'[t] \in Entries
      /\ pc'[t] \in {"search", "remove"} => arg'[t] \in AskedArgs
      /\ mutex' \in Threads \cup {Null} /\ todo' \subseteq Entries
      /\ \A u \in Threads \ {t} : mutex' = u <=> mutex = u
      /\ mutex' = t => pc'[t] \in {"find", "search", "remove"}
  <2>1. CASE MeetLock(t) \/ Retry(t)
    <3>1. /\ UNCHANGED <<pc, arg, todo>> /\ Looks(t)
          /\ (mutex = Null /\ mutex' = t) \/ (mutex = t /\ mutex' = Null)
      BY <2>1 DEF MeetLock, Retry, thread_vars
    <3> QED
      BY <3>1, NullAssumption DEF TypeInv, Calls, CallOf, Looks
  <2>2. CASE \E e \in Entries : InsertInvoke(t, e)
    <3>1. PICK e \in Entries : InsertInvoke(t, e)
      BY <2>2
    <3>2. /\ arg' = [arg EXCEPT ![t] = e] /\ pc' = [pc EXCEPT ![t] = "find"]
          /\ todo' \subseteq todo /\ mutex' = mutex /\ pc[t] = "idle"
      BY <3>1 DEF InsertInvoke, Goto
    <3> QED
      BY <3>2 DEF TypeInv, Calls, CallOf, LockInv, Args
  <2>3. CASE \E k \in Asked : SearchInvoke(t, k) \/ RemoveInvoke(t, k)
    <3>1. PICK k \in Asked, label \in {"search", "remove"} : Invoke(t, k, label)
      BY <2>3 DEF SearchInvoke, RemoveInvoke
    <3>2. /\ arg' = [arg EXCEPT ![t] = <<k>>] /\ pc' = [pc EXCEPT ![t] = label]
          /\ todo' = todo /\ mutex' = mutex /\ pc[t] = "idle" /\ <<k>> \in AskedArgs
      BY <3>1 DEF Invoke, Goto, AskedArgs
    <3> QED
      BY <3>2 DEF TypeInv, Calls, CallOf, LockInv, Args
  <2>4. CASE Search(t) \/ Remove(t)
    <3>1. /\ Return(t) /\ mutex = Null
      BY <2>4 DEF Search, Remove, OpenLeaf
    <3>2. /\ arg' = [arg EXCEPT ![t] = Null] /\ pc' = [pc EXCEPT ![t] = "idle"]
          /\ todo' = todo /\ mutex' = mutex
      BY <3>1 DEF Return, Goto
    <3> QED
      BY <3>1, <3>2, NullAssumption DEF TypeInv, Calls, LockInv
  <2> QED
    BY <2>1, <2>2, <2>3, <2>4 DEF OutsideStep
<1>3. pc'[t] \in Outside /\ \A u \in Threads \ {t} : pc'[u] = pc[u]
  BY <1>1 DEF TypeInv, LockInv
<1>4. \A u \in Threads \ {t} : CallOf(u)'
  BY <1>1, <1>2, <1>3 DEF TypeInv, Calls, CallOf
<1>5. CallOf(t)'
  BY <1>1, <1>2, <1>3 DEF TypeInv, Calls, CallOf, Outside
<1> QED
  BY <1>1, <1>2, <1>3, <1>4, <1>5 DEF TypeInv, Calls, Inner

LEMMA CallTypes ==
    ASSUME TypeInv, LockInv', NEW t \in Threads,
           \/ OutsideStep(t) /\ UNCHANGED entry
           \/ FindAndLock(t) \/ EnterParent(t) \/ Unlock(t)
    PROVE  TypeInv'
<1>1. CASE OutsideStep(t) /\ UNCHANGED entry
  <2>1. Calls' /\ UNCHANGED <<top, leaves, root, next, leftmost, child, parent, entry>>
    BY <1>1, OutsideCalls, OutsideLocks DEF TypeInv
  <2>2. NodesTyped' /\ NodesFilled'
    BY <2>1 DEF TypeInv, NodesTyped, NodesFilled, Over, Inner
  <2> QED
    BY <2>1, <2>2 DEF TypeInv
<1>2. CASE FindAndLock(t)
  <2>1. PICK n \in leaves : cur' = [cur EXCEPT ![t] = n]
    BY <1>2 DEF FindAndLock, OpenLeaf
  <2>2. /\ pc' = [pc EXCEPT ![t] = "write"] /\ pc[t] = "find" /\ mutex = Null
        /\ UNCHANGED <<top, leaves, root, entry, next, leftmost, child, parent, mutex, todo, arg, par, new>>
    BY <1>2 DEF FindAndLock, OpenLeaf, Goto
  <2>3. n # Null /\ mutex # t
    BY <2>1, <2>2, NodesWithin, NullAssumption
  <2>4. CallOf(t)'
    BY <2>1, <2>2, <2>3 DEF TypeInv, Calls, CallOf, LockInv
  <2> QED
    BY <2>1, <2>2, <2>4, CallStepTypes DEF TypeInv, Calls, LockInv, Labels
<1>3. CASE EnterParent(t)
  <2>1. /\ pc' = [pc EXCEPT ![t] = "parent"] /\ pc[t] = "link" /\ mutex = Null /\ mutex' = t
        /\ par' = [par EXCEPT ![t] = parent[cur[t]]]
        /\ UNCHANGED <<node_vars, todo, arg, cur, new>>
    BY <1>3 DEF EnterParent, Goto
  <2>2. cur[t] \in leaves /\ parent[cur[t]] \in Inner \cup {Null}
    <3>1. cur[t] \in leaves
      BY <2>1 DEF TypeInv, Calls, CallOf
    <3>2. cur[t] \in Nodes
      BY <3>1, NodesWithin
    <3> QED
      BY <3>1, <3>2 DEF TypeInv, NodesTyped
  <2>3. CallOf(t)'
    BY <2>1 DEF TypeInv, Calls, CallOf, LockInv
  <2> QED
    BY <2>1, <2>2, <2>3, NullAssumption, CallStepTypes
       DEF TypeInv, Calls, LockInv, Labels, node_vars
<1>4. CASE Unlock(t)
  <2>1. /\ pc' = [pc EXCEPT ![t] = "idle"] /\ pc[t] = "unlock"
        /\ arg' = [arg EXCEPT ![t] = Null] /\ cur' = [cur EXCEPT ![t] = Null]
        /\ UNCHANGED <<top, leaves, root, entry, next, leftmost, child, parent, mutex, todo, par, new>>
    BY <1>4 DEF Unlock, Goto
  <2>2. CallOf(t)'
    BY <2>1 DEF TypeInv, Calls, CallOf, LockInv
  <2> QED
    BY <2>1, <2>2, CallStepTypes DEF TypeInv, Calls, LockInv, Labels
<1> QED
  BY <1>1, <1>2, <1>3, <1>4

\* Entries are written, none is removed.
LEMMA EntryTypes ==
    ASSUME TypeInv, LockInv', NEW q \in leaves, NEW f, IsNode(f, LeafSlots, Values), DOMAIN f # {},
           entry' = [entry EXCEPT ![q] = f],
           UNCHANGED <<top, leaves, root, next, leftmost, child, parent>>, Calls'
    PROVE  TypeInv'
<1>1. q \in Nodes
  BY NodesWithin
<1>2. entry'[q] = f /\ \A n \in Nodes \ {q} : entry'[n] = entry[n]
  BY <1>1 DEF TypeInv, NodesTyped, Over
<1>3. Over(entry', Nodes)
  BY DEF TypeInv, NodesTyped, Over
<1>4. NodesTyped'
  BY <1>2, <1>3 DEF TypeInv, NodesTyped, Inner, Over
<1>5. NodesFilled'
  BY <1>1, <1>2 DEF TypeInv, NodesFilled, Inner
<1> QED
  BY <1>4, <1>5 DEF TypeInv

LEMMA WriteTypes ==
    ASSUME TypeInv, LockInv', NEW t \in Threads, WriteLeaf(t)
    PROVE  TypeInv'
<1>1. /\ pc[t] = "write" /\ Size(entry[cur[t]]) # LeafSlots
      /\ entry' = [entry EXCEPT ![cur[t]] = With(entry[cur[t]], Key(t), Value(t))]
      /\ pc' = [pc EXCEPT ![t] = "unlock"]
      /\ UNCHANGED <<top, leaves, root, next, locked, leftmost, child, parent,
                     mutex, todo, arg, cur, par, new>>
  BY DEF WriteLeaf, Goto
<1>2. /\ cur[t] \in leaves /\ IsNode(With(entry[cur[t]], Key(t), Value(t)), LeafSlots, Values)
      /\ DOMAIN With(entry[cur[t]], Key(t), Value(t)) # {}
  <2>1. DOMAIN With(entry[cur[t]], Key(t), Value(t)) # {}
    BY DEF With
  <2> QED
    BY <1>1, <2>1, WriteAt, WithNode, SlotsAssumption
<1>3. Calls'
  <2>1. \A u \in Threads : CallOf(u)'
    BY <1>1 DEF TypeInv, Calls, CallOf, LockInv
  <2> QED
    BY <1>1, <2>1 DEF TypeInv, Calls, Inner
<1> QED
  BY <1>1, <1>2, <1>3, EntryTypes

LEMMA RemoveTypes ==
    ASSUME TypeInv, LockInv', NEW t \in Threads, Remove(t), NEW k, k = Key(t)
    PROVE  TypeInv'
<1>1. PICK n \in Nodes : /\ n \in leaves
                         /\ entry' = IF Found(n, k) THEN [entry EXCEPT ![n] = With(entry[n], k, 0)] ELSE entry
  BY DEF Remove, OpenLeaf
<1>2. UNCHANGED <<top, leaves, root, next, locked, leftmost, child, parent>>
  BY DEF Remove, Return
<1>3. Calls'
  <2>1. OutsideStep(t)
    BY DEF OutsideStep
  <2> QED
    BY <2>1, OutsideCalls
<1>4. CASE Found(n, k)
  <2>1. IsNode(entry[n], LeafSlots, Values) /\ k \in DOMAIN entry[n] /\ k \in Keys /\ 0 \in Values
    BY <1>4, KeysAssumption DEF TypeInv, NodesTyped, Found, IsNode
  <2>2. IsNode(With(entry[n], k, 0), LeafSlots, Values) /\ DOMAIN With(entry[n], k, 0) # {}
    <3>1. DOMAIN With(entry[n], k, 0) # {}
      BY DEF With
    <3> QED
      BY <2>1, <3>1, WithNode, SlotsAssumption
  <2> QED
    BY <1>1, <1>2, <1>3, <1>4, <2>2, EntryTypes
<1>5. CASE ~Found(n, k)
  <2>1. NodesTyped' /\ NodesFilled'
    BY <1>1, <1>2, <1>5 DEF TypeInv, NodesTyped, NodesFilled, Over, Inner
  <2> QED
    BY <1>3, <2>1 DEF TypeInv
<1> QED
  BY <1>4, <1>5

\* A leaf is split: its upper half and the new leaf are as full as it takes.
LEMMA SplitLeafTypes ==
    ASSUME TypeInv, LockInv', NEW t \in Threads, SplitLeaf(t)
    PROVE  TypeInv'
<1>1. PICK q, n, e : /\ q = cur[t] /\ n = top + 1 /\ e = With(entry[q], Key(t), Value(t))
  OBVIOUS
<1>2. /\ pc[t] = "write" /\ pc' = [pc EXCEPT ![t] = "link"]
      /\ top' = n /\ leaves' = leaves \cup {n}
      /\ next' = [next EXCEPT ![n] = next[q], ![q] = n]
      /\ new' = [new EXCEPT ![t] = n]
      /\ UNCHANGED <<root, locked, leftmost, child, parent, mutex, todo, arg, cur, par>>
  BY <1>1 DEF SplitLeaf, Goto, ChainAfter
<1>3. PICK sep \in DOMAIN entry[q] :
                 /\ \E j \in DOMAIN entry[q] : j < sep
                 /\ IsNode(LowerHalf(e, sep), LeafSlots, Values)
                 /\ IsNode(UpperHalf(e, sep), LeafSlots, Values)
                 /\ entry' = [entry EXCEPT ![q] = LowerHalf(e, sep), ![n] = UpperHalf(e, sep)]
  BY <1>1, SplitLeafIs
<1>4. n \in Nodes
  BY <1>1, SplitLeafIs
<1>5. /\ q \in leaves /\ q \in Nodes /\ q \in 1 .. top /\ q # n /\ IsNode(entry[q], LeafSlots, Values)
      /\ n \notin 1 .. top /\ n # Null /\ n # Header /\ n \notin leaves
      /\ 1 .. n = 1 .. top \cup {n}
  <2>1. q \in leaves /\ q \in Nodes /\ IsNode(entry[q], LeafSlots, Values)
    BY <1>1, <1>2, WriteAt
  <2>2. top \in Nat /\ n \notin 1 .. top /\ q \in 1 .. top /\ leaves \subseteq 1 .. top
    BY <1>1, <2>1, NodesWithin
  <2>3. n # Null /\ n # Header /\ 1 .. n = 1 .. top \cup {n}
    BY <1>1, <1>4, <2>2, NullAssumption DEF Header
  <2> QED
    BY <2>1, <2>2, <2>3
<1>6. Inner' = Inner
  BY <1>2, <1>5 DEF Inner
<1>7. /\ DOMAIN LowerHalf(e, sep) # {} /\ DOMAIN UpperHalf(e, sep) # {}
  <2>1. PICK j \in DOMAIN entry[q] : j < sep
    BY <1>3
  <2>2. j \in DOMAIN e /\ sep \in DOMAIN e /\ sep \in Int
    BY <1>1, <1>5, <2>1, NodeSize DEF With
  <2> QED
    BY <2>1, <2>2 DEF LowerHalf, UpperHalf, Only
<1>8. /\ Over(entry', Nodes) /\ entry'[q] = LowerHalf(e, sep) /\ entry'[n] = UpperHalf(e, sep)
      /\ \A m \in Nodes : m # q /\ m # n => entry'[m] = entry[m]
  BY <1>3, <1>4, <1>5 DEF TypeInv, NodesTyped, Over
<1>9. /\ next' \in [Nodes -> leaves' \cup {Null}]
      /\ \A m \in Nodes : m # q /\ m # n => next'[m] = next[m]
  BY <1>2, <1>4, <1>5 DEF TypeInv, NodesTyped
<1>10. \A m \in Nodes : IsNode(child[m], InnerSlots, 1 .. n)
  <2>1. ASSUME NEW m \in Nodes PROVE IsNode(child[m], InnerSlots, 1 .. n)
    <3>1. IsNode(child[m], InnerSlots, 1 .. top) /\ 1 .. top \subseteq 1 .. n
      BY <1>5 DEF TypeInv, NodesTyped
    <3> QED
      BY <3>1, WiderNode
  <2> QED
    BY <2>1
<1>11. NodesTyped'
  <2>1. root \in 1 .. n /\ leftmost \in [Nodes -> (1 .. n) \cup {Null}]
    BY <1>5 DEF TypeInv, NodesTyped
  <2>2. \A m \in Nodes : IsNode(entry'[m], LeafSlots, Values)
    BY <1>3, <1>8 DEF TypeInv, NodesTyped
  <2>3. leaves' \subseteq 1 .. n /\ Header \in leaves'
    BY <1>2, <1>5 DEF TypeInv, NodesTyped
  <2> QED
    BY <1>2, <1>4, <1>6, <1>8, <1>9, <1>10, <2>1, <2>2, <2>3 DEF TypeInv, NodesTyped
<1>12. NodesFilled'
  <2>1. \A m \in leaves' : m # Header => DOMAIN entry'[m] # {}
    BY <1>2, <1>7, <1>8, NodesWithin DEF TypeInv, NodesFilled
  <2>2. \A m \in Nodes \ leaves' : DOMAIN entry'[m] = {} /\ next'[m] = Null
    BY <1>2, <1>5, <1>8, <1>9 DEF TypeInv, NodesFilled
  <2>3. \A m \in Nodes : n < m => parent[m] = Null
    <3>1. \A m \in Nodes : n < m => top < m
      BY <1>1, NodesWithin, SlotsAssumption DEF Nodes
    <3> QED
      BY <3>1 DEF TypeInv, NodesFilled
  <2> QED
    BY <1>2, <1>6, <2>1, <2>2, <2>3 DEF TypeInv, NodesFilled
<1>13. Calls'
  <2>1. \A u \in Threads : CallOf(u)'
    BY <1>2, <1>5 DEF TypeInv, Calls, CallOf, LockInv
  <2>2. new' \in [Threads -> (1 .. n) \cup {Null}] /\ cur' \in [Threads -> leaves' \cup {Null}]
    BY <1>2, <1>5 DEF TypeInv, Calls
  <2> QED
    BY <1>2, <1>6, <2>1, <2>2 DEF TypeInv, Calls
<1> QED
  BY <1>11, <1>12, <1>13 DEF TypeInv

LEMMA LeaveCalls ==
    ASSUME TypeInv, LockInv', NEW t \in Threads, pc[t] = "parent", LeaveParent(t),
           1 .. top \subseteq 1 .. top', Inner \subseteq Inner'
    PROVE  Calls'
<1>1. /\ mutex' = Null /\ par' = [par EXCEPT ![t] = Null] /\ new' = [new EXCEPT ![t] = Null]
      /\ pc' = [pc EXCEPT ![t] = "unlock"]
      /\ UNCHANGED <<leaves, todo, arg, cur>>
  BY DEF LeaveParent, Goto
<1>2. \A u \in Threads : CallOf(u)'
  <2>1. \A u \in Threads : mutex' = u => FALSE
    BY <1>1, NullAssumption
  <2>2. \A u \in Threads \ {t} : pc[u] # "parent"
    BY DEF TypeInv, Calls, CallOf
  <2>3. Null # Header
    BY NullAssumption, SlotsAssumption DEF Nodes, Header
  <2> QED
    BY <1>1, <2>1, <2>2, <2>3 DEF TypeInv, Calls, CallOf, LockInv
<1>3. /\ par' \in [Threads -> Inner' \cup {Null}]
      /\ new' \in [Threads -> (1 .. top') \cup {Null}]
  BY <1>1 DEF TypeInv, Calls
<1> QED
  BY <1>1, <1>2, <1>3 DEF TypeInv, Calls

LEMMA GrowRootTypes ==
    ASSUME TypeInv, LockInv', NEW t \in Threads, GrowRoot(t)
    PROVE  TypeInv'
<1>1. PICK n, k, f : n = top + 1 /\ k = MinKey(t) /\ f = With(NoEntries, k, new[t])
  OBVIOUS
<1>2. /\ pc[t] = "parent" /\ par[t] = Null /\ n \in Nodes
      /\ top' = n /\ root' = n
      /\ leftmost' = [leftmost EXCEPT ![n] = root]
      /\ child' = [child EXCEPT ![n] = f]
      /\ parent' = [parent EXCEPT ![root] = n, ![new[t]] = n]
      /\ UNCHANGED <<leaves, entry, next>> /\ LeaveParent(t)
  BY <1>1 DEF GrowRoot, LeaveParent
<1>3. /\ k \in Keys /\ new[t] \in 1 .. top /\ root \in 1 .. top /\ new[t] \in Nodes /\ root \in Nodes
  BY <1>1, <1>2, MinKeyIs, NodesWithin DEF TypeInv, NodesTyped
<1>4. n \notin 1 .. top /\ n # Null /\ n \notin leaves /\ 1 .. n = 1 .. top \cup {n}
  <2>1. top \in Nat /\ n \notin 1 .. top /\ leaves \subseteq 1 .. top
    BY <1>1, NodesWithin
  <2> QED
    BY <1>1, <1>2, <2>1, NullAssumption
<1>5. Inner' = Inner \cup {n}
  BY <1>2, <1>4 DEF Inner
<1>6. IsNode(f, InnerSlots, 1 .. n) /\ DOMAIN f # {}
  <2>1. PICK r : r = 1 .. n
    OBVIOUS
  <2>2. IsNode(NoEntries, InnerSlots, r) /\ Size(NoEntries) # InnerSlots
    BY NoEntriesIsNode, FS_EmptySet, SlotsAssumption DEF Size
  <2>3. new[t] \in r
    BY <1>3, <1>4, <2>1
  <2>4. DOMAIN f # {}
    BY <1>1 DEF With
  <2> QED
    BY <1>1, <1>3, <2>1, <2>2, <2>3, <2>4, WithNode, SlotsAssumption
<1>7. /\ Over(child', Nodes) /\ child'[n] = f
      /\ \A m \in Nodes : m # n => child'[m] = child[m]
  BY <1>2 DEF TypeInv, NodesTyped, Over
<1>8. \A m \in Nodes : IsNode(child'[m], InnerSlots, 1 .. n)
  <2>1. ASSUME NEW m \in Nodes, m # n PROVE IsNode(child'[m], InnerSlots, 1 .. n)
    <3>1. IsNode(child[m], InnerSlots, 1 .. top) /\ 1 .. top \subseteq 1 .. n
      BY <1>4 DEF TypeInv, NodesTyped
    <3> QED
      BY <1>7, <2>1, <3>1, WiderNode
  <2> QED
    BY <1>6, <1>7, <2>1
<1>9. parent' \in [Nodes -> Inner' \cup {Null}]
  BY <1>2, <1>3, <1>5 DEF TypeInv, NodesTyped
<1>10. leftmost' \in [Nodes -> (1 .. n) \cup {Null}]
  BY <1>2, <1>3, <1>4 DEF TypeInv, NodesTyped
<1>11. NodesTyped'
  <2>1. leaves \subseteq 1 .. n /\ n \in 1 .. n
    BY <1>4 DEF TypeInv, NodesTyped
  <2> QED
    BY <1>2, <1>7, <1>8, <1>9, <1>10, <2>1 DEF TypeInv, NodesTyped, Over
<1>12. NodesFilled'
  <2>1. \A p \in Inner' : DOMAIN child'[p] # {}
    BY <1>5, <1>6, <1>7, NodesWithin DEF TypeInv, NodesFilled
  <2>2. \A m \in Nodes \ Inner' : DOMAIN child'[m] = {} /\ leftmost'[m] = Null
    BY <1>2, <1>5, <1>7 DEF TypeInv, NodesFilled, NodesTyped
  <2>3. \A m \in Nodes : n < m => parent'[m] = Null
    <3>1. \A m \in Nodes : n < m => top < m /\ m # root /\ m # new[t]
      BY <1>1, <1>3, NodesWithin, SlotsAssumption DEF Nodes
    <3> QED
      BY <1>2, <3>1 DEF TypeInv, NodesFilled, NodesTyped
  <2> QED
    BY <1>2, <2>1, <2>2, <2>3 DEF TypeInv, NodesFilled
<1>13. Calls'
  BY <1>2, <1>4, <1>5, LeaveCalls
<1> QED
  BY <1>11, <1>12, <1>13 DEF TypeInv

LEMMA InsertChildTypes ==
    ASSUME TypeInv, LockInv', NEW t \in Threads, InsertChild(t)
    PROVE  TypeInv'
<1>1. PICK p, k, f : p = par[t] /\ k = MinKey(t) /\ f = With(child[p], k, new[t])
  OBVIOUS
<1>2. /\ pc[t] = "parent" /\ p # Null /\ Size(child[p]) # InnerSlots
      /\ child' = [child EXCEPT ![p] = f]
      /\ parent' = [parent EXCEPT ![new[t]] = p]
      /\ UNCHANGED <<top, root, leftmost, leaves, entry, next>> /\ LeaveParent(t)
  BY <1>1 DEF InsertChild, LeaveParent
<1>3. /\ k \in Keys /\ new[t] \in 1 .. top /\ new[t] \in Nodes
      /\ p \in Inner /\ p \in Nodes /\ IsNode(child[p], InnerSlots, 1 .. top)
  BY <1>1, <1>2, MinKeyIs, ParentAt
<1>4. IsNode(f, InnerSlots, 1 .. top) /\ DOMAIN f # {}
  <2>1. PICK r : r = 1 .. top
    OBVIOUS
  <2>2. new[t] \in r /\ IsNode(child[p], InnerSlots, r)
    BY <1>3, <2>1
  <2>3. DOMAIN f # {}
    BY <1>1 DEF With
  <2> QED
    BY <1>1, <1>2, <1>3, <2>1, <2>2, <2>3, WithNode, SlotsAssumption
<1>5. /\ Over(child', Nodes) /\ child'[p] = f
      /\ \A m \in Nodes : m # p => child'[m] = child[m]
  BY <1>2, <1>3 DEF TypeInv, NodesTyped, Over
<1>6. parent' \in [Nodes -> Inner \cup {Null}]
  BY <1>2, <1>3 DEF TypeInv, NodesTyped
<1>7. NodesTyped'
  BY <1>2, <1>4, <1>5, <1>6 DEF TypeInv, NodesTyped, Over, Inner
<1>8. NodesFilled'
  <2>1. \A m \in Nodes : top < m => m # new[t]
    BY <1>3, NodesWithin, SlotsAssumption DEF Nodes
  <2>2. \A m \in Nodes : top < m => parent'[m] = Null
    BY <1>2, <2>1 DEF TypeInv, NodesFilled, NodesTyped
  <2>3. \A m \in Inner : DOMAIN child'[m] # {}
    BY <1>4, <1>5, NodesWithin DEF TypeInv, NodesFilled
  <2>4. \A m \in Nodes \ Inner : DOMAIN child'[m] = {}
    BY <1>3, <1>5 DEF TypeInv, NodesFilled
  <2> QED
    BY <1>2, <2>2, <2>3, <2>4 DEF TypeInv, NodesFilled, Inner
<1>9. Calls'
  BY <1>2, LeaveCalls DEF Inner
<1> QED
  BY <1>7, <1>8, <1>9 DEF TypeInv

LEMMA SplitInnerTypes ==
    ASSUME TypeInv, LockInv', NEW t \in Threads, SplitInner(t)
    PROVE  TypeInv'
<1>1. PICK p, n, k, g : p = par[t] /\ n = top + 1 /\ k = MinKey(t) /\ g = With(child[p], k, new[t])
  OBVIOUS
<1>2. /\ pc[t] = "parent" /\ p # Null /\ top' = n
      /\ new' = [new EXCEPT ![t] = n] /\ par' = [par EXCEPT ![t] = parent[p]]
      /\ UNCHANGED <<leaves, root, entry, next, locked, leftmost, mutex, todo, pc, arg, cur>>
  BY <1>1 DEF SplitInner
<1>3. /\ k \in Keys /\ new[t] \in 1 .. top /\ new[t] \in Nodes
      /\ p \in Inner /\ p \in Nodes /\ p \in 1 .. top /\ IsNode(child[p], InnerSlots, 1 .. top)
  BY <1>1, <1>2, MinKeyIs, ParentAt
<1>4. n \in Nodes
  BY <1>1, SplitInnerIs
<1>5. PICK sep \in DOMAIN child[p] : CutAt(p, n, new[t], k, g, sep)
  BY <1>1, SplitInnerIs
<1>6. /\ \E j \in DOMAIN child[p] : j < sep
       /\ IsNode(LowerHalf(g, sep), InnerSlots, 1 .. top)
       /\ IsNode(UpperHalf(g, sep), InnerSlots, 1 .. top)
       /\ child' = [child EXCEPT ![p] = LowerHalf(g, sep), ![n] = UpperHalf(g, sep)]
       /\ parent' = [Adopted({child[p][s] : s \in {s \in DOMAIN child[p] : sep <= s}}, n)
                       EXCEPT ![new[t]] = IF k < sep THEN p ELSE n]
  BY <1>5 DEF CutAt
<1>7. n \notin 1 .. top /\ n # Null /\ n # Header /\ n \notin leaves /\ 1 .. n = 1 .. top \cup {n}
      /\ p # n
  <2>1. top \in Nat /\ n \notin 1 .. top /\ leaves \subseteq 1 .. top
    BY <1>1, NodesWithin
  <2>2. Header \in 1 .. top
    BY <2>1 DEF TypeInv, NodesTyped
  <2> QED
    BY <1>1, <1>3, <1>4, <2>1, <2>2, NullAssumption
<1>8. Inner' = Inner \cup {n}
  BY <1>2, <1>7 DEF Inner
<1>9. DOMAIN LowerHalf(g, sep) # {} /\ DOMAIN UpperHalf(g, sep) # {}
  <2>1. PICK j \in DOMAIN child[p] : j < sep
    BY <1>6
  <2>2. j \in DOMAIN g /\ sep \in DOMAIN g /\ sep \in Int
    BY <1>1, <1>3, <2>1, NodeSize DEF With
  <2> QED
    BY <2>1, <2>2 DEF LowerHalf, UpperHalf, Only
<1>10. /\ Over(child', Nodes) /\ child'[p] = LowerHalf(g, sep) /\ child'[n] = UpperHalf(g, sep)
      /\ \A m \in Nodes : m # p /\ m # n => child'[m] = child[m]
  BY <1>3, <1>4, <1>6, <1>7 DEF TypeInv, NodesTyped, Over
<1>11. \A m \in Nodes : IsNode(child'[m], InnerSlots, 1 .. n)
  <2>1. ASSUME NEW m \in Nodes PROVE IsNode(child'[m], InnerSlots, 1 .. n)
    <3>1. IsNode(child'[m], InnerSlots, 1 .. top)
      BY <1>6, <1>10 DEF TypeInv, NodesTyped
    <3>2. 1 .. top \subseteq 1 .. n
      BY <1>7
    <3> QED
      BY <3>1, <3>2, WiderNode
  <2> QED
    BY <2>1
<1>12. parent' \in [Nodes -> Inner' \cup {Null}]
  <2>1. p \in Inner' /\ n \in Inner'
    BY <1>3, <1>8
  <2> QED
    BY <1>6, <1>8, <2>1 DEF TypeInv, NodesTyped, Adopted
<1>13. NodesTyped'
  <2>1. leaves \subseteq 1 .. n /\ root \in 1 .. n /\ leftmost \in [Nodes -> (1 .. n) \cup {Null}]
    BY <1>7 DEF TypeInv, NodesTyped
  <2> QED
    BY <1>2, <1>4, <1>10, <1>11, <1>12, <2>1 DEF TypeInv, NodesTyped, Over
<1>14. NodesFilled'
  <2>1. \A m \in Inner' : DOMAIN child'[m] # {}
    BY <1>3, <1>8, <1>9, <1>10, NodesWithin DEF TypeInv, NodesFilled
  <2>2. \A m \in Nodes \ Inner' : DOMAIN child'[m] = {} /\ leftmost'[m] = Null
    BY <1>2, <1>3, <1>8, <1>10 DEF TypeInv, NodesFilled
  <2>3. ASSUME NEW m \in Nodes, n < m PROVE parent'[m] = Null
    <3>1. top < m /\ m # new[t] /\ m \notin 1 .. top
      BY <1>1, <1>3, <2>3, NodesWithin, SlotsAssumption DEF Nodes
    <3>2. m \notin {child[p][s] : s \in {s \in DOMAIN child[p] : sep <= s}}
      BY <1>3, <3>1 DEF IsNode
    <3> QED
      BY <1>6, <3>1, <3>2 DEF TypeInv, NodesFilled, Adopted
  <2> QED
    BY <1>2, <2>1, <2>2, <2>3 DEF TypeInv, NodesFilled
<1>15. Calls'
  <2>1. \A u \in Threads : CallOf(u)'
    BY <1>2, <1>7 DEF TypeInv, Calls, CallOf
  <2>2. new' \in [Threads -> (1 .. n) \cup {Null}] /\ par' \in [Threads -> Inner' \cup {Null}]
    BY <1>2, <1>3, <1>7, <1>8 DEF TypeInv, Calls, NodesTyped
  <2> QED
    BY <1>2, <2>1, <2>2 DEF TypeInv, Calls
<1> QED
  BY <1>13, <1>14, <1>15 DEF TypeInv

LEMMA NextTypeInv == TypeInv /\ [Next]_vars => TypeInv'
<1> SUFFICES ASSUME TypeInv, [Next]_vars PROVE TypeInv'
  OBVIOUS
<1>1. LockInv'
  BY NextLockInv DEF TypeInv
<1>2. ASSUME NEW t \in Threads, OutsideStep(t) PROVE TypeInv'
  <2>1. Remove(t) \/ UNCHANGED entry
    BY <1>2, OutsideLocks DEF TypeInv
  <2> QED
    BY <1>1, <1>2, <2>1, CallTypes, RemoveTypes
<1>3. ASSUME NEW t \in Threads, InsertStep(t) PROVE TypeInv'
  BY <1>1, <1>3, CallTypes, WriteTypes, SplitLeafTypes, GrowRootTypes, InsertChildTypes,
     SplitInnerTypes DEF InsertStep
<1>4. ASSUME UNCHANGED <<node_vars, mutex, todo, thread_vars>> PROVE TypeInv'
  BY <1>1, <1>4 DEF TypeInv, NodesTyped, NodesFilled, Calls, CallOf, node_vars, thread_vars, Over, Inner
<1> QED
  BY <1>2, <1>3, <1>4, NextIs DEF vars

(***************************************************************************)
(* The node arrays are never written past their end (binary_insert,        *)
(* bptree-template.hpp:228, and the two splits, :583-611 and :635-658),    *)
(* whatever concurrent splits move, and no pointer leads out of the        *)
(* allocated nodes.                                                        *)
(***************************************************************************)
THEOREM TypeCorrect == Spec => []TypeOK
<1>1. TypeInv => TypeOK
  BY TypeInvShowsIt, LockedLeaves
<1> QED
  BY <1>1, InitTypeInv, NextTypeInv, PTL DEF Spec

-----------------------------------------------------------------------------
(* The steps that change the tree, by what they leave in each node *)

Fresh(n) == n = top + 1 /\ n \in Nodes /\ n \notin 1 .. top /\ n # Null /\ n \notin leaves

LEMMA FreshNode ==
    ASSUME TypeInv, NEW n, n = top + 1, n \in Nodes
    PROVE  /\ Fresh(n)
           /\ 1 .. n = 1 .. top \cup {n}
           /\ entry[n] = NoEntries /\ DOMAIN child[n] = {} /\ leftmost[n] = Null /\ parent[n] = Null
<1>1. top \in Nat /\ n \notin 1 .. top /\ leaves \subseteq 1 .. top /\ Inner \subseteq 1 .. top
  BY NodesWithin
<1>2. n # Null /\ 1 .. n = 1 .. top \cup {n} /\ top < n
  BY <1>1, NullAssumption
<1>3. DOMAIN entry[n] = {} /\ DOMAIN child[n] = {} /\ leftmost[n] = Null /\ parent[n] = Null
  BY <1>1, <1>2 DEF TypeInv, NodesFilled
<1>4. entry[n] = NoEntries
  BY <1>3 DEF TypeInv, NodesTyped, IsNode, NoEntries
<1> QED
  BY <1>1, <1>2, <1>3, <1>4 DEF Fresh

LEMMA HalvesAre ==
    ASSUME NEW f, NEW k, NEW x, NEW sep, NEW g, g = With(f, k, x)
    PROVE  /\ \A j : j \in DOMAIN LowerHalf(g, sep) <=> j \in DOMAIN f \cup {k} /\ j < sep
           /\ \A j : j \in DOMAIN UpperHalf(g, sep) <=> j \in DOMAIN f \cup {k} /\ sep <= j
           /\ \A j \in DOMAIN LowerHalf(g, sep) : LowerHalf(g, sep)[j] = IF j = k THEN x ELSE f[j]
           /\ \A j \in DOMAIN UpperHalf(g, sep) : UpperHalf(g, sep)[j] = IF j = k THEN x ELSE f[j]
  BY DEF LowerHalf, UpperHalf, Only, With

LeafCut(t, q, n, k, sep) ==
    /\ sep \in DOMAIN entry[q] /\ \E j \in DOMAIN entry[q] : j < sep
    /\ \A j : j \in DOMAIN entry'[q] <=> j \in DOMAIN entry[q] \cup {k} /\ j < sep
    /\ \A j : j \in DOMAIN entry'[n] <=> j \in DOMAIN entry[q] \cup {k} /\ sep <= j
    /\ \A j \in DOMAIN entry'[q] : entry'[q][j] = IF j = k THEN Value(t) ELSE entry[q][j]
    /\ \A j \in DOMAIN entry'[n] : entry'[n][j] = IF j = k THEN Value(t) ELSE entry[q][j]
    /\ \A m \in Nodes \ {q, n} : entry'[m] = entry[m]

LEMMA SplitLeafFacts ==
    ASSUME TypeInv, NEW t \in Threads, SplitLeaf(t),
           NEW q, q = cur[t], NEW n, n = top + 1, NEW k, k = Key(t)
    PROVE  /\ pc[t] = "write" /\ Fresh(n) /\ q \in leaves /\ q \in Nodes /\ q # n /\ k \in Keys
           /\ top' = n /\ leaves' = leaves \cup {n} /\ Inner' = Inner
           /\ next'[n] = next[q] /\ next'[q] = n /\ \A m \in Nodes \ {q, n} : next'[m] = next[m]
           /\ \A u \in Threads : new'[u] = IF u = t THEN n ELSE new[u]
           /\ \A u \in Threads : pc'[u] = IF u = t THEN "link" ELSE pc[u]
           /\ UNCHANGED <<root, locked, leftmost, child, parent, mutex, todo, arg, cur, par, answer>>
           /\ \E sep \in DOMAIN entry[q] : LeafCut(t, q, n, k, sep)
<1>1. /\ pc[t] = "write" /\ pc' = [pc EXCEPT ![t] = "link"]
      /\ top' = n /\ leaves' = leaves \cup {n}
      /\ next' = [next EXCEPT ![n] = next[q], ![q] = n]
      /\ new' = [new EXCEPT ![t] = n]
      /\ UNCHANGED <<root, locked, leftmost, child, parent, mutex, todo, arg, cur, par, answer>>
  BY DEF SplitLeaf, Goto, ChainAfter
<1>2. Fresh(n) /\ 1 .. n = 1 .. top \cup {n}
  BY SplitLeafIs, FreshNode
<1>3. q \in leaves /\ q \in Nodes /\ k \in Keys
  BY <1>1, WriteAt
<1>4. q # n
  BY <1>2, <1>3 DEF Fresh
<1>5. Inner' = Inner
  BY <1>1, <1>2 DEF Inner, Fresh
<1>6. \E sep \in DOMAIN entry[q] : LeafCut(t, q, n, k, sep)
  <2>1. PICK e : e = With(entry[q], k, Value(t))
    OBVIOUS
  <2>2. PICK sep \in DOMAIN entry[q] :
            /\ \E j \in DOMAIN entry[q] : j < sep
            /\ entry' = [entry EXCEPT ![q] = LowerHalf(e, sep), ![n] = UpperHalf(e, sep)]
    BY <2>1, SplitLeafIs
  <2>3. /\ entry'[q] = LowerHalf(e, sep) /\ entry'[n] = UpperHalf(e, sep)
        /\ \A m \in Nodes \ {q, n} : entry'[m] = entry[m]
    BY <1>2, <1>3, <1>4, <2>2 DEF TypeInv, NodesTyped, Over, Fresh
  <2>4. /\ \A j : j \in DOMAIN LowerHalf(e, sep) <=> j \in DOMAIN entry[q] \cup {k} /\ j < sep
        /\ \A j : j \in DOMAIN UpperHalf(e, sep) <=> j \in DOMAIN entry[q] \cup {k} /\ sep <= j
        /\ \A j \in DOMAIN LowerHalf(e, sep) : LowerHalf(e, sep)[j] = IF j = k THEN Value(t) ELSE entry[q][j]
        /\ \A j \in DOMAIN UpperHalf(e, sep) : UpperHalf(e, sep)[j] = IF j = k THEN Value(t) ELSE entry[q][j]
    BY <2>1, HalvesAre
  <2>5. LeafCut(t, q, n, k, sep)
    BY <2>2, <2>3, <2>4, Zenon DEF LeafCut
  <2> QED
    BY <2>5
<1>7. next'[n] = next[q] /\ next'[q] = n /\ \A m \in Nodes \ {q, n} : next'[m] = next[m]
  BY <1>1, <1>2, <1>3, <1>4 DEF TypeInv, NodesTyped, Fresh
<1>8. /\ \A u \in Threads : new'[u] = IF u = t THEN n ELSE new[u]
      /\ \A u \in Threads : pc'[u] = IF u = t THEN "link" ELSE pc[u]
  BY <1>1 DEF TypeInv, Calls, LockInv
<1> QED
  BY <1>1, <1>2, <1>3, <1>4, <1>5, <1>6, <1>7, <1>8

LEMMA LeaveFacts ==
    ASSUME TypeInv, NEW t \in Threads, LeaveParent(t), pc[t] = "parent"
    PROVE  /\ mutex = t /\ mutex' = Null
           /\ \A u \in Threads : new'[u] = IF u = t THEN Null ELSE new[u]
           /\ \A u \in Threads : par'[u] = IF u = t THEN Null ELSE par[u]
           /\ \A u \in Threads : pc'[u] = IF u = t THEN "unlock" ELSE pc[u]
           /\ UNCHANGED <<leaves, entry, next, locked, todo, arg, cur, answer>>
  BY DEF LeaveParent, Goto, TypeInv, Calls, CallOf, LockInv

LEMMA GrowRootFacts ==
    ASSUME TypeInv, NEW t \in Threads, GrowRoot(t),
           NEW n, n = top + 1, NEW k, k = MinKey(t), NEW m, m = new[t], NEW r, r = root
    PROVE  /\ pc[t] = "parent" /\ par[t] = Null /\ LeaveParent(t)
           /\ Fresh(n) /\ m \in 1 .. top /\ m \in Nodes /\ r \in 1 .. top /\ r \in Nodes /\ k \in Keys
           /\ top' = n /\ root' = n /\ Inner' = Inner \cup {n}
           /\ DOMAIN child'[n] = {k} /\ child'[n][k] = m /\ leftmost'[n] = r
           /\ \A x \in Nodes \ {n} : child'[x] = child[x] /\ leftmost'[x] = leftmost[x]
           /\ \A x \in Nodes : parent'[x] = IF x = r \/ x = m THEN n ELSE parent[x]
<1>1. /\ pc[t] = "parent" /\ par[t] = Null /\ n \in Nodes
      /\ top' = n /\ root' = n
      /\ leftmost' = [leftmost EXCEPT ![n] = r]
      /\ child' = [child EXCEPT ![n] = With(NoEntries, k, m)]
      /\ parent' = [parent EXCEPT ![r] = n, ![m] = n]
      /\ UNCHANGED leaves /\ LeaveParent(t)
  BY DEF GrowRoot, LeaveParent
<1>2. /\ k \in Keys /\ m \in 1 .. top /\ r \in 1 .. top /\ m \in Nodes /\ r \in Nodes
  BY <1>1, MinKeyIs, NodesWithin DEF TypeInv, NodesTyped
<1>3. Fresh(n) /\ 1 .. n = 1 .. top \cup {n}
  BY <1>1, FreshNode
<1>4. Inner' = Inner \cup {n}
  BY <1>1, <1>3 DEF Inner, Fresh
<1>5. /\ child'[n] = With(NoEntries, k, m) /\ leftmost'[n] = r
      /\ \A x \in Nodes \ {n} : child'[x] = child[x] /\ leftmost'[x] = leftmost[x]
      /\ \A x \in Nodes : parent'[x] = IF x = r \/ x = m THEN n ELSE parent[x]
  BY <1>1, <1>2 DEF TypeInv, NodesTyped, Over
<1>6. DOMAIN child'[n] = {k} /\ child'[n][k] = m
  BY <1>5 DEF With, NoEntries
<1> QED
  BY <1>1, <1>2, <1>3, <1>4, <1>5, <1>6

LEMMA InsertChildFacts ==
    ASSUME TypeInv, NEW t \in Threads, InsertChild(t),
           NEW p, p = par[t], NEW k, k = MinKey(t), NEW m, m = new[t]
    PROVE  /\ pc[t] = "parent" /\ p # Null /\ LeaveParent(t)
           /\ p \in Inner /\ p \in Nodes /\ p \in 1 .. top /\ m \in 1 .. top /\ m \in Nodes /\ k \in Keys
           /\ UNCHANGED <<top, root, leftmost>> /\ Inner' = Inner
           /\ DOMAIN child'[p] = DOMAIN child[p] \cup {k}
           /\ \A j \in DOMAIN child'[p] : child'[p][j] = IF j = k THEN m ELSE child[p][j]
           /\ \A x \in Nodes \ {p} : child'[x] = child[x]
           /\ \A x \in Nodes : parent'[x] = IF x = m THEN p ELSE parent[x]
<1>1. /\ pc[t] = "parent" /\ p # Null
      /\ child' = [child EXCEPT ![p] = With(child[p], k, m)]
      /\ parent' = [parent EXCEPT ![m] = p]
      /\ UNCHANGED <<top, root, leftmost, leaves>> /\ LeaveParent(t)
  BY DEF InsertChild, LeaveParent
<1>2. /\ k \in Keys /\ m \in 1 .. top /\ m \in Nodes
      /\ p \in Inner /\ p \in Nodes /\ p \in 1 .. top
  BY <1>1, MinKeyIs, ParentAt
<1>3. /\ child'[p] = With(child[p], k, m)
      /\ \A x \in Nodes \ {p} : child'[x] = child[x]
      /\ \A x \in Nodes : parent'[x] = IF x = m THEN p ELSE parent[x]
  BY <1>1, <1>2 DEF TypeInv, NodesTyped, Over
<1>4. /\ DOMAIN child'[p] = DOMAIN child[p] \cup {k}
      /\ \A j \in DOMAIN child'[p] : child'[p][j] = IF j = k THEN m ELSE child[p][j]
  BY <1>3 DEF With
<1> QED
  BY <1>1, <1>2, <1>3, <1>4 DEF Inner

Moved(p, sep, x) == \E s \in DOMAIN child[p] : sep <= s /\ x = child[p][s]

InnerCut(p, n, k, m, sep) ==
    /\ sep \in DOMAIN child[p] /\ \E j \in DOMAIN child[p] : j < sep
    /\ \A j : j \in DOMAIN child'[p] <=> j \in DOMAIN child[p] \cup {k} /\ j < sep
    /\ \A j : j \in DOMAIN child'[n] <=> j \in DOMAIN child[p] \cup {k} /\ sep <= j
    /\ \A j \in DOMAIN child'[p] : child'[p][j] = IF j = k THEN m ELSE child[p][j]
    /\ \A j \in DOMAIN child'[n] : child'[n][j] = IF j = k THEN m ELSE child[p][j]
    /\ \A x \in Nodes \ {p, n} : child'[x] = child[x]
    /\ \A x \in Nodes : parent'[x] = IF x = m THEN (IF k < sep THEN p ELSE n)
                                     ELSE IF Moved(p, sep, x) THEN n ELSE parent[x]

LEMMA SplitInnerFacts ==
    ASSUME TypeInv, NEW t \in Threads, SplitInner(t),
           NEW p, p = par[t], NEW n, n = top + 1, NEW k, k = MinKey(t), NEW m, m = new[t]
    PROVE  /\ pc[t] = "parent" /\ p # Null /\ mutex = t
           /\ Fresh(n) /\ p # n /\ k \in Keys
           /\ p \in Inner /\ p \in Nodes /\ p \in 1 .. top /\ m \in 1 .. top /\ m \in Nodes
           /\ top' = n /\ Inner' = Inner \cup {n}
           /\ \A u \in Threads : new'[u] = IF u = t THEN n ELSE new[u]
           /\ \A u \in Threads : par'[u] = IF u = t THEN parent[p] ELSE par[u]
           /\ UNCHANGED <<leaves, root, entry, next, locked, leftmost, mutex, todo, pc, arg, cur, answer>>
           /\ \E sep \in DOMAIN child[p] : InnerCut(p, n, k, m, sep)
<1>1. /\ pc[t] = "parent" /\ p # Null /\ top' = n
      /\ new' = [new EXCEPT ![t] = n] /\ par' = [par EXCEPT ![t] = parent[p]]
      /\ UNCHANGED <<leaves, root, entry, next, locked, leftmost, mutex, todo, pc, arg, cur, answer>>
  BY DEF SplitInner
<1>2. /\ k \in Keys /\ m \in 1 .. top /\ m \in Nodes
      /\ p \in Inner /\ p \in Nodes /\ p \in 1 .. top
  BY <1>1, MinKeyIs, ParentAt
<1>3. PICK g : g = With(child[p], k, m)
  OBVIOUS
<1>4. Fresh(n) /\ 1 .. n = 1 .. top \cup {n}
  BY <1>3, SplitInnerIs, FreshNode
<1>5. p # n /\ Inner' = Inner \cup {n}
  BY <1>1, <1>2, <1>4 DEF Inner, Fresh
<1>6. mutex = t
  BY <1>1 DEF TypeInv, Calls, CallOf
<1>7. /\ \A u \in Threads : new'[u] = IF u = t THEN n ELSE new[u]
      /\ \A u \in Threads : par'[u] = IF u = t THEN parent[p] ELSE par[u]
  BY <1>1 DEF TypeInv, Calls
<1>8. PICK sep \in DOMAIN child[p] : CutAt(p, n, m, k, g, sep)
  BY <1>3, SplitInnerIs
<1>9. /\ child'[p] = LowerHalf(g, sep) /\ child'[n] = UpperHalf(g, sep)
      /\ \A x \in Nodes \ {p, n} : child'[x] = child[x]
  BY <1>2, <1>4, <1>5, <1>8 DEF TypeInv, NodesTyped, Over, Fresh, CutAt
<1>10. \A x \in Nodes : parent'[x] = IF x = m THEN (IF k < sep THEN p ELSE n)
                                     ELSE IF Moved(p, sep, x) THEN n ELSE parent[x]
  <2>1. \A x : x \in {child[p][s] : s \in {s \in DOMAIN child[p] : sep <= s}} <=> Moved(p, sep, x)
    BY DEF Moved
  <2> QED
    BY <1>2, <1>8, <2>1 DEF CutAt, Adopted
<1>11. /\ \A j : j \in DOMAIN LowerHalf(g, sep) <=> j \in DOMAIN child[p] \cup {k} /\ j < sep
       /\ \A j : j \in DOMAIN UpperHalf(g, sep) <=> j \in DOMAIN child[p] \cup {k} /\ sep <= j
       /\ \A j \in DOMAIN LowerHalf(g, sep) : LowerHalf(g, sep)[j] = IF j = k THEN m ELSE child[p][j]
       /\ \A j \in DOMAIN UpperHalf(g, sep) : UpperHalf(g, sep)[j] = IF j = k THEN m ELSE child[p][j]
  BY <1>3, HalvesAre
<1>12. \E j \in DOMAIN child[p] : j < sep
  BY <1>8 DEF CutAt
<1>13. InnerCut(p, n, k, m, sep)
  BY <1>9, <1>10, <1>11, <1>12, Zenon DEF InnerCut
<1> QED
  BY <1>1, <1>2, <1>4, <1>5, <1>6, <1>7, <1>13

-----------------------------------------------------------------------------
(* Every child names its parent, and is its child once *)

Pending(m) == \E t \in Threads : pc[t] \in {"link", "parent"} /\ new[t] = m

LinksOf(p) ==
    /\ \A s \in DOMAIN child[p] : parent[child[p][s]] = p /\ child[p][s] # leftmost[p]
    /\ leftmost[p] # Null => parent[leftmost[p]] = p
    /\ \A r, s \in DOMAIN child[p] : child[p][r] = child[p][s] => r = s

Links ==
    /\ parent[root] = Null
    /\ \A p \in Inner : LinksOf(p)
    /\ \A t \in Threads : pc[t] \in {"link", "parent"} => parent[new[t]] = Null /\ new[t] # root
    /\ \A t, u \in Threads : new[t] = new[u] /\ new[t] # Null => t = u

LEMMA ChildNode ==
    ASSUME TypeInv, NEW p \in Inner
    PROVE  /\ p \in Nodes /\ p \in 1 .. top
           /\ \A s \in DOMAIN child[p] : child[p][s] \in 1 .. top /\ child[p][s] \in Nodes
           /\ leftmost[p] # Null => leftmost[p] \in 1 .. top /\ leftmost[p] \in Nodes
<1>1. p \in Nodes /\ p \in 1 .. top
  BY NodesWithin
<1>2. IsNode(child[p], InnerSlots, 1 .. top)
  BY <1>1 DEF TypeInv, NodesTyped
<1>3. \A s \in DOMAIN child[p] : child[p][s] \in 1 .. top
  BY <1>2 DEF IsNode
<1>4. leftmost[p] # Null => leftmost[p] \in 1 .. top
  BY <1>1 DEF TypeInv, NodesTyped
<1> QED
  BY <1>1, <1>3, <1>4, NodesWithin

LEMMA SameLinks ==
    ASSUME TypeInv, NEW p \in Inner, LinksOf(p), child'[p] = child[p], leftmost'[p] = leftmost[p],
           \A y \in Nodes : parent[y] = p => parent'[y] = p
    PROVE  LinksOf(p)'
<1>1. \A s \in DOMAIN child'[p] : parent'[child'[p][s]] = p /\ child'[p][s] # leftmost'[p]
  BY ChildNode DEF LinksOf
<1>2. leftmost'[p] # Null => parent'[leftmost'[p]] = p
  BY ChildNode DEF LinksOf
<1> QED
  BY <1>1, <1>2 DEF LinksOf

LEMMA InitLinks == Init => Links
<1> SUFFICES ASSUME Init PROVE Links
  OBVIOUS
<1>1. Inner = {} /\ Header \in Nodes
  BY SlotsAssumption DEF Init, Inner, Header, Nodes
<1> QED
  BY <1>1 DEF Init, Links

LEMMA SplitLeafLinks ==
    ASSUME TypeInv, Links, NEW t \in Threads, SplitLeaf(t)
    PROVE  Links'
<1>1. PICK q, n, k : q = cur[t] /\ n = top + 1 /\ k = Key(t)
  OBVIOUS
<1>2. /\ pc[t] = "write" /\ Fresh(n) /\ Inner' = Inner
      /\ \A u \in Threads : new'[u] = IF u = t THEN n ELSE new[u]
      /\ \A u \in Threads : pc'[u] = IF u = t THEN "link" ELSE pc[u]
      /\ UNCHANGED <<root, leftmost, child, parent>>
  BY <1>1, SplitLeafFacts
<1>3. parent[n] = Null /\ root # n
  BY <1>1, <1>2, FreshNode DEF Fresh, TypeInv, NodesTyped
<1>4. \A u \in Threads : new[u] # n
  <2>1. \A u \in Threads : new[u] \in 1 .. top \cup {Null}
    BY DEF TypeInv, Calls
  <2> QED
    BY <1>2, <2>1 DEF Fresh
<1> QED
  BY <1>2, <1>3, <1>4 DEF Links, LinksOf

\* The node that joined its parent pends no more.
LEMMA LeaveLinks ==
    ASSUME TypeInv, Links, NEW t \in Threads, LeaveParent(t), pc[t] = "parent",
           \A u \in Threads \ {t} : pc[u] \in {"link", "parent"} =>
                parent'[new[u]] = parent[new[u]] /\ new[u] # root'
    PROVE  /\ \A u \in Threads : pc'[u] \in {"link", "parent"} => parent'[new'[u]] = Null /\ new'[u] # root'
           /\ \A u, v \in Threads : new'[u] = new'[v] /\ new'[u] # Null => u = v
<1>1. /\ \A u \in Threads : new'[u] = IF u = t THEN Null ELSE new[u]
      /\ \A u \in Threads : pc'[u] = IF u = t THEN "unlock" ELSE pc[u]
  BY LeaveFacts
<1> QED
  BY <1>1 DEF Links

LEMMA GrowRootLinks ==
    ASSUME TypeInv, Links, NEW t \in Threads, GrowRoot(t)
    PROVE  Links'
<1>1. PICK n, k, m, r : n = top + 1 /\ k = MinKey(t) /\ m = new[t] /\ r = root
  OBVIOUS
<1>2. /\ pc[t] = "parent" /\ LeaveParent(t)
      /\ Fresh(n) /\ m \in 1 .. top /\ m \in Nodes /\ r \in 1 .. top /\ r \in Nodes
      /\ root' = n /\ Inner' = Inner \cup {n}
      /\ DOMAIN child'[n] = {k} /\ child'[n][k] = m /\ leftmost'[n] = r
      /\ \A x \in Nodes \ {n} : child'[x] = child[x] /\ leftmost'[x] = leftmost[x]
      /\ \A x \in Nodes : parent'[x] = IF x = r \/ x = m THEN n ELSE parent[x]
  BY <1>1, GrowRootFacts
<1>3. parent[r] = Null /\ parent[m] = Null /\ m # r
  BY <1>1, <1>2 DEF Links
<1>4. parent[n] = Null /\ n # r /\ n # m /\ n \in Nodes
  BY <1>1, <1>2, FreshNode DEF Fresh
<1>5. parent'[n] = Null
  BY <1>2, <1>4
<1>6. LinksOf(n)'
  BY <1>2, <1>3 DEF LinksOf
<1>7. ASSUME NEW p \in Inner PROVE LinksOf(p)'
  <2>1. p \in Nodes /\ p # n /\ p # Null
    BY <1>2, ChildNode, NullAssumption DEF Fresh
  <2>2. \A x \in Nodes : parent[x] = p => parent'[x] = p
    BY <1>2, <1>3, <2>1
  <2> QED
    BY <1>2, <2>1, <2>2, SameLinks DEF Links
<1>8. \A u \in Threads \ {t} : pc[u] \in {"link", "parent"} =>
                parent'[new[u]] = parent[new[u]] /\ new[u] # root'
  <2>1. ASSUME NEW u \in Threads \ {t}, pc[u] \in {"link", "parent"}
        PROVE  new[u] \in Nodes /\ new[u] # r /\ new[u] # m /\ new[u] # n
    <3>1. new[u] \in 1 .. top /\ new[u] \in Nodes /\ new[u] # Null
      BY <2>1, MinKeyIs, NodesWithin
    <3>2. new[u] # root /\ new[u] # new[t]
      BY <2>1, <3>1 DEF Links
    <3> QED
      BY <1>1, <1>2, <3>1, <3>2 DEF Fresh
  <2> QED
    BY <1>2, <2>1
<1> QED
  BY <1>2, <1>5, <1>6, <1>7, <1>8, LeaveLinks DEF Links

LEMMA InsertChildLinks ==
    ASSUME TypeInv, Links, NEW t \in Threads, InsertChild(t)
    PROVE  Links'
<1>1. PICK p, k, m : p = par[t] /\ k = MinKey(t) /\ m = new[t]
  OBVIOUS
<1>2. /\ pc[t] = "parent" /\ p # Null /\ LeaveParent(t)
      /\ p \in Inner /\ p \in Nodes /\ p \in 1 .. top /\ m \in 1 .. top /\ m \in Nodes
      /\ UNCHANGED <<top, root, leftmost>> /\ Inner' = Inner
      /\ DOMAIN child'[p] = DOMAIN child[p] \cup {k}
      /\ \A j \in DOMAIN child'[p] : child'[p][j] = IF j = k THEN m ELSE child[p][j]
      /\ \A x \in Nodes \ {p} : child'[x] = child[x]
      /\ \A x \in Nodes : parent'[x] = IF x = m THEN p ELSE parent[x]
  BY <1>1, InsertChildFacts
<1>3. parent[m] = Null /\ m # root
  BY <1>1, <1>2 DEF Links
<1>4. root \in Nodes /\ parent'[root] = Null
  <2>1. root \in Nodes
    BY NodesWithin DEF TypeInv, NodesTyped
  <2> QED
    BY <1>2, <1>3, <2>1 DEF Links
<1>5. ASSUME NEW x \in Inner PROVE LinksOf(x)'
  <2>1. x \in Nodes /\ x # Null
    BY ChildNode, NullAssumption
  <2>2. \A y \in Nodes : parent[y] = x => parent'[y] = x /\ y # m
    BY <1>2, <1>3, <2>1
  <2>3. CASE x # p
    BY <1>2, <2>1, <2>2, <2>3, SameLinks DEF Links
  <2>4. CASE x = p
    <3>1. LinksOf(p)
      BY <1>2 DEF Links
    <3>2. \A s \in DOMAIN child[p] : child[p][s] \in Nodes /\ child[p][s] # m /\ parent'[child[p][s]] = p
      BY <1>2, <2>2, <2>4, <3>1, ChildNode DEF LinksOf
    <3>3. parent'[m] = p
      BY <1>2
    <3>4. leftmost[p] # Null => leftmost[p] # m /\ parent'[leftmost[p]] = p
      BY <1>2, <2>2, <2>4, <3>1, ChildNode DEF LinksOf
    <3>5. m # leftmost[p]
      BY <1>2, <3>4, NullAssumption
    <3> QED
      BY <1>2, <2>4, <3>1, <3>2, <3>3, <3>4, <3>5 DEF LinksOf
  <2> QED
    BY <2>3, <2>4
<1>6. \A u \in Threads \ {t} : pc[u] \in {"link", "parent"} =>
                parent'[new[u]] = parent[new[u]] /\ new[u] # root'
  <2>1. ASSUME NEW u \in Threads \ {t}, pc[u] \in {"link", "parent"}
        PROVE  new[u] \in Nodes /\ new[u] # m /\ new[u] # root
    BY <1>1, <2>1, MinKeyIs, NullAssumption DEF Links
  <2> QED
    BY <1>2, <2>1
<1> QED
  BY <1>2, <1>4, <1>5, <1>6, LeaveLinks DEF Links

LEMMA SplitInnerLinks ==
    ASSUME TypeInv, Links, NEW t \in Threads, SplitInner(t)
    PROVE  Links'
<1>1. PICK p, n, k, m : p = par[t] /\ n = top + 1 /\ k = MinKey(t) /\ m = new[t]
  OBVIOUS
<1>2. /\ pc[t] = "parent" /\ p # Null
      /\ Fresh(n) /\ p # n
      /\ p \in Inner /\ p \in Nodes /\ m \in 1 .. top /\ m \in Nodes
      /\ Inner' = Inner \cup {n}
      /\ \A u \in Threads : new'[u] = IF u = t THEN n ELSE new[u]
      /\ UNCHANGED <<root, leftmost, pc>>
      /\ \E sep \in DOMAIN child[p] : InnerCut(p, n, k, m, sep)
  BY <1>1, SplitInnerFacts
<1>3. PICK sep \in DOMAIN child[p] : InnerCut(p, n, k, m, sep)
  BY <1>2
<1>4. /\ \A j : j \in DOMAIN child'[p] <=> j \in DOMAIN child[p] \cup {k} /\ j < sep
      /\ \A j : j \in DOMAIN child'[n] <=> j \in DOMAIN child[p] \cup {k} /\ sep <= j
      /\ \A j \in DOMAIN child'[p] : child'[p][j] = IF j = k THEN m ELSE child[p][j]
      /\ \A j \in DOMAIN child'[n] : child'[n][j] = IF j = k THEN m ELSE child[p][j]
      /\ \A x \in Nodes \ {p, n} : child'[x] = child[x]
      /\ \A x \in Nodes : parent'[x] = IF x = m THEN (IF k < sep THEN p ELSE n)
                                       ELSE IF Moved(p, sep, x) THEN n ELSE parent[x]
  BY <1>3 DEF InnerCut
<1>5. parent[m] = Null /\ m # root /\ LinksOf(p) /\ n \in Nodes /\ parent[n] = Null /\ leftmost[n] = Null
  BY <1>1, <1>2, FreshNode DEF Links, Fresh
<1>6. \A x : Moved(p, sep, x) => x \in Nodes /\ parent[x] = p /\ x # m /\ x # n
  <2>1. \A s \in DOMAIN child[p] : child[p][s] \in Nodes /\ parent[child[p][s]] = p
    BY <1>2, <1>5, ChildNode DEF LinksOf
  <2>2. \A x : Moved(p, sep, x) => x \in Nodes /\ parent[x] = p
    BY <2>1 DEF Moved
  <2>3. p # Null
    BY <1>2
  <2> QED
    BY <1>5, <2>2, <2>3
<1>7. \A x \in Nodes : parent[x] = Null /\ x # m => parent'[x] = Null
  BY <1>2, <1>4, <1>6
<1>8. root \in Nodes /\ parent'[root] = Null
  BY <1>5, <1>2, <1>7, NodesWithin DEF TypeInv, NodesTyped, Links
<1>9. sep \in Int /\ k \in Int /\ \A j \in DOMAIN child[p] : j \in Int
  BY <1>1, <1>2, MinKeyIs, ParentAt, NodeSize, KeysAssumption
<1>10. ASSUME NEW x \in Inner, x # p PROVE LinksOf(x)'
  <2>1. x \in Nodes /\ x # Null /\ x # n
    BY <1>2, ChildNode, NullAssumption DEF Fresh
  <2>2. \A y \in Nodes : parent[y] = x => parent'[y] = x
    BY <1>4, <1>5, <1>6, <1>10, <2>1
  <2> QED
    BY <1>2, <1>4, <1>10, <2>1, <2>2, SameLinks DEF Links
<1>11. \A s \in DOMAIN child[p] : /\ child[p][s] \in Nodes /\ child[p][s] # m
                                  /\ parent[child[p][s]] = p /\ child[p][s] # leftmost[p]
                                  /\ Moved(p, sep, child[p][s]) <=> sep <= s
  BY <1>2, <1>5, ChildNode DEF LinksOf, Moved
<1>12. LinksOf(p)'
  <2>1. \A s \in DOMAIN child'[p] : parent'[child'[p][s]] = p
    <3>1. ASSUME NEW s \in DOMAIN child'[p], s = k PROVE parent'[child'[p][s]] = p
      BY <1>2, <1>4, <3>1
    <3>2. ASSUME NEW s \in DOMAIN child'[p], s # k PROVE parent'[child'[p][s]] = p
      <4>1. s \in DOMAIN child[p] /\ s < sep /\ child'[p][s] = child[p][s]
        BY <1>4, <3>2
      <4>2. ~ (sep <= s)
        BY <1>9, <4>1
      <4> QED
        BY <1>4, <1>11, <4>1, <4>2
    <3> QED
      BY <3>1, <3>2
  <2>2. leftmost[p] # Null => parent'[leftmost[p]] = p /\ leftmost[p] # m
    <3>1. ASSUME leftmost[p] # Null PROVE leftmost[p] \in Nodes /\ parent[leftmost[p]] = p
      BY <1>2, <1>5, <3>1, ChildNode DEF LinksOf
    <3>2. ~Moved(p, sep, leftmost[p])
      BY <1>11 DEF Moved
    <3>3. p # Null
      BY <1>2
    <3> QED
      BY <1>4, <1>5, <3>1, <3>2, <3>3
  <2>3. \A s \in DOMAIN child'[p] : child'[p][s] # leftmost[p]
    BY <1>2, <1>4, <1>11, <2>2, NullAssumption
  <2>4. \A r, s \in DOMAIN child'[p] : child'[p][r] = child'[p][s] => r = s
    BY <1>4, <1>5, <1>11 DEF LinksOf
  <2> QED
    BY <1>2, <2>1, <2>2, <2>3, <2>4 DEF LinksOf
<1>13. LinksOf(n)'
  <2>1. \A s \in DOMAIN child'[n] : parent'[child'[n][s]] = n
    <3>1. ASSUME NEW s \in DOMAIN child'[n], s = k PROVE parent'[child'[n][s]] = n
      <4>1. ~ (k < sep)
        BY <1>4, <1>9, <3>1
      <4> QED
        BY <1>2, <1>4, <3>1, <4>1
    <3>2. ASSUME NEW s \in DOMAIN child'[n], s # k PROVE parent'[child'[n][s]] = n
      <4>1. s \in DOMAIN child[p] /\ sep <= s /\ child'[n][s] = child[p][s]
        BY <1>4, <3>2
      <4> QED
        BY <1>4, <1>11, <4>1
    <3> QED
      BY <3>1, <3>2
  <2>2. \A s \in DOMAIN child'[n] : child'[n][s] \in Nodes
    BY <1>2, <1>4, <1>11
  <2>3. \A r, s \in DOMAIN child'[n] : child'[n][r] = child'[n][s] => r = s
    BY <1>4, <1>5, <1>11 DEF LinksOf
  <2> QED
    BY <1>2, <1>5, <2>1, <2>2, <2>3, NullAssumption DEF LinksOf
<1>14. ASSUME NEW u \in Threads, pc[u] \in {"link", "parent"}
       PROVE  parent'[new'[u]] = Null /\ new'[u] # root
  <2>1. CASE u = t
    <3>1. n # root
      BY <1>2 DEF Fresh, TypeInv, NodesTyped
    <3>2. parent'[n] = Null
      BY <1>2, <1>5, <1>7 DEF Fresh
    <3> QED
      BY <1>2, <2>1, <3>1, <3>2
  <2>2. CASE u # t
    <3>1. new[u] \in Nodes /\ new[u] # m /\ new[u] # root /\ parent[new[u]] = Null
      BY <1>1, <1>14, <2>2, MinKeyIs, NullAssumption DEF Links
    <3> QED
      BY <1>2, <1>7, <2>2, <3>1
  <2> QED
    BY <2>1, <2>2
<1>15. \A u, v \in Threads : new'[u] = new'[v] /\ new'[u] # Null => u = v
  <2>1. \A u \in Threads : new[u] # n
    <3>1. \A u \in Threads : new[u] \in 1 .. top \cup {Null}
      BY DEF TypeInv, Calls
    <3> QED
      BY <1>2, <3>1 DEF Fresh
  <2> QED
    BY <1>2, <2>1 DEF Links
<1> QED
  BY <1>2, <1>8, <1>10, <1>12, <1>13, <1>14, <1>15 DEF Links

LEMMA NextLinks == TypeInv /\ Links /\ [Next]_vars => Links'
<1> SUFFICES ASSUME TypeInv, Links, [Next]_vars PROVE Links'
  OBVIOUS
<1>1. ASSUME UNCHANGED <<top, leaves, root, leftmost, child, parent, new>>,
             \A u \in Threads : pc'[u] \in {"link", "parent"} <=> pc[u] \in {"link", "parent"}
      PROVE  Links'
  BY <1>1 DEF Links, LinksOf, Inner
<1>2. ASSUME NEW t \in Threads, OutsideStep(t) PROVE Links'
  <2>1. /\ UNCHANGED <<top, leaves, root, leftmost, child, parent, new>>
        /\ pc[t] \in Outside /\ \E label \in Outside : pc' = [pc EXCEPT ![t] = label]
    BY <1>2, OutsideLocks DEF TypeInv, Goto
  <2> QED
    BY <1>1, <2>1 DEF TypeInv, LockInv, Outside
<1>3. ASSUME NEW t \in Threads, FindAndLock(t) \/ WriteLeaf(t) \/ EnterParent(t) \/ Unlock(t)
      PROVE  Links'
  BY <1>1, <1>3 DEF FindAndLock, WriteLeaf, EnterParent, Unlock, Goto, node_vars, TypeInv, LockInv
<1>4. ASSUME NEW t \in Threads, InsertStep(t) PROVE Links'
  BY <1>3, <1>4, SplitLeafLinks, GrowRootLinks, InsertChildLinks, SplitInnerLinks DEF InsertStep
<1>5. CASE UNCHANGED vars
  BY <1>1, <1>5 DEF vars, node_vars, thread_vars
<1> QED
  BY <1>2, <1>4, <1>5, NextIs

(***************************************************************************)
(* The next split of a child finds the right parent: insert_into_parent    *)
(* (bptree-template.hpp:563-615) sets the parent of every node it links or *)
(* moves, the children that a split of their parent moves under another    *)
(* node included, whichever inserts are between their critical sections.   *)
(***************************************************************************)
THEOREM ParentLinksHolds == Spec => []ParentLinks
<1>1. TypeInv /\ Links => ParentLinks
  BY DEF Links, LinksOf, ParentLinks, Inner
<1> QED
  BY <1>1, InitTypeInv, InitLinks, NextTypeInv, NextLinks, PTL DEF Spec

-----------------------------------------------------------------------------
(* The routes of the keys through the tree *)

(***************************************************************************)
(* A node that is split off is found through the node it was split from,   *)
(* left[n], until its parent knows it.                                     *)
(***************************************************************************)
Reach(left, n) == IF Pending(n) THEN left[n] ELSE n

\* Among the children f behind a left-most one, lm, the search for k takes v.
LeadsIn(f, lm, k, v) ==
    \/ (\A s \in DOMAIN f : k < s) /\ lm = v
    \/ \E s \in DOMAIN f : /\ s <= k /\ f[s] = v
                           /\ \A r \in DOMAIN f : r <= k => r <= s

\* The search for k goes on from inner node p at v.
Leads(p, k, v) == LeadsIn(child[p], leftmost[p], k, v)

(***************************************************************************)
(* lv is the height of a node; at[l][k] is the node that key k belongs to  *)
(* at height l, linked or not.                                             *)
(***************************************************************************)
Levels(lv) ==
    /\ lv \in [Nodes -> Nat]
    /\ \A n \in 1 .. top : lv[n] <= lv[root] /\ (lv[n] = 0 <=> n \in leaves)
    /\ \A p \in Inner : leftmost[p] # Null => lv[p] = lv[leftmost[p]] + 1

Routes(lv, at, left) ==
    /\ at \in [Nat -> [Keys -> Nodes]]
    /\ left \in [Nodes -> Nodes]
    /\ \A l \in Nat, k \in Keys : l <= lv[root] => at[l][k] \in 1 .. top /\ lv[at[l][k]] = l
    /\ \A l \in Nat, k \in Keys : \A v :
          l + 1 <= lv[root] /\ v = Reach(left, at[l][k]) => Leads(at[l + 1][k], k, v)
    /\ \A l \in Nat, k \in Keys : l = lv[root] => Reach(left, at[l][k]) = root

Placed(lv, at) ==
    /\ \A p \in Inner : \A s \in DOMAIN child[p] : at[lv[p]][s] = p
    /\ \A n \in leaves : \A k \in DOMAIN entry[n] : at[0][k] = n
    /\ \A t \in Threads : pc[t] = "write" => at[0][Key(t)] = cur[t]

\* What the second critical section finds of node m, split off from q at key k.
SplitOff(t, m, q, k, lv, at) ==
    /\ q \in 1 .. top /\ lv[q] = lv[m]
    /\ at[lv[m]][k] = m
    /\ \E j \in Keys : at[lv[m]][j] = q
    /\ \A j \in Keys : at[lv[m]][j] = q => j < k
    /\ \A j \in Keys : at[lv[m]][j] = m => k <= j
    /\ m \in leaves => q = cur[t]
    /\ pc[t] = "parent" => par[t] = parent[q]

Offs(lv, at, left) ==
    /\ \A t \in Threads : pc[t] \in {"link", "parent"} =>
          SplitOff(t, new[t], left[new[t]], MinKey(t), lv, at)
    /\ \A t, u \in Threads : new[t] = cur[u] => new[t] = Null

\* Keys that belong to a leaf are below those that belong to the next one.
Chained(at) ==
    \A n \in leaves : next[n] # Null =>
        /\ next[n] # Header
        /\ \A j, k \in Keys : at[0][j] = n /\ at[0][k] = next[n] => j < k

Tree(lv, at, left) ==
    /\ Levels(lv) /\ Routes(lv, at, left) /\ Placed(lv, at)
    /\ Offs(lv, at, left) /\ Chained(at)

TreeInv == \E lv, at, left : Tree(lv, at, left)

LEMMA LeadsTo ==
    ASSUME TypeInv, NEW p \in Nodes, NEW k \in Keys
    PROVE  Leads(p, k, SearchDown(p, k))
<1> DEFINE below == {s \in DOMAIN child[p] : s <= k}
<1>1. /\ IsFiniteSet(DOMAIN child[p]) /\ DOMAIN child[p] \subseteq Int /\ k \in Int
  BY NodeSize, KeysAssumption DEF TypeInv, NodesTyped, IsNode
<1>2. CASE below = {}
  BY <1>1, <1>2 DEF Leads, LeadsIn, SearchDown
<1>3. CASE below # {}
  <2>1. below \in SUBSET Int /\ IsFiniteSet(below)
    BY <1>1, FS_Subset
  <2>2. Greatest(below) \in below /\ \A y \in below : y <= Greatest(below)
    BY <1>3, <2>1, GreatestIs
  <2>3. SearchDown(p, k) = child[p][Greatest(below)]
    BY <1>3 DEF SearchDown
  <2> HIDE DEF below
  <2>4. PICK s : s = Greatest(below)
    OBVIOUS
  <2>5. /\ s \in DOMAIN child[p] /\ s <= k /\ child[p][s] = SearchDown(p, k)
        /\ \A r \in DOMAIN child[p] : r <= k => r <= s
    BY <2>2, <2>3, <2>4 DEF below
  <2> QED
    BY <2>5 DEF Leads, LeadsIn
<1> QED
  BY <1>2, <1>3

LEMMA LeadsOnce ==
    ASSUME TypeInv, NEW p \in Nodes, NEW k \in Keys, NEW v, NEW w, Leads(p, k, v), Leads(p, k, w)
    PROVE  v = w
<1>1. DOMAIN child[p] \subseteq Int /\ k \in Int
  BY NodeSize, KeysAssumption DEF TypeInv, NodesTyped
<1> QED
  BY <1>1 DEF Leads, LeadsIn

LEMMA LeadsToChild ==
    ASSUME TypeInv, Links, NEW p \in Inner, NEW k \in Keys, NEW v \in 1 .. top, Leads(p, k, v)
    PROVE  parent[v] = p
  BY NodesWithin DEF Leads, LeadsIn, Links, LinksOf

LEMMA PendingNew ==
    ASSUME TypeInv, NEW t \in Threads, pc[t] \in {"link", "parent"}
    PROVE  Pending(new[t]) /\ new[t] \in 1 .. top /\ new[t] \in Nodes /\ MinKey(t) \in Keys
  BY MinKeyIs DEF Pending

LEMMA RouteAt ==
    ASSUME TypeInv, NEW lv, NEW at, NEW left, Tree(lv, at, left),
           NEW l \in Nat, NEW k \in Keys, l <= lv[root]
    PROVE  /\ at[l][k] \in 1 .. top /\ at[l][k] \in Nodes /\ lv[at[l][k]] = l
           /\ at[l][k] \in leaves <=> l = 0
           /\ at[l][k] \in Inner <=> l # 0
<1>1. at[l][k] \in 1 .. top /\ lv[at[l][k]] = l
  BY DEF Tree, Routes
<1> QED
  BY <1>1, NodesWithin DEF Tree, Levels, Inner

LEMMA RootLevel ==
    ASSUME TypeInv, NEW lv, NEW at, NEW left, Tree(lv, at, left)
    PROVE  /\ root \in Nodes /\ lv[root] \in Nat
           /\ \A n \in 1 .. top : n \in Nodes /\ lv[n] \in Nat /\ lv[n] <= lv[root]
           /\ \A n \in Inner : n \in Nodes /\ n \in 1 .. top /\ lv[n] \in Nat /\ lv[n] # 0 /\ lv[n] <= lv[root]
<1>1. root \in Nodes /\ 1 .. top \subseteq Nodes
  BY NodesWithin DEF TypeInv, NodesTyped
<1>2. /\ lv[root] \in Nat
      /\ \A n \in 1 .. top : n \in Nodes /\ lv[n] \in Nat /\ lv[n] <= lv[root]
  BY <1>1 DEF Tree, Levels
<1> QED
  BY <1>1, <1>2 DEF Inner, Tree, Levels

\* Two nodes of a level that wait for a parent were split from two nodes.
LEMMA SourceOf ==
    ASSUME TypeInv, Links, NEW lv, NEW at, NEW left, Tree(lv, at, left),
           NEW t \in Threads, pc[t] \in {"link", "parent"}, NEW m, m = new[t], NEW q, q = left[m]
    PROVE  /\ q \in 1 .. top /\ q # m /\ lv[q] = lv[m] /\ ~Pending(q)
           /\ \A x : Pending(x) /\ left[x] = q => x = m
<1>1. PICK k : k = MinKey(t)
  OBVIOUS
<1>2. SplitOff(t, m, q, k, lv, at)
  BY <1>1 DEF Tree, Offs
<1>3. /\ m \in 1 .. top /\ m \in Nodes /\ k \in Keys /\ k \in Int
  BY <1>1, PendingNew, KeysAssumption
<1>4. q \in 1 .. top /\ q # m /\ lv[q] = lv[m]
  BY <1>2, <1>3 DEF SplitOff
<1>5. m \in leaves <=> q \in leaves
  BY <1>3, <1>4 DEF Tree, Levels
<1>6. ASSUME NEW u \in Threads, pc[u] \in {"link", "parent"}, u # t, m \notin leaves
      PROVE  new[u] \in leaves
  BY <1>6 DEF TypeInv, Calls, CallOf
<1>7. ~Pending(q)
  <2>1. ASSUME NEW u \in Threads, pc[u] \in {"link", "parent"}, new[u] = q PROVE FALSE
    <3>1. u # t
      BY <1>4, <2>1
    <3>2. CASE m \in leaves
      <4>1. q = cur[t] /\ q # Null
        BY <1>2, <1>4, <3>2, NodesWithin DEF SplitOff
      <4> QED
        BY <2>1, <4>1 DEF Tree, Offs
    <3>3. CASE m \notin leaves
      BY <1>5, <1>6, <2>1, <3>1, <3>3
    <3> QED
      BY <3>2, <3>3
  <2> QED
    BY <2>1 DEF Pending
<1>8. ASSUME NEW u \in Threads, pc[u] \in {"link", "parent"}, left[new[u]] = q PROVE new[u] = m
  <2>1. CASE u = t
    BY <2>1
  <2>2. CASE u # t
    <3>1. SplitOff(u, new[u], q, MinKey(u), lv, at)
      BY <1>8 DEF Tree, Offs
    <3>2. /\ new[u] \in 1 .. top /\ lv[q] = lv[new[u]]
          /\ new[u] \in leaves => q = cur[u]
      BY <1>8, <3>1, PendingNew DEF SplitOff
    <3>3. new[u] \in leaves <=> q \in leaves
      BY <1>4, <3>2 DEF Tree, Levels
    <3>4. CASE m \in leaves
      <4>1. cur[t] = q /\ cur[u] = q /\ q # Null
        BY <1>2, <1>4, <1>5, <3>2, <3>3, <3>4, NodesWithin DEF SplitOff
      <4> QED
        BY <2>2, <4>1 DEF TypeInv, LockInv, OneWriter
    <3>5. CASE m \notin leaves
      BY <1>5, <1>6, <1>8, <2>2, <3>3, <3>5
    <3> QED
      BY <3>4, <3>5
  <2> QED
    BY <2>1, <2>2
<1> QED
  BY <1>4, <1>7, <1>8 DEF Pending

LEMMA ReachAt ==
    ASSUME TypeInv, Links, NEW lv, NEW at, NEW left, Tree(lv, at, left),
           NEW l \in Nat, NEW k \in Keys, l <= lv[root], NEW v, v = Reach(left, at[l][k])
    PROVE  v \in 1 .. top /\ v \in Nodes /\ lv[v] = l /\ ~Pending(v)
<1>1. at[l][k] \in 1 .. top /\ lv[at[l][k]] = l
  BY RouteAt
<1>2. CASE Pending(at[l][k])
  <2>1. PICK t \in Threads : pc[t] \in {"link", "parent"} /\ new[t] = at[l][k]
    BY <1>2 DEF Pending
  <2>2. v = left[new[t]]
    BY <1>2, <2>1 DEF Reach
  <2> QED
    BY <1>1, <2>1, <2>2, SourceOf, RootLevel
<1>3. CASE ~Pending(at[l][k])
  BY <1>1, <1>3, RootLevel DEF Reach
<1> QED
  BY <1>2, <1>3

LEMMA ChildLevel ==
    ASSUME TypeInv, Links, NEW lv, NEW at, NEW left, Tree(lv, at, left),
           NEW p \in Inner, NEW s \in DOMAIN child[p]
    PROVE  /\ lv[p] = lv[child[p][s]] + 1 /\ child[p][s] \in 1 .. top
           /\ ~Pending(child[p][s])
<1>1. p \in Nodes /\ lv[p] \in Nat \ {0} /\ lv[p] <= lv[root] /\ lv[root] \in Nat
  BY RootLevel
<1>2. s \in Keys /\ s \in Int
  BY <1>1, KeysAssumption DEF TypeInv, NodesTyped, IsNode
<1>3. PICK l \in Nat : lv[p] = l + 1 /\ l <= lv[root]
  <2>1. lv[p] - 1 \in Nat /\ lv[p] = (lv[p] - 1) + 1 /\ lv[p] - 1 <= lv[root]
    BY <1>1
  <2> QED
    BY <2>1, Zenon
<1>4. at[l + 1][s] = p
  BY <1>3 DEF Tree, Placed
<1>5. PICK v : v = Reach(left, at[l][s])
  OBVIOUS
<1>6. Leads(p, s, v)
  BY <1>1, <1>2, <1>3, <1>4, <1>5 DEF Tree, Routes
<1>7. v = child[p][s]
  <2>1. DOMAIN child[p] \subseteq Int
    BY <1>1, NodeSize DEF TypeInv, NodesTyped
  <2> QED
    BY <1>2, <1>6, <2>1 DEF Leads, LeadsIn
<1>8. v \in 1 .. top /\ lv[v] = l /\ ~Pending(v)
  BY <1>2, <1>3, <1>5, ReachAt
<1> QED
  BY <1>3, <1>7, <1>8

(***************************************************************************)
(* Where insert_into_parent links the node m of thread t: the parent of    *)
(* its left neighbour q is on the route of its first key, which leads to   *)
(* q; or q is the root.                                                    *)
(***************************************************************************)
LEMMA Target ==
    ASSUME TypeInv, Links, NEW lv, NEW at, NEW left, Tree(lv, at, left),
           NEW t \in Threads, pc[t] = "parent", NEW m, m = new[t], NEW q, q = left[m],
           NEW k, k = MinKey(t), NEW p, p = par[t]
    PROVE  /\ lv[m] \in Nat /\ lv[m] <= lv[root]
           /\ p = Null => q = root /\ lv[m] = lv[root]
           /\ p # Null => /\ p \in Inner /\ lv[p] = lv[m] + 1 /\ lv[p] <= lv[root]
                          /\ at[lv[m] + 1][k] = p /\ Leads(p, k, q)
                          /\ k \notin DOMAIN child[p]
<1>1. SplitOff(t, m, q, k, lv, at)
  BY DEF Tree, Offs
<1>2. PICK l : l = lv[m]
  OBVIOUS
<1>3. /\ m \in 1 .. top /\ k \in Keys /\ l \in Nat /\ l <= lv[root] /\ lv[root] \in Nat
      /\ Pending(m) /\ k \in Int
  BY <1>2, PendingNew, RootLevel, KeysAssumption
<1>4. PICK j \in Keys : at[l][j] = q /\ j < k
  BY <1>1, <1>2 DEF SplitOff
<1>5. /\ at[l][k] = m /\ Reach(left, at[l][k]) = q
      /\ p = parent[q]
  BY <1>1, <1>2, <1>3 DEF SplitOff, Reach
<1>6. q \in 1 .. top /\ ~Pending(q)
  BY SourceOf
<1>7. Reach(left, at[l][j]) = q
  BY <1>4, <1>6 DEF Reach
<1>8. CASE l = lv[root]
  <2>1. q = root
    BY <1>3, <1>5, <1>8 DEF Tree, Routes
  <2> QED
    BY <1>2, <1>3, <1>5, <1>8, <2>1 DEF Links
<1>9. CASE l # lv[root]
  <2>1. l + 1 <= lv[root] /\ l + 1 \in Nat
    BY <1>3, <1>9
  <2>2. PICK x, y : x = at[l + 1][k] /\ y = at[l + 1][j]
    OBVIOUS
  <2>3. /\ x \in Inner /\ y \in Inner /\ lv[x] = l + 1
    <3>1. PICK h \in Nat : h = l + 1 /\ h <= lv[root] /\ h # 0
      BY <1>3, <2>1
    <3> QED
      BY <1>3, <2>2, <3>1, RouteAt
  <2>4. Leads(x, k, q) /\ Leads(y, j, q)
    BY <1>3, <1>5, <1>7, <2>1, <2>2 DEF Tree, Routes
  <2>5. parent[q] = x /\ parent[q] = y
    BY <1>3, <1>6, <2>3, <2>4, LeadsToChild
  <2>6. x = p /\ y = p
    BY <1>5, <2>5
  <2>7. p # Null /\ p \in Nodes
    BY <2>3, <2>6, NodesWithin
  <2>8. k \notin DOMAIN child[p]
    <3>1. SUFFICES ASSUME k \in DOMAIN child[p] PROVE FALSE
      OBVIOUS
    <3>2. DOMAIN child[p] \subseteq Int /\ j \in Int
      BY <2>7, NodeSize, KeysAssumption DEF TypeInv, NodesTyped
    <3>3. child[p][k] = q
      BY <1>3, <2>4, <2>6, <3>1, <3>2 DEF Leads, LeadsIn
    <3>4. LinksOf(p)
      BY <2>3, <2>6 DEF Links
    <3>5. CASE leftmost[p] = q
      BY <3>1, <3>3, <3>4, <3>5 DEF LinksOf
    <3>6. CASE leftmost[p] # q
      <4>1. PICK s \in DOMAIN child[p] : s <= j /\ child[p][s] = q
        BY <2>4, <2>6, <3>6 DEF Leads, LeadsIn
      <4>2. s = k
        BY <3>1, <3>3, <3>4, <4>1 DEF LinksOf
      <4> QED
        BY <1>3, <1>4, <3>2, <4>1, <4>2
    <3> QED
      BY <3>5, <3>6
  <2> QED
    BY <1>2, <1>3, <1>5, <1>6, <2>1, <2>2, <2>3, <2>4, <2>6, <2>7, <2>8
<1> QED
  BY <1>8, <1>9

\* The routes through q part at the first key of the node split off from it.
LEMMA TwoOf ==
    ASSUME TypeInv, Links, NEW lv, NEW at, NEW left, Tree(lv, at, left),
           NEW t \in Threads, pc[t] \in {"link", "parent"}, NEW m, m = new[t], NEW q, q = left[m],
           NEW k, k = MinKey(t),
           NEW j \in Keys, Reach(left, at[lv[m]][j]) = q
    PROVE  at[lv[m]][j] = IF k <= j THEN m ELSE q
<1>1. SplitOff(t, m, q, k, lv, at)
  BY DEF Tree, Offs
<1>2. at[lv[m]][j] = q => j < k
  BY <1>1 DEF SplitOff
<1>3. at[lv[m]][j] = m => k <= j
  BY <1>1 DEF SplitOff
<1>4. at[lv[m]][j] = q \/ at[lv[m]][j] = m
  BY SourceOf DEF Reach
<1>5. j \in Int /\ k \in Int
  BY PendingNew, KeysAssumption
<1> QED
  BY <1>2, <1>3, <1>4, <1>5

LEMMA SameMinKey ==
    ASSUME NEW t \in Threads, new'[t] = new[t], leaves' = leaves, child' = child,
           DOMAIN entry'[new[t]] = DOMAIN entry[new[t]]
    PROVE  MinKey(t)' = MinKey(t)
  BY DEF MinKey

\* A step that leaves the tree alone, but for the entries of a leaf.
LEMMA SameTree ==
    ASSUME TypeInv, NEW lv, NEW at, NEW left, Tree(lv, at, left),
           UNCHANGED <<top, leaves, root, next, leftmost, child, parent, new>>,
           \A u \in Threads : pc'[u] \in {"link", "parent"} <=> pc[u] \in {"link", "parent"},
           \A n \in leaves : \A k \in DOMAIN entry'[n] : at[0][k] = n,
           \A u \in Threads : pc'[u] = "write" => at[0][arg'[u][1]] = cur'[u],
           \A u \in Threads : pc'[u] \in {"link", "parent"} =>
              /\ DOMAIN entry'[new[u]] = DOMAIN entry[new[u]]
              /\ cur'[u] = cur[u]
              /\ pc'[u] = "parent" => par'[u] = parent[left[new[u]]],
           \A t, u \in Threads : new[t] = cur'[u] => new[t] = Null
    PROVE  Tree(lv, at, left)'
<1>1. \A n : Pending(n)' <=> Pending(n)
  BY DEF Pending
<1>2. \A n : Reach(left, n)' = Reach(left, n)
  BY <1>1 DEF Reach
<1>3. \A p, k, v : Leads(p, k, v)' <=> Leads(p, k, v)
  BY DEF Leads, LeadsIn
<1>4. Inner' = Inner
  BY DEF Inner
<1>5. Levels(lv)'
  BY <1>4 DEF Tree, Levels
<1>6. Routes(lv, at, left)'
  <2>1. \A l \in Nat, k \in Keys : \A v :
          l + 1 <= lv[root'] /\ v = Reach(left, at[l][k])' => Leads(at[l + 1][k], k, v)'
    BY <1>2, <1>3 DEF Tree, Routes
  <2>2. \A l \in Nat, k \in Keys : l = lv[root'] => Reach(left, at[l][k])' = root'
    BY <1>2 DEF Tree, Routes
  <2> QED
    BY <2>1, <2>2 DEF Tree, Routes
<1>7. Placed(lv, at)'
  BY <1>4 DEF Tree, Placed, Key
<1>8. ASSUME NEW u \in Threads, pc'[u] \in {"link", "parent"}
      PROVE  SplitOff(u, new[u], left[new[u]], MinKey(u), lv, at)'
  <2>1. PICK m, q, k : m = new[u] /\ q = left[m] /\ k = MinKey(u)
    OBVIOUS
  <2>2. SplitOff(u, m, q, k, lv, at)
    BY <1>8, <2>1 DEF Tree, Offs
  <2>3. m' = new'[u] /\ k = MinKey(u)'
    BY <1>8, <2>1, SameMinKey
  <2>4. SplitOff(u, m, q, k, lv, at)'
    BY <1>8, <2>1, <2>2 DEF SplitOff
  <2> QED
    BY <2>1, <2>3, <2>4
<1>9. Offs(lv, at, left)'
  BY <1>8 DEF Offs
<1>10. Chained(at)'
  BY DEF Tree, Chained
<1> QED
  BY <1>5, <1>6, <1>7, <1>9, <1>10 DEF Tree

LEMMA InitTree == Init => TreeInv
<1> SUFFICES ASSUME Init PROVE TreeInv
  OBVIOUS
<1>1. PICK lv, at, left : /\ lv = [n \in Nodes |-> 0]
                          /\ at = [l \in Nat |-> [k \in Keys |-> Header]]
                          /\ left = [n \in Nodes |-> Header]
  OBVIOUS
<1>2. /\ Header \in Nodes /\ 1 .. top = {Header} /\ Inner = {} /\ leaves = {Header} /\ root = Header
      /\ \A t \in Threads : pc[t] = "idle" /\ new[t] = Null
      /\ DOMAIN NoEntries = {} /\ entry[Header] = NoEntries
  BY SlotsAssumption DEF Init, Inner, Header, Nodes, NoEntries
<1>3. Levels(lv)
  BY <1>1, <1>2 DEF Levels
<1>4. \A n : Reach(left, n) = n
  BY <1>2 DEF Reach, Pending
<1>5. Routes(lv, at, left)
  BY <1>1, <1>2, <1>4 DEF Routes
<1>6. Placed(lv, at)
  BY <1>1, <1>2 DEF Placed
<1>7. Offs(lv, at, left)
  BY <1>2 DEF Offs
<1>8. Chained(at)
  BY <1>2 DEF Init, Chained
<1> QED
  BY <1>3, <1>5, <1>6, <1>7, <1>8 DEF Tree, TreeInv

\* Node n is split off from node q at height h and key sep.
CutRoutes(lv, at, left, lv2, at2, left2, h, q, n, sep) ==
    /\ lv2 \in [Nodes -> Nat] /\ left2 \in [Nodes -> Nodes]
    /\ at2 \in [Nat -> [Keys -> Nodes]]
    /\ lv2[n] = h /\ left2[n] = q
    /\ \A x \in Nodes \ {n} : lv2[x] = lv[x] /\ left2[x] = left[x]
    /\ \A l \in Nat, j \in Keys :
          at2[l][j] = IF l = h /\ at[l][j] = q /\ sep <= j THEN n ELSE at[l][j]

LEMMA CutExists ==
    ASSUME NEW lv, NEW at, NEW left, Tree(lv, at, left),
           NEW h \in Nat, NEW q \in Nodes, NEW n \in Nodes, NEW sep
    PROVE  \E lv2, at2, left2 : CutRoutes(lv, at, left, lv2, at2, left2, h, q, n, sep)
<1>1. lv \in [Nodes -> Nat] /\ left \in [Nodes -> Nodes] /\ at \in [Nat -> [Keys -> Nodes]]
  BY DEF Tree, Levels, Routes
<1>2. PICK lv2, left2 : lv2 = [lv EXCEPT ![n] = h] /\ left2 = [left EXCEPT ![n] = q]
  OBVIOUS
<1>3. PICK at2 : at2 = [l \in Nat |-> [j \in Keys |->
                          IF l = h /\ at[l][j] = q /\ sep <= j THEN n ELSE at[l][j]]]
  OBVIOUS
<1>4. at2 \in [Nat -> [Keys -> Nodes]]
  BY <1>1, <1>3
<1>5. /\ lv2 \in [Nodes -> Nat] /\ left2 \in [Nodes -> Nodes]
      /\ lv2[n] = h /\ left2[n] = q
      /\ \A x \in Nodes \ {n} : lv2[x] = lv[x] /\ left2[x] = left[x]
  BY <1>1, <1>2
<1>6. \A l \in Nat, j \in Keys :
          at2[l][j] = IF l = h /\ at[l][j] = q /\ sep <= j THEN n ELSE at[l][j]
  BY <1>3
<1>7. CutRoutes(lv, at, left, lv2, at2, left2, h, q, n, sep)
  BY <1>4, <1>5, <1>6 DEF CutRoutes
<1> QED
  BY <1>7

LEMMA SplitLeafTree ==
    ASSUME TypeInv, Links, TreeInv, NEW t \in Threads, SplitLeaf(t)
    PROVE  TreeInv'
<1>1. PICK lv, at, left : Tree(lv, at, left)
  BY DEF TreeInv
<1>2. PICK q, n, k : q = cur[t] /\ n = top + 1 /\ k = Key(t)
  OBVIOUS
<1>3. /\ pc[t] = "write" /\ Fresh(n) /\ q \in leaves /\ q \in Nodes /\ q # n /\ k \in Keys
      /\ top' = n /\ leaves' = leaves \cup {n} /\ Inner' = Inner
      /\ \A u \in Threads : new'[u] = IF u = t THEN n ELSE new[u]
      /\ \A u \in Threads : pc'[u] = IF u = t THEN "link" ELSE pc[u]
      /\ UNCHANGED <<root, leftmost, child, parent, arg, cur, par>>
      /\ next'[n] = next[q] /\ next'[q] = n /\ \A x \in Nodes \ {q, n} : next'[x] = next[x]
      /\ \E sep \in DOMAIN entry[q] : LeafCut(t, q, n, k, sep)
  BY <1>2, SplitLeafFacts
<1>4. PICK sep \in DOMAIN entry[q] : LeafCut(t, q, n, k, sep)
  BY <1>3
<1>5. /\ \E j \in DOMAIN entry[q] : j < sep
      /\ \A j : j \in DOMAIN entry'[q] <=> j \in DOMAIN entry[q] \cup {k} /\ j < sep
      /\ \A j : j \in DOMAIN entry'[n] <=> j \in DOMAIN entry[q] \cup {k} /\ sep <= j
      /\ \A x \in Nodes \ {q, n} : entry'[x] = entry[x]
  BY <1>4 DEF LeafCut
<1>6. n \in Nodes /\ n \notin 1 .. top /\ 1 .. n = 1 .. top \cup {n} /\ 1 .. top \subseteq Nodes
  BY <1>2, <1>3, FreshNode, NodesWithin DEF Fresh
<1>7. PICK lv2, at2, left2 : CutRoutes(lv, at, left, lv2, at2, left2, 0, q, n, sep)
  BY <1>1, <1>3, <1>6, CutExists
<1>8. /\ lv2 \in [Nodes -> Nat] /\ left2 \in [Nodes -> Nodes]
      /\ at2 \in [Nat -> [Keys -> Nodes]]
      /\ lv2[n] = 0 /\ left2[n] = q
      /\ \A x \in Nodes \ {n} : lv2[x] = lv[x] /\ left2[x] = left[x]
      /\ \A l \in Nat, j \in Keys :
            at2[l][j] = IF l = 0 /\ at[l][j] = q /\ sep <= j THEN n ELSE at[l][j]
  BY <1>7 DEF CutRoutes
<1>9. /\ DOMAIN entry[q] \subseteq Keys /\ sep \in Int /\ \A j \in Keys : j \in Int
      /\ \A j \in DOMAIN entry[q] : at[0][j] = q
      /\ at[0][k] = q
  BY <1>1, <1>2, <1>3, KeysAssumption DEF TypeInv, NodesTyped, IsNode, Tree, Placed
<1>10. \A x \in 1 .. top : x # n /\ x \in Nodes
  BY <1>6
<1>11. root \in 1 .. top /\ lv2[root] = lv[root] /\ lv[root] \in Nat
  BY <1>1, <1>8, <1>10, RootLevel DEF TypeInv, NodesTyped
<1>12. Levels(lv2)'
  <2>1. \A x \in 1 .. n : lv2[x] <= lv2[root] /\ (lv2[x] = 0 <=> x \in leaves')
    <3> SUFFICES ASSUME NEW x \in 1 .. n PROVE lv2[x] <= lv2[root] /\ (lv2[x] = 0 <=> x \in leaves')
      OBVIOUS
    <3>1. CASE x = n
      BY <1>3, <1>8, <1>11, <3>1
    <3>2. CASE x # n
      <4>1. x \in 1 .. top /\ x \in Nodes
        BY <1>6, <1>10, <3>2
      <4>2. lv2[x] = lv[x] /\ (x \in leaves' <=> x \in leaves)
        BY <1>3, <1>8, <3>2, <4>1
      <4> QED
        BY <1>1, <1>11, <4>1, <4>2 DEF Tree, Levels
    <3> QED
      BY <3>1, <3>2
  <2>2. \A p \in Inner : leftmost[p] # Null => lv2[p] = lv2[leftmost[p]] + 1
    BY <1>1, <1>8, <1>10, ChildNode DEF Tree, Levels
  <2> QED
    BY <1>3, <1>8, <2>1, <2>2 DEF Levels
<1>13. /\ \A x \in 1 .. top : Pending(x)' <=> Pending(x)
       /\ Pending(n)' /\ ~Pending(q)
  <2>1. ~Pending(q)
    BY <1>1, <1>2, <1>3, NullAssumption DEF Pending, Tree, Offs
  <2> QED
    BY <1>3, <1>10, <2>1 DEF Pending
<1>14. \A l \in Nat, j \in Keys : l <= lv[root] => at[l][j] \in 1 .. top /\ lv[at[l][j]] = l
  BY <1>1 DEF Tree, Routes
<1>15. \A l \in Nat, j \in Keys : l <= lv[root] =>
          Reach(left2, at2[l][j])' = Reach(left, at[l][j])
  <2> SUFFICES ASSUME NEW l \in Nat, NEW j \in Keys, l <= lv[root]
               PROVE  Reach(left2, at2[l][j])' = Reach(left, at[l][j])
    OBVIOUS
  <2>1. CASE l = 0 /\ at[l][j] = q /\ sep <= j
    BY <1>8, <1>13, <2>1 DEF Reach
  <2>2. CASE ~(l = 0 /\ at[l][j] = q /\ sep <= j)
    BY <1>8, <1>10, <1>13, <1>14, <2>2 DEF Reach
  <2> QED
    BY <2>1, <2>2
<1>16. Routes(lv2, at2, left2)'
  <2>1. \A l \in Nat, j \in Keys : l <= lv[root] => at2[l][j] \in 1 .. n /\ lv2[at2[l][j]] = l
    <3> SUFFICES ASSUME NEW l \in Nat, NEW j \in Keys, l <= lv[root]
                 PROVE  at2[l][j] \in 1 .. n /\ lv2[at2[l][j]] = l
      OBVIOUS
    <3>1. PICK x : x = at[l][j]
      OBVIOUS
    <3>2. x \in 1 .. top /\ x # n /\ x \in Nodes /\ lv2[x] = l
      BY <1>8, <1>10, <1>14, <3>1
    <3>3. CASE l = 0 /\ x = q /\ sep <= j
      <4>1. at2[l][j] = n
        BY <1>8, <3>1, <3>3
      <4>2. n \in 1 .. n
        BY <1>6
      <4> QED
        BY <1>8, <3>3, <4>1, <4>2
    <3>4. CASE ~ (l = 0 /\ x = q /\ sep <= j)
      <4>1. at2[l][j] = x
        BY <1>8, <3>1, <3>4
      <4> QED
        BY <1>6, <3>2, <4>1
    <3> QED
      BY <3>3, <3>4
  <2>2. ASSUME NEW l \in Nat, NEW j \in Keys, NEW v, l + 1 <= lv[root], v = Reach(left2, at2[l][j])'
        PROVE  Leads(at2[l + 1][j], j, v)'
    <3>1. v = Reach(left, at[l][j])
      BY <1>11, <1>15, <2>2
    <3>2. Leads(at[l + 1][j], j, v)
      BY <1>1, <2>2, <3>1 DEF Tree, Routes
    <3>3. at2[l + 1][j] = at[l + 1][j]
      BY <1>8
    <3> QED
      BY <1>3, <3>2, <3>3 DEF Leads, LeadsIn
  <2>3. \A l \in Nat, j \in Keys : l = lv[root] => Reach(left2, at2[l][j])' = root
    BY <1>1, <1>15 DEF Tree, Routes
  <2> QED
    BY <1>3, <1>8, <1>11, <2>1, <2>2, <2>3 DEF Routes
<1>17. Placed(lv2, at2)'
  <2>1. \A p \in Inner : \A s \in DOMAIN child[p] : at2[lv2[p]][s] = p
    <3> SUFFICES ASSUME NEW p \in Inner, NEW s \in DOMAIN child[p] PROVE at2[lv2[p]][s] = p
      OBVIOUS
    <3>1. p \in 1 .. top /\ lv[p] \in Nat /\ lv[p] # 0 /\ s \in Keys
      BY <1>1, <1>10, RootLevel DEF TypeInv, NodesTyped, IsNode
    <3>2. at[lv[p]][s] = p
      BY <1>1 DEF Tree, Placed
    <3> QED
      BY <1>8, <1>10, <3>1, <3>2
  <2>2. ASSUME NEW x \in leaves', NEW j \in DOMAIN entry'[x] PROVE at2[0][j] = x
    <3>1. CASE x = n
      <4>1. j \in DOMAIN entry[q] \cup {k} /\ sep <= j
        BY <1>5, <2>2, <3>1
      <4>2. j \in Keys /\ at[0][j] = q
        BY <1>3, <1>9, <4>1
      <4> QED
        BY <1>8, <3>1, <4>1, <4>2
    <3>2. CASE x = q
      <4>1. j \in DOMAIN entry[q] \cup {k} /\ j < sep
        BY <1>5, <2>2, <3>2
      <4>2. j \in Keys /\ at[0][j] = q /\ ~ (sep <= j)
        BY <1>3, <1>9, <4>1
      <4> QED
        BY <1>8, <3>2, <4>2
    <3>3. CASE x # n /\ x # q
      <4>1. x \in leaves /\ x \in Nodes /\ j \in DOMAIN entry[x]
        BY <1>3, <1>5, <2>2, <3>3, NodesWithin
      <4>2. at[0][j] = x /\ j \in Keys
        BY <1>1, <4>1 DEF Tree, Placed, TypeInv, NodesTyped, IsNode
      <4> QED
        BY <1>8, <3>3, <4>2
    <3> QED
      BY <3>1, <3>2, <3>3
  <2>3. ASSUME NEW u \in Threads, pc'[u] = "write" PROVE at2[0][Key(u)] = cur[u]
    <3>1. u # t /\ pc[u] = "write"
      BY <1>3, <2>3
    <3>2. Key(u) \in Keys /\ at[0][Key(u)] = cur[u]
      BY <1>1, <3>1, ArgKey DEF Tree, Placed
    <3>3. cur[u] # q
      BY <1>2, <1>3, <3>1, NullAssumption DEF TypeInv, LockInv, OneWriter
    <3> QED
      BY <1>8, <3>2, <3>3
  <2>4. \A u \in Threads : pc'[u] = "write" => at2[0][Key(u)'] = cur'[u]
    BY <1>3, <2>3 DEF Key
  <2> QED
    BY <1>3, <2>1, <2>2, <2>4 DEF Placed
<1>18. SplitOff(t, n, q, sep, lv2, at2)'
  <2>1. at2[0][sep] = n
    BY <1>8, <1>9
  <2>2. \E j \in Keys : at2[0][j] = q
    <3>1. PICK j \in DOMAIN entry[q] : j < sep
      BY <1>5
    <3>2. j \in Keys /\ at[0][j] = q /\ ~ (sep <= j)
      BY <1>9, <3>1
    <3> QED
      BY <1>8, <3>2
  <2>3. ASSUME NEW j \in Keys, at2[0][j] = q PROVE j < sep
    <3>1. at2[0][j] = IF at[0][j] = q /\ sep <= j THEN n ELSE at[0][j]
      BY <1>8
    <3>2. ~ (sep <= j) /\ j \in Int
      BY <1>3, <1>9, <2>3, <3>1
    <3> QED
      BY <1>9, <3>2
  <2>4. ASSUME NEW j \in Keys, at2[0][j] = n PROVE sep <= j
    BY <1>8, <1>10, <1>11, <1>14, <2>4
  <2>5. q \in 1 .. n /\ lv2[q] = 0 /\ n \in leaves'
    BY <1>1, <1>3, <1>6, <1>8, <1>10, NodesWithin DEF Tree, Levels
  <2> QED
    BY <1>2, <1>3, <1>8, <2>1, <2>2, <2>3, <2>4, <2>5 DEF SplitOff
<1>19. MinKey(t)' = sep
  <2>1. sep \in DOMAIN entry'[n] /\ \A j \in DOMAIN entry'[n] : sep <= j
    BY <1>5, <1>9
  <2>2. MinKey(t)' = Least(DOMAIN entry'[n])
    BY <1>3 DEF MinKey
  <2>3. DOMAIN entry'[n] \subseteq Int
    BY <1>3, <1>5, <1>9
  <2>4. \A x \in DOMAIN entry'[n] : (\A y \in DOMAIN entry'[n] : x <= y) => x = sep
    BY <2>1, <2>3
  <2> QED
    BY <2>1, <2>2, <2>4 DEF Least
<1>20. ASSUME NEW u \in Threads \ {t}, pc[u] \in {"link", "parent"}
       PROVE  SplitOff(u, new[u], left2[new[u]], MinKey(u), lv2, at2)'
  <2>1. PICK m, r, s : m = new[u] /\ r = left[m] /\ s = MinKey(u)
    OBVIOUS
  <2>2. SplitOff(u, m, r, s, lv, at)
    BY <1>1, <1>20, <2>1 DEF Tree, Offs
  <2>3. m \in 1 .. top /\ m \in Nodes /\ s \in Keys /\ Pending(m) /\ lv[m] \in Nat /\ lv[m] <= lv[root]
    BY <1>1, <1>20, <2>1, PendingNew, RootLevel
  <2>4. m # q /\ m # n
    BY <1>10, <1>13, <2>3
  <2>5. s = MinKey(u)'
    <3>1. /\ new'[u] = m /\ entry'[m] = entry[m] /\ child' = child
          /\ m \in leaves' <=> m \in leaves
      BY <1>3, <1>5, <1>20, <2>1, <2>3, <2>4
    <3> QED
      BY <2>1, <3>1 DEF MinKey
  <2>6. ~ (lv[m] = 0 /\ r = q)
    <3>1. SUFFICES ASSUME lv[m] = 0, r = q PROVE FALSE
      OBVIOUS
    <3>2. m \in leaves
      BY <1>1, <2>3, <3>1 DEF Tree, Levels
    <3>3. q = cur[u]
      BY <2>2, <3>1, <3>2 DEF SplitOff
    <3> QED
      BY <1>2, <1>3, <1>20, <3>3, NullAssumption DEF TypeInv, LockInv, OneWriter
  <2>7. r \in 1 .. top /\ r # n /\ lv2[m] = lv[m] /\ lv2[r] = lv[r] /\ left2[m] = r
    BY <1>8, <1>10, <2>1, <2>2, <2>3, <2>4 DEF SplitOff
  <2>8. \A j \in Keys : /\ at2[lv[m]][j] = m <=> at[lv[m]][j] = m
                        /\ at2[lv[m]][j] = r <=> at[lv[m]][j] = r
    BY <1>8, <2>3, <2>4, <2>6, <2>7
  <2>9. SplitOff(u, m, r, s, lv2, at2)'
    <3>1. pc'[u] = pc[u] /\ cur'[u] = cur[u] /\ par'[u] = par[u] /\ parent' = parent
      BY <1>3, <1>20
    <3>2. r \in 1 .. top' /\ (m \in leaves' => r = cur[u])
      BY <1>3, <1>6, <2>2, <2>4, <2>7 DEF SplitOff
    <3> QED
      BY <2>2, <2>3, <2>7, <2>8, <3>1, <3>2 DEF SplitOff
  <2>10. m = new'[u] /\ r = left2[m]
    BY <1>3, <1>20, <2>1, <2>7
  <2> QED
    BY <2>5, <2>9, <2>10
<1>21. Offs(lv2, at2, left2)'
  <2>1. ASSUME NEW u \in Threads, pc'[u] \in {"link", "parent"}
        PROVE  SplitOff(u, new[u], left2[new[u]], MinKey(u), lv2, at2)'
    <3>1. CASE u = t
      <4>1. new'[t] = n /\ left2[n] = q
        BY <1>3, <1>8
      <4> QED
        BY <1>18, <1>19, <3>1, <4>1
    <3>2. CASE u # t
      BY <1>3, <1>20, <2>1, <3>2
    <3> QED
      BY <3>1, <3>2
  <2>2. \A u, v \in Threads : new'[u] = cur'[v] => new'[u] = Null
    <3>1. \A v \in Threads : cur[v] # n
      BY <1>3 DEF TypeInv, Calls, Fresh
    <3> QED
      BY <1>1, <1>3, <3>1 DEF Tree, Offs
  <2> QED
    BY <2>1, <2>2 DEF Offs
<1>22. Chained(at2)'
  <2>1. /\ n # Header
        /\ \A x \in leaves : x # n /\ x \in Nodes /\ (next[x] # Null => next[x] \in leaves)
    BY <1>6, NodesWithin DEF TypeInv, NodesTyped
  <2>2. /\ \A j \in Keys : at2[0][j] = IF at[0][j] = q /\ sep <= j THEN n ELSE at[0][j]
        /\ \A j \in Keys : at[0][j] # n
    <3>1. 0 \in Nat /\ 0 <= lv[root]
      BY <1>11
    <3> QED
      BY <1>8, <1>10, <1>14, <3>1
  <2>3. \A x \in leaves : next[x] # Null =>
            /\ next[x] # Header
            /\ \A i, j \in Keys : at[0][i] = x /\ at[0][j] = next[x] => i < j
    BY <1>1 DEF Tree, Chained
  <2>4. ASSUME NEW x \in leaves', next'[x] # Null
        PROVE  /\ next'[x] # Header
               /\ \A i, j \in Keys : at2[0][i] = x /\ at2[0][j] = next'[x] => i < j
    <3>1. CASE x = n
      <4>1. next'[x] = next[q] /\ next[q] \in leaves /\ next[q] # n
        BY <1>3, <2>1, <2>4, <3>1
      <4>2. \A i \in Keys : at2[0][i] = n => at[0][i] = q
        BY <2>2
      <4>3. \A i \in Keys : at2[0][i] = next[q] => at[0][i] = next[q]
        BY <2>2, <4>1
      <4> QED
        BY <1>3, <2>3, <2>4, <3>1, <4>1, <4>2, <4>3
    <3>2. CASE x = q
      <4>1. \A i \in Keys : at2[0][i] = q => ~ (sep <= i)
        BY <1>3, <2>2
      <4>2. \A i \in Keys : at2[0][i] = n => sep <= i
        BY <2>2
      <4> QED
        BY <1>3, <1>9, <2>1, <3>2, <4>1, <4>2
    <3>3. CASE x # n /\ x # q
      <4>1. x \in leaves /\ next'[x] = next[x] /\ next[x] \in leaves /\ next[x] # n
        BY <1>3, <2>1, <2>4, <3>3
      <4>2. \A i \in Keys : /\ at2[0][i] = x => at[0][i] = x
                            /\ at2[0][i] = next[x] => at[0][i] = next[x]
        BY <2>2, <3>3, <4>1
      <4> QED
        BY <2>3, <2>4, <4>1, <4>2
    <3> QED
      BY <3>1, <3>2, <3>3
  <2> QED
    BY <2>4 DEF Chained
<1> QED
  BY <1>12, <1>16, <1>17, <1>21, <1>22 DEF Tree, TreeInv

-----------------------------------------------------------------------------
(* Linking keeps the routes *)

\* The children f behind lm have keys that are integers, and are different nodes.
Siblings(f, lm) ==
    /\ DOMAIN f \subseteq Int
    /\ \A s \in DOMAIN f : f[s] # lm
    /\ \A s, u \in DOMAIN f : f[s] = f[u] => s = u

\* g are the children f and m at key k.
Joined(g, f, k, m) ==
    /\ \A s : s \in DOMAIN g <=> s \in DOMAIN f \cup {k}
    /\ \A s \in DOMAIN g : g[s] = IF s = k THEN m ELSE f[s]

\* Child m, at key k, takes over the keys from k on of the child that k led to.
LEMMA AddRoute ==
    ASSUME NEW f, NEW lm, Siblings(f, lm), NEW k \in Int, NEW j \in Int, k \notin DOMAIN f,
           NEW m, NEW q, NEW r, LeadsIn(f, lm, k, q), LeadsIn(f, lm, j, r),
           NEW g, Joined(g, f, k, m), NEW w, w = IF r = q /\ k <= j THEN m ELSE r
    PROVE  LeadsIn(g, lm, j, w)
<1> USE DEF Siblings, Joined
<1>1. CASE j < k
  <2>1. LeadsIn(g, lm, j, r)
    <3>1. CASE (\A s \in DOMAIN f : j < s) /\ lm = r
      <4>1. \A s \in DOMAIN g : j < s
        BY <1>1, <3>1
      <4> QED
        BY <3>1, <4>1 DEF LeadsIn
    <3>2. CASE \E s \in DOMAIN f : s <= j /\ f[s] = r /\ \A u \in DOMAIN f : u <= j => u <= s
      <4>1. PICK s \in DOMAIN f : s <= j /\ f[s] = r /\ \A u \in DOMAIN f : u <= j => u <= s
        BY <3>2
      <4>2. s \in DOMAIN g /\ g[s] = r
        BY <4>1
      <4>3. \A u \in DOMAIN g : u <= j => u <= s
        BY <1>1, <4>1
      <4> QED
        BY <4>1, <4>2, <4>3 DEF LeadsIn
    <3> QED
      BY <3>1, <3>2 DEF LeadsIn
  <2>2. ~ (k <= j)
    BY <1>1
  <2> QED
    BY <2>1, <2>2
<1>2. CASE k <= j /\ r = q
  <2>1. \A s \in DOMAIN f : s <= j => s <= k
    <3>1. ASSUME NEW s \in DOMAIN f, s <= j, ~ (s <= k) PROVE FALSE
      <4>1. PICK u \in DOMAIN f : u <= j /\ f[u] = q /\ \A x \in DOMAIN f : x <= j => x <= u
        BY <1>2, <3>1 DEF LeadsIn
      <4>2. ~ (u <= k)
        BY <3>1, <4>1
      <4>3. lm # q
        BY <4>1
      <4> QED
        BY <4>1, <4>2, <4>3 DEF LeadsIn
    <3> QED
      BY <3>1
  <2>2. k \in DOMAIN g /\ g[k] = m /\ \A s \in DOMAIN g : s <= j => s <= k
    BY <2>1
  <2>3. LeadsIn(g, lm, j, m)
    BY <1>2, <2>2 DEF LeadsIn
  <2> QED
    BY <1>2, <2>3
<1>3. CASE k <= j /\ r # q
  <2>1. PICK s \in DOMAIN f : s <= j /\ f[s] = r /\ \A x \in DOMAIN f : x <= j => x <= s
    <3>1. CASE (\A x \in DOMAIN f : j < x) /\ lm = r
      <4>1. \A x \in DOMAIN f : ~ (x <= k)
        BY <1>3, <3>1
      <4> QED
        BY <1>3, <3>1, <4>1 DEF LeadsIn
    <3> QED
      BY <3>1 DEF LeadsIn
  <2>2. k <= s
    <3>1. SUFFICES ASSUME ~ (k <= s) PROVE FALSE
      OBVIOUS
    <3>2. s <= k /\ \A x \in DOMAIN f : x <= k => x <= s
      BY <1>3, <2>1, <3>1
    <3> QED
      BY <1>3, <2>1, <3>2 DEF LeadsIn
  <2>3. s \in DOMAIN g /\ g[s] = r /\ \A x \in DOMAIN g : x <= j => x <= s
    BY <2>1, <2>2
  <2>4. LeadsIn(g, lm, j, r)
    BY <2>1, <2>3 DEF LeadsIn
  <2> QED
    BY <1>3, <2>4
<1> QED
  BY <1>1, <1>2, <1>3

\* The parts of g on the two sides of a separator.
LowCut(f, g, sep) ==
    /\ \A s : s \in DOMAIN f <=> s \in DOMAIN g /\ s < sep
    /\ \A s \in DOMAIN f : f[s] = g[s]

HighCut(f, g, sep) ==
    /\ \A s : s \in DOMAIN f <=> s \in DOMAIN g /\ sep <= s
    /\ \A s \in DOMAIN f : f[s] = g[s]

\* A cut at a separator leaves each route in one of the parts.
LEMMA CutRoute ==
    ASSUME NEW g, DOMAIN g \subseteq Int, NEW lm, NEW j \in Int, NEW v, LeadsIn(g, lm, j, v),
           NEW sep \in DOMAIN g, NEW f, NEW l,
           j < sep => LowCut(f, g, sep) /\ l = lm,
           sep <= j => HighCut(f, g, sep)
    PROVE  LeadsIn(f, l, j, v)
<1> USE DEF LowCut, HighCut
<1>1. CASE \E s \in DOMAIN g : s <= j /\ g[s] = v /\ \A x \in DOMAIN g : x <= j => x <= s
  <2>1. PICK s \in DOMAIN g : s <= j /\ g[s] = v /\ \A x \in DOMAIN g : x <= j => x <= s
    BY <1>1
  <2>2. s \in DOMAIN f
    BY <2>1
  <2>3. f[s] = v /\ \A x \in DOMAIN f : x <= j => x <= s
    BY <2>1, <2>2
  <2> QED
    BY <2>1, <2>2, <2>3 DEF LeadsIn
<1>2. CASE (\A s \in DOMAIN g : j < s) /\ lm = v
  <2>1. j < sep
    BY <1>2
  <2>2. \A s \in DOMAIN f : j < s
    BY <1>2, <2>1
  <2> QED
    BY <1>2, <2>1, <2>2 DEF LeadsIn
<1> QED
  BY <1>1, <1>2 DEF LeadsIn

(***************************************************************************)
(* Once m is a child of p at key k, and nobody's pending node any more,    *)
(* every route is a route through the tree, with children g in p.          *)
(***************************************************************************)
LEMMA LinkedRoute ==
    ASSUME TypeInv, Links, NEW lv, NEW at, NEW left, Tree(lv, at, left),
           NEW t \in Threads, pc[t] = "parent", NEW m, m = new[t],
           NEW k, k = MinKey(t), NEW p, p = par[t], p # Null,
           NEW g, Joined(g, child[p], k, m),
           NEW l \in Nat, NEW j \in Keys, l + 1 <= lv[root], NEW x, x = at[l + 1][j],
           NEW v, v = IF at[l][j] = m THEN m ELSE Reach(left, at[l][j])
    PROVE  IF x = p THEN LeadsIn(g, leftmost[p], j, v) ELSE Leads(x, j, v)
<1>1. PICK q, r : q = left[m] /\ r = Reach(left, at[l][j])
  OBVIOUS
<1>2. /\ SplitOff(t, m, q, k, lv, at) /\ Pending(m) /\ m \in 1 .. top
      /\ k \in Keys /\ k \in Int /\ j \in Int /\ lv[root] \in Nat
  BY <1>1, PendingNew, KeysAssumption, RootLevel DEF Tree, Offs
<1>3. /\ p \in Inner /\ lv[p] = lv[m] + 1 /\ lv[m] \in Nat
      /\ Leads(p, k, q) /\ k \notin DOMAIN child[p]
  BY <1>1, Target
<1>4. Leads(x, j, r)
  BY <1>1 DEF Tree, Routes
<1>5. l <= lv[root] /\ l + 1 \in Nat
  BY <1>2
<1>6. lv[at[l][j]] = l /\ x \in Inner /\ lv[x] = l + 1 /\ r \in 1 .. top
  <2>1. PICK h \in Nat : h = l + 1 /\ h <= lv[root] /\ h # 0
    BY <1>5
  <2> QED
    BY <1>1, <1>5, <2>1, RouteAt, ReachAt
<1>7. at[l][j] = m => r = q
  BY <1>1, <1>2 DEF Reach
<1>8. q \in 1 .. top /\ q # m
  BY <1>1, <1>2, SourceOf
<1>9. CASE x # p
  <2>1. r = q => parent[q] = x
    BY <1>4, <1>6, <1>8, LeadsToChild
  <2>2. at[l][j] # m
    BY <1>2, <1>7, <1>9, <2>1 DEF SplitOff
  <2> QED
    BY <1>1, <1>4, <1>9, <2>2
<1>10. CASE x = p
  <2>1. l = lv[m]
    BY <1>3, <1>6, <1>10
  <2>2. Siblings(child[p], leftmost[p])
    BY <1>3, NodesWithin, NodeSize DEF Siblings, TypeInv, NodesTyped, Links, LinksOf
  <2>3. v = IF r = q /\ k <= j THEN m ELSE r
    <3>1. CASE r = q
      <4>1. at[l][j] = IF k <= j THEN m ELSE q
        BY <1>1, <1>2, <2>1, <3>1, TwoOf
      <4> QED
        BY <1>1, <1>8, <3>1, <4>1
    <3>2. CASE r # q
      BY <1>1, <1>7, <3>2
    <3> QED
      BY <3>1, <3>2
  <2>4. LeadsIn(g, leftmost[p], j, v)
    <3>1. PICK f, lm : f = child[p] /\ lm = leftmost[p]
      OBVIOUS
    <3>2. LeadsIn(f, lm, k, q) /\ LeadsIn(f, lm, j, r)
      BY <1>3, <1>4, <1>10, <3>1 DEF Leads
    <3>3. /\ Siblings(f, lm) /\ k \notin DOMAIN f
          /\ Joined(g, f, k, m) /\ k \in Int /\ j \in Int
      BY <1>2, <1>3, <2>2, <3>1
    <3>5. LeadsIn(g, lm, j, v)
      BY <2>3, <3>2, <3>3, AddRoute
    <3> QED
      BY <3>1, <3>5
  <2> QED
    BY <1>10, <2>4
<1> QED
  BY <1>9, <1>10

\* The part of a tree at its leaves, apart from thread t.
LeafSide(t, lv, at, left) ==
    /\ \A n \in leaves : \A k \in DOMAIN entry[n] : at[0][k] = n
    /\ \A u \in Threads : pc[u] = "write" => at[0][Key(u)] = cur[u]
    /\ \A u \in Threads \ {t} : pc[u] \in {"link", "parent"} =>
          SplitOff(u, new[u], left[new[u]], MinKey(u), lv, at)
    /\ Chained(at)

(***************************************************************************)
(* While one insert links its node, the leaves and the other inserts stay  *)
(* as they are, whatever happens above them.                               *)
(***************************************************************************)
LEMMA LeafLevel ==
    ASSUME TypeInv, NEW lv, NEW at, NEW left, Tree(lv, at, left),
           NEW t \in Threads, pc[t] = "parent", NEW lv2, NEW at2, NEW left2,
           \A x \in 1 .. top : lv2[x] = lv[x] /\ left2[x] = left[x],
           at2[0] = at[0], 1 .. top \subseteq 1 .. top',
           UNCHANGED <<leaves, entry, next, cur, arg>>,
           \A u \in Threads \ {t} : new'[u] = new[u] /\ pc'[u] = pc[u],
           pc'[t] # "write"
    PROVE  LeafSide(t, lv2, at2, left2)'
<1>1. \A n \in leaves' : \A k \in DOMAIN entry'[n] : at2[0][k] = n
  BY DEF Tree, Placed
<1>2. \A u \in Threads : pc'[u] = "write" => at2[0][Key(u)'] = cur'[u]
  BY DEF Tree, Placed, Key
<1>3. ASSUME NEW u \in Threads \ {t}, pc'[u] \in {"link", "parent"}
      PROVE  SplitOff(u, new[u], left2[new[u]], MinKey(u), lv2, at2)'
  <2>1. PICK m, q, k : m = new[u] /\ q = left[m] /\ k = MinKey(u)
    OBVIOUS
  <2>2. SplitOff(u, m, q, k, lv, at) /\ m \in 1 .. top
    BY <1>3, <2>1, PendingNew DEF Tree, Offs
  <2>3. pc[u] = "link" /\ m \in leaves
    BY <1>3, <2>1 DEF TypeInv, Calls, CallOf
  <2>4. q \in 1 .. top /\ lv[m] = 0 /\ lv[q] = 0
    BY <2>2, <2>3 DEF SplitOff, Tree, Levels
  <2>5. m = new'[u] /\ q = left2[m] /\ k = MinKey(u)'
    BY <1>3, <2>1, <2>2, <2>3 DEF MinKey
  <2>6. SplitOff(u, m, q, k, lv2, at2)'
    <3>1. pc'[u] = "link" /\ cur' = cur /\ lv2[m] = 0 /\ lv2[q] = 0 /\ q \in 1 .. top'
      BY <1>3, <2>2, <2>3, <2>4
    <3> QED
      BY <2>2, <2>4, <3>1 DEF SplitOff
  <2> QED
    BY <2>5, <2>6
<1>4. Chained(at2)'
  BY DEF Tree, Chained
<1> QED
  BY <1>1, <1>2, <1>3, <1>4 DEF LeafSide

LEMMA InsertChildTree ==
    ASSUME TypeInv, Links, TreeInv, NEW t \in Threads, InsertChild(t)
    PROVE  TreeInv'
<1>1. PICK lv, at, left : Tree(lv, at, left)
  BY DEF TreeInv
<1>2. PICK p, k, m : p = par[t] /\ k = MinKey(t) /\ m = new[t]
  OBVIOUS
<1>3. /\ pc[t] = "parent" /\ p # Null /\ LeaveParent(t)
      /\ p \in Inner /\ p \in Nodes /\ p \in 1 .. top /\ m \in 1 .. top /\ m \in Nodes /\ k \in Keys
      /\ UNCHANGED <<top, root, leftmost>> /\ Inner' = Inner
      /\ DOMAIN child'[p] = DOMAIN child[p] \cup {k}
      /\ \A j \in DOMAIN child'[p] : child'[p][j] = IF j = k THEN m ELSE child[p][j]
      /\ \A x \in Nodes \ {p} : child'[x] = child[x]
  BY <1>2, InsertChildFacts
<1>4. /\ \A u \in Threads : new'[u] = IF u = t THEN Null ELSE new[u]
      /\ \A u \in Threads : pc'[u] = IF u = t THEN "unlock" ELSE pc[u]
      /\ UNCHANGED <<leaves, entry, next, arg, cur>>
  BY <1>3, LeaveFacts
<1>5. \A x : Pending(x)' <=> Pending(x) /\ x # m
  BY <1>2, <1>3, <1>4, NullAssumption, PendingNew DEF Pending, Links
<1>6. \A x : Reach(left, x)' = IF x = m THEN m ELSE Reach(left, x)
  BY <1>5 DEF Reach
<1>7. /\ lv[p] = lv[m] + 1 /\ lv[m] \in Nat /\ at[lv[m] + 1][k] = p /\ left[m] \in 1 .. top
  <2>1. lv[p] = lv[m] + 1 /\ lv[m] \in Nat /\ at[lv[m] + 1][k] = p
    BY <1>1, <1>2, <1>3, Target
  <2>2. SplitOff(t, m, left[m], k, lv, at)
    BY <1>1, <1>2, <1>3 DEF Tree, Offs
  <2> QED
    BY <2>1, <2>2 DEF SplitOff
<1>8. Levels(lv)'
  BY <1>1, <1>3, <1>4 DEF Tree, Levels
<1>9. Routes(lv, at, left)'
  <2>1. ASSUME NEW l \in Nat, NEW j \in Keys, NEW v, l + 1 <= lv[root], v = Reach(left, at[l][j])'
        PROVE  Leads(at[l + 1][j], j, v)'
    <3>1. PICK x : x = at[l + 1][j]
      OBVIOUS
    <3>2. x \in Nodes
      <4>1. l + 1 \in Nat
        OBVIOUS
      <4> QED
        BY <1>1, <2>1, <3>1, <4>1, RouteAt
    <3>3. v = IF at[l][j] = m THEN m ELSE Reach(left, at[l][j])
      BY <1>6, <2>1
    <3>4. PICK g : g = child'[p]
      OBVIOUS
    <3>5. Joined(g, child[p], k, m)
      BY <1>3, <3>4 DEF Joined
    <3>6. IF x = p THEN LeadsIn(g, leftmost[p], j, v) ELSE Leads(x, j, v)
      BY <1>1, <1>2, <1>3, <2>1, <3>1, <3>3, <3>5, LinkedRoute
    <3>7. Leads(x, j, v)'
      <4>1. CASE x = p
        BY <1>3, <3>4, <3>6, <4>1 DEF Leads
      <4>2. CASE x # p
        BY <1>3, <3>2, <3>6, <4>2 DEF Leads
      <4> QED
        BY <4>1, <4>2
    <3> QED
      BY <3>1, <3>7
  <2>2. \A l \in Nat, j \in Keys : l = lv[root] => Reach(left, at[l][j])' = root
    <3> SUFFICES ASSUME NEW l \in Nat, NEW j \in Keys, l = lv[root]
                 PROVE  Reach(left, at[l][j])' = root
      OBVIOUS
    <3>1. Reach(left, at[l][j]) = root
      BY <1>1 DEF Tree, Routes
    <3>2. at[l][j] # m
      BY <1>1, <1>2, <1>3, <1>7, RouteAt, RootLevel
    <3> QED
      BY <1>6, <3>1, <3>2
  <2> QED
    BY <1>1, <1>3, <2>1, <2>2 DEF Tree, Routes
<1>10. /\ \A n \in leaves' : \A j \in DOMAIN entry'[n] : at[0][j] = n
       /\ \A u \in Threads : pc'[u] = "write" => at[0][Key(u)'] = cur'[u]
       /\ \A u \in Threads \ {t} : pc'[u] \in {"link", "parent"} =>
            SplitOff(u, new[u], left[new[u]], MinKey(u), lv, at)'
       /\ Chained(at)'
  <2>1. LeafSide(t, lv, at, left)'
    BY <1>1, <1>3, <1>4, LeafLevel
  <2> QED
    BY <2>1 DEF LeafSide
<1>11. Placed(lv, at)'
  <2>1. ASSUME NEW x \in Inner, NEW s \in DOMAIN child'[x] PROVE at[lv[x]][s] = x
    <3>1. CASE x = p /\ s = k
      BY <1>7, <3>1
    <3>2. CASE ~ (x = p /\ s = k)
      <4>1. s \in DOMAIN child[x]
        BY <1>1, <1>3, <2>1, <3>2, RootLevel
      <4> QED
        BY <1>1, <4>1 DEF Tree, Placed
    <3> QED
      BY <3>1, <3>2
  <2> QED
    BY <1>3, <1>10, <2>1 DEF Placed
<1>12. Offs(lv, at, left)'
  <2>1. \A u \in Threads : pc'[u] \in {"link", "parent"} => u # t
    BY <1>4
  <2>2. \A u, v \in Threads : new'[u] = cur'[v] => new'[u] = Null
    BY <1>1, <1>4 DEF Tree, Offs
  <2> QED
    BY <1>10, <2>1, <2>2 DEF Offs
<1> QED
  BY <1>8, <1>9, <1>10, <1>11, <1>12 DEF Tree, TreeInv

\* Node n is the new root, above every route.
GrownRoutes(lv, at, lv2, at2, n) ==
    /\ lv2 \in [Nodes -> Nat] /\ at2 \in [Nat -> [Keys -> Nodes]]
    /\ lv2[n] = lv[root] + 1
    /\ \A x \in Nodes \ {n} : lv2[x] = lv[x]
    /\ \A l \in Nat : l # lv[root] + 1 => at2[l] = at[l]
    /\ \A j \in Keys : at2[lv[root] + 1][j] = n

LEMMA GrownExists ==
    ASSUME TypeInv, NEW lv, NEW at, NEW left, Tree(lv, at, left), NEW n \in Nodes
    PROVE  \E lv2, at2 : GrownRoutes(lv, at, lv2, at2, n)
<1>1. lv \in [Nodes -> Nat] /\ at \in [Nat -> [Keys -> Nodes]] /\ lv[root] \in Nat
  BY RootLevel DEF Tree, Levels, Routes
<1>2. PICK h \in Nat : h = lv[root] + 1
  BY <1>1
<1>3. PICK lv2, at2 : lv2 = [lv EXCEPT ![n] = h] /\ at2 = [at EXCEPT ![h] = [j \in Keys |-> n]]
  OBVIOUS
<1>4. /\ lv2 \in [Nodes -> Nat] /\ lv2[n] = h
      /\ \A x \in Nodes \ {n} : lv2[x] = lv[x]
  BY <1>1, <1>3
<1>5. /\ at2 \in [Nat -> [Keys -> Nodes]]
      /\ \A l \in Nat : l # h => at2[l] = at[l]
      /\ \A j \in Keys : at2[h][j] = n
  BY <1>1, <1>3
<1>6. GrownRoutes(lv, at, lv2, at2, n)
  BY <1>2, <1>4, <1>5 DEF GrownRoutes
<1> QED
  BY <1>6

LEMMA GrowRootTree ==
    ASSUME TypeInv, Links, TreeInv, NEW t \in Threads, GrowRoot(t)
    PROVE  TreeInv'
<1>1. PICK lv, at, left : Tree(lv, at, left)
  BY DEF TreeInv
<1>2. PICK n, k, m, r : n = top + 1 /\ k = MinKey(t) /\ m = new[t] /\ r = root
  OBVIOUS
<1>3. /\ pc[t] = "parent" /\ par[t] = Null /\ LeaveParent(t)
      /\ Fresh(n) /\ m \in 1 .. top /\ m \in Nodes /\ r \in 1 .. top /\ r \in Nodes /\ k \in Keys
      /\ top' = n /\ root' = n /\ Inner' = Inner \cup {n}
      /\ DOMAIN child'[n] = {k} /\ child'[n][k] = m /\ leftmost'[n] = r
      /\ \A x \in Nodes \ {n} : child'[x] = child[x] /\ leftmost'[x] = leftmost[x]
  BY <1>2, GrowRootFacts
<1>4. /\ \A u \in Threads : new'[u] = IF u = t THEN Null ELSE new[u]
      /\ \A u \in Threads : pc'[u] = IF u = t THEN "unlock" ELSE pc[u]
      /\ UNCHANGED <<leaves, entry, next, arg, cur>>
  BY <1>3, LeaveFacts
<1>5. \A x : Pending(x)' <=> Pending(x) /\ x # m
  BY <1>2, <1>3, <1>4, NullAssumption, PendingNew DEF Pending, Links
<1>6. \A x : Reach(left, x)' = IF x = m THEN m ELSE Reach(left, x)
  BY <1>5 DEF Reach
<1>7. /\ n \in Nodes /\ n \notin 1 .. top /\ 1 .. n = 1 .. top \cup {n} /\ 1 .. top \subseteq Nodes
      /\ n \notin leaves /\ n # m /\ n # r /\ \A x \in 1 .. top : x # n /\ x \in Nodes
  BY <1>2, <1>3, FreshNode, NodesWithin DEF Fresh
<1>8. PICK h : h = lv[r]
  OBVIOUS
<1>9. /\ h \in Nat /\ lv[m] = h /\ left[m] = r /\ h + 1 \in Nat /\ h + 1 # 0
      /\ \A x \in 1 .. top : lv[x] \in Nat /\ lv[x] <= h
  BY <1>1, <1>2, <1>3, <1>8, Target, RootLevel
<1>10. PICK lv2, at2 : GrownRoutes(lv, at, lv2, at2, n)
  BY <1>1, <1>7, GrownExists
<1>11. /\ lv2 \in [Nodes -> Nat] /\ at2 \in [Nat -> [Keys -> Nodes]]
       /\ lv2[n] = h + 1
       /\ \A x \in Nodes \ {n} : lv2[x] = lv[x]
       /\ \A l \in Nat : l # h + 1 => at2[l] = at[l]
       /\ \A j \in Keys : at2[h + 1][j] = n
  BY <1>2, <1>8, <1>10 DEF GrownRoutes
<1>12. \A x \in 1 .. top : lv2[x] = lv[x]
  BY <1>7, <1>11
<1>13. Levels(lv2)'
  <2>1. ASSUME NEW x \in 1 .. n PROVE lv2[x] <= h + 1 /\ (lv2[x] = 0 <=> x \in leaves)
    <3>1. CASE x = n
      BY <1>7, <1>9, <1>11, <3>1
    <3>2. CASE x # n
      <4>1. x \in 1 .. top
        BY <1>7, <3>2
      <4> QED
        BY <1>1, <1>9, <1>12, <4>1 DEF Tree, Levels
    <3> QED
      BY <3>1, <3>2
  <2>2. ASSUME NEW p \in Inner', leftmost'[p] # Null PROVE lv2[p] = lv2[leftmost'[p]] + 1
    <3>1. CASE p = n
      BY <1>3, <1>8, <1>11, <1>12, <3>1
    <3>2. CASE p # n
      <4>1. p \in Inner /\ p \in 1 .. top /\ leftmost'[p] = leftmost[p] /\ leftmost[p] \in 1 .. top
        BY <1>3, <2>2, <3>2, ChildNode
      <4> QED
        BY <1>1, <1>12, <2>2, <4>1 DEF Tree, Levels
    <3> QED
      BY <3>1, <3>2
  <2> QED
    BY <1>3, <1>4, <1>11, <2>1, <2>2 DEF Levels
<1>14. Routes(lv2, at2, left)'
  <2>1. ASSUME NEW l \in Nat, NEW j \in Keys, l <= h + 1
        PROVE  at2[l][j] \in 1 .. n /\ lv2[at2[l][j]] = l
    <3>1. CASE l = h + 1
      BY <1>7, <1>11, <3>1
    <3>2. CASE l # h + 1
      <4>1. l <= h /\ at2[l] = at[l]
        BY <1>9, <1>11, <2>1, <3>2
      <4>2. at[l][j] \in 1 .. top /\ lv[at[l][j]] = l
        BY <1>1, <1>2, <1>8, <4>1, RouteAt
      <4> QED
        BY <1>7, <1>12, <4>1, <4>2
    <3> QED
      BY <3>1, <3>2
  <2>2. ASSUME NEW l \in Nat, NEW j \in Keys, NEW v, l + 1 <= h + 1, v = Reach(left, at2[l][j])'
        PROVE  Leads(at2[l + 1][j], j, v)'
    <3>1. l <= h /\ at2[l] = at[l] /\ l + 1 \in Nat
      BY <1>9, <1>11, <2>2
    <3>2. PICK x : x = at[l][j]
      OBVIOUS
    <3>3. v = IF x = m THEN m ELSE Reach(left, x)
      BY <1>6, <2>2, <3>1, <3>2
    <3>4. CASE l = h
      <4>1. Reach(left, x) = r
        BY <1>1, <1>2, <1>8, <3>2, <3>4 DEF Tree, Routes
      <4>2. x = IF k <= j THEN m ELSE r
        BY <1>1, <1>2, <1>3, <1>9, <3>2, <3>4, <4>1, TwoOf
      <4>3. m # r /\ v = IF k <= j THEN m ELSE r
        BY <1>2, <1>3, <3>3, <4>1, <4>2 DEF Links
      <4>4. at2[l + 1][j] = n /\ k \in Int /\ j \in Int
        BY <1>3, <1>11, <3>4, KeysAssumption
      <4>5. LeadsIn(child'[n], leftmost'[n], j, v)
        BY <1>3, <4>3, <4>4 DEF LeadsIn
      <4>6. LeadsIn(child[n], leftmost[n], j, v)'
        BY <4>5 DEF LeadsIn
      <4>7. Leads(n, j, v)'
        BY <4>6 DEF Leads
      <4> QED
        BY <4>4, <4>7
    <3>5. CASE l # h
      <4>1. l + 1 <= h /\ at2[l + 1] = at[l + 1]
        <5>1. PICK y \in Nat : y = l + 1 /\ y <= h /\ y # h + 1
          BY <1>9, <3>1, <3>5
        <5> QED
          BY <1>11, <5>1
      <4>2. x # m
        <5>1. lv[x] = l
          BY <1>1, <1>2, <1>8, <3>1, <3>2, RouteAt
        <5> QED
          BY <1>9, <3>5, <5>1
      <4>3. Leads(at[l + 1][j], j, v)
        BY <1>1, <1>2, <1>8, <3>2, <3>3, <4>1, <4>2 DEF Tree, Routes
      <4>4. at[l + 1][j] \in Nodes /\ at[l + 1][j] # n
        <5>1. PICK y \in Nat : y = l + 1 /\ y <= h
          BY <3>1, <4>1
        <5> QED
          BY <1>1, <1>2, <1>7, <1>8, <5>1, RouteAt
      <4> QED
        BY <1>3, <4>1, <4>3, <4>4 DEF Leads
    <3> QED
      BY <3>4, <3>5
  <2>3. \A l \in Nat, j \in Keys : l = h + 1 => Reach(left, at2[l][j])' = n
    <3>1. ~Pending(n)
      BY <1>7, PendingNew DEF Pending
    <3> QED
      BY <1>6, <1>7, <1>11, <3>1 DEF Reach
  <2>4. left \in [Nodes -> Nodes]
    BY <1>1 DEF Tree, Routes
  <2> QED
    BY <1>3, <1>11, <2>1, <2>2, <2>3, <2>4 DEF Routes
<1>15. /\ \A x \in leaves' : \A j \in DOMAIN entry'[x] : at2[0][j] = x
       /\ \A u \in Threads : pc'[u] = "write" => at2[0][Key(u)'] = cur'[u]
       /\ \A u \in Threads \ {t} : pc'[u] \in {"link", "parent"} =>
            SplitOff(u, new[u], left[new[u]], MinKey(u), lv2, at2)'
       /\ Chained(at2)'
  <2>1. at2[0] = at[0] /\ 1 .. top \subseteq 1 .. top'
    BY <1>3, <1>7, <1>9, <1>11
  <2>2. /\ \A u \in Threads \ {t} : new'[u] = new[u] /\ pc'[u] = pc[u]
        /\ pc'[t] # "write" /\ UNCHANGED <<leaves, entry, next, cur, arg>>
    BY <1>4
  <2>3. \A x \in 1 .. top : lv2[x] = lv[x] /\ left[x] = left[x]
    BY <1>12
  <2>4. pc[t] = "parent"
    BY <1>3
  <2>5. LeafSide(t, lv2, at2, left)'
    BY <1>1, <2>1, <2>2, <2>3, <2>4, LeafLevel
  <2> QED
    BY <2>5 DEF LeafSide
<1>16. Placed(lv2, at2)'
  <2>1. ASSUME NEW x \in Inner', NEW s \in DOMAIN child'[x] PROVE at2[lv2[x]][s] = x
    <3>1. CASE x = n
      BY <1>3, <1>11, <2>1, <3>1
    <3>2. CASE x # n
      <4>1. x \in Inner /\ x \in 1 .. top /\ s \in DOMAIN child[x]
        BY <1>3, <1>7, <2>1, <3>2, NodesWithin
      <4>2. at[lv[x]][s] = x /\ lv2[x] = lv[x] /\ lv[x] \in Nat /\ lv[x] <= h
        BY <1>1, <1>9, <1>12, <4>1 DEF Tree, Placed
      <4>3. lv[x] # h + 1
        BY <1>9, <4>2
      <4> QED
        BY <1>11, <4>2, <4>3
    <3> QED
      BY <3>1, <3>2
  <2> QED
    BY <1>15, <2>1 DEF Placed
<1>17. Offs(lv2, at2, left)'
  <2>1. \A u \in Threads : pc'[u] \in {"link", "parent"} => u # t
    BY <1>4
  <2>2. \A u, v \in Threads : new'[u] = cur'[v] => new'[u] = Null
    BY <1>1, <1>4 DEF Tree, Offs
  <2> QED
    BY <1>15, <2>1, <2>2 DEF Offs
<1> QED
  BY <1>13, <1>14, <1>15, <1>16, <1>17 DEF Tree, TreeInv

LEMMA SplitInnerTree ==
    ASSUME TypeInv, Links, TreeInv, NEW t \in Threads, SplitInner(t)
    PROVE  TreeInv'
<1>1. PICK lv, at, left : Tree(lv, at, left)
  BY DEF TreeInv
<1>2. PICK p, n, k, m : p = par[t] /\ n = top + 1 /\ k = MinKey(t) /\ m = new[t]
  OBVIOUS
<1>3. /\ pc[t] = "parent" /\ p # Null
      /\ Fresh(n) /\ p # n /\ k \in Keys
      /\ p \in Inner /\ p \in Nodes /\ p \in 1 .. top /\ m \in 1 .. top /\ m \in Nodes
      /\ top' = n /\ Inner' = Inner \cup {n}
      /\ \A u \in Threads : new'[u] = IF u = t THEN n ELSE new[u]
      /\ \A u \in Threads : par'[u] = IF u = t THEN parent[p] ELSE par[u]
      /\ UNCHANGED <<leaves, root, entry, next, leftmost, pc, arg, cur>>
      /\ \E sep \in DOMAIN child[p] : InnerCut(p, n, k, m, sep)
  BY <1>2, SplitInnerFacts
<1>4. PICK sep \in DOMAIN child[p] : InnerCut(p, n, k, m, sep)
  BY <1>3
<1>5. /\ \E j \in DOMAIN child[p] : j < sep
      /\ \A x \in Nodes \ {p, n} : child'[x] = child[x]
      /\ \A x \in Nodes : parent'[x] = IF x = m THEN (IF k < sep THEN p ELSE n)
                                       ELSE IF Moved(p, sep, x) THEN n ELSE parent[x]
  BY <1>4 DEF InnerCut
<1>6. /\ n \in Nodes /\ n \notin 1 .. top /\ 1 .. n = 1 .. top \cup {n} /\ 1 .. top \subseteq Nodes
      /\ n \notin leaves /\ leftmost[n] = Null /\ \A x \in 1 .. top : x # n /\ x \in Nodes
  BY <1>2, <1>3, FreshNode, NodesWithin DEF Fresh
<1>7. /\ lv[m] \in Nat /\ lv[p] = lv[m] + 1 /\ lv[p] <= lv[root] /\ at[lv[m] + 1][k] = p
  BY <1>1, <1>2, <1>3, Target
<1>8. PICK h \in Nat : h = lv[p] /\ h # 0 /\ h <= lv[root] /\ lv[m] # h
  BY <1>7
<1>9. PICK lv2, at2, left2 : CutRoutes(lv, at, left, lv2, at2, left2, h, p, n, sep)
  BY <1>1, <1>3, <1>6, CutExists
<1>10. /\ lv2 \in [Nodes -> Nat] /\ left2 \in [Nodes -> Nodes]
       /\ at2 \in [Nat -> [Keys -> Nodes]]
       /\ lv2[n] = h /\ left2[n] = p
       /\ \A x \in Nodes \ {n} : lv2[x] = lv[x] /\ left2[x] = left[x]
       /\ \A l \in Nat, j \in Keys :
             at2[l][j] = IF l = h /\ at[l][j] = p /\ sep <= j THEN n ELSE at[l][j]
  BY <1>9 DEF CutRoutes
<1>11. /\ DOMAIN child[p] \subseteq Keys /\ DOMAIN child[p] \subseteq Int /\ sep \in Int
       /\ k \in Int /\ \A j \in Keys : j \in Int
       /\ \A j \in DOMAIN child[p] : at[h][j] = p
  BY <1>1, <1>3, <1>8, KeysAssumption DEF TypeInv, NodesTyped, IsNode, Tree, Placed
<1>12. PICK g : g = With(child[p], k, m)
  OBVIOUS
<1>13. /\ Joined(g, child[p], k, m) /\ sep \in DOMAIN g /\ DOMAIN g \subseteq Int
       /\ \A j \in DOMAIN g : j \in Keys /\ at[h][j] = p
  <2>1. Joined(g, child[p], k, m)
    BY <1>12 DEF With, Joined
  <2>2. at[h][k] = p
    BY <1>7, <1>8
  <2> QED
    BY <1>3, <1>11, <2>1, <2>2 DEF Joined
<1>14. LowCut(child'[p], g, sep) /\ HighCut(child'[n], g, sep)
  <2>1. /\ \A j : j \in DOMAIN child'[p] <=> j \in DOMAIN child[p] \cup {k} /\ j < sep
        /\ \A j : j \in DOMAIN child'[n] <=> j \in DOMAIN child[p] \cup {k} /\ sep <= j
        /\ \A j \in DOMAIN child'[p] : child'[p][j] = IF j = k THEN m ELSE child[p][j]
        /\ \A j \in DOMAIN child'[n] : child'[n][j] = IF j = k THEN m ELSE child[p][j]
    BY <1>4 DEF InnerCut
  <2> QED
    BY <1>13, <2>1 DEF LowCut, HighCut, Joined
<1>15. /\ \A j : j \in DOMAIN child'[p] <=> j \in DOMAIN g /\ j < sep
       /\ \A j : j \in DOMAIN child'[n] <=> j \in DOMAIN g /\ sep <= j
  BY <1>14 DEF LowCut, HighCut
<1>16. /\ \A x : x # n => (Pending(x)' <=> Pending(x) /\ x # m)
       /\ Pending(n)' /\ ~Pending(p)
  <2>1. \A u \in Threads : pc[u] \in {"link", "parent"} => new[u] # p
    <3>1. ASSUME NEW u \in Threads, pc[u] \in {"link", "parent"}, new[u] = p PROVE FALSE
      <4>1. CASE u = t
        BY <1>2, <1>7, <1>8, <3>1, <4>1
      <4>2. CASE u # t
        <5>1. pc[u] = "link" /\ new[u] \in leaves
          BY <1>3, <3>1, <4>2 DEF TypeInv, Calls, CallOf
        <5> QED
          BY <1>3, <3>1, <5>1 DEF Inner
      <4> QED
        BY <4>1, <4>2
    <3> QED
      BY <3>1
  <2>2. ~Pending(p)
    BY <2>1 DEF Pending
  <2>3. Pending(n)'
    BY <1>3 DEF Pending
  <2>4. ASSUME NEW x, x # n PROVE Pending(x)' <=> Pending(x) /\ x # m
    <3>1. \A u \in Threads : pc[u] \in {"link", "parent"} /\ new[u] = m => u = t
      BY <1>2, <1>3, PendingNew, NullAssumption DEF Links
    <3> QED
      BY <1>2, <1>3, <2>4, <3>1 DEF Pending
  <2> QED
    BY <2>2, <2>3, <2>4
<1>17. \A l \in Nat, j \in Keys : l <= lv[root] => at[l][j] \in 1 .. top /\ lv[at[l][j]] = l
  BY <1>1 DEF Tree, Routes
<1>18. \A l \in Nat, j \in Keys : l <= lv[root] =>
          Reach(left2, at2[l][j])' = IF at[l][j] = m THEN m ELSE Reach(left, at[l][j])
  <2> SUFFICES ASSUME NEW l \in Nat, NEW j \in Keys, l <= lv[root]
               PROVE  Reach(left2, at2[l][j])' = IF at[l][j] = m THEN m ELSE Reach(left, at[l][j])
    OBVIOUS
  <2>1. CASE l = h /\ at[l][j] = p /\ sep <= j
    <3>1. at2[l][j] = n /\ at[l][j] # m
      BY <1>8, <1>10, <2>1
    <3> QED
      BY <1>10, <1>16, <2>1, <3>1 DEF Reach
  <2>2. CASE ~(l = h /\ at[l][j] = p /\ sep <= j)
    <3>1. at2[l][j] = at[l][j] /\ at[l][j] # n /\ at[l][j] \in Nodes
      BY <1>6, <1>10, <1>17, <2>2
    <3> QED
      BY <1>10, <1>16, <3>1 DEF Reach
  <2> QED
    BY <2>1, <2>2
<1>19. root \in 1 .. top /\ lv2[root] = lv[root] /\ lv[root] \in Nat
  BY <1>1, <1>6, <1>10, RootLevel DEF TypeInv, NodesTyped
<1>20. Levels(lv2)'
  <2>1. ASSUME NEW x \in 1 .. n PROVE lv2[x] <= lv2[root] /\ (lv2[x] = 0 <=> x \in leaves)
    <3>1. CASE x = n
      BY <1>6, <1>8, <1>10, <1>19, <3>1
    <3>2. CASE x # n
      <4>1. x \in 1 .. top /\ lv2[x] = lv[x]
        BY <1>6, <1>10, <3>2
      <4> QED
        BY <1>1, <1>19, <4>1 DEF Tree, Levels
    <3> QED
      BY <3>1, <3>2
  <2>2. ASSUME NEW x \in Inner', leftmost[x] # Null PROVE lv2[x] = lv2[leftmost[x]] + 1
    <3>1. x \in Inner
      BY <1>3, <1>6, <2>2
    <3>2. x \in 1 .. top /\ leftmost[x] \in 1 .. top
      BY <2>2, <3>1, ChildNode
    <3> QED
      BY <1>1, <1>6, <1>10, <2>2, <3>1, <3>2 DEF Tree, Levels
  <2> QED
    BY <1>3, <1>10, <2>1, <2>2 DEF Levels
<1>21. Routes(lv2, at2, left2)'
  <2>1. ASSUME NEW l \in Nat, NEW j \in Keys, l <= lv[root]
        PROVE  at2[l][j] \in 1 .. n /\ lv2[at2[l][j]] = l
    <3>1. PICK x : x = at[l][j]
      OBVIOUS
    <3>2. x \in 1 .. top /\ x # n /\ x \in Nodes /\ lv2[x] = l
      BY <1>6, <1>10, <1>17, <2>1, <3>1
    <3>3. CASE l = h /\ x = p /\ sep <= j
      BY <1>6, <1>10, <3>1, <3>3
    <3>4. CASE ~ (l = h /\ x = p /\ sep <= j)
      BY <1>6, <1>10, <3>1, <3>2, <3>4
    <3> QED
      BY <3>3, <3>4
  <2>2. ASSUME NEW l \in Nat, NEW j \in Keys, NEW v, l + 1 <= lv[root], v = Reach(left2, at2[l][j])'
        PROVE  Leads(at2[l + 1][j], j, v)'
    <3>1. PICK x, y : x = at[l + 1][j] /\ y = at2[l + 1][j]
      OBVIOUS
    <3>2. l + 1 \in Nat /\ l <= lv[root]
      BY <1>19, <2>2
    <3>3. v = IF at[l][j] = m THEN m ELSE Reach(left, at[l][j])
      BY <1>18, <2>2, <3>2
    <3>4. IF x = p THEN LeadsIn(g, leftmost[p], j, v) ELSE Leads(x, j, v)
      BY <1>1, <1>2, <1>3, <1>13, <2>2, <3>1, <3>3, LinkedRoute
    <3>5. x \in Nodes /\ x # n /\ lv[x] = l + 1
      BY <1>6, <1>17, <2>2, <3>1, <3>2
    <3>6. CASE x # p
      <4>1. y = x
        BY <1>10, <3>1, <3>2, <3>6
      <4>2. Leads(x, j, v)'
        BY <1>3, <1>5, <3>4, <3>5, <3>6 DEF Leads
      <4> QED
        BY <3>1, <4>1, <4>2
    <3>7. CASE x = p
      <4>1. l + 1 = h
        BY <1>8, <3>5, <3>7
      <4>2. y = IF sep <= j THEN n ELSE p
        BY <1>10, <3>1, <3>2, <3>7, <4>1
      <4>3. j \in Int /\ LeadsIn(g, leftmost[p], j, v)
        BY <1>11, <3>4, <3>7
      <4>4. PICK f, lm : f = child'[y] /\ lm = leftmost'[y]
        OBVIOUS
      <4>5. LeadsIn(f, lm, j, v)
        <5>1. j < sep => LowCut(f, g, sep) /\ lm = leftmost[p]
          BY <1>3, <1>11, <1>14, <4>2, <4>3, <4>4
        <5>2. sep <= j => HighCut(f, g, sep)
          BY <1>14, <4>2, <4>4
        <5> QED
          BY <1>13, <4>3, <5>1, <5>2, CutRoute
      <4>6. Leads(y, j, v)'
        BY <4>4, <4>5 DEF Leads, LeadsIn
      <4> QED
        BY <3>1, <4>6
    <3> QED
      BY <3>6, <3>7
  <2>3. ASSUME NEW l \in Nat, NEW j \in Keys, l = lv[root] PROVE Reach(left2, at2[l][j])' = root
    <3>1. Reach(left, at[l][j]) = root /\ l <= lv[root]
      BY <1>1, <1>19, <2>3 DEF Tree, Routes
    <3>2. at[l][j] # m
      BY <1>7, <1>17, <2>3, <3>1
    <3> QED
      BY <1>18, <3>1, <3>2
  <2> QED
    BY <1>3, <1>10, <1>19, <2>1, <2>2, <2>3 DEF Routes
<1>22. /\ \A x \in leaves' : \A j \in DOMAIN entry'[x] : at2[0][j] = x
       /\ \A u \in Threads : pc'[u] = "write" => at2[0][Key(u)'] = cur'[u]
       /\ \A u \in Threads \ {t} : pc'[u] \in {"link", "parent"} =>
            SplitOff(u, new[u], left2[new[u]], MinKey(u), lv2, at2)'
       /\ Chained(at2)'
  <2>1. at2[0] = at[0]
    <3>1. at2[0] \in [Keys -> Nodes] /\ at[0] \in [Keys -> Nodes]
      BY <1>1, <1>10 DEF Tree, Routes
    <3>2. \A j \in Keys : at2[0][j] = at[0][j]
      BY <1>8, <1>10
    <3> QED
      BY <3>1, <3>2
  <2>2. 1 .. top \subseteq 1 .. top' /\ \A x \in 1 .. top : lv2[x] = lv[x] /\ left2[x] = left[x]
    BY <1>3, <1>6, <1>10
  <2>3. /\ \A u \in Threads \ {t} : new'[u] = new[u] /\ pc'[u] = pc[u]
        /\ pc'[t] # "write" /\ UNCHANGED <<leaves, entry, next, cur, arg>>
    BY <1>3
  <2>4. pc[t] = "parent"
    BY <1>3
  <2>5. LeafSide(t, lv2, at2, left2)'
    BY <1>1, <2>1, <2>2, <2>3, <2>4, LeafLevel
  <2> QED
    BY <2>5 DEF LeafSide
<1>23. Placed(lv2, at2)'
  <2>1. ASSUME NEW x \in Inner', NEW s \in DOMAIN child'[x] PROVE at2[lv2[x]][s] = x
    <3>1. CASE x = n
      <4>1. s \in DOMAIN g /\ sep <= s
        BY <1>15, <2>1, <3>1
      <4> QED
        BY <1>10, <1>13, <3>1, <4>1
    <3>2. CASE x = p
      <4>1. s \in DOMAIN g /\ s < sep
        BY <1>15, <2>1, <3>2
      <4>2. ~ (sep <= s) /\ s \in Keys /\ at[h][s] = p
        BY <1>11, <1>13, <4>1
      <4> QED
        BY <1>3, <1>8, <1>10, <3>2, <4>2
    <3>3. CASE x # n /\ x # p
      <4>1. x \in Inner /\ x \in Nodes /\ s \in DOMAIN child[x]
        BY <1>3, <1>5, <2>1, <3>3, NodesWithin
      <4>2. s \in Keys /\ lv[x] \in Nat /\ at[lv[x]][s] = x
        BY <1>1, <4>1, RootLevel DEF Tree, Placed, TypeInv, NodesTyped, IsNode
      <4> QED
        BY <1>10, <3>3, <4>1, <4>2
    <3> QED
      BY <3>1, <3>2, <3>3
  <2> QED
    BY <1>22, <2>1 DEF Placed
<1>24. SplitOff(t, n, p, sep, lv2, at2)'
  <2>1. at2[h][sep] = n
    BY <1>10, <1>11
  <2>2. \E j \in Keys : at2[h][j] = p
    <3>1. PICK j \in DOMAIN child[p] : j < sep
      BY <1>5
    <3>2. j \in Keys /\ at[h][j] = p /\ ~ (sep <= j)
      BY <1>11, <3>1
    <3> QED
      BY <1>10, <3>2
  <2>3. ASSUME NEW j \in Keys, at2[h][j] = p PROVE j < sep
    <3>1. at2[h][j] = IF at[h][j] = p /\ sep <= j THEN n ELSE at[h][j]
      BY <1>10
    <3>2. ~ (sep <= j) /\ j \in Int
      BY <1>3, <1>11, <2>3, <3>1
    <3> QED
      BY <1>11, <3>2
  <2>4. ASSUME NEW j \in Keys, at2[h][j] = n PROVE sep <= j
    BY <1>6, <1>8, <1>10, <1>17, <2>4
  <2>5. p \in 1 .. n /\ lv2[p] = h /\ n \notin leaves'
    BY <1>3, <1>6, <1>8, <1>10
  <2>6. par'[t] = parent'[p]
    <3>1. p # m
      BY <1>8
    <3>2. ~Moved(p, sep, p)
      <4>1. \A s \in DOMAIN child[p] : lv[p] = lv[child[p][s]] + 1
        BY <1>1, <1>3, ChildLevel
      <4>2. lv[p] # lv[p] + 1
        BY <1>7
      <4> QED
        BY <4>1, <4>2 DEF Moved
    <3> QED
      BY <1>3, <1>5, <3>1, <3>2
  <2> QED
    BY <1>3, <1>10, <2>1, <2>2, <2>3, <2>4, <2>5, <2>6 DEF SplitOff
<1>25. MinKey(t)' = sep
  <2>1. sep \in DOMAIN child'[n] /\ \A j \in DOMAIN child'[n] : sep <= j
    BY <1>11, <1>13, <1>15
  <2>2. MinKey(t)' = Least(DOMAIN child'[n])
    BY <1>3, <1>6 DEF MinKey
  <2>3. DOMAIN child'[n] \subseteq Int
    BY <1>13, <1>15
  <2>4. \A x \in DOMAIN child'[n] : (\A y \in DOMAIN child'[n] : x <= y) => x = sep
    BY <2>1, <2>3
  <2> QED
    BY <2>1, <2>2, <2>4 DEF Least
<1>26. Offs(lv2, at2, left2)'
  <2>1. ASSUME NEW u \in Threads, pc'[u] \in {"link", "parent"}
        PROVE  SplitOff(u, new[u], left2[new[u]], MinKey(u), lv2, at2)'
    <3>1. CASE u = t
      <4>1. new'[t] = n /\ left2[n] = p
        BY <1>3, <1>10
      <4> QED
        BY <1>24, <1>25, <3>1, <4>1
    <3>2. CASE u # t
      BY <1>22, <2>1, <3>2
    <3> QED
      BY <3>1, <3>2
  <2>2. \A u, v \in Threads : new'[u] = cur'[v] => new'[u] = Null
    <3>1. \A v \in Threads : cur[v] # n
      BY <1>3 DEF TypeInv, Calls, Fresh
    <3> QED
      BY <1>1, <1>3, <3>1 DEF Tree, Offs
  <2> QED
    BY <2>1, <2>2 DEF Offs
<1> QED
  BY <1>20, <1>21, <1>22, <1>23, <1>26 DEF Tree, TreeInv

-----------------------------------------------------------------------------
(* A search follows its route *)

Follows(f, S, stop, d) == f = [n \in S |-> IF n \in stop THEN n ELSE f[d[n]]]

\* A recursion along d that comes down in rank has a value everywhere.
LEMMA DownwardRecursion ==
    ASSUME NEW S, NEW stop, NEW d \in [S -> S], NEW rank \in [S -> Nat],
           NEW bound \in Nat, \A n \in S : rank[n] <= bound,
           \A n \in S \ stop : rank[d[n]] < rank[n]
    PROVE  \E f : Follows(f, S, stop, d)
<1> DEFINE D(L) == {n \in S : rank[n] < L}
           Solves(f, L) == f = [n \in D(L) |-> IF n \in stop THEN n ELSE f[d[n]]]
           Bad == {L \in Nat : ~ \E f : Solves(f, L)}
<1>1. Bad = {}
  <2>1. SUFFICES ASSUME Bad # {} PROVE FALSE
    OBVIOUS
  <2>2. PICK L \in Bad : \A y \in Bad : L <= y
    <3>1. Bad \in SUBSET Nat
      OBVIOUS
    <3> HIDE DEF Bad
    <3> QED
      BY <2>1, <3>1, LeastNat
  <2>3. L \in Nat /\ ~ \E f : Solves(f, L)
    OBVIOUS
  <2>4. L # 0
    <3>1. ASSUME L = 0 PROVE FALSE
      <4>1. D(L) = {}
        BY <3>1
      <4>2. PICK f : f = [n \in {} |-> n]
        OBVIOUS
      <4>3. f = [n \in D(L) |-> IF n \in stop THEN n ELSE f[d[n]]]
        BY <4>1, <4>2
      <4> QED
        BY <2>3, <4>3
    <3> QED
      BY <3>1
  <2>5. PICK M \in Nat : L = M + 1 /\ M \notin Bad
    <3>1. L - 1 \in Nat /\ L = (L - 1) + 1 /\ ~ (L <= L - 1)
      BY <2>3, <2>4
    <3>2. L - 1 \notin Bad
      BY <2>2, <3>1
    <3> QED
      BY <3>1, <3>2, Zenon
  <2>6. PICK f : Solves(f, M)
    BY <2>5
  <2>7. PICK g : g = [n \in D(L) |-> IF n \in stop THEN n ELSE f[d[n]]]
    OBVIOUS
  <2>8. ASSUME NEW n \in D(L) \ stop PROVE d[n] \in D(M) /\ d[n] \in D(L)
    <3>1. n \in S /\ n \notin stop /\ d[n] \in S /\ rank[n] \in Nat /\ rank[d[n]] \in Nat
      OBVIOUS
    <3>2. rank[d[n]] < rank[n] /\ rank[n] < L
      BY <3>1
    <3> QED
      BY <2>5, <3>1, <3>2
  <2>9. \A n \in D(M) : n \in D(L)
    BY <2>5
  <2>10. \A n \in D(M) : g[n] = f[n]
    <3>1. f = [n \in D(M) |-> IF n \in stop THEN n ELSE f[d[n]]]
      BY <2>6
    <3> HIDE DEF D
    <3> QED
      BY <2>7, <2>9, <3>1
  <2>11. g = [n \in D(L) |-> IF n \in stop THEN n ELSE g[d[n]]]
    <3> HIDE DEF D
    <3> QED
      BY <2>7, <2>8, <2>10
  <2> QED
    BY <2>3, <2>11
<1>2. PICK f : Solves(f, bound + 1)
  <2>1. bound + 1 \in Nat
    OBVIOUS
  <2> QED
    BY <1>1, <2>1
<1>3. D(bound + 1) = S
  OBVIOUS
<1>4. f = [n \in D(bound + 1) |-> IF n \in stop THEN n ELSE f[d[n]]]
  BY <1>2
<1> HIDE DEF D
<1>5. Follows(f, S, stop, d)
  BY <1>3, <1>4 DEF Follows
<1> QED
  BY <1>5

\* The search below an inner node goes on one level down.
LEMMA DownALevel ==
    ASSUME TypeInv, Links, NEW lv, NEW at, NEW left, Tree(lv, at, left),
           NEW p \in Inner, NEW k \in Keys, NEW v, v = SearchDown(p, k)
    PROVE  v = Null \/ (v \in 1 .. top /\ lv[p] = lv[v] + 1)
<1>1. LeadsIn(child[p], leftmost[p], k, v)
  BY LeadsTo, NodesWithin DEF Leads
<1>2. CASE \E s \in DOMAIN child[p] : child[p][s] = v
  BY <1>2, ChildLevel
<1>3. CASE leftmost[p] = v
  BY <1>3, ChildNode DEF Tree, Levels
<1> QED
  BY <1>1, <1>2, <1>3 DEF LeadsIn

\* What SearchLeaf computes: a function that follows SearchDown to a leaf.
LEMMA SearchIs ==
    ASSUME TypeInv, Links, TreeInv, NEW k \in Keys
    PROVE  \E g : /\ SearchLeaf(k) = g[root]
                  /\ \A n \in Nodes : g[n] = IF n \in leaves THEN n ELSE g[SearchDown(n, k)]
<1>1. PICK lv, at, left : Tree(lv, at, left)
  BY DEF TreeInv
<1> DEFINE S == Nodes \cup {Null}
           stop == leaves \cup {Null}
<1>2. PICK rank, d : /\ rank = [n \in S |-> IF n \in Inner THEN lv[n] + 1
                                            ELSE IF n \in stop THEN 0 ELSE 1]
                     /\ d = [n \in S |-> IF n \in stop THEN n ELSE SearchDown(n, k)]
  OBVIOUS
<1>3. /\ Inner \subseteq Nodes /\ leaves \subseteq Nodes /\ 1 .. top \subseteq Nodes
      /\ Null \notin Nodes /\ \A n \in Inner : n \notin stop /\ lv[n] \in Nat /\ lv[n] # 0
      /\ \A n \in 1 .. top : lv[n] \in Nat
  BY <1>1, NodesWithin, NullAssumption, RootLevel DEF Inner
<1>4. \A n \in Nodes \ stop : n \notin Inner => SearchDown(n, k) = Null
  <2>1. \A n \in Nodes \ stop : n \notin Inner => DOMAIN child[n] = {} /\ leftmost[n] = Null
    BY DEF TypeInv, NodesFilled
  <2> QED
    BY <2>1 DEF SearchDown
<1>5. \A n \in Inner : \/ SearchDown(n, k) = Null
                       \/ SearchDown(n, k) \in 1 .. top /\ lv[n] = lv[SearchDown(n, k)] + 1
  BY <1>1, DownALevel
<1>6. d \in [S -> S]
  <2>1. ASSUME NEW n \in S \ stop PROVE SearchDown(n, k) \in S
    BY <1>3, <1>4, <1>5, <2>1
  <2> QED
    BY <1>2, <2>1
<1>7. rank \in [S -> Nat]
  BY <1>2, <1>3
<1>8. PICK bound \in Nat : \A n \in S : rank[n] <= bound
  <2>1. lv[root] \in Nat /\ \A n \in Inner : lv[n] <= lv[root]
    BY <1>1, RootLevel
  <2>2. lv[root] + 1 \in Nat /\ \A n \in S : rank[n] <= lv[root] + 1
    BY <1>2, <1>3, <2>1
  <2> QED
    BY <2>2, Zenon
<1>9. ASSUME NEW n \in S \ stop PROVE rank[d[n]] < rank[n]
  <2>1. PICK v : v = SearchDown(n, k)
    OBVIOUS
  <2>2. d[n] = v /\ n \in Nodes /\ n # Null
    BY <1>2, <2>1
  <2>3. rank[Null] = 0
    BY <1>2, <1>3
  <2>4. CASE n \notin Inner
    <3>1. v = Null /\ rank[n] = 1
      BY <1>2, <1>4, <2>1, <2>2, <2>4
    <3> QED
      BY <2>2, <2>3, <3>1
  <2>5. CASE n \in Inner
    <3>1. rank[n] = lv[n] + 1 /\ lv[n] \in Nat
      BY <1>2, <1>3, <2>5
    <3>2. CASE v = Null
      BY <2>2, <2>3, <3>1, <3>2
    <3>3. CASE v # Null
      <4>1. v \in 1 .. top /\ v \in Nodes /\ lv[n] = lv[v] + 1 /\ lv[v] \in Nat
        BY <1>3, <1>5, <2>1, <2>5, <3>3
      <4>2. v \in Inner \/ v \in leaves
        BY <4>1 DEF Inner
      <4>3. rank[v] <= lv[v] + 1
        BY <1>2, <1>3, <4>1, <4>2
      <4> QED
        BY <1>7, <2>2, <3>1, <4>1, <4>3
    <3> QED
      BY <3>2, <3>3
  <2> QED
    BY <2>4, <2>5
<1>10. PICK f : Follows(f, S, stop, d)
  <2> HIDE DEF S, stop
  <2>1. \A n \in S \ stop : rank[d[n]] < rank[n]
    BY <1>9
  <2> QED
    BY <1>6, <1>7, <1>8, <2>1, DownwardRecursion
<1>11. f = [n \in Nodes \cup {Null} |-> IF n = Null \/ n \in leaves THEN n ELSE f[SearchDown(n, k)]]
  BY <1>2, <1>10 DEF Follows
<1> DEFINE down == CHOOSE g : g = [n \in Nodes \cup {Null} |->
                                    IF n = Null \/ n \in leaves THEN n ELSE g[SearchDown(n, k)]]
<1>12. down = [n \in Nodes \cup {Null} |->
                  IF n = Null \/ n \in leaves THEN n ELSE down[SearchDown(n, k)]]
  BY <1>11, Zenon
<1>13. SearchLeaf(k) = down[root]
  BY Zenon DEF SearchLeaf, SearchLeafFrom
<1> HIDE DEF down
<1>14. \A n \in Nodes : down[n] = IF n \in leaves THEN n ELSE down[SearchDown(n, k)]
  BY <1>12, NullAssumption
<1> QED
  BY <1>13, <1>14

\* Outside insert_into_parent only leaves pend, and a search ends where its key belongs.
LEMMA SearchFinds ==
    ASSUME TypeInv, Links, NEW lv, NEW at, NEW left, Tree(lv, at, left), InnerAtRest, NEW k \in Keys
    PROVE  SearchLeaf(k) = Reach(left, at[0][k])
<1>1. PICK g : /\ SearchLeaf(k) = g[root]
               /\ \A n \in Nodes : g[n] = IF n \in leaves THEN n ELSE g[SearchDown(n, k)]
  BY SearchIs DEF TreeInv
<1>2. PICK goal : goal = Reach(left, at[0][k])
  OBVIOUS
<1> DEFINE Bad == {l \in Nat : l <= lv[root] /\ g[Reach(left, at[l][k])] # goal}
<1>3. lv[root] \in Nat
  BY RootLevel
<1>4. Bad = {}
  <2>1. SUFFICES ASSUME Bad # {} PROVE FALSE
    OBVIOUS
  <2>2. PICK l \in Bad : \A y \in Bad : l <= y
    <3>1. Bad \in SUBSET Nat
      OBVIOUS
    <3> HIDE DEF Bad
    <3> QED
      BY <2>1, <3>1, LeastNat
  <2>3. l \in Nat /\ l <= lv[root] /\ g[Reach(left, at[l][k])] # goal
    OBVIOUS
  <2>4. l # 0
    <3>1. ASSUME l = 0 PROVE FALSE
      <4>1. goal \in Nodes /\ goal \in leaves
        BY <1>2, <1>3, <2>3, <3>1, ReachAt DEF Tree, Levels
      <4> QED
        BY <1>1, <1>2, <2>3, <3>1, <4>1
    <3> QED
      BY <3>1
  <2>5. PICK m \in Nat : l = m + 1
    <3>1. l - 1 \in Nat /\ l = (l - 1) + 1
      BY <2>3, <2>4
    <3> QED
      BY <3>1, Zenon
  <2>6. m <= lv[root] /\ m \notin Bad
    BY <1>3, <2>2, <2>3, <2>5
  <2>7. g[Reach(left, at[m][k])] = goal
    BY <2>6
  <2>8. PICK p : p = at[l][k]
    OBVIOUS
  <2>9. p \in Inner /\ p \in Nodes /\ p \notin leaves
    BY <2>3, <2>4, <2>8, RouteAt DEF Inner
  <2>10. Reach(left, p) = p
    <3>1. ASSUME NEW u \in Threads, pc[u] \in {"link", "parent"}, new[u] = p PROVE FALSE
      <4>1. pc[u] # "parent"
        BY DEF InnerAtRest
      <4> QED
        BY <2>9, <3>1, <4>1 DEF TypeInv, Calls, CallOf
    <3> QED
      BY <3>1 DEF Reach, Pending
  <2>11. SearchDown(p, k) = Reach(left, at[m][k])
    <3>1. PICK v : v = Reach(left, at[m][k])
      OBVIOUS
    <3>2. Leads(p, k, v)
      BY <2>3, <2>5, <2>8, <3>1 DEF Tree, Routes
    <3>3. Leads(p, k, SearchDown(p, k))
      BY <2>9, LeadsTo
    <3> QED
      BY <2>9, <3>1, <3>2, <3>3, LeadsOnce
  <2>12. g[p] = goal
    BY <1>1, <2>7, <2>9, <2>11
  <2> QED
    BY <2>3, <2>8, <2>10, <2>12
<1>5. lv[root] \notin Bad
  BY <1>4
<1>6. Reach(left, at[lv[root]][k]) = root
  BY <1>3 DEF Tree, Routes
<1> QED
  BY <1>1, <1>2, <1>3, <1>5, <1>6

\* A leaf that a call may work on is the one that its key belongs to.
LEMMA OpenIs ==
    ASSUME TypeInv, Links, NEW lv, NEW at, NEW left, Tree(lv, at, left),
           NEW k \in Keys, NEW n \in Nodes, OpenLeaf(k, n)
    PROVE  n = at[0][k] /\ ~Pending(n)
<1>1. /\ mutex = Null /\ n = SearchLeaf(k) /\ n \in leaves /\ n \notin locked
  BY DEF OpenLeaf
<1>2. n = Reach(left, at[0][k])
  <2>1. InnerAtRest
    BY <1>1, NullAssumption DEF InnerAtRest, TypeInv, Calls, CallOf
  <2> QED
    BY <1>1, <2>1, SearchFinds
<1>3. lv[root] \in Nat /\ 0 <= lv[root]
  BY RootLevel
<1>4. ~Pending(n)
  BY <1>2, <1>3, ReachAt
<1>5. ~Pending(at[0][k])
  <2>1. ASSUME NEW u \in Threads, pc[u] \in {"link", "parent"}, new[u] = at[0][k] PROVE FALSE
    <3>1. SplitOff(u, new[u], left[new[u]], MinKey(u), lv, at)
      BY <2>1 DEF Tree, Offs
    <3>2. at[0][k] \in leaves
      BY <1>3, RouteAt
    <3>3. n = left[new[u]]
      BY <1>2, <2>1, PendingNew DEF Reach
    <3>4. n = cur[u] /\ cur[u] # Null
      BY <2>1, <3>1, <3>2, <3>3, NullAssumption DEF SplitOff
    <3> QED
      BY <1>1, <3>4 DEF TypeInv, LockInv, OneWriter
  <2> QED
    BY <2>1 DEF Pending
<1> QED
  BY <1>2, <1>4, <1>5 DEF Reach

LEMMA NextTree ==
    ASSUME TypeInv, Links, TreeInv, [Next]_vars
    PROVE  TreeInv'
<1>1. PICK lv, at, left : Tree(lv, at, left)
  BY DEF TreeInv
<1>2. \A t \in Threads : pc[t] \in {"link", "parent"} =>
         /\ pc[t] = "parent" => par[t] = parent[left[new[t]]]
         /\ new[t] \in leaves => left[new[t]] = cur[t]
  BY <1>1 DEF Tree, Offs, SplitOff
<1>3. \A n \in leaves : \A k \in DOMAIN entry[n] : at[0][k] = n
  BY <1>1 DEF Tree, Placed
<1>4. \A t \in Threads : pc[t] = "write" => at[0][arg[t][1]] = cur[t]
  BY <1>1 DEF Tree, Placed, Key
<1>5. \A t, u \in Threads : new[t] = cur[u] => new[t] = Null
  BY <1>1 DEF Tree, Offs
<1>6. pc \in [Threads -> Labels] /\ cur \in [Threads -> Nodes \cup {Null}]
  BY DEF TypeInv, LockInv
<1>7. ASSUME UNCHANGED <<node_vars, thread_vars>> PROVE TreeInv'
  <2>1. Tree(lv, at, left)'
    BY <1>1, <1>2, <1>3, <1>4, <1>5, <1>7, SameTree DEF node_vars, thread_vars
  <2> QED
    BY <2>1 DEF TreeInv
<1>8. ASSUME NEW t \in Threads, OutsideStep(t), \A n \in Nodes : DOMAIN entry'[n] = DOMAIN entry[n]
      PROVE  TreeInv'
  <2>1. /\ pc[t] \in Outside /\ pc'[t] \in Outside
        /\ UNCHANGED <<top, leaves, root, next, leftmost, child, parent, cur, par, new>>
    BY <1>6, <1>8, OutsideLocks DEF TypeInv, Goto
  <2>2. \A u \in Threads \ {t} : arg'[u] = arg[u] /\ pc'[u] = pc[u]
    BY <1>8, OutsideCalls
  <2>3. Tree(lv, at, left)'
    BY <1>1, <1>2, <1>3, <1>4, <1>5, <1>8, <2>1, <2>2, SameTree, PendingNew, NodesWithin DEF Outside
  <2> QED
    BY <2>3 DEF TreeInv
<1>9. ASSUME NEW t \in Threads, FindAndLock(t) PROVE TreeInv'
  <2>1. PICK n \in Nodes : OpenLeaf(Key(t), n) /\ cur' = [cur EXCEPT ![t] = n]
    BY <1>9 DEF FindAndLock
  <2>2. /\ pc[t] = "find" /\ \A u \in Threads : pc'[u] = IF u = t THEN "write" ELSE pc[u]
        /\ \A u \in Threads : cur'[u] = IF u = t THEN n ELSE cur[u]
        /\ UNCHANGED <<top, leaves, root, entry, next, leftmost, child, parent, arg, par, new>>
    BY <1>6, <1>9, <2>1 DEF FindAndLock, Goto
  <2>3. n = at[0][Key(t)] /\ ~Pending(n)
    BY <1>1, <2>1, <2>2, OpenIs, ArgKey
  <2>4. \A u \in Threads : new[u] = n => new[u] = Null
    BY <2>3 DEF Pending, TypeInv, Calls, CallOf
  <2>5. Tree(lv, at, left)'
    BY <1>1, <1>2, <1>3, <1>4, <1>5, <2>2, <2>3, <2>4, SameTree DEF Key
  <2> QED
    BY <2>5 DEF TreeInv
<1>10. ASSUME NEW t \in Threads, WriteLeaf(t) PROVE TreeInv'
  <2>1. PICK q, k : q = cur[t] /\ k = Key(t)
    OBVIOUS
  <2>2. /\ pc[t] = "write" /\ \A u \in Threads : pc'[u] = IF u = t THEN "unlock" ELSE pc[u]
        /\ entry' = [entry EXCEPT ![q] = With(entry[q], k, Value(t))]
        /\ UNCHANGED <<top, leaves, root, next, leftmost, child, parent, arg, cur, par, new>>
    BY <1>6, <1>10, <2>1 DEF WriteLeaf, Goto
  <2>3. q \in leaves /\ q \in Nodes /\ at[0][k] = q
    BY <1>1, <2>1, <2>2, WriteAt DEF Tree, Placed
  <2>4. /\ DOMAIN entry'[q] = DOMAIN entry[q] \cup {k}
        /\ \A n \in Nodes \ {q} : entry'[n] = entry[n]
    BY <2>2, <2>3 DEF TypeInv, NodesTyped, Over, With
  <2>5. \A n \in leaves : \A j \in DOMAIN entry'[n] : at[0][j] = n
    BY <1>3, <2>3, <2>4, NodesWithin
  <2>6. \A u \in Threads : pc[u] \in {"link", "parent"} => new[u] \in Nodes /\ new[u] # q
    BY <1>5, <2>1, <2>3, PendingNew, NullAssumption
  <2>7. Tree(lv, at, left)'
    BY <1>1, <1>2, <1>4, <1>5, <2>2, <2>4, <2>5, <2>6, SameTree
  <2> QED
    BY <2>7 DEF TreeInv
<1>11. ASSUME NEW t \in Threads, EnterParent(t) PROVE TreeInv'
  <2>1. /\ pc[t] = "link" /\ \A u \in Threads : pc'[u] = IF u = t THEN "parent" ELSE pc[u]
        /\ \A u \in Threads : par'[u] = IF u = t THEN parent[cur[t]] ELSE par[u]
        /\ UNCHANGED <<node_vars, arg, cur, new>>
    BY <1>6, <1>11 DEF EnterParent, Goto, TypeInv, Calls
  <2>2. new[t] \in leaves
    BY <2>1 DEF TypeInv, Calls, CallOf
  <2>3. Tree(lv, at, left)'
    BY <1>1, <1>2, <1>3, <1>4, <1>5, <2>1, <2>2, SameTree DEF node_vars
  <2> QED
    BY <2>3 DEF TreeInv
<1>12. ASSUME NEW t \in Threads, Unlock(t) PROVE TreeInv'
  <2>1. /\ pc[t] = "unlock" /\ \A u \in Threads : pc'[u] = IF u = t THEN "idle" ELSE pc[u]
        /\ \A u \in Threads \ {t} : arg'[u] = arg[u]
        /\ \A u \in Threads : cur'[u] = IF u = t THEN Null ELSE cur[u]
        /\ UNCHANGED <<top, leaves, root, entry, next, leftmost, child, parent, par, new>>
    BY <1>6, <1>12 DEF Unlock, Goto, TypeInv, Calls
  <2>2. Tree(lv, at, left)'
    BY <1>1, <1>2, <1>3, <1>4, <1>5, <2>1, SameTree
  <2> QED
    BY <2>2 DEF TreeInv
<1>13. ASSUME NEW t \in Threads, OutsideStep(t) PROVE TreeInv'
  <2>1. CASE UNCHANGED entry
    BY <1>8, <1>13, <2>1
  <2>2. CASE Remove(t)
    <3>1. PICK k, n : entry' = IF Found(n, k) THEN [entry EXCEPT ![n] = With(entry[n], k, 0)]
                               ELSE entry
      BY <2>2 DEF Remove
    <3>2. Found(n, k) => DOMAIN With(entry[n], k, 0) = DOMAIN entry[n]
      BY DEF Found, With
    <3>3. \A m \in Nodes : DOMAIN entry'[m] = DOMAIN entry[m]
      BY <3>1, <3>2 DEF TypeInv, NodesTyped, Over
    <3> QED
      BY <1>8, <1>13, <3>3
  <2> QED
    BY <1>13, <2>1, <2>2, OutsideLocks DEF TypeInv
<1>14. ASSUME NEW t \in Threads, InsertStep(t) PROVE TreeInv'
  BY <1>1, <1>9, <1>10, <1>11, <1>12, <1>14, SplitLeafTree, GrowRootTree, InsertChildTree,
     SplitInnerTree DEF InsertStep, TreeInv
<1> QED
  BY <1>7, <1>13, <1>14, NextIs DEF vars

-----------------------------------------------------------------------------
(* What the routes say of the tree *)

(***************************************************************************)
(* A search (bptree-template.hpp:541-549, called in the critical sections) *)
(* ends at the leaf that holds its key, however the leaf and the inner     *)
(* nodes above it have been split; or, while that leaf has no parent yet,  *)
(* at the locked leaf it was split from.                                   *)
(***************************************************************************)
THEOREM PathFindsKeyHolds == Spec => []PathFindsKey
<1>1. ASSUME TypeInv, Links, TreeInv PROVE PathFindsKey
  <2> SUFFICES ASSUME InnerAtRest, NEW n \in leaves, NEW k \in DOMAIN entry[n]
               PROVE  \/ SearchLeaf(k) = n
                      \/ \E t \in Threads : /\ pc[t] = "link" /\ new[t] = n
                                            /\ SearchLeaf(k) = cur[t]
    BY DEF PathFindsKey
  <2>1. PICK lv, at, left : Tree(lv, at, left)
    BY <1>1 DEF TreeInv
  <2>2. n \in Nodes /\ k \in Keys
    BY <1>1, NodesWithin DEF TypeInv, NodesTyped, IsNode
  <2>3. SearchLeaf(k) = Reach(left, n)
    BY <1>1, <2>1, <2>2, SearchFinds DEF Tree, Placed
  <2>4. ASSUME NEW t \in Threads, pc[t] \in {"link", "parent"}, new[t] = n
        PROVE  pc[t] = "link" /\ left[n] = cur[t]
    <3>1. pc[t] # "parent"
      BY DEF InnerAtRest
    <3> QED
      BY <2>1, <2>4, <3>1 DEF Tree, Offs, SplitOff
  <2> QED
    BY <2>3, <2>4 DEF Reach, Pending
<1> QED
  BY <1>1, InitTypeInv, InitLinks, InitTree, NextTypeInv, NextLinks, NextTree, PTL DEF Spec

(***************************************************************************)
(* insert_into_parent (bptree-template.hpp:563-615) links a new leaf right *)
(* behind the leaf it was split from, in the parent that this leaf has     *)
(* now, under a key that the parent does not have; and no other insert has *)
(* locked the new leaf before.                                             *)
(***************************************************************************)
THEOREM LinkTargetHolds == Spec => []LinkTarget
<1>1. ASSUME TypeInv, Links, TreeInv PROVE LinkTarget
  <2> SUFFICES ASSUME NEW t \in Threads, new[t] \in leaves
               PROVE  /\ new[t] \notin locked
                      /\ pc[t] = "parent" /\ par[t] # Null =>
                            /\ MinKey(t) \notin DOMAIN child[par[t]]
                            /\ SearchDown(par[t], MinKey(t)) = cur[t]
    BY DEF LinkTarget
  <2>1. PICK lv, at, left : Tree(lv, at, left)
    BY <1>1 DEF TreeInv
  <2>2. new[t] # Null
    BY <1>1, NodesWithin
  <2>3. new[t] \notin locked
    BY <1>1, <2>1, <2>2 DEF Tree, Offs, TypeInv, LockInv, OneWriter
  <2>4. ASSUME pc[t] = "parent", par[t] # Null
        PROVE  /\ MinKey(t) \notin DOMAIN child[par[t]]
               /\ SearchDown(par[t], MinKey(t)) = cur[t]
    <3>1. PICK p, k, q : p = par[t] /\ k = MinKey(t) /\ q = left[new[t]]
      OBVIOUS
    <3>2. p \in Inner /\ Leads(p, k, q) /\ k \notin DOMAIN child[p]
      BY <1>1, <2>1, <2>4, <3>1, Target
    <3>3. q = cur[t]
      BY <2>1, <2>4, <3>1 DEF Tree, Offs, SplitOff
    <3>4. k \in Keys /\ p \in Nodes
      BY <1>1, <2>4, <3>1, <3>2, PendingNew, NodesWithin
    <3>5. SearchDown(p, k) = q
      BY <1>1, <3>2, <3>4, LeadsTo, LeadsOnce
    <3> QED
      BY <3>1, <3>2, <3>3, <3>5
  <2> QED
    BY <2>3, <2>4
<1> QED
  BY <1>1, InitTypeInv, InitLinks, InitTree, NextTypeInv, NextLinks, NextTree, PTL DEF Spec

-----------------------------------------------------------------------------
(* The chain of leaves *)

\* Whatever contains header_ and follows the links contains every leaf.
FollowsNext(S) == \A n \in S : next[n] # Null => next[n] \in S

Reached == \A S \in SUBSET Nodes : Header \in S /\ FollowsNext(S) => leaves \subseteq S

LEMMA InitReached == Init => Reached
  BY DEF Init, Reached

\* A split hangs the new leaf between its old leaf and the one behind.
LEMMA SplitLeafReached ==
    ASSUME TypeInv, Reached, NEW t \in Threads, SplitLeaf(t)
    PROVE  Reached'
<1>1. PICK q, n, k : q = cur[t] /\ n = top + 1 /\ k = Key(t)
  OBVIOUS
<1>2. /\ Fresh(n) /\ q \in leaves /\ q \in Nodes /\ q # n /\ leaves' = leaves \cup {n}
      /\ next'[n] = next[q] /\ next'[q] = n /\ \A m \in Nodes \ {q, n} : next'[m] = next[m]
  BY <1>1, SplitLeafFacts
<1>3. /\ n \notin leaves /\ Header \in leaves
      /\ \A m \in Nodes : next[m] \in leaves \cup {Null}
  BY <1>2, FreshNode DEF Fresh, TypeInv, NodesTyped
<1>4. ASSUME NEW S \in SUBSET Nodes, Header \in S,
             \A m \in S : next'[m] # Null => next'[m] \in S
      PROVE  leaves' \subseteq S
  <2>1. \A m \in S \ {n} : next[m] # Null => next[m] \in S \ {n}
    <3>1. ASSUME NEW m \in S \ {n}, next[m] # Null PROVE next[m] \in S
      <4>1. CASE m = q
        <5>1. n \in S
          BY <1>2, <1>4, <3>1, <4>1, NullAssumption DEF Fresh
        <5> QED
          BY <1>2, <1>4, <3>1, <4>1, <5>1
      <4>2. CASE m # q
        BY <1>2, <1>4, <3>1, <4>2
      <4> QED
        BY <4>1, <4>2
    <3> QED
      BY <1>3, <3>1
  <2>2. PICK R : R = S \ {n}
    OBVIOUS
  <2>3. R \in SUBSET Nodes /\ Header \in R /\ FollowsNext(R)
    BY <1>3, <1>4, <2>1, <2>2 DEF FollowsNext
  <2>4. leaves \subseteq S
    BY <2>2, <2>3 DEF Reached
  <2>5. n \in S
    BY <1>2, <1>4, <2>4, NullAssumption DEF Fresh
  <2> QED
    BY <1>2, <2>4, <2>5
<1> QED
  BY <1>4 DEF Reached, FollowsNext

LEMMA NextReached ==
    ASSUME TypeInv, Reached, [Next]_vars
    PROVE  Reached'
<1>1. ASSUME UNCHANGED <<leaves, next>> PROVE Reached'
  BY <1>1 DEF Reached, FollowsNext
<1>2. ASSUME NEW t \in Threads, OutsideStep(t) PROVE Reached'
  BY <1>1, <1>2, OutsideLocks DEF TypeInv
<1>3. ASSUME NEW t \in Threads, InsertStep(t) PROVE Reached'
  <2>1. FindAndLock(t) \/ WriteLeaf(t) \/ EnterParent(t) \/ Unlock(t) => UNCHANGED <<leaves, next>>
    BY DEF FindAndLock, WriteLeaf, EnterParent, Unlock, node_vars
  <2>2. InsertChild(t) => UNCHANGED <<leaves, next>>
    BY DEF InsertChild, LeaveParent
  <2>3. GrowRoot(t) => UNCHANGED <<leaves, next>>
    BY DEF GrowRoot, LeaveParent
  <2>4. SplitInner(t) => UNCHANGED <<leaves, next>>
    BY DEF SplitInner
  <2> QED
    BY <1>1, <1>3, <2>1, <2>2, <2>3, <2>4, SplitLeafReached DEF InsertStep
<1>4. CASE UNCHANGED vars
  BY <1>1, <1>4 DEF vars, node_vars
<1> QED
  BY <1>2, <1>3, <1>4, NextIs

\* A function that repeats a step so many times exists, by induction on the number.
Repeats(f, N, first, d) == f = [i \in 0 .. N |-> IF i = 0 THEN first ELSE d[f[i - 1]]]

LEMMA Repetition ==
    ASSUME NEW N \in Nat, NEW Z, NEW first \in Z, NEW d \in [Z -> Z]
    PROVE  \E f \in [0 .. N -> Z] : Repeats(f, N, first, d)
<1> DEFINE Bad == {L \in Nat : ~ \E f \in [0 .. L -> Z] : Repeats(f, L, first, d)}
<1>1. Bad = {}
  <2>1. SUFFICES ASSUME Bad # {} PROVE FALSE
    OBVIOUS
  <2>2. PICK L \in Bad : \A y \in Bad : L <= y
    <3>1. Bad \in SUBSET Nat
      OBVIOUS
    <3> HIDE DEF Bad
    <3> QED
      BY <2>1, <3>1, LeastNat
  <2>3. L \in Nat /\ ~ \E f \in [0 .. L -> Z] : Repeats(f, L, first, d)
    OBVIOUS
  <2>4. L # 0
    <3>1. ASSUME L = 0 PROVE FALSE
      <4>1. PICK f : f = [i \in 0 .. L |-> first]
        OBVIOUS
      <4>2. f \in [0 .. L -> Z] /\ f = [i \in 0 .. L |-> IF i = 0 THEN first ELSE d[f[i - 1]]]
        BY <3>1, <4>1
      <4> QED
        BY <2>3, <4>2 DEF Repeats
    <3> QED
      BY <3>1
  <2>5. PICK M \in Nat : L = M + 1 /\ M \notin Bad
    <3>1. L - 1 \in Nat /\ L = (L - 1) + 1 /\ ~ (L <= L - 1)
      BY <2>3, <2>4
    <3>2. L - 1 \notin Bad
      BY <2>2, <3>1
    <3> QED
      BY <3>1, <3>2, Zenon
  <2>6. PICK f \in [0 .. M -> Z] : Repeats(f, M, first, d)
    BY <2>5
  <2>7. f = [i \in 0 .. M |-> IF i = 0 THEN first ELSE d[f[i - 1]]]
    BY <2>6 DEF Repeats
  <2>8. PICK g : g = [i \in 0 .. L |-> IF i = 0 THEN first ELSE d[f[i - 1]]]
    OBVIOUS
  <2>9. /\ \A i \in 0 .. M : i \in 0 .. L
        /\ \A i \in 0 .. L : i # 0 => i - 1 \in 0 .. M
    BY <2>5
  <2>10. \A i \in 0 .. M : g[i] = f[i]
    BY <2>7, <2>8, <2>9
  <2>11. g = [i \in 0 .. L |-> IF i = 0 THEN first ELSE d[g[i - 1]]]
    BY <2>8, <2>9, <2>10
  <2>12. g \in [0 .. L -> Z]
    BY <2>8, <2>9
  <2> QED
    BY <2>3, <2>11, <2>12 DEF Repeats
<1> QED
  BY <1>1

\* What Chain computes: one more step along the links each time.
LEMMA ChainIs ==
    ASSUME TypeInv
    PROVE  /\ Chain[0] = {Header}
           /\ \A i \in 0 .. MaxNode : i # 0 =>
                Chain[i] = Chain[i - 1] \cup ({next[n] : n \in Chain[i - 1]} \ {Null})
<1>1. Header \in leaves /\ leaves \subseteq Nodes /\ \A n \in leaves : next[n] \in leaves \cup {Null}
  BY NodesWithin DEF TypeInv, NodesTyped
<1>2. PICK d : d = [s \in SUBSET leaves |-> s \cup ({next[n] : n \in s} \ {Null})]
  OBVIOUS
<1>3. d \in [SUBSET leaves -> SUBSET leaves] /\ {Header} \in SUBSET leaves /\ MaxNode \in Nat
  BY <1>1, <1>2, SlotsAssumption
<1>4. PICK f \in [0 .. MaxNode -> SUBSET leaves] : Repeats(f, MaxNode, {Header}, d)
  BY <1>3, Repetition
<1>5. f = [i \in 0 .. MaxNode |-> IF i = 0 THEN {Header} ELSE d[f[i - 1]]]
  BY <1>4 DEF Repeats
<1>6. \A i \in 0 .. MaxNode : i # 0 => i - 1 \in 0 .. MaxNode
  BY <1>3
<1>7. \A i \in 0 .. MaxNode : i # 0 => d[f[i - 1]] = f[i - 1] \cup ({next[n] : n \in f[i - 1]} \ {Null})
  BY <1>2, <1>4, <1>6
<1>8. f = [steps \in 0 .. MaxNode |->
             IF steps = 0 THEN {Header}
             ELSE f[steps - 1] \cup ({next[n] : n \in f[steps - 1]} \ {Null})]
  BY <1>5, <1>7
<1> DEFINE c == CHOOSE g : g = [steps \in 0 .. MaxNode |->
                                  IF steps = 0 THEN {Header}
                                  ELSE g[steps - 1] \cup ({next[n] : n \in g[steps - 1]} \ {Null})]
<1>9. c = [steps \in 0 .. MaxNode |->
             IF steps = 0 THEN {Header}
             ELSE c[steps - 1] \cup ({next[n] : n \in c[steps - 1]} \ {Null})]
  BY <1>8, Zenon
<1>10. Chain = c
  BY Zenon DEF Chain
<1> HIDE DEF c
<1>11. \A i \in 0 .. MaxNode :
          c[i] = IF i = 0 THEN {Header}
                 ELSE c[i - 1] \cup ({next[n] : n \in c[i - 1]} \ {Null})
  BY <1>9, Zenon
<1>12. 0 \in 0 .. MaxNode
  BY <1>3
<1> QED
  BY <1>10, <1>11, <1>12, Zenon

(***************************************************************************)
(* MaxNode steps pass every leaf: a step that adds no node has come to the *)
(* end of the chain, and there are no more than MaxNode nodes to add.      *)
(***************************************************************************)
LEMMA ChainReaches ==
    ASSUME TypeInv, Reached
    PROVE  Chain[MaxNode] = leaves
<1> DEFINE Far(i) == /\ Chain[i] \subseteq leaves /\ Header \in Chain[i]
                     /\ FollowsNext(Chain[i]) \/ i + 1 <= Cardinality(Chain[i])
           Bad == {i \in Nat : i <= MaxNode /\ ~ Far(i)}
<1>1. /\ Header \in leaves /\ leaves \subseteq Nodes /\ \A n \in leaves : next[n] \in leaves \cup {Null}
      /\ MaxNode \in Nat /\ Null \notin Nodes
  BY NodesWithin, SlotsAssumption, NullAssumption DEF TypeInv, NodesTyped
<1>2. IsFiniteSet(Nodes) /\ Cardinality(Nodes) = MaxNode
  <2>1. 1 \in Int /\ MaxNode \in Int
    BY <1>1
  <2>2. IsFiniteSet(1 .. MaxNode) /\ Cardinality(1 .. MaxNode) = IF 1 > MaxNode THEN 0 ELSE MaxNode - 1 + 1
    BY <2>1, FS_Interval
  <2> QED
    BY <2>2, SlotsAssumption DEF Nodes
<1>3. \A S : S \subseteq leaves => /\ IsFiniteSet(S) /\ Cardinality(S) \in Nat
                                   /\ Cardinality(S) <= MaxNode
  BY <1>1, <1>2, FS_Subset, FS_CardinalityType
<1>4. Bad = {}
  <2>1. SUFFICES ASSUME Bad # {} PROVE FALSE
    OBVIOUS
  <2>2. PICK i \in Bad : \A y \in Bad : i <= y
    <3>1. Bad \in SUBSET Nat
      OBVIOUS
    <3> HIDE DEF Bad
    <3> QED
      BY <2>1, <3>1, LeastNat
  <2>3. i \in Nat /\ i <= MaxNode /\ ~ Far(i)
    OBVIOUS
  <2>4. i # 0
    <3>1. ASSUME i = 0 PROVE FALSE
      <4>1. Chain[i] = {Header} /\ Cardinality({Header}) = 1
        BY <3>1, ChainIs, FS_Singleton
      <4>2. Far(i)
        BY <1>1, <3>1, <4>1
      <4> QED
        BY <2>3, <4>2
    <3> QED
      BY <3>1
  <2>5. PICK m \in Nat : i = m + 1 /\ m <= MaxNode /\ m \notin Bad
    <3>1. i - 1 \in Nat /\ i = (i - 1) + 1 /\ ~ (i <= i - 1) /\ i - 1 <= MaxNode
      BY <1>1, <2>3, <2>4
    <3>2. i - 1 \notin Bad
      BY <2>2, <3>1
    <3> QED
      BY <3>1, <3>2, Zenon
  <2>6. PICK S, T : S = Chain[m] /\ T = Chain[i]
    OBVIOUS
  <2>7. T = S \cup ({next[n] : n \in S} \ {Null})
    <3>1. i \in 0 .. MaxNode /\ i - 1 = m
      BY <1>1, <2>3, <2>5
    <3> QED
      BY <2>4, <2>6, <3>1, ChainIs
  <2>8. /\ S \subseteq leaves /\ Header \in S
        /\ FollowsNext(S) \/ m + 1 <= Cardinality(S)
    BY <2>5, <2>6
  <2>9. T \subseteq leaves /\ Header \in T
    BY <1>1, <2>7, <2>8
  <2>10. CASE FollowsNext(S)
    <3>1. T = S
      BY <2>7, <2>10 DEF FollowsNext
    <3> QED
      BY <2>3, <2>6, <2>9, <2>10, <3>1
  <2>11. CASE ~ FollowsNext(S)
    <3>1. PICK n \in S : next[n] # Null /\ next[n] \notin S
      BY <2>11 DEF FollowsNext
    <3>2. next[n] \in T /\ S \cup {next[n]} \subseteq T
      BY <2>7, <3>1
    <3>3. Cardinality(S \cup {next[n]}) = Cardinality(S) + 1
      BY <1>3, <2>8, <3>1, FS_AddElement
    <3>4. Cardinality(S \cup {next[n]}) <= Cardinality(T)
      BY <1>3, <2>9, <3>2, FS_Subset
    <3>5. i + 1 <= Cardinality(T)
      BY <1>3, <2>5, <2>8, <2>9, <2>11, <3>3, <3>4
    <3> QED
      BY <2>3, <2>6, <2>9, <3>5
  <2> QED
    BY <2>10, <2>11
<1>5. Far(MaxNode)
  BY <1>1, <1>4
<1>6. PICK S : S = Chain[MaxNode]
  OBVIOUS
<1>7. S \subseteq leaves /\ Header \in S /\ FollowsNext(S)
  <2>1. S \subseteq leaves /\ Header \in S /\ (FollowsNext(S) \/ MaxNode + 1 <= Cardinality(S))
    BY <1>5, <1>6
  <2>2. Cardinality(S) \in Nat /\ Cardinality(S) <= MaxNode
    BY <1>3, <2>1
  <2> QED
    BY <1>1, <2>1, <2>2
<1>8. leaves \subseteq S
  BY <1>1, <1>7 DEF Reached
<1> QED
  BY <1>6, <1>7, <1>8

(***************************************************************************)
(* Whoever follows the links from header_ (bptree_scan,                    *)
(* bptree-template.hpp:705-717, and the Iterator) meets every leaf, in     *)
(* ascending order of their keys, in every state a split can leave.        *)
(***************************************************************************)
THEOREM ChainSortedHolds == Spec => []ChainSorted
<1>1. ASSUME TypeInv, TreeInv, Reached PROVE ChainSorted
  <2>1. PICK lv, at, left : Tree(lv, at, left)
    BY <1>1 DEF TreeInv
  <2>2. ASSUME NEW n \in leaves, next[n] # Null
        PROVE  /\ next[n] # Header
               /\ \A j \in DOMAIN entry[n], k \in DOMAIN entry[next[n]] : j < k
               /\ DOMAIN entry[next[n]] # {}
    <3>1. PICK m : m = next[n]
      OBVIOUS
    <3>2. m \in leaves /\ m # Header
      BY <1>1, <2>1, <2>2, <3>1, NodesWithin DEF TypeInv, NodesTyped, Tree, Chained
    <3>3. DOMAIN entry[m] # {} /\ DOMAIN entry[n] \subseteq Keys /\ DOMAIN entry[m] \subseteq Keys
      BY <1>1, <3>2, NodesWithin DEF TypeInv, NodesTyped, NodesFilled, IsNode
    <3>4. ASSUME NEW j \in DOMAIN entry[n], NEW k \in DOMAIN entry[m] PROVE j < k
      <4>1. at[0][j] = n /\ at[0][k] = next[n]
        BY <2>1, <3>1, <3>2 DEF Tree, Placed
      <4> QED
        BY <2>1, <2>2, <3>3, <4>1 DEF Tree, Chained
    <3> QED
      BY <3>1, <3>2, <3>3, <3>4
  <2> QED
    BY <1>1, <2>2, ChainReaches DEF ChainSorted
<1> QED
  BY <1>1, InitTypeInv, InitLinks, InitTree, InitReached, NextTypeInv, NextLinks, NextTree,
     NextReached, PTL DEF Spec

-----------------------------------------------------------------------------
(* The leaves together are one map *)

\* Its key finds the entry of the one leaf that has it.
MapInv ==
    \A k \in Keys :
        /\ \A n \in leaves : k \in DOMAIN entry[n] => MapOf(k) = entry[n][k]
        /\ (\A n \in leaves : k \notin DOMAIN entry[n]) => MapOf(k) = Null

LEMMA TreeMap == TypeInv /\ TreeInv => MapInv
<1> SUFFICES ASSUME TypeInv, TreeInv, NEW k \in Keys
             PROVE  /\ \A n \in leaves : k \in DOMAIN entry[n] => MapOf(k) = entry[n][k]
                    /\ (\A n \in leaves : k \notin DOMAIN entry[n]) => MapOf(k) = Null
  BY DEF MapInv
<1>1. PICK lv, at, left : Tree(lv, at, left)
  BY DEF TreeInv
<1>2. ASSUME NEW n \in leaves, k \in DOMAIN entry[n] PROVE MapOf(k) = entry[n][k]
  <2>1. LeavesWith(k) = {n}
    BY <1>1, <1>2 DEF LeavesWith, Tree, Placed
  <2> QED
    BY <2>1 DEF MapOf
<1>3. ASSUME \A n \in leaves : k \notin DOMAIN entry[n] PROVE MapOf(k) = Null
  BY <1>3 DEF MapOf, LeavesWith
<1> QED
  BY <1>2, <1>3

\* One entry is written, the others keep their values in whatever leaf.
LEMMA OneWritten ==
    ASSUME MapInv, MapInv', NEW k \in Keys, NEW v,
           \E n \in leaves' : k \in DOMAIN entry'[n] /\ entry'[n][k] = v,
           \A j \in Keys \ {k} : \A n \in leaves : j \in DOMAIN entry[n] =>
               \E m \in leaves' : j \in DOMAIN entry'[m] /\ entry'[m][j] = entry[n][j],
           \A j \in Keys \ {k} : \A m \in leaves' : j \in DOMAIN entry'[m] =>
               \E n \in leaves : j \in DOMAIN entry[n]
    PROVE  [j \in Keys |-> MapOf(j)]' = [[j \in Keys |-> MapOf(j)] EXCEPT ![k] = v]
<1>1. MapOf(k)' = v
  BY DEF MapInv
<1>2. ASSUME NEW j \in Keys \ {k} PROVE MapOf(j)' = MapOf(j)
  <2>1. CASE \E n \in leaves : j \in DOMAIN entry[n]
    <3>1. PICK n \in leaves : j \in DOMAIN entry[n]
      BY <2>1
    <3>2. PICK m \in leaves' : j \in DOMAIN entry'[m] /\ entry'[m][j] = entry[n][j]
      BY <3>1
    <3> QED
      BY <3>1, <3>2 DEF MapInv
  <2>2. CASE \A n \in leaves : j \notin DOMAIN entry[n]
    <3>1. \A m \in leaves' : j \notin DOMAIN entry'[m]
      BY <2>2
    <3> QED
      BY <2>2, <3>1 DEF MapInv
  <2> QED
    BY <2>1, <2>2
<1> QED
  BY <1>1, <1>2

\* The same for a step that works on one leaf alone.
LEMMA LeafWritten ==
    ASSUME TypeInv, MapInv, MapInv', NEW k \in Keys, NEW v, NEW n \in leaves,
           entry' = [entry EXCEPT ![n] = With(@, k, v)], leaves' = leaves
    PROVE  [j \in Keys |-> MapOf(j)]' = [[j \in Keys |-> MapOf(j)] EXCEPT ![k] = v]
<1>1. /\ DOMAIN entry'[n] = DOMAIN entry[n] \cup {k}
      /\ \A j \in DOMAIN entry'[n] : entry'[n][j] = IF j = k THEN v ELSE entry[n][j]
      /\ \A m \in leaves \ {n} : entry'[m] = entry[m]
  <2>1. n \in DOMAIN entry
    BY NodesWithin DEF TypeInv, NodesTyped, Over
  <2>2. entry'[n] = With(entry[n], k, v) /\ \A m \in leaves \ {n} : entry'[m] = entry[m]
    BY <2>1, NodesWithin DEF TypeInv, NodesTyped, Over
  <2> QED
    BY <2>2 DEF With
<1> QED
  BY <1>1, OneWritten

LEMMA SplitLeafWrites ==
    ASSUME TypeInv, MapInv, MapInv', NEW t \in Threads, SplitLeaf(t)
    PROVE  /\ [j \in Keys |-> MapOf(j)]' = [[j \in Keys |-> MapOf(j)] EXCEPT ![Key(t)] = Value(t)]
           /\ Key(t) \in Keys /\ Value(t) \in Values /\ UNCHANGED answer
<1>1. PICK q, n, k, v : q = cur[t] /\ n = top + 1 /\ k = Key(t) /\ v = Value(t)
  OBVIOUS
<1>2. /\ pc[t] = "write" /\ Fresh(n) /\ q \in leaves /\ q \in Nodes /\ q # n /\ k \in Keys
      /\ leaves' = leaves \cup {n} /\ UNCHANGED answer
      /\ \E sep \in DOMAIN entry[q] : LeafCut(t, q, n, k, sep)
  BY <1>1, SplitLeafFacts
<1>3. PICK sep \in DOMAIN entry[q] : LeafCut(t, q, n, k, sep)
  BY <1>2
<1>4. /\ \A j : j \in DOMAIN entry'[q] <=> j \in DOMAIN entry[q] \cup {k} /\ j < sep
      /\ \A j : j \in DOMAIN entry'[n] <=> j \in DOMAIN entry[q] \cup {k} /\ sep <= j
      /\ \A j \in DOMAIN entry'[q] : entry'[q][j] = IF j = k THEN v ELSE entry[q][j]
      /\ \A j \in DOMAIN entry'[n] : entry'[n][j] = IF j = k THEN v ELSE entry[q][j]
      /\ \A m \in leaves \ {q} : m # n /\ entry'[m] = entry[m]
  BY <1>1, <1>2, <1>3, FreshNode, NodesWithin DEF LeafCut, Fresh
<1>5. k \in Int /\ sep \in Int /\ \A j \in Keys : j \in Int
  BY <1>2, KeysAssumption DEF TypeInv, NodesTyped, IsNode
<1>6. \E m \in leaves' : k \in DOMAIN entry'[m] /\ entry'[m][k] = v
  BY <1>2, <1>4, <1>5
<1>7. ASSUME NEW j \in Keys \ {k}, NEW m \in leaves, j \in DOMAIN entry[m]
      PROVE  \E x \in leaves' : j \in DOMAIN entry'[x] /\ entry'[x][j] = entry[m][j]
  <2>1. CASE m = q
    <3>1. j \in Int /\ j \in DOMAIN entry[q] /\ j # k
      BY <1>5, <1>7, <2>1
    <3>2. CASE j < sep
      <4>1. j \in DOMAIN entry'[q] /\ entry'[q][j] = entry[m][j]
        BY <1>4, <2>1, <3>1, <3>2
      <4> QED
        BY <1>2, <4>1
    <3>3. CASE ~ (j < sep)
      <4>1. j \in DOMAIN entry'[n] /\ entry'[n][j] = entry[m][j]
        BY <1>4, <1>5, <2>1, <3>1, <3>3
      <4> QED
        BY <1>2, <4>1
    <3> QED
      BY <3>2, <3>3
  <2>2. CASE m # q
    BY <1>2, <1>4, <1>7, <2>2
  <2> QED
    BY <2>1, <2>2
<1>8. ASSUME NEW j \in Keys \ {k}, NEW x \in leaves', j \in DOMAIN entry'[x]
      PROVE  \E m \in leaves : j \in DOMAIN entry[m]
  BY <1>2, <1>4, <1>8
<1>9. [j \in Keys |-> MapOf(j)]' = [[j \in Keys |-> MapOf(j)] EXCEPT ![k] = v]
  BY <1>2, <1>6, <1>7, <1>8, OneWritten
<1> QED
  BY <1>1, <1>2, <1>9, WriteAt

\* What a call sees on the leaf it may work on is what the map has.
LEMMA MapAtLeaf ==
    ASSUME TypeInv, Links, TreeInv, MapInv, NEW k \in Keys, NEW n \in Nodes, OpenLeaf(k, n)
    PROVE  /\ n \in leaves
           /\ MapOf(k) = IF Found(n, k) THEN entry[n][k] ELSE Null
           /\ MapOf(k) # Null <=> Found(n, k)
<1>1. PICK lv, at, left : Tree(lv, at, left)
  BY DEF TreeInv
<1>2. n = at[0][k] /\ n \in leaves
  BY <1>1, OpenIs DEF OpenLeaf
<1>3. CASE Found(n, k)
  <2>1. MapOf(k) = entry[n][k] /\ entry[n][k] \in Values
    BY <1>2, <1>3 DEF MapInv, Found, TypeInv, NodesTyped, IsNode
  <2> QED
    BY <1>2, <1>3, <2>1, NullAssumption
<1>4. CASE ~ Found(n, k)
  <2>1. \A m \in leaves : k \notin DOMAIN entry[m]
    BY <1>1, <1>2, <1>4 DEF Tree, Placed, Found
  <2> QED
    BY <1>2, <1>4, <2>1 DEF MapInv
<1> QED
  BY <1>3, <1>4

\* The call of a thread, by its label.
LEMMA OpenCallIs ==
    ASSUME NEW t \in Threads
    PROVE  /\ pc[t] \in {"find", "write"} => OpenCall(t) = Map!InsertCall(Key(t), Value(t))
           /\ pc[t] \in {"link", "parent", "unlock"} => OpenCall(t) = Map!Written
           /\ pc[t] = "search" => OpenCall(t) = Map!SearchCall(Key(t))
           /\ pc[t] = "remove" => OpenCall(t) = Map!RemoveCall(Key(t))
           /\ pc[t] = "idle" => OpenCall(t) = Map!Idle
           /\ pc'[t] \in {"find", "write"} =>
                 OpenCall(t)' = Map!InsertCall(arg'[t][1], arg'[t][2])
           /\ pc'[t] \in {"link", "parent", "unlock"} => OpenCall(t)' = Map!Written
           /\ pc'[t] = "search" => OpenCall(t)' = Map!SearchCall(arg'[t][1])
           /\ pc'[t] = "remove" => OpenCall(t)' = Map!RemoveCall(arg'[t][1])
           /\ pc'[t] = "idle" => OpenCall(t)' = Map!Idle
  BY DEF OpenCall, Key, Value, Map!InsertCall, Map!Written, Map!SearchCall, Map!RemoveCall, Map!Idle

OthersStay(t) == \A u \in Threads \ {t} : pc'[u] = pc[u] /\ arg'[u] = arg[u]

LEMMA OthersCalls ==
    ASSUME NEW t \in Threads, OthersStay(t), NEW u \in Threads \ {t}
    PROVE  OpenCall(u)' = OpenCall(u)
<1>1. pc'[u] = pc[u] /\ arg'[u] = arg[u]
  BY DEF OthersStay
<1> QED
  BY <1>1 DEF OpenCall, Key, Value

LEMMA CallMoves ==
    ASSUME NEW t \in Threads, OthersStay(t), NEW c, NEW d, OpenCall(t) = c, OpenCall(t)' = d
    PROVE  Map!Moves(t, c, d)
<1>1. \A u \in Threads \ {t} : OpenCall(u)' = OpenCall(u)
  BY OthersCalls
<1> HIDE DEF OpenCall
<1> QED
  BY <1>1 DEF Map!Moves

LEMMA CallStays ==
    ASSUME NEW t \in Threads, OthersStay(t), OpenCall(t)' = OpenCall(t),
           UNCHANGED <<leaves, entry, answer>>
    PROVE  UNCHANGED Map!vars
<1>1. \A u \in Threads : OpenCall(u)' = OpenCall(u)
  BY OthersCalls
<1>2. [u \in Threads |-> OpenCall(u)]' = [u \in Threads |-> OpenCall(u)]
  BY <1>1
<1>3. [j \in Keys |-> MapOf(j)]' = [j \in Keys |-> MapOf(j)]
  BY DEF MapOf, LeavesWith
<1> QED
  BY <1>2, <1>3 DEF Map!vars

LEMMA SearchImplements ==
    ASSUME TypeInv, Links, TreeInv, MapInv, NEW t \in Threads, Search(t), OthersStay(t),
           NEW k, k = Key(t)
    PROVE  k \in Asked /\ Map!Search(t, k)
<1>1. k \in Keys /\ k \in Asked /\ pc[t] = "search" /\ pc' = [pc EXCEPT ![t] = "idle"]
  BY AskedKey DEF Search, Return, Goto
<1>2. PICK n \in Nodes : /\ OpenLeaf(k, n)
                         /\ answer' = [key |-> k, ok |-> Found(n, k),
                                       value |-> IF Found(n, k) THEN entry[n][k] ELSE 0]
  BY DEF Search
<1>3. /\ MapOf(k) = IF Found(n, k) THEN entry[n][k] ELSE Null
      /\ MapOf(k) # Null <=> Found(n, k)
  BY <1>1, <1>2, MapAtLeaf
<1>4. [j \in Keys |-> MapOf(j)]' = [j \in Keys |-> MapOf(j)]
  BY DEF Search, Return, MapOf, LeavesWith
<1>5. Map!Present(k) = Found(n, k)
  BY <1>1, <1>3 DEF Map!Present, Found
<1>6. (IF Found(n, k) THEN entry[n][k] ELSE 0)
        = IF Map!Present(k) THEN [j \in Keys |-> MapOf(j)][k] ELSE 0
  BY <1>1, <1>3, <1>5
<1>7. answer' = Map!Answer(k, IF Map!Present(k) THEN [j \in Keys |-> MapOf(j)][k] ELSE 0)
  BY <1>2, <1>5, <1>6, Zenon DEF Map!Answer
<1>8. Map!Moves(t, Map!SearchCall(k), Map!Idle)
  <2>1. pc'[t] = "idle"
    BY <1>1 DEF TypeInv, LockInv
  <2>2. OpenCall(t) = Map!SearchCall(k) /\ OpenCall(t)' = Map!Idle
    BY <1>1, <2>1, OpenCallIs
  <2> QED
    BY <2>2, CallMoves
<1> QED
  BY <1>1, <1>4, <1>7, <1>8 DEF Map!Search

LEMMA RemoveImplements ==
    ASSUME TypeInv, Links, TreeInv, MapInv, MapInv', NEW t \in Threads, Remove(t), OthersStay(t),
           NEW k, k = Key(t)
    PROVE  k \in Asked /\ Map!Remove(t, k)
<1>1. k \in Keys /\ k \in Asked /\ pc[t] = "remove" /\ pc' = [pc EXCEPT ![t] = "idle"]
  BY AskedKey DEF Remove, Return, Goto
<1>2. PICK n \in Nodes :
         /\ OpenLeaf(k, n)
         /\ answer' = [key |-> k, ok |-> Found(n, k), value |-> 0]
         /\ entry' = IF Found(n, k) THEN [entry EXCEPT ![n] = With(@, k, 0)] ELSE entry
  BY DEF Remove
<1>3. n \in leaves /\ (MapOf(k) # Null <=> Found(n, k)) /\ leaves' = leaves
  BY <1>1, <1>2, MapAtLeaf DEF Remove, Return
<1>4. Map!Present(k) = Found(n, k)
  BY <1>1, <1>3 DEF Map!Present, Found
<1>5. answer' = Map!Answer(k, 0)
  BY <1>2, <1>4, Zenon DEF Map!Answer
<1>6. Map!Moves(t, Map!RemoveCall(k), Map!Idle)
  <2>1. pc'[t] = "idle"
    BY <1>1 DEF TypeInv, LockInv
  <2>2. OpenCall(t) = Map!RemoveCall(k) /\ OpenCall(t)' = Map!Idle
    BY <1>1, <2>1, OpenCallIs
  <2> QED
    BY <2>2, CallMoves
<1>7. CASE Found(n, k)
  <2>1. [j \in Keys |-> MapOf(j)]' = [[j \in Keys |-> MapOf(j)] EXCEPT ![k] = 0]
    BY <1>1, <1>2, <1>3, <1>7, LeafWritten
  <2> QED
    BY <1>1, <1>4, <1>7, <1>5, <1>6, <2>1 DEF Map!Remove
<1>8. CASE ~ Found(n, k)
  <2>1. [j \in Keys |-> MapOf(j)]' = [j \in Keys |-> MapOf(j)]
    BY <1>2, <1>3, <1>8 DEF MapOf, LeavesWith
  <2> QED
    BY <1>1, <1>4, <1>8, <1>5, <1>6, <2>1 DEF Map!Remove
<1> QED
  BY <1>7, <1>8

\* A step of an insert by the label it leads to.
LEMMA InsertMoves ==
    ASSUME TypeInv, NEW t \in Threads, InsertStep(t)
    PROVE  /\ OthersStay(t)
           /\ FindAndLock(t) => pc[t] = "find" /\ pc'[t] = "write" /\ arg'[t] = arg[t]
           /\ WriteLeaf(t) => pc[t] = "write" /\ pc'[t] = "unlock"
           /\ SplitLeaf(t) => pc[t] = "write" /\ pc'[t] = "link"
           /\ EnterParent(t) \/ GrowRoot(t) \/ InsertChild(t) \/ SplitInner(t) =>
                 pc[t] \in {"link", "parent"} /\ pc'[t] \in {"parent", "unlock"}
           /\ Unlock(t) => pc[t] = "unlock" /\ pc'[t] = "idle"
<1>1. pc \in [Threads -> Labels] /\ arg \in [Threads -> Args \cup {Null}]
  BY DEF TypeInv, LockInv, Calls
<1>2. CASE FindAndLock(t)
  <2>1. pc[t] = "find" /\ pc' = [pc EXCEPT ![t] = "write"] /\ arg' = arg
    BY <1>2 DEF FindAndLock, Goto
  <2> QED
    BY <1>1, <2>1 DEF OthersStay, WriteLeaf, SplitLeaf, EnterParent, GrowRoot, InsertChild, SplitInner, Unlock
<1>3. CASE WriteLeaf(t)
  <2>1. pc[t] = "write" /\ pc' = [pc EXCEPT ![t] = "unlock"] /\ arg' = arg /\ ~SplitLeaf(t)
    BY <1>3 DEF WriteLeaf, Goto, SplitLeaf
  <2> QED
    BY <1>1, <2>1 DEF OthersStay, FindAndLock, EnterParent, GrowRoot, InsertChild, SplitInner, Unlock
<1>4. CASE SplitLeaf(t)
  <2>1. pc[t] = "write" /\ pc' = [pc EXCEPT ![t] = "link"] /\ arg' = arg /\ ~WriteLeaf(t)
    BY <1>4 DEF WriteLeaf, Goto, SplitLeaf
  <2> QED
    BY <1>1, <2>1 DEF OthersStay, FindAndLock, EnterParent, GrowRoot, InsertChild, SplitInner, Unlock
<1>5. CASE EnterParent(t)
  <2>1. pc[t] = "link" /\ pc' = [pc EXCEPT ![t] = "parent"] /\ arg' = arg
    BY <1>5 DEF EnterParent, Goto
  <2> QED
    BY <1>1, <2>1 DEF OthersStay, FindAndLock, WriteLeaf, SplitLeaf, Unlock
<1>6. CASE GrowRoot(t) \/ InsertChild(t)
  <2>1. pc[t] = "parent" /\ pc' = [pc EXCEPT ![t] = "unlock"] /\ arg' = arg
    BY <1>6 DEF GrowRoot, InsertChild, LeaveParent, Goto
  <2> QED
    BY <1>1, <2>1 DEF OthersStay, FindAndLock, WriteLeaf, SplitLeaf, Unlock
<1>7. CASE SplitInner(t)
  <2>1. pc[t] = "parent" /\ pc' = pc /\ arg' = arg
    BY <1>7 DEF SplitInner
  <2> QED
    BY <1>1, <2>1 DEF OthersStay, FindAndLock, WriteLeaf, SplitLeaf, Unlock
<1>8. CASE Unlock(t)
  <2>1. pc[t] = "unlock" /\ pc' = [pc EXCEPT ![t] = "idle"] /\ arg' = [arg EXCEPT ![t] = Null]
    BY <1>8 DEF Unlock, Goto
  <2> QED
    BY <1>1, <2>1 DEF OthersStay, FindAndLock, WriteLeaf, SplitLeaf, EnterParent, GrowRoot, InsertChild, SplitInner
<1> QED
  BY <1>2, <1>3, <1>4, <1>5, <1>6, <1>7, <1>8 DEF InsertStep

LEMMA InsertImplements ==
    ASSUME TypeInv, MapInv, MapInv', NEW t \in Threads, InsertStep(t)
    PROVE  [Map!Next]_(Map!vars)
<1>1. OthersStay(t)
  BY InsertMoves
<1>2. ASSUME [j \in Keys |-> MapOf(j)]' = [[j \in Keys |-> MapOf(j)] EXCEPT ![Key(t)] = Value(t)],
             Key(t) \in Keys, Value(t) \in Values, UNCHANGED answer,
             pc[t] = "write", pc'[t] \in {"link", "unlock"}
      PROVE  Map!Next
  <2>1. OpenCall(t) = Map!InsertCall(Key(t), Value(t)) /\ OpenCall(t)' = Map!Written
    BY <1>2, OpenCallIs
  <2>2. Map!Moves(t, Map!InsertCall(Key(t), Value(t)), Map!Written)
    BY <1>1, <2>1, CallMoves
  <2>3. Map!Insert(t, Key(t), Value(t))
    BY <1>2, <2>2 DEF Map!Insert
  <2> QED
    BY <1>2, <2>3 DEF Map!Next
<1>3. CASE SplitLeaf(t)
  BY <1>2, <1>3, SplitLeafWrites, InsertMoves
<1>4. CASE WriteLeaf(t)
  <2>1. /\ pc[t] = "write" /\ entry' = [entry EXCEPT ![cur[t]] = With(@, Key(t), Value(t))]
        /\ leaves' = leaves /\ UNCHANGED answer
    BY <1>4 DEF WriteLeaf
  <2>2. cur[t] \in leaves /\ Key(t) \in Keys /\ Value(t) \in Values
    BY <2>1, WriteAt
  <2>3. [j \in Keys |-> MapOf(j)]' = [[j \in Keys |-> MapOf(j)] EXCEPT ![Key(t)] = Value(t)]
    BY <2>1, <2>2, LeafWritten
  <2>4. pc'[t] = "unlock"
    BY <1>4, InsertMoves
  <2> QED
    BY <1>2, <2>1, <2>2, <2>3, <2>4
<1>5. CASE FindAndLock(t)
  <2>1. UNCHANGED <<leaves, entry, answer>>
    BY <1>5 DEF FindAndLock
  <2>2. pc[t] = "find" /\ pc'[t] = "write" /\ arg'[t] = arg[t]
    BY <1>5, InsertMoves
  <2>3. OpenCall(t)' = OpenCall(t)
    BY <2>2, OpenCallIs DEF Key, Value
  <2> QED
    BY <1>1, <2>1, <2>3, CallStays
<1>6. CASE EnterParent(t) \/ GrowRoot(t) \/ InsertChild(t) \/ SplitInner(t)
  <2>1. UNCHANGED <<leaves, entry, answer>>
    BY <1>6 DEF EnterParent, GrowRoot, InsertChild, SplitInner, LeaveParent, node_vars
  <2>2. pc[t] \in {"link", "parent"} /\ pc'[t] \in {"parent", "unlock"}
    BY <1>6, InsertMoves
  <2>3. OpenCall(t)' = OpenCall(t)
    BY <2>2, OpenCallIs
  <2> QED
    BY <1>1, <2>1, <2>3, CallStays
<1>7. CASE Unlock(t)
  <2>1. UNCHANGED <<leaves, entry, answer>>
    BY <1>7 DEF Unlock
  <2>2. OpenCall(t) = Map!Written /\ OpenCall(t)' = Map!Idle
    BY <1>7, InsertMoves, OpenCallIs
  <2>3. Map!Moves(t, Map!Written, Map!Idle)
    BY <1>1, <2>2, CallMoves
  <2>4. [j \in Keys |-> MapOf(j)]' = [j \in Keys |-> MapOf(j)]
    BY <2>1 DEF MapOf, LeavesWith
  <2>5. Map!InsertReturn(t)
    BY <2>1, <2>3, <2>4 DEF Map!InsertReturn
  <2> QED
    BY <2>5 DEF Map!Next
<1> QED
  BY <1>3, <1>4, <1>5, <1>6, <1>7 DEF InsertStep

\* A call of the tree is that call of the map.
LEMMA InvokeImplements ==
    ASSUME TypeInv, NEW t \in Threads, OthersStay(t),
           \/ \E e \in Entries : InsertInvoke(t, e)
           \/ \E k \in Asked : SearchInvoke(t, k) \/ RemoveInvoke(t, k)
    PROVE  Map!Next
<1>1. /\ pc[t] = "idle" /\ UNCHANGED <<leaves, entry, answer>>
  BY DEF InsertInvoke, SearchInvoke, RemoveInvoke, Invoke, node_vars
<1>2. /\ OpenCall(t) = Map!Idle
      /\ [j \in Keys |-> MapOf(j)]' = [j \in Keys |-> MapOf(j)]
  BY <1>1, OpenCallIs DEF MapOf, LeavesWith
<1>3. ASSUME NEW e \in Entries, InsertInvoke(t, e) PROVE Map!Next
  <2>1. pc'[t] = "find" /\ arg'[t] = e
    BY <1>3 DEF InsertInvoke, Goto, TypeInv, LockInv, Calls
  <2>2. e[1] \in Keys /\ e[2] \in Values
    BY KeysAssumption
  <2>3. Map!Moves(t, Map!Idle, Map!InsertCall(e[1], e[2]))
    BY <1>2, <2>1, OpenCallIs, CallMoves
  <2>4. Map!InsertInvoke(t, e[1], e[2])
    BY <1>1, <1>2, <2>3 DEF Map!InsertInvoke
  <2> QED
    BY <2>2, <2>4 DEF Map!Next
<1>4. ASSUME NEW k \in Asked, SearchInvoke(t, k) PROVE Map!Next
  <2>1. pc'[t] = "search" /\ arg'[t] = <<k>>
    BY <1>4 DEF SearchInvoke, Invoke, Goto, TypeInv, LockInv, Calls
  <2>2. Map!Moves(t, Map!Idle, Map!SearchCall(k))
    BY <1>2, <2>1, OpenCallIs, CallMoves
  <2>3. Map!SearchInvoke(t, k)
    BY <1>1, <1>2, <2>2 DEF Map!SearchInvoke
  <2> QED
    BY <2>3 DEF Map!Next
<1>5. ASSUME NEW k \in Asked, RemoveInvoke(t, k) PROVE Map!Next
  <2>1. pc'[t] = "remove" /\ arg'[t] = <<k>>
    BY <1>5 DEF RemoveInvoke, Invoke, Goto, TypeInv, LockInv, Calls
  <2>2. Map!Moves(t, Map!Idle, Map!RemoveCall(k))
    BY <1>2, <2>1, OpenCallIs, CallMoves
  <2>3. Map!RemoveInvoke(t, k)
    BY <1>1, <1>2, <2>2 DEF Map!RemoveInvoke
  <2> QED
    BY <2>3 DEF Map!Next
<1> QED
  BY <1>3, <1>4, <1>5

LEMMA StepImplementsMap ==
    TypeInv /\ Links /\ TreeInv /\ MapInv /\ MapInv' /\ [Next]_vars => [Map!Next]_(Map!vars)
<1> SUFFICES ASSUME TypeInv, Links, TreeInv, MapInv, MapInv', [Next]_vars
             PROVE  [Map!Next]_(Map!vars)
  OBVIOUS
<1>1. ASSUME NEW t \in Threads, InsertStep(t) PROVE [Map!Next]_(Map!vars)
  BY <1>1, InsertImplements
<1>2. ASSUME NEW t \in Threads, OutsideStep(t) PROVE [Map!Next]_(Map!vars)
  <2>1. OthersStay(t)
    BY <1>2, OutsideCalls DEF OthersStay
  <2>2. CASE MeetLock(t) \/ Retry(t)
    <3>1. UNCHANGED <<leaves, entry, answer, pc, arg>>
      BY <2>2 DEF MeetLock, Retry, node_vars, thread_vars
    <3>2. OpenCall(t)' = OpenCall(t)
      BY <3>1 DEF OpenCall, Key, Value
    <3> QED
      BY <2>1, <3>1, <3>2, CallStays
  <2>3. CASE Search(t)
    <3>1. PICK k : k = Key(t)
      OBVIOUS
    <3>2. k \in Asked /\ Map!Search(t, k)
      BY <2>1, <2>3, <3>1, SearchImplements
    <3> QED
      BY <3>2 DEF Map!Next
  <2>4. CASE Remove(t)
    <3>1. PICK k : k = Key(t)
      OBVIOUS
    <3>2. k \in Asked /\ Map!Remove(t, k)
      BY <2>1, <2>4, <3>1, RemoveImplements
    <3> QED
      BY <3>2 DEF Map!Next
  <2> QED
    BY <1>2, <2>1, <2>2, <2>3, <2>4, InvokeImplements DEF OutsideStep
<1>3. CASE UNCHANGED vars
  <2>1. UNCHANGED <<leaves, entry, answer, pc, arg>>
    BY <1>3 DEF vars, node_vars, thread_vars
  <2>2. [u \in Threads |-> OpenCall(u)]' = [u \in Threads |-> OpenCall(u)]
    BY <2>1 DEF OpenCall, Key, Value
  <2>3. [j \in Keys |-> MapOf(j)]' = [j \in Keys |-> MapOf(j)]
    BY <2>1 DEF MapOf, LeavesWith
  <2> QED
    BY <2>1, <2>2, <2>3 DEF Map!vars
<1> QED
  BY <1>1, <1>2, <1>3, NextIs

(***************************************************************************)
(* Insert, Search and Remove (bptree-template.hpp:389-402) are atomic, for *)
(* any number of threads, any tree and any sizes of its nodes: between its *)
(* call and its return an insert writes the value it was given at the key  *)
(* it was given, once, in the step that writes its leaf; and a search      *)
(* comes to the one leaf its key belongs to, which has the last value      *)
(* written for that key, whichever splits are between their critical       *)
(* sections.                                                               *)
(***************************************************************************)
THEOREM AtomicMapHolds == Spec => AtomicMap
<1>1. Init => Map!Init
  <2>1. Init => \A k \in Keys : LeavesWith(k) = {}
    BY InitTypeInv DEF Init, LeavesWith, NoEntries, TypeInv, NodesTyped
  <2>2. Init => \A t \in Threads : OpenCall(t) = Map!Idle
    BY OpenCallIs DEF Init
  <2> QED
    BY <2>1, <2>2 DEF Map!Init, Init, MapOf
<1> QED
  BY <1>1, InitTypeInv, InitLinks, InitTree, NextTypeInv, NextLinks, NextTree, TreeMap,
     StepImplementsMap, PTL DEF Spec, AtomicMap, Map!Spec

-----------------------------------------------------------------------------
(* The entries of a tree at rest, in order *)

\* What holds of a number, and with any number also of the next, holds up to b.
LEMMA Upward ==
    ASSUME NEW S, NEW a \in Nat, NEW b \in Nat, a \in S,
           \A k \in a .. b - 1 : k \in S => k + 1 \in S
    PROVE  a .. b \subseteq S
<1> DEFINE Bad == {k \in a .. b : k \notin S}
<1>1. SUFFICES ASSUME Bad # {} PROVE FALSE
  OBVIOUS
<1>2. Bad \in SUBSET Nat
  OBVIOUS
<1>3. PICK x \in Bad : \A y \in Bad : x <= y
  <2> HIDE DEF Bad
  <2> QED
    BY <1>1, <1>2, LeastNat
<1>4. x \in Nat /\ x \in a .. b /\ x \notin S
  OBVIOUS
<1>5. x - 1 \in Nat /\ x - 1 \in a .. b - 1 /\ (x - 1) + 1 = x /\ ~ (x <= x - 1)
  BY <1>4
<1>6. x - 1 \in S
  <2>1. x - 1 \notin Bad
    BY <1>3, <1>5
  <2> QED
    BY <1>5, <2>1
<1> QED
  BY <1>4, <1>5, <1>6

\* How many elements of S are below k.
Below(S, k) == Cardinality({j \in S : j < k})

LEMMA BelowIs ==
    ASSUME NEW S \in SUBSET Int, IsFiniteSet(S)
    PROVE  /\ Cardinality(S) \in Nat
           /\ \A k : Below(S, k) \in Nat /\ Below(S, k) <= Cardinality(S)
           /\ \A k \in S : Below(S, k) < Cardinality(S)
           /\ \A j, k \in S : j < k => Below(S, j) < Below(S, k)
<1>1. Cardinality(S) \in Nat
  BY FS_CardinalityType
<1>2. ASSUME NEW k
      PROVE  /\ IsFiniteSet({j \in S : j < k})
             /\ Below(S, k) \in Nat /\ Below(S, k) <= Cardinality(S)
  BY FS_Subset, FS_CardinalityType DEF Below
<1>3. ASSUME NEW k \in S PROVE Below(S, k) < Cardinality(S)
  <2>1. k \notin {j \in S : j < k}
    BY <1>3
  <2>2. {j \in S : j < k} \in SUBSET S
    OBVIOUS
  <2>3. Below(S, k) # Cardinality(S)
    BY <2>1, <2>2, FS_Subset DEF Below
  <2>4. Below(S, k) \in Nat /\ Below(S, k) <= Cardinality(S)
    BY <1>2
  <2> QED
    BY <1>1, <2>3, <2>4
<1>4. ASSUME NEW j \in S, NEW k \in S, j < k PROVE Below(S, j) < Below(S, k)
  <2>1. /\ {i \in S : i < j} \cup {j} \in SUBSET {i \in S : i < k}
        /\ j \notin {i \in S : i < j}
    <3>1. \A i \in S : i < j => i < k
      BY <1>4
    <3>2. j \in Int /\ ~ (j < j)
      OBVIOUS
    <3>3. j \notin {i \in S : i < j} /\ j \in {i \in S : i < k}
      BY <1>4, <3>2
    <3>4. {i \in S : i < j} \subseteq {i \in S : i < k}
      BY <3>1
    <3> QED
      BY <3>3, <3>4
  <2>2. Cardinality({i \in S : i < j} \cup {j}) = Below(S, j) + 1
    BY <1>2, <2>1, FS_AddElement DEF Below
  <2>3. Below(S, j) + 1 <= Below(S, k)
    BY <1>2, <2>1, <2>2, FS_Subset DEF Below
  <2> QED
    <3>1. Below(S, j) \in Nat /\ Below(S, k) \in Nat
      BY <1>2
    <3> QED
      BY <2>3, <3>1
<1> QED
  BY <1>1, <1>2, <1>3, <1>4

\* Ascending lists the elements of a set in order: the one with i - 1 below it is at i.
LEMMA AscendingIs ==
    ASSUME NEW S \in SUBSET Int, IsFiniteSet(S)
    PROVE  /\ Ascending(S) \in [1 .. Cardinality(S) -> S]
           /\ \A i \in 1 .. Cardinality(S) : Below(S, Ascending(S)[i]) = i - 1
           /\ \A k \in S : /\ Below(S, k) + 1 \in 1 .. Cardinality(S)
                           /\ Ascending(S)[Below(S, k) + 1] = k
<1>1. PICK c \in Nat : c = Cardinality(S)
  BY FS_CardinalityType
<1>2. \A k \in S : Below(S, k) \in Nat /\ Below(S, k) < c
  BY <1>1, BelowIs
<1>3. \A j, k \in S : Below(S, j) = Below(S, k) => j = k
  <2>1. \A j, k \in S : j \in Int /\ k \in Int
    OBVIOUS
  <2>2. \A j, k \in S : j < k => Below(S, j) < Below(S, k)
    BY BelowIs
  <2> QED
    BY <1>2, <2>1, <2>2
<1>4. \A i \in 1 .. c : \E k \in S : Below(S, k) = i - 1
  <2>1. PICK f : f = [k \in S |-> Below(S, k)]
    OBVIOUS
  <2>2. f \in [S -> 0 .. c - 1]
    BY <1>2, <2>1
  <2>3. f \in Injection(S, 0 .. c - 1)
    BY <1>3, <2>1, <2>2 DEF Injection, IsInjective
  <2>4. IsFiniteSet(0 .. c - 1) /\ Cardinality(0 .. c - 1) = c
    <3>1. 0 \in Int /\ c - 1 \in Int
      OBVIOUS
    <3>2. /\ IsFiniteSet(0 .. c - 1)
          /\ Cardinality(0 .. c - 1) = IF 0 > c - 1 THEN 0 ELSE (c - 1) - 0 + 1
      BY <3>1, FS_Interval
    <3> QED
      BY <3>2
  <2>5. f \in Surjection(S, 0 .. c - 1)
    BY <1>1, <2>3, <2>4, FS_Injection
  <2>6. \A i \in 0 .. c - 1 : \E k \in S : f[k] = i
    BY <2>5 DEF Surjection
  <2>7. \A i \in 1 .. c : i - 1 \in 0 .. c - 1
    OBVIOUS
  <2> QED
    BY <2>1, <2>6, <2>7
<1>5. Ascending(S) = [i \in 1 .. c |-> CHOOSE k \in S : Below(S, k) = i - 1]
  BY <1>1 DEF Ascending, Below
<1>6. \A i \in 1 .. c : /\ Ascending(S)[i] \in S
                        /\ Below(S, Ascending(S)[i]) = i - 1
  BY <1>4, <1>5
<1>7. Ascending(S) \in [1 .. c -> S]
  BY <1>5, <1>6
<1>8. ASSUME NEW k \in S
      PROVE  /\ Below(S, k) + 1 \in 1 .. c
             /\ Ascending(S)[Below(S, k) + 1] = k
  <2>1. PICK b \in Nat : b = Below(S, k) /\ b < c
    BY <1>2
  <2>2. b + 1 \in 1 .. c /\ (b + 1) - 1 = b
    BY <2>1
  <2>3. /\ Ascending(S)[b + 1] \in S
        /\ Below(S, Ascending(S)[b + 1]) = b
    BY <1>6, <2>2
  <2> QED
    BY <1>3, <2>1, <2>2, <2>3
<1> QED
  BY <1>1, <1>6, <1>7, <1>8

(***************************************************************************)
(* The chain as a list: list[0] is header_, list[L] the last leaf.         *)
(***************************************************************************)
Listing(list, L) ==
    /\ L \in Nat /\ L < MaxNode /\ list \in [0 .. L -> leaves]
    /\ list[0] = Header /\ next[list[L]] = Null
    /\ \A i \in 0 .. L : i < L => i + 1 \in 0 .. L /\ next[list[i]] = list[i + 1]
    /\ \A i \in 0 .. L : i # 0 => DOMAIN entry[list[i]] # {}
    /\ \A n \in leaves : \E i \in 0 .. L : list[i] = n
    /\ \A i, j \in 0 .. L : list[i] = list[j] => i = j
    /\ \A i, j \in 0 .. L : i < j =>
          \A x \in DOMAIN entry[list[i]], y \in DOMAIN entry[list[j]] : x < y

LEMMA LeafList ==
    ASSUME TypeInv, Reached, ChainSorted
    PROVE  \E list, L : Listing(list, L)
<1> DEFINE K(n) == DOMAIN entry[n]
           Z == leaves \cup {Null}
<1>1. /\ Header \in leaves /\ leaves \subseteq Nodes /\ Null \notin Nodes /\ Null \notin leaves
      /\ \A n \in leaves : next[n] \in Z /\ K(n) \subseteq Int
      /\ MaxNode \in Nat /\ MaxNode # 0
  BY NodesWithin, SlotsAssumption, NullAssumption, KeysAssumption DEF TypeInv, NodesTyped, IsNode
<1>2. \A n \in leaves : next[n] # Null =>
         /\ next[n] \in leaves /\ K(next[n]) # {}
         /\ \A x \in K(n), y \in K(next[n]) : x < y
  BY <1>1 DEF ChainSorted
<1>3. PICK d : d = [n \in Z |-> IF n = Null THEN Null ELSE next[n]]
  OBVIOUS
<1>4. d \in [Z -> Z]
  BY <1>1, <1>3
<1>5. PICK f \in [0 .. MaxNode -> Z] : Repeats(f, MaxNode, Header, d)
  BY <1>1, <1>4, Repetition
<1>6. /\ f[0] = Header
      /\ \A i \in 0 .. MaxNode : i # 0 => i - 1 \in 0 .. MaxNode /\ f[i] = d[f[i - 1]]
  BY <1>1, <1>5 DEF Repeats
<1>7. ASSUME NEW i \in 0 .. MaxNode, i # 0, f[i] # Null
      PROVE  /\ i - 1 \in 0 .. MaxNode /\ f[i - 1] \in leaves /\ f[i] = next[f[i - 1]]
             /\ f[i] \in leaves /\ K(f[i]) # {}
             /\ \A x \in K(f[i - 1]), y \in K(f[i]) : x < y
  BY <1>1, <1>2, <1>3, <1>5, <1>6, <1>7
<1> DEFINE Sorted(j) == f[j] # Null => \A i \in 0 .. j : i < j =>
                            f[i] \in leaves /\ \A x \in K(f[i]), y \in K(f[j]) : x < y
<1>8. \A j \in 0 .. MaxNode : Sorted(j)
  <2> DEFINE S == {j \in 0 .. MaxNode : Sorted(j)}
  <2>1. 0 \in S
    BY <1>1
  <2>2. ASSUME NEW j \in 0 .. MaxNode - 1, j \in S PROVE j + 1 \in S
    <3>1. j + 1 \in 0 .. MaxNode /\ j + 1 # 0 /\ (j + 1) - 1 = j /\ j \in 0 .. MaxNode
      BY <1>1
    <3>2. ASSUME f[j + 1] # Null, NEW i \in 0 .. j + 1, i < j + 1
          PROVE  f[i] \in leaves /\ \A x \in K(f[i]), y \in K(f[j + 1]) : x < y
      <4>1. /\ f[j] \in leaves /\ \A x \in K(f[j]), y \in K(f[j + 1]) : x < y
            /\ f[j + 1] \in leaves
        <5>1. PICK m \in 0 .. MaxNode : m = j + 1 /\ m # 0 /\ m - 1 = j
          BY <3>1
        <5> QED
          BY <1>7, <3>2, <5>1
      <4>2. CASE i = j
        BY <4>1, <4>2
      <4>3. CASE i # j
        <5>1. i < j /\ i \in 0 .. j /\ j # 0 /\ f[j] # Null
          BY <1>1, <3>2, <4>1, <4>3
        <5>2. f[i] \in leaves /\ \A x \in K(f[i]), y \in K(f[j]) : x < y
          BY <2>2, <5>1
        <5>3. PICK z \in K(f[j]) : TRUE
          BY <1>7, <3>1, <5>1
        <5>4. ASSUME NEW x \in K(f[i]), NEW y \in K(f[j + 1]) PROVE x < y
          <6>1. x \in Int /\ y \in Int /\ z \in Int
            BY <1>1, <4>1, <5>2
          <6>2. x < z /\ z < y
            BY <4>1, <5>2
          <6> QED
            BY <6>1, <6>2
        <5> QED
          BY <5>2, <5>4
      <4> QED
        BY <4>2, <4>3
    <3>3. Sorted(j + 1)
      BY <3>2
    <3> HIDE DEF Sorted
    <3> QED
      BY <3>1, <3>3
  <2>3. 0 .. MaxNode \subseteq S
    <3> HIDE DEF S
    <3> QED
      BY <1>1, <2>1, <2>2, Upward
  <2> HIDE DEF Sorted
  <2> QED
    BY <2>3
<1>9. \A i, j \in 0 .. MaxNode : i < j /\ f[j] # Null =>
         /\ f[i] \in leaves /\ f[i] # f[j]
         /\ \A x \in K(f[i]), y \in K(f[j]) : x < y
  <2> SUFFICES ASSUME NEW i \in 0 .. MaxNode, NEW j \in 0 .. MaxNode, i < j, f[j] # Null
               PROVE  /\ f[i] \in leaves /\ f[i] # f[j]
                      /\ \A x \in K(f[i]), y \in K(f[j]) : x < y
    OBVIOUS
  <2>1. i \in 0 .. j /\ j # 0
    OBVIOUS
  <2>2. f[i] \in leaves /\ \A x \in K(f[i]), y \in K(f[j]) : x < y
    BY <1>8, <2>1
  <2>3. PICK y \in K(f[j]) : y \in Int
    BY <1>1, <1>7, <2>1
  <2>4. ~ (y < y)
    BY <2>3
  <2> QED
    BY <2>2, <2>3, <2>4
<1>10. PICK e \in 0 .. MaxNode : f[e] = Null
  <2>1. SUFFICES ASSUME \A i \in 0 .. MaxNode : f[i] # Null PROVE FALSE
    OBVIOUS
  <2>2. f \in [0 .. MaxNode -> Nodes]
    BY <1>1, <1>5, <2>1
  <2>3. /\ IsFiniteSet(0 .. MaxNode) /\ IsFiniteSet(Nodes)
        /\ Cardinality(Nodes) < Cardinality(0 .. MaxNode)
    <3>1. 0 \in Int /\ 1 \in Int /\ MaxNode \in Int
      BY <1>1
    <3>2. /\ IsFiniteSet(0 .. MaxNode)
          /\ Cardinality(0 .. MaxNode) = IF 0 > MaxNode THEN 0 ELSE MaxNode - 0 + 1
      BY <3>1, FS_Interval
    <3>3. /\ IsFiniteSet(1 .. MaxNode)
          /\ Cardinality(1 .. MaxNode) = IF 1 > MaxNode THEN 0 ELSE MaxNode - 1 + 1
      BY <3>1, FS_Interval
    <3> QED
      BY <1>1, <3>2, <3>3 DEF Nodes
  <2>4. PICK x, y \in 0 .. MaxNode : x # y /\ f[x] = f[y]
    BY <2>2, <2>3, FS_PigeonHole
  <2>5. x < y \/ y < x
    BY <2>4
  <2> QED
    BY <1>9, <2>1, <2>4, <2>5
<1> DEFINE Ends == {i \in 0 .. MaxNode : f[i] = Null}
<1>11. PICK E \in Ends : \A i \in Ends : E <= i
  <2>1. Ends \in SUBSET Nat /\ Ends # {}
    BY <1>10
  <2> HIDE DEF Ends
  <2> QED
    BY <2>1, LeastNat
<1>12. PICK L \in Nat : /\ L + 1 = E /\ L < MaxNode /\ E \in 0 .. MaxNode /\ f[E] = Null
                        /\ \A i \in 0 .. L : i \in 0 .. MaxNode /\ f[i] # Null
  <2>1. E \in 0 .. MaxNode /\ f[E] = Null /\ E # 0
    BY <1>1, <1>6
  <2>2. E - 1 \in Nat /\ (E - 1) + 1 = E /\ E - 1 < MaxNode
    BY <1>1, <2>1
  <2>3. \A i \in 0 .. E - 1 : i \in 0 .. MaxNode /\ ~ (E <= i)
    BY <1>1, <2>1
  <2>4. \A i \in 0 .. E - 1 : f[i] # Null
    BY <1>11, <2>3
  <2> QED
    BY <2>1, <2>2, <2>3, <2>4
<1>13. PICK list : list = [i \in 0 .. L |-> f[i]]
  OBVIOUS
<1>14. /\ list \in [0 .. L -> leaves] /\ 0 \in 0 .. L /\ L \in 0 .. L
       /\ \A i \in 0 .. L : list[i] = f[i] /\ i \in 0 .. MaxNode
  BY <1>5, <1>12, <1>13
<1>15. \A i \in 0 .. L : i < L => i + 1 \in 0 .. L /\ next[list[i]] = list[i + 1]
  <2> SUFFICES ASSUME NEW i \in 0 .. L, i < L
               PROVE  i + 1 \in 0 .. L /\ next[list[i]] = list[i + 1]
    OBVIOUS
  <2>1. PICK m \in 0 .. L : m = i + 1 /\ m # 0 /\ m - 1 = i
    BY <1>12
  <2>2. f[m] = next[f[i]]
    BY <1>7, <1>12, <1>14, <2>1
  <2> QED
    BY <1>14, <2>1, <2>2
<1>16. next[list[L]] = Null
  <2>1. f[E] = d[f[L]] /\ f[L] \in leaves
    BY <1>6, <1>12, <1>14
  <2> QED
    BY <1>1, <1>3, <1>12, <1>14, <2>1
<1>17. \A n \in leaves : \E i \in 0 .. L : list[i] = n
  <2>1. PICK S : S = {list[i] : i \in 0 .. L}
    OBVIOUS
  <2>2. S \in SUBSET Nodes /\ Header \in S
    BY <1>1, <1>6, <1>14, <2>1
  <2>3. FollowsNext(S)
    <3>1. ASSUME NEW i \in 0 .. L, next[list[i]] # Null PROVE next[list[i]] \in S
      <4>1. i # L /\ i < L
        BY <1>12, <1>16, <3>1
      <4> QED
        BY <1>15, <2>1, <4>1
    <3> QED
      BY <2>1, <3>1 DEF FollowsNext
  <2>4. leaves \subseteq S
    BY <2>2, <2>3 DEF Reached
  <2> QED
    BY <2>1, <2>4
<1>18. \A i, j \in 0 .. L : list[i] = list[j] => i = j
  <2> SUFFICES ASSUME NEW i \in 0 .. L, NEW j \in 0 .. L, i # j PROVE list[i] # list[j]
    OBVIOUS
  <2>1. i < j \/ j < i
    OBVIOUS
  <2> QED
    BY <1>9, <1>12, <1>14, <2>1
<1>19. \A i, j \in 0 .. L : i < j =>
          \A x \in DOMAIN entry[list[i]], y \in DOMAIN entry[list[j]] : x < y
  BY <1>9, <1>12, <1>14
<1>20. \A i \in 0 .. L : i # 0 => DOMAIN entry[list[i]] # {}
  BY <1>7, <1>12, <1>14
<1> QED
  BY <1>6, <1>12, <1>14, <1>15, <1>16, <1>17, <1>18, <1>19, <1>20 DEF Listing

\* The keys of the leaves before the i-th.
Earlier(list, L, i) == {k \in Held : \E m \in 0 .. L : m < i /\ k \in DOMAIN entry[list[m]]}
Offset(list, L, i) == Cardinality(Earlier(list, L, i))

LEMMA HeldIs ==
    ASSUME TypeInv, NEW list, NEW L, Listing(list, L)
    PROVE  /\ IsFiniteSet(Held) /\ Held \in SUBSET Int /\ Held \subseteq Keys
           /\ \A n \in leaves : DOMAIN entry[n] \subseteq Held /\ IsFiniteSet(DOMAIN entry[n])
           /\ \A k \in Held : \E i \in 0 .. L : k \in DOMAIN entry[list[i]]
           /\ \A n \in leaves : \A k \in DOMAIN entry[n] : LeafOf(k) = n /\ ValueOf(k) = entry[n][k]
<1>1. /\ leaves \subseteq Nodes
      /\ \A n \in Nodes : IsFiniteSet(DOMAIN entry[n]) /\ DOMAIN entry[n] \subseteq Keys
  BY NodesWithin DEF TypeInv, NodesTyped, IsNode
<1>2. IsFiniteSet(leaves)
  <2>1. 1 \in Int /\ MaxNode \in Int
    BY SlotsAssumption
  <2>2. IsFiniteSet(Nodes)
    BY <2>1, FS_Interval DEF Nodes
  <2> QED
    BY <1>1, <2>2, FS_Subset
<1>3. IsFiniteSet(Held)
  <2> DEFINE D == {DOMAIN entry[n] : n \in leaves}
  <2>1. IsFiniteSet(D)
    <3>1. PICK f : f = [n \in leaves |-> DOMAIN entry[n]]
      OBVIOUS
    <3>2. f \in Surjection(leaves, D)
      BY <3>1 DEF Surjection
    <3> HIDE DEF D
    <3> QED
      BY <1>2, <3>2, FS_Surjection
  <2>2. \A T \in D : IsFiniteSet(T)
    BY <1>1
  <2> HIDE DEF D
  <2>3. IsFiniteSet(UNION D)
    BY <2>1, <2>2, FS_UNION
  <2> QED
    BY <2>3 DEF Held, D
<1>4. \A n \in leaves : DOMAIN entry[n] \subseteq Held /\ IsFiniteSet(DOMAIN entry[n])
  BY <1>1 DEF Held
<1>5. Held \subseteq Keys /\ Held \in SUBSET Int
  BY <1>1, KeysAssumption DEF Held
<1>6. \A k \in Held : \E i \in 0 .. L : k \in DOMAIN entry[list[i]]
  BY DEF Held, Listing
<1>7. ASSUME NEW n \in leaves, NEW k \in DOMAIN entry[n]
      PROVE  LeafOf(k) = n /\ ValueOf(k) = entry[n][k]
  <2>1. ASSUME NEW m \in leaves, k \in DOMAIN entry[m] PROVE m = n
    <3>1. PICK i, j \in 0 .. L : list[i] = n /\ list[j] = m
      BY DEF Listing
    <3>2. k \in Int /\ ~ (k < k)
      <4>1. k \in Int
        BY <1>1, KeysAssumption
      <4> QED
        BY <4>1
    <3>3. ~ (i < j) /\ ~ (j < i)
      BY <1>7, <2>1, <3>1, <3>2 DEF Listing
    <3>4. i = j
      BY <3>3
    <3> QED
      BY <3>1, <3>4
  <2>2. LeafOf(k) = n
    BY <1>7, <2>1 DEF LeafOf
  <2> QED
    BY <2>2 DEF ValueOf
<1> QED
  BY <1>3, <1>4, <1>5, <1>6, <1>7

LEMMA OffsetIs ==
    ASSUME TypeInv, NEW list, NEW L, Listing(list, L)
    PROVE  /\ Offset(list, L, 0) = 0 /\ Offset(list, L, L + 1) = Cardinality(Held)
           /\ \A i \in 0 .. L :
                /\ Offset(list, L, i) \in Nat /\ Size(entry[list[i]]) \in Nat
                /\ Offset(list, L, i + 1) = Offset(list, L, i) + Size(entry[list[i]])
                /\ Offset(list, L, i + 1) <= Cardinality(Held)
                /\ \A k \in DOMAIN entry[list[i]] :
                     Below(Held, k) = Offset(list, L, i) + Below(DOMAIN entry[list[i]], k)
<1>1. /\ IsFiniteSet(Held) /\ Held \in SUBSET Int /\ Cardinality(Held) \in Nat
      /\ \A n \in leaves : DOMAIN entry[n] \subseteq Held /\ IsFiniteSet(DOMAIN entry[n])
      /\ \A k \in Held : \E i \in 0 .. L : k \in DOMAIN entry[list[i]]
  BY HeldIs, FS_CardinalityType
<1>2. L \in Nat /\ \A i \in 0 .. L : list[i] \in leaves
  BY DEF Listing
<1>3. \A i : /\ Earlier(list, L, i) \in SUBSET Held
             /\ IsFiniteSet(Earlier(list, L, i)) /\ Offset(list, L, i) \in Nat
             /\ Offset(list, L, i) <= Cardinality(Held)
  <2> SUFFICES ASSUME NEW i
               PROVE  /\ Earlier(list, L, i) \in SUBSET Held
                      /\ IsFiniteSet(Earlier(list, L, i)) /\ Offset(list, L, i) \in Nat
                      /\ Offset(list, L, i) <= Cardinality(Held)
    OBVIOUS
  <2>1. Earlier(list, L, i) \in SUBSET Held
    BY DEF Earlier
  <2> QED
    BY <1>1, <2>1, FS_Subset, FS_CardinalityType DEF Offset
<1>4. Offset(list, L, 0) = 0
  <2>1. Earlier(list, L, 0) = {}
    BY DEF Earlier
  <2> QED
    BY <2>1, FS_EmptySet DEF Offset
<1>5. Offset(list, L, L + 1) = Cardinality(Held)
  <2>1. \A m \in 0 .. L : m < L + 1
    BY <1>2
  <2>2. Earlier(list, L, L + 1) = Held
    BY <1>1, <2>1 DEF Earlier
  <2> QED
    BY <2>2 DEF Offset
<1>6. ASSUME NEW i \in 0 .. L
      PROVE  /\ Size(entry[list[i]]) \in Nat
             /\ Offset(list, L, i + 1) = Offset(list, L, i) + Size(entry[list[i]])
             /\ \A k \in DOMAIN entry[list[i]] :
                  Below(Held, k) = Offset(list, L, i) + Below(DOMAIN entry[list[i]], k)
  <2>1. PICK D : D = DOMAIN entry[list[i]]
    OBVIOUS
  <2>2. D \in SUBSET Held /\ IsFiniteSet(D) /\ Cardinality(D) \in Nat /\ D \in SUBSET Int
    BY <1>1, <1>2, <2>1, FS_CardinalityType
  <2>3. \A j, k : j \in Earlier(list, L, i) /\ k \in D => j < k
    BY <2>1 DEF Earlier, Listing
  <2>4. Earlier(list, L, i) \cap D = {}
    <3>1. \A k \in D : k \in Int /\ ~ (k < k)
      BY <2>2
    <3> QED
      BY <2>3, <3>1
  <2>5. ASSUME NEW S \in SUBSET D
        PROVE  Cardinality(Earlier(list, L, i) \cup S) = Offset(list, L, i) + Cardinality(S)
    <3>1. IsFiniteSet(S) /\ Cardinality(S) \in Nat /\ Earlier(list, L, i) \cap S = {}
      BY <2>2, <2>4, <2>5, FS_Subset, FS_CardinalityType
    <3>2. Cardinality(Earlier(list, L, i) \cup S) =
             Cardinality(Earlier(list, L, i)) + Cardinality(S) - Cardinality({})
      BY <1>3, <3>1, FS_Union
    <3> QED
      BY <1>3, <3>1, <3>2, FS_EmptySet DEF Offset
  <2>6. Earlier(list, L, i + 1) = Earlier(list, L, i) \cup D
    <3>1. \A m \in 0 .. L : m < i + 1 <=> m < i \/ m = i
      OBVIOUS
    <3> QED
      BY <2>1, <2>2, <3>1 DEF Earlier
  <2>7. Offset(list, L, i + 1) = Offset(list, L, i) + Cardinality(D)
    BY <2>5, <2>6 DEF Offset
  <2>8. ASSUME NEW k \in D PROVE Below(Held, k) = Offset(list, L, i) + Below(D, k)
    <3>1. ASSUME NEW j \in Held PROVE j < k <=> j \in Earlier(list, L, i) \/ (j \in D /\ j < k)
      <4>1. PICK m \in 0 .. L : j \in DOMAIN entry[list[m]]
        BY <1>1
      <4>2. j \in Int /\ k \in Int
        BY <1>1, <2>2
      <4>3. CASE m < i
        <5>1. j \in Earlier(list, L, i)
          BY <4>1, <4>3 DEF Earlier
        <5> QED
          BY <2>3, <5>1
      <4>4. CASE m = i
        <5>1. j \in D
          BY <2>1, <4>1, <4>4
        <5> QED
          BY <2>3, <2>4, <5>1
      <4>5. CASE i < m
        <5>1. k < j
          BY <2>1, <4>1, <4>5 DEF Listing
        <5>2. \A h \in D : h < j
          BY <2>1, <4>1, <4>5 DEF Listing
        <5>3. j \notin D /\ ~ (j < k)
          BY <4>2, <5>1, <5>2
        <5>4. j \notin Earlier(list, L, i)
          <6>1. j \in Earlier(list, L, i) => j < k
            BY <2>3
          <6> QED
            BY <5>3, <6>1
        <5> QED
          BY <5>3, <5>4
      <4> QED
        BY <4>3, <4>4, <4>5
    <3>2. {j \in Held : j < k} = Earlier(list, L, i) \cup {j \in D : j < k}
      BY <1>3, <2>2, <3>1
    <3> QED
      BY <2>5, <3>2 DEF Below
  <2> QED
    BY <2>1, <2>2, <2>7, <2>8 DEF Size
<1> QED
  BY <1>3, <1>4, <1>5, <1>6

\* Entries at some of the keys are a sequence, one for each key, in order.
LEMMA EntriesAre ==
    ASSUME TypeInv, NEW list, NEW L, Listing(list, L), NEW S \in SUBSET Held
    PROVE  /\ EntriesAt(S) \in Seq(Keys \X Values) /\ Len(EntriesAt(S)) = Cardinality(S)
           /\ IsFiniteSet(S) /\ Cardinality(S) \in Nat
           /\ \A i \in 1 .. Cardinality(S) : EntriesAt(S)[i][1] = Ascending(S)[i]
           /\ \A k \in S : /\ Below(S, k) + 1 \in 1 .. Cardinality(S)
                           /\ EntriesAt(S)[Below(S, k) + 1] = <<k, ValueOf(k)>>
<1>1. IsFiniteSet(S) /\ Cardinality(S) \in Nat /\ S \in SUBSET Int /\ Held \subseteq Keys
  BY HeldIs, FS_Subset, FS_CardinalityType
<1>2. \A k \in S : ValueOf(k) \in Values
  <2>1. ASSUME NEW k \in S PROVE ValueOf(k) \in Values
    <3>1. PICK i \in 0 .. L : k \in DOMAIN entry[list[i]]
      BY HeldIs
    <3>2. list[i] \in leaves /\ list[i] \in Nodes
      BY NodesWithin DEF Listing
    <3>3. entry[list[i]][k] \in Values
      BY <3>1, <3>2 DEF TypeInv, NodesTyped, IsNode
    <3> QED
      BY <3>1, <3>2, <3>3, HeldIs
  <2> QED
    BY <2>1
<1>3. /\ Ascending(S) \in [1 .. Cardinality(S) -> S]
      /\ \A k \in S : /\ Below(S, k) + 1 \in 1 .. Cardinality(S)
                      /\ Ascending(S)[Below(S, k) + 1] = k
  BY <1>1, AscendingIs
<1>4. \A i \in 1 .. Cardinality(S) : EntriesAt(S)[i] = <<Ascending(S)[i], ValueOf(Ascending(S)[i])>>
  BY DEF EntriesAt
<1>5. EntriesAt(S) \in [1 .. Cardinality(S) -> Keys \X Values]
  BY <1>1, <1>2, <1>3 DEF EntriesAt
<1>6. EntriesAt(S) \in Seq(Keys \X Values) /\ Len(EntriesAt(S)) = Cardinality(S)
  <2>1. EntriesAt(S) \in Seq(Keys \X Values)
    BY <1>1, <1>5, SeqDef
  <2>2. Len(EntriesAt(S)) \in Nat /\ 1 .. Len(EntriesAt(S)) = 1 .. Cardinality(S)
    BY <1>5, <2>1, LenProperties
  <2> QED
    BY <1>1, <2>1, <2>2
<1> QED
  BY <1>1, <1>3, <1>4, <1>6

\* The entries of a leaf are the stretch of all entries that begins at its offset.
LEMMA LeafEntries ==
    ASSUME TypeInv, NEW list, NEW L, Listing(list, L), NEW i \in 0 .. L,
           NEW n, n = list[i], NEW c, c = Offset(list, L, i), NEW z, z = Size(entry[n])
    PROVE  /\ n \in leaves /\ c \in Nat /\ z \in Nat /\ c + z <= Len(AllEntries)
           /\ \A p \in 1 .. z : /\ KeysInOrder(n)[p] \in DOMAIN entry[n]
                                /\ Below(Held, KeysInOrder(n)[p]) = c + p - 1
           /\ ScanAll(n) = SubSeq(AllEntries, c + 1, c + z)
<1>1. /\ n \in leaves /\ c \in Nat /\ z \in Nat /\ c + z <= Cardinality(Held)
      /\ \A k \in DOMAIN entry[n] : Below(Held, k) = c + Below(DOMAIN entry[n], k)
  <2>1. n \in leaves
    BY DEF Listing
  <2>2. /\ c \in Nat /\ z \in Nat /\ Offset(list, L, i + 1) = c + z
        /\ Offset(list, L, i + 1) <= Cardinality(Held)
        /\ \A k \in DOMAIN entry[n] : Below(Held, k) = c + Below(DOMAIN entry[n], k)
    BY OffsetIs
  <2> QED
    BY <2>1, <2>2
<1>2. /\ IsFiniteSet(Held) /\ Held \in SUBSET Int
      /\ DOMAIN entry[n] \subseteq Held /\ IsFiniteSet(DOMAIN entry[n])
      /\ \A k \in DOMAIN entry[n] : ValueOf(k) = entry[n][k]
  BY <1>1, HeldIs
<1>3. /\ AllEntries \in Seq(Keys \X Values) /\ Len(AllEntries) = Cardinality(Held)
      /\ \A k \in Held : AllEntries[Below(Held, k) + 1] = <<k, ValueOf(k)>>
  BY EntriesAre DEF AllEntries
<1>4. ASSUME NEW p \in 1 .. z
      PROVE  /\ KeysInOrder(n)[p] \in DOMAIN entry[n]
             /\ Below(Held, KeysInOrder(n)[p]) = c + p - 1
             /\ AllEntries[c + p] = <<KeysInOrder(n)[p], entry[n][KeysInOrder(n)[p]]>>
  <2>1. PICK k : k = KeysInOrder(n)[p]
    OBVIOUS
  <2>2. DOMAIN entry[n] \in SUBSET Int
    BY <1>2
  <2>3. k \in DOMAIN entry[n] /\ Below(DOMAIN entry[n], k) = p - 1
    BY <1>2, <2>1, <2>2, AscendingIs DEF KeysInOrder, Size
  <2>4. Below(Held, k) = c + (p - 1)
    BY <1>1, <2>3
  <2>5. Below(Held, k) = c + p - 1 /\ Below(Held, k) + 1 = c + p
    BY <1>1, <2>4
  <2>6. AllEntries[c + p] = <<k, entry[n][k]>>
    <3>1. k \in Held
      BY <1>2, <2>3
    <3>2. AllEntries[Below(Held, k) + 1] = <<k, ValueOf(k)>>
      BY <1>3, <3>1
    <3> QED
      BY <1>2, <2>3, <2>5, <3>2
  <2> QED
    BY <2>1, <2>3, <2>5, <2>6
<1>5. ScanAll(n) = [p \in 1 .. z |-> AllEntries[c + p]]
  BY <1>4 DEF ScanAll
<1>6. /\ \A p \in c + 1 .. c + z : AllEntries[p] \in Keys \X Values
      /\ c + 1 \in Int /\ c + z \in Int
  <2>1. \A p \in c + 1 .. c + z : p \in 1 .. Len(AllEntries)
    BY <1>1, <1>3
  <2> QED
    BY <1>1, <1>3, <2>1, ElementOfSeq
<1>7. PICK s : s = SubSeq(AllEntries, c + 1, c + z)
  OBVIOUS
<1>8. /\ s \in Seq(Keys \X Values)
      /\ Len(s) = IF c + 1 <= c + z THEN (c + z) - (c + 1) + 1 ELSE 0
      /\ \A p \in 1 .. (c + z) - (c + 1) + 1 : s[p] = AllEntries[(c + 1) + p - 1]
  BY <1>6, <1>7, SubSeqProperties
<1>9. Len(s) = z /\ (c + z) - (c + 1) + 1 = z
  BY <1>1, <1>8
<1>10. \A p \in 1 .. z : s[p] = AllEntries[c + p]
  <2> SUFFICES ASSUME NEW p \in 1 .. z PROVE s[p] = AllEntries[c + p]
    OBVIOUS
  <2>1. (c + 1) + p - 1 = c + p
    BY <1>1
  <2> QED
    BY <1>8, <1>9, <2>1
<1>11. s = [p \in 1 .. z |-> s[p]]
  BY <1>8, <1>9, LenProperties
<1>12. ScanAll(n) = s
  BY <1>5, <1>10, <1>11
<1> QED
  BY <1>1, <1>3, <1>4, <1>7, <1>12

\* What bptree_scan computes: so many rounds of its loop.
LEMMA ScanIs ==
    ASSUME TypeInv, NEW list, NEW L, Listing(list, L), NEW k, SearchLeaf(k) \in leaves, NEW count
    PROVE  \E r : /\ Scan(k, count) = r[MaxNode].vec_result
                  /\ r[0] = [vec_result |-> <<>>, leaf_node |-> SearchLeaf(k)]
                  /\ \A i \in 0 .. MaxNode : i # 0 => r[i] = ScanRound(r[i - 1], count)
<1> DEFINE Z == [vec_result : Seq(Keys \X Values), leaf_node : leaves \cup {Null}]
           first == [vec_result |-> <<>>, leaf_node |-> SearchLeaf(k)]
<1>1. MaxNode \in Nat /\ Null \notin leaves /\ \A n \in leaves : next[n] \in leaves \cup {Null}
  BY SlotsAssumption, NullAssumption, NodesWithin DEF TypeInv, NodesTyped
<1>2. first \in Z
  BY EmptySeq
<1>3. \A n \in leaves : ScanAll(n) \in Seq(Keys \X Values)
  <2> SUFFICES ASSUME NEW n \in leaves PROVE ScanAll(n) \in Seq(Keys \X Values)
    OBVIOUS
  <2>1. PICK i \in 0 .. L : n = list[i]
    BY DEF Listing
  <2>2. PICK c, z : c = Offset(list, L, i) /\ z = Size(entry[n])
    OBVIOUS
  <2>3. /\ c \in Nat /\ z \in Nat /\ c + z <= Len(AllEntries)
        /\ ScanAll(n) = SubSeq(AllEntries, c + 1, c + z)
    BY <2>1, <2>2, LeafEntries
  <2>4. AllEntries \in Seq(Keys \X Values)
    BY EntriesAre DEF AllEntries
  <2>5. \A p \in c + 1 .. c + z : p \in 1 .. Len(AllEntries)
    BY <2>3
  <2>6. c + 1 \in Int /\ c + z \in Int /\ \A p \in c + 1 .. c + z : AllEntries[p] \in Keys \X Values
    BY <2>3, <2>4, <2>5, ElementOfSeq
  <2> QED
    BY <2>3, <2>6, SubSeqProperties
<1>4. PICK d : d = [s \in Z |-> ScanRound(s, count)]
  OBVIOUS
<1>5. d \in [Z -> Z]
  <2> SUFFICES ASSUME NEW s \in Z PROVE ScanRound(s, count) \in Z
    BY <1>4
  <2>1. s.vec_result \in Seq(Keys \X Values) /\ s.leaf_node \in leaves \cup {Null}
    OBVIOUS
  <2>2. CASE s.leaf_node = Null
    BY <2>2 DEF ScanRound
  <2>3. CASE s.leaf_node # Null
    <3>1. s.leaf_node \in leaves
      BY <2>1, <2>3
    <3>2. s.vec_result \o ScanAll(s.leaf_node) \in Seq(Keys \X Values)
      BY <1>3, <2>1, <3>1, ConcatProperties
    <3>3. next[s.leaf_node] \in leaves \cup {Null}
      BY <1>1, <3>1
    <3> QED
      BY <2>3, <3>2, <3>3 DEF ScanRound
  <2> QED
    BY <2>2, <2>3
<1> HIDE DEF Z, first
<1>6. PICK f \in [0 .. MaxNode -> Z] : Repeats(f, MaxNode, first, d)
  BY <1>1, <1>2, <1>5, Repetition
<1>7. \A i \in 0 .. MaxNode : i # 0 => i - 1 \in 0 .. MaxNode /\ d[f[i - 1]] = ScanRound(f[i - 1], count)
  BY <1>1, <1>4, <1>6
<1>8. f = [i \in 0 .. MaxNode |-> IF i = 0 THEN first ELSE ScanRound(f[i - 1], count)]
  BY <1>6, <1>7 DEF Repeats
<1> DEFINE r == CHOOSE g : g = [i \in 0 .. MaxNode |-> IF i = 0 THEN first
                                                       ELSE ScanRound(g[i - 1], count)]
<1>9. r = [i \in 0 .. MaxNode |-> IF i = 0 THEN first ELSE ScanRound(r[i - 1], count)]
  BY <1>8, Zenon
<1>10. Scan(k, count) = r[MaxNode].vec_result
  BY Zenon DEF Scan, first
<1> HIDE DEF r
<1>11. \A i \in 0 .. MaxNode : r[i] = IF i = 0 THEN first ELSE ScanRound(r[i - 1], count)
  BY <1>9, Zenon
<1>12. 0 \in 0 .. MaxNode
  BY <1>1
<1> QED
  BY <1>10, <1>11, <1>12, Zenon DEF first

\* The keys in the leaves before the one that the search for k finds are below k.
LEMMA EarlierBelow ==
    ASSUME TypeInv, NEW lv, NEW at, NEW left, Tree(lv, at, left),
           NEW list, NEW L, Listing(list, L),
           NEW k \in Keys, NEW s \in 0 .. L, list[s] = at[0][k]
    PROVE  \A j \in Earlier(list, L, s) : j < k
<1>1. /\ L \in Nat /\ \A i \in 0 .. L : list[i] \in leaves /\ DOMAIN entry[list[i]] \subseteq Keys
      /\ Keys \subseteq Int /\ Null \notin leaves
  BY NodesWithin, NullAssumption, KeysAssumption DEF Listing, TypeInv, NodesTyped, IsNode
<1>2. \A i \in 0 .. L : \A j \in DOMAIN entry[list[i]] : at[0][j] = list[i]
  BY <1>1 DEF Tree, Placed
<1>3. \A i \in 0 .. L : i < L => i + 1 \in 0 .. L /\ next[list[i]] = list[i + 1]
  BY DEF Listing
<1>4. ASSUME NEW j \in Keys, NEW h \in Keys, NEW i \in 0 .. L, i + 1 \in 0 .. L,
             at[0][j] = list[i], at[0][h] = list[i + 1]
      PROVE  j < h
  <2>1. i < L
    BY <1>1, <1>4
  <2>2. next[list[i]] = list[i + 1] /\ next[list[i]] # Null
    BY <1>1, <1>3, <1>4, <2>1
  <2> QED
    BY <1>1, <1>4, <2>2 DEF Tree, Chained
<1>5. ASSUME NEW j \in Earlier(list, L, s) PROVE j < k
  <2>1. PICK m \in 0 .. L : m < s /\ j \in DOMAIN entry[list[m]]
    BY DEF Earlier
  <2>2. j \in Keys /\ at[0][j] = list[m]
    BY <1>1, <1>2, <2>1
  <2>3. CASE m + 1 = s
    BY <1>4, <2>1, <2>2, <2>3
  <2>4. CASE m + 1 # s
    <3>1. PICK i \in 0 .. L : i + 1 = s /\ i # 0 /\ m < i
      <4>1. s - 1 \in 0 .. L /\ (s - 1) + 1 = s /\ s - 1 # 0 /\ m < s - 1
        BY <1>1, <2>1, <2>4
      <4> QED
        BY <4>1
    <3>2. PICK h \in DOMAIN entry[list[i]] : TRUE
      BY <3>1 DEF Listing
    <3>3. h \in Keys /\ at[0][h] = list[i]
      BY <1>1, <1>2, <3>2
    <3>4. h < k
      BY <1>4, <3>1, <3>3
    <3>5. j < h
      BY <2>1, <3>1, <3>2 DEF Listing
    <3>6. j \in Int /\ h \in Int /\ k \in Int
      BY <1>1, <2>2, <3>3
    <3> QED
      BY <3>4, <3>5, <3>6
  <2> QED
    BY <2>3, <2>4
<1> QED
  BY <1>5

\* A tree at rest has no node that waits for its parent: a search ends where its key belongs.
LEMMA RestFinds ==
    ASSUME TypeInv, Links, NEW lv, NEW at, NEW left, Tree(lv, at, left), AtRest, NEW k \in Keys
    PROVE  SearchLeaf(k) = at[0][k] /\ SearchLeaf(k) \in leaves
<1>1. InnerAtRest
  BY DEF AtRest, InnerAtRest
<1>2. ~Pending(at[0][k])
  BY DEF AtRest, Pending
<1>3. SearchLeaf(k) = at[0][k]
  BY <1>1, <1>2, SearchFinds DEF Reach
<1>4. 0 \in Nat /\ 0 <= lv[root]
  BY RootLevel
<1> QED
  BY <1>3, <1>4, RouteAt

\* After so many rounds a scan has the stretch up to a leaf, or it has ended.
ScanHas(list, L, s, count, i, scan) ==
    \E e \in 0 .. L + 1 :
        /\ Offset(list, L, s) <= Offset(list, L, e)
        /\ scan.vec_result = SubSeq(AllEntries, Offset(list, L, s) + 1, Offset(list, L, e))
        /\ \/ e = s + i /\ e <= L /\ scan.leaf_node = list[e]
           \/ /\ scan.leaf_node = Null
              /\ Len(scan.vec_result) >= count \/ e = L + 1

LEMMA ScanGoesOn ==
    ASSUME TypeInv, NEW list, NEW L, Listing(list, L), NEW s \in 0 .. L, NEW count \in Nat,
           NEW i \in Nat, NEW scan, ScanHas(list, L, s, count, i, scan)
    PROVE  ScanHas(list, L, s, count, i + 1, ScanRound(scan, count))
<1>1. PICK e \in 0 .. L + 1 :
        /\ Offset(list, L, s) <= Offset(list, L, e)
        /\ scan.vec_result = SubSeq(AllEntries, Offset(list, L, s) + 1, Offset(list, L, e))
        /\ \/ e = s + i /\ e <= L /\ scan.leaf_node = list[e]
           \/ /\ scan.leaf_node = Null
              /\ Len(scan.vec_result) >= count \/ e = L + 1
  BY DEF ScanHas
<1>2. CASE scan.leaf_node = Null
  <2>1. ScanRound(scan, count) = scan
    BY <1>2 DEF ScanRound
  <2>2. L \in Nat /\ \A x \in 0 .. L : list[x] # Null
    BY NodesWithin, NullAssumption DEF Listing
  <2>3. e <= L => e \in 0 .. L
    BY <2>2
  <2>4. Len(scan.vec_result) >= count \/ e = L + 1
    BY <1>1, <1>2, <2>2, <2>3
  <2> QED
    BY <1>1, <1>2, <2>1, <2>4 DEF ScanHas
<1>3. CASE scan.leaf_node # Null
  <2>1. e = s + i /\ e \in 0 .. L /\ scan.leaf_node = list[e]
    BY <1>1, <1>3
  <2>2. PICK a, c, n, z, f : /\ a = Offset(list, L, s) /\ c = Offset(list, L, e) /\ n = list[e]
                             /\ z = Size(entry[n]) /\ f = e + 1
    OBVIOUS
  <2>3. /\ n \in leaves /\ c \in Nat /\ z \in Nat /\ c + z <= Len(AllEntries)
        /\ ScanAll(n) = SubSeq(AllEntries, c + 1, c + z)
    BY <2>1, <2>2, LeafEntries
  <2>4. a \in Nat /\ a <= c /\ Offset(list, L, f) = c + z
    BY <1>1, <2>1, <2>2, OffsetIs
  <2>5. AllEntries \in Seq(Keys \X Values) /\ Len(AllEntries) \in Nat
    BY EntriesAre, LenProperties DEF AllEntries
  <2>6. PICK all : all = scan.vec_result \o ScanAll(n)
    OBVIOUS
  <2>7. all = SubSeq(AllEntries, a + 1, c + z)
    <3>1. /\ a + 1 \in 1 .. Len(AllEntries) + 1 /\ c \in (a + 1) - 1 .. Len(AllEntries)
          /\ c + z \in c .. Len(AllEntries)
      BY <2>3, <2>4, <2>5
    <3>2. SubSeq(AllEntries, a + 1, c) \o SubSeq(AllEntries, c + 1, c + z)
             = SubSeq(AllEntries, a + 1, c + z)
      BY <2>5, <3>1, ConcatAdjacentSubSeq
    <3> QED
      BY <1>1, <2>2, <2>3, <2>6, <3>2
  <2>8. ScanRound(scan, count) =
          [vec_result |-> all, leaf_node |-> IF Len(all) >= count THEN Null ELSE next[n]]
    BY <1>3, <2>1, <2>2, <2>6 DEF ScanRound
  <2>9. /\ f \in 0 .. L + 1 /\ a <= c + z
        /\ next[n] = IF f <= L THEN list[f] ELSE Null
        /\ f <= L \/ f = L + 1
    <3>1. L \in Nat /\ s \in Nat /\ f \in Nat /\ f <= L + 1
      BY <2>1, <2>2 DEF Listing
    <3>2. CASE f <= L
      <4>1. e < L
        BY <2>1, <2>2, <3>1, <3>2
      <4>2. next[list[e]] = list[e + 1]
        BY <2>1, <4>1 DEF Listing
      <4> QED
        BY <2>2, <2>3, <2>4, <3>1, <3>2, <4>2
    <3>3. CASE ~ (f <= L)
      <4>1. e = L /\ f = L + 1
        BY <2>1, <2>2, <3>1, <3>3
      <4>2. next[list[L]] = Null
        BY DEF Listing
      <4> QED
        BY <2>2, <2>3, <2>4, <3>1, <3>3, <4>1, <4>2
    <3> QED
      BY <3>2, <3>3
  <2>10. f = s + (i + 1)
    BY <2>1, <2>2
  <2>11. PICK new_scan : new_scan = ScanRound(scan, count)
    OBVIOUS
  <2>12. /\ new_scan.vec_result = all
         /\ new_scan.leaf_node = IF Len(all) >= count THEN Null ELSE next[n]
    BY <2>8, <2>11
  <2>13. \/ f = s + (i + 1) /\ f <= L /\ new_scan.leaf_node = list[f]
         \/ new_scan.leaf_node = Null /\ (Len(new_scan.vec_result) >= count \/ f = L + 1)
    BY <2>9, <2>10, <2>12
  <2>14. ScanHas(list, L, s, count, i + 1, new_scan)
    BY <2>2, <2>4, <2>7, <2>9, <2>12, <2>13 DEF ScanHas
  <2> QED
    BY <2>11, <2>14
<1> QED
  BY <1>2, <1>3

LEMMA ScanEnds ==
    ASSUME TypeInv, NEW list, NEW L, Listing(list, L), NEW s \in 0 .. L, NEW count \in Nat,
           NEW k, SearchLeaf(k) = list[s]
    PROVE  \E e \in 0 .. L + 1 :
              /\ Offset(list, L, s) <= Offset(list, L, e)
              /\ Scan(k, count) = SubSeq(AllEntries, Offset(list, L, s) + 1, Offset(list, L, e))
              /\ Len(Scan(k, count)) >= count \/ e = L + 1
<1>1. /\ MaxNode \in Nat /\ L \in Nat /\ L < MaxNode /\ list[s] \in leaves
      /\ Null \notin leaves /\ \A x \in 0 .. L : list[x] \in leaves
  BY SlotsAssumption, NodesWithin, NullAssumption DEF Listing
<1>2. PICK r : /\ Scan(k, count) = r[MaxNode].vec_result
               /\ r[0] = [vec_result |-> <<>>, leaf_node |-> SearchLeaf(k)]
               /\ \A i \in 0 .. MaxNode : i # 0 => r[i] = ScanRound(r[i - 1], count)
  BY <1>1, ScanIs
<1> DEFINE S == {i \in 0 .. MaxNode : ScanHas(list, L, s, count, i, r[i])}
<1>3. 0 \in S
  <2>1. Offset(list, L, s) \in Nat
    BY OffsetIs
  <2>2. SubSeq(AllEntries, Offset(list, L, s) + 1, Offset(list, L, s)) = <<>>
    <3>1. \A a \in Nat : a + 1 \in Int /\ a \in Int /\ a < a + 1
      OBVIOUS
    <3> QED
      BY <2>1, <3>1, SubSeqEmpty
  <2>3. s \in 0 .. L + 1 /\ s = s + 0 /\ s <= L /\ 0 \in 0 .. MaxNode
    BY <1>1
  <2>4. r[0].vec_result = <<>> /\ r[0].leaf_node = list[s]
    BY <1>2
  <2>5. Offset(list, L, s) <= Offset(list, L, s)
    BY <2>1
  <2>6. ScanHas(list, L, s, count, 0, r[0])
    BY <2>2, <2>3, <2>4, <2>5 DEF ScanHas
  <2> QED
    BY <2>3, <2>6
<1>4. ASSUME NEW i \in 0 .. MaxNode - 1, i \in S PROVE i + 1 \in S
  <2>1. PICK m \in 0 .. MaxNode : m = i + 1 /\ m # 0 /\ m - 1 = i /\ i \in Nat
    BY <1>1
  <2>2. r[m] = ScanRound(r[i], count)
    BY <1>2, <2>1
  <2>3. ScanHas(list, L, s, count, i, r[i])
    BY <1>4
  <2>4. ScanHas(list, L, s, count, i + 1, ScanRound(r[i], count))
    BY <2>1, <2>3, ScanGoesOn
  <2> QED
    BY <2>1, <2>2, <2>4
<1>5. 0 .. MaxNode \subseteq S
  <2> HIDE DEF S
  <2> QED
    BY <1>1, <1>3, <1>4, Upward
<1>6. ScanHas(list, L, s, count, MaxNode, r[MaxNode])
  BY <1>1, <1>5
<1>7. PICK e \in 0 .. L + 1 :
        /\ Offset(list, L, s) <= Offset(list, L, e)
        /\ r[MaxNode].vec_result = SubSeq(AllEntries, Offset(list, L, s) + 1, Offset(list, L, e))
        /\ \/ e = s + MaxNode /\ e <= L /\ r[MaxNode].leaf_node = list[e]
           \/ /\ r[MaxNode].leaf_node = Null
              /\ Len(r[MaxNode].vec_result) >= count \/ e = L + 1
  BY <1>6 DEF ScanHas
<1>8. ~ (e = s + MaxNode /\ e <= L)
  BY <1>1
<1> QED
  BY <1>2, <1>7, <1>8

LEMMA ScanFinds ==
    ASSUME TypeInv, Links, TreeInv, Reached, ChainSorted
    PROVE  ScanAtRest
<1> SUFFICES ASSUME AtRest, NEW k \in Keys, NEW count \in 1 .. Cardinality(Keys)
             PROVE  \E i \in 1 .. Len(AllEntries) + 1 :
                      LET j == i + Len(Scan(k, count)) - 1 IN
                        /\ j <= Len(AllEntries) /\ Scan(k, count) = SubSeq(AllEntries, i, j)
                        /\ \A b \in 1 .. i - 1 : AllEntries[b][1] < k
                        /\ Len(Scan(k, count)) >= count \/ j = Len(AllEntries)
  BY DEF ScanAtRest
<1>1. PICK lv, at, left : Tree(lv, at, left)
  BY DEF TreeInv
<1>2. PICK list, L : Listing(list, L)
  BY LeafList
<1>3. SearchLeaf(k) = at[0][k] /\ SearchLeaf(k) \in leaves
  BY <1>1, RestFinds
<1>4. PICK s \in 0 .. L : list[s] = SearchLeaf(k)
  BY <1>2, <1>3 DEF Listing
<1>5. count \in Nat
  OBVIOUS
<1>6. PICK e \in 0 .. L + 1 :
        /\ Offset(list, L, s) <= Offset(list, L, e)
        /\ Scan(k, count) = SubSeq(AllEntries, Offset(list, L, s) + 1, Offset(list, L, e))
        /\ Len(Scan(k, count)) >= count \/ e = L + 1
  BY <1>2, <1>4, <1>5, ScanEnds
<1>7. PICK a, b, found : a = Offset(list, L, s) /\ b = Offset(list, L, e) /\ found = Scan(k, count)
  OBVIOUS
<1>8. /\ AllEntries \in Seq(Keys \X Values) /\ Len(AllEntries) \in Nat
      /\ Len(AllEntries) = Cardinality(Held)
      /\ \A i \in 1 .. Cardinality(Held) : AllEntries[i][1] = Ascending(Held)[i]
  BY <1>2, EntriesAre DEF AllEntries
<1>9. a \in Nat /\ b \in Nat /\ a <= b /\ b <= Len(AllEntries) /\ (e = L + 1 => b = Len(AllEntries))
  <2>1. L \in Nat
    BY <1>2 DEF Listing
  <2>2. /\ Offset(list, L, L + 1) = Cardinality(Held)
        /\ \A i \in 0 .. L : /\ Offset(list, L, i) \in Nat /\ Size(entry[list[i]]) \in Nat
                             /\ Offset(list, L, i + 1) = Offset(list, L, i) + Size(entry[list[i]])
                             /\ Offset(list, L, i + 1) <= Cardinality(Held)
    BY <1>2, OffsetIs
  <2>3. \A i \in 0 .. L : Offset(list, L, i) <= Cardinality(Held)
    BY <1>8, <2>2
  <2>4. e \in 0 .. L \/ e = L + 1
    BY <2>1
  <2> QED
    BY <1>6, <1>7, <1>8, <2>2, <2>3, <2>4
<1>10. Len(found) = b - a
  <2>1. \A i \in a + 1 .. b : i \in 1 .. Len(AllEntries)
    BY <1>8, <1>9
  <2>2. a + 1 \in Int /\ b \in Int /\ \A i \in a + 1 .. b : AllEntries[i] \in Keys \X Values
    BY <1>8, <1>9, <2>1, ElementOfSeq
  <2>3. Len(SubSeq(AllEntries, a + 1, b)) = IF a + 1 <= b THEN b - (a + 1) + 1 ELSE 0
    BY <2>2, SubSeqProperties
  <2> QED
    BY <1>6, <1>7, <1>9, <2>3
<1>11. \A i \in 1 .. a : AllEntries[i][1] < k
  <2> SUFFICES ASSUME NEW i \in 1 .. a PROVE AllEntries[i][1] < k
    OBVIOUS
  <2>1. PICK j : j = Ascending(Held)[i]
    OBVIOUS
  <2>2. i \in 1 .. Cardinality(Held)
    BY <1>8, <1>9
  <2>3. AllEntries[i][1] = j
    BY <1>8, <2>1, <2>2
  <2>4. j \in Held /\ Below(Held, j) = i - 1
    <3>1. Held \in SUBSET Int /\ IsFiniteSet(Held)
      BY <1>2, HeldIs
    <3> QED
      BY <2>1, <2>2, <3>1, AscendingIs
  <2>5. j \in Earlier(list, L, s)
    <3>1. PICK m \in 0 .. L : j \in DOMAIN entry[list[m]]
      BY <1>2, <2>4, HeldIs
    <3>2. CASE m < s
      BY <2>4, <3>1, <3>2 DEF Earlier
    <3>3. CASE ~ (m < s)
      <4>1. Below(Held, j) = Offset(list, L, m) + Below(DOMAIN entry[list[m]], j)
        BY <1>2, <3>1, OffsetIs
      <4>2. Earlier(list, L, s) \in SUBSET Earlier(list, L, m)
        <5>1. L \in Nat /\ s \in Nat /\ m \in Nat /\ s <= m
          BY <1>2, <3>3 DEF Listing
        <5>2. \A x \in 0 .. L : x < s => x < m
          BY <5>1
        <5> QED
          BY <5>2 DEF Earlier
      <4>3. IsFiniteSet(Earlier(list, L, m))
        <5>1. Earlier(list, L, m) \in SUBSET Held
          BY DEF Earlier
        <5> QED
          BY <1>2, <5>1, HeldIs, FS_Subset
      <4>4. a <= Offset(list, L, m)
        BY <1>7, <4>2, <4>3, FS_Subset DEF Offset
      <4>5. Offset(list, L, m) \in Nat
        BY <1>2, OffsetIs
      <4>6. Below(DOMAIN entry[list[m]], j) \in Nat
        <5>1. list[m] \in leaves
          BY <1>2 DEF Listing
        <5>2. DOMAIN entry[list[m]] \in SUBSET Int /\ IsFiniteSet(DOMAIN entry[list[m]])
          BY <1>2, <5>1, HeldIs
        <5> QED
          BY <5>2, BelowIs
      <4>7. i - 1 >= a
        BY <1>9, <2>4, <4>1, <4>4, <4>5, <4>6
      <4> QED
        BY <1>9, <4>7
    <3> QED
      BY <3>2, <3>3
  <2>6. j < k
    BY <1>1, <1>2, <1>3, <1>4, <2>5, EarlierBelow
  <2> QED
    BY <2>3, <2>6
<1>12. PICK i : i = a + 1
  OBVIOUS
<1>13. /\ i \in 1 .. Len(AllEntries) + 1 /\ i + Len(found) - 1 = b /\ i - 1 = a
  BY <1>8, <1>9, <1>10, <1>12
<1>14. found = SubSeq(AllEntries, i, b) /\ (Len(found) >= count \/ b = Len(AllEntries))
  BY <1>6, <1>7, <1>9, <1>12
<1> QED
  BY <1>7, <1>9, <1>11, <1>13, <1>14

(***************************************************************************)
(* A scan of a tree at rest (bptree_scan, bptree-template.hpp:705-717)     *)
(* returns a stretch of the entries, in order, from the leaf of k on.      *)
(***************************************************************************)
THEOREM ScanAtRestHolds == Spec => []ScanAtRest
<1>1. TypeInv /\ Links /\ TreeInv /\ Reached /\ ChainSorted => ScanAtRest
  BY ScanFinds
<1> QED
  BY <1>1, InitTypeInv, InitLinks, InitTree, InitReached, NextTypeInv, NextLinks, NextTree,
     NextReached, ChainSortedHolds, PTL DEF Spec

-----------------------------------------------------------------------------
(* The iterator *)

\* A recursion along d that comes down in rank ends no higher than it began.
LEMMA DownwardEnd ==
    ASSUME NEW S, NEW stop, NEW d \in [S -> S], NEW rank \in [S -> Nat],
           NEW bound \in Nat, \A n \in S : rank[n] <= bound,
           \A n \in S \ stop : rank[d[n]] < rank[n],
           NEW f, Follows(f, S, stop, d)
    PROVE  \A n \in S : f[n] \in S /\ rank[f[n]] <= rank[n]
<1> DEFINE T == {r \in 0 .. bound : \A n \in S : rank[n] <= r => f[n] \in S /\ rank[f[n]] <= rank[n]}
<1>1. \A n \in S : f[n] = IF n \in stop THEN n ELSE f[d[n]]
  BY DEF Follows
<1>2. 0 \in T
  <2>1. ASSUME NEW n \in S, rank[n] <= 0 PROVE n \in stop
    <3>1. rank[n] \in Nat /\ d[n] \in S /\ rank[d[n]] \in Nat
      OBVIOUS
    <3>2. ~ (rank[d[n]] < rank[n])
      BY <2>1, <3>1
    <3> QED
      BY <3>2
  <2>2. \A n \in S : rank[n] <= rank[n]
    OBVIOUS
  <2> QED
    BY <1>1, <2>1, <2>2
<1>3. ASSUME NEW r \in 0 .. bound - 1, r \in T PROVE r + 1 \in T
  <2>1. ASSUME NEW n \in S, rank[n] <= r + 1 PROVE f[n] \in S /\ rank[f[n]] <= rank[n]
    <3>1. CASE n \in stop
      BY <1>1, <3>1
    <3>2. CASE n \notin stop
      <4>1. d[n] \in S /\ rank[d[n]] < rank[n] /\ rank[n] \in Nat /\ rank[d[n]] \in Nat
        BY <3>2
      <4>2. rank[d[n]] <= r
        BY <2>1, <4>1
      <4>3. f[d[n]] \in S /\ rank[f[d[n]]] <= rank[d[n]]
        BY <1>3, <4>1, <4>2
      <4>4. f[n] = f[d[n]] /\ rank[f[d[n]]] \in Nat
        BY <1>1, <3>2, <4>3
      <4> QED
        BY <4>1, <4>3, <4>4
    <3> QED
      BY <3>1, <3>2
  <2>2. r + 1 \in 0 .. bound
    OBVIOUS
  <2> QED
    BY <2>1, <2>2
<1>4. 0 .. bound \subseteq T
  <2> HIDE DEF T
  <2> QED
    BY <1>2, <1>3, Upward
<1> QED
  BY <1>4

Gathers(f, S, stop, h, d) == f = [n \in S |-> IF n \in stop THEN <<>> ELSE <<h[n]>> \o f[d[n]]]

\* One that collects something from each place on the way down has a value, too.
LEMMA GatherRecursion ==
    ASSUME NEW S, NEW stop, NEW h, NEW d \in [S -> S], NEW rank \in [S -> Nat],
           NEW bound \in Nat, \A n \in S : rank[n] <= bound,
           \A n \in S \ stop : rank[d[n]] < rank[n]
    PROVE  \E f : Gathers(f, S, stop, h, d)
<1> DEFINE D(l) == {n \in S : rank[n] < l}
           Solves(f, l) == f = [n \in D(l) |-> IF n \in stop THEN <<>> ELSE <<h[n]>> \o f[d[n]]]
           T == {l \in 0 .. bound + 1 : \E f : Solves(f, l)}
<1>1. 0 \in T
  <2>1. D(0) = {}
    OBVIOUS
  <2>2. PICK f : f = [n \in {} |-> n]
    OBVIOUS
  <2>3. f = [n \in D(0) |-> IF n \in stop THEN <<>> ELSE <<h[n]>> \o f[d[n]]]
    BY <2>1, <2>2
  <2>4. Solves(f, 0)
    BY <2>3
  <2>5. 0 \in 0 .. bound + 1
    OBVIOUS
  <2> HIDE DEF Solves
  <2> QED
    BY <2>4, <2>5
<1>2. ASSUME NEW m \in 0 .. (bound + 1) - 1, m \in T PROVE m + 1 \in T
  <2>1. PICK f : Solves(f, m)
    BY <1>2
  <2>2. PICK l \in 0 .. bound + 1 : l = m + 1
    OBVIOUS
  <2>3. PICK g : g = [n \in D(l) |-> IF n \in stop THEN <<>> ELSE <<h[n]>> \o f[d[n]]]
    OBVIOUS
  <2>4. ASSUME NEW n \in D(l) \ stop PROVE d[n] \in D(m) /\ d[n] \in D(l)
    <3>1. n \in S /\ n \notin stop /\ d[n] \in S /\ rank[n] \in Nat /\ rank[d[n]] \in Nat
      OBVIOUS
    <3>2. rank[d[n]] < rank[n] /\ rank[n] < l
      BY <3>1
    <3> QED
      BY <2>2, <3>1, <3>2
  <2>5. \A n \in D(m) : n \in D(l)
    BY <2>2
  <2>6. \A n \in D(m) : g[n] = f[n]
    <3>1. f = [n \in D(m) |-> IF n \in stop THEN <<>> ELSE <<h[n]>> \o f[d[n]]]
      BY <2>1
    <3> HIDE DEF D
    <3> QED
      BY <2>3, <2>5, <3>1
  <2>7. g = [n \in D(l) |-> IF n \in stop THEN <<>> ELSE <<h[n]>> \o g[d[n]]]
    <3> HIDE DEF D
    <3> QED
      BY <2>3, <2>4, <2>6
  <2>8. Solves(g, m + 1)
    BY <2>2, <2>7
  <2> HIDE DEF Solves
  <2> QED
    BY <2>2, <2>8
<1>3. PICK f : Solves(f, bound + 1)
  <2>1. 0 .. bound + 1 \subseteq T
    <3>1. bound + 1 \in Nat
      OBVIOUS
    <3> HIDE DEF T
    <3> QED
      BY <1>1, <1>2, <3>1, Upward
  <2>2. bound + 1 \in 0 .. bound + 1
    OBVIOUS
  <2> QED
    BY <2>1, <2>2
<1>4. D(bound + 1) = S
  OBVIOUS
<1>5. f = [n \in D(bound + 1) |-> IF n \in stop THEN <<>> ELSE <<h[n]>> \o f[d[n]]]
  BY <1>3
<1> HIDE DEF D
<1>6. Gathers(f, S, stop, h, d)
  BY <1>4, <1>5 DEF Gathers
<1> QED
  BY <1>6

\* How far an iterator is from the end of the chain.
ComesDown(rank, bound) ==
    /\ rank \in [Iterators -> Nat] /\ bound \in Nat /\ \A it \in Iterators : rank[it] <= bound
    /\ \A it \in Iterators : it.cur_ # Null =>
          Advance(it) \in Iterators /\ rank[Advance(it)] < rank[it]

LEMMA AdvanceDown ==
    ASSUME TypeInv, NEW list, NEW L, Listing(list, L)
    PROVE  \E rank, bound : ComesDown(rank, bound)
<1>1. PICK m \in Nat : m = LeafSlots + 2 /\ LeafSlots \in Nat
  BY SlotsAssumption
<1>2. /\ L \in Nat /\ leaves \subseteq Nodes /\ Null \notin Nodes
      /\ \A n \in Nodes : Size(entry[n]) \in Nat /\ Size(entry[n]) <= LeafSlots
      /\ \A n \in Nodes : next[n] \in leaves \cup {Null}
      /\ \A n \in Nodes \ leaves : next[n] = Null /\ DOMAIN entry[n] = {}
  BY NodesWithin, NullAssumption, NodeSize DEF Listing, TypeInv, NodesTyped, NodesFilled, IsNode
<1>3. PICK w : w = [i \in 0 .. L + 1 |-> (L + 1 - i) * m]
  OBVIOUS
<1>4. /\ w \in [0 .. L + 1 -> Nat]
      /\ \A i \in 0 .. L : i + 1 \in 0 .. L + 1 /\ w[i] = w[i + 1] + m
      /\ \A i \in 0 .. L + 1 : w[i] <= (L + 1) * m
      /\ (L + 1) * m \in Nat
  <2>1. ASSUME NEW x \in Nat, NEW y \in Nat PROVE x * y \in Nat
    OBVIOUS
  <2>2. ASSUME NEW i \in 0 .. L + 1
        PROVE  L + 1 - i \in Nat /\ w[i] = (L + 1 - i) * m /\ w[i] \in Nat
    <3>1. L + 1 - i \in Nat
      BY <1>2
    <3> QED
      BY <1>3, <2>1, <3>1
  <2>3. ASSUME NEW i \in 0 .. L PROVE i + 1 \in 0 .. L + 1 /\ w[i] = w[i + 1] + m
    <3>1. PICK x \in Nat : x = L + 1 - (i + 1) /\ L + 1 - i = x + 1
      <4>1. L + 1 - (i + 1) \in Nat /\ L + 1 - i = (L + 1 - (i + 1)) + 1
        BY <1>2
      <4> QED
        BY <4>1
    <3>2. (x + 1) * m = x * m + m
      OBVIOUS
    <3>3. i \in 0 .. L + 1 /\ i + 1 \in 0 .. L + 1
      BY <1>2
    <3>4. w[i] = (L + 1 - i) * m /\ w[i + 1] = (L + 1 - (i + 1)) * m
      BY <1>3, <3>3
    <3> QED
      BY <3>1, <3>2, <3>3, <3>4
  <2>4. ASSUME NEW i \in 0 .. L + 1 PROVE w[i] <= (L + 1) * m
    <3>1. PICK x \in Nat : x = L + 1 - i /\ i \in Nat /\ x + i = L + 1
      BY <1>2, <2>2
    <3>2. (x + i) * m = x * m + i * m /\ x * m \in Nat /\ i * m \in Nat
      BY <2>1, <3>1
    <3> QED
      BY <2>2, <3>1, <3>2
  <2>5. (L + 1) * m \in Nat
    <3>1. L + 1 \in Nat
      BY <1>2
    <3> QED
      BY <2>1, <3>1
  <2>6. w \in [0 .. L + 1 -> Nat]
    BY <1>3, <2>2
  <2> QED
    BY <2>3, <2>4, <2>5, <2>6
<1>5. PICK index : /\ index \in [leaves -> 0 .. L]
                   /\ \A n \in leaves : list[index[n]] = n
                   /\ \A i \in 0 .. L : index[list[i]] = i
  <2>1. PICK x : x = [n \in leaves |-> CHOOSE i \in 0 .. L : list[i] = n]
    OBVIOUS
  <2>2. \A n \in leaves : x[n] \in 0 .. L /\ list[x[n]] = n
    BY <2>1 DEF Listing
  <2>3. \A i \in 0 .. L : x[list[i]] = i
    BY <2>2 DEF Listing
  <2> QED
    BY <2>1, <2>2, <2>3
<1>6. PICK rank : rank = [it \in Iterators |->
                            IF it.cur_ = Null THEN 0
                            ELSE IF it.cur_ \in leaves THEN w[index[it.cur_]] - it.pos_ ELSE 1]
  OBVIOUS
<1>7. \A n \in leaves : index[n] \in 0 .. L /\ w[index[n]] \in Nat /\ w[index[n]] >= m
                        /\ w[index[n]] <= (L + 1) * m
  <2> SUFFICES ASSUME NEW n \in leaves, NEW i \in 0 .. L, i = index[n]
               PROVE  w[i] \in Nat /\ w[i] >= m /\ w[i] <= (L + 1) * m
    BY <1>5
  <2>1. i \in 0 .. L + 1 /\ i + 1 \in 0 .. L + 1
    BY <1>2
  <2>2. w[i] = w[i + 1] + m /\ w[i + 1] \in Nat
    BY <1>4, <2>1
  <2>3. w[i] <= (L + 1) * m
    BY <1>4, <2>1
  <2> QED
    BY <1>1, <2>2, <2>3
<1>8. ASSUME NEW it \in Iterators
      PROVE  /\ it.cur_ \in Nodes \cup {Null} /\ it.pos_ \in 0 .. LeafSlots /\ it.pos_ \in Nat
             /\ rank[it] \in Nat /\ rank[it] <= (L + 1) * m
             /\ it.cur_ # Null => rank[it] > 0
  <2>1. it.cur_ \in Nodes \cup {Null} /\ it.pos_ \in 0 .. LeafSlots /\ it.pos_ \in Nat
    BY <1>1 DEF Iterators, NodesOrNull
  <2>2. (L + 1) * m \in Nat /\ (L + 1) * m >= 1
    <3>1. Header \in leaves
      BY DEF TypeInv, NodesTyped
    <3> QED
      BY <1>1, <1>4, <1>7, <3>1
  <2>3. CASE it.cur_ = Null
    BY <1>6, <2>1, <2>2, <2>3
  <2>4. CASE it.cur_ \in leaves
    <3>1. rank[it] = w[index[it.cur_]] - it.pos_
      BY <1>2, <1>6, <2>4
    <3> QED
      BY <1>1, <1>7, <2>1, <2>2, <2>4, <3>1
  <2>5. CASE it.cur_ # Null /\ it.cur_ \notin leaves
    BY <1>6, <2>1, <2>2, <2>5
  <2> QED
    BY <2>3, <2>4, <2>5
<1>9. ASSUME NEW it \in Iterators, it.cur_ # Null
      PROVE  Advance(it) \in Iterators /\ rank[Advance(it)] < rank[it]
  <2>1. it.cur_ \in Nodes /\ it.pos_ \in 0 .. LeafSlots /\ rank[it] \in Nat /\ rank[it] > 0
    BY <1>8, <1>9
  <2>2. PICK n, p, jt : n = it.cur_ /\ p = it.pos_ /\ jt = Advance(it)
    OBVIOUS
  <2>3. it = [cur_ |-> n, pos_ |-> p]
    BY <2>2 DEF Iterators
  <2>4. CASE p + 1 >= Size(entry[n])
    <3>1. jt = [cur_ |-> next[n], pos_ |-> 0]
      BY <2>2, <2>4 DEF Advance
    <3>2. jt \in Iterators /\ jt.cur_ = next[n] /\ jt.pos_ = 0
      BY <1>1, <1>2, <2>1, <2>2, <3>1 DEF Iterators, NodesOrNull
    <3>3. CASE next[n] = Null
      <4>1. rank[jt] = 0
        BY <1>6, <3>2, <3>3
      <4> QED
        BY <2>1, <2>2, <3>2, <4>1
    <3>4. CASE next[n] # Null
      <4>1. n \in leaves /\ next[n] \in leaves
        BY <1>2, <2>1, <2>2, <3>4
      <4>2. PICK i \in 0 .. L : i = index[n] /\ list[i] = n
        BY <1>5, <4>1
      <4>3. i < L
        <5>1. i # L
          BY <3>4, <4>2 DEF Listing
        <5> QED
          BY <1>2, <5>1
      <4>4. i + 1 \in 0 .. L /\ next[n] = list[i + 1]
        BY <4>2, <4>3 DEF Listing
      <4>5. index[next[n]] = i + 1
        BY <1>5, <4>4
      <4>6. rank[jt] = w[i + 1] - 0
        BY <1>2, <1>6, <3>2, <4>1, <4>5
      <4>7. rank[it] = w[i] - p
        BY <1>2, <1>6, <2>2, <4>1, <4>2
      <4>8. w[i] = w[i + 1] + m /\ w[i + 1] \in Nat
        BY <1>4
      <4> QED
        BY <1>1, <2>1, <2>2, <3>2, <4>6, <4>7, <4>8
    <3> QED
      BY <3>3, <3>4
  <2>5. CASE ~ (p + 1 >= Size(entry[n]))
    <3>1. jt = [cur_ |-> n, pos_ |-> p + 1]
      BY <2>2, <2>3, <2>5 DEF Advance
    <3>2. Size(entry[n]) \in Nat /\ Size(entry[n]) <= LeafSlots
      BY <1>2, <2>1, <2>2
    <3>3. p + 1 \in 0 .. LeafSlots
      BY <1>1, <2>1, <2>2, <2>5, <3>2
    <3>4. jt \in Iterators /\ jt.cur_ = n /\ jt.pos_ = p + 1
      BY <2>1, <2>2, <3>1, <3>3 DEF Iterators, NodesOrNull
    <3>5. n \in leaves
      <4>1. n \notin leaves => Size(entry[n]) = 0
        BY <1>2, <2>1, <2>2, FS_EmptySet DEF Size
      <4> QED
        BY <2>1, <2>2, <2>5, <4>1
    <3>6. rank[jt] = w[index[n]] - (p + 1)
      BY <1>2, <1>6, <3>4, <3>5
    <3>7. rank[it] = w[index[n]] - p
      BY <1>2, <1>6, <2>2, <3>5
    <3> QED
      BY <1>7, <2>1, <2>2, <3>4, <3>5, <3>6, <3>7
  <2> QED
    BY <2>4, <2>5
<1>10. rank \in [Iterators -> Nat]
  BY <1>6, <1>8
<1>11. ComesDown(rank, (L + 1) * m)
  BY <1>4, <1>8, <1>9, <1>10 DEF ComesDown
<1> QED
  BY <1>11

\* What Settle computes, and that it never turns back.
LEMMA SettleIs ==
    ASSUME NEW rank, NEW bound, ComesDown(rank, bound)
    PROVE  \A it \in Iterators :
             /\ Settle[it] = IF it.cur_ = Null THEN it
                             ELSE IF ValueAt(it) # 0 THEN it ELSE Settle[Advance(it)]
             /\ Settle[it] \in Iterators /\ rank[Settle[it]] <= rank[it]
<1> DEFINE stop == {it \in Iterators : it.cur_ = Null \/ ValueAt(it) # 0}
<1>1. PICK d : d = [it \in Iterators |-> IF it \in stop THEN it ELSE Advance(it)]
  OBVIOUS
<1>2. ASSUME NEW it \in Iterators
      PROVE  /\ it \in stop <=> it.cur_ = Null \/ ValueAt(it) # 0
             /\ it \notin stop => /\ d[it] = Advance(it)
                                  /\ Advance(it) \in Iterators /\ rank[Advance(it)] < rank[it]
  BY <1>1 DEF ComesDown
<1>3. d \in [Iterators -> Iterators]
  BY <1>1, <1>2
<1>4. /\ rank \in [Iterators -> Nat] /\ bound \in Nat /\ \A it \in Iterators : rank[it] <= bound
      /\ \A it \in Iterators \ stop : rank[d[it]] < rank[it]
  BY <1>2 DEF ComesDown
<1> HIDE DEF stop
<1>5. PICK f : Follows(f, Iterators, stop, d)
  BY <1>3, <1>4, DownwardRecursion
<1>6. f = [it \in Iterators |-> IF it \in stop THEN it ELSE f[d[it]]]
  BY <1>5 DEF Follows
<1>7. f = [it \in Iterators |-> IF it.cur_ = Null THEN it
                                ELSE IF ValueAt(it) # 0 THEN it ELSE f[Advance(it)]]
  BY <1>2, <1>6
<1> DEFINE s == CHOOSE g : g = [it \in Iterators |->
                                  IF it.cur_ = Null THEN it
                                  ELSE IF ValueAt(it) # 0 THEN it ELSE g[Advance(it)]]
<1>8. s = [it \in Iterators |-> IF it.cur_ = Null THEN it
                                ELSE IF ValueAt(it) # 0 THEN it ELSE s[Advance(it)]]
  BY <1>7, Zenon
<1>9. Settle = s
  BY Zenon DEF Settle
<1> HIDE DEF s
<1>10. Settle = [it \in Iterators |-> IF it.cur_ = Null THEN it
                                      ELSE IF ValueAt(it) # 0 THEN it ELSE Settle[Advance(it)]]
  BY <1>8, <1>9
<1>11. Settle = [it \in Iterators |-> IF it \in stop THEN it ELSE Settle[d[it]]]
  BY <1>2, <1>10
<1>12. \A it \in Iterators : Settle[it] \in Iterators /\ rank[Settle[it]] <= rank[it]
  <2>1. Follows(Settle, Iterators, stop, d)
    BY <1>11 DEF Follows
  <2> QED
    BY <1>3, <1>4, <2>1, DownwardEnd
<1>13. \A it \in Iterators : Settle[it] = IF it.cur_ = Null THEN it
                                          ELSE IF ValueAt(it) # 0 THEN it ELSE Settle[Advance(it)]
  BY <1>10, Zenon
<1> QED
  BY <1>12, <1>13

LEMMA VisitedIs ==
    ASSUME NEW rank, NEW bound, ComesDown(rank, bound)
    PROVE  \A it \in Iterators :
             Visited[it] = IF it.cur_ = Null THEN <<>>
                           ELSE <<Current(it)>> \o Visited[IteratorNext(it)]
<1> DEFINE stop == {it \in Iterators : it.cur_ = Null}
<1>1. PICK d : d = [it \in Iterators |-> IF it.cur_ = Null THEN it ELSE IteratorNext(it)]
  OBVIOUS
<1>2. PICK h : h = [it \in Iterators |-> Current(it)]
  OBVIOUS
<1>3. ASSUME NEW it \in Iterators, it.cur_ # Null
      PROVE  /\ d[it] = IteratorNext(it) /\ IteratorNext(it) \in Iterators
             /\ rank[IteratorNext(it)] < rank[it]
  <2>1. PICK jt : jt = Advance(it)
    OBVIOUS
  <2>2. jt \in Iterators /\ rank[jt] < rank[it] /\ rank \in [Iterators -> Nat]
    BY <1>3, <2>1 DEF ComesDown
  <2>3. Settle[jt] \in Iterators /\ rank[Settle[jt]] <= rank[jt]
    BY <2>2, SettleIs
  <2>4. IteratorNext(it) = Settle[jt]
    BY <2>1 DEF IteratorNext
  <2>5. rank[Settle[jt]] < rank[it]
    BY <2>2, <2>3
  <2> QED
    BY <1>1, <1>3, <2>3, <2>4, <2>5
<1>4. d \in [Iterators -> Iterators]
  BY <1>1, <1>3
<1>5. /\ rank \in [Iterators -> Nat] /\ bound \in Nat /\ \A it \in Iterators : rank[it] <= bound
      /\ \A it \in Iterators \ stop : rank[d[it]] < rank[it]
  BY <1>3 DEF ComesDown
<1>6. \A it \in Iterators : it \in stop <=> it.cur_ = Null
  OBVIOUS
<1> HIDE DEF stop
<1>7. PICK f : Gathers(f, Iterators, stop, h, d)
  BY <1>4, <1>5, GatherRecursion
<1>8. f = [it \in Iterators |-> IF it \in stop THEN <<>> ELSE <<h[it]>> \o f[d[it]]]
  BY <1>7 DEF Gathers
<1>9. f = [it \in Iterators |-> IF it.cur_ = Null THEN <<>>
                                ELSE <<Current(it)>> \o f[IteratorNext(it)]]
  BY <1>2, <1>3, <1>6, <1>8
<1> DEFINE v == CHOOSE g : g = [it \in Iterators |->
                                  IF it.cur_ = Null THEN <<>>
                                  ELSE <<Current(it)>> \o g[IteratorNext(it)]]
<1>10. v = [it \in Iterators |-> IF it.cur_ = Null THEN <<>>
                                 ELSE <<Current(it)>> \o v[IteratorNext(it)]]
  BY <1>9, Zenon
<1>11. Visited = v
  BY Zenon DEF Visited
<1> HIDE DEF v
<1> QED
  BY <1>10, <1>11, Zenon

\* The iterator stands before all but the first q entries.
Stands(list, L, q, it) ==
    /\ it \in Iterators
    /\ \/ \E i \in 0 .. L : /\ it.cur_ = list[i] /\ it.pos_ < Size(entry[list[i]])
                            /\ q = Offset(list, L, i) + it.pos_
       \/ it.cur_ = Null /\ q = Cardinality(Held)

\* Behind an iterator that leaves a leaf for the next one.
LEMMA NextLeafStands ==
    ASSUME TypeInv, NEW list, NEW L, Listing(list, L), NEW i \in 0 .. L
    PROVE  Stands(list, L, Offset(list, L, i + 1), [cur_ |-> next[list[i]], pos_ |-> 0])
<1>1. /\ L \in Nat /\ LeafSlots \in Nat /\ leaves \subseteq Nodes
      /\ \A x \in 0 .. L : list[x] \in leaves
  BY SlotsAssumption, NodesWithin DEF Listing
<1>2. PICK jt : jt = [cur_ |-> next[list[i]], pos_ |-> 0]
  OBVIOUS
<1>3. CASE i < L
  <2>1. PICK j \in 0 .. L : j = i + 1 /\ j # 0 /\ next[list[i]] = list[j]
    BY <1>1, <1>3 DEF Listing
  <2>2. jt \in Iterators /\ jt.cur_ = list[j] /\ jt.pos_ = 0
    BY <1>1, <1>2, <2>1 DEF Iterators, NodesOrNull
  <2>3. 0 < Size(entry[list[j]])
    <3>1. list[j] \in leaves
      BY <1>1
    <3>2. DOMAIN entry[list[j]] # {}
      BY <2>1 DEF Listing
    <3>3. IsFiniteSet(DOMAIN entry[list[j]])
      BY <3>1, HeldIs
    <3>4. Cardinality(DOMAIN entry[list[j]]) \in Nat /\ Cardinality(DOMAIN entry[list[j]]) # 0
      BY <3>2, <3>3, FS_CardinalityType, FS_EmptySet
    <3> QED
      BY <3>4 DEF Size
  <2>4. Offset(list, L, j) = Offset(list, L, j) + 0
    BY OffsetIs
  <2> QED
    BY <1>2, <2>1, <2>2, <2>3, <2>4 DEF Stands
<1>4. CASE ~ (i < L)
  <2>1. i = L /\ next[list[i]] = Null
    BY <1>1, <1>4 DEF Listing
  <2>2. jt \in Iterators /\ jt.cur_ = Null
    BY <1>1, <1>2, <2>1 DEF Iterators, NodesOrNull
  <2>3. Offset(list, L, i + 1) = Cardinality(Held)
    BY <2>1, OffsetIs
  <2> QED
    BY <1>2, <2>2, <2>3 DEF Stands
<1> QED
  BY <1>3, <1>4

LEMMA StandsAt ==
    ASSUME TypeInv, NEW list, NEW L, Listing(list, L), NEW q, NEW it, Stands(list, L, q, it)
    PROVE  /\ q \in Nat /\ q <= Cardinality(Held) /\ it \in Iterators
           /\ it.cur_ = Null <=> q = Cardinality(Held)
           /\ it.cur_ # Null =>
                \E k \in Held : /\ Below(Held, k) = q /\ Current(it) = <<k, ValueOf(k)>>
                                /\ ValueAt(it) = ValueOf(k)
                                /\ Stands(list, L, q + 1, Advance(it))
<1>1. /\ L \in Nat /\ LeafSlots \in Nat /\ leaves \subseteq Nodes /\ Null \notin leaves
      /\ \A x \in 0 .. L : list[x] \in leaves
  BY SlotsAssumption, NodesWithin, NullAssumption DEF Listing
<1>2. it \in Iterators /\ Cardinality(Held) \in Nat
  BY HeldIs, FS_CardinalityType DEF Stands
<1>3. CASE it.cur_ = Null
  BY <1>1, <1>2, <1>3 DEF Stands
<1>4. CASE it.cur_ # Null
  <2>1. PICK i \in 0 .. L : /\ it.cur_ = list[i] /\ it.pos_ < Size(entry[list[i]])
                            /\ q = Offset(list, L, i) + it.pos_
    BY <1>4 DEF Stands
  <2>2. PICK n, p, c, z : /\ n = list[i] /\ p = it.pos_ /\ c = Offset(list, L, i)
                          /\ z = Size(entry[n])
    OBVIOUS
  <2>3. /\ n \in leaves /\ c \in Nat /\ z \in Nat /\ p \in Nat /\ p < z /\ q = c + p
        /\ p \in 0 .. LeafSlots /\ it = [cur_ |-> n, pos_ |-> p]
    <3>1. c \in Nat /\ z \in Nat
      BY <2>2, OffsetIs
    <3>2. p \in 0 .. LeafSlots /\ it = [cur_ |-> n, pos_ |-> p]
      BY <1>2, <2>1, <2>2 DEF Iterators
    <3> QED
      BY <1>1, <2>1, <2>2, <3>1, <3>2
  <2>4. c + z <= Cardinality(Held) /\ Offset(list, L, i + 1) = c + z
    BY <2>2, OffsetIs
  <2>5. PICK k : k = KeysInOrder(n)[p + 1]
    OBVIOUS
  <2>6. k \in DOMAIN entry[n] /\ Below(Held, k) = q
    <3>1. PICK r \in 1 .. z : r = p + 1 /\ c + r - 1 = q
      BY <2>3
    <3>2. KeysInOrder(n)[r] \in DOMAIN entry[n] /\ Below(Held, KeysInOrder(n)[r]) = c + r - 1
      BY <2>2, LeafEntries
    <3> QED
      BY <2>5, <3>1, <3>2
  <2>7. k \in Held /\ ValueOf(k) = entry[n][k]
    BY <2>3, <2>6, HeldIs
  <2>8. ValueAt(it) = ValueOf(k) /\ Current(it) = <<k, ValueOf(k)>>
    BY <2>1, <2>2, <2>3, <2>5, <2>7 DEF ValueAt, Current
  <2>9. Stands(list, L, q + 1, Advance(it))
    <3>1. CASE p + 1 >= z
      <4>1. Advance(it) = [cur_ |-> next[list[i]], pos_ |-> 0]
        BY <2>1, <2>2, <3>1 DEF Advance
      <4>2. q + 1 = Offset(list, L, i + 1)
        BY <2>3, <2>4, <3>1
      <4> QED
        BY <4>1, <4>2, NextLeafStands
    <3>2. CASE ~ (p + 1 >= z)
      <4>1. PICK jt : jt = [cur_ |-> n, pos_ |-> p + 1]
        OBVIOUS
      <4>2. Advance(it) = jt
        BY <2>1, <2>2, <2>3, <3>2, <4>1 DEF Advance
      <4>3. z <= LeafSlots
        BY <1>1, <2>2, <2>3 DEF TypeInv, NodesTyped, IsNode
      <4>4. p + 1 \in 0 .. LeafSlots /\ p + 1 < z /\ q + 1 = c + (p + 1)
        BY <1>1, <2>3, <3>2, <4>3
      <4>5. jt \in Iterators /\ jt.cur_ = list[i] /\ jt.pos_ = p + 1
        BY <1>1, <2>2, <2>3, <4>1, <4>4 DEF Iterators, NodesOrNull
      <4> QED
        BY <2>2, <4>2, <4>4, <4>5 DEF Stands
    <3> QED
      BY <3>1, <3>2
  <2>10. q \in Nat /\ q < Cardinality(Held)
    BY <1>2, <2>3, <2>4
  <2> QED
    BY <1>2, <1>4, <2>6, <2>7, <2>8, <2>9, <2>10
<1> QED
  BY <1>3, <1>4

\* The entries at a set of keys begin with the one at its least key.
LEMMA EntriesFrom ==
    ASSUME TypeInv, NEW list, NEW L, Listing(list, L), NEW S \in SUBSET Held,
           NEW k \in S, \A j \in S \ {k} : k < j
    PROVE  EntriesAt(S) = <<<<k, ValueOf(k)>>>> \o EntriesAt(S \ {k})
<1>1. PICK R, s, r : R = S \ {k} /\ s = EntriesAt(S) /\ r = EntriesAt(R)
  OBVIOUS
<1>2. R \in SUBSET Held /\ S \in SUBSET Int /\ R \in SUBSET Int
  BY <1>1, HeldIs
<1>3. /\ s \in Seq(Keys \X Values) /\ Len(s) = Cardinality(S)
      /\ IsFiniteSet(S) /\ Cardinality(S) \in Nat
      /\ \A j \in S : s[Below(S, j) + 1] = <<j, ValueOf(j)>>
  BY <1>1, EntriesAre
<1>4. /\ r \in Seq(Keys \X Values) /\ Len(r) = Cardinality(R)
      /\ IsFiniteSet(R) /\ Cardinality(R) \in Nat
      /\ \A j \in R : r[Below(R, j) + 1] = <<j, ValueOf(j)>>
  BY <1>1, <1>2, EntriesAre
<1>5. Cardinality(S) = Cardinality(R) + 1
  BY <1>1, <1>3, <1>4, FS_RemoveElement
<1>6. Below(S, k) = 0
  <2>1. \A j \in S : ~ (j < k)
    <3>1. \A j \in S : j \in Int
      BY <1>2
    <3> QED
      BY <3>1
  <2>2. {j \in S : j < k} = {}
    BY <2>1
  <2> QED
    BY <2>2, FS_EmptySet DEF Below
<1>7. ASSUME NEW j \in R PROVE Below(S, j) = Below(R, j) + 1
  <2>1. k < j
    BY <1>1
  <2>2. {i \in S : i < j} = {i \in R : i < j} \cup {k} /\ k \notin {i \in R : i < j}
    BY <1>1, <2>1
  <2>3. {i \in R : i < j} \in SUBSET R
    OBVIOUS
  <2>4. IsFiniteSet({i \in R : i < j})
    BY <1>4, <2>3, FS_Subset
  <2> QED
    BY <2>2, <2>4, FS_AddElement DEF Below
<1>8. <<k, ValueOf(k)>> \in Keys \X Values /\ s[1] = <<k, ValueOf(k)>>
  <2>1. Below(S, k) + 1 = 1 /\ 1 \in 1 .. Len(s)
    BY <1>3, <1>4, <1>5, <1>6
  <2>2. s[1] = <<k, ValueOf(k)>>
    BY <1>3, <2>1
  <2> QED
    BY <1>3, <2>1, <2>2, ElementOfSeq
<1>9. PICK t : t = <<<<k, ValueOf(k)>>>> \o r
  OBVIOUS
<1>10. /\ t \in Seq(Keys \X Values) /\ Len(t) = 1 + Len(r)
       /\ t[1] = <<k, ValueOf(k)>> /\ \A i \in 1 .. Len(r) : t[i + 1] = r[i]
  <2>1. PICK e : e = <<<<k, ValueOf(k)>>>>
    OBVIOUS
  <2>2. e \in Seq(Keys \X Values) /\ Len(e) = 1 /\ e[1] = <<k, ValueOf(k)>>
    BY <1>8, <2>1
  <2>3. /\ t \in Seq(Keys \X Values) /\ Len(t) = Len(e) + Len(r)
        /\ \A i \in 1 .. Len(e) + Len(r) : t[i] = IF i <= Len(e) THEN e[i] ELSE r[i - Len(e)]
    BY <1>4, <1>9, <2>1, <2>2, ConcatProperties
  <2>4. Len(r) \in Nat
    BY <1>4
  <2>5. t[1] = e[1]
    <3>1. 1 \in 1 .. Len(e) + Len(r) /\ 1 <= Len(e)
      BY <2>2, <2>4
    <3> QED
      BY <2>3, <3>1
  <2>6. ASSUME NEW i \in 1 .. Len(r) PROVE t[i + 1] = r[i]
    <3>1. i + 1 \in 1 .. Len(e) + Len(r) /\ ~ (i + 1 <= Len(e)) /\ (i + 1) - Len(e) = i
      BY <2>2, <2>4
    <3>2. t[i + 1] = r[(i + 1) - Len(e)]
      BY <2>3, <3>1
    <3> QED
      BY <3>1, <3>2
  <2> QED
    BY <2>2, <2>3, <2>5, <2>6
<1>11. \A i \in 1 .. Len(s) : s[i] = t[i]
  <2> SUFFICES ASSUME NEW i \in 1 .. Len(s) PROVE s[i] = t[i]
    OBVIOUS
  <2>1. CASE i = 1
    BY <1>8, <1>10, <2>1
  <2>2. CASE i # 1
    <3>1. PICK p \in 1 .. Cardinality(R) : i = p + 1
      <4>1. i - 1 \in 1 .. Cardinality(R) /\ i = (i - 1) + 1
        BY <1>3, <1>4, <1>5, <2>2
      <4> QED
        BY <4>1
    <3>2. PICK j : j = Ascending(R)[p]
      OBVIOUS
    <3>3. j \in R /\ Below(R, j) = p - 1
      BY <1>2, <1>4, <3>2, AscendingIs
    <3>4. j \in S /\ Below(R, j) + 1 = p /\ Below(S, j) + 1 = i
      <4>1. j \in S
        BY <1>1, <3>3
      <4>2. Below(R, j) + 1 = p
        BY <3>1, <3>3
      <4>3. Below(S, j) = Below(R, j) + 1
        BY <1>7, <3>3
      <4> QED
        BY <3>1, <4>1, <4>2, <4>3
    <3>5. s[i] = <<j, ValueOf(j)>> /\ r[p] = <<j, ValueOf(j)>>
      BY <1>3, <1>4, <3>3, <3>4
    <3>6. t[i] = r[p]
      BY <1>4, <1>10, <3>1
    <3> QED
      BY <3>5, <3>6
  <2> QED
    BY <2>1, <2>2
<1>12. s = t
  <2>1. Len(s) = Len(t)
    BY <1>3, <1>4, <1>5, <1>10
  <2> QED
    BY <1>3, <1>10, <1>11, <2>1, SeqEqual
<1> QED
  BY <1>1, <1>9, <1>12

\* What an iterator in front of all but the first q entries has yet to visit.
Rest(q) == {k \in NotRemoved : Below(Held, k) >= q}

LEMMA RestIs ==
    ASSUME TypeInv, NEW list, NEW L, Listing(list, L), NEW k \in Held, NEW q \in Nat,
           Below(Held, k) = q
    PROVE  /\ Rest(q) \in SUBSET Held /\ Rest(q) \ {k} = Rest(q + 1)
           /\ k \in Rest(q) <=> ValueOf(k) # 0
           /\ \A j \in Rest(q) \ {k} : k < j
<1>1. IsFiniteSet(Held) /\ Held \in SUBSET Int
  BY HeldIs
<1>2. /\ \A j \in Held : j \in Int /\ Below(Held, j) \in Nat
      /\ \A i, j \in Held : i < j => Below(Held, i) < Below(Held, j)
  BY <1>1, BelowIs
<1>3. /\ \A j : j \in Rest(q) <=> j \in Held /\ ValueOf(j) # 0 /\ Below(Held, j) >= q
      /\ \A j : j \in Rest(q + 1) <=> j \in Held /\ ValueOf(j) # 0 /\ Below(Held, j) >= q + 1
  BY DEF Rest, NotRemoved
<1>4. ASSUME NEW j \in Held, j # k, Below(Held, j) >= q
      PROVE  k < j /\ Below(Held, j) >= q + 1
  <2>1. j \in Int /\ k \in Int /\ Below(Held, j) \in Nat
    BY <1>2
  <2>2. ~ (j < k)
    <3>1. j < k => Below(Held, j) < q
      BY <1>2
    <3> QED
      BY <1>4, <2>1, <3>1
  <2>3. k < j
    BY <1>4, <2>1, <2>2
  <2>4. q < Below(Held, j)
    BY <1>2, <2>3
  <2> QED
    BY <2>1, <2>3, <2>4
<1>5. ~ (q >= q + 1) /\ q >= q
  OBVIOUS
<1>6. \A j \in Held : Below(Held, j) >= q + 1 => Below(Held, j) >= q
  BY <1>2
<1>7. \A j : j \in Rest(q) \ {k} <=> j \in Rest(q + 1)
  BY <1>3, <1>4, <1>5, <1>6
<1> QED
  BY <1>3, <1>4, <1>5, <1>7

LEMMA VisitsRest ==
    ASSUME TypeInv, NEW list, NEW L, Listing(list, L)
    PROVE  \A q, it : Stands(list, L, q, it) => Visited[Settle[it]] = EntriesAt(Rest(q))
<1>1. PICK rank, bound : ComesDown(rank, bound)
  BY AdvanceDown
<1>2. PICK N \in Nat : N = Cardinality(Held)
  BY HeldIs, FS_CardinalityType
<1> DEFINE Shown(q, it) == Visited[Settle[it]] = EntriesAt(Rest(q))
           T == {j \in Nat : \A q, it : Stands(list, L, q, it) /\ q + j = N => Shown(q, it)}
<1>3. 0 \in T
  <2> SUFFICES ASSUME NEW q, NEW it, Stands(list, L, q, it), q + 0 = N
               PROVE  Shown(q, it)
    OBVIOUS
  <2>1. q = N /\ it \in Iterators /\ it.cur_ = Null
    <3>1. q \in Nat /\ it \in Iterators /\ (it.cur_ = Null <=> q = Cardinality(Held))
      BY StandsAt
    <3>2. q = N
      BY <3>1
    <3> QED
      BY <1>2, <3>1, <3>2
  <2>2. Settle[it] = it /\ Visited[it] = <<>>
    BY <1>1, <2>1, SettleIs, VisitedIs
  <2>3. \A k \in Held : Below(Held, k) \in Nat /\ Below(Held, k) < N
    BY <1>2, HeldIs, BelowIs
  <2>4. Rest(q) = {}
    BY <2>1, <2>3 DEF Rest, NotRemoved
  <2>5. EntriesAt({}) = <<>>
    <3>1. EntriesAt({}) \in Seq(Keys \X Values) /\ Len(EntriesAt({})) = 0
      BY EntriesAre, FS_EmptySet
    <3> QED
      BY <3>1, EmptySeq
  <2> QED
    BY <2>2, <2>4, <2>5
<1>4. ASSUME NEW j \in Nat, j \in T PROVE j + 1 \in T
  <2> SUFFICES ASSUME NEW q, NEW it, Stands(list, L, q, it), q + (j + 1) = N
               PROVE  Shown(q, it)
    OBVIOUS
  <2>1. q \in Nat /\ q # N /\ q + 1 \in Nat /\ (q + 1) + j = N
    <3>1. q \in Nat
      BY StandsAt
    <3> QED
      BY <3>1
  <2>2. it \in Iterators /\ it.cur_ # Null
    BY <1>2, <2>1, StandsAt
  <2>3. PICK k \in Held : /\ Below(Held, k) = q /\ Current(it) = <<k, ValueOf(k)>>
                          /\ ValueAt(it) = ValueOf(k)
                          /\ Stands(list, L, q + 1, Advance(it))
    BY <2>2, StandsAt
  <2>4. Visited[Settle[Advance(it)]] = EntriesAt(Rest(q + 1))
    BY <1>4, <2>1, <2>3
  <2>5. /\ Rest(q) \in SUBSET Held /\ Rest(q) \ {k} = Rest(q + 1)
        /\ k \in Rest(q) <=> ValueOf(k) # 0
        /\ \A x \in Rest(q) \ {k} : k < x
    BY <2>1, <2>3, RestIs
  <2>6. CASE ValueOf(k) = 0
    <3>1. Settle[it] = Settle[Advance(it)]
      BY <1>1, <2>2, <2>3, <2>6, SettleIs
    <3>2. Rest(q) = Rest(q + 1)
      BY <2>5, <2>6
    <3> QED
      BY <2>4, <3>1, <3>2
  <2>7. CASE ValueOf(k) # 0
    <3>1. Settle[it] = it
      BY <1>1, <2>2, <2>3, <2>7, SettleIs
    <3>2. Visited[it] = <<Current(it)>> \o Visited[IteratorNext(it)]
      BY <1>1, <2>2, VisitedIs
    <3>3. Visited[it] = <<<<k, ValueOf(k)>>>> \o EntriesAt(Rest(q + 1))
      BY <2>3, <2>4, <3>2 DEF IteratorNext
    <3>4. EntriesAt(Rest(q)) = <<<<k, ValueOf(k)>>>> \o EntriesAt(Rest(q) \ {k})
      BY <2>5, <2>7, EntriesFrom
    <3> QED
      BY <2>5, <3>1, <3>3, <3>4
  <2> QED
    BY <2>6, <2>7
<1>5. 0 .. N \subseteq T
  <2> HIDE DEF T
  <2> QED
    BY <1>3, <1>4, Upward
<1> SUFFICES ASSUME NEW q, NEW it, Stands(list, L, q, it)
             PROVE  Shown(q, it)
  OBVIOUS
<1>6. q \in Nat /\ q <= N
  BY <1>2, StandsAt
<1>7. N - q \in 0 .. N /\ q + (N - q) = N
  BY <1>6
<1>8. N - q \in T
  <2> HIDE DEF T
  <2> QED
    BY <1>5, <1>7
<1> QED
  BY <1>7, <1>8

LEMMA IteratorVisits ==
    ASSUME TypeInv, Reached, ChainSorted
    PROVE  IteratorAtRest
<1> SUFFICES ASSUME NEW _pos \in 0 .. Size(entry[Header]),
                    _pos = 0 \/ _pos < Size(entry[Header])
             PROVE  Visited[Begin(_pos)] = EntriesAt(Rest(_pos))
  BY DEF IteratorAtRest, Rest, Below
<1>1. PICK list, L : Listing(list, L)
  BY LeafList
<1>2. PICK rank, bound : ComesDown(rank, bound)
  BY <1>1, AdvanceDown
<1>3. /\ L \in Nat /\ 0 \in 0 .. L /\ list[0] = Header /\ Header \in Nodes
      /\ LeafSlots \in Nat /\ Header # Null
      /\ Size(entry[Header]) \in Nat /\ Size(entry[Header]) <= LeafSlots
  <2>1. L \in Nat /\ list[0] = Header /\ list[0] \in leaves
    BY <1>1 DEF Listing
  <2>2. Header \in Nodes /\ Header # Null
    BY <2>1, NodesWithin, NullAssumption
  <2>3. IsNode(entry[Header], LeafSlots, Values)
    BY <2>2 DEF TypeInv, NodesTyped
  <2>4. Size(entry[Header]) \in Nat /\ Size(entry[Header]) <= LeafSlots
    BY <2>3, NodeSize DEF IsNode
  <2> QED
    BY <2>1, <2>2, <2>4, SlotsAssumption
<1>4. PICK it : it = [cur_ |-> Header, pos_ |-> _pos]
  OBVIOUS
<1>5. it \in Iterators /\ it.cur_ = Header /\ it.pos_ = _pos
  <2>1. _pos \in 0 .. LeafSlots
    BY <1>3
  <2> QED
    BY <1>3, <1>4, <2>1 DEF Iterators, NodesOrNull
<1>6. Begin(_pos) = Settle[it]
  BY <1>4 DEF Begin
<1>7. Offset(list, L, 0) = 0 /\ Offset(list, L, 0 + 1) = 0 + Size(entry[Header])
  BY <1>1, <1>3, OffsetIs
<1>8. CASE _pos < Size(entry[Header])
  <2>1. _pos = Offset(list, L, 0) + it.pos_
    BY <1>5, <1>7
  <2>2. Stands(list, L, _pos, it)
    BY <1>3, <1>5, <1>8, <2>1 DEF Stands
  <2> QED
    BY <1>1, <1>6, <2>2, VisitsRest
<1>9. CASE ~ (_pos < Size(entry[Header]))
  <2>1. _pos = 0 /\ Size(entry[Header]) = 0
    BY <1>3, <1>9
  <2>2. ValueAt(it) = 0
    BY <1>5, <2>1 DEF ValueAt
  <2>3. Settle[it] = Settle[Advance(it)]
    BY <1>2, <1>3, <1>5, <2>2, SettleIs
  <2>4. Advance(it) = [cur_ |-> next[list[0]], pos_ |-> 0]
    BY <1>3, <1>5, <2>1 DEF Advance
  <2>5. Stands(list, L, Offset(list, L, 0 + 1), Advance(it))
    BY <1>1, <1>3, <2>4, NextLeafStands
  <2>6. Offset(list, L, 0 + 1) = _pos
    BY <1>7, <2>1
  <2> QED
    BY <1>1, <1>6, <2>3, <2>5, <2>6, VisitsRest
<1> QED
  BY <1>8, <1>9

(***************************************************************************)
(* Begin and operator++ of Iterator over a tree at rest visit every entry  *)
(* that is not removed once, in the order of the keys.                     *)
(***************************************************************************)
THEOREM IteratorAtRestHolds == Spec => []IteratorAtRest
<1>1. TypeInv /\ Reached /\ ChainSorted => IteratorAtRest
  BY IteratorVisits
<1> QED
  BY <1>1, InitTypeInv, InitLinks, InitTree, InitReached, NextTypeInv, NextLinks, NextTree,
     NextReached, ChainSortedHolds, PTL DEF Spec

-----------------------------------------------------------------------------
(* Sums of sizes *)

\* A sum of f, whose arguments are taken out of the set one by one.
AddsUp(sum, f, S) ==
    sum = [s \in SUBSET S |->
             IF s = {} THEN 0 ELSE LET x == CHOOSE x \in s : TRUE IN f[x] + sum[s \ {x}]]

LEMMA SumIs ==
    ASSUME NEW f
    PROVE  SumFunction(f) = (CHOOSE sum : AddsUp(sum, f, DOMAIN f))[DOMAIN f]
  BY Zenon DEF SumFunction, SumFunctionOnSet, FoldFunctionOnSet, MapThenFoldSet, AddsUp

LEMMA DisjointUnion ==
    ASSUME NEW a, NEW b, IsFiniteSet(a), IsFiniteSet(b), a \cap b = {}
    PROVE  /\ IsFiniteSet(a \cup b) /\ Cardinality(a) \in Nat /\ Cardinality(b) \in Nat
           /\ Cardinality(a \cup b) = Cardinality(a) + Cardinality(b)
<1>1. Cardinality(a) \in Nat /\ Cardinality(b) \in Nat
  BY FS_CardinalityType
<1>2. /\ IsFiniteSet(a \cup b)
      /\ Cardinality(a \cup b) = Cardinality(a) + Cardinality(b) - Cardinality(a \cap b)
  BY FS_Union
<1>3. Cardinality(a \cap b) = 0
  BY FS_EmptySet
<1> QED
  BY <1>1, <1>2, <1>3

\* The values of f are the sizes of sets that have no element in common.
SizesOf(f, F, S) ==
    /\ IsFiniteSet(S) /\ DOMAIN f = S
    /\ \A x \in S : IsFiniteSet(F[x]) /\ f[x] = Cardinality(F[x])
    /\ \A x, y \in S : x # y => F[x] \cap F[y] = {}

\* The sizes of sets that have no element in common add up to the size of their union.
LEMMA SizesAddUp ==
    ASSUME NEW S, NEW F, NEW f, SizesOf(f, F, S)
    PROVE  /\ IsFiniteSet(UNION {F[x] : x \in S})
           /\ SumFunction(f) = Cardinality(UNION {F[x] : x \in S})
<1> SUFFICES ASSUME IsFiniteSet(S), \A x \in S : IsFiniteSet(F[x]),
                    \A x, y \in S : x # y => F[x] \cap F[y] = {},
                    DOMAIN f = S, \A x \in S : f[x] = Cardinality(F[x])
             PROVE  /\ IsFiniteSet(UNION {F[x] : x \in S})
                    /\ SumFunction(f) = Cardinality(UNION {F[x] : x \in S})
  BY DEF SizesOf
<1> DEFINE U(s) == UNION {F[x] : x \in s}
<1>1. PICK g : g = [s \in SUBSET S |-> Cardinality(U(s))]
  OBVIOUS
<1>2. ASSUME NEW s \in SUBSET S
      PROVE  IsFiniteSet(s) /\ Cardinality(s) \in Nat
  BY <1>2, FS_Subset, FS_CardinalityType
<1>3. ASSUME NEW s \in SUBSET S, NEW x \in s
      PROVE  /\ s \ {x} \in SUBSET S /\ Cardinality(s) = Cardinality(s \ {x}) + 1
             /\ U(s) = F[x] \cup U(s \ {x}) /\ F[x] \cap U(s \ {x}) = {}
  <2>1. IsFiniteSet(s) /\ Cardinality(s) \in Nat /\ Cardinality(s \ {x}) = Cardinality(s) - 1
    BY <1>2, FS_RemoveElement
  <2>2. Cardinality(s) = Cardinality(s \ {x}) + 1
    BY <2>1
  <2>3. \A y \in s \ {x} : y \in S /\ F[x] \cap F[y] = {}
    BY <1>3
  <2> QED
    BY <2>2, <2>3
<1>4. \A n \in Nat : \A s \in SUBSET S : Cardinality(s) = n => IsFiniteSet(U(s))
  <2> DEFINE T == {n \in Nat : \A s \in SUBSET S : Cardinality(s) = n => IsFiniteSet(U(s))}
  <2>1. 0 \in T
    <3>1. ASSUME NEW s \in SUBSET S, Cardinality(s) = 0 PROVE U(s) = {}
      BY <1>2, <3>1, FS_EmptySet
    <3> QED
      BY <3>1, FS_EmptySet
  <2>2. ASSUME NEW n \in Nat, n \in T PROVE n + 1 \in T
    <3> SUFFICES ASSUME NEW s \in SUBSET S, Cardinality(s) = n + 1
                 PROVE  IsFiniteSet(U(s))
      OBVIOUS
    <3>1. s # {}
      BY FS_EmptySet
    <3>2. PICK x \in s : TRUE
      BY <3>1
    <3>3. Cardinality(s \ {x}) \in Nat /\ s \ {x} \in SUBSET S
      BY <1>2, <1>3
    <3>4. Cardinality(s \ {x}) = n
      BY <1>3, <3>3
    <3>5. PICK a, b : a = F[x] /\ b = U(s \ {x})
      OBVIOUS
    <3>6. IsFiniteSet(a) /\ IsFiniteSet(b)
      BY <2>2, <3>3, <3>4, <3>5
    <3>7. IsFiniteSet(a \cup b)
      BY <3>6, FS_Union
    <3>8. U(s) = a \cup b
      BY <1>3, <3>5
    <3> QED
      BY <3>7, <3>8
  <2>3. ASSUME NEW n \in Nat PROVE n \in T
    <3> HIDE DEF T
    <3> QED
      BY <2>1, <2>2, Upward
  <2> QED
    BY <2>3
<1>5. ASSUME NEW s \in SUBSET S PROVE IsFiniteSet(U(s)) /\ Cardinality(U(s)) \in Nat
  <2> HIDE DEF U
  <2> QED
    BY <1>2, <1>4, FS_CardinalityType
<1>6. ASSUME NEW s \in SUBSET S, NEW x \in s
      PROVE  s \ {x} \in SUBSET S /\ g[s] = f[x] + g[s \ {x}]
  <2>1. PICK a, b, c : a = F[x] /\ b = U(s \ {x}) /\ c = U(s)
    OBVIOUS
  <2>2. s \ {x} \in SUBSET S /\ c = a \cup b /\ a \cap b = {}
    BY <1>3, <2>1
  <2>3. IsFiniteSet(a) /\ IsFiniteSet(b)
    BY <1>5, <2>1, <2>2
  <2>4. Cardinality(a \cup b) = Cardinality(a) + Cardinality(b)
    BY <2>2, <2>3, DisjointUnion
  <2>5. Cardinality(c) = Cardinality(a) + Cardinality(b)
    BY <2>2, <2>4
  <2>6. g[s] = Cardinality(c) /\ g[s \ {x}] = Cardinality(b) /\ f[x] = Cardinality(a)
    BY <1>1, <2>1, <2>2
  <2> QED
    BY <2>2, <2>5, <2>6
<1>7. g[{}] = 0
  <2>1. U({}) = {}
    OBVIOUS
  <2>2. g[{}] = Cardinality(U({}))
    BY <1>1
  <2> QED
    BY <2>1, <2>2, FS_EmptySet
<1>8. AddsUp(g, f, S)
  <2>1. ASSUME NEW s \in SUBSET S
        PROVE  g[s] = IF s = {} THEN 0 ELSE LET x == CHOOSE x \in s : TRUE IN f[x] + g[s \ {x}]
    <3>1. CASE s = {}
      BY <1>7, <3>1
    <3>2. CASE s # {}
      <4>1. PICK x : x = CHOOSE y \in s : TRUE
        OBVIOUS
      <4>2. x \in s
        BY <3>2, <4>1
      <4> QED
        BY <1>6, <3>2, <4>1, <4>2
    <3> QED
      BY <3>1, <3>2
  <2>2. g = [s \in SUBSET S |-> g[s]]
    BY <1>1
  <2> QED
    BY <2>1, <2>2, Zenon DEF AddsUp
<1>9. PICK h : h = CHOOSE sum : AddsUp(sum, f, S)
  OBVIOUS
<1>10. AddsUp(h, f, S)
  BY <1>8, <1>9, Zenon
<1>11. \A s \in SUBSET S : h[s] = IF s = {} THEN 0
                                 ELSE LET x == CHOOSE x \in s : TRUE IN f[x] + h[s \ {x}]
  BY <1>10, Zenon DEF AddsUp
<1>12. h[S] = g[S]
  <2> DEFINE T == {n \in Nat : \A s \in SUBSET S : Cardinality(s) = n => h[s] = g[s]}
  <2>1. 0 \in T
    <3>1. ASSUME NEW s \in SUBSET S, Cardinality(s) = 0 PROVE h[s] = g[s]
      <4>1. s = {}
        BY <1>2, <3>1, FS_EmptySet
      <4> QED
        BY <1>7, <1>11, <4>1
    <3> QED
      BY <3>1
  <2>2. ASSUME NEW n \in Nat, n \in T PROVE n + 1 \in T
    <3> SUFFICES ASSUME NEW s \in SUBSET S, Cardinality(s) = n + 1
                 PROVE  h[s] = g[s]
      OBVIOUS
    <3>1. s # {}
      BY FS_EmptySet
    <3>2. PICK x : x = CHOOSE y \in s : TRUE
      OBVIOUS
    <3>3. x \in s
      BY <3>1, <3>2
    <3>4. Cardinality(s \ {x}) \in Nat /\ s \ {x} \in SUBSET S
      BY <1>2, <1>3, <3>3
    <3>5. Cardinality(s \ {x}) = n
      BY <1>3, <3>3, <3>4
    <3>6. h[s \ {x}] = g[s \ {x}]
      BY <2>2, <3>4, <3>5
    <3>7. h[s] = f[x] + h[s \ {x}]
      BY <1>11, <3>1, <3>2
    <3> QED
      BY <1>6, <3>3, <3>6, <3>7
  <2>3. ASSUME NEW n \in Nat PROVE n \in T
    <3> HIDE DEF T
    <3> QED
      BY <2>1, <2>2, Upward
  <2> QED
    BY <1>2, <2>3
<1>13. S \in SUBSET S
  OBVIOUS
<1>14. SumFunction(f) = h[S]
  BY <1>9, SumIs
<1>15. g[S] = Cardinality(U(S))
  BY <1>1, <1>13
<1> QED
  BY <1>5, <1>12, <1>13, <1>14, <1>15

-----------------------------------------------------------------------------
(* The nodes of a tree at rest *)

\* Once there is a second node, the first leaf has entries.
HeaderFilled == top # 1 => DOMAIN entry[Header] # {}

LEMMA InitHeader == Init => HeaderFilled
  BY DEF Init, HeaderFilled

LEMMA NextHeader ==
    ASSUME TypeInv, HeaderFilled, [Next]_vars
    PROVE  HeaderFilled'
<1>1. ASSUME UNCHANGED <<top, entry>> PROVE HeaderFilled'
  BY <1>1 DEF HeaderFilled
<1>2. ASSUME NEW t \in Threads, pc[t] = "parent" PROVE top # 1
  <2>1. new[t] \in 1 .. top /\ new[t] # Header
    BY <1>2 DEF TypeInv, Calls, CallOf
  <2> QED
    BY <2>1 DEF Header
<1>3. Header \in Nodes /\ Over(entry, Nodes)
  BY NodesWithin DEF TypeInv, NodesTyped
<1>4. ASSUME NEW n, NEW k, NEW x, NEW e, e = [entry EXCEPT ![n] = With(@, k, x)]
      PROVE  DOMAIN entry[Header] # {} => DOMAIN e[Header] # {}
  BY <1>3, <1>4 DEF With, Over
<1>5. ASSUME NEW t \in Threads, OutsideStep(t) PROVE HeaderFilled'
  <2>1. top' = top /\ (Remove(t) \/ UNCHANGED entry)
    BY <1>5, OutsideLocks DEF TypeInv
  <2>2. CASE Remove(t)
    <3>1. PICK n, k : entry' = IF Found(n, k) THEN [entry EXCEPT ![n] = With(@, k, 0)] ELSE entry
      BY <2>2 DEF Remove
    <3> QED
      BY <1>4, <2>1, <3>1 DEF HeaderFilled
  <2> QED
    BY <1>1, <2>1, <2>2
<1>6. ASSUME NEW t \in Threads, InsertStep(t) PROVE HeaderFilled'
  <2>1. CASE FindAndLock(t) \/ EnterParent(t) \/ Unlock(t)
    BY <1>1, <2>1 DEF FindAndLock, EnterParent, Unlock, node_vars
  <2>2. CASE WriteLeaf(t)
    BY <1>4, <2>2 DEF WriteLeaf, HeaderFilled
  <2>3. CASE SplitLeaf(t)
    <3>1. PICK q, n, k : q = cur[t] /\ n = top + 1 /\ k = Key(t)
      OBVIOUS
    <3>2. /\ Fresh(n) /\ q \in leaves /\ q \in Nodes /\ q # n
          /\ \E sep \in DOMAIN entry[q] : LeafCut(t, q, n, k, sep)
      BY <2>3, <3>1, SplitLeafFacts
    <3>3. CASE q = Header
      BY <3>2, <3>3 DEF LeafCut, HeaderFilled
    <3>4. CASE q # Header
      <4>1. q \in 1 .. top /\ Header \in leaves
        BY <3>2, NodesWithin DEF TypeInv, NodesTyped
      <4>2. top # 1
        BY <3>4, <4>1 DEF Header
      <4>3. Header # n
        BY <3>2, <4>1 DEF Fresh
      <4> QED
        BY <1>3, <3>2, <3>4, <4>2, <4>3 DEF LeafCut, HeaderFilled
    <3> QED
      BY <3>3, <3>4
  <2>4. CASE GrowRoot(t) \/ InsertChild(t) \/ SplitInner(t)
    <3>1. pc[t] = "parent" /\ UNCHANGED entry
      BY <2>4 DEF GrowRoot, InsertChild, SplitInner, LeaveParent
    <3> QED
      BY <1>2, <3>1 DEF HeaderFilled
  <2> QED
    BY <1>6, <2>1, <2>2, <2>3, <2>4 DEF InsertStep
<1>7. CASE UNCHANGED vars
  BY <1>1, <1>7 DEF vars, node_vars
<1> QED
  BY <1>5, <1>6, <1>7, NextIs

Kids(p) == LeftMost(p) \cup {child[p][s] : s \in DOMAIN child[p]}

\* The keys lead through every node of a tree at rest, from the root down.
Family(lv, at) ==
    /\ lv \in [Nodes -> Nat] /\ root \in 1 .. top /\ lv[root] \in Nat
    /\ \A n \in 1 .. top : lv[n] <= lv[root] /\ (lv[n] = 0 <=> n \in leaves)
    /\ \A l \in Nat, k \in Keys : l <= lv[root] => at[l][k] \in 1 .. top /\ lv[at[l][k]] = l
    /\ \A l \in Nat, k \in Keys : l + 1 <= lv[root] =>
          /\ at[l + 1][k] \in Inner /\ at[l][k] \in Kids(at[l + 1][k])
          /\ parent[at[l][k]] = at[l + 1][k]
    /\ \A k \in Keys : at[lv[root]][k] = root
    /\ \A n \in 1 .. top : n = root \/ \E k \in Keys : at[lv[n]][k] = n
    /\ \A p \in Inner : \A c \in Kids(p) :
          c \in 1 .. top /\ lv[p] = lv[c] + 1 /\ parent[c] = p /\ c # root
    /\ parent[root] = Null

LEMMA FamilyAtRest ==
    ASSUME TypeInv, Links, HeaderFilled, AtRest, NEW lv, NEW at, NEW left, Tree(lv, at, left)
    PROVE  Family(lv, at)
<1>1. /\ \A n : ~Pending(n)
      /\ \A n : Reach(left, n) = n
  BY DEF AtRest, Pending, Reach
<1>2. /\ lv \in [Nodes -> Nat] /\ root \in 1 .. top /\ root \in Nodes /\ lv[root] \in Nat
      /\ \A n \in 1 .. top : lv[n] <= lv[root] /\ (lv[n] = 0 <=> n \in leaves)
  BY RootLevel DEF Tree, Levels, TypeInv, NodesTyped
<1>3. ASSUME NEW l \in Nat, NEW k \in Keys, l <= lv[root]
      PROVE  at[l][k] \in 1 .. top /\ lv[at[l][k]] = l
  BY <1>3, RouteAt
<1>4. ASSUME NEW l \in Nat, NEW k \in Keys, l + 1 <= lv[root]
      PROVE  /\ at[l + 1][k] \in Inner /\ at[l][k] \in Kids(at[l + 1][k])
             /\ parent[at[l][k]] = at[l + 1][k]
  <2>1. l <= lv[root] /\ l + 1 \in Nat /\ l + 1 # 0
    BY <1>2, <1>4
  <2>2. PICK p, c : p = at[l + 1][k] /\ c = at[l][k]
    OBVIOUS
  <2>3. p \in Inner /\ c \in 1 .. top
    BY <1>4, <2>1, <2>2, RouteAt
  <2>4. Leads(p, k, c)
    <3>1. c = Reach(left, at[l][k])
      BY <1>1, <2>2
    <3> QED
      BY <1>4, <2>2, <3>1 DEF Tree, Routes
  <2>5. parent[c] = p
    BY <2>3, <2>4, LeadsToChild
  <2>6. c \in Kids(p)
    <3>1. c # Null
      BY <2>3, NodesWithin
    <3> QED
      BY <2>4, <3>1 DEF Leads, LeadsIn, Kids, LeftMost
  <2> QED
    BY <2>2, <2>3, <2>5, <2>6
<1>5. \A k \in Keys : at[lv[root]][k] = root
  <2> SUFFICES ASSUME NEW k \in Keys PROVE at[lv[root]][k] = root
    OBVIOUS
  <2>1. Reach(left, at[lv[root]][k]) = root
    BY <1>2 DEF Tree, Routes
  <2> QED
    BY <1>1, <2>1
<1>6. ASSUME NEW n \in 1 .. top, n # root PROVE \E k \in Keys : at[lv[n]][k] = n
  <2>1. CASE n \in leaves
    <3>1. DOMAIN entry[n] # {} /\ DOMAIN entry[n] \subseteq Keys
      <4>1. top # 1
        BY <1>2, <1>6
      <4>2. n \in Nodes
        BY NodesWithin
      <4> QED
        BY <2>1, <4>1, <4>2 DEF HeaderFilled, TypeInv, NodesTyped, NodesFilled, IsNode
    <3>2. lv[n] = 0
      BY <1>2, <2>1
    <3> QED
      BY <2>1, <3>1, <3>2 DEF Tree, Placed
  <2>2. CASE n \notin leaves
    <3>1. n \in Inner /\ n \in Nodes
      BY <1>6, <2>2, NodesWithin DEF Inner
    <3>2. DOMAIN child[n] # {} /\ DOMAIN child[n] \subseteq Keys
      BY <3>1 DEF TypeInv, NodesTyped, NodesFilled, IsNode
    <3> QED
      BY <3>1, <3>2 DEF Tree, Placed
  <2> QED
    BY <2>1, <2>2
<1>7. ASSUME NEW p \in Inner, NEW c \in Kids(p)
      PROVE  c \in 1 .. top /\ lv[p] = lv[c] + 1 /\ parent[c] = p /\ c # root
  <2>1. p \in 1 .. top /\ p # Null
    BY NodesWithin
  <2>2. ASSUME c \in LeftMost(p)
        PROVE  c \in 1 .. top /\ lv[p] = lv[c] + 1 /\ parent[c] = p
    BY <2>2, ChildNode DEF LeftMost, Tree, Levels, Links, LinksOf
  <2>3. ASSUME NEW s \in DOMAIN child[p], c = child[p][s]
        PROVE  c \in 1 .. top /\ lv[p] = lv[c] + 1 /\ parent[c] = p
    <3>1. lv[p] = lv[c] + 1 /\ c \in 1 .. top
      BY <2>3, ChildLevel
    <3>2. parent[c] = p
      BY <2>3 DEF Links, LinksOf
    <3> QED
      BY <3>1, <3>2
  <2>4. c \in 1 .. top /\ lv[p] = lv[c] + 1 /\ parent[c] = p
    BY <2>2, <2>3 DEF Kids
  <2> QED
    BY <2>1, <2>4 DEF Links
<1>8. parent[root] = Null
  BY DEF Links
<1> QED
  BY <1>2, <1>3, <1>4, <1>5, <1>6, <1>7, <1>8 DEF Family

\* What two keys share at a level they share above it.
LEMMA SameAbove ==
    ASSUME NEW lv, NEW at, Family(lv, at), NEW j \in Keys, NEW k \in Keys,
           NEW a \in Nat, NEW b \in Nat, a <= b, b <= lv[root], at[a][j] = at[a][k]
    PROVE  at[b][j] = at[b][k]
<1> DEFINE S == {l \in Nat : at[l][j] = at[l][k]}
<1>1. lv[root] \in Nat
  BY DEF Family
<1>2. a \in S
  OBVIOUS
<1>3. ASSUME NEW l \in a .. b - 1, l \in S PROVE l + 1 \in S
  <2>1. l \in Nat /\ l + 1 \in Nat /\ l + 1 <= lv[root] /\ at[l][j] = at[l][k]
    BY <1>1, <1>3
  <2>2. parent[at[l][j]] = at[l + 1][j] /\ parent[at[l][k]] = at[l + 1][k]
    BY <2>1 DEF Family
  <2> QED
    BY <2>1, <2>2
<1>4. b \in a .. b
  OBVIOUS
<1> HIDE DEF S
<1>5. b \in S
  BY <1>2, <1>3, <1>4, Upward
<1> QED
  BY <1>5 DEF S

\* The nodes below n, and n.
Under(lv, at, n) ==
    {n} \cup {m \in 1 .. top : /\ lv[m] <= lv[n]
                               /\ \E k \in Keys : at[lv[m]][k] = m /\ at[lv[n]][k] = n}

LEMMA UnderIs ==
    ASSUME NodesTyped, NEW lv, NEW at, Family(lv, at)
    PROVE  /\ \A n \in leaves : Under(lv, at, n) = {n}
           /\ Under(lv, at, root) = 1 .. top
           /\ \A n \in 1 .. top : Under(lv, at, n) \subseteq 1 .. top
<1>1. leaves \subseteq 1 .. top /\ 1 .. top \subseteq Nodes /\ root \in 1 .. top
  <2>1. top \in 1 .. MaxNode /\ MaxNode \in Nat
    BY SlotsAssumption DEF NodesTyped, Nodes
  <2> QED
    BY <2>1 DEF NodesTyped, Nodes
<1>2. \A n \in 1 .. top : lv[n] \in Nat /\ lv[n] <= lv[root] /\ (lv[n] = 0 <=> n \in leaves)
  BY <1>1 DEF Family
<1>3. ASSUME NEW n \in leaves PROVE Under(lv, at, n) = {n}
  <2>1. lv[n] = 0
    BY <1>1, <1>2
  <2>2. \A m \in 1 .. top : lv[m] <= lv[n] => lv[m] = lv[n]
    BY <1>2, <2>1
  <2> QED
    BY <2>2 DEF Under
<1>4. ASSUME NEW m \in 1 .. top PROVE m \in Under(lv, at, root)
  <2>1. CASE m = root
    BY <2>1 DEF Under
  <2>2. CASE m # root
    <3>1. PICK k \in Keys : at[lv[m]][k] = m
      BY <2>2 DEF Family
    <3>2. at[lv[root]][k] = root
      BY DEF Family
    <3> QED
      BY <1>2, <3>1, <3>2 DEF Under
  <2> QED
    BY <2>1, <2>2
<1>5. \A n \in 1 .. top : Under(lv, at, n) \subseteq 1 .. top
  BY DEF Under
<1> QED
  BY <1>1, <1>3, <1>4, <1>5

\* Below an inner node are what is below its children, each once.
LEMMA UnderKids ==
    ASSUME TypeInv, NEW lv, NEW at, Family(lv, at), NEW p \in Inner
    PROVE  /\ Under(lv, at, p) = {p} \cup UNION {Under(lv, at, c) : c \in Kids(p)}
           /\ \A c \in Kids(p) : p \notin Under(lv, at, c)
           /\ \A c, d \in Kids(p) : c # d => Under(lv, at, c) \cap Under(lv, at, d) = {}
<1>1. p \in 1 .. top /\ p \in Nodes /\ 1 .. top \subseteq Nodes
  BY NodesWithin
<1>2. /\ \A n \in 1 .. top : lv[n] \in Nat /\ lv[n] <= lv[root]
      /\ lv[root] \in Nat /\ root \in 1 .. top
  BY <1>1 DEF Family
<1>3. PICK l \in Nat : lv[p] = l + 1 /\ l + 1 <= lv[root] /\ l <= lv[root]
  <2>1. lv[p] # 0
    BY <1>1 DEF Family, Inner
  <2>2. lv[p] - 1 \in Nat /\ lv[p] = (lv[p] - 1) + 1 /\ (lv[p] - 1) + 1 <= lv[root]
        /\ lv[p] - 1 <= lv[root]
    BY <1>1, <1>2, <2>1
  <2> QED
    BY <2>2, Zenon
<1>4. ASSUME NEW c \in Kids(p)
      PROVE  /\ c \in 1 .. top /\ lv[c] = l /\ parent[c] = p
             /\ \E k \in Keys : at[l][k] = c
             /\ \A k \in Keys : at[l][k] = c => at[l + 1][k] = p
  <2>1. c \in 1 .. top /\ lv[p] = lv[c] + 1 /\ parent[c] = p /\ c # root
    BY DEF Family
  <2>2. lv[c] = l
    BY <1>2, <1>3, <2>1
  <2>3. \E k \in Keys : at[lv[c]][k] = c
    BY <2>1 DEF Family
  <2>4. ASSUME NEW k \in Keys, at[l][k] = c PROVE at[l + 1][k] = p
    <3>1. parent[at[l][k]] = at[l + 1][k]
      BY <1>3 DEF Family
    <3> QED
      BY <2>1, <2>4, <3>1
  <2> QED
    BY <2>1, <2>2, <2>3, <2>4
<1>5. ASSUME NEW c \in Kids(p), NEW m \in Under(lv, at, c)
      PROVE  /\ m \in Under(lv, at, p) /\ m # p /\ m \in 1 .. top /\ lv[m] <= l
             /\ \E k \in Keys : at[lv[m]][k] = m /\ at[l][k] = c
  <2>1. /\ m \in 1 .. top /\ lv[m] <= l
        /\ \E k \in Keys : at[lv[m]][k] = m /\ at[l][k] = c
    BY <1>2, <1>4, <1>5 DEF Under
  <2>2. PICK k \in Keys : at[lv[m]][k] = m /\ at[l][k] = c
    BY <2>1
  <2>3. at[lv[p]][k] = p
    BY <1>3, <1>4, <2>2
  <2>4. lv[m] <= lv[p] /\ m # p
    BY <1>2, <1>3, <2>1
  <2> QED
    BY <2>1, <2>2, <2>3, <2>4 DEF Under
<1>6. ASSUME NEW m \in Under(lv, at, p), m # p
      PROVE  \E c \in Kids(p) : m \in Under(lv, at, c)
  <2>1. PICK k \in Keys : /\ m \in 1 .. top /\ lv[m] <= lv[p]
                          /\ at[lv[m]][k] = m /\ at[lv[p]][k] = p
    BY <1>6 DEF Under
  <2>2. PICK c : c = at[l][k]
    OBVIOUS
  <2>3. c \in Kids(p)
    <3>1. at[l][k] \in Kids(at[l + 1][k])
      BY <1>3 DEF Family
    <3> QED
      BY <1>3, <2>1, <2>2, <3>1
  <2>4. lv[m] <= l
    <3>1. lv[m] # lv[p]
      BY <1>6, <2>1
    <3> QED
      BY <1>2, <1>3, <2>1, <3>1
  <2>5. lv[c] = l
    BY <1>4, <2>3
  <2> QED
    BY <2>1, <2>2, <2>3, <2>4, <2>5 DEF Under
<1>7. ASSUME NEW c \in Kids(p), NEW d \in Kids(p), NEW m,
             m \in Under(lv, at, c), m \in Under(lv, at, d)
      PROVE  c = d
  <2>1. PICK j \in Keys : at[lv[m]][j] = m /\ at[l][j] = c
    BY <1>5, <1>7
  <2>2. PICK k \in Keys : at[lv[m]][k] = m /\ at[l][k] = d
    BY <1>5, <1>7
  <2>3. lv[m] \in Nat /\ lv[m] <= l
    BY <1>2, <1>5, <1>7
  <2>4. at[l][j] = at[l][k]
    BY <1>3, <2>1, <2>2, <2>3, SameAbove
  <2> QED
    BY <2>1, <2>2, <2>4
<1>8. p \in Under(lv, at, p)
  BY DEF Under
<1>9. \A m : m \in Under(lv, at, p) <=> m = p \/ \E c \in Kids(p) : m \in Under(lv, at, c)
  BY <1>5, <1>6, <1>8
<1>10. \A c, d \in Kids(p) : c # d => Under(lv, at, c) \cap Under(lv, at, d) = {}
  BY <1>7
<1> QED
  BY <1>5, <1>9, <1>10

-----------------------------------------------------------------------------
(* The search of Print from the root *)

\* What the search adds up over the whole tree when node m counts the elements of G[m].
LEMMA DfsSumIs ==
    ASSUME TypeInv, Links, NEW lv, NEW at, Family(lv, at),
           NEW G, \A m \in 1 .. top : IsFiniteSet(G[m]),
           \A m, n \in 1 .. top : m # n => G[m] \cap G[n] = {},
           NEW leaf, \A n \in leaves : leaf[n] = Cardinality(G[n]),
           NEW inner \in Nat, \A p \in Inner : Cardinality(G[p]) = inner
    PROVE  DfsSum(leaf, inner) = Cardinality(UNION {G[m] : m \in 1 .. top})
<1> DEFINE U(n) == UNION {G[m] : m \in Under(lv, at, n)}
           Add(s, n) == inner + SumFunction([c \in LeftMost(n) |-> s[c]])
                              + SumFunction([r \in DOMAIN child[n] |-> s[child[n][r]]])
<1>1. PICK D : D = [n \in Nodes |-> U(n)]
  OBVIOUS
<1>2. PICK g : g = [n \in Nodes |-> IF n \in 1 .. top THEN Cardinality(D[n]) ELSE inner]
  OBVIOUS
<1>3. /\ 1 .. top \subseteq Nodes /\ leaves \subseteq 1 .. top /\ Inner = 1 .. top \ leaves
      /\ root \in 1 .. top /\ IsFiniteSet(1 .. top)
  <2>1. top \in Int /\ 1 \in Int
    BY NodesWithin
  <2>2. IsFiniteSet(1 .. top)
    BY <2>1, FS_Interval
  <2>3. root \in 1 .. top
    BY DEF Family
  <2> QED
    BY <2>2, <2>3, NodesWithin DEF Inner
<1>4. \A n \in 1 .. top : Under(lv, at, n) \subseteq 1 .. top
  BY UnderIs DEF TypeInv
<1>5. ASSUME NEW n \in 1 .. top PROVE D[n] = U(n) /\ IsFiniteSet(D[n]) /\ g[n] = Cardinality(D[n])
  <2>1. PICK S, f : S = Under(lv, at, n) /\ f = [x \in S |-> Cardinality(G[x])]
    OBVIOUS
  <2>2. S \in SUBSET (1 .. top)
    BY <1>4, <2>1
  <2>3. IsFiniteSet(S)
    BY <1>3, <2>2, FS_Subset
  <2>4. \A x \in S : IsFiniteSet(G[x]) /\ f[x] = Cardinality(G[x])
    BY <2>1, <2>2
  <2>5. \A x, y \in S : x # y => G[x] \cap G[y] = {}
    BY <2>2
  <2>6. IsFiniteSet(UNION {G[x] : x \in S})
    <3>1. SizesOf(f, G, S)
      BY <2>1, <2>3, <2>4, <2>5 DEF SizesOf
    <3> QED
      BY <3>1, SizesAddUp
  <2> QED
    BY <1>1, <1>2, <1>3, <2>1, <2>6
<1>6. ASSUME NEW p \in Inner
      PROVE  /\ p \in 1 .. top /\ \A c \in Kids(p) : c \in 1 .. top
             /\ D[p] = G[p] \cup UNION {D[c] : c \in Kids(p)}
             /\ \A c \in Kids(p) : G[p] \cap D[c] = {}
             /\ \A c, d \in Kids(p) : c # d => D[c] \cap D[d] = {}
  <2>1. p \in 1 .. top /\ \A c \in Kids(p) : c \in 1 .. top
    BY <1>3 DEF Family
  <2>2. \A c \in Kids(p) : D[c] = U(c)
    BY <1>5, <2>1
  <2>3. D[p] = U(p)
    BY <1>5, <2>1
  <2>4. /\ Under(lv, at, p) = {p} \cup UNION {Under(lv, at, c) : c \in Kids(p)}
        /\ \A c \in Kids(p) : p \notin Under(lv, at, c)
        /\ \A c, d \in Kids(p) : c # d => Under(lv, at, c) \cap Under(lv, at, d) = {}
    BY UnderKids
  <2>5. \A c \in Kids(p) : Under(lv, at, c) \subseteq 1 .. top
    BY <1>4, <2>1
  <2>6. \A x : x \in D[p] <=> x \in G[p] \/ \E c \in Kids(p) : x \in D[c]
    BY <2>2, <2>3, <2>4
  <2>7. ASSUME NEW c \in Kids(p), NEW x, x \in G[p], x \in D[c] PROVE FALSE
    <3>1. PICK m \in Under(lv, at, c) : x \in G[m]
      BY <2>2, <2>7
    <3> QED
      BY <2>1, <2>4, <2>5, <2>7, <3>1
  <2>8. ASSUME NEW c \in Kids(p), NEW d \in Kids(p), c # d, NEW x, x \in D[c], x \in D[d]
        PROVE  FALSE
    <3>1. PICK m \in Under(lv, at, c) : x \in G[m]
      BY <2>2, <2>8
    <3>2. PICK n \in Under(lv, at, d) : x \in G[n]
      BY <2>2, <2>8
    <3>3. m # n
      BY <2>4, <2>8
    <3> QED
      BY <2>5, <2>8, <3>1, <3>2, <3>3
  <2> QED
    BY <2>1, <2>6, <2>7, <2>8
<1>7. ASSUME NEW p \in Inner PROVE g[p] = Add(g, p)
  <2>1. PICK LM, SL, lm, sl, H : /\ LM = LeftMost(p) /\ SL = DOMAIN child[p]
                                 /\ lm = [c \in LM |-> g[c]] /\ sl = [r \in SL |-> g[child[p][r]]]
                                 /\ H = [r \in SL |-> D[child[p][r]]]
    OBVIOUS
  <2>2. PICK a, b, c : /\ a = G[p] /\ b = UNION {D[x] : x \in LM} /\ c = UNION {H[r] : r \in SL}
    OBVIOUS
  <2>3. /\ \A x \in LM : x \in Kids(p) /\ x = leftmost[p] /\ x # Null
        /\ \A r \in SL : child[p][r] \in Kids(p)
        /\ \A x \in Kids(p) : x \in LM \/ \E r \in SL : x = child[p][r]
    BY <2>1 DEF Kids, LeftMost
  <2>4. /\ \A x, y \in LM : x = y
        /\ \A x \in LM : \A r \in SL : x # child[p][r]
        /\ \A r, s \in SL : child[p][r] = child[p][s] => r = s
    BY <2>1, <2>3 DEF Links, LinksOf
  <2>5. IsFiniteSet(SL) /\ IsFiniteSet(LM)
    <3>1. p \in Nodes
      BY <1>3
    <3>2. IsFiniteSet(SL)
      BY <2>1, <3>1 DEF TypeInv, NodesTyped, IsNode
    <3>3. LM \in SUBSET {leftmost[p]} /\ IsFiniteSet({leftmost[p]})
      BY <2>1, FS_Singleton DEF LeftMost
    <3> QED
      BY <3>2, <3>3, FS_Subset
  <2>6. IsFiniteSet(b) /\ SumFunction(lm) = Cardinality(b)
    <3>1. \A x \in LM : IsFiniteSet(D[x]) /\ lm[x] = Cardinality(D[x])
      BY <1>5, <1>6, <2>1, <2>3
    <3>2. \A x, y \in LM : x # y => D[x] \cap D[y] = {}
      BY <2>4
    <3>3. DOMAIN lm = LM
      BY <2>1
    <3>4. SizesOf(lm, D, LM)
      BY <2>5, <3>1, <3>2, <3>3 DEF SizesOf
    <3>5. /\ IsFiniteSet(UNION {D[x] : x \in LM})
          /\ SumFunction(lm) = Cardinality(UNION {D[x] : x \in LM})
      BY <3>4, SizesAddUp
    <3> QED
      BY <2>2, <3>5
  <2>7. IsFiniteSet(c) /\ SumFunction(sl) = Cardinality(c)
    <3>1. \A r \in SL : IsFiniteSet(H[r]) /\ sl[r] = Cardinality(H[r])
      BY <1>5, <1>6, <2>1, <2>3
    <3>2. \A r, s \in SL : r # s => H[r] \cap H[s] = {}
      BY <1>6, <2>1, <2>3, <2>4
    <3>3. DOMAIN sl = SL
      BY <2>1
    <3>4. SizesOf(sl, H, SL)
      BY <2>5, <3>1, <3>2, <3>3 DEF SizesOf
    <3>5. /\ IsFiniteSet(UNION {H[r] : r \in SL})
          /\ SumFunction(sl) = Cardinality(UNION {H[r] : r \in SL})
      BY <3>4, SizesAddUp
    <3> QED
      BY <2>2, <3>5
  <2>8. IsFiniteSet(a) /\ Cardinality(a) = inner
    BY <1>6, <2>2
  <2>9. D[p] = (a \cup b) \cup c /\ a \cap b = {} /\ (a \cup b) \cap c = {}
    <3>1. \A x : x \in b <=> \E y \in LM : x \in D[y]
      BY <2>2
    <3>2. \A x : x \in c <=> \E r \in SL : x \in D[child[p][r]]
      BY <2>1, <2>2
    <3>3. \A x : x \in D[p] <=> x \in a \/ x \in b \/ x \in c
      BY <1>6, <2>2, <2>3, <3>1, <3>2
    <3>4. \A x : ~ (x \in a /\ x \in b) /\ ~ (x \in a /\ x \in c)
      BY <1>6, <2>2, <2>3, <3>1, <3>2
    <3>5. \A x : ~ (x \in b /\ x \in c)
      BY <1>6, <2>3, <2>4, <3>1, <3>2
    <3> QED
      BY <3>3, <3>4, <3>5
  <2>10. /\ IsFiniteSet(a \cup b) /\ Cardinality(a \cup b) = inner + Cardinality(b)
         /\ Cardinality(a \cup b) \in Nat
    BY <2>6, <2>8, <2>9, DisjointUnion, FS_CardinalityType
  <2>11. Cardinality((a \cup b) \cup c) = Cardinality(a \cup b) + Cardinality(c)
    BY <2>7, <2>9, <2>10, DisjointUnion
  <2>12. g[p] = Cardinality(D[p])
    BY <1>5, <1>6
  <2>13. g[p] = inner + Cardinality(b) + Cardinality(c)
    BY <2>9, <2>10, <2>11, <2>12
  <2> QED
    BY <2>1, <2>6, <2>7, <2>13
<1>8. ASSUME NEW n \in Nodes, n \notin 1 .. top PROVE g[n] = Add(g, n)
  <2>1. LeftMost(n) = {} /\ DOMAIN child[n] = {}
    BY <1>3, <1>8 DEF TypeInv, NodesFilled, LeftMost
  <2>2. ASSUME NEW f, DOMAIN f = {} PROVE SumFunction(f) = 0
    <3>1. PICK S : S = {}
      OBVIOUS
    <3>2. SizesOf(f, D, S)
      BY <2>2, <3>1, FS_EmptySet DEF SizesOf
    <3>3. /\ IsFiniteSet(UNION {D[x] : x \in S})
          /\ SumFunction(f) = Cardinality(UNION {D[x] : x \in S})
      BY <3>2, SizesAddUp
    <3>4. UNION {D[x] : x \in S} = {}
      BY <3>1
    <3> QED
      BY <3>3, <3>4, FS_EmptySet
  <2>3. PICK lm, sl : /\ lm = [c \in LeftMost(n) |-> g[c]]
                      /\ sl = [r \in DOMAIN child[n] |-> g[child[n][r]]]
    OBVIOUS
  <2>4. SumFunction(lm) = 0 /\ SumFunction(sl) = 0
    BY <2>1, <2>2, <2>3
  <2>5. g[n] = inner
    BY <1>2, <1>8
  <2>6. Add(g, n) = inner + SumFunction(lm) + SumFunction(sl)
    BY <2>3
  <2> HIDE DEF Add
  <2> QED
    BY <2>4, <2>5, <2>6
<1>9. ASSUME NEW n \in leaves PROVE g[n] = leaf[n]
  <2>1. Under(lv, at, n) = {n}
    BY UnderIs DEF TypeInv
  <2>2. D[n] = UNION {G[m] : m \in {n}}
    BY <1>3, <1>5, <2>1
  <2>3. D[n] = G[n]
    <3>1. \A x : x \in D[n] <=> x \in G[n]
      BY <2>2
    <3>2. D[n] = UNION {D[n]} /\ G[n] = UNION {G[n]}
      OBVIOUS
    <3>3. {G[m] : m \in {n}} = {G[n]}
      OBVIOUS
    <3> QED
      BY <2>2, <3>2, <3>3
  <2> QED
    BY <1>3, <1>5, <2>3
<1>10. g = [n \in Nodes |-> IF n \in leaves THEN leaf[n] ELSE Add(g, n)]
  <2>1. ASSUME NEW n \in Nodes PROVE g[n] = IF n \in leaves THEN leaf[n] ELSE Add(g, n)
    <3> HIDE DEF Add
    <3> QED
      BY <1>3, <1>7, <1>8, <1>9
  <2>2. g = [n \in Nodes |-> g[n]]
    BY <1>2
  <2> HIDE DEF Add
  <2> QED
    BY <2>1, <2>2, Zenon
<1> DEFINE h == CHOOSE s : s = [n \in Nodes |-> IF n \in leaves THEN leaf[n] ELSE Add(s, n)]
<1>11. h = [n \in Nodes |-> IF n \in leaves THEN leaf[n] ELSE Add(h, n)]
  BY <1>10, Zenon
<1>12. DfsSum(leaf, inner) = h[root]
  BY Zenon DEF DfsSum
<1> HIDE DEF h
<1>13. h[root] = g[root]
  <2> DEFINE T == {l \in Nat : \A n \in 1 .. top : lv[n] = l => h[n] = g[n]}
  <2>1. /\ \A n \in 1 .. top : n \in leaves => h[n] = leaf[n]
        /\ \A n \in 1 .. top : n \notin leaves => h[n] = Add(h, n)
    <3> HIDE DEF Add
    <3> QED
      BY <1>3, <1>11, Zenon
  <2>2. 0 \in T
    <3>1. ASSUME NEW n \in 1 .. top, lv[n] = 0 PROVE h[n] = g[n]
      <4>1. n \in leaves
        BY <3>1 DEF Family
      <4> QED
        BY <1>9, <2>1, <4>1
    <3> QED
      BY <3>1
  <2>3. ASSUME NEW l \in Nat, l \in T PROVE l + 1 \in T
    <3> SUFFICES ASSUME NEW n \in 1 .. top, lv[n] = l + 1
                 PROVE  h[n] = g[n]
      OBVIOUS
    <3>1. n \in Inner
      <4>1. l + 1 # 0
        OBVIOUS
      <4> QED
        BY <4>1 DEF Inner, Family
    <3>2. ASSUME NEW c \in Kids(n) PROVE h[c] = g[c]
      <4>1. c \in 1 .. top /\ lv[n] = lv[c] + 1 /\ lv[c] \in Nat
        BY <1>3, <3>1 DEF Family
      <4>2. lv[c] = l
        BY <4>1
      <4> QED
        BY <2>3, <4>1, <4>2
    <3>3. [c \in LeftMost(n) |-> h[c]] = [c \in LeftMost(n) |-> g[c]]
      BY <3>2 DEF Kids
    <3>4. [r \in DOMAIN child[n] |-> h[child[n][r]]] = [r \in DOMAIN child[n] |-> g[child[n][r]]]
      BY <3>2 DEF Kids
    <3>5. Add(h, n) = Add(g, n)
      BY <3>3, <3>4
    <3>6. h[n] = Add(h, n)
      BY <2>1, <3>1 DEF Inner
    <3> QED
      BY <1>7, <3>1, <3>5, <3>6
  <2>4. lv[root] \in Nat
    BY DEF Family
  <2>5. lv[root] \in T
    <3> HIDE DEF T
    <3> QED
      BY <2>2, <2>3, <2>4, Upward
  <2> QED
    BY <1>3, <2>5
<1>14. D[root] = UNION {G[m] : m \in 1 .. top}
  <2>1. Under(lv, at, root) = 1 .. top
    BY UnderIs DEF TypeInv
  <2> QED
    BY <1>3, <1>5, <2>1
<1> QED
  BY <1>3, <1>5, <1>12, <1>13, <1>14

\* The height of the tree above a node is its depth.
LEMMA DepthIs ==
    ASSUME TypeInv, NEW lv, NEW at, Family(lv, at), NEW n \in 1 .. top
    PROVE  Depth[n] = lv[root] - lv[n]
<1>1. /\ 1 .. top \subseteq Nodes /\ root \in 1 .. top /\ parent[root] = Null
      /\ lv[root] \in Nat /\ Null \notin Nodes /\ Inner \subseteq 1 .. top
      /\ \A m \in 1 .. top : lv[m] \in Nat /\ lv[m] <= lv[root]
  BY NodesWithin, NullAssumption DEF Family
<1>2. ASSUME NEW m \in 1 .. top, m # root
      PROVE  parent[m] \in 1 .. top /\ lv[parent[m]] = lv[m] + 1
  <2>1. PICK k \in Keys : at[lv[m]][k] = m
    BY <1>2 DEF Family
  <2>2. lv[m] # lv[root]
    BY <1>2, <2>1 DEF Family
  <2>3. lv[m] \in Nat /\ lv[m] + 1 \in Nat /\ lv[m] + 1 <= lv[root]
    BY <1>1, <2>2
  <2>4. parent[m] = at[lv[m] + 1][k]
    BY <2>1, <2>3 DEF Family
  <2> QED
    BY <2>3, <2>4 DEF Family
<1>3. ASSUME NEW m \in Nodes, m \notin 1 .. top PROVE parent[m] = Null
  <2>1. top < m
    BY <1>3, NodesWithin DEF Nodes
  <2> QED
    BY <2>1 DEF TypeInv, NodesFilled
<1>4. PICK g : g = [m \in NodesOrNull |-> IF m = Null THEN -1
                                          ELSE IF m \in 1 .. top THEN lv[root] - lv[m] ELSE 0]
  OBVIOUS
<1>5. g[Null] = -1 /\ Null \in NodesOrNull
  BY <1>4 DEF NodesOrNull
<1>6. ASSUME NEW m \in NodesOrNull, m # Null PROVE g[m] = 1 + g[parent[m]]
  <2>1. m \in Nodes
    BY <1>6 DEF NodesOrNull
  <2>2. CASE m \notin 1 .. top
    BY <1>3, <1>4, <1>5, <1>6, <2>1, <2>2
  <2>3. CASE m = root
    <3>1. g[m] = 0
      BY <1>1, <1>4, <1>6, <2>3
    <3> QED
      BY <1>1, <1>5, <2>3, <3>1
  <2>4. CASE m \in 1 .. top /\ m # root
    <3>1. PICK p \in 1 .. top : p = parent[m] /\ lv[p] = lv[m] + 1
      BY <1>2, <2>4
    <3>2. p \in NodesOrNull /\ p # Null
      BY <1>1 DEF NodesOrNull
    <3>3. g[p] = lv[root] - lv[p] /\ g[m] = lv[root] - lv[m]
      BY <1>4, <1>6, <2>4, <3>2
    <3> QED
      BY <1>1, <2>4, <3>1, <3>3
  <2> QED
    BY <2>2, <2>3, <2>4
<1>7. g = [m \in NodesOrNull |-> IF m = Null THEN -1 ELSE 1 + g[parent[m]]]
  <2>1. \A m \in NodesOrNull : g[m] = IF m = Null THEN -1 ELSE 1 + g[parent[m]]
    BY <1>5, <1>6
  <2>2. g = [m \in NodesOrNull |-> g[m]]
    BY <1>4
  <2> QED
    BY <2>1, <2>2, Zenon
<1> DEFINE d == CHOOSE f : f = [m \in NodesOrNull |-> IF m = Null THEN -1 ELSE 1 + f[parent[m]]]
<1>8. d = [m \in NodesOrNull |-> IF m = Null THEN -1 ELSE 1 + d[parent[m]]]
  BY <1>7, Zenon
<1>9. Depth = d
  BY Zenon DEF Depth
<1> HIDE DEF d
<1>10. \A m \in NodesOrNull : Depth[m] = IF m = Null THEN -1 ELSE 1 + Depth[parent[m]]
  BY <1>8, <1>9, Zenon
<1>11. Depth[Null] = -1 /\ \A m \in 1 .. top : Depth[m] = 1 + Depth[parent[m]]
  BY <1>1, <1>10 DEF NodesOrNull
<1> DEFINE T == {j \in Nat : \A m \in 1 .. top : lv[root] - lv[m] = j => Depth[m] = j}
<1>12. 0 \in T
  <2> SUFFICES ASSUME NEW m \in 1 .. top, lv[root] - lv[m] = 0 PROVE Depth[m] = 0
    OBVIOUS
  <2>1. lv[m] = lv[root]
    BY <1>1
  <2>2. m = root
    BY <2>1 DEF Family
  <2> QED
    BY <1>1, <1>11, <2>2
<1>13. ASSUME NEW j \in Nat, j \in T PROVE j + 1 \in T
  <2> SUFFICES ASSUME NEW m \in 1 .. top, lv[root] - lv[m] = j + 1 PROVE Depth[m] = j + 1
    OBVIOUS
  <2>1. m # root
    BY <1>1
  <2>2. PICK p \in 1 .. top : p = parent[m] /\ lv[p] = lv[m] + 1
    BY <1>2, <2>1
  <2>3. lv[root] - lv[p] = j
    BY <1>1, <2>2
  <2>4. Depth[p] = j
    BY <1>13, <2>3
  <2> QED
    BY <1>11, <2>2, <2>4
<1>14. lv[root] - lv[n] \in Nat
  BY <1>1
<1>15. lv[root] - lv[n] \in T
  <2> HIDE DEF T
  <2> QED
    BY <1>12, <1>13, <1>14, Upward
<1> QED
  BY <1>15

-----------------------------------------------------------------------------
(* The walk of Print along the chain *)

LEMMA NextNodesAre ==
    ASSUME TypeInv, NEW list, NEW L, Listing(list, L)
    PROVE  num_next_node = Cardinality(leaves)
<1> DEFINE Z == leaves \cup {Null}
<1>1. /\ MaxNode \in Nat /\ L \in Nat /\ L < MaxNode /\ Null \notin leaves /\ Header \in Z
      /\ \A n \in leaves : next[n] \in Z
      /\ \A i \in 0 .. L : list[i] \in leaves /\ list[i] # Null
  BY SlotsAssumption, NullAssumption, NodesWithin DEF Listing, TypeInv, NodesTyped
<1>2. PICK d : d = [n \in Z |-> IF n = Null THEN Null ELSE next[n]]
  OBVIOUS
<1>3. d \in [Z -> Z]
  BY <1>1, <1>2
<1> HIDE DEF Z
<1>4. PICK f \in [0 .. MaxNode -> Z] : Repeats(f, MaxNode, Header, d)
  BY <1>1, <1>3, Repetition
<1>5. \A i \in 0 .. MaxNode : i # 0 =>
        /\ i - 1 \in 0 .. MaxNode
        /\ d[f[i - 1]] = IF f[i - 1] = Null THEN Null ELSE next[f[i - 1]]
  BY <1>1, <1>2, <1>4
<1>6. f = [i \in 0 .. MaxNode |-> IF i = 0 THEN Header
                                  ELSE IF f[i - 1] = Null THEN Null ELSE next[f[i - 1]]]
  BY <1>4, <1>5 DEF Repeats
<1> DEFINE c == CHOOSE g : g = [i \in 0 .. MaxNode |->
                                  IF i = 0 THEN Header
                                  ELSE IF g[i - 1] = Null THEN Null ELSE next[g[i - 1]]]
<1>7. c = [i \in 0 .. MaxNode |-> IF i = 0 THEN Header
                                  ELSE IF c[i - 1] = Null THEN Null ELSE next[c[i - 1]]]
  BY <1>6, Zenon
<1>8. num_next_node = Cardinality({i \in 0 .. MaxNode : c[i] # Null})
  BY Zenon DEF num_next_node
<1> HIDE DEF c
<1>9. \A i \in 0 .. MaxNode : c[i] = IF i = 0 THEN Header
                                     ELSE IF c[i - 1] = Null THEN Null ELSE next[c[i - 1]]
  BY <1>7, Zenon
<1> DEFINE T == {i \in Nat : i <= MaxNode => c[i] = IF i <= L THEN list[i] ELSE Null}
<1>10. 0 \in T
  BY <1>1, <1>9 DEF Listing
<1>11. ASSUME NEW i \in Nat, i \in T PROVE i + 1 \in T
  <2> SUFFICES ASSUME i + 1 <= MaxNode
               PROVE  c[i + 1] = IF i + 1 <= L THEN list[i + 1] ELSE Null
    OBVIOUS
  <2>1. PICK j \in 0 .. MaxNode : j = i + 1 /\ j # 0 /\ j - 1 = i /\ i <= MaxNode
    BY <1>1
  <2>2. c[j] = IF c[i] = Null THEN Null ELSE next[c[i]]
    BY <1>9, <2>1
  <2>3. CASE i < L
    <3>1. i \in 0 .. L /\ i <= L /\ i + 1 <= L
      BY <1>1, <2>3
    <3>2. c[i] = list[i]
      BY <1>11, <2>1, <3>1
    <3>3. next[list[i]] = list[i + 1]
      BY <2>3, <3>1 DEF Listing
    <3> QED
      BY <1>1, <2>1, <2>2, <3>1, <3>2, <3>3
  <2>4. CASE i = L
    <3>1. i \in 0 .. L /\ ~ (i + 1 <= L) /\ c[i] = list[i]
      BY <1>1, <1>11, <2>1, <2>4
    <3>2. next[list[i]] = Null
      BY <2>4 DEF Listing
    <3> QED
      BY <1>1, <2>1, <2>2, <3>1, <3>2
  <2>5. CASE ~ (i <= L)
    <3>1. ~ (i + 1 <= L) /\ c[i] = Null
      BY <1>1, <1>11, <2>1, <2>5
    <3> QED
      BY <2>1, <2>2, <3>1
  <2> QED
    BY <1>1, <2>3, <2>4, <2>5
<1>12. ASSUME NEW i \in Nat PROVE i \in T
  <2> HIDE DEF T
  <2>1. 0 .. i \subseteq T
    BY <1>10, <1>11, Upward
  <2> QED
    BY <2>1
<1>13. {i \in 0 .. MaxNode : c[i] # Null} = 0 .. L
  <2>1. \A i \in 0 .. MaxNode : i \in Nat /\ i <= MaxNode
    BY <1>1
  <2>2. \A i \in 0 .. MaxNode : c[i] = IF i <= L THEN list[i] ELSE Null
    BY <1>12, <2>1
  <2>3. \A i \in 0 .. MaxNode : c[i] # Null <=> i \in 0 .. L
    BY <1>1, <2>1, <2>2
  <2> QED
    BY <1>1, <2>3
<1>14. /\ list \in Surjection(0 .. L, leaves) /\ list \in Injection(0 .. L, leaves)
       /\ IsFiniteSet(0 .. L)
  <2>1. 0 \in Int /\ L \in Int
    BY <1>1
  <2>2. list \in [0 .. L -> leaves]
    BY DEF Listing
  <2>3. /\ \A n \in leaves : \E i \in 0 .. L : list[i] = n
        /\ \A i, j \in 0 .. L : list[i] = list[j] => i = j
    BY DEF Listing
  <2> QED
    BY <2>1, <2>2, <2>3, FS_Interval DEF Surjection, Injection, IsInjective
<1>15. Cardinality(leaves) = Cardinality(0 .. L)
  BY <1>14, FS_Surjection
<1> QED
  BY <1>8, <1>13, <1>15

LEMMA PrintCounts ==
    ASSUME TypeInv, Links, TreeInv, Reached, ChainSorted, HeaderFilled
    PROVE  PrintAtRest
<1> SUFFICES ASSUME AtRest
             PROVE  /\ num_leaf_node = num_next_node
                    /\ num_leaf_node + num_inner_node = top
                    /\ num_kv = Cardinality(NotRemoved)
                    /\ \A m, n \in leaves : Depth[m] = Depth[n]
  BY DEF PrintAtRest
<1>1. PICK lv, at, left : Tree(lv, at, left)
  BY DEF TreeInv
<1>2. Family(lv, at)
  BY <1>1, FamilyAtRest
<1>3. PICK list, L : Listing(list, L)
  BY LeafList
<1>4. /\ top \in Nat /\ leaves \subseteq 1 .. top /\ Inner = 1 .. top \ leaves
  BY NodesWithin DEF Inner
<1>5. \A x : IsFiniteSet({x}) /\ Cardinality({x}) = 1
  BY FS_Singleton
<1>6. IsFiniteSet({}) /\ Cardinality({}) = 0
  BY FS_EmptySet
<1>7. num_kv = Cardinality(NotRemoved)
  <2>1. PICK G, leaf : /\ G = [m \in 1 .. top |-> IF m \in leaves THEN Live(m) ELSE {}]
                       /\ leaf = [n \in leaves |-> Cardinality(Live(n))]
    OBVIOUS
  <2>2. /\ \A n \in leaves : G[n] = Live(n) /\ leaf[n] = Cardinality(G[n])
        /\ \A p \in Inner : G[p] = {}
    BY <1>4, <2>1
  <2>3. \A n \in leaves : IsFiniteSet(Live(n))
    <3>1. ASSUME NEW n \in leaves PROVE IsFiniteSet(Live(n))
      <4>1. IsFiniteSet(DOMAIN entry[n])
        BY <1>3, HeldIs
      <4>2. Live(n) \in SUBSET (DOMAIN entry[n])
        BY DEF Live
      <4> QED
        BY <4>1, <4>2, FS_Subset
    <3> QED
      BY <3>1
  <2>4. \A n \in leaves : \A k \in Live(n) : LeafOf(k) = n /\ ValueOf(k) # 0 /\ k \in Held
    <3>1. ASSUME NEW n \in leaves, NEW k \in Live(n)
          PROVE  LeafOf(k) = n /\ ValueOf(k) # 0 /\ k \in Held
      <4>1. k \in DOMAIN entry[n] /\ entry[n][k] # 0
        BY DEF Live
      <4> QED
        BY <1>3, <4>1, HeldIs
    <3> QED
      BY <3>1
  <2>5. \A m \in 1 .. top : IsFiniteSet(G[m])
    BY <1>4, <1>6, <2>2, <2>3
  <2>6. \A m, n \in 1 .. top : m # n => G[m] \cap G[n] = {}
    BY <1>4, <2>2, <2>4
  <2>7. num_kv = Cardinality(UNION {G[m] : m \in 1 .. top})
    <3>1. /\ \A n \in leaves : leaf[n] = Cardinality(G[n])
          /\ \A p \in Inner : Cardinality(G[p]) = 0
          /\ 0 \in Nat
      BY <1>6, <2>2
    <3>2. DfsSum(leaf, 0) = Cardinality(UNION {G[m] : m \in 1 .. top})
      BY <1>2, <2>5, <2>6, <3>1, DfsSumIs
    <3> QED
      BY <2>1, <3>2 DEF num_kv
  <2>8. \A k : k \in NotRemoved <=> \E m \in 1 .. top : k \in G[m]
    <3>1. ASSUME NEW k \in NotRemoved PROVE \E m \in 1 .. top : k \in G[m]
      <4>1. PICK n \in leaves : k \in DOMAIN entry[n]
        BY DEF NotRemoved, Held
      <4>2. ValueOf(k) = entry[n][k]
        BY <1>3, <4>1, HeldIs
      <4>3. k \in Live(n)
        BY <4>1, <4>2 DEF NotRemoved, Live
      <4> QED
        BY <1>4, <2>2, <4>3
    <3>2. ASSUME NEW k, NEW m \in 1 .. top, k \in G[m] PROVE k \in NotRemoved
      <4>1. m \in leaves /\ k \in Live(m)
        BY <1>4, <2>2, <3>2
      <4> QED
        BY <2>4, <4>1 DEF NotRemoved
    <3> QED
      BY <3>1, <3>2
  <2>9. NotRemoved = UNION {G[m] : m \in 1 .. top}
    BY <2>8
  <2> QED
    BY <2>7, <2>9
<1>8. num_leaf_node = Cardinality(leaves)
  <2>1. PICK G, leaf : /\ G = [m \in 1 .. top |-> IF m \in leaves THEN {m} ELSE {}]
                       /\ leaf = [n \in leaves |-> 1]
    OBVIOUS
  <2>2. /\ \A n \in leaves : G[n] = {n} /\ leaf[n] = Cardinality(G[n])
        /\ \A p \in Inner : G[p] = {} /\ Cardinality(G[p]) = 0
    BY <1>4, <1>5, <1>6, <2>1
  <2>3. \A m \in 1 .. top : IsFiniteSet(G[m])
    BY <1>4, <1>5, <1>6, <2>2
  <2>4. \A m, n \in 1 .. top : m # n => G[m] \cap G[n] = {}
    BY <1>4, <2>2
  <2>5. num_leaf_node = Cardinality(UNION {G[m] : m \in 1 .. top})
    <3>1. /\ \A n \in leaves : leaf[n] = Cardinality(G[n])
          /\ \A p \in Inner : Cardinality(G[p]) = 0
          /\ 0 \in Nat
      BY <2>2
    <3>2. DfsSum(leaf, 0) = Cardinality(UNION {G[m] : m \in 1 .. top})
      BY <1>2, <2>3, <2>4, <3>1, DfsSumIs
    <3> QED
      BY <2>1, <3>2 DEF num_leaf_node
  <2>6. \A m : m \in leaves <=> \E n \in 1 .. top : m \in G[n]
    BY <1>4, <2>2
  <2>7. leaves = UNION {G[m] : m \in 1 .. top}
    BY <2>6
  <2> QED
    BY <2>5, <2>7
<1>9. num_inner_node = Cardinality(Inner)
  <2>1. PICK G, leaf : /\ G = [m \in 1 .. top |-> IF m \in leaves THEN {} ELSE {m}]
                       /\ leaf = [n \in leaves |-> 0]
    OBVIOUS
  <2>2. /\ \A n \in leaves : G[n] = {} /\ leaf[n] = Cardinality(G[n])
        /\ \A p \in Inner : G[p] = {p} /\ Cardinality(G[p]) = 1
    BY <1>4, <1>5, <1>6, <2>1
  <2>3. \A m \in 1 .. top : IsFiniteSet(G[m])
    <3>1. \A n \in leaves : IsFiniteSet(G[n])
      BY <1>6, <2>2
    <3>2. \A p \in Inner : IsFiniteSet(G[p])
      BY <1>5, <2>2
    <3> QED
      BY <1>4, <3>1, <3>2
  <2>4. \A m, n \in 1 .. top : m # n => G[m] \cap G[n] = {}
    BY <1>4, <2>2
  <2>5. num_inner_node = Cardinality(UNION {G[m] : m \in 1 .. top})
    <3>1. /\ \A n \in leaves : leaf[n] = Cardinality(G[n])
          /\ \A p \in Inner : Cardinality(G[p]) = 1
          /\ 1 \in Nat
      BY <2>2
    <3>2. DfsSum(leaf, 1) = Cardinality(UNION {G[m] : m \in 1 .. top})
      BY <1>2, <2>3, <2>4, <3>1, DfsSumIs
    <3> QED
      BY <2>1, <3>2 DEF num_inner_node
  <2>6. \A m : m \in Inner <=> \E n \in 1 .. top : m \in G[n]
    BY <1>4, <2>2
  <2>7. Inner = UNION {G[m] : m \in 1 .. top}
    BY <2>6
  <2> QED
    BY <2>5, <2>7
<1>10. Cardinality(leaves) + Cardinality(Inner) = top
  <2>1. IsFiniteSet(1 .. top) /\ Cardinality(1 .. top) = top
    <3>1. 1 \in Int /\ top \in Int
      BY <1>4
    <3>2. IsFiniteSet(1 .. top) /\ Cardinality(1 .. top) = IF 1 > top THEN 0 ELSE top - 1 + 1
      BY <3>1, FS_Interval
    <3> QED
      BY <1>4, <3>2
  <2>2. /\ leaves \in SUBSET (1 .. top) /\ Inner \in SUBSET (1 .. top)
        /\ leaves \cap Inner = {} /\ leaves \cup Inner = 1 .. top
    BY <1>4
  <2>3. IsFiniteSet(leaves) /\ IsFiniteSet(Inner)
    BY <2>1, <2>2, FS_Subset
  <2>4. Cardinality(leaves \cup Inner) = Cardinality(leaves) + Cardinality(Inner)
    BY <2>2, <2>3, DisjointUnion
  <2> QED
    BY <2>1, <2>2, <2>4
<1>11. ASSUME NEW m \in leaves, NEW n \in leaves PROVE Depth[m] = Depth[n]
  <2>1. m \in 1 .. top /\ n \in 1 .. top
    BY <1>4
  <2>2. lv[m] = lv[n]
    BY <1>2, <2>1 DEF Family
  <2>3. Depth[m] = lv[root] - lv[m] /\ Depth[n] = lv[root] - lv[n]
    BY <1>2, <2>1, DepthIs
  <2> QED
    BY <2>2, <2>3
<1>12. num_next_node = Cardinality(leaves)
  BY <1>3, NextNodesAre
<1> QED
  BY <1>7, <1>8, <1>9, <1>10, <1>11, <1>12

(***************************************************************************)
(* The two walks of Print over a tree at rest agree: bptree_dfs_search     *)
(* and bptree_line_search count the same leaves, the former meets every    *)
(* node and every live key once, and all leaves are at the same depth.     *)
(***************************************************************************)
THEOREM PrintAtRestHolds == Spec => []PrintAtRest
<1>1. TypeInv /\ Links /\ TreeInv /\ Reached /\ ChainSorted /\ HeaderFilled => PrintAtRest
  BY PrintCounts
<1> QED
  BY <1>1, InitTypeInv, InitLinks, InitTree, InitReached, InitHeader, NextTypeInv, NextLinks,
     NextTree, NextReached, NextHeader, ChainSortedHolds, PTL DEF Spec

=============================================================================
