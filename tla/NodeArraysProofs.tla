---------------------------- MODULE NodeArraysProofs ----------------------------
(***************************************************************************)
(* The arrays of a node implement the functions that BPTree is written     *)
(* with, for any number of slots, any keys and values and whatever the     *)
(* slots behind nkeys hold.                                                *)
(***************************************************************************)
EXTENDS NodeArrays, TLAPS, FiniteSetTheorems, WellFoundedInduction

(***************************************************************************)
(* The invariant: nkeys elements count, and their keys ascend.             *)
(***************************************************************************)
IsArrays(n) ==
    /\ n = [nkeys |-> n.nkeys, keys |-> n.keys, item |-> n.item]
    /\ n.nkeys \in 0 .. Slots
    /\ n.keys \in [Index -> Keys]
    /\ n.item = [i \in Index |-> n.item[i]]
    /\ \A i, j \in Live(n) : i < j => n.keys[i] < n.keys[j]

NodeInv == is_leaf \in BOOLEAN /\ IsArrays(node)

-----------------------------------------------------------------------------
(* Recursion *)

LEMMA LeastNat ==
    ASSUME NEW S \in SUBSET Nat, S # {}
    PROVE  \E x \in S : \A y \in S : x <= y
<1>1. PICK x \in S : \A y \in S : ~ (<<y, x>> \in OpToRel(<, Nat))
  BY NatLessThanWellFounded, WFMin
<1>2. ASSUME NEW y \in S PROVE x <= y
  <2>1. x \in Nat /\ y \in Nat
    OBVIOUS
  <2>2. <<y, x>> \in OpToRel(<, Nat) <=> y < x
    BY <2>1 DEF OpToRel
  <2>3. ~ (<<y, x>> \in OpToRel(<, Nat))
    BY <1>1
  <2>4. ~ (y < x)
    BY <2>2, <2>3, Zenon
  <2> QED
    BY <2>1, <2>4
<1> QED
  BY <1>2

Follows(f, S, stop, d) == f = [n \in S |-> IF n \in stop THEN n ELSE f[d[n]]]

\* A recursion along d that comes down in rank has a value everywhere.
LEMMA DownwardRecursion ==
    ASSUME NEW S, NEW stop, NEW d \in [S -> S], NEW rank \in [S -> Nat],
           NEW bound \in Nat, \A n \in S : rank[n] <= bound,
           \A n \in S \ stop : rank[d[n]] < rank[n]
    PROVE  \E f : Follows(f, S, stop, d)
<1> DEFINE D(L) == {n \in S : rank[n] < L}
           Solves(f, L) == f = [n \in D(L) |-> IF n \in stop THEN n ELSE f[d[n]]]
           Bad == {L \in Nat : ~ \E f : Solves(f, L)}
<1>1. Bad = {}
  <2>1. SUFFICES ASSUME Bad # {} PROVE FALSE
    OBVIOUS
  <2>2. PICK L \in Bad : \A y \in Bad : L <= y
    <3>1. Bad \in SUBSET Nat
      OBVIOUS
    <3> HIDE DEF Bad
    <3> QED
      BY <2>1, <3>1, LeastNat
  <2>3. L \in Nat /\ ~ \E f : Solves(f, L)
    OBVIOUS
  <2>4. L # 0
    <3>1. ASSUME L = 0 PROVE FALSE
      <4>1. D(L) = {}
        BY <3>1
      <4>2. PICK f : f = [n \in {} |-> n]
        OBVIOUS
      <4>3. f = [n \in D(L) |-> IF n \in stop THEN n ELSE f[d[n]]]
        BY <4>1, <4>2
      <4> QED
        BY <2>3, <4>3
    <3> QED
      BY <3>1
  <2>5. PICK M \in Nat : L = M + 1 /\ M \notin Bad
    <3>1. L - 1 \in Nat /\ L = (L - 1) + 1 /\ ~ (L <= L - 1)
      BY <2>3, <2>4
    <3>2. L - 1 \notin Bad
      BY <2>2, <3>1
    <3> QED
      BY <3>1, <3>2, Zenon
  <2>6. PICK f : Solves(f, M)
    BY <2>5
  <2>7. PICK g : g = [n \in D(L) |-> IF n \in stop THEN n ELSE f[d[n]]]
    OBVIOUS
  <2>8. ASSUME NEW n \in D(L) \ stop PROVE d[n] \in D(M) /\ d[n] \in D(L)
    <3>1. n \in S /\ n \notin stop /\ d[n] \in S /\ rank[n] \in Nat /\ rank[d[n]] \in Nat
      OBVIOUS
    <3>2. rank[d[n]] < rank[n] /\ rank[n] < L
      BY <3>1
    <3> QED
      BY <2>5, <3>1, <3>2
  <2>9. \A n \in D(M) : n \in D(L)
    BY <2>5
  <2>10. \A n \in D(M) : g[n] = f[n]
    <3>1. f = [n \in D(M) |-> IF n \in stop THEN n ELSE f[d[n]]]
      BY <2>6
    <3> HIDE DEF D
    <3> QED
      BY <2>7, <2>9, <3>1
  <2>11. g = [n \in D(L) |-> IF n \in stop THEN n ELSE g[d[n]]]
    <3> HIDE DEF D
    <3> QED
      BY <2>7, <2>8, <2>10
  <2> QED
    BY <2>3, <2>11
<1>2. PICK f : Solves(f, bound + 1)
  <2>1. bound + 1 \in Nat
    OBVIOUS
  <2> QED
    BY <1>1, <2>1
<1>3. D(bound + 1) = S
  OBVIOUS
<1>4. f = [n \in D(bound + 1) |-> IF n \in stop THEN n ELSE f[d[n]]]
  BY <1>2
<1> HIDE DEF D
<1>5. Follows(f, S, stop, d)
  BY <1>3, <1>4 DEF Follows
<1> QED
  BY <1>5

-----------------------------------------------------------------------------
(* Binary search *)

Ranges == (0 .. Slots) \X (0 .. Slots)
Mid(r) == r[1] + (r[2] - r[1]) \div 2
GoesUp(n, k, equal, i) == n.keys[i] < k \/ (equal /\ n.keys[i] = k)

\* Where the search in range r goes on.
Half(n, k, equal, r) == IF GoesUp(n, k, equal, Mid(r)) THEN <<Mid(r) + 1, r[2]>> ELSE <<r[1], Mid(r)>>

LEMMA MidIs ==
    ASSUME NEW l \in 0 .. Slots, NEW h \in 0 .. Slots, NEW r, r = <<l, h>>, l < h
    PROVE  Mid(r) \in l .. h - 1 /\ Mid(r) \in Index
<1>1. Slots \in Nat
  BY ArraysAssumption
<1>2. PICK w \in Nat, q \in Int : w = h - l /\ w >= 1 /\ q = w \div 2
  BY <1>1
<1>3. 0 <= q /\ q < w
  BY <1>2
<1>4. Mid(r) = l + q
  BY <1>2 DEF Mid
<1> QED
  BY <1>1, <1>2, <1>3, <1>4 DEF Index

\* What BinarySearch computes: a function that follows the halves down to an empty range.
LEMMA SearchIs ==
    ASSUME NEW n, NEW k, NEW equal
    PROVE  \E f : /\ BinarySearch(n, k, equal) = f[<<0, n.nkeys>>]
                  /\ \A r \in Ranges :
                        f[r] = IF r[1] >= r[2] THEN r[1] ELSE f[Half(n, k, equal, r)]
<1> DEFINE stop == {r \in Ranges : r[1] >= r[2]}
           Value(f, r) == IF r[1] >= r[2] THEN r[1]
                          ELSE IF GoesUp(n, k, equal, Mid(r)) THEN f[<<Mid(r) + 1, r[2]>>]
                               ELSE f[<<r[1], Mid(r)>>]
<1>1. Slots \in Nat
  BY ArraysAssumption
<1>2. ASSUME NEW r \in Ranges \ stop
      PROVE  /\ Half(n, k, equal, r) \in Ranges
             /\ Half(n, k, equal, r)[2] - Half(n, k, equal, r)[1] < r[2] - r[1]
  <2>1. PICK l \in 0 .. Slots, h \in 0 .. Slots : r = <<l, h>> /\ l < h
    BY DEF Ranges
  <2>2. Mid(r) \in l .. h - 1
    BY <2>1, MidIs
  <2>3. CASE GoesUp(n, k, equal, Mid(r))
    <3>1. Half(n, k, equal, r) = <<Mid(r) + 1, h>>
      BY <2>1, <2>3 DEF Half
    <3> QED
      BY <1>1, <2>1, <2>2, <3>1 DEF Ranges
  <2>4. CASE ~ GoesUp(n, k, equal, Mid(r))
    <3>1. Half(n, k, equal, r) = <<l, Mid(r)>>
      BY <2>1, <2>4 DEF Half
    <3> QED
      BY <1>1, <2>1, <2>2, <3>1 DEF Ranges
  <2> QED
    BY <2>3, <2>4
<1>3. PICK d, rank : /\ d = [r \in Ranges |-> IF r \in stop THEN r ELSE Half(n, k, equal, r)]
                     /\ rank = [r \in Ranges |-> IF r[1] >= r[2] THEN 0 ELSE r[2] - r[1]]
  OBVIOUS
<1>4. d \in [Ranges -> Ranges]
  BY <1>2, <1>3
<1>5. rank \in [Ranges -> Nat] /\ \A r \in Ranges : rank[r] <= Slots
  BY <1>1, <1>3 DEF Ranges
<1>6. ASSUME NEW r \in Ranges \ stop PROVE rank[d[r]] < rank[r]
  <2>1. PICK u \in Ranges : u = d[r] /\ u[2] - u[1] < r[2] - r[1]
    BY <1>2, <1>3
  <2>2. u[1] \in Int /\ u[2] \in Int /\ r[1] \in Int /\ r[2] \in Int /\ r[1] < r[2]
    BY DEF Ranges
  <2> QED
    BY <1>3, <2>1, <2>2
<1>7. PICK g : Follows(g, Ranges, stop, d)
  <2> HIDE DEF stop
  <2> QED
    BY <1>1, <1>4, <1>5, <1>6, DownwardRecursion
<1>8. PICK f : f = [r \in Ranges |-> g[r][1]]
  OBVIOUS
<1>9. f = [r \in Ranges |-> Value(f, r)]
  <2>1. ASSUME NEW r \in Ranges PROVE f[r] = Value(f, r)
    <3>1. g[r] = IF r \in stop THEN r ELSE g[d[r]]
      BY <1>7 DEF Follows
    <3>2. CASE r \in stop
      BY <1>8, <3>1, <3>2
    <3>3. CASE r \notin stop
      <4>1. f[r] = f[Half(n, k, equal, r)] /\ ~ (r[1] >= r[2])
        BY <1>2, <1>3, <1>8, <3>1, <3>3
      <4> QED
        BY <4>1 DEF Half
    <3> QED
      BY <3>2, <3>3
  <2>2. f = [r \in Ranges |-> f[r]]
    BY <1>8
  <2> HIDE DEF Value
  <2> QED
    BY <2>1, <2>2
<1> DEFINE s == CHOOSE x : x = [r \in (0 .. Slots) \X (0 .. Slots) |-> Value(x, r)]
<1>10. s = [r \in (0 .. Slots) \X (0 .. Slots) |-> Value(s, r)]
  BY <1>9, Zenon DEF Ranges
<1>11. BinarySearch(n, k, equal) = s[<<0, n.nkeys>>]
  BY Zenon DEF BinarySearch, GoesUp, Mid
<1> HIDE DEF s
<1>12. ASSUME NEW r \in Ranges
       PROVE  s[r] = IF r[1] >= r[2] THEN r[1] ELSE s[Half(n, k, equal, r)]
  <2>1. s[r] = Value(s, r)
    <3> HIDE DEF Value
    <3> QED
      BY <1>10, Zenon DEF Ranges
  <2> QED
    BY <2>1 DEF Half
<1> QED
  BY <1>11, <1>12

(***************************************************************************)
(* The search stops behind the keys that are below k, or up to k.  It      *)
(* looks only at the elements that count.                                  *)
(***************************************************************************)
LEMMA SearchFinds ==
    ASSUME NEW n, IsArrays(n), NEW k \in Keys, NEW equal \in BOOLEAN,
           NEW p, p = BinarySearch(n, k, equal)
    PROVE  /\ p \in 0 .. n.nkeys
           /\ \A i \in Live(n) : i < p <=> GoesUp(n, k, equal, i)
<1>1. PICK f : /\ p = f[<<0, n.nkeys>>]
               /\ \A r \in Ranges :
                     f[r] = IF r[1] >= r[2] THEN r[1] ELSE f[Half(n, k, equal, r)]
  BY SearchIs
<1>2. /\ Slots \in Nat /\ n.nkeys \in Nat /\ n.nkeys <= Slots /\ k \in Int
      /\ \A i \in Live(n) : i \in Nat /\ i < n.nkeys /\ n.keys[i] \in Int
      /\ \A i \in Nat : i < n.nkeys => i \in Live(n)
  BY ArraysAssumption DEF IsArrays, Live, Index
<1>3. ASSUME NEW i \in Live(n), NEW j \in Live(n), i < j, GoesUp(n, k, equal, j)
      PROVE  GoesUp(n, k, equal, i)
  <2>1. n.keys[i] < n.keys[j] /\ n.keys[i] \in Int /\ n.keys[j] \in Int
    BY <1>2, <1>3 DEF IsArrays
  <2>2. n.keys[j] < k \/ n.keys[j] = k
    BY <1>3 DEF GoesUp
  <2>3. n.keys[i] < k
    BY <1>2, <2>1, <2>2
  <2> QED
    BY <2>3 DEF GoesUp
<1> DEFINE Ends(l, h) == /\ f[<<l, h>>] \in l .. h
                         /\ \A i \in Live(n) : l <= i /\ i < f[<<l, h>>] => GoesUp(n, k, equal, i)
                         /\ \A i \in Live(n) : f[<<l, h>>] <= i /\ i < h => ~ GoesUp(n, k, equal, i)
           Bad == {w \in Nat : \E l \in 0 .. n.nkeys, h \in 0 .. n.nkeys : w = h - l /\ l <= h /\ ~ Ends(l, h)}
<1>4. Bad = {}
  <2>1. SUFFICES ASSUME Bad # {} PROVE FALSE
    OBVIOUS
  <2>2. PICK w \in Bad : \A y \in Bad : w <= y
    <3>1. Bad \in SUBSET Nat
      OBVIOUS
    <3> HIDE DEF Bad
    <3> QED
      BY <2>1, <3>1, LeastNat
  <2> HIDE DEF Ends
  <2>3. PICK l \in 0 .. n.nkeys, h \in 0 .. n.nkeys : w = h - l /\ l <= h /\ ~ Ends(l, h)
    OBVIOUS
  <2>4. ASSUME NEW a \in 0 .. n.nkeys, NEW b \in 0 .. n.nkeys, a <= b, b - a < h - l
        PROVE  Ends(a, b)
    <3>1. b - a \in Nat /\ ~ (w <= b - a)
      BY <1>2, <2>3, <2>4
    <3>2. b - a \notin Bad
      BY <2>2, <3>1
    <3> QED
      BY <2>4, <3>1, <3>2
  <2> HIDE DEF Bad
  <2>5. PICK r : r = <<l, h>> /\ r \in Ranges /\ r[1] = l /\ r[2] = h
    <3>1. l \in 0 .. Slots /\ h \in 0 .. Slots
      BY <1>2
    <3>2. <<l, h>> \in Ranges /\ <<l, h>>[1] = l /\ <<l, h>>[2] = h
      BY <3>1 DEF Ranges
    <3> QED
      BY <3>2, Zenon
  <2>6. CASE l = h
    <3>1. f[<<l, h>>] = l
      BY <1>1, <2>5, <2>6
    <3>2. Ends(l, h)
      BY <1>2, <2>6, <3>1 DEF Ends
    <3> QED
      BY <2>3, <3>2
  <2>7. CASE l < h
    <3>1. PICK m \in l .. h - 1 : m = Mid(r) /\ m \in Live(n)
      <4>1. Mid(r) \in l .. h - 1
        BY <1>2, <2>5, <2>7, MidIs
      <4> QED
        BY <1>2, <4>1
    <3>2. f[r] = f[Half(n, k, equal, r)]
      BY <1>1, <2>5, <2>7
    <3>3. CASE GoesUp(n, k, equal, m)
      <4>1. f[<<l, h>>] = f[<<m + 1, h>>]
        BY <2>5, <3>1, <3>2, <3>3 DEF Half
      <4>2. Ends(m + 1, h)
        <5>1. m + 1 \in 0 .. n.nkeys /\ m + 1 <= h /\ h - (m + 1) < h - l
          BY <1>2, <3>1
        <5> QED
          BY <2>4, <5>1
      <4>3. \A i \in Live(n) : i <= m => GoesUp(n, k, equal, i)
        BY <1>2, <1>3, <3>1, <3>3
      <4>4. f[<<m + 1, h>>] \in l .. h
        BY <1>2, <3>1, <4>2 DEF Ends
      <4>5. \A i \in Live(n) : i < f[<<m + 1, h>>] => GoesUp(n, k, equal, i)
        BY <1>2, <3>1, <4>2, <4>3, <4>4 DEF Ends
      <4>6. Ends(l, h)
        BY <4>1, <4>2, <4>4, <4>5 DEF Ends
      <4> QED
        BY <2>3, <4>6
    <3>4. CASE ~ GoesUp(n, k, equal, m)
      <4>1. f[<<l, h>>] = f[<<l, m>>]
        BY <2>5, <3>1, <3>2, <3>4 DEF Half
      <4>2. Ends(l, m)
        <5>1. m \in 0 .. n.nkeys /\ l <= m /\ m - l < h - l
          BY <1>2, <3>1
        <5> QED
          BY <2>4, <5>1
      <4>3. \A i \in Live(n) : m <= i => ~ GoesUp(n, k, equal, i)
        BY <1>2, <1>3, <3>1, <3>4
      <4>4. f[<<l, m>>] \in l .. h
        BY <1>2, <3>1, <4>2 DEF Ends
      <4>5. \A i \in Live(n) : f[<<l, m>>] <= i => ~ GoesUp(n, k, equal, i)
        BY <1>2, <3>1, <4>2, <4>3, <4>4 DEF Ends
      <4>6. Ends(l, h)
        BY <4>1, <4>2, <4>4, <4>5 DEF Ends
      <4> QED
        BY <2>3, <4>6
    <3> QED
      BY <3>3, <3>4
  <2> QED
    BY <1>2, <2>3, <2>6, <2>7
<1>5. Ends(0, n.nkeys)
  <2>1. PICK w \in Nat : w = n.nkeys - 0 /\ w \notin Bad
    <3> HIDE DEF Bad
    <3> QED
      BY <1>2, <1>4
  <2> HIDE DEF Ends
  <2>2. 0 \in 0 .. n.nkeys /\ n.nkeys \in 0 .. n.nkeys /\ 0 <= n.nkeys
    BY <1>2
  <2> QED
    BY <2>1, <2>2
<1> QED
  BY <1>1, <1>2, <1>5

-----------------------------------------------------------------------------
(* The function that the arrays hold *)

KeysOf(n) == {n.keys[i] : i \in Live(n)}
Held(n) == [k \in KeysOf(n) |-> n.item[CHOOSE i \in Live(n) : n.keys[i] = k]]

LEMMA LiveIs ==
    ASSUME NEW n, IsArrays(n)
    PROVE  /\ Slots \in Nat /\ Slots >= 2 /\ n.nkeys \in Nat /\ n.nkeys <= Slots
           /\ \A i : i \in Live(n) <=> i \in Nat /\ i < n.nkeys
           /\ \A i \in Live(n) : i \in Index /\ n.keys[i] \in Keys /\ n.keys[i] \in Int
  BY ArraysAssumption DEF IsArrays, Live, Index

LEMMA OnePlace ==
    ASSUME NEW n, IsArrays(n), NEW i \in Live(n), NEW j \in Live(n), n.keys[i] = n.keys[j]
    PROVE  i = j
<1>1. /\ i \in Int /\ j \in Int /\ n.keys[i] \in Int
      /\ i < j => n.keys[i] < n.keys[j]
      /\ j < i => n.keys[j] < n.keys[i]
  BY LiveIs DEF IsArrays
<1> QED
  BY <1>1

LEMMA HeldIs ==
    ASSUME NEW n, IsArrays(n)
    PROVE  /\ DOMAIN Held(n) = KeysOf(n)
           /\ \A i \in Live(n) : n.keys[i] \in KeysOf(n) /\ Held(n)[n.keys[i]] = n.item[i]
<1>1. ASSUME NEW i \in Live(n) PROVE Held(n)[n.keys[i]] = n.item[i]
  <2>1. (CHOOSE j \in Live(n) : n.keys[j] = n.keys[i]) = i
    BY OnePlace
  <2>2. n.keys[i] \in KeysOf(n)
    BY DEF KeysOf
  <2> QED
    BY <2>1, <2>2 DEF Held
<1> QED
  BY <1>1 DEF Held, KeysOf

LEMMA HeldOnly ==
    ASSUME NEW n, IsArrays(n), NEW D, D = KeysOf(n), NEW g, g = [k \in D |-> g[k]],
           \A i \in Live(n) : g[n.keys[i]] = n.item[i]
    PROVE  Held(n) = g
<1>1. ASSUME NEW k \in D PROVE Held(n)[k] = g[k]
  <2>1. PICK i \in Live(n) : k = n.keys[i]
    BY DEF KeysOf
  <2> QED
    BY <2>1, HeldIs
<1>2. Held(n) = [k \in D |-> Held(n)[k]]
  BY DEF Held
<1> QED
  BY <1>1, <1>2

\* m keys stand in the first m places.
LEMMA KeysInFront ==
    ASSUME NEW n, IsArrays(n), NEW m \in 0 .. n.nkeys, NEW S, S = {n.keys[i] : i \in 0 .. m - 1}
    PROVE  IsFiniteSet(S) /\ Cardinality(S) = m
<1> DEFINE P == 0 .. m - 1
           f == [i \in P |-> n.keys[i]]
<1>1. m \in Nat /\ \A i \in P : i \in Live(n)
  BY LiveIs
<1>2. IsFiniteSet(P) /\ Cardinality(P) = m
  <2>1. 0 \in Int /\ m - 1 \in Int
    BY <1>1
  <2>2. IsFiniteSet(P) /\ Cardinality(P) = IF 0 > m - 1 THEN 0 ELSE (m - 1) - 0 + 1
    BY <2>1, FS_Interval
  <2> QED
    BY <1>1, <2>2
<1>3. f \in Surjection(P, S)
  BY DEF Surjection
<1>4. f \in Injection(P, S)
  <2>1. f \in [P -> S]
    OBVIOUS
  <2>2. ASSUME NEW i \in P, NEW j \in P, f[i] = f[j] PROVE i = j
    BY <1>1, <2>2, OnePlace
  <2> HIDE DEF P, f
  <2> QED
    BY <2>1, <2>2 DEF Injection, IsInjective
<1> HIDE DEF P, f
<1> QED
  BY <1>2, <1>3, <1>4, FS_Surjection

LEMMA HeldSize ==
    ASSUME NEW n, IsArrays(n), NEW S, S = KeysOf(n)
    PROVE  IsFiniteSet(S) /\ Cardinality(S) = n.nkeys /\ S \subseteq Int
<1>1. S = {n.keys[i] : i \in 0 .. n.nkeys - 1} /\ n.nkeys \in 0 .. n.nkeys /\ S \subseteq Int
  BY LiveIs DEF KeysOf
<1> QED
  BY <1>1, KeysInFront

\* As many keys are below a key as stand in front of it.
LEMMA KeysBelow ==
    ASSUME NEW n, IsArrays(n), NEW i \in Live(n), NEW S, S = {k \in KeysOf(n) : k < n.keys[i]}
    PROVE  Cardinality(S) = i
<1>1. ASSUME NEW j \in Live(n) PROVE n.keys[j] < n.keys[i] <=> j < i
  <2>1. /\ i \in Int /\ j \in Int /\ n.keys[i] \in Int /\ n.keys[j] \in Int
        /\ i < j => n.keys[i] < n.keys[j]
        /\ j < i => n.keys[j] < n.keys[i]
    BY LiveIs DEF IsArrays
  <2> QED
    BY <2>1
<1>2. /\ i \in 0 .. n.nkeys /\ i \in Nat
      /\ \A j : j \in 0 .. i - 1 <=> j \in Live(n) /\ j < i
  BY LiveIs
<1>3. S = {n.keys[j] : j \in 0 .. i - 1}
  BY <1>1, <1>2 DEF KeysOf
<1> QED
  BY <1>2, <1>3, KeysInFront

-----------------------------------------------------------------------------
(* Insertion *)

(***************************************************************************)
(* The keys below k stay, those above it move up, and k goes between.      *)
(***************************************************************************)
LEMMA InsertAtIs ==
    ASSUME NEW n, IsArrays(n), n.nkeys < Slots, NEW k \in Keys, NEW x, NEW l \in 0 .. n.nkeys,
           \A i \in Live(n) : (i < l => n.keys[i] < k) /\ (l <= i => k < n.keys[i]),
           NEW m, m = InsertAt(n, l, k, x)
    PROVE  /\ IsArrays(m) /\ m.nkeys = n.nkeys + 1
           /\ Held(m) = Map!With(Held(n), k, x)
<1>1. /\ Slots \in Nat /\ n.nkeys \in Nat /\ l \in Nat /\ l <= n.nkeys /\ k \in Int
      /\ \A i : i \in Live(n) <=> i \in Nat /\ i < n.nkeys
      /\ \A i \in Live(n) : i \in Index /\ n.keys[i] \in Keys /\ n.keys[i] \in Int
  BY LiveIs, ArraysAssumption
<1>2. /\ m = [nkeys |-> m.nkeys, keys |-> m.keys, item |-> m.item]
      /\ m.nkeys = n.nkeys + 1
      /\ m.keys = Shifted(n.keys, l, n.nkeys, k) /\ m.item = Shifted(n.item, l, n.nkeys, x)
  BY DEF InsertAt
<1>3. \A i : i \in Live(m) <=> i \in Nat /\ i <= n.nkeys
  BY <1>1, <1>2 DEF Live, Index
<1>4. /\ m.keys = [j \in Index |-> m.keys[j]] /\ m.item = [j \in Index |-> m.item[j]]
      /\ m.keys[l] = k /\ m.item[l] = x
      /\ \A j \in Live(m) :
            /\ j < l => m.keys[j] = n.keys[j] /\ m.item[j] = n.item[j] /\ j \in Live(n)
            /\ l < j => m.keys[j] = n.keys[j - 1] /\ m.item[j] = n.item[j - 1] /\ j - 1 \in Live(n)
  <2>1. ASSUME NEW a, NEW y, NEW b, b = Shifted(a, l, n.nkeys, y)
        PROVE  /\ b = [j \in Index |-> b[j]]
               /\ b[l] = y
               /\ \A j \in Nat : (j < l => b[j] = a[j]) /\ (l < j /\ j <= n.nkeys => b[j] = a[j - 1])
    <3>1. l \in Index /\ \A j \in Nat : (j < l \/ j <= n.nkeys) => j \in Index
      BY <1>1 DEF Index
    <3> QED
      BY <1>1, <2>1, <3>1 DEF Shifted
  <2>2. \A j \in Live(m) : j \in Nat /\ j <= n.nkeys /\ (j < l => j \in Live(n)) /\ (l < j => j - 1 \in Live(n))
    BY <1>1, <1>3
  <2> QED
    BY <1>2, <2>1, <2>2
<1>5. m.keys \in [Index -> Keys]
  <2>1. ASSUME NEW j \in Index PROVE m.keys[j] \in Keys
    <3>1. n.keys \in [Index -> Keys] /\ j \in Nat /\ (l < j => j - 1 \in Index)
      BY <1>1 DEF IsArrays, Index
    <3> QED
      BY <1>2, <3>1 DEF Shifted
  <2> QED
    BY <1>4, <2>1
<1>6. ASSUME NEW i \in Live(m), NEW j \in Live(m), i < j PROVE m.keys[i] < m.keys[j]
  <2>1. i \in Nat /\ j \in Nat
    BY <1>3
  <2>2. \A a, b \in Live(n) : a < b => n.keys[a] < n.keys[b]
    BY DEF IsArrays
  <2>3. CASE j < l
    <3>1. i < l
      BY <1>1, <1>6, <2>1, <2>3
    <3>2. m.keys[i] = n.keys[i] /\ i \in Live(n) /\ m.keys[j] = n.keys[j] /\ j \in Live(n)
      BY <1>4, <2>3, <3>1
    <3> QED
      BY <1>6, <2>2, <3>2
  <2>4. CASE j = l
    <3>1. i < l
      BY <1>6, <2>4
    <3>2. m.keys[i] = n.keys[i] /\ i \in Live(n) /\ m.keys[j] = k
      BY <1>4, <2>4, <3>1
    <3>3. \A a \in Live(n) : a < l => n.keys[a] < k
      OBVIOUS
    <3>4. n.keys[i] < k
      BY <3>1, <3>2, <3>3, Zenon
    <3> QED
      BY <3>2, <3>4, Zenon
  <2>5. CASE l < j
    <3>1. m.keys[j] = n.keys[j - 1] /\ j - 1 \in Live(n) /\ l <= j - 1 /\ k < n.keys[j - 1]
      <4>1. l <= j - 1
        BY <1>1, <2>1, <2>5
      <4>2. m.keys[j] = n.keys[j - 1] /\ j - 1 \in Live(n)
        BY <1>4, <2>5
      <4>3. \A a \in Live(n) : l <= a => k < n.keys[a]
        OBVIOUS
      <4> QED
        BY <4>1, <4>2, <4>3, Zenon
    <3>2. CASE i = l
      BY <1>4, <3>1, <3>2
    <3>3. CASE i < l
      <4>1. m.keys[i] = n.keys[i] /\ i \in Live(n)
        BY <1>4, <3>3
      <4>2. n.keys[i] < k /\ n.keys[i] \in Int /\ n.keys[j - 1] \in Int
        BY <1>1, <3>1, <3>3, <4>1
      <4> QED
        BY <1>1, <3>1, <4>1, <4>2
    <3>4. CASE l < i
      <4>1. m.keys[i] = n.keys[i - 1] /\ i - 1 \in Live(n) /\ i - 1 < j - 1
        BY <1>1, <1>4, <1>6, <2>1, <3>4
      <4> QED
        BY <2>2, <3>1, <4>1
    <3> QED
      BY <1>1, <2>1, <3>2, <3>3, <3>4
  <2> QED
    BY <1>1, <2>1, <2>3, <2>4, <2>5
<1>7. IsArrays(m)
  <2>1. m.nkeys \in 0 .. Slots
    BY <1>1, <1>2
  <2> QED
    BY <1>2, <1>4, <1>5, <1>6, <2>1 DEF IsArrays
<1> DEFINE g == Map!With(Held(n), k, x)
<1>8. /\ g = [y \in KeysOf(n) \cup {k} |-> g[y]]
      /\ \A y \in KeysOf(n) \cup {k} : g[y] = IF y = k THEN x ELSE Held(n)[y]
  BY HeldIs DEF Map!With
<1>9. ASSUME NEW i \in Live(n) PROVE n.keys[i] # k
  BY <1>1, <1>9
<1>10. KeysOf(m) = KeysOf(n) \cup {k}
  <2>1. ASSUME NEW i \in Live(m) PROVE m.keys[i] \in KeysOf(n) \cup {k}
    <3>1. i = l \/ i < l \/ l < i
      BY <1>1, <1>3
    <3> QED
      BY <1>4, <3>1 DEF KeysOf
  <2>2. k \in KeysOf(m)
    <3>1. l \in Live(m) /\ m.keys[l] = k
      BY <1>1, <1>3, <1>4
    <3> QED
      BY <3>1 DEF KeysOf
  <2>3. ASSUME NEW i \in Live(n) PROVE n.keys[i] \in KeysOf(m)
    <3>1. CASE i < l
      <4>1. i \in Live(m) /\ m.keys[i] = n.keys[i]
        BY <1>1, <1>3, <1>4, <3>1
      <4> QED
        BY <4>1 DEF KeysOf
    <3>2. CASE l <= i
      <4>1. i + 1 \in Live(m) /\ m.keys[i + 1] = n.keys[i]
        BY <1>1, <1>3, <1>4, <3>2
      <4> QED
        BY <4>1 DEF KeysOf
    <3> QED
      BY <1>1, <3>1, <3>2
  <2> QED
    BY <2>1, <2>2, <2>3 DEF KeysOf
<1>11. ASSUME NEW i \in Live(m) PROVE g[m.keys[i]] = m.item[i]
  <2>1. CASE i = l
    BY <1>4, <1>8, <2>1
  <2>2. CASE i # l
    <3>1. PICK j \in Live(n) : m.keys[i] = n.keys[j] /\ m.item[i] = n.item[j]
      <4>1. i < l \/ l < i
        BY <1>1, <1>3, <2>2
      <4> QED
        BY <1>4, <4>1
    <3>2. n.keys[j] # k /\ n.keys[j] \in KeysOf(n) /\ Held(n)[n.keys[j]] = n.item[j]
      BY <1>9, HeldIs
    <3> QED
      BY <1>8, <3>1, <3>2
  <2> QED
    BY <2>1, <2>2
<1> HIDE DEF g
<1>12. PICK D, b : D = KeysOf(m) /\ b = g /\ b = [y \in D |-> b[y]]
  BY <1>8, <1>10, Zenon
<1>13. \A i \in Live(m) : b[m.keys[i]] = m.item[i]
  BY <1>11, <1>12, Zenon
<1>14. Held(m) = b
  BY <1>7, <1>12, <1>13, HeldOnly
<1> QED
  BY <1>2, <1>7, <1>12, <1>14, Zenon DEF g

LEMMA LowerBoundIs ==
    ASSUME NEW n, IsArrays(n), NEW k \in Keys, NEW p, p = LowerBound(n, k)
    PROVE  /\ p \in 0 .. n.nkeys
           /\ \A i \in Live(n) : i < p <=> n.keys[i] < k
           /\ HasKeyAt(n, p, k) <=> k \in KeysOf(n)
           /\ HasKeyAt(n, p, k) => p \in Live(n) /\ n.keys[p] = k
<1>1. p = BinarySearch(n, k, FALSE)
  BY DEF LowerBound
<1>2. p \in 0 .. n.nkeys /\ \A i \in Live(n) : i < p <=> n.keys[i] < k
  BY <1>1, SearchFinds DEF GoesUp
<1>3. /\ n.nkeys \in Nat /\ k \in Int
      /\ \A i : i \in Live(n) <=> i \in Nat /\ i < n.nkeys
      /\ \A i \in Live(n) : n.keys[i] \in Int
  BY LiveIs, ArraysAssumption
<1>4. HasKeyAt(n, p, k) => p \in Live(n) /\ n.keys[p] = k
  BY <1>2, <1>3 DEF HasKeyAt
<1>5. ASSUME NEW i \in Live(n), n.keys[i] = k PROVE HasKeyAt(n, p, k)
  <2>1. ~ (i < p)
    BY <1>2, <1>3, <1>5
  <2>2. CASE i = p
    BY <1>3, <1>5, <2>2 DEF HasKeyAt
  <2>3. CASE p < i
    <3>1. p \in Live(n) /\ ~ (n.keys[p] < k)
      BY <1>2, <1>3, <2>3
    <3>2. n.keys[p] < n.keys[i] /\ n.keys[p] \in Int
      BY <1>3, <2>3, <3>1 DEF IsArrays
    <3> QED
      BY <1>3, <1>5, <3>1, <3>2
  <2> QED
    BY <1>2, <1>3, <2>1, <2>2, <2>3
<1>6. HasKeyAt(n, p, k) <=> k \in KeysOf(n)
  BY <1>4, <1>5 DEF KeysOf
<1> QED
  BY <1>2, <1>4, <1>6

LEMMA UpperBoundIs ==
    ASSUME NEW n, IsArrays(n), NEW k \in Keys, NEW p, p = UpperBound(n, k)
    PROVE  /\ p \in 0 .. n.nkeys
           /\ \A i \in Live(n) : i < p <=> n.keys[i] <= k
<1>1. p = BinarySearch(n, k, TRUE)
  BY DEF UpperBound
<1>2. p \in 0 .. n.nkeys /\ \A i \in Live(n) : i < p <=> n.keys[i] < k \/ n.keys[i] = k
  BY <1>1, SearchFinds DEF GoesUp
<1>3. k \in Int /\ \A i \in Live(n) : n.keys[i] \in Int
  BY LiveIs, ArraysAssumption
<1> QED
  BY <1>2, <1>3

\* m has the elements of n, but for item x at place p.
Replaces(m, n, p, x) ==
    /\ m = [nkeys |-> n.nkeys, keys |-> n.keys, item |-> m.item]
    /\ m.item = [i \in Index |-> m.item[i]] /\ m.item[p] = x
    /\ \A i \in Live(n) : i # p => m.item[i] = n.item[i]

LEMMA ReplacedIs ==
    ASSUME NEW n, IsArrays(n), NEW p \in Live(n), NEW x, NEW m, Replaces(m, n, p, x)
    PROVE  IsArrays(m) /\ m.nkeys = n.nkeys /\ Held(m) = Map!With(Held(n), n.keys[p], x)
<1>1. m.nkeys = n.nkeys /\ m.keys = n.keys
  BY DEF Replaces
<1>2. Live(m) = Live(n) /\ KeysOf(m) = KeysOf(n)
  BY <1>1 DEF Live, KeysOf
<1>3. IsArrays(m)
  BY <1>1, <1>2 DEF IsArrays, Replaces
<1>4. n.keys[p] \in KeysOf(n)
  BY DEF KeysOf
<1>5. PICK D, g : D = KeysOf(m) /\ g = Map!With(Held(n), n.keys[p], x)
  OBVIOUS
<1>6. /\ g = [y \in D |-> g[y]]
      /\ \A y \in KeysOf(n) : g[y] = IF y = n.keys[p] THEN x ELSE Held(n)[y]
  BY <1>2, <1>4, <1>5, HeldIs DEF Map!With
<1>7. ASSUME NEW i \in Live(m) PROVE g[m.keys[i]] = m.item[i]
  <2>1. i \in Live(n) /\ m.keys[i] = n.keys[i] /\ n.keys[i] \in KeysOf(n)
    BY <1>1, <1>2, HeldIs
  <2>2. CASE i = p
    BY <1>6, <2>1, <2>2 DEF Replaces
  <2>3. CASE i # p
    <3>1. n.keys[i] # n.keys[p] /\ m.item[i] = n.item[i]
      BY <2>1, <2>3, OnePlace DEF Replaces
    <3> QED
      BY <1>6, <2>1, <3>1, HeldIs
  <2> QED
    BY <2>2, <2>3
<1>8. Held(m) = g
  <2>1. D = KeysOf(m) /\ g = [y \in D |-> g[y]]
    BY <1>5, <1>6, Zenon
  <2> QED
    BY <1>3, <1>7, <2>1, HeldOnly
<1> QED
  BY <1>1, <1>3, <1>5, <1>8

LEMMA OverwriteIs ==
    ASSUME NEW n, IsArrays(n), NEW p \in Live(n), NEW k, n.keys[p] = k, NEW x,
           NEW m, m = [n EXCEPT !.item[p] = x]
    PROVE  IsArrays(m) /\ m.nkeys = n.nkeys /\ Held(m) = Map!With(Held(n), k, x)
<1>1. ASSUME NEW a, a = n.item, NEW o,
             o = [nkeys |-> n.nkeys, keys |-> n.keys, item |-> [a EXCEPT ![p] = x]]
      PROVE  Replaces(o, n, p, x)
  <2>1. PICK b : b = [a EXCEPT ![p] = x]
    OBVIOUS
  <2>2. p \in Index /\ a = [i \in Index |-> a[i]]
    BY <1>1, LiveIs DEF IsArrays
  <2>3. /\ b = [i \in Index |-> b[i]] /\ b[p] = x
        /\ \A i \in Live(n) : i # p => b[i] = a[i]
    BY <2>1, <2>2, LiveIs
  <2>4. o = [nkeys |-> n.nkeys, keys |-> n.keys, item |-> b] /\ o.item = b
    BY <1>1, <2>1
  <2> QED
    BY <1>1, <2>3, <2>4 DEF Replaces
<1>2. m = [nkeys |-> n.nkeys, keys |-> n.keys, item |-> [n.item EXCEPT ![p] = x]]
  <2>1. n = [nkeys |-> n.nkeys, keys |-> n.keys, item |-> n.item]
    BY DEF IsArrays
  <2> QED
    BY <2>1
<1>3. Replaces(m, n, p, x)
  BY <1>1, <1>2, Zenon
<1>4. IsArrays(m) /\ m.nkeys = n.nkeys /\ Held(m) = Map!With(Held(n), n.keys[p], x)
  <2>1. \A o : Replaces(o, n, p, x) =>
                IsArrays(o) /\ o.nkeys = n.nkeys /\ Held(o) = Map!With(Held(n), n.keys[p], x)
    BY ReplacedIs
  <2> QED
    BY <1>3, <2>1, Zenon
<1> QED
  BY <1>4, Zenon

(***************************************************************************)
(* Binary search, overwriting and shifting amount to With: in a leaf for   *)
(* any key, in an inner node for a key it does not have.                   *)
(***************************************************************************)
LEMMA InsertedIs ==
    ASSUME NEW n, IsArrays(n), n.nkeys < Slots, NEW k \in Keys, NEW x,
           is_leaf \in BOOLEAN, is_leaf \/ k \notin KeysOf(n),
           NEW m, m = Inserted(n, k, x)
    PROVE  IsArrays(m) /\ Held(m) = Map!With(Held(n), k, x) /\ m.nkeys # 0
<1>1. /\ n.nkeys \in Nat /\ k \in Int
      /\ \A i \in Live(n) : i \in Nat /\ n.keys[i] \in Int /\ n.keys[i] \in KeysOf(n)
      /\ \A i : i \in Live(n) <=> i \in Nat /\ i < n.nkeys
  BY LiveIs, HeldIs, ArraysAssumption
<1>2. CASE is_leaf
  <2>1. PICK p : p = LowerBound(n, k)
    OBVIOUS
  <2>2. m = IF HasKeyAt(n, p, k) THEN [n EXCEPT !.item[p] = x] ELSE InsertAt(n, p, k, x)
    BY <1>2, <2>1 DEF Inserted, LeafInsert
  <2>3. /\ p \in 0 .. n.nkeys
        /\ \A i \in Live(n) : i < p <=> n.keys[i] < k
        /\ HasKeyAt(n, p, k) <=> k \in KeysOf(n)
        /\ HasKeyAt(n, p, k) => p \in Live(n) /\ n.keys[p] = k
    BY <2>1, LowerBoundIs
  <2>4. CASE HasKeyAt(n, p, k)
    <3>1. m = [n EXCEPT !.item[p] = x] /\ p \in Live(n) /\ n.keys[p] = k /\ n.nkeys # 0
      BY <1>1, <2>2, <2>3, <2>4
    <3> QED
      BY <3>1, OverwriteIs
  <2>5. CASE ~ HasKeyAt(n, p, k)
    <3>1. m = InsertAt(n, p, k, x)
      BY <2>2, <2>5
    <3>2. \A i \in Live(n) : (i < p => n.keys[i] < k) /\ (p <= i => k < n.keys[i])
      BY <1>1, <2>3, <2>5
    <3> QED
      BY <1>1, <2>3, <3>1, <3>2, InsertAtIs
  <2> QED
    BY <2>4, <2>5
<1>3. CASE ~ is_leaf
  <2>1. PICK p : p = UpperBound(n, k)
    OBVIOUS
  <2>2. m = InsertAt(n, p, k, x)
    BY <1>3, <2>1 DEF Inserted, InnerInsert
  <2>3. p \in 0 .. n.nkeys /\ \A i \in Live(n) : i < p <=> n.keys[i] <= k
    BY <2>1, UpperBoundIs
  <2>4. \A i \in Live(n) : (i < p => n.keys[i] < k) /\ (p <= i => k < n.keys[i])
    BY <1>1, <1>3, <2>3
  <2> QED
    BY <1>1, <2>2, <2>3, <2>4, InsertAtIs
<1> QED
  BY <1>2, <1>3

-----------------------------------------------------------------------------
(* Split *)

LEMMA SameCardinality ==
    ASSUME NEW S
    PROVE  Map!Cardinality(S) = Cardinality(S)
  BY DEF Map!Cardinality, Cardinality, Map!IsFiniteSet, IsFiniteSet

\* The keys in front of place c are those with fewer than c keys below them.
LEMMA FrontKeys ==
    ASSUME NEW n, IsArrays(n), NEW c \in 0 .. n.nkeys
    PROVE  Map!First(Held(n), c) = {n.keys[i] : i \in 0 .. c - 1}
<1>1. DOMAIN Held(n) = KeysOf(n)
  BY HeldIs
<1>2. /\ n.nkeys \in Nat /\ c \in Nat
      /\ \A i : i \in 0 .. c - 1 <=> i \in Live(n) /\ i < c
  BY LiveIs
<1>3. \A i \in Live(n) : Cardinality({j \in KeysOf(n) : j < n.keys[i]}) = i
  BY KeysBelow
<1>4. ASSUME NEW k \in KeysOf(n)
      PROVE  Cardinality({j \in KeysOf(n) : j < k}) < c <=> k \in {n.keys[i] : i \in 0 .. c - 1}
  <2>1. PICK i \in Live(n) : k = n.keys[i]
    BY DEF KeysOf
  <2>2. PICK s : s = Cardinality({j \in KeysOf(n) : j < k}) /\ s = i
    BY <1>3, <2>1
  <2>3. k \in {n.keys[j] : j \in 0 .. c - 1} <=> i \in 0 .. c - 1
    BY <1>2, <2>1, OnePlace
  <2>4. s < c <=> i \in 0 .. c - 1
    BY <1>2, <2>2
  <2> QED
    BY <2>2, <2>3, <2>4
<1>5. \A i \in 0 .. c - 1 : n.keys[i] \in KeysOf(n)
  BY <1>2, HeldIs
<1>6. Map!First(Held(n), c) = {k \in KeysOf(n) : Cardinality({j \in KeysOf(n) : j < k}) < c}
  BY <1>1, SameCardinality DEF Map!First
<1> QED
  BY <1>4, <1>5, <1>6

\* What stands at places c, c + 1, ... of n is what n has for these keys.
LEMMA PartOf ==
    ASSUME NEW n, IsArrays(n), NEW m, IsArrays(m), NEW c \in Nat,
           \A i \in Live(m) : /\ c + i \in Live(n)
                              /\ m.keys[i] = n.keys[c + i] /\ m.item[i] = n.item[c + i],
           NEW S, S = KeysOf(m)
    PROVE  Held(m) = Map!Only(Held(n), S)
<1>1. PICK g : g = Map!Only(Held(n), S)
  OBVIOUS
<1>2. g = [k \in S |-> Held(n)[k]]
  BY <1>1 DEF Map!Only
<1>3. g = [k \in S |-> g[k]]
  BY <1>2
<1>4. ASSUME NEW i \in Live(m) PROVE g[m.keys[i]] = m.item[i]
  <2>1. c + i \in Live(n) /\ m.keys[i] = n.keys[c + i] /\ m.item[i] = n.item[c + i]
    OBVIOUS
  <2>2. m.keys[i] \in S
    BY HeldIs
  <2>3. Held(n)[n.keys[c + i]] = n.item[c + i]
    BY <2>1, HeldIs
  <2> QED
    BY <1>2, <2>1, <2>2, <2>3
<1>5. Held(m) = g
  BY <1>3, <1>4, HeldOnly
<1> QED
  BY <1>1, <1>5

LEMMA LowerHalfIs ==
    ASSUME NEW n, IsArrays(n), n.nkeys = Slots, NEW m, m = LowerHalf(n),
           NEW S, S = Map!First(Held(n), Slots \div 2)
    PROVE  /\ IsArrays(m) /\ m.nkeys = Slots \div 2
           /\ KeysOf(m) = S /\ Held(m) = Map!Only(Held(n), S)
<1>1. PICK c \in 0 .. n.nkeys : c = Slots \div 2
  BY LiveIs
<1>2. m = [nkeys |-> c, keys |-> n.keys, item |-> n.item]
  <2>1. m = [n EXCEPT !.nkeys = c] /\ n = [nkeys |-> n.nkeys, keys |-> n.keys, item |-> n.item]
    BY <1>1 DEF LowerHalf, Middle, IsArrays
  <2> QED
    BY <2>1
<1>3. m.nkeys = c /\ m.keys = n.keys /\ m.item = n.item /\ m = [nkeys |-> m.nkeys, keys |-> m.keys, item |-> m.item]
  BY <1>2
<1>4. /\ c \in Nat /\ n.nkeys \in Nat /\ c <= n.nkeys
      /\ \A i : i \in Live(m) <=> i \in 0 .. c - 1
      /\ \A i \in Live(m) : i \in Live(n) /\ 0 + i = i
  BY <1>3, LiveIs DEF Live, Index
<1>5. IsArrays(m)
  <2>1. m.nkeys \in 0 .. Slots
    BY <1>3, <1>4
  <2> QED
    BY <1>3, <1>4, <2>1 DEF IsArrays
<1>6. KeysOf(m) = S
  <2>1. S = {n.keys[i] : i \in 0 .. c - 1}
    BY <1>1, FrontKeys
  <2> QED
    BY <1>3, <1>4, <2>1 DEF KeysOf
<1>7. Held(m) = Map!Only(Held(n), S)
  BY <1>3, <1>4, <1>5, <1>6, PartOf
<1> QED
  BY <1>1, <1>3, <1>5, <1>6, <1>7

\* Whatever the arrays of the new node m held.
LEMMA UpperHalfIs ==
    ASSUME NEW n, IsArrays(n), n.nkeys = Slots, NEW m, IsArrays(m), NEW h, h = UpperHalf(n, m),
           NEW S, S = KeysOf(n) \ Map!First(Held(n), Slots \div 2)
    PROVE  /\ IsArrays(h) /\ h.nkeys = Slots - Slots \div 2
           /\ KeysOf(h) = S /\ Held(h) = Map!Only(Held(n), S)
<1>1. PICK c \in 0 .. n.nkeys : c = Slots \div 2 /\ c = Middle(n)
  BY LiveIs DEF Middle
<1>2. /\ h = [nkeys |-> h.nkeys, keys |-> h.keys, item |-> h.item]
      /\ h.nkeys = n.nkeys - c
      /\ h.keys = [j \in Index |-> IF j < n.nkeys - c THEN n.keys[c + j] ELSE m.keys[j]]
      /\ h.item = [j \in Index |-> IF j < n.nkeys - c THEN n.item[c + j] ELSE m.item[j]]
  BY <1>1 DEF UpperHalf
<1>3. /\ c \in Nat /\ n.nkeys \in Nat /\ Slots \in Nat /\ n.nkeys = Slots
      /\ \A i : i \in Live(n) <=> i \in Nat /\ i < n.nkeys
      /\ \A i : i \in Live(h) <=> i \in Nat /\ i < n.nkeys - c
  BY <1>2, LiveIs DEF Live, Index
<1>4. \A i \in Live(h) : /\ c + i \in Live(n)
                         /\ h.keys[i] = n.keys[c + i] /\ h.item[i] = n.item[c + i]
  <2>1. \A i \in Live(h) : c + i \in Live(n) /\ i \in Index /\ i < n.nkeys - c
    BY <1>3 DEF Index
  <2> QED
    BY <1>2, <2>1
<1>5. h.keys \in [Index -> Keys] /\ h.item = [i \in Index |-> h.item[i]]
  <2>1. ASSUME NEW j \in Index PROVE h.keys[j] \in Keys
    <3>1. CASE j < n.nkeys - c
      <4>1. c + j \in Index
        BY <1>3, <3>1 DEF Index
      <4> QED
        BY <1>2, <3>1, <4>1 DEF IsArrays
    <3>2. CASE ~ (j < n.nkeys - c)
      BY <1>2, <3>2 DEF IsArrays
    <3> QED
      BY <3>1, <3>2
  <2> QED
    BY <1>2, <2>1
<1>6. ASSUME NEW i \in Live(h), NEW j \in Live(h), i < j PROVE h.keys[i] < h.keys[j]
  <2>1. c + i \in Live(n) /\ c + j \in Live(n) /\ c + i < c + j
    BY <1>3, <1>4, <1>6
  <2> QED
    BY <1>4, <2>1 DEF IsArrays
<1>7. IsArrays(h)
  <2>1. h.nkeys \in 0 .. Slots
    BY <1>2, <1>3
  <2> QED
    BY <1>2, <1>5, <1>6, <2>1 DEF IsArrays
<1>8. KeysOf(h) = S
  <2>1. Map!First(Held(n), Slots \div 2) = {n.keys[i] : i \in 0 .. c - 1}
    BY <1>1, FrontKeys
  <2>2. ASSUME NEW i \in Live(h) PROVE h.keys[i] \in S
    <3>1. c + i \in Live(n) /\ h.keys[i] = n.keys[c + i] /\ h.keys[i] \in KeysOf(n)
      BY <1>4, HeldIs
    <3>2. ASSUME NEW j \in 0 .. c - 1, n.keys[j] = n.keys[c + i] PROVE FALSE
      <4>1. j \in Live(n) /\ j # c + i
        BY <1>3
      <4> QED
        BY <3>1, <3>2, <4>1, OnePlace
    <3> QED
      BY <2>1, <3>1, <3>2
  <2>3. ASSUME NEW k \in S PROVE k \in KeysOf(h)
    <3>1. PICK i \in Live(n) : k = n.keys[i]
      BY DEF KeysOf
    <3>2. i \notin 0 .. c - 1
      BY <2>1, <3>1
    <3>3. i - c \in Live(h) /\ c + (i - c) = i
      BY <1>3, <3>2
    <3>4. h.keys[i - c] = k
      BY <1>4, <3>1, <3>3
    <3> QED
      BY <3>3, <3>4, HeldIs, <1>7
  <2> QED
    BY <2>2, <2>3 DEF KeysOf
<1>9. Held(h) = Map!Only(Held(n), S)
  BY <1>3, <1>4, <1>7, <1>8, PartOf
<1> QED
  BY <1>1, <1>2, <1>7, <1>8, <1>9

LEMMA FirstKey ==
    ASSUME NEW n, IsArrays(n), n.nkeys # 0, NEW S, S = KeysOf(n)
    PROVE  n.keys[0] = Map!Least(S)
<1>1. PICK k : k = n.keys[0] /\ k \in S /\ k \in Int
  <2>1. 0 \in Live(n)
    BY LiveIs
  <2> QED
    BY <2>1, LiveIs, HeldIs
<1>2. ASSUME NEW y \in S PROVE y \in Int /\ k <= y
  <2>1. PICK i \in Live(n) : y = n.keys[i]
    BY DEF KeysOf
  <2>2. /\ 0 \in Live(n) /\ i \in Nat /\ n.keys[i] \in Int
        /\ 0 < i => n.keys[0] < n.keys[i]
    BY LiveIs DEF IsArrays
  <2> QED
    BY <1>1, <2>1, <2>2
<1>3. \A x \in S : (\A y \in S : x <= y) => x = k
  BY <1>1, <1>2
<1> QED
  BY <1>1, <1>2, <1>3 DEF Map!Least

-----------------------------------------------------------------------------
(* The steps *)

\* What Map has for held, now and after a step.
HeldNow == [k \in {node.keys[i] : i \in Live(node)} |-> node.item[IndexOf(k)]]

LEMMA HeldNowIs == HeldNow = Held(node)
  BY DEF HeldNow, Held, KeysOf, IndexOf

LEMMA HeldNextIs == ASSUME NEW m, m = node' PROVE HeldNow' = Held(m)
  BY DEF HeldNow, Held, KeysOf, IndexOf

LEMMA FreshIs == ASSUME NEW m \in Fresh PROVE IsArrays(m) /\ m.nkeys = 0
<1>1. PICK a \in Keys, c \in Children \cup {0} : m = [nkeys |-> 0, keys |-> [i \in Index |-> a], item |-> [i \in Index |-> c]]
  BY ArraysAssumption DEF Fresh, ZeroLeaf, AnyInner
<1>2. Live(m) = {} /\ m.nkeys = 0 /\ 0 \in 0 .. Slots
  BY <1>1, ArraysAssumption DEF Live, Index
<1>3. /\ m = [nkeys |-> m.nkeys, keys |-> m.keys, item |-> m.item]
      /\ m.keys \in [Index -> Keys] /\ m.item = [i \in Index |-> m.item[i]]
  BY <1>1
<1> QED
  BY <1>2, <1>3 DEF IsArrays

LEMMA InsertStep ==
    ASSUME NodeInv, NEW k \in Keys, NEW x, Insert(k, x)
    PROVE  NodeInv' /\ Map!Insert(k, x)
<1>1. PICK n, m : n = node /\ m = node'
  OBVIOUS
<1>2. /\ is_leaf \in BOOLEAN /\ IsArrays(n) /\ n.nkeys # Slots /\ m = Inserted(n, k, x)
      /\ is_leaf' = is_leaf /\ left' = left /\ call' = Map!InsertCall(k, x)
  BY <1>1 DEF NodeInv, Insert, IsFull, InsertCall, Map!InsertCall
<1>3. is_leaf \/ k \notin KeysOf(n)
  BY <1>1 DEF Insert, NotASeparator, KeysOf
<1>4. n.nkeys < Slots
  BY <1>2, LiveIs
<1>5. IsArrays(m) /\ Held(m) = Map!With(Held(n), k, x)
  BY <1>2, <1>3, <1>4, InsertedIs
<1>6. Map!Size(Held(n)) < Slots
  BY <1>2, <1>4, HeldIs, HeldSize, SameCardinality DEF Map!Size
<1>7. NodeInv'
  BY <1>1, <1>2, <1>5 DEF NodeInv
<1>8. Map!Size(HeldNow) < Slots /\ HeldNow' = Map!With(HeldNow, k, x)
  BY <1>1, <1>5, <1>6, HeldNowIs, HeldNextIs
<1> QED
  BY <1>2, <1>7, <1>8 DEF Map!Insert, HeldNow

LEMMA SearchStep ==
    ASSUME NodeInv, NEW k \in Keys, Search(k)
    PROVE  NodeInv' /\ Map!Search(k)
<1>1. PICK n, p : n = node /\ p = LowerBound(n, k) /\ IsArrays(n)
  BY DEF NodeInv
<1>2. /\ is_leaf /\ is_leaf' = is_leaf /\ node' = node /\ left' = left
      /\ call' = IF HasKeyAt(n, p, k) THEN SearchCall(k, TRUE, n.item[p])
                 ELSE SearchCall(k, FALSE, Null)
  BY <1>1 DEF Search
<1>3. /\ HasKeyAt(n, p, k) <=> k \in DOMAIN Held(n)
      /\ HasKeyAt(n, p, k) => Held(n)[k] = n.item[p]
  BY <1>1, LowerBoundIs, HeldIs
<1>4. call' = IF k \in DOMAIN HeldNow THEN Map!SearchCall(k, TRUE, HeldNow[k])
              ELSE Map!SearchCall(k, FALSE, Null)
  BY <1>1, <1>2, <1>3, HeldNowIs DEF SearchCall, Map!SearchCall
<1>5. HeldNow' = HeldNow
  BY <1>1, <1>2, HeldNowIs, HeldNextIs
<1>6. NodeInv'
  BY <1>2 DEF NodeInv
<1> QED
  BY <1>2, <1>4, <1>5, <1>6 DEF Map!Search, HeldNow

LEMMA RemoveStep ==
    ASSUME NodeInv, NEW k \in Keys, Remove(k)
    PROVE  NodeInv' /\ Map!Remove(k)
<1>1. PICK n, m, p : n = node /\ m = node' /\ p = LowerBound(n, k) /\ IsArrays(n)
  BY DEF NodeInv
<1>2. /\ is_leaf /\ is_leaf' = is_leaf /\ left' = left
      /\ call' = RemoveCall(k, HasKeyAt(n, p, k))
      /\ m = IF HasKeyAt(n, p, k) THEN [n EXCEPT !.item[p] = 0] ELSE n
  BY <1>1 DEF Remove
<1>3. /\ HasKeyAt(n, p, k) <=> k \in DOMAIN Held(n)
      /\ HasKeyAt(n, p, k) => p \in Live(n) /\ n.keys[p] = k
  BY <1>1, LowerBoundIs, HeldIs
<1>4. /\ IsArrays(m)
      /\ k \in DOMAIN Held(n) => Held(m) = Map!With(Held(n), k, 0)
      /\ k \notin DOMAIN Held(n) => Held(m) = Held(n)
  <2>1. CASE HasKeyAt(n, p, k)
    <3>1. m = [n EXCEPT !.item[p] = 0] /\ p \in Live(n) /\ n.keys[p] = k
      BY <1>2, <1>3, <2>1
    <3>2. IsArrays(m) /\ Held(m) = Map!With(Held(n), k, 0)
      BY <1>1, <3>1, OverwriteIs
    <3> QED
      BY <1>3, <2>1, <3>2
  <2>2. CASE ~ HasKeyAt(n, p, k)
    <3>1. m = n
      BY <1>2, <2>2
    <3> QED
      BY <1>1, <1>3, <2>2, <3>1
  <2> QED
    BY <2>1, <2>2
<1>5. /\ call' = Map!RemoveCall(k, k \in DOMAIN HeldNow)
      /\ HeldNow' = IF k \in DOMAIN HeldNow THEN Map!With(HeldNow, k, 0) ELSE HeldNow
  <2>1. HeldNow = Held(n) /\ HeldNow' = Held(m)
    BY <1>1, HeldNowIs, HeldNextIs
  <2>2. HasKeyAt(n, p, k) = (k \in DOMAIN HeldNow)
    <3>1. HasKeyAt(n, p, k) <=> k \in DOMAIN HeldNow
      BY <1>3, <2>1
    <3> QED
      BY <3>1, SMT DEF HasKeyAt
  <2>3. call' = Map!RemoveCall(k, k \in DOMAIN HeldNow)
    BY <1>2, <2>2, Zenon DEF RemoveCall, Map!RemoveCall
  <2> QED
    BY <1>4, <2>1, <2>3
<1>6. NodeInv'
  BY <1>1, <1>2, <1>4 DEF NodeInv
<1> QED
  BY <1>2, <1>5, <1>6 DEF Map!Remove, HeldNow

LEMMA SearchDownStep ==
    ASSUME NodeInv, NEW k \in Keys, SearchDown(k)
    PROVE  NodeInv' /\ Map!SearchDown(k)
<1>1. PICK n, p : n = node /\ p = UpperBound(n, k) /\ IsArrays(n)
  BY DEF NodeInv
<1>2. /\ ~is_leaf /\ is_leaf' = is_leaf /\ node' = node /\ left' = left
      /\ call' = SearchDownCall(k, IF p = 0 THEN left ELSE n.item[p - 1])
  BY <1>1 DEF SearchDown
<1>3. p \in 0 .. n.nkeys /\ \A i \in Live(n) : i < p <=> n.keys[i] <= k
  BY <1>1, UpperBoundIs
<1>4. PICK B : B = {s \in KeysOf(n) : s <= k}
  OBVIOUS
<1>5. p = 0 => B = {}
  <2>1. ASSUME NEW s \in KeysOf(n), p = 0 PROVE ~ (s <= k)
    <3>1. PICK i \in Live(n) : s = n.keys[i]
      BY DEF KeysOf
    <3>2. ~ (i < p)
      BY <1>1, <2>1, LiveIs
    <3> QED
      BY <1>3, <3>1, <3>2
  <2> QED
    BY <1>4, <2>1
<1>6. p # 0 => B # {} /\ Held(n)[Map!Greatest(B)] = n.item[p - 1]
  <2>1. SUFFICES ASSUME p # 0 PROVE B # {} /\ Held(n)[Map!Greatest(B)] = n.item[p - 1]
    OBVIOUS
  <2>2. PICK q : q = p - 1 /\ q \in Live(n) /\ q < p /\ q \in Nat
    BY <1>1, <1>3, <2>1, LiveIs
  <2>3. PICK g : g = n.keys[q] /\ g \in B /\ g \in Int
    BY <1>1, <1>3, <1>4, <2>2, HeldIs, LiveIs
  <2>4. ASSUME NEW s \in B PROVE s \in Int /\ s <= g
    <3>1. PICK i \in Live(n) : s = n.keys[i] /\ s <= k
      BY <1>4 DEF KeysOf
    <3>2. /\ i < p /\ i \in Nat /\ n.keys[i] \in Int
          /\ i < q => n.keys[i] < n.keys[q]
      BY <1>1, <1>3, <2>2, <3>1, LiveIs DEF IsArrays
    <3>3. i < q \/ i = q
      BY <1>1, <1>3, <2>2, <3>2, LiveIs
    <3> QED
      BY <2>3, <3>1, <3>2, <3>3
  <2>5. Map!Greatest(B) = g
    <3>1. \A y \in B : (\A s \in B : s <= y) => y = g
      BY <2>3, <2>4
    <3> QED
      BY <2>3, <2>4, <3>1 DEF Map!Greatest
  <2> QED
    BY <1>1, <2>2, <2>3, <2>5, HeldIs
<1>7. B = {s \in DOMAIN HeldNow : s <= k} /\ HeldNow = Held(n)
  BY <1>1, <1>4, HeldIs, HeldNowIs
<1>8. call' = Map!SearchDownCall(k, IF B = {} THEN left ELSE HeldNow[Map!Greatest(B)])
  BY <1>2, <1>5, <1>6, <1>7 DEF SearchDownCall, Map!SearchDownCall
<1>9. HeldNow' = HeldNow
  BY <1>1, <1>2, HeldNowIs, HeldNextIs
<1>10. NodeInv'
  BY <1>2 DEF NodeInv
<1> QED
  BY <1>2, <1>7, <1>8, <1>9, <1>10 DEF Map!SearchDown, HeldNow

\* One half of a full node takes the key, and the two are followed or linked.
LEMMA SplitStep ==
    ASSUME NodeInv, NEW k \in Keys, NEW x, Split(k, x)
    PROVE  NodeInv' /\ Map!Split(k, x)
<1>1. PICK n, m : n = node /\ m = node' /\ IsArrays(n) /\ is_leaf \in BOOLEAN
  BY DEF NodeInv
<1>2. n.nkeys = Slots /\ is_leaf' = is_leaf
  BY <1>1 DEF Split, IsFull
<1>3. is_leaf \/ k \notin KeysOf(n)
  BY <1>1 DEF Split, NotASeparator, KeysOf
<1>4. PICK f, low, high, low_after, high_after :
         /\ f \in Fresh
         /\ low = LowerHalf(n) /\ high = UpperHalf(n, f)
         /\ low_after = IF k < high.keys[0] THEN Inserted(low, k, x) ELSE low
         /\ high_after = IF k < high.keys[0] THEN high ELSE Inserted(high, k, x)
         /\ \/ /\ m = low_after /\ left' = left
               /\ call' = SplitCall(k, x, "lower", high_after.keys[0])
            \/ /\ m = high_after /\ left' = Null
               /\ call' = SplitCall(k, x, "upper", high_after.keys[0])
  BY <1>1 DEF Split
<1>5. PICK D, lower, upper : /\ D = KeysOf(n) /\ D = DOMAIN Held(n)
                             /\ lower = Map!First(Held(n), Slots \div 2) /\ upper = D \ lower
  BY <1>1, HeldIs
<1>6. /\ IsArrays(low) /\ low.nkeys = Slots \div 2
      /\ KeysOf(low) = lower /\ Held(low) = Map!Only(Held(n), lower)
  BY <1>1, <1>2, <1>4, <1>5, LowerHalfIs
<1>7. /\ IsArrays(high) /\ high.nkeys = Slots - Slots \div 2
      /\ KeysOf(high) = upper /\ Held(high) = Map!Only(Held(n), upper)
  <2>1. IsArrays(f)
    BY <1>4, FreshIs
  <2> QED
    BY <1>1, <1>2, <1>4, <1>5, <2>1, UpperHalfIs
<1>8. low.nkeys < Slots /\ high.nkeys < Slots /\ high.nkeys # 0
  BY <1>6, <1>7, ArraysAssumption
<1>9. lower \subseteq D /\ upper \subseteq D
  BY <1>5 DEF Map!First
<1> DEFINE below == k < Map!Least(upper)
<1>10. PICK g, h :
          /\ g = IF below THEN Map!With(Map!Only(Held(n), lower), k, x) ELSE Map!Only(Held(n), lower)
          /\ h = IF below THEN Map!Only(Held(n), upper) ELSE Map!With(Map!Only(Held(n), upper), k, x)
  OBVIOUS
<1>11. below <=> k < high.keys[0]
  BY <1>7, <1>8, FirstKey
<1> HIDE DEF below
<1>12. IsArrays(low_after) /\ Held(low_after) = g
  <2>1. CASE below
    <3>1. low_after = Inserted(low, k, x) /\ (is_leaf \/ k \notin KeysOf(low))
      BY <1>3, <1>4, <1>5, <1>6, <1>9, <1>11, <2>1
    <3> QED
      BY <1>1, <1>6, <1>8, <1>10, <2>1, <3>1, InsertedIs
  <2>2. CASE ~below
    BY <1>4, <1>6, <1>10, <1>11, <2>2
  <2> QED
    BY <2>1, <2>2
<1>13. IsArrays(high_after) /\ Held(high_after) = h /\ high_after.nkeys # 0
  <2>1. CASE below
    BY <1>4, <1>7, <1>8, <1>10, <1>11, <2>1
  <2>2. CASE ~below
    <3>1. high_after = Inserted(high, k, x) /\ (is_leaf \/ k \notin KeysOf(high))
      BY <1>3, <1>4, <1>5, <1>7, <1>9, <1>11, <2>2
    <3> QED
      BY <1>1, <1>7, <1>8, <1>10, <2>2, <3>1, InsertedIs
  <2> QED
    BY <2>1, <2>2
<1>14. high_after.keys[0] = Map!Least(DOMAIN h)
  BY <1>13, FirstKey, HeldIs
<1>15. HeldNow = Held(n) /\ HeldNow' = Held(m)
  BY <1>1, HeldNowIs, HeldNextIs
<1>16. \/ /\ HeldNow' = g /\ left' = left
          /\ call' = Map!SplitCall(k, x, "lower", Map!Least(DOMAIN h))
       \/ /\ HeldNow' = h /\ left' = Null
          /\ call' = Map!SplitCall(k, x, "upper", Map!Least(DOMAIN h))
  BY <1>4, <1>12, <1>13, <1>14, <1>15 DEF SplitCall, Map!SplitCall
<1>17. Map!Size(HeldNow) = Slots
  BY <1>1, <1>2, <1>15, HeldIs, HeldSize, SameCardinality DEF Map!Size
<1>18. NodeInv'
  BY <1>1, <1>2, <1>4, <1>12, <1>13 DEF NodeInv
<1>19. /\ lower = Map!First(HeldNow, Slots \div 2) /\ upper = DOMAIN HeldNow \ lower
       /\ g = IF k < Map!Least(upper) THEN Map!With(Map!Only(HeldNow, lower), k, x) ELSE Map!Only(HeldNow, lower)
       /\ h = IF k < Map!Least(upper) THEN Map!Only(HeldNow, upper) ELSE Map!With(Map!Only(HeldNow, upper), k, x)
  BY <1>5, <1>10, <1>15 DEF below
<1>20. Map!Split(k, x)
  BY <1>2, <1>16, <1>17, <1>19 DEF Map!Split, HeldNow
<1> QED
  BY <1>18, <1>20

LEMMA InitStep ==
    ASSUME Init
    PROVE  NodeInv /\ Map!Init
<1>1. PICK n : n = node
  OBVIOUS
<1>2. HeldNow = Held(n) /\ call = Null
  BY <1>1, HeldNowIs DEF Init
<1>3. CASE is_leaf /\ node = ZeroLeaf /\ left = Null
  <2>1. IsArrays(n) /\ n.nkeys = 0
    BY <1>1, <1>3, FreshIs DEF Fresh
  <2>2. KeysOf(n) = {}
    BY <2>1, LiveIs DEF KeysOf
  <2>3. Held(n) = [y \in {} |-> 0]
    BY <2>2 DEF Held
  <2>4. HeldNow = [y \in {} |-> 0]
    BY <1>2, <2>3
  <2> QED
    BY <1>1, <1>2, <1>3, <2>1, <2>4 DEF NodeInv, Map!Init, HeldNow
<1>4. CASE /\ is_leaf = FALSE
           /\ left \in Children
           /\ \E f \in AnyInner, k \in Keys, c \in Children :
                 node = [f EXCEPT !.nkeys = 1, !.keys[0] = k, !.item[0] = c]
  <2>1. PICK f \in AnyInner, k \in Keys, c \in Children :
           n = [f EXCEPT !.nkeys = 1, !.keys[0] = k, !.item[0] = c]
    BY <1>1, <1>4
  <2>2. PICK a \in Keys, b \in Children :
           f = [nkeys |-> 0, keys |-> [i \in Index |-> a], item |-> [i \in Index |-> b]]
    BY DEF AnyInner
  <2>3. n = [nkeys |-> 1, keys |-> [[i \in Index |-> a] EXCEPT ![0] = k],
             item |-> [[i \in Index |-> b] EXCEPT ![0] = c]]
    BY <2>1, <2>2
  <2>4. PICK ks, is : ks = [[i \in Index |-> a] EXCEPT ![0] = k] /\ is = [[i \in Index |-> b] EXCEPT ![0] = c]
    OBVIOUS
  <2>5. 0 \in Index /\ Slots \in Nat /\ Slots >= 2
    BY ArraysAssumption DEF Index
  <2>6. ks \in [Index -> Keys] /\ is = [i \in Index |-> is[i]] /\ ks[0] = k /\ is[0] = c
    BY <2>4, <2>5
  <2>7. /\ n = [nkeys |-> n.nkeys, keys |-> n.keys, item |-> n.item]
        /\ n.nkeys = 1 /\ n.keys = ks /\ n.item = is
    BY <2>3, <2>4
  <2>8. \A i : i \in Live(n) <=> i = 0
    BY <2>5, <2>7 DEF Live, Index
  <2>9. IsArrays(n)
    BY <2>5, <2>6, <2>7, <2>8 DEF IsArrays
  <2>10. KeysOf(n) = {k}
    BY <2>6, <2>7, <2>8 DEF KeysOf
  <2>11. DOMAIN Held(n) = {k} /\ Held(n)[k] = c
    BY <2>6, <2>7, <2>8, <2>9, <2>10, HeldIs
  <2>12. Held(n) \in [{k} -> Children]
    <3>1. Held(n) = [y \in KeysOf(n) |-> Held(n)[y]]
      BY DEF Held
    <3> QED
      BY <2>10, <2>11, <3>1
  <2>13. \E s \in Keys : HeldNow \in [{s} -> Children]
    BY <1>2, <2>12
  <2> QED
    BY <1>1, <1>2, <1>4, <2>9, <2>13 DEF NodeInv, Map!Init, HeldNow
<1> QED
  BY <1>3, <1>4 DEF Init

(***************************************************************************)
(* Whatever a node did before, its arrays behave as the function that      *)
(* BPTree has for it: a search finds exactly the keys put in, with their   *)
(* last items, and a split moves exactly the upper half.                   *)
(***************************************************************************)
THEOREM ImplementsFunctionsHolds == Spec => ImplementsFunctions
<1>1. Init => NodeInv /\ Map!Init
  BY InitStep
<1>2. NodeInv /\ [Next]_vars => NodeInv' /\ [Map!Next]_(Map!vars)
  <2>1. SUFFICES ASSUME NodeInv, [Next]_vars PROVE NodeInv' /\ [Map!Next]_(Map!vars)
    OBVIOUS
  <2>2. CASE UNCHANGED vars
    <3>1. UNCHANGED <<is_leaf, node, left, call>>
      BY <2>2 DEF vars
    <3>2. NodeInv'
      BY <2>1, <3>1 DEF NodeInv
    <3>3. HeldNow' = HeldNow
      <4>1. PICK n : n = node /\ n = node'
        BY <3>1
      <4> QED
        BY <4>1, HeldNowIs, HeldNextIs
    <3> QED
      BY <3>1, <3>2, <3>3 DEF Map!vars, HeldNow
  <2>3. ASSUME NEW k \in Keys, NEW x \in Items, Insert(k, x) PROVE NodeInv' /\ Map!Next
    <3>1. NodeInv' /\ Map!Insert(k, x)
      BY <2>1, <2>3, InsertStep
    <3> QED
      BY <3>1 DEF Map!Next, Map!Items, Items
  <2>4. ASSUME NEW k \in Keys, NEW x \in Items, Split(k, x) PROVE NodeInv' /\ Map!Next
    <3>1. NodeInv' /\ Map!Split(k, x)
      BY <2>1, <2>4, SplitStep
    <3> QED
      BY <3>1 DEF Map!Next, Map!Items, Items
  <2>5. ASSUME NEW k \in Keys, Search(k) PROVE NodeInv' /\ Map!Next
    <3>1. NodeInv' /\ Map!Search(k)
      BY <2>1, <2>5, SearchStep
    <3> QED
      BY <3>1 DEF Map!Next
  <2>6. ASSUME NEW k \in Keys, Remove(k) PROVE NodeInv' /\ Map!Next
    <3>1. NodeInv' /\ Map!Remove(k)
      BY <2>1, <2>6, RemoveStep
    <3> QED
      BY <3>1 DEF Map!Next
  <2>7. ASSUME NEW k \in Keys, SearchDown(k) PROVE NodeInv' /\ Map!Next
    <3>1. NodeInv' /\ Map!SearchDown(k)
      BY <2>1, <2>7, SearchDownStep
    <3> QED
      BY <3>1 DEF Map!Next
  <2> QED
    BY <2>1, <2>2, <2>3, <2>4, <2>5, <2>6, <2>7 DEF Next
<1> QED
  BY <1>1, <1>2, PTL DEF Spec, ImplementsFunctions, Map!Spec

=============================================================================
