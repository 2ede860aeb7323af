---------------------------- MODULE HashTableProofs ----------------------------
(***************************************************************************)
(* The hash index keeps each key in one slot, for every number of threads, *)
(* keys, buckets and slots.                                                *)
(***************************************************************************)
EXTENDS HashTableRefinement, TLAPS

(***************************************************************************)
(* A quotient below the divisor is 0: why a bucket id has partition 0 and  *)
(* signature 0 (hashtable.cc:38-39).                                       *)
(***************************************************************************)
LEMMA QuotientZero ==
    ASSUME NEW n \in Nat, NEW d \in Nat, n < d
    PROVE  n \div d = 0
  BY SMT

(***************************************************************************)
(* Both blocks probe the same cell, and the cell lies in the first         *)
(* partition, inside the table.                                            *)
(***************************************************************************)
LEMMA CellOfKey ==
    ASSUME NEW k \in Keys, NEW b \in Blocks, NEW i \in Slots
    PROVE  /\ BucketId(k, b) \in Buckets
           /\ PartitionId(k, b) = 0
           /\ Signature(k, b) = 0
           /\ Cell(k, b, i) = <<0, BucketId(k, 1), i>>
           /\ Cell(k, b, i) \in Cells
<1>1. BucketId(k, b) = BucketId(k, 1)
  BY DEF BucketId, Seed
<1>2. BucketId(k, b) \in Buckets
  BY HashAssumption, SizeAssumption DEF BucketId, Seed, Buckets
<1>3. BucketId(k, b) \in Nat /\ BucketId(k, b) < NumBucket
  BY <1>2, SizeAssumption DEF Buckets
<1>4. BucketId(k, b) \div PartUnit = 0
  BY <1>3, SizeAssumption, QuotientZero
<1>5. BucketId(k, b) \div SigUnit = 0
  BY <1>3, SizeAssumption, QuotientZero
<1>6. PartitionId(k, b) = 0 /\ Signature(k, b) = 0
  BY <1>4, <1>5 DEF PartitionId, Signature
<1>7. Cell(k, b, i) = <<0, BucketId(k, 1), i>>
  BY <1>1, <1>6 DEF Cell
<1>8. 0 \in Partitions
  BY SizeAssumption DEF Partitions
<1> QED
  BY <1>1, <1>2, <1>6, <1>7, <1>8 DEF Cells

(***************************************************************************)
(* Initially the table is empty and no call is open.                       *)
(***************************************************************************)
LEMMA InitIInv == Init => IInv
<1> SUFFICES ASSUME Init PROVE IInv
  OBVIOUS
<1>1. TypeOK
  <2>1. (CHOOSE k \in Keys : TRUE) \in Keys
    BY HashAssumption
  <2>2. 0 \in Slots
    BY SizeAssumption DEF Slots
  <2> QED
    BY <2>1, <2>2 DEF Init, TypeOK, Results, Blocks
<1>2. \A c \in Cells : table[c] = Empty
  BY DEF Init
<1>3. \A k \in Keys, i \in Slots : table[Cell(k, 1, i)] = Empty
  BY <1>2, CellOfKey DEF Blocks
<1>4. \A t \in Threads : pc[t] = "idle" /\ slot[t] = 0 /\ block[t] = 1
  BY DEF Init
<1>5. HomeBucket /\ NoHoles /\ UniqueKey
  BY <1>2, <1>3 DEF HomeBucket, NoHoles, UniqueKey, Holds
<1>6. PassedSlots /\ CurrentSlot /\ Argument
  BY <1>4 DEF PassedSlots, CurrentSlot, Argument, PutSteps
<1> QED
  BY <1>1, <1>5, <1>6 DEF IInv

(***************************************************************************)
(* The facts about a thread's position that the steps share.               *)
(***************************************************************************)
LEMMA Position ==
    ASSUME TypeOK, NEW t \in Threads
    PROVE  /\ key[t] \in Keys /\ block[t] \in Blocks /\ slot[t] \in Slots
           /\ MyCell(t) = Cell(key[t], 1, slot[t])
           /\ MyCell(t) \in Cells
           /\ MyCell(t)[3] = slot[t]
<1>1. key[t] \in Keys /\ block[t] \in Blocks /\ slot[t] \in Slots
  BY DEF TypeOK
<1>2. 1 \in Blocks
  BY DEF Blocks
<1> QED
  BY <1>1, <1>2, CellOfKey DEF MyCell

(***************************************************************************)
(* Falling out of a block preserves the invariant, provided a Put leaves   *)
(* an occupied slot and leaves the second block only if the slot holds     *)
(* another key.                                                            *)
(***************************************************************************)
LEMMA NextProbeIInv ==
    ASSUME IInv, NEW t \in Threads, NEW test \in {"put_test", "get_test"},
           NextProbe(t, test), UNCHANGED <<table, fresh, key>>,
           pc[t] \in PutSteps \cup GetSteps,
           test = "put_test" <=> pc[t] \in PutSteps,
           pc[t] \in PutSteps =>
               /\ table[MyCell(t)] # Empty
               /\ block[t] = 2 => ~Holds(MyCell(t), key[t])
    PROVE  IInv'
<1> USE DEF IInv
<1>1. TypeOK'
  <2>1. slot[t] \in Slots /\ (slot[t] + 1 < NumSlot => slot[t] + 1 \in Slots)
    BY SizeAssumption DEF TypeOK, Slots
  <2>2. 0 \in Slots
    BY SizeAssumption DEF Slots
  <2>3. ret' \in [Threads -> Results]
    <3>1. [ok |-> FALSE, addr |-> NoAddr] \in Results
      BY DEF Results
    <3>2. ret' = ret \/ ret' = [ret EXCEPT ![t] = [ok |-> FALSE, addr |-> NoAddr]]
      BY DEF NextProbe, Return
    <3> QED
      BY <3>1, <3>2 DEF TypeOK
  <2>4. pc' \in [Threads -> {"idle"} \cup PutSteps \cup GetSteps]
    BY DEF TypeOK, NextProbe, Return, Goto, PutSteps, GetSteps
  <2>5. slot' \in [Threads -> Slots]
    BY <2>1, <2>2 DEF TypeOK, NextProbe, Return
  <2>6. block' \in [Threads -> Blocks] /\ pos' \in [Threads -> Addrs \cup {NoAddr}]
    BY DEF TypeOK, NextProbe, Return, Blocks
  <2> QED
    BY <2>3, <2>4, <2>5, <2>6 DEF TypeOK
<1>2. HomeBucket' /\ NoHoles' /\ UniqueKey'
  BY DEF HomeBucket, NoHoles, UniqueKey, Holds
<1>3. ASSUME NEW u \in Threads, u # t
      PROVE  /\ pc'[u] = pc[u] /\ pos'[u] = pos[u] /\ slot'[u] = slot[u]
             /\ block'[u] = block[u] /\ MyCell(u)' = MyCell(u)
  BY <1>3 DEF TypeOK, NextProbe, Return, Goto, MyCell
<1>4. \/ pc'[t] = "idle" /\ block'[t] = 1 /\ slot'[t] = 0
      \/ pc'[t] = test /\ block'[t] = 2 /\ slot'[t] = slot[t] /\ pos'[t] = pos[t] /\ block[t] = 1
      \/ pc'[t] = test /\ block'[t] = 1 /\ slot'[t] = slot[t] + 1 /\ pos'[t] = pos[t] /\ block[t] = 2
  BY DEF TypeOK, NextProbe, Return, Goto
<1>5. \A u \in Threads : \A c : Holds(c, key[u])' = Holds(c, key[u])
  BY DEF Holds
<1>6. PassedSlots'
  <2> SUFFICES ASSUME NEW u \in Threads, pc'[u] \in PutSteps,
                      NEW i \in Slots, i < slot'[u]
               PROVE  /\ table[Cell(key[u], 1, i)] # Empty
                      /\ ~Holds(Cell(key[u], 1, i), key[u])
    BY <1>5 DEF PassedSlots
  <2>1. CASE u # t
    BY <1>3, <2>1 DEF PassedSlots
  <2>2. CASE u = t
    <3>1. pc[t] \in PutSteps
      BY <1>4, <2>2 DEF PutSteps
    <3>2. CASE i < slot[t]
      BY <2>2, <3>1, <3>2 DEF PassedSlots
    <3>3. CASE ~(i < slot[t])
      <4>1. block[t] = 2 /\ i = slot[t]
        BY <1>4, <2>2, <3>3, Position DEF Slots, PutSteps
      <4> QED
        BY <2>2, <3>1, <4>1, Position
    <3> QED
      BY <3>2, <3>3
  <2> QED
    BY <2>1, <2>2
<1>7. CurrentSlot'
  <2> SUFFICES ASSUME NEW u \in Threads
               PROVE  /\ pc'[u] \in PutSteps /\ block'[u] = 2 => table[MyCell(u)'] # Empty
                      /\ pc'[u] \in {"put_compare", "get_compare"} => table[MyCell(u)'] # Empty
                      /\ pc'[u] = "put_cas" => block'[u] = 1
                      /\ pc'[u] = "put_store" => Holds(MyCell(u)', key[u])
                      /\ pc'[u] = "idle" => slot'[u] = 0 /\ block'[u] = 1
    BY DEF CurrentSlot, Holds
  <2>1. CASE u # t
    BY <1>3, <2>1 DEF CurrentSlot
  <2>2. CASE u = t
    <3>1. pc'[t] \in {"idle", "put_test", "get_test"}
      BY <1>4
    <3>2. ASSUME pc'[t] \in PutSteps, block'[t] = 2
          PROVE  table[MyCell(t)'] # Empty
      <4>1. slot'[t] = slot[t] /\ pc[t] \in PutSteps
        BY <1>4, <3>2 DEF PutSteps
      <4>2. MyCell(t)' = Cell(key[t], block'[t], slot[t])
        BY <4>1 DEF MyCell
      <4>3. MyCell(t)' = MyCell(t)
        BY <3>2, <4>2, Position, CellOfKey DEF Blocks
      <4> QED
        BY <4>1, <4>3
    <3> QED
      BY <1>4, <2>2, <3>1, <3>2
  <2> QED
    BY <2>1, <2>2
<1>8. Argument'
  <2> SUFFICES ASSUME NEW u \in Threads, pc'[u] \in PutSteps
               PROVE  pos'[u] \in Addrs /\ KeyAt[pos'[u]] = key[u]
    BY DEF Argument
  <2>1. pc[u] \in PutSteps /\ pos'[u] = pos[u]
    BY <1>3, <1>4 DEF PutSteps
  <2> QED
    BY <2>1 DEF Argument
<1> QED
  BY <1>1, <1>2, <1>6, <1>7, <1>8

(***************************************************************************)
(* Writing its record into the current slot and returning preserves the    *)
(* invariant, if a Put overwrites a slot of its key or claims an empty     *)
(* slot: the slots before it hold other keys and, the bucket having no     *)
(* holes, the slots after it are empty.                                    *)
(***************************************************************************)
LEMMA WriteSlotIInv ==
    ASSUME IInv, NEW t \in Threads,
           WriteSlot(t), Return(t, TRUE, pos[t]), UNCHANGED <<fresh, key>>,
           pc[t] \in PutSteps,
           table[MyCell(t)] = Empty \/ Holds(MyCell(t), key[t])
    PROVE  IInv'
<1> USE DEF IInv
<1> DEFINE c0 == MyCell(t)
           w0 == Word(key[t], block[t], pos[t])
           HoldsAfter(c, k) == table'[c] # Empty /\ KeyAt[table'[c].addr] = k
<1>1. /\ key[t] \in Keys /\ block[t] \in Blocks /\ slot[t] \in Slots
      /\ c0 = Cell(key[t], 1, slot[t]) /\ c0 \in Cells /\ c0[3] = slot[t]
      /\ table[c0] = Empty \/ Holds(c0, key[t])
  BY Position
<1>2. pos[t] \in Addrs /\ KeyAt[pos[t]] = key[t]
  BY DEF Argument
<1>3. w0 \in Words /\ w0 # Empty /\ w0.sig = Signature(key[t], 1) /\ w0.addr = pos[t]
  <2>1. Signature(key[t], block[t]) = 0 /\ Signature(key[t], 1) = 0
    BY <1>1, CellOfKey DEF Blocks
  <2> QED
    BY <1>2, <2>1, EmptyAssumption DEF Word, Words
<1>4. /\ \A c \in Cells : c # c0 => table'[c] = table[c]
      /\ table'[c0] = w0
      /\ table' \in [Cells -> Words \cup {Empty}]
  <2> HIDE DEF w0
  <2>1. table' = [table EXCEPT ![c0] = w0]
    BY DEF WriteSlot, w0
  <2> QED
    BY <1>1, <1>3, <2>1 DEF TypeOK
<1> HIDE DEF c0, w0
<1>5. \A c \in Cells : table[c] # Empty => table'[c] # Empty
  BY <1>3, <1>4
<1>6. \A c \in Cells, k \in Keys :
         HoldsAfter(c, k) <=> IF c = c0 THEN k = key[t] ELSE Holds(c, k)
  BY <1>2, <1>3, <1>4 DEF Holds
<1>7. \A k \in Keys, i \in Slots : Cell(k, 1, i) \in Cells
  BY CellOfKey DEF Blocks
<1>8. ASSUME NEW u \in Threads, u # t
      PROVE  /\ pc'[u] = pc[u] /\ pos'[u] = pos[u] /\ slot'[u] = slot[u]
             /\ block'[u] = block[u] /\ MyCell(u)' = MyCell(u)
             /\ MyCell(u) \in Cells /\ key[u] \in Keys
  BY <1>8, Position DEF TypeOK, Return, Goto, MyCell
<1>9. pc'[t] = "idle" /\ slot'[t] = 0 /\ block'[t] = 1
  BY DEF TypeOK, Return, Goto
<1>10. TypeOK'
  <2>1. [ok |-> TRUE, addr |-> pos[t]] \in Results
    BY <1>2 DEF Results
  <2>2. ret' \in [Threads -> Results]
    BY <2>1 DEF TypeOK, Return
  <2>3. 0 \in Slots
    BY SizeAssumption DEF Slots
  <2>4. pc' \in [Threads -> {"idle"} \cup PutSteps \cup GetSteps]
    BY DEF TypeOK, Return, Goto
  <2> QED
    BY <1>4, <2>2, <2>3, <2>4 DEF TypeOK, Return, Blocks
<1>11. HomeBucket'
  <2> SUFFICES ASSUME NEW c \in Cells, table'[c] # Empty
               PROVE  LET k == KeyAt[table'[c].addr] IN
                      c = Cell(k, 1, c[3]) /\ table'[c].sig = Signature(k, 1)
    BY DEF HomeBucket
  <2>1. CASE c = c0
    BY <1>1, <1>2, <1>3, <1>4, <2>1
  <2>2. CASE c # c0
    BY <1>4, <2>2 DEF HomeBucket
  <2> QED
    BY <2>1, <2>2
<1>12. NoHoles'
  <2> SUFFICES ASSUME NEW k \in Keys, NEW i \in Slots, NEW j \in Slots, i < j,
                      table'[Cell(k, 1, j)] # Empty
               PROVE  table'[Cell(k, 1, i)] # Empty
    BY DEF NoHoles
  <2>1. CASE Cell(k, 1, j) # c0
    BY <1>4, <1>5, <1>7, <2>1 DEF NoHoles
  <2>2. CASE Cell(k, 1, j) = c0
    <3>1. j = slot[t] /\ Cell(k, 1, i) = Cell(key[t], 1, i)
      BY <1>1, <2>2, CellOfKey DEF Blocks
    <3> QED
      BY <1>5, <1>7, <3>1 DEF PassedSlots
  <2> QED
    BY <2>1, <2>2
<1>13. PassedSlots'
  <2> SUFFICES ASSUME NEW u \in Threads, pc'[u] \in PutSteps,
                      NEW i \in Slots, i < slot'[u]
               PROVE  /\ table'[Cell(key[u], 1, i)] # Empty
                      /\ ~HoldsAfter(Cell(key[u], 1, i), key[u])
    BY DEF PassedSlots, Holds
  <2>1. u # t /\ key[u] \in Keys
    BY <1>8, <1>9 DEF PutSteps
  <2> DEFINE c == Cell(key[u], 1, i)
  <2>2. c \in Cells /\ table[c] # Empty /\ ~Holds(c, key[u])
    BY <1>7, <1>8, <2>1 DEF PassedSlots
  <2> HIDE DEF c
  <2>3. c = c0 => Holds(c, key[t])
    BY <1>1, <2>2
  <2>4. c = c0 => key[u] # key[t]
    BY <2>2, <2>3
  <2>5. table'[c] # Empty /\ ~HoldsAfter(c, key[u])
    BY <1>5, <1>6, <2>1, <2>2, <2>4
  <2> QED
    BY <2>5 DEF c
<1>14. CurrentSlot'
  <2> SUFFICES ASSUME NEW u \in Threads
               PROVE  /\ pc'[u] \in PutSteps /\ block'[u] = 2 => table'[MyCell(u)'] # Empty
                      /\ pc'[u] \in {"put_compare", "get_compare"} => table'[MyCell(u)'] # Empty
                      /\ pc'[u] = "put_cas" => block'[u] = 1
                      /\ pc'[u] = "put_store" => HoldsAfter(MyCell(u)', key[u])
                      /\ pc'[u] = "idle" => slot'[u] = 0 /\ block'[u] = 1
    BY DEF CurrentSlot, Holds
  <2>1. CASE u = t
    BY <1>9, <2>1 DEF PutSteps
  <2>2. CASE u # t
    <3> DEFINE c == MyCell(u)
    <3>1. c \in Cells /\ key[u] \in Keys /\ MyCell(u)' = c
      BY <1>8, <2>2
    <3>2. Holds(c, key[u]) => HoldsAfter(c, key[u])
      <4> HIDE DEF c
      <4>1. c = c0 /\ Holds(c, key[u]) => key[u] = key[t]
        BY <1>1 DEF Holds
      <4> QED
        BY <1>6, <3>1, <4>1
    <3> QED
      BY <1>5, <1>8, <2>2, <3>1, <3>2 DEF CurrentSlot
  <2> QED
    BY <2>1, <2>2
<1>15. Argument'
  BY <1>8, <1>9 DEF Argument, PutSteps
<1>16. UniqueKey'
  <2>1. \A d \in Cells : Holds(d, key[t]) => d = c0
    <3> SUFFICES ASSUME NEW d \in Cells, Holds(d, key[t]) PROVE d = c0
      OBVIOUS
    <3>1. CASE Holds(c0, key[t])
      BY <1>1, <3>1 DEF UniqueKey
    <3>2. CASE table[c0] = Empty
      <4>1. d = Cell(key[t], 1, d[3]) /\ d[3] \in Slots
        BY DEF Holds, HomeBucket, Cells
      <4>2. ~(d[3] < slot[t])
        BY <4>1 DEF PassedSlots
      <4>3. ~(slot[t] < d[3])
        BY <1>1, <3>2, <4>1 DEF NoHoles, Holds
      <4>4. d[3] = slot[t]
        BY <1>1, <4>1, <4>2, <4>3 DEF Slots
      <4> QED
        BY <1>1, <4>1, <4>4
    <3> QED
      BY <3>1, <3>2 DEF c0
  <2>2. \A c, d \in Cells : \A k \in Keys : HoldsAfter(c, k) /\ HoldsAfter(d, k) => c = d
    BY <1>1, <1>6, <2>1 DEF UniqueKey
  <2> QED
    BY <2>2 DEF UniqueKey, Holds
<1> QED
  BY <1>10, <1>11, <1>12, <1>13, <1>14, <1>15, <1>16

(***************************************************************************)
(* A step that moves only the program counter of one thread, and keeps it  *)
(* inside or outside Put, preserves the invariant if the new label meets   *)
(* its own demand in CurrentSlot.                                          *)
(***************************************************************************)
LEMMA MoveIInv ==
    ASSUME IInv, NEW t \in Threads, NEW label \in PutSteps \cup GetSteps,
           Goto(t, label), UNCHANGED <<table, fresh, key, pos, slot, block, ret>>,
           pc[t] \in PutSteps \cup GetSteps,
           label \in PutSteps <=> pc[t] \in PutSteps,
           label \in {"put_compare", "get_compare"} => table[MyCell(t)] # Empty,
           label = "put_cas" => block[t] = 1,
           label = "put_store" => Holds(MyCell(t), key[t])
    PROVE  IInv'
<1> USE DEF IInv
<1>1. TypeOK'
  BY DEF TypeOK, Goto
<1>2. HomeBucket' /\ NoHoles' /\ UniqueKey'
  BY DEF HomeBucket, NoHoles, UniqueKey, Holds
<1>3. \A u \in Threads : pc'[u] = IF u = t THEN label ELSE pc[u]
  BY DEF TypeOK, Goto
<1>4. PassedSlots' /\ Argument'
  BY <1>3 DEF PassedSlots, Argument, Holds
<1>5. CurrentSlot'
  <2>1. \A u \in Threads : MyCell(u)' = MyCell(u)
    BY DEF MyCell
  <2>2. label # "idle"
    BY DEF PutSteps, GetSteps
  <2> QED
    BY <1>3, <2>1, <2>2 DEF CurrentSlot, Holds
<1> QED
  BY <1>1, <1>2, <1>4, <1>5

(***************************************************************************)
(* A call starts at the first block of the first slot.                     *)
(***************************************************************************)
LEMMA PutInvokeIInv ==
    ASSUME IInv, NEW t \in Threads, NEW a \in Addrs, PutInvoke(t, a)
    PROVE  IInv'
<1> USE DEF IInv
<1>1. KeyAt[a] \in Keys
  BY HashAssumption
<1>2. TypeOK'
  BY <1>1 DEF TypeOK, PutInvoke, Goto, PutSteps
<1>3. HomeBucket' /\ NoHoles' /\ UniqueKey'
  BY DEF HomeBucket, NoHoles, UniqueKey, Holds, PutInvoke
<1>4. slot[t] = 0 /\ block[t] = 1
  BY DEF CurrentSlot, PutInvoke
<1>5. \A u \in Threads :
         IF u = t THEN pc'[u] = "put_test" /\ key'[u] = KeyAt[a] /\ pos'[u] = a
         ELSE pc'[u] = pc[u] /\ key'[u] = key[u] /\ pos'[u] = pos[u]
  BY DEF PutInvoke, Goto, TypeOK
<1>6. PassedSlots' /\ Argument'
  BY <1>4, <1>5 DEF PassedSlots, Argument, Holds, PutInvoke, Slots
<1>7. CurrentSlot'
  <2> SUFFICES ASSUME NEW u \in Threads
               PROVE  /\ pc'[u] \in PutSteps /\ block[u] = 2 => table[MyCell(u)'] # Empty
                      /\ pc'[u] \in {"put_compare", "get_compare"} => table[MyCell(u)'] # Empty
                      /\ pc'[u] = "put_cas" => block[u] = 1
                      /\ pc'[u] = "put_store" => Holds(MyCell(u)', key'[u])
                      /\ pc'[u] = "idle" => slot[u] = 0 /\ block[u] = 1
    BY DEF CurrentSlot, Holds, PutInvoke
  <2>1. CASE u = t
    BY <1>4, <1>5, <2>1
  <2>2. CASE u # t
    <3>1. MyCell(u)' = MyCell(u)
      BY <1>5, <2>2 DEF MyCell, PutInvoke
    <3> QED
      BY <1>5, <2>2, <3>1 DEF CurrentSlot
  <2> QED
    BY <2>1, <2>2
<1> QED
  BY <1>2, <1>3, <1>6, <1>7

LEMMA GetInvokeIInv ==
    ASSUME IInv, NEW t \in Threads, NEW k \in Keys, GetInvoke(t, k)
    PROVE  IInv'
<1> USE DEF IInv
<1>1. TypeOK'
  BY DEF TypeOK, GetInvoke, Goto, GetSteps
<1>2. HomeBucket' /\ NoHoles' /\ UniqueKey'
  BY DEF HomeBucket, NoHoles, UniqueKey, Holds, GetInvoke
<1>3. \A u \in Threads :
         IF u = t THEN pc'[u] = "get_test" ELSE pc'[u] = pc[u] /\ key'[u] = key[u]
  BY DEF GetInvoke, Goto, TypeOK
<1>4. PassedSlots' /\ Argument'
  BY <1>3 DEF PassedSlots, Argument, Holds, GetInvoke, PutSteps
<1>5. CurrentSlot'
  <2>1. \A u \in Threads : u # t => MyCell(u)' = MyCell(u)
    BY <1>3 DEF MyCell, GetInvoke
  <2> QED
    BY <1>3, <2>1 DEF CurrentSlot, Holds, GetInvoke, PutSteps
<1> QED
  BY <1>1, <1>2, <1>4, <1>5

(***************************************************************************)
(* The steps of an open call.                                              *)
(***************************************************************************)
LEMMA PutTestIInv ==
    ASSUME IInv, NEW t \in Threads, PutTest(t)
    PROVE  IInv'
<1>1. block[t] # 1 => table[MyCell(t)] # Empty
  BY DEF IInv, CurrentSlot, PutTest, PutSteps, TypeOK, Blocks
<1>2. CASE table[MyCell(t)] = Empty
  BY <1>1, <1>2, MoveIInv DEF PutTest, PutSteps
<1>3. CASE table[MyCell(t)] # Empty
  BY <1>3, MoveIInv DEF PutTest, PutSteps
<1> QED
  BY <1>2, <1>3

(***************************************************************************)
(* A record that does not match has another key: signatures of one key     *)
(* are equal.                                                              *)
(***************************************************************************)
LEMMA MatchIsHold ==
    ASSUME IInv, NEW t \in Threads, table[MyCell(t)] # Empty
    PROVE  Matches(t, table[MyCell(t)]) <=> Holds(MyCell(t), key[t])
<1>1. /\ MyCell(t) \in Cells /\ key[t] \in Keys /\ block[t] \in Blocks
      /\ 1 \in Blocks
  BY Position DEF IInv, Blocks
<1>2. Signature(key[t], block[t]) = Signature(key[t], 1)
  BY <1>1, CellOfKey DEF Slots, Signature, BucketId, Seed
<1> QED
  BY <1>1, <1>2 DEF IInv, HomeBucket, Holds, Matches

LEMMA PutCompareIInv ==
    ASSUME IInv, NEW t \in Threads, PutCompare(t)
    PROVE  IInv'
<1>1. table[MyCell(t)] # Empty
  BY DEF IInv, CurrentSlot, PutCompare
<1>2. CASE Matches(t, table[MyCell(t)])
  <2>1. Holds(MyCell(t), key[t])
    BY <1>1, <1>2, MatchIsHold
  <2> QED
    BY <1>1, <1>2, <2>1, MoveIInv DEF PutCompare, NextProbe, PutSteps
<1>3. CASE ~Matches(t, table[MyCell(t)])
  <2>1. ~Holds(MyCell(t), key[t])
    BY <1>1, <1>3, MatchIsHold
  <2> QED
    BY <1>1, <1>3, <2>1, NextProbeIInv DEF PutCompare, PutSteps
<1> QED
  BY <1>2, <1>3

LEMMA PutStoreIInv ==
    ASSUME IInv, NEW t \in Threads, PutStore(t)
    PROVE  IInv'
<1>1. Holds(MyCell(t), key[t])
  BY DEF IInv, CurrentSlot, PutStore
<1> QED
  BY <1>1, WriteSlotIInv DEF PutStore, PutSteps

LEMMA PutCasIInv ==
    ASSUME IInv, NEW t \in Threads, PutCas(t)
    PROVE  IInv'
<1>1. CASE table[MyCell(t)] = Empty
  BY <1>1, WriteSlotIInv DEF PutCas, PutSteps
<1>2. CASE table[MyCell(t)] # Empty
  <2>1. block[t] = 1
    BY DEF IInv, CurrentSlot, PutCas
  <2>2. NextProbe(t, "put_test") /\ UNCHANGED <<table, fresh, key>> /\ pc[t] \in PutSteps
    BY <1>2 DEF PutCas, PutSteps
  <2> QED
    BY <1>2, <2>1, <2>2, NextProbeIInv
<1> QED
  BY <1>1, <1>2

LEMMA GetTestIInv ==
    ASSUME IInv, NEW t \in Threads, GetTest(t)
    PROVE  IInv'
<1>1. CASE table[MyCell(t)] # Empty
  BY <1>1, MoveIInv DEF GetTest, GetSteps, PutSteps
<1>2. CASE table[MyCell(t)] = Empty
  BY <1>2, NextProbeIInv DEF GetTest, GetSteps, PutSteps
<1> QED
  BY <1>1, <1>2

(***************************************************************************)
(* A Get that returns a record leaves the table alone.                     *)
(***************************************************************************)
LEMMA GetReturnIInv ==
    ASSUME IInv, NEW t \in Threads, NEW a \in Addrs,
           Return(t, TRUE, a), UNCHANGED <<table, fresh, key>>
    PROVE  IInv'
<1> USE DEF IInv
<1>1. TypeOK'
  <2>1. [ok |-> TRUE, addr |-> a] \in Results
    BY DEF Results
  <2>2. ret' \in [Threads -> Results]
    BY <2>1 DEF TypeOK, Return
  <2>3. 0 \in Slots
    BY SizeAssumption DEF Slots
  <2>4. pc' \in [Threads -> {"idle"} \cup PutSteps \cup GetSteps]
    BY DEF TypeOK, Return, Goto
  <2> QED
    BY <2>2, <2>3, <2>4 DEF TypeOK, Return, Blocks
<1>2. HomeBucket' /\ NoHoles' /\ UniqueKey'
  BY DEF HomeBucket, NoHoles, UniqueKey, Holds
<1>3. /\ pc'[t] = "idle" /\ slot'[t] = 0 /\ block'[t] = 1
      /\ \A u \in Threads : u # t =>
            /\ pc'[u] = pc[u] /\ slot'[u] = slot[u] /\ block'[u] = block[u]
            /\ pos'[u] = pos[u] /\ MyCell(u)' = MyCell(u)
  BY DEF TypeOK, Return, Goto, MyCell
<1>4. PassedSlots' /\ Argument'
  BY <1>3 DEF PassedSlots, Argument, Holds, PutSteps
<1>5. CurrentSlot'
  BY <1>3 DEF CurrentSlot, Holds, PutSteps
<1> QED
  BY <1>1, <1>2, <1>4, <1>5

LEMMA GetCompareIInv ==
    ASSUME IInv, NEW t \in Threads, GetCompare(t)
    PROVE  IInv'
<1>1. table[MyCell(t)] # Empty /\ MyCell(t) \in Cells
  BY Position DEF IInv, CurrentSlot, GetCompare
<1>2. table[MyCell(t)].addr \in Addrs
  BY <1>1 DEF IInv, TypeOK, Words
<1>3. CASE Matches(t, table[MyCell(t)])
  BY <1>2, <1>3, GetReturnIInv DEF GetCompare
<1>4. CASE ~Matches(t, table[MyCell(t)])
  BY <1>4, NextProbeIInv DEF GetCompare, GetSteps, PutSteps
<1> QED
  BY <1>3, <1>4

(***************************************************************************)
(* Every step preserves the invariant.                                     *)
(***************************************************************************)
LEMMA NextIInv == IInv /\ [Next]_vars => IInv'
<1> SUFFICES ASSUME IInv, [Next]_vars PROVE IInv'
  OBVIOUS
<1>1. CASE UNCHANGED vars
  BY <1>1 DEF vars, IInv, TypeOK, HomeBucket, NoHoles, PassedSlots, CurrentSlot,
             Argument, UniqueKey, Holds, MyCell
<1>2. ASSUME NEW t \in Threads, NEW a \in Addrs, PutInvoke(t, a) PROVE IInv'
  BY <1>2, PutInvokeIInv
<1>3. ASSUME NEW t \in Threads, NEW k \in Keys, GetInvoke(t, k) PROVE IInv'
  BY <1>3, GetInvokeIInv
<1>4. ASSUME NEW t \in Threads, Step(t) PROVE IInv'
  BY <1>4, PutTestIInv, PutCompareIInv, PutStoreIInv, PutCasIInv, GetTestIInv,
     GetCompareIInv DEF Step
<1> QED
  BY <1>1, <1>2, <1>3, <1>4 DEF Next

(***************************************************************************)
(* The inductive invariant holds in every reachable state.                 *)
(***************************************************************************)
THEOREM Invariance == Spec => []IInv
  BY InitIInv, NextIInv, PTL DEF Spec

(***************************************************************************)
(* However many threads call Put at once, no key occupies two slots of the *)
(* table of hashtable.cc.                                                  *)
(***************************************************************************)
THEOREM UniqueKeyHolds == Spec => []UniqueKey
<1>1. IInv => UniqueKey
  BY DEF IInv
<1> QED
  BY <1>1, Invariance, PTL

\* What WriteSlot leaves in the table.
LEMMA Written ==
    ASSUME IInv, NEW t \in Threads, pc[t] \in PutSteps, WriteSlot(t)
    PROVE  /\ MyCell(t) \in Cells
           /\ table'[MyCell(t)] # Empty
           /\ table'[MyCell(t)].addr = pos[t]
           /\ KeyAt[pos[t]] = key[t]
           /\ \A c \in Cells : c # MyCell(t) => table'[c] = table[c]
<1> DEFINE w == Word(key[t], block[t], pos[t])
           c0 == MyCell(t)
<1>1. /\ c0 \in Cells /\ key[t] \in Keys /\ block[t] \in Blocks /\ slot[t] \in Slots
      /\ pos[t] \in Addrs /\ KeyAt[pos[t]] = key[t]
  BY Position DEF IInv, Argument
<1>2. w # Empty /\ w.addr = pos[t]
  <2>1. Signature(key[t], block[t]) = 0
    BY <1>1, CellOfKey
  <2> QED
    BY <1>1, <2>1, EmptyAssumption DEF Word, Words
<1>3. table' = [table EXCEPT ![c0] = w]
  BY DEF WriteSlot
<1> HIDE DEF w, c0
<1>4. table'[c0] = w /\ \A c \in Cells : c # c0 => table'[c] = table[c]
  BY <1>1, <1>3 DEF IInv, TypeOK
<1> QED
  BY <1>1, <1>2, <1>4 DEF c0

(***************************************************************************)
(* A slot once in use keeps its key: PutStore overwrites it with a record  *)
(* of the same key and PutCas touches only empty slots.  What a thread of  *)
(* hashtable.cc decided on an earlier read of the slot stays true.         *)
(***************************************************************************)
THEOREM SlotKeyStableHolds == Spec => SlotKeyStable
<1> DEFINE Stable == \A c \in Cells : \A k \in Keys : Holds(c, k) => Holds(c, k)'
<1>1. ASSUME IInv, [Next]_vars PROVE [Stable]_vars
  <2>1. ASSUME UNCHANGED table PROVE Stable
    BY <2>1 DEF Holds
  <2>2. ASSUME NEW t \in Threads, WriteSlot(t), pc[t] \in PutSteps,
               table[MyCell(t)] = Empty \/ Holds(MyCell(t), key[t])
        PROVE  Stable
    BY <1>1, <2>2, Written DEF Holds
  <2>3. ASSUME NEW t \in Threads, Step(t) PROVE Stable \/ UNCHANGED table
    <3>1. CASE PutStore(t)
      BY <1>1, <2>2, <3>1 DEF PutStore, PutSteps, IInv, CurrentSlot
    <3>2. CASE PutCas(t)
      BY <1>1, <2>2, <3>2 DEF PutCas, PutSteps
    <3> QED
      BY <2>3, <3>1, <3>2 DEF Step, PutTest, PutCompare, GetTest, GetCompare
  <2> HIDE DEF Stable
  <2>4. ASSUME NEW t \in Threads, Step(t) PROVE Stable
    BY <2>1, <2>3, <2>4
  <2> QED
    BY <1>1, <2>1, <2>4 DEF Next, vars, PutInvoke, GetInvoke
<1> QED
  BY <1>1, Invariance, PTL DEF Spec, SlotKeyStable

(***************************************************************************)
(* A Put that returns false stands at the last slot of the bucket and has  *)
(* passed the others, each in use by another key.                          *)
(***************************************************************************)
Full(t) == \A i \in Slots : /\ table[Cell(key[t], 1, i)] # Empty
                            /\ ~Holds(Cell(key[t], 1, i), key[t])

LEMMA RefusesIfFull ==
    ASSUME IInv, Next, NEW t \in Threads, Refuses(t)
    PROVE  Full(t)
<1>1. pc[t] \in PutSteps /\ pc'[t] = "idle" /\ ~ret'[t].ok
  BY DEF Refuses
<1>2. Step(t)
  <2>1. PICK u \in Threads : \/ \E a \in Addrs : PutInvoke(u, a)
                             \/ \E k \in Keys : GetInvoke(u, k)
                             \/ Step(u)
    BY DEF Next
  <2>2. CASE u = t
    BY <1>1, <2>1, <2>2 DEF PutInvoke, GetInvoke, PutSteps
  <2>3. CASE u # t
    <3>1. pc'[t] = pc[t]
      BY <2>1, <2>3 DEF IInv, TypeOK, Step, PutInvoke, GetInvoke, PutTest,
         PutCompare, PutStore, PutCas, GetTest, GetCompare, NextProbe, Return, Goto
    <3> QED
      BY <1>1, <3>1 DEF PutSteps
  <2> QED
    BY <2>2, <2>3
<1>3. /\ NextProbe(t, "put_test")
      /\ pc[t] \in {"put_compare", "put_cas"}
      /\ pc[t] = "put_compare" => ~Matches(t, table[MyCell(t)])
      /\ pc[t] = "put_cas" => table[MyCell(t)] # Empty
  <2>1. ~Return(t, TRUE, pos[t])
    BY <1>1 DEF IInv, TypeOK, Return
  <2>2. ~ \E label \in {"put_store", "put_cas", "put_compare"} : Goto(t, label)
    BY <1>1 DEF IInv, TypeOK, Goto
  <2>3. PutCompare(t) \/ PutCas(t)
    BY <1>1, <1>2, <2>1, <2>2 DEF Step, PutTest, PutStore, PutSteps, GetTest, GetCompare
  <2> QED
    BY <2>1, <2>2, <2>3 DEF PutCompare, PutCas
<1>4. block[t] = 2 /\ slot[t] + 1 >= NumSlot
  <2>1. pc'[t] # "put_test"
    BY <1>1
  <2> QED
    BY <1>3, <2>1 DEF NextProbe, Goto, IInv, TypeOK
<1>5. pc[t] = "put_compare" /\ ~Holds(MyCell(t), key[t]) /\ table[MyCell(t)] # Empty
  BY <1>3, <1>4, MatchIsHold DEF IInv, CurrentSlot
<1>6. ASSUME NEW i \in Slots
      PROVE  table[Cell(key[t], 1, i)] # Empty /\ ~Holds(Cell(key[t], 1, i), key[t])
  <2>1. i < slot[t] \/ i = slot[t]
    BY <1>4, SizeAssumption DEF IInv, TypeOK, Slots
  <2>2. CASE i < slot[t]
    BY <1>1, <2>2 DEF IInv, PassedSlots
  <2>3. CASE i = slot[t]
    BY <1>5, <2>3, Position DEF IInv
  <2> QED
    BY <2>1, <2>2, <2>3
<1> QED
  BY <1>6 DEF Full

(***************************************************************************)
(* Put returns false only when every slot of the key's bucket is in use by *)
(* another key (hashtable.cc:48-90), whatever the other threads claimed    *)
(* while it was probing.                                                   *)
(***************************************************************************)
THEOREM RefusedOnlyWhenFullHolds == Spec => RefusedOnlyWhenFull
<1> DEFINE Refusal == \A t \in Threads : Refuses(t) =>
              \A i \in Slots : /\ table[Cell(key[t], 1, i)] # Empty
                              /\ ~Holds(Cell(key[t], 1, i), key[t])
<1>1. ASSUME IInv, [Next]_vars PROVE [Refusal]_vars
  BY <1>1, RefusesIfFull DEF Full
<1> QED
  BY <1>1, Invariance, PTL DEF Spec, RefusedOnlyWhenFull

-----------------------------------------------------------------------------
(* The table as a map *)

\* A key that a cell holds is bound to the cell's record.
CellsBind == \A c \in Cells, k \in Keys : Holds(c, k) => MapOf(k) = table[c].addr

\* A key that no slot of its bucket holds is unbound.
OthersUnbound ==
    \A k \in Keys : (\A i \in Slots : ~Holds(Cell(k, 1, i), k)) => MapOf(k) = NoAddr

BindsRecords == \A k \in Keys : MapOf(k) \in Addrs \cup {NoAddr}

MapFacts == CellsBind /\ OthersUnbound /\ BindsRecords

LEMMA TableIsMap == IInv => MapFacts
<1> SUFFICES ASSUME IInv PROVE MapFacts
  OBVIOUS
<1>1. ASSUME NEW c \in Cells, NEW k \in Keys, Holds(c, k)
      PROVE  MapOf(k) = table[c].addr
  <2>1. c \in Bound(k) /\ \A d \in Bound(k) : d = c
    BY <1>1 DEF IInv, UniqueKey, Bound
  <2>2. (CHOOSE d \in Bound(k) : TRUE) = c
    BY <2>1
  <2> QED
    BY <2>1, <2>2 DEF MapOf
<1>2. ASSUME NEW k \in Keys, \A i \in Slots : ~Holds(Cell(k, 1, i), k)
      PROVE  MapOf(k) = NoAddr
  <2>1. ASSUME NEW c \in Cells, Holds(c, k) PROVE FALSE
    <3>1. c = Cell(k, 1, c[3]) /\ c[3] \in Slots
      BY <2>1 DEF IInv, HomeBucket, Holds, Cells
    <3> QED
      BY <1>2, <2>1, <3>1
  <2> QED
    BY <2>1 DEF MapOf, Bound
<1>3. ASSUME NEW k \in Keys PROVE MapOf(k) \in Addrs \cup {NoAddr}
  <2>1. ASSUME NEW c \in Cells, Holds(c, k) PROVE MapOf(k) \in Addrs
    BY <1>1, <2>1 DEF IInv, TypeOK, Words, Holds
  <2> QED
    BY <2>1 DEF MapOf, Bound
<1> QED
  BY <1>1, <1>2, <1>3 DEF MapFacts, CellsBind, OthersUnbound, BindsRecords

LEMMA NextTableIsMap == IInv' => MapFacts'
  BY TableIsMap, PTL

\* WriteSlot binds the key of the Put, and no other.
LEMMA WriteBinds ==
    ASSUME IInv, IInv', NEW t \in Threads, pc[t] \in PutSteps, WriteSlot(t),
           table[MyCell(t)] = Empty \/ Holds(MyCell(t), key[t])
    PROVE  \A k \in Keys : MapOf(k)' = IF k = key[t] THEN pos[t] ELSE MapOf(k)
<1> DEFINE c0 == MyCell(t)
<1>1. MapFacts /\ MapFacts'
  BY TableIsMap, NextTableIsMap
<1>2. /\ c0 \in Cells /\ table'[c0] # Empty /\ table'[c0].addr = pos[t]
      /\ KeyAt[pos[t]] = key[t]
      /\ \A c \in Cells : c # c0 => table'[c] = table[c]
      /\ table[c0] = Empty \/ Holds(c0, key[t])
  BY Written
<1> HIDE DEF c0
<1>3. \A c \in Cells, k \in Keys : Holds(c, k)' <=> IF c = c0 THEN k = key[t] ELSE Holds(c, k)
  BY <1>2 DEF Holds
<1>4. ASSUME NEW k \in Keys, k = key[t] PROVE MapOf(k)' = pos[t]
  BY <1>1, <1>2, <1>3, <1>4 DEF MapFacts, CellsBind
<1>5. ASSUME NEW k \in Keys, k # key[t] PROVE MapOf(k)' = MapOf(k)
  <2>1. CASE \E c \in Cells : Holds(c, k)
    <3>1. PICK c \in Cells : Holds(c, k)
      BY <2>1
    <3>2. c # c0 /\ table'[c] = table[c] /\ Holds(c, k)'
      BY <1>2, <1>3, <1>5, <3>1 DEF Holds
    <3> QED
      BY <1>1, <3>1, <3>2 DEF MapFacts, CellsBind
  <2>2. CASE \A c \in Cells : ~Holds(c, k)
    <3>1. \A i \in Slots : Cell(k, 1, i) \in Cells
      BY CellOfKey DEF Blocks
    <3>2. \A i \in Slots : ~Holds(Cell(k, 1, i), k) /\ ~Holds(Cell(k, 1, i), k)'
      BY <1>3, <1>5, <2>2, <3>1
    <3> QED
      BY <1>1, <3>2 DEF MapFacts, OthersUnbound
  <2> QED
    BY <2>1, <2>2
<1> QED
  BY <1>4, <1>5

-----------------------------------------------------------------------------
(* The refinement of KVMap *)

PassedByGet(t) ==
    \A i \in Slots : i < slot[t] =>
        /\ table[Cell(key[t], 1, i)] # Empty
        /\ ~Holds(Cell(key[t], 1, i), key[t])

\* The history of an open Get has the binding of its key now; as long as the
\* key was never unbound, the slots it has passed hold other keys.
SeenInv ==
    /\ seen \in [Threads -> SUBSET (Addrs \cup {NoAddr})]
    /\ \A t \in Threads : InGet(t) => MapOf(key[t]) \in seen[t]
    /\ \A t \in Threads : ~InGet(t) => seen[t] = {}
    /\ \A t \in Threads : InGet(t) /\ NoAddr \notin seen[t] => PassedByGet(t)

\* A bucket has no holes: behind an empty slot there is nothing to find.
LEMMA EmptySlotEndsSearch ==
    ASSUME IInv, NEW k \in Keys, NEW s \in Slots, table[Cell(k, 1, s)] = Empty,
           \A i \in Slots : i < s => ~Holds(Cell(k, 1, i), k)
    PROVE  MapOf(k) = NoAddr
<1>1. ASSUME NEW i \in Slots PROVE ~Holds(Cell(k, 1, i), k)
  <2>1. i < s \/ i = s \/ s < i
    BY DEF Slots
  <2>2. CASE s < i
    BY <2>2 DEF IInv, NoHoles, Holds
  <2> QED
    BY <2>1, <2>2 DEF Holds
<1> QED
  BY <1>1, TableIsMap DEF MapFacts, OthersUnbound

\* A Get that leaves its slot has seen its key unbound, or the slot and those
\* before it hold other keys.
LEMMA GetPasses ==
    ASSUME IInv, SeenInv, NEW t \in Threads, InGet(t), NoAddr \notin seen[t],
           table[MyCell(t)] = Empty \/ ~Matches(t, table[MyCell(t)])
    PROVE  \A i \in Slots : i <= slot[t] =>
               /\ table[Cell(key[t], 1, i)] # Empty
               /\ ~Holds(Cell(key[t], 1, i), key[t])
<1>1. PassedByGet(t) /\ MapOf(key[t]) \in seen[t]
  BY DEF SeenInv
<1>2. key[t] \in Keys /\ slot[t] \in Slots /\ MyCell(t) = Cell(key[t], 1, slot[t])
  BY Position DEF IInv
<1>3. table[MyCell(t)] # Empty
  BY <1>1, <1>2, EmptySlotEndsSearch DEF PassedByGet
<1>4. ~Holds(MyCell(t), key[t])
  BY <1>3, MatchIsHold
<1>5. \A i \in Slots : i <= slot[t] => i < slot[t] \/ i = slot[t]
  BY <1>2 DEF Slots
<1> QED
  BY <1>1, <1>2, <1>3, <1>4, <1>5 DEF PassedByGet

(***************************************************************************)
(* What a step of an open call can be.                                     *)
(***************************************************************************)
Mismatch(t) == table[MyCell(t)] = Empty \/ ~Matches(t, table[MyCell(t)])

Continues(t) ==
    /\ UNCHANGED <<table, key, ret>>
    /\ \A u \in Threads : /\ InPut(u)' <=> InPut(u)
                          /\ InGet(u)' <=> InGet(u)
                          /\ InPut(u) => pos'[u] = pos[u]
                          /\ u # t => slot'[u] = slot[u]
    /\ \/ slot'[t] = slot[t]
       \/ slot'[t] = slot[t] + 1 /\ (InGet(t) => Mismatch(t))

PutEnds(t) ==
    /\ InPut(t)
    /\ table[MyCell(t)] = Empty \/ Holds(MyCell(t), key[t])
    /\ WriteSlot(t)
    /\ Return(t, TRUE, pos[t])
    /\ UNCHANGED key

PutGivesUp(t) == InPut(t) /\ Refuses(t) /\ Return(t, FALSE, NoAddr) /\ UNCHANGED <<table, key>>

GetHits(t) ==
    /\ InGet(t)
    /\ Holds(MyCell(t), key[t])
    /\ Return(t, TRUE, table[MyCell(t)].addr)
    /\ UNCHANGED <<table, key>>

GetGivesUp(t) ==
    /\ InGet(t)
    /\ Mismatch(t)
    /\ slot[t] + 1 >= NumSlot
    /\ Return(t, FALSE, NoAddr)
    /\ UNCHANGED <<table, key>>

LEMMA StaysOpen ==
    ASSUME IInv, NEW t \in Threads, InPut(t) \/ InGet(t),
           UNCHANGED <<table, key, pos, ret>>,
           NEW label, Goto(t, label),
           InPut(t) => label \in PutSteps, InGet(t) => label \in GetSteps,
           slot' \in [Threads -> Slots], \A u \in Threads : u # t => slot'[u] = slot[u],
           \/ slot'[t] = slot[t]
           \/ slot'[t] = slot[t] + 1 /\ (InGet(t) => Mismatch(t))
    PROVE  Continues(t)
  BY DEF Continues, InPut, InGet, Goto, IInv, TypeOK, PutSteps, GetSteps

LEMMA ProbeKinds ==
    ASSUME IInv, NEW t \in Threads, NEW test \in {"put_test", "get_test"},
           NextProbe(t, test), UNCHANGED <<table, key>>,
           InPut(t) \/ InGet(t), InPut(t) <=> test = "put_test",
           InGet(t) => Mismatch(t)
    PROVE  \/ Continues(t)
           \/ slot[t] + 1 >= NumSlot /\ Return(t, FALSE, NoAddr)
<1>1. CASE block[t] = 2 /\ slot[t] + 1 >= NumSlot /\ Return(t, FALSE, NoAddr)
  BY <1>1
<1>2. CASE /\ block[t] = 1
           /\ Goto(t, test)
           /\ block' = [block EXCEPT ![t] = 2]
           /\ UNCHANGED <<pos, slot, ret>>
  BY <1>2, StaysOpen DEF IInv, TypeOK, InPut, InGet, PutSteps, GetSteps
<1>3. CASE /\ block[t] = 2
           /\ slot[t] + 1 < NumSlot
           /\ Goto(t, test)
           /\ block' = [block EXCEPT ![t] = 1]
           /\ slot' = [slot EXCEPT ![t] = @ + 1]
           /\ UNCHANGED <<pos, ret>>
  <2>1. slot[t] + 1 \in Slots
    BY <1>3, SizeAssumption DEF IInv, TypeOK, Slots
  <2>2. /\ slot' \in [Threads -> Slots]
        /\ slot'[t] = slot[t] + 1
        /\ \A u \in Threads : u # t => slot'[u] = slot[u]
    BY <1>3, <2>1 DEF IInv, TypeOK
  <2> QED
    BY <1>3, <2>2, StaysOpen DEF InPut, InGet, PutSteps, GetSteps
<1> QED
  BY <1>1, <1>2, <1>3 DEF NextProbe

LEMMA StepKinds ==
    ASSUME IInv, NEW t \in Threads, Step(t)
    PROVE  Continues(t) \/ PutEnds(t) \/ PutGivesUp(t) \/ GetHits(t) \/ GetGivesUp(t)
<1> USE DEF IInv
<1>1. \A label : Goto(t, label) => pc'[t] = label
  BY DEF TypeOK, Goto
<1>2. Return(t, FALSE, NoAddr) => pc'[t] = "idle" /\ ~ret'[t].ok
  BY DEF TypeOK, Goto, Return
<1>3. slot \in [Threads -> Slots]
  BY DEF TypeOK
<1>4. CASE PutTest(t)
  BY <1>3, <1>4, StaysOpen DEF PutTest, InPut, InGet, PutSteps, GetSteps
<1>5. CASE PutCompare(t)
  <2>1. InPut(t) /\ ~InGet(t) /\ UNCHANGED <<table, key>>
    BY <1>5 DEF PutCompare, InPut, InGet, PutSteps, GetSteps
  <2>2. CASE Goto(t, "put_store") /\ UNCHANGED <<pos, slot, block, ret>>
    BY <1>3, <2>1, <2>2, StaysOpen DEF PutSteps
  <2>3. CASE NextProbe(t, "put_test")
    BY <1>2, <2>1, <2>3, ProbeKinds DEF PutGivesUp, Refuses, InPut
  <2> QED
    BY <1>5, <2>2, <2>3 DEF PutCompare
<1>6. CASE PutStore(t)
  BY <1>6 DEF PutStore, PutEnds, InPut, PutSteps, CurrentSlot
<1>7. CASE PutCas(t)
  <2>1. InPut(t) /\ ~InGet(t) /\ UNCHANGED key
    BY <1>7 DEF PutCas, InPut, InGet, PutSteps, GetSteps
  <2>2. CASE table[MyCell(t)] = Empty /\ WriteSlot(t) /\ Return(t, TRUE, pos[t])
    BY <2>1, <2>2 DEF PutEnds
  <2>3. CASE NextProbe(t, "put_test") /\ UNCHANGED table
    BY <1>2, <2>1, <2>3, ProbeKinds DEF PutGivesUp, Refuses, InPut
  <2> QED
    BY <1>7, <2>2, <2>3 DEF PutCas
<1>8. CASE GetTest(t)
  <2>1. InGet(t) /\ ~InPut(t) /\ UNCHANGED <<table, key>>
    BY <1>8 DEF GetTest, InPut, InGet, PutSteps, GetSteps
  <2>2. CASE Goto(t, "get_compare") /\ UNCHANGED <<pos, slot, block, ret>>
    BY <1>3, <2>1, <2>2, StaysOpen DEF GetSteps
  <2>3. CASE table[MyCell(t)] = Empty /\ NextProbe(t, "get_test")
    BY <2>1, <2>3, ProbeKinds DEF GetGivesUp, Mismatch
  <2> QED
    BY <1>8, <2>2, <2>3 DEF GetTest
<1>9. CASE GetCompare(t)
  <2>1. InGet(t) /\ ~InPut(t) /\ UNCHANGED <<table, key>> /\ table[MyCell(t)] # Empty
    BY <1>9 DEF GetCompare, InPut, InGet, PutSteps, GetSteps, CurrentSlot
  <2>2. CASE Matches(t, table[MyCell(t)]) /\ Return(t, TRUE, table[MyCell(t)].addr)
    BY <2>1, <2>2, MatchIsHold DEF GetHits
  <2>3. CASE ~Matches(t, table[MyCell(t)]) /\ NextProbe(t, "get_test")
    BY <2>1, <2>3, ProbeKinds DEF GetGivesUp, Mismatch
  <2> QED
    BY <1>9, <2>2, <2>3 DEF GetCompare
<1> QED
  BY <1>4, <1>5, <1>6, <1>7, <1>8, <1>9 DEF Step

LEMMA SameTableSameMap ==
    ASSUME UNCHANGED table
    PROVE  AbstractMap' = AbstractMap /\ \A k \in Keys : MapOf(k)' = MapOf(k)
  BY DEF AbstractMap, MapOf, Bound, Holds

LEMMA OneCall == \A t : ~(InPut(t) /\ InGet(t))
  BY DEF InPut, InGet, PutSteps, GetSteps

\* The history after a step that leaves every argument key alone.
LEMMA SeenAfter ==
    ASSUME SeenInv, Observe, UNCHANGED key, key \in [Threads -> Keys],
           NEW M, \A k \in Keys : MapOf(k)' = M[k],
           \A u \in Threads : InGet(u)' => InGet(u)
    PROVE  /\ seen' = [u \in Threads |-> IF InGet(u)' THEN seen[u] \cup {M[key[u]]} ELSE {}]
           /\ \A u \in Threads : MapOf(key[u])' = M[key[u]]
<1>1. ASSUME NEW u \in Threads PROVE MapOf(key[u])' = M[key[u]]
  <2>1. PICK k \in Keys : k = key[u]
    OBVIOUS
  <2>2. MapOf(key[u])' = MapOf(k)'
    BY <2>1
  <2> QED
    BY <2>1, <2>2
<1> QED
  BY <1>1 DEF Observe, InGet

\* A step between call and return is a stutter of the map.
LEMMA ContinuesIsStutter ==
    ASSUME IInv, IInv', SeenInv, Observe, NEW t \in Threads, Continues(t)
    PROVE  SeenInv' /\ UNCHANGED <<AbstractMap, [u \in Threads |-> OpenCall(u)], seen, ret>>
<1>1. UNCHANGED <<table, key, ret>> /\ \A k \in Keys : MapOf(k)' = MapOf(k)
  BY SameTableSameMap DEF Continues
<1>2. /\ seen' = seen
      /\ \A u \in Threads : MapOf(key[u])' = MapOf(key[u])
  <2>1. \A k \in Keys : MapOf(k)' = AbstractMap[k]
    BY <1>1 DEF AbstractMap
  <2>2. /\ UNCHANGED key /\ key \in [Threads -> Keys]
        /\ \A u \in Threads : InGet(u)' <=> InGet(u)
    BY DEF IInv, TypeOK, Continues
  <2>3. /\ seen' = [u \in Threads |-> IF InGet(u)' THEN seen[u] \cup {AbstractMap[key[u]]} ELSE {}]
        /\ \A u \in Threads : MapOf(key[u])' = AbstractMap[key[u]]
    BY <2>1, <2>2, SeenAfter
  <2>4. \A u \in Threads : AbstractMap[key[u]] = MapOf(key[u])
    BY <2>2 DEF AbstractMap
  <2> QED
    BY <2>2, <2>3, <2>4 DEF SeenInv
<1>3. \A u \in Threads : OpenCall(u)' = OpenCall(u)
  BY <1>1 DEF Continues, OpenCall
<1>4. ASSUME NEW u \in Threads, InGet(u)', NoAddr \notin seen'[u]
      PROVE  PassedByGet(u)'
  <2>1. InGet(u) /\ NoAddr \notin seen[u] /\ PassedByGet(u)
    BY <1>2, <1>4 DEF Continues, SeenInv
  <2>2. \A i \in Slots : i < slot'[u] =>
           /\ table[Cell(key[u], 1, i)] # Empty
           /\ ~Holds(Cell(key[u], 1, i), key[u])
    <3>1. CASE slot'[u] = slot[u]
      BY <2>1, <3>1 DEF PassedByGet
    <3>2. CASE slot'[u] # slot[u]
      <4>1. u = t /\ slot'[t] = slot[t] + 1 /\ Mismatch(t) /\ slot[t] \in Slots
        BY <2>1, <3>2 DEF Continues, IInv, TypeOK
      <4>2. \A i \in Slots : i < slot[t] + 1 => i <= slot[t]
        BY <4>1 DEF Slots
      <4> QED
        BY <2>1, <4>1, <4>2, GetPasses DEF Mismatch
    <3> QED
      BY <3>1, <3>2
  <2> QED
    BY <1>1, <2>2 DEF PassedByGet, Holds
<1>5. \A u \in Threads : InGet(u)' => MapOf(key[u])' \in seen'[u]
  BY <1>2 DEF Continues, SeenInv
<1>6. SeenInv'
  BY <1>2, <1>4, <1>5 DEF SeenInv, Continues
<1>7. AbstractMap' = AbstractMap
  BY <1>1, SameTableSameMap
<1> QED
  BY <1>1, <1>2, <1>3, <1>6, <1>7

CallOf == [u \in Threads |-> OpenCall(u)]

Closed(t) ==
    /\ pc'[t] = "idle"
    /\ \A u \in Threads : u # t => pc'[u] = pc[u] /\ pos'[u] = pos[u] /\ slot'[u] = slot[u]
    /\ UNCHANGED key

LEMMA ReturnCloses ==
    ASSUME IInv, NEW t \in Threads, NEW ok, NEW a, Return(t, ok, a), UNCHANGED key
    PROVE  Closed(t)
  BY DEF IInv, TypeOK, Closed, Return, Goto

\* A step in which t returns keeps the histories of the other open Gets.
LEMMA Closes ==
    ASSUME IInv, SeenInv, Observe, NEW t \in Threads, Closed(t),
           NEW M \in [Keys -> Addrs \cup {NoAddr}], \A k \in Keys : MapOf(k)' = M[k],
           \A c \in Cells, k \in Keys :
               table[c] # Empty /\ ~Holds(c, k) => table'[c] # Empty /\ ~Holds(c, k)'
    PROVE  /\ SeenInv'
           /\ AbstractMap' = M
           /\ CallOf' = [CallOf EXCEPT ![t] = [op |-> "none"]]
           /\ seen' = [u \in Threads |->
                          IF u # t /\ InGet(u) THEN seen[u] \cup {M[key[u]]} ELSE {}]
<1>1. /\ ~InPut(t)' /\ ~InGet(t)'
      /\ \A u \in Threads : u # t =>
            /\ InPut(u)' <=> InPut(u)
            /\ InGet(u)' <=> InGet(u)
            /\ pos'[u] = pos[u]
            /\ slot'[u] = slot[u]
  BY DEF Closed, InPut, InGet, PutSteps, GetSteps
<1>2. key \in [Threads -> Keys] /\ UNCHANGED key
  BY DEF IInv, TypeOK, Closed
<1>3. /\ seen' = [u \in Threads |-> IF InGet(u)' THEN seen[u] \cup {M[key[u]]} ELSE {}]
      /\ \A u \in Threads : MapOf(key[u])' = M[key[u]]
  BY <1>1, <1>2, SeenAfter
<1>4. seen' = [u \in Threads |->
                  IF u # t /\ InGet(u) THEN seen[u] \cup {M[key[u]]} ELSE {}]
  BY <1>1, <1>3
<1>5. AbstractMap' = M
  BY DEF AbstractMap
<1>6. CallOf' = [CallOf EXCEPT ![t] = [op |-> "none"]]
  BY <1>1, <1>2 DEF CallOf, OpenCall
<1>7. ASSUME NEW u \in Threads, InGet(u)', NoAddr \notin seen'[u]
      PROVE  PassedByGet(u)'
  <2>1. u # t /\ InGet(u) /\ slot'[u] = slot[u] /\ PassedByGet(u) /\ key[u] \in Keys
    BY <1>1, <1>2, <1>4, <1>7 DEF SeenInv
  <2>2. \A i \in Slots : Cell(key[u], 1, i) \in Cells
    BY <2>1, CellOfKey DEF Blocks
  <2>3. PICK k \in Keys : k = key[u]
    BY <2>1
  <2>4. \A i \in Slots : i < slot[u] =>
           table'[Cell(k, 1, i)] # Empty /\ ~Holds(Cell(k, 1, i), k)'
    BY <2>1, <2>2, <2>3 DEF PassedByGet
  <2>5. key'[u] = k /\ slot'[u] = slot[u]
    BY <1>2, <2>1, <2>3
  <2> QED
    BY <2>4, <2>5 DEF PassedByGet, Holds
<1>8. SeenInv'
  BY <1>1, <1>2, <1>3, <1>4, <1>7 DEF SeenInv
<1> QED
  BY <1>4, <1>5, <1>6, <1>8

LEMMA PutEndsIsPutDone ==
    ASSUME IInv, IInv', SeenInv, Observe, NEW t \in Threads, PutEnds(t)
    PROVE  SeenInv' /\ Map!PutDone(t, pos[t]) /\ pos[t] \in Addrs
<1> DEFINE M == [AbstractMap EXCEPT ![key[t]] = pos[t]]
<1>0. Closed(t)
  BY ReturnCloses DEF PutEnds
<1>1. pos[t] \in Addrs /\ KeyAt[pos[t]] = key[t] /\ key[t] \in Keys /\ pc[t] \in PutSteps
  BY DEF PutEnds, InPut, IInv, Argument, TypeOK
<1>2. \A k \in Keys : MapOf(k)' = IF k = key[t] THEN pos[t] ELSE MapOf(k)
  BY <1>1, WriteBinds DEF PutEnds
<1>3. M \in [Keys -> Addrs \cup {NoAddr}] /\ \A k \in Keys : MapOf(k)' = M[k]
  BY <1>1, <1>2, TableIsMap DEF AbstractMap, MapFacts, BindsRecords
<1>4. \A c \in Cells, k \in Keys :
         table[c] # Empty /\ ~Holds(c, k) => table'[c] # Empty /\ ~Holds(c, k)'
  <2>1. /\ MyCell(t) \in Cells /\ table'[MyCell(t)] # Empty /\ table'[MyCell(t)].addr = pos[t]
        /\ KeyAt[pos[t]] = key[t]
        /\ \A c \in Cells : c # MyCell(t) => table'[c] = table[c]
        /\ table[MyCell(t)] = Empty \/ Holds(MyCell(t), key[t])
    BY <1>1, Written DEF PutEnds
  <2> QED
    BY <2>1 DEF Holds
<1> HIDE DEF M
<1>5. /\ SeenInv'
      /\ AbstractMap' = M
      /\ CallOf' = [CallOf EXCEPT ![t] = [op |-> "none"]]
      /\ seen' = [u \in Threads |->
                     IF u # t /\ InGet(u) THEN seen[u] \cup {M[key[u]]} ELSE {}]
      /\ ret' = [ret EXCEPT ![t] = [ok |-> TRUE, addr |-> pos[t]]]
  BY <1>0, <1>3, <1>4, Closes DEF PutEnds, Return
<1>6. seen' = [u \in Threads |->
                 IF CallOf[u] = [op |-> "get", key |-> key[t]]
                 THEN seen[u] \cup {pos[t]} ELSE seen[u]]
  <2> SUFFICES ASSUME NEW u \in Threads
               PROVE  seen'[u] = IF CallOf[u] = [op |-> "get", key |-> key[t]]
                                 THEN seen[u] \cup {pos[t]} ELSE seen[u]
    BY <1>5
  <2>1. CASE ~InGet(u)
    <3>1. CallOf[u] # [op |-> "get", key |-> key[t]]
      BY <2>1 DEF CallOf, OpenCall
    <3> QED
      BY <1>5, <2>1, <3>1 DEF SeenInv
  <2>2. CASE InGet(u)
    <3>1. CallOf[u] = [op |-> "get", key |-> key[u]] /\ u # t
      BY <2>2, OneCall DEF CallOf, OpenCall, PutEnds
    <3>2. CallOf[u] = [op |-> "get", key |-> key[t]] <=> key[u] = key[t]
      BY <3>1
    <3>3. M[key[u]] = IF key[u] = key[t] THEN pos[t] ELSE MapOf(key[u])
      BY <1>1 DEF M, AbstractMap, IInv, TypeOK
    <3>4. MapOf(key[u]) \in seen[u]
      BY <2>2 DEF SeenInv
    <3> QED
      BY <1>5, <2>2, <3>1, <3>2, <3>3, <3>4
  <2> QED
    BY <2>1, <2>2
<1>7. CallOf[t] = [op |-> "put", addr |-> pos[t]]
  BY DEF CallOf, OpenCall, PutEnds
<1>8. /\ AbstractMap' = [AbstractMap EXCEPT ![KeyAt[pos[t]]] = pos[t]]
      /\ seen' = [u \in Threads |->
                     IF CallOf[u] = [op |-> "get", key |-> KeyAt[pos[t]]]
                     THEN seen[u] \cup {pos[t]} ELSE seen[u]]
      /\ ret' = [ret EXCEPT ![t] = [ok |-> TRUE, addr |-> pos[t]]]
  BY <1>1, <1>5, <1>6 DEF M, PutEnds, Return
<1> QED
  BY <1>1, <1>5, <1>7, <1>8 DEF Map!PutDone, Map!PutCall, Map!GetCall, Map!Idle, Map!Result, CallOf

LEMMA PutGivesUpIsPutRefused ==
    ASSUME IInv, SeenInv, Next, Observe, NEW t \in Threads, PutGivesUp(t)
    PROVE  SeenInv' /\ Map!PutRefused(t, pos[t]) /\ pos[t] \in Addrs
<1>0. Closed(t)
  BY ReturnCloses DEF PutGivesUp
<1>1. pos[t] \in Addrs /\ KeyAt[pos[t]] = key[t] /\ key[t] \in Keys
  BY DEF PutGivesUp, InPut, IInv, Argument, TypeOK
<1>2. MapOf(key[t]) = NoAddr
  BY <1>1, RefusesIfFull, TableIsMap DEF PutGivesUp, Full, MapFacts, OthersUnbound
<1>3. /\ AbstractMap \in [Keys -> Addrs \cup {NoAddr}]
      /\ \A k \in Keys : MapOf(k)' = AbstractMap[k]
  BY SameTableSameMap, TableIsMap DEF AbstractMap, MapFacts, BindsRecords, PutGivesUp
<1>4. \A c \in Cells, k \in Keys :
         table[c] # Empty /\ ~Holds(c, k) => table'[c] # Empty /\ ~Holds(c, k)'
  BY DEF PutGivesUp, Holds
<1>5. /\ SeenInv'
      /\ AbstractMap' = AbstractMap
      /\ CallOf' = [CallOf EXCEPT ![t] = [op |-> "none"]]
      /\ seen' = [u \in Threads |->
                     IF u # t /\ InGet(u) THEN seen[u] \cup {AbstractMap[key[u]]} ELSE {}]
      /\ ret' = [ret EXCEPT ![t] = [ok |-> FALSE, addr |-> NoAddr]]
  BY <1>0, <1>3, <1>4, Closes DEF PutGivesUp, Return
<1>6. seen' = seen
  <2>1. \A u \in Threads : AbstractMap[key[u]] = MapOf(key[u])
    BY DEF AbstractMap, IInv, TypeOK
  <2>2. ~InGet(t)
    BY OneCall DEF PutGivesUp
  <2> QED
    BY <1>5, <2>1, <2>2 DEF SeenInv
<1>7. CallOf[t] = [op |-> "put", addr |-> pos[t]]
  BY DEF CallOf, OpenCall, PutGivesUp
<1>8. AbstractMap[KeyAt[pos[t]]] = NoAddr
  BY <1>1, <1>2 DEF AbstractMap
<1> QED
  BY <1>1, <1>5, <1>6, <1>7, <1>8 DEF Map!PutRefused, Map!PutCall, Map!Idle, Map!Result, CallOf

LEMMA GetReturns ==
    ASSUME IInv, SeenInv, Observe, NEW t \in Threads, NEW ok, NEW a,
           InGet(t), a \in seen[t], ok = (a # NoAddr), Return(t, ok, a),
           UNCHANGED <<table, key>>
    PROVE  SeenInv' /\ Map!GetDone(t, key[t]) /\ key[t] \in Keys
<1>1. Closed(t) /\ key[t] \in Keys
  BY ReturnCloses DEF IInv, TypeOK
<1>2. /\ AbstractMap \in [Keys -> Addrs \cup {NoAddr}]
      /\ \A k \in Keys : MapOf(k)' = AbstractMap[k]
  BY SameTableSameMap, TableIsMap DEF AbstractMap, MapFacts, BindsRecords
<1>3. \A c \in Cells, k \in Keys :
         table[c] # Empty /\ ~Holds(c, k) => table'[c] # Empty /\ ~Holds(c, k)'
  BY DEF Holds
<1>4. /\ SeenInv'
      /\ AbstractMap' = AbstractMap
      /\ CallOf' = [CallOf EXCEPT ![t] = [op |-> "none"]]
      /\ seen' = [u \in Threads |->
                     IF u # t /\ InGet(u) THEN seen[u] \cup {AbstractMap[key[u]]} ELSE {}]
  BY <1>1, <1>2, <1>3, Closes
<1>5. seen' = [seen EXCEPT ![t] = {}]
  <2>1. \A u \in Threads : AbstractMap[key[u]] = MapOf(key[u])
    BY DEF AbstractMap, IInv, TypeOK
  <2>2. ASSUME NEW u \in Threads
        PROVE  (IF u # t /\ InGet(u) THEN seen[u] \cup {AbstractMap[key[u]]} ELSE {})
                   = IF u = t THEN {} ELSE seen[u]
    <3>1. InGet(u) => MapOf(key[u]) \in seen[u]
      BY DEF SeenInv
    <3>2. ~InGet(u) => seen[u] = {}
      BY DEF SeenInv
    <3> QED
      BY <2>1, <3>1, <3>2
  <2>3. seen = [u \in Threads |-> seen[u]]
    BY DEF SeenInv
  <2> QED
    BY <1>4, <2>2, <2>3
<1>6. CallOf[t] = [op |-> "get", key |-> key[t]]
  BY OneCall DEF CallOf, OpenCall
<1>7. \E b \in seen[t] : ret' = [ret EXCEPT ![t] = [ok |-> b # NoAddr, addr |-> b]]
  <2>1. ret' = [ret EXCEPT ![t] = [ok |-> ok, addr |-> a]]
    BY DEF Return
  <2>2. ret' = [ret EXCEPT ![t] = [ok |-> a # NoAddr, addr |-> a]]
    BY <2>1, Zenon
  <2> QED
    BY <2>2
<1> QED
  BY <1>1, <1>4, <1>5, <1>6, <1>7
     DEF Map!GetDone, Map!GetCall, Map!Idle, Map!Result, CallOf

LEMMA GetHitsIsGetDone ==
    ASSUME IInv, SeenInv, Observe, NEW t \in Threads, GetHits(t)
    PROVE  SeenInv' /\ Map!GetDone(t, key[t]) /\ key[t] \in Keys
<1> DEFINE a == table[MyCell(t)].addr
<1>1. key[t] \in Keys /\ MyCell(t) \in Cells /\ table[MyCell(t)] # Empty
  BY Position DEF IInv, GetHits, Holds
<1>2. a = MapOf(key[t]) /\ MapOf(key[t]) \in seen[t]
  BY <1>1, TableIsMap DEF MapFacts, CellsBind, GetHits, SeenInv
<1>3. a # NoAddr
  BY <1>1, HashAssumption DEF IInv, TypeOK, Words
<1>4. Return(t, TRUE, a) /\ InGet(t) /\ UNCHANGED <<table, key>>
  BY DEF GetHits
<1>5. TRUE = (a # NoAddr)
  BY <1>3
<1> HIDE DEF a
<1> QED
  BY <1>2, <1>4, <1>5, GetReturns

LEMMA GetGivesUpIsGetDone ==
    ASSUME IInv, SeenInv, Observe, NEW t \in Threads, GetGivesUp(t)
    PROVE  SeenInv' /\ Map!GetDone(t, key[t]) /\ key[t] \in Keys
<1>1. key[t] \in Keys /\ slot[t] \in Slots
  BY DEF IInv, TypeOK
<1>2. ASSUME NoAddr \notin seen[t] PROVE FALSE
  <2>1. \A i \in Slots : i <= slot[t]
    BY <1>1, SizeAssumption DEF GetGivesUp, Slots
  <2>2. \A i \in Slots : ~Holds(Cell(key[t], 1, i), key[t])
    BY <1>2, <2>1, GetPasses DEF GetGivesUp, Mismatch
  <2>3. MapOf(key[t]) = NoAddr
    BY <1>1, <2>2, TableIsMap DEF MapFacts, OthersUnbound
  <2> QED
    BY <1>2, <2>3 DEF SeenInv, GetGivesUp
<1>3. FALSE = (NoAddr # NoAddr)
  OBVIOUS
<1> QED
  BY <1>2, <1>3, GetReturns DEF GetGivesUp

\* A step in which t starts a call with key k.
LEMMA Opens ==
    ASSUME IInv, SeenInv, Observe, NEW t \in Threads, NEW k \in Keys, NEW label,
           pc[t] = "idle", Goto(t, label), key' = [key EXCEPT ![t] = k],
           label \in PutSteps \cup GetSteps,
           \A u \in Threads : u # t => pos'[u] = pos[u],
           UNCHANGED <<table, slot, ret>>
    PROVE  /\ SeenInv'
           /\ AbstractMap' = AbstractMap
           /\ CallOf[t] = [op |-> "none"]
           /\ CallOf' = [CallOf EXCEPT ![t] =
                            IF label \in PutSteps THEN [op |-> "put", addr |-> pos'[t]]
                            ELSE [op |-> "get", key |-> k]]
           /\ seen' = [seen EXCEPT ![t] = IF label \in PutSteps THEN {} ELSE {MapOf(k)}]
<1>1. AbstractMap' = AbstractMap /\ \A j \in Keys : MapOf(j)' = MapOf(j)
  BY SameTableSameMap
<1>2. /\ ~InPut(t) /\ ~InGet(t)
      /\ InPut(t)' <=> label \in PutSteps
      /\ InGet(t)' <=> label \notin PutSteps
      /\ key'[t] = k
      /\ \A u \in Threads : u # t => /\ InPut(u)' <=> InPut(u)
                                     /\ InGet(u)' <=> InGet(u)
                                     /\ key'[u] = key[u]
  BY DEF Goto, InPut, InGet, PutSteps, GetSteps, IInv, TypeOK
<1>3. ASSUME NEW u \in Threads, u # t
      PROVE  /\ MapOf(key[u])' = MapOf(key[u])
             /\ seen'[u] = seen[u]
  <2>1. PICK j \in Keys : j = key[u]
    BY DEF IInv, TypeOK
  <2>2. MapOf(key[u])' = MapOf(j)'
    BY <1>2, <1>3, <2>1
  <2>3. MapOf(key[u])' = MapOf(key[u])
    BY <1>1, <2>1, <2>2
  <2> QED
    BY <1>2, <1>3, <2>3 DEF Observe, SeenInv, InGet
<1>4. seen'[t] = (IF label \in PutSteps THEN {} ELSE {MapOf(k)})
  BY <1>2 DEF Observe, InGet
<1>5. seen' = [seen EXCEPT ![t] = IF label \in PutSteps THEN {} ELSE {MapOf(k)}]
  <2>1. seen' = [u \in Threads |-> seen'[u]] /\ seen = [u \in Threads |-> seen[u]]
    BY DEF Observe, SeenInv
  <2> HIDE DEF SeenInv
  <2> QED
    BY <1>3, <1>4, <2>1
<1>6. /\ CallOf[t] = [op |-> "none"]
      /\ CallOf' = [CallOf EXCEPT ![t] =
                      IF label \in PutSteps THEN [op |-> "put", addr |-> pos'[t]]
                      ELSE [op |-> "get", key |-> k]]
  <2>1. CallOf'[t] = IF label \in PutSteps THEN [op |-> "put", addr |-> pos'[t]]
                     ELSE [op |-> "get", key |-> k]
    BY <1>2 DEF CallOf, OpenCall
  <2>2. \A u \in Threads : u # t => CallOf'[u] = CallOf[u]
    BY <1>2 DEF CallOf, OpenCall
  <2>3. /\ CallOf' = [u \in Threads |-> CallOf'[u]]
        /\ CallOf = [u \in Threads |-> CallOf[u]]
    BY DEF CallOf
  <2>4. CallOf[t] = [op |-> "none"]
    BY <1>2 DEF CallOf, OpenCall
  <2> HIDE DEF CallOf
  <2> QED
    BY <2>1, <2>2, <2>3, <2>4
<1>7. SeenInv'
  <2>1. MapOf(k) \in Addrs \cup {NoAddr}
    BY TableIsMap DEF MapFacts, BindsRecords
  <2>2. seen' \in [Threads -> SUBSET (Addrs \cup {NoAddr})]
    BY <1>5, <2>1 DEF SeenInv
  <2>3. ASSUME NEW u \in Threads, InGet(u)'
        PROVE  MapOf(key[u])' \in seen'[u]
    <3>1. CASE u # t
      BY <1>2, <1>3, <2>3, <3>1 DEF SeenInv
    <3>2. CASE u = t
      <4>1. MapOf(key[u])' = MapOf(k)'
        BY <1>2, <3>2
      <4> QED
        BY <1>1, <1>2, <1>4, <2>3, <3>2, <4>1
    <3> QED
      BY <3>1, <3>2
  <2>4. ASSUME NEW u \in Threads, ~InGet(u)' PROVE seen'[u] = {}
    BY <2>4 DEF Observe, InGet
  <2>5. ASSUME NEW u \in Threads, InGet(u)', NoAddr \notin seen'[u]
        PROVE  PassedByGet(u)'
    <3>1. CASE u # t
      BY <1>2, <1>3, <2>5, <3>1 DEF SeenInv, PassedByGet, Holds
    <3>2. CASE u = t
      <4>1. slot'[u] = 0
        BY <3>2 DEF IInv, CurrentSlot
      <4> QED
        BY <4>1 DEF PassedByGet, Slots
    <3> QED
      BY <3>1, <3>2
  <2> QED
    BY <2>2, <2>3, <2>4, <2>5 DEF SeenInv
<1> QED
  BY <1>1, <1>5, <1>6, <1>7

\* What every step keeps and what it is for the map.
LEMMA StepImplementsMap ==
    ASSUME IInv, IInv', SeenInv, HNext
    PROVE  SeenInv' /\ (Map!Next \/ UNCHANGED Map!vars)
<1>1. Next /\ Observe
  BY DEF HNext
<1>2. PICK t \in Threads : \/ \E a \in Addrs : PutInvoke(t, a)
                           \/ \E k \in Keys : GetInvoke(t, k)
                           \/ Step(t)
  BY <1>1 DEF Next
<1>3. ASSUME NEW a \in Addrs, PutInvoke(t, a)
      PROVE  SeenInv' /\ Map!PutInvoke(t, a)
  <2>1. KeyAt[a] \in Keys /\ pos'[t] = a /\ "put_test" \in PutSteps
    BY <1>3, HashAssumption DEF PutInvoke, IInv, TypeOK, PutSteps
  <2>2. \A u \in Threads : u # t => pos'[u] = pos[u]
    BY <1>3 DEF PutInvoke, IInv, TypeOK
  <2>3. /\ SeenInv'
        /\ AbstractMap' = AbstractMap
        /\ CallOf[t] = [op |-> "none"]
        /\ CallOf' = [CallOf EXCEPT ![t] = [op |-> "put", addr |-> a]]
        /\ seen' = [seen EXCEPT ![t] = {}]
    <3> DEFINE label == "put_test"
    <3>1. /\ pc[t] = "idle" /\ Goto(t, label) /\ key' = [key EXCEPT ![t] = KeyAt[a]]
          /\ UNCHANGED <<table, slot, ret>>
          /\ label \in PutSteps
      BY <1>3, <2>1 DEF PutInvoke
    <3> HIDE DEF label
    <3>2. /\ SeenInv'
          /\ AbstractMap' = AbstractMap
          /\ CallOf[t] = [op |-> "none"]
          /\ CallOf' = [CallOf EXCEPT ![t] =
                           IF label \in PutSteps THEN [op |-> "put", addr |-> pos'[t]]
                           ELSE [op |-> "get", key |-> KeyAt[a]]]
          /\ seen' = [seen EXCEPT ![t] = IF label \in PutSteps THEN {} ELSE {MapOf(KeyAt[a])}]
      BY <1>1, <2>1, <2>2, <3>1, Opens
    <3> QED
      BY <2>1, <3>1, <3>2
  <2>4. seen' = seen
    <3>1. seen[t] = {} /\ seen = [u \in Threads |-> seen[u]]
      BY <1>3 DEF SeenInv, PutInvoke, InGet, GetSteps
    <3> QED
      BY <2>3, <3>1
  <2> QED
    BY <1>3, <2>3, <2>4 DEF Map!PutInvoke, Map!PutCall, Map!Idle, CallOf, PutInvoke
<1>4. ASSUME NEW k \in Keys, GetInvoke(t, k)
      PROVE  SeenInv' /\ Map!GetInvoke(t, k)
  <2>1. "get_test" \in GetSteps /\ "get_test" \notin PutSteps
    BY DEF GetSteps, PutSteps
  <2>2. /\ SeenInv'
        /\ AbstractMap' = AbstractMap
        /\ CallOf[t] = [op |-> "none"]
        /\ CallOf' = [CallOf EXCEPT ![t] = [op |-> "get", key |-> k]]
        /\ seen' = [seen EXCEPT ![t] = {MapOf(k)}]
    BY <1>1, <1>4, <2>1, Opens DEF GetInvoke
  <2>3. AbstractMap[k] = MapOf(k)
    BY DEF AbstractMap
  <2> QED
    BY <1>4, <2>2, <2>3 DEF Map!GetInvoke, Map!GetCall, Map!Idle, CallOf, GetInvoke
<1>5. CASE Continues(t)
  <2>1. SeenInv' /\ UNCHANGED <<AbstractMap, [u \in Threads |-> OpenCall(u)], seen, ret>>
    BY <1>1, <1>5, ContinuesIsStutter
  <2> QED
    BY <2>1 DEF Map!vars
<1>6. CASE PutEnds(t)
  BY <1>1, <1>6, PutEndsIsPutDone DEF Map!Next
<1>7. CASE PutGivesUp(t)
  BY <1>1, <1>7, PutGivesUpIsPutRefused DEF Map!Next
<1>8. CASE GetHits(t)
  BY <1>1, <1>8, GetHitsIsGetDone DEF Map!Next
<1>9. CASE GetGivesUp(t)
  BY <1>1, <1>9, GetGivesUpIsGetDone DEF Map!Next
<1>10. CASE Step(t)
  BY <1>5, <1>6, <1>7, <1>8, <1>9, <1>10, StepKinds
<1> QED
  BY <1>2, <1>3, <1>4, <1>10 DEF Map!Next

LEMMA InitImplementsMap == HInit => SeenInv /\ Map!Init
<1> SUFFICES ASSUME HInit PROVE SeenInv /\ Map!Init
  OBVIOUS
<1>1. Init /\ seen = [t \in Threads |-> {}]
  BY DEF HInit
<1>2. \A t \in Threads : ~InPut(t) /\ ~InGet(t)
  BY <1>1 DEF Init, InPut, InGet, PutSteps, GetSteps
<1>3. SeenInv
  BY <1>1, <1>2 DEF SeenInv
<1>4. \A k \in Keys : MapOf(k) = NoAddr
  BY <1>1 DEF Init, MapOf, Bound, Holds
<1> QED
  BY <1>1, <1>2, <1>3, <1>4
     DEF Map!Init, Map!Idle, Map!Result, AbstractMap, OpenCall, Init

(***************************************************************************)
(* Put and Get of hashtable.cc are linearizable, for every number of       *)
(* threads, keys, buckets and slots: each step of the slot probes is a     *)
(* step of the map KVMap or changes nothing the callers can tell.          *)
(***************************************************************************)
THEOREM LinearizableMapHolds == HSpec => LinearizableMap
<1>1. HInit => IInv /\ SeenInv /\ Map!Init
  BY InitIInv, InitImplementsMap DEF HInit
<1>2. IInv /\ [HNext]_hvars => IInv'
  <2> SUFFICES ASSUME IInv, [HNext]_hvars PROVE IInv'
    OBVIOUS
  <2>1. [Next]_vars
    BY DEF HNext, hvars, vars
  <2> QED
    BY <2>1, NextIInv
<1>3. IInv /\ IInv' /\ SeenInv /\ [HNext]_hvars => SeenInv' /\ [Map!Next]_(Map!vars)
  <2>1. CASE HNext
    BY <2>1, StepImplementsMap
  <2>2. CASE UNCHANGED hvars
    BY <2>2 DEF hvars, SeenInv, PassedByGet, InGet, Map!vars, OpenCall, InPut,
                AbstractMap, MapOf, Bound, Holds
  <2> QED
    BY <2>1, <2>2
<1> QED
  BY <1>1, <1>2, <1>3, PTL DEF HSpec, LinearizableMap, Map!Spec

=============================================================================
