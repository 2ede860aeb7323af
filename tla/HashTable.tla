------------------------------- MODULE HashTable -------------------------------
(***************************************************************************)
(* The concurrent hash index of HiKV (hikv/hashtable.cc).                   *)
(*                                                                         *)
(* Every server thread calls Put and Get on one shared table without a     *)
(* lock.  A bucket is an array of 64-bit slots; a slot is 0 or packs an    *)
(* 8-bit signature above the 48-bit address of a record whose first        *)
(* kKeySize bytes are the key.  A slot is claimed by compare-and-swap and  *)
(* overwritten by a plain store.                                           *)
(*                                                                         *)
(* One step of a thread is one access to a shared slot.  The code reads a  *)
(* slot once to test it and again to decode it, and so does the model.     *)
(* Two more reads are left out: "else if (!slot)" is subsumed by the       *)
(* compare-and-swap, which tests the slot for 0 once more; and the         *)
(* signature is read apart from the address, but all the words of a bucket *)
(* have the same one (HomeBucket).                                         *)
(***************************************************************************)
EXTENDS Integers

CONSTANTS
    Threads,        \* the callers: the server threads
    Keys,           \* key strings of kKeySize bytes
    Addrs,          \* addresses of the records that callers hand to Put
    KeyAt,          \* KeyAt[a]: the key at the head of the record at a
    Hash64,         \* Hash64[seed][k]: CityHash64WithSeed(k, kKeySize, seed)
    NumPartition,   \* num_partition_
    NumBucket,      \* num_bucket_, the buckets of one partition
    NumSlot,        \* NUM_HASH_SLOT
    SigUnit,        \* 2^48: a bucket id shifted right by 48 is its signature
    PartUnit,       \* 2^56: and by 56 its partition
    Empty,          \* a zero slot
    NoAddr          \* the address of no record

(***************************************************************************)
(* The two probes of the loop body, the blocks on _bucket1 and _bucket2,   *)
(* hash with the same seed.                                                *)
(***************************************************************************)
Blocks == {1, 2}
SeedPerBlock(b) == 178535876 + b    \* mutant: the second hash has its own seed
Seed(b) == 178535877
BucketId(k, b) == Hash64[Seed(b)][k] % NumBucket
PartitionId(k, b) == (BucketId(k, b) \div PartUnit) % 256
Signature(k, b) == (BucketId(k, b) \div SigUnit) % 256

ASSUME HashAssumption ==
    /\ Keys # {}
    /\ Hash64[178535877] \in [Keys -> Nat]
    /\ KeyAt \in [Addrs -> Keys]
    /\ NoAddr \notin Addrs

(***************************************************************************)
(* A partition is smaller than 2^54 bytes, so a bucket id has no bit at or *)
(* above 48.                                                               *)
(***************************************************************************)
ASSUME SizeAssumption ==
    /\ NumPartition \in Nat \ {0}
    /\ NumBucket \in Nat \ {0}
    /\ NumSlot \in Nat \ {0}
    /\ SigUnit \in Nat \ {0}
    /\ PartUnit \in Nat \ {0}
    /\ NumBucket <= SigUnit
    /\ SigUnit <= PartUnit

Partitions == 0 .. NumPartition - 1
Buckets == 0 .. NumBucket - 1
Slots == 0 .. NumSlot - 1
Cells == Partitions \X Buckets \X Slots
Words == [sig : 0 .. 255, addr : Addrs]

ASSUME EmptyAssumption == Empty \notin Words

Cell(k, b, i) == <<PartitionId(k, b), BucketId(k, b), i>>
Word(k, b, a) == [sig |-> Signature(k, b), addr |-> a]

VARIABLES
    table,      \* table_: the slots of every partition, bucket by bucket
    fresh,      \* records not yet handed to Put: each is put at most once
    pc,         \* what a thread does next
    key,        \* the argument key
    pos,        \* the argument pos of Put
    slot,       \* the loop counter i
    block,      \* which of the two blocks of the loop body is running
    ret         \* what the last call of the thread returned

vars == <<table, fresh, pc, key, pos, slot, block, ret>>

PutSteps == {"put_test", "put_compare", "put_cas", "put_store"}
GetSteps == {"get_test", "get_compare"}
Results == [ok : BOOLEAN, addr : Addrs \cup {NoAddr}]

TypeOK ==
    /\ table \in [Cells -> Words \cup {Empty}]
    /\ fresh \in SUBSET Addrs
    /\ pc \in [Threads -> {"idle"} \cup PutSteps \cup GetSteps]
    /\ key \in [Threads -> Keys]
    /\ pos \in [Threads -> Addrs \cup {NoAddr}]
    /\ slot \in [Threads -> Slots]
    /\ block \in [Threads -> Blocks]
    /\ ret \in [Threads -> Results]

Init ==
    /\ table = [c \in Cells |-> Empty]
    /\ fresh = Addrs
    /\ pc = [t \in Threads |-> "idle"]
    /\ key = [t \in Threads |-> CHOOSE k \in Keys : TRUE]    \* unset while idle
    /\ pos = [t \in Threads |-> NoAddr]
    /\ slot = [t \in Threads |-> 0]
    /\ block = [t \in Threads |-> 1]
    /\ ret = [t \in Threads |-> [ok |-> FALSE, addr |-> NoAddr]]

-----------------------------------------------------------------------------
MyCell(t) == Cell(key[t], block[t], slot[t])

Goto(t, label) == pc' = [pc EXCEPT ![t] = label]

Return(t, ok, a) ==
    /\ Goto(t, "idle")
    /\ pos' = [pos EXCEPT ![t] = NoAddr]
    /\ slot' = [slot EXCEPT ![t] = 0]
    /\ block' = [block EXCEPT ![t] = 1]
    /\ ret' = [ret EXCEPT ![t] = [ok |-> ok, addr |-> a]]

\* Mutants of NextProbe: the loop ends a slot early; the loop counter is not
\* advanced.
NextProbeShort(t, test) ==
    \/ /\ block[t] = 1
       /\ Goto(t, test)
       /\ block' = [block EXCEPT ![t] = 2]
       /\ UNCHANGED <<pos, slot, ret>>
    \/ block[t] = 2 /\ Return(t, FALSE, NoAddr)

NextProbeStuck(t, test) ==
    /\ Goto(t, test)
    /\ block' = [block EXCEPT ![t] = 3 - @]
    /\ UNCHANGED <<pos, slot, ret>>

(***************************************************************************)
(* Fall out of a block: the first leads to the second, the second to the   *)
(* next slot, and after the last slot the call fails.                      *)
(***************************************************************************)
NextProbe(t, test) ==
    \/ /\ block[t] = 1
       /\ Goto(t, test)
       /\ block' = [block EXCEPT ![t] = 2]
       /\ UNCHANGED <<pos, slot, ret>>
    \/ /\ block[t] = 2
       /\ slot[t] + 1 < NumSlot
       /\ Goto(t, test)
       /\ block' = [block EXCEPT ![t] = 1]
       /\ slot' = [slot EXCEPT ![t] = @ + 1]
       /\ UNCHANGED <<pos, ret>>
    \/ /\ block[t] = 2
       /\ slot[t] + 1 >= NumSlot
       /\ Return(t, FALSE, NoAddr)

\* Mutant of Matches: the key itself is not compared.
MatchesSignature(t, w) == w.sig = Signature(key[t], block[t])

\* The signature test, then memcmp of the argument with the record's key.
Matches(t, w) ==
    /\ w.sig = Signature(key[t], block[t])
    /\ KeyAt[w.addr] = key[t]

WriteSlot(t) ==
    table' = [table EXCEPT ![MyCell(t)] = Word(key[t], block[t], pos[t])]

-----------------------------------------------------------------------------
(* Put *)

PutInvoke(t, a) ==
    /\ pc[t] = "idle"
    /\ a \in fresh
    /\ fresh' = fresh \ {a}
    /\ Goto(t, "put_test")
    /\ key' = [key EXCEPT ![t] = KeyAt[a]]
    /\ pos' = [pos EXCEPT ![t] = a]
    /\ UNCHANGED <<table, slot, block, ret>>

PutTest(t) ==
    /\ pc[t] = "put_test"
    /\ Goto(t, IF table[MyCell(t)] = Empty THEN "put_cas" ELSE "put_compare")
    /\ UNCHANGED <<table, fresh, key, pos, slot, block, ret>>

PutCompare(t) ==
    /\ pc[t] = "put_compare"
    /\ \/ /\ Matches(t, table[MyCell(t)])
          /\ Goto(t, "put_store")
          /\ UNCHANGED <<pos, slot, block, ret>>
       \/ /\ ~Matches(t, table[MyCell(t)])
          /\ NextProbe(t, "put_test")
    /\ UNCHANGED <<table, fresh, key>>

PutStore(t) ==
    /\ pc[t] = "put_store"
    /\ WriteSlot(t)
    /\ Return(t, TRUE, pos[t])
    /\ UNCHANGED <<fresh, key>>

\* Mutant of PutCas: a plain store.
PutCasBlind(t) ==
    /\ pc[t] = "put_cas"
    /\ WriteSlot(t)
    /\ Return(t, TRUE, pos[t])
    /\ UNCHANGED <<fresh, key>>

PutCas(t) ==
    /\ pc[t] = "put_cas"
    /\ \/ /\ table[MyCell(t)] = Empty
          /\ WriteSlot(t)
          /\ Return(t, TRUE, pos[t])
       \/ /\ table[MyCell(t)] # Empty
          /\ NextProbe(t, "put_test")
          /\ UNCHANGED table
    /\ UNCHANGED <<fresh, key>>

-----------------------------------------------------------------------------
(* Get *)

GetInvoke(t, k) ==
    /\ pc[t] = "idle"
    /\ Goto(t, "get_test")
    /\ key' = [key EXCEPT ![t] = k]
    /\ UNCHANGED <<table, fresh, pos, slot, block, ret>>

GetTest(t) ==
    /\ pc[t] = "get_test"
    /\ \/ /\ table[MyCell(t)] # Empty
          /\ Goto(t, "get_compare")
          /\ UNCHANGED <<pos, slot, block, ret>>
       \/ /\ table[MyCell(t)] = Empty
          /\ NextProbe(t, "get_test")
    /\ UNCHANGED <<table, fresh, key>>

\* The record is copied out of memory that is never written again or freed.
GetCompare(t) ==
    /\ pc[t] = "get_compare"
    /\ LET w == table[MyCell(t)] IN
       \/ /\ Matches(t, w)
          /\ Return(t, TRUE, w.addr)
       \/ /\ ~Matches(t, w)
          /\ NextProbe(t, "get_test")
    /\ UNCHANGED <<table, fresh, key>>

-----------------------------------------------------------------------------
Step(t) ==
    \/ PutTest(t) \/ PutCompare(t) \/ PutStore(t) \/ PutCas(t)
    \/ GetTest(t) \/ GetCompare(t)

Next ==
    \E t \in Threads :
        \/ \E a \in Addrs : PutInvoke(t, a)
        \/ \E k \in Keys : GetInvoke(t, k)
        \/ Step(t)

Spec == Init /\ [][Next]_vars

-----------------------------------------------------------------------------
(* Properties *)

Holds(c, k) == table[c] # Empty /\ KeyAt[table[c].addr] = k

(***************************************************************************)
(* No key sits in two slots, however many threads put it at once: two      *)
(* concurrent Puts of a new key never both claim a slot for it.  The loser *)
(* of the compare-and-swap must look at the slot it lost before it moves   *)
(* on; hashtable.cc does so only because the second block probes the same  *)
(* bucket as the first.                                                    *)
(***************************************************************************)
UniqueKey ==
    \A c, d \in Cells : \A k \in Keys : Holds(c, k) /\ Holds(d, k) => c = d

(***************************************************************************)
(* A slot in use stays in use, for the same key.  The code relies on it    *)
(* each time it decides on one read of a slot (hashtable.cc:49-56) and     *)
(* acts on a later one.                                                    *)
(***************************************************************************)
SlotKeyStable ==
    [][\A c \in Cells : \A k \in Keys : Holds(c, k) => Holds(c, k)']_vars

(***************************************************************************)
(* Put returns false (hashtable.cc:90) only if all slots of the key's      *)
(* bucket are taken by other keys.                                         *)
(***************************************************************************)
Refuses(t) == pc[t] \in PutSteps /\ pc'[t] = "idle" /\ ~ret'[t].ok

RefusedOnlyWhenFull ==
    [][\A t \in Threads : Refuses(t) =>
          \A i \in Slots : /\ table[Cell(key[t], 1, i)] # Empty
                          /\ ~Holds(Cell(key[t], 1, i), key[t])]_vars

(***************************************************************************)
(* Put and Get return, whatever the other threads do: the probe loop is    *)
(* bounded and a failed compare-and-swap is not retried.                   *)
(***************************************************************************)
CallsReturn == \A t \in Threads : pc[t] # "idle" ~> pc[t] = "idle"

-----------------------------------------------------------------------------
(***************************************************************************)
(* The inductive invariant.                                                *)
(***************************************************************************)

\* A record lies in the bucket of its key, with the bucket's signature.
HomeBucket ==
    \A c \in Cells : table[c] # Empty =>
        LET k == KeyAt[table[c].addr] IN
        /\ c = Cell(k, 1, c[3])
        /\ table[c].sig = Signature(k, 1)

\* A bucket fills from its first slot on, without holes.
NoHoles ==
    \A k \in Keys, i, j \in Slots :
        i < j /\ table[Cell(k, 1, j)] # Empty => table[Cell(k, 1, i)] # Empty

\* Slots that a Put has passed hold other keys, now and forever.
PassedSlots ==
    \A t \in Threads : pc[t] \in PutSteps =>
        \A i \in Slots : i < slot[t] =>
            /\ table[Cell(key[t], 1, i)] # Empty
            /\ ~Holds(Cell(key[t], 1, i), key[t])

\* The second block never meets an empty slot: the first left it occupied.
CurrentSlot ==
    \A t \in Threads :
        /\ pc[t] \in PutSteps /\ block[t] = 2 => table[MyCell(t)] # Empty
        /\ pc[t] \in {"put_compare", "get_compare"} => table[MyCell(t)] # Empty
        /\ pc[t] = "put_cas" => block[t] = 1
        /\ pc[t] = "put_store" => Holds(MyCell(t), key[t])
        /\ pc[t] = "idle" => slot[t] = 0 /\ block[t] = 1

Argument ==
    \A t \in Threads : pc[t] \in PutSteps => pos[t] \in Addrs /\ KeyAt[pos[t]] = key[t]

IInv ==
    /\ TypeOK
    /\ HomeBucket
    /\ NoHoles
    /\ PassedSlots
    /\ CurrentSlot
    /\ Argument
    /\ UniqueKey

=============================================================================
