------------------------------ MODULE HiKVProofs ------------------------------
(***************************************************************************)
(* The store, for every number of servers, backends, keys and records:     *)
(*                                                                         *)
(*   - a record is durable before any index shows it;                      *)
(*   - the tree and the index hold the same keys but for the tasks on      *)
(*     their way, and a key that one server writes has the record of the   *)
(*     index in the tree once its tasks are done;                          *)
(*   - the tree takes such a key's records in the order of the index;      *)
(*   - an accepted record is on its way to the tree at one place.          *)
(***************************************************************************)
EXTENDS HiKV, TLAPS, SequenceTheorems

-----------------------------------------------------------------------------
(* Durability *)

(***************************************************************************)
(* The inductive invariant: the record of a server past AppendKV and every *)
(* record in the index, in a queue, with a backend or in the tree.         *)
(***************************************************************************)
DurableInv ==
    /\ TypeOK
    /\ \A s \in Servers : pc[s] \in {"index", "push"} => rec[s] \in durable
    /\ \A k \in Keys : table[k] # NoAddr => table[k] \in durable
    /\ \A k \in Keys : tree[k] # NoAddr => tree[k] \in durable
    /\ \A b \in Backends : task[b] # NoAddr => task[b] \in durable
    /\ \A b \in Backends : queue[b] \in Seq(durable)

LEMMA DurableInvShowsIt == DurableInv => DurableFirst
<1> SUFFICES ASSUME DurableInv PROVE DurableFirst
  OBVIOUS
<1>1. Indexed \subseteq durable /\ InTree \subseteq durable /\ Popped \subseteq durable
  BY DEF DurableInv, Indexed, InTree, Popped
<1>2. Pushing \subseteq durable
  BY DEF DurableInv, Pushing
<1>3. Queued \subseteq durable
  <2> SUFFICES ASSUME NEW b \in Backends, NEW i \in DOMAIN queue[b]
               PROVE  queue[b][i] \in durable
    BY DEF Queued, ElementsOf
  <2> QED
    BY DEF DurableInv
<1> QED
  BY <1>1, <1>2, <1>3 DEF DurableFirst

LEMMA InitDurableInv == Init => DurableInv
  BY DEF Init, DurableInv, TypeOK

(***************************************************************************)
(* A server's step.                                                        *)
(***************************************************************************)
LEMMA PutInvokeDurable ==
    ASSUME DurableInv, NEW s \in Servers, NEW a \in Addrs, PutInvoke(s, a)
    PROVE  DurableInv'
<1>1. \A u \in Servers : pc'[u] = (IF u = s THEN "append" ELSE pc[u])
                         /\ rec'[u] = (IF u = s THEN a ELSE rec[u])
  BY DEF DurableInv, TypeOK, PutInvoke, Goto
<1>2. TypeOK'
  <2>1. /\ pc' \in [Servers -> {"idle", "append", "index", "push"}]
        /\ rec' \in [Servers -> Addrs \cup {NoAddr}]
    BY DEF DurableInv, TypeOK, PutInvoke, Goto
  <2> QED
    BY <1>1, <2>1 DEF DurableInv, TypeOK, PutInvoke
<1> QED
  BY <1>1, <1>2 DEF DurableInv, PutInvoke

LEMMA AppendDurable ==
    ASSUME DurableInv, NEW s \in Servers, AppendKV(s)
    PROVE  DurableInv'
<1>1. \A u \in Servers : pc'[u] = IF u = s THEN "index" ELSE pc[u]
  BY DEF DurableInv, TypeOK, AppendKV, Goto
<1>2. rec[s] \in Addrs
  BY DEF DurableInv, TypeOK, AppendKV
<1>3. TypeOK'
  <2>1. pc' \in [Servers -> {"idle", "append", "index", "push"}]
    BY DEF DurableInv, TypeOK, AppendKV, Goto
  <2> QED
    BY <1>1, <1>2, <2>1 DEF DurableInv, TypeOK, AppendKV
<1>4. durable' = durable \cup {rec[s]}
  BY DEF AppendKV
<1>5. \A b \in Backends : queue[b] \in Seq(durable')
  <2>1. durable \subseteq durable'
    BY <1>4
  <2> QED
    BY <2>1 DEF DurableInv
<1> QED
  BY <1>1, <1>3, <1>4, <1>5 DEF DurableInv, AppendKV

LEMMA IndexPutDurable ==
    ASSUME DurableInv, NEW s \in Servers, IndexPut(s)
    PROVE  DurableInv'
<1> DEFINE a == rec[s]
           k == KeyOf[a]
<1>1. a \in Addrs /\ a \in durable /\ k \in Keys
  BY RecordAssumption DEF DurableInv, TypeOK, IndexPut
<1>2. \A u \in Servers : pc'[u] = IF u = s THEN "push" ELSE pc[u]
  BY DEF DurableInv, TypeOK, IndexPut, Goto
<1>3. TypeOK'
  <2>1. pc' \in [Servers -> {"idle", "append", "index", "push"}]
    BY DEF DurableInv, TypeOK, IndexPut, Goto
  <2>2. order' \in [Keys -> Seq(Addrs)]
    BY <1>1 DEF DurableInv, TypeOK, IndexPut
  <2>3. table' \in [Keys -> Addrs \cup {NoAddr}]
    BY <1>1 DEF DurableInv, TypeOK, IndexPut
  <2>4. pc[s] # "idle"
    BY DEF IndexPut
  <2> QED
    BY <1>2, <2>1, <2>2, <2>3, <2>4 DEF DurableInv, TypeOK, IndexPut
<1>4. \A j \in Keys : table'[j] = IF j = k THEN a ELSE table[j]
  BY DEF DurableInv, TypeOK, IndexPut
<1> QED
  BY <1>1, <1>2, <1>3, <1>4 DEF DurableInv, IndexPut

LEMMA PutReturnDurable ==
    ASSUME DurableInv, NEW s \in Servers, PutReturn(s),
           UNCHANGED <<fresh, durable, table, task, tree, order>>,
           queue' \in [Backends -> Seq(Addrs)],
           \A b \in Backends : queue'[b] \in Seq(durable)
    PROVE  DurableInv'
<1>1. \A u \in Servers : pc'[u] = (IF u = s THEN "idle" ELSE pc[u])
                         /\ rec'[u] = (IF u = s THEN NoAddr ELSE rec[u])
  BY DEF DurableInv, TypeOK, PutReturn, Goto
<1>2. TypeOK'
  <2>1. /\ pc' \in [Servers -> {"idle", "append", "index", "push"}]
        /\ rec' \in [Servers -> Addrs \cup {NoAddr}]
    BY DEF DurableInv, TypeOK, PutReturn, Goto
  <2> QED
    BY <1>1, <2>1 DEF DurableInv, TypeOK
<1> QED
  BY <1>1, <1>2 DEF DurableInv

LEMMA ServerStepDurable ==
    ASSUME DurableInv, NEW s \in Servers, ServerStep(s)
    PROVE  DurableInv'
<1>1. CASE IndexRefuses(s)
  BY <1>1, PutReturnDurable DEF IndexRefuses, DurableInv, TypeOK
<1>2. CASE PushTask(s)
  <2>1. PICK b \in Backends : queue' = [queue EXCEPT ![b] = Append(@, rec[s])]
    BY <1>2 DEF PushTask
  <2>2. rec[s] \in durable /\ rec[s] \in Addrs
    BY <1>2 DEF PushTask, DurableInv, TypeOK
  <2>3. queue' \in [Backends -> Seq(Addrs)]
    BY <2>1, <2>2 DEF DurableInv, TypeOK
  <2>4. \A c \in Backends : queue'[c] \in Seq(durable)
    BY <2>1, <2>2 DEF DurableInv, TypeOK
  <2> QED
    BY <1>2, <2>3, <2>4, PutReturnDurable DEF PushTask
<1> QED
  BY <1>1, <1>2, AppendDurable, IndexPutDurable DEF ServerStep

(***************************************************************************)
(* A backend's step.                                                       *)
(***************************************************************************)
LEMMA BackendStepDurable ==
    ASSUME DurableInv, NEW b \in Backends, BackendStep(b)
    PROVE  DurableInv'
<1>1. CASE PopTask(b)
  <2>1. queue[b] \in Seq(Addrs) /\ queue[b] \in Seq(durable) /\ queue[b] # <<>>
    BY <1>1 DEF PopTask, DurableInv, TypeOK
  <2>2. /\ Head(queue[b]) \in Addrs \cap durable
        /\ Tail(queue[b]) \in Seq(Addrs) /\ Tail(queue[b]) \in Seq(durable)
    BY <2>1
  <2>3. TypeOK'
    BY <1>1, <2>2 DEF PopTask, DurableInv, TypeOK
  <2>4. \A c \in Backends : /\ task'[c] = (IF c = b THEN Head(queue[b]) ELSE task[c])
                            /\ queue'[c] = (IF c = b THEN Tail(queue[b]) ELSE queue[c])
    BY <1>1 DEF PopTask, DurableInv, TypeOK
  <2> QED
    BY <1>1, <2>2, <2>3, <2>4 DEF PopTask, DurableInv
<1>2. CASE ApplyTask(b)
  <2>1. task[b] \in Addrs /\ task[b] \in durable /\ KeyOf[task[b]] \in Keys
    BY <1>2, RecordAssumption DEF ApplyTask, DurableInv, TypeOK
  <2>2. TypeOK'
    BY <1>2, <2>1 DEF ApplyTask, DurableInv, TypeOK
  <2>3. /\ \A c \in Backends : task'[c] = IF c = b THEN NoAddr ELSE task[c]
        /\ \A k \in Keys : tree'[k] = IF k = KeyOf[task[b]] THEN task[b] ELSE tree[k]
    BY <1>2 DEF ApplyTask, DurableInv, TypeOK
  <2> QED
    BY <1>2, <2>1, <2>2, <2>3 DEF ApplyTask, DurableInv
<1> QED
  BY <1>1, <1>2 DEF BackendStep

LEMMA NextDurableInv == DurableInv /\ [Next]_vars => DurableInv'
<1> SUFFICES ASSUME DurableInv, [Next]_vars PROVE DurableInv'
  OBVIOUS
<1>1. CASE UNCHANGED vars
  BY <1>1 DEF vars, DurableInv, TypeOK
<1> QED
  BY <1>1, PutInvokeDurable, ServerStepDurable, BackendStepDurable DEF Next

(***************************************************************************)
(* The type invariant of the store.                                        *)
(***************************************************************************)
THEOREM TypeCorrect == Spec => []TypeOK
<1>1. DurableInv => TypeOK
  BY DEF DurableInv
<1> QED
  BY <1>1, InitDurableInv, NextDurableInv, PTL DEF Spec

(***************************************************************************)
(* Whatever a Get, a backend or a reader of the tree comes across has been *)
(* persisted by AppendKV (hikv.cc:64) before.                              *)
(***************************************************************************)
THEOREM DurableFirstHolds == Spec => []DurableFirst
  BY InitDurableInv, NextDurableInv, DurableInvShowsIt, PTL DEF Spec

-----------------------------------------------------------------------------
(* The tree and the index *)

-----------------------------------------------------------------------------
(* The records of a key in a queue *)

HasKey(q, k) == \E i \in DOMAIN q : KeyOf[q[i]] = k

\* a is the last record of k in q.
LastIs(q, k, a) ==
    \E i \in DOMAIN q : /\ q[i] = a
                        /\ KeyOf[a] = k
                        /\ \A j \in DOMAIN q : j > i => KeyOf[q[j]] # k

LEMMA AppendLast ==
    ASSUME NEW q \in Seq(Addrs), NEW a \in Addrs
    PROVE  /\ HasKey(Append(q, a), KeyOf[a])
           /\ LastIs(Append(q, a), KeyOf[a], a)
           /\ \A k \in Keys : k # KeyOf[a] => (HasKey(Append(q, a), k) <=> HasKey(q, k))
           /\ \A k \in Keys, c \in Addrs :
                 k # KeyOf[a] /\ LastIs(q, k, c) => LastIs(Append(q, a), k, c)
<1> DEFINE r == Append(q, a)
<1>1. /\ DOMAIN q = 1 .. Len(q)
      /\ DOMAIN r = 1 .. Len(q) + 1
      /\ Len(q) \in Nat
      /\ r[Len(q) + 1] = a
      /\ \A i \in 1 .. Len(q) : r[i] = q[i]
  OBVIOUS
<1> HIDE DEF r
<1>2. LastIs(r, KeyOf[a], a) /\ HasKey(r, KeyOf[a])
  <2>1. Len(q) + 1 \in DOMAIN r /\ \A j \in DOMAIN r : ~(j > Len(q) + 1)
    BY <1>1
  <2> QED
    BY <1>1, <2>1 DEF LastIs, HasKey
<1>3. ASSUME NEW k \in Keys, k # KeyOf[a]
      PROVE  HasKey(r, k) <=> HasKey(q, k)
  <2>1. ASSUME NEW i \in DOMAIN r, KeyOf[r[i]] = k PROVE i \in DOMAIN q /\ KeyOf[q[i]] = k
    BY <1>1, <1>3, <2>1
  <2>2. ASSUME NEW i \in DOMAIN q, KeyOf[q[i]] = k PROVE i \in DOMAIN r /\ KeyOf[r[i]] = k
    BY <1>1, <2>2
  <2> QED
    BY <2>1, <2>2 DEF HasKey
<1>4. ASSUME NEW k \in Keys, NEW c \in Addrs, k # KeyOf[a], LastIs(q, k, c)
      PROVE  LastIs(r, k, c)
  <2>1. PICK i \in DOMAIN q : /\ q[i] = c
                              /\ KeyOf[c] = k
                              /\ \A j \in DOMAIN q : j > i => KeyOf[q[j]] # k
    BY <1>4 DEF LastIs
  <2>2. i \in DOMAIN r /\ r[i] = c
    BY <1>1, <2>1
  <2>3. ASSUME NEW j \in DOMAIN r, j > i PROVE KeyOf[r[j]] # k
    BY <1>1, <1>4, <2>1, <2>3
  <2> QED
    BY <2>1, <2>2, <2>3 DEF LastIs
<1> QED
  BY <1>2, <1>3, <1>4 DEF r

LEMMA TailLast ==
    ASSUME NEW q \in Seq(Addrs), q # <<>>
    PROVE  /\ \A k \in Keys : HasKey(q, k) <=> KeyOf[Head(q)] = k \/ HasKey(Tail(q), k)
           /\ \A k \in Keys, c \in Addrs : LastIs(q, k, c) =>
                 IF HasKey(Tail(q), k) THEN LastIs(Tail(q), k, c) ELSE Head(q) = c
<1> DEFINE r == Tail(q)
<1>1. /\ DOMAIN q = 1 .. Len(q)
      /\ DOMAIN r = 1 .. Len(q) - 1
      /\ Len(q) \in Nat \ {0}
      /\ Head(q) = q[1]
      /\ \A i \in 1 .. Len(q) - 1 : r[i] = q[i + 1]
  OBVIOUS
<1> HIDE DEF r
<1>2. ASSUME NEW k \in Keys
      PROVE  HasKey(q, k) <=> KeyOf[Head(q)] = k \/ HasKey(r, k)
  <2>1. ASSUME NEW i \in DOMAIN q, KeyOf[q[i]] = k PROVE KeyOf[Head(q)] = k \/ HasKey(r, k)
    <3>1. CASE i = 1
      BY <1>1, <2>1, <3>1
    <3>2. CASE i # 1
      <4>1. i - 1 \in DOMAIN r /\ r[i - 1] = q[i]
        BY <1>1, <3>2
      <4> QED
        BY <2>1, <4>1 DEF HasKey
    <3> QED
      BY <3>1, <3>2
  <2>2. ASSUME NEW i \in DOMAIN r, KeyOf[r[i]] = k PROVE HasKey(q, k)
    <3>1. i + 1 \in DOMAIN q /\ r[i] = q[i + 1]
      BY <1>1
    <3> QED
      BY <2>2, <3>1 DEF HasKey
  <2>3. ASSUME KeyOf[Head(q)] = k PROVE HasKey(q, k)
    <3>1. 1 \in DOMAIN q
      BY <1>1
    <3> QED
      BY <1>1, <2>3, <3>1 DEF HasKey
  <2> QED
    BY <2>1, <2>2, <2>3 DEF HasKey
<1>3. ASSUME NEW k \in Keys, NEW c \in Addrs, LastIs(q, k, c)
      PROVE  IF HasKey(r, k) THEN LastIs(r, k, c) ELSE Head(q) = c
  <2>1. PICK i \in DOMAIN q : /\ q[i] = c
                              /\ KeyOf[c] = k
                              /\ \A j \in DOMAIN q : j > i => KeyOf[q[j]] # k
    BY <1>3 DEF LastIs
  <2>2. CASE i = 1
    <3>1. ASSUME NEW j \in DOMAIN r PROVE KeyOf[r[j]] # k
      <4>1. j + 1 \in DOMAIN q /\ j + 1 > i /\ r[j] = q[j + 1]
        BY <1>1, <2>2
      <4> QED
        BY <2>1, <4>1
    <3> QED
      BY <1>1, <2>1, <2>2, <3>1 DEF HasKey
  <2>3. CASE i # 1
    <3>1. i - 1 \in DOMAIN r /\ r[i - 1] = c
      BY <1>1, <2>1, <2>3
    <3>2. ASSUME NEW j \in DOMAIN r, j > i - 1 PROVE KeyOf[r[j]] # k
      <4>1. j + 1 \in DOMAIN q /\ j + 1 > i /\ r[j] = q[j + 1]
        BY <1>1, <3>2
      <4> QED
        BY <2>1, <4>1
    <3> QED
      BY <2>1, <3>1, <3>2 DEF HasKey, LastIs
  <2> QED
    BY <2>2, <2>3
<1> QED
  BY <1>2, <1>3 DEF r

-----------------------------------------------------------------------------
(***************************************************************************)
(* The inductive invariant: servers work on keys they may write, tasks are *)
(* where the hash of their key puts them, and along the way from the       *)
(* server to the queue, to the backend and to the tree, the first place    *)
(* that has the key has the record of the index.                           *)
(***************************************************************************)
PushesKey(k) == \E s \in Servers : pc[s] = "push" /\ KeyOf[rec[s]] = k
QueuesKey(k) == HasKey(queue[QueueOf[k]], k)
TasksKey(k) == task[QueueOf[k]] # NoAddr /\ KeyOf[task[QueueOf[k]]] = k

FirstPlaceAgrees(k) ==
    /\ \A s \in Servers : pc[s] = "push" /\ KeyOf[rec[s]] = k => rec[s] = table[k]
    /\ ~PushesKey(k) => IF QueuesKey(k) THEN LastIs(queue[QueueOf[k]], k, table[k])
                        ELSE IF TasksKey(k) THEN task[QueueOf[k]] = table[k]
                        ELSE tree[k] = table[k]

KeyInv(k) ==
    /\ tree[k] # NoAddr \/ PushesKey(k) \/ QueuesKey(k) \/ TasksKey(k) <=> table[k] # NoAddr
    /\ tree[k] # NoAddr => KeyOf[tree[k]] = k
    /\ OneWriter(k) => FirstPlaceAgrees(k)

RightWriter == \A s \in Servers : pc[s] # "idle" => s \in Writers[KeyOf[rec[s]]]

RightQueue ==
    /\ \A b \in Backends : \A i \in DOMAIN queue[b] : QueueOf[KeyOf[queue[b][i]]] = b
    /\ \A b \in Backends : task[b] # NoAddr => QueueOf[KeyOf[task[b]]] = b

AgreeInv == RightWriter /\ RightQueue /\ \A k \in Keys : KeyInv(k)

LEMMA InitAgreeInv == Init => AgreeInv
<1> SUFFICES ASSUME Init PROVE AgreeInv
  OBVIOUS
<1>1. \A b \in Backends : queue[b] = <<>> /\ task[b] = NoAddr
  BY DEF Init
<1>2. \A s \in Servers : pc[s] = "idle"
  BY DEF Init
<1>3. ASSUME NEW k \in Keys PROVE KeyInv(k)
  <2>1. QueueOf[k] \in Backends
    BY PlacementAssumption
  <2>2. ~PushesKey(k) /\ ~TasksKey(k)
    BY <1>1, <1>2, <2>1 DEF PushesKey, TasksKey
  <2>3. ~QueuesKey(k)
    BY <1>1, <2>1 DEF QueuesKey, HasKey
  <2>4. tree[k] = NoAddr /\ table[k] = NoAddr
    BY DEF Init
  <2> QED
    BY <1>2, <2>2, <2>3, <2>4 DEF KeyInv, FirstPlaceAgrees
<1> QED
  BY <1>1, <1>2, <1>3 DEF AgreeInv, RightWriter, RightQueue

(***************************************************************************)
(* A server that is not at its push before or after a step which touches   *)
(* nothing but its own state.                                              *)
(***************************************************************************)
LEMMA OwnStepAgrees ==
    ASSUME TypeOK, TypeOK', AgreeInv, NEW s \in Servers,
           pc[s] # "push", pc'[s] # "push",
           pc'[s] # "idle" => s \in Writers[KeyOf[rec'[s]]],
           \A u \in Servers \ {s} : pc'[u] = pc[u] /\ rec'[u] = rec[u],
           UNCHANGED <<table, queue, task, tree>>
    PROVE  AgreeInv'
<1>1. RightWriter' /\ RightQueue'
  BY DEF AgreeInv, RightWriter, RightQueue
<1>2. ASSUME NEW k \in Keys PROVE KeyInv(k)'
  <2>1. PushesKey(k)' <=> PushesKey(k)
    BY DEF PushesKey
  <2>2. /\ QueuesKey(k)' <=> QueuesKey(k)
        /\ TasksKey(k)' <=> TasksKey(k)
        /\ OneWriter(k)' <=> OneWriter(k)
    BY DEF QueuesKey, TasksKey, OneWriter, HasKey
  <2>3. KeyInv(k)
    BY DEF AgreeInv
  <2>4. FirstPlaceAgrees(k) => FirstPlaceAgrees(k)'
    BY <2>1, <2>2 DEF FirstPlaceAgrees, LastIs
  <2> QED
    BY <2>1, <2>2, <2>3, <2>4 DEF KeyInv
<1> QED
  BY <1>1, <1>2 DEF AgreeInv

LEMMA PutInvokeAgrees ==
    ASSUME TypeOK, TypeOK', AgreeInv, NEW s \in Servers, NEW a \in Addrs, PutInvoke(s, a)
    PROVE  AgreeInv'
<1>1. /\ pc[s] # "push" /\ pc'[s] = "append" /\ rec'[s] = a
      /\ \A u \in Servers \ {s} : pc'[u] = pc[u] /\ rec'[u] = rec[u]
      /\ s \in Writers[KeyOf[a]]
  BY DEF PutInvoke, Goto, TypeOK
<1>2. UNCHANGED <<table, queue, task, tree>>
  BY DEF PutInvoke
<1> QED
  BY <1>1, <1>2, OwnStepAgrees

LEMMA AppendAgrees ==
    ASSUME TypeOK, TypeOK', AgreeInv, NEW s \in Servers, AppendKV(s)
    PROVE  AgreeInv'
<1>1. /\ pc[s] # "push" /\ pc[s] # "idle" /\ pc'[s] = "index" /\ rec'[s] = rec[s]
      /\ \A u \in Servers \ {s} : pc'[u] = pc[u] /\ rec'[u] = rec[u]
  BY DEF AppendKV, Goto, TypeOK
<1>2. UNCHANGED <<table, queue, task, tree>>
  BY DEF AppendKV
<1>3. s \in Writers[KeyOf[rec'[s]]]
  BY <1>1 DEF AgreeInv, RightWriter
<1> QED
  BY <1>1, <1>2, <1>3, OwnStepAgrees

LEMMA IndexRefusesAgrees ==
    ASSUME TypeOK, TypeOK', AgreeInv, NEW s \in Servers, IndexRefuses(s)
    PROVE  AgreeInv'
<1>1. /\ pc[s] # "push" /\ pc'[s] = "idle"
      /\ \A u \in Servers \ {s} : pc'[u] = pc[u] /\ rec'[u] = rec[u]
  BY DEF IndexRefuses, PutReturn, Goto, TypeOK
<1>2. UNCHANGED <<table, queue, task, tree>>
  BY DEF IndexRefuses
<1> QED
  BY <1>1, <1>2, OwnStepAgrees

(***************************************************************************)
(* The index takes a record: no other server has one of a one-writer key.  *)
(***************************************************************************)
LEMMA IndexPutAgrees ==
    ASSUME TypeOK, TypeOK', AgreeInv, NEW s \in Servers, IndexPut(s)
    PROVE  AgreeInv'
<1> DEFINE a == rec[s]
<1>1. /\ pc[s] = "index" /\ pc'[s] = "push"
      /\ \A u \in Servers \ {s} : pc'[u] = pc[u]
      /\ rec' = rec /\ queue' = queue /\ task' = task /\ tree' = tree
  BY DEF IndexPut, Goto, TypeOK
<1>2. a \in Addrs /\ KeyOf[a] \in Keys /\ a # NoAddr
  BY <1>1, RecordAssumption DEF TypeOK
<1>3. \A k \in Keys : table'[k] = IF k = KeyOf[a] THEN a ELSE table[k]
  BY <1>2 DEF IndexPut, TypeOK
<1>4. RightWriter' /\ RightQueue'
  BY <1>1 DEF AgreeInv, RightWriter, RightQueue
<1>5. ASSUME NEW k \in Keys PROVE KeyInv(k)'
  <2>1. /\ QueuesKey(k)' <=> QueuesKey(k)
        /\ TasksKey(k)' <=> TasksKey(k)
        /\ OneWriter(k)' <=> OneWriter(k)
    BY <1>1 DEF QueuesKey, TasksKey, OneWriter, HasKey
  <2>2. KeyInv(k)
    BY DEF AgreeInv
  <2>3. CASE k = KeyOf[a]
    <3>1. PushesKey(k)' /\ table'[k] = a
      BY <1>1, <1>3, <2>3 DEF PushesKey
    <3>2. ASSUME OneWriter(k), NEW u \in Servers, pc'[u] = "push", KeyOf[rec'[u]] = k
          PROVE  rec'[u] = a
      <4>1. s \in Writers[k] /\ u \in Writers[k]
        BY <1>1, <2>3, <3>2 DEF AgreeInv, RightWriter
      <4>2. u = s
        BY <3>2, <4>1 DEF OneWriter
      <4> QED
        BY <1>1, <4>2
    <3> QED
      BY <1>1, <1>2, <2>1, <2>2, <3>1, <3>2 DEF KeyInv, FirstPlaceAgrees
  <2>4. CASE k # KeyOf[a]
    <3>1. PushesKey(k)' <=> PushesKey(k)
      BY <1>1, <2>4 DEF PushesKey
    <3>2. table'[k] = table[k]
      BY <1>3, <2>4
    <3>3. FirstPlaceAgrees(k) => FirstPlaceAgrees(k)'
      BY <1>1, <2>1, <2>4, <3>1, <3>2 DEF FirstPlaceAgrees, LastIs
    <3> QED
      BY <1>1, <2>1, <2>2, <3>1, <3>2, <3>3 DEF KeyInv
  <2> QED
    BY <2>3, <2>4
<1> QED
  BY <1>4, <1>5 DEF AgreeInv

(***************************************************************************)
(* What stands at a place of a queue after Append and after Tail.          *)
(***************************************************************************)
LEMMA AppendAt ==
    ASSUME NEW S, NEW q \in Seq(S), NEW a \in S, NEW i \in DOMAIN Append(q, a)
    PROVE  \/ i \in DOMAIN q /\ Append(q, a)[i] = q[i]
           \/ Append(q, a)[i] = a
  OBVIOUS

LEMMA TailAt ==
    ASSUME NEW S, NEW q \in Seq(S), q # <<>>, NEW i \in DOMAIN Tail(q)
    PROVE  i + 1 \in DOMAIN q /\ Tail(q)[i] = q[i + 1]
  OBVIOUS

(***************************************************************************)
(* The task enters the queue of its key, behind the others of that key.    *)
(***************************************************************************)
LEMMA PushTaskAgrees ==
    ASSUME TypeOK, TypeOK', AgreeInv, NEW s \in Servers, PushTask(s)
    PROVE  AgreeInv'
<1> DEFINE a == rec[s]
           b == QueueOf[KeyOf[a]]
<1>1. /\ pc[s] = "push" /\ pc'[s] = "idle"
      /\ \A u \in Servers \ {s} : pc'[u] = pc[u] /\ rec'[u] = rec[u]
      /\ table' = table /\ task' = task /\ tree' = tree
  BY DEF PushTask, PutReturn, Goto, TypeOK
<1>2. a \in Addrs /\ KeyOf[a] \in Keys /\ b \in Backends /\ queue[b] \in Seq(Addrs)
  BY <1>1, RecordAssumption, PlacementAssumption DEF TypeOK
<1>3. \A c \in Backends : queue'[c] = IF c = b THEN Append(queue[b], a) ELSE queue[c]
  BY <1>2 DEF PushTask, QueueFor, TypeOK
<1>4. RightWriter'
  BY <1>1 DEF AgreeInv, RightWriter
<1>5. RightQueue'
  <2>1. ASSUME NEW i \in DOMAIN queue'[b] PROVE QueueOf[KeyOf[queue'[b][i]]] = b
    <3>1. queue'[b] = Append(queue[b], a)
      BY <1>2, <1>3
    <3>2. \/ i \in DOMAIN queue[b] /\ queue'[b][i] = queue[b][i]
          \/ queue'[b][i] = a
      BY <1>2, <3>1, <2>1, AppendAt
    <3> QED
      BY <1>2, <3>2 DEF AgreeInv, RightQueue
  <2>2. ASSUME NEW c \in Backends, c # b, NEW i \in DOMAIN queue'[c]
        PROVE  QueueOf[KeyOf[queue'[c][i]]] = c
    BY <1>3, <2>2 DEF AgreeInv, RightQueue
  <2> QED
    BY <1>1, <2>1, <2>2 DEF AgreeInv, RightQueue
<1>6. ASSUME NEW k \in Keys PROVE KeyInv(k)'
  <2>1. KeyInv(k) /\ QueueOf[k] \in Backends
    BY PlacementAssumption DEF AgreeInv
  <2>2. TasksKey(k)' <=> TasksKey(k)
    BY <1>1 DEF TasksKey
  <2>3. CASE k = KeyOf[a]
    <3>1. PushesKey(k)
      BY <1>1, <2>3 DEF PushesKey
    <3>2. queue'[QueueOf[k]] = Append(queue[b], a)
      BY <1>3, <2>1, <2>3
    <3>3. QueuesKey(k)' /\ LastIs(queue'[QueueOf[k]], k, a)
      BY <1>2, <2>3, <3>2, AppendLast DEF QueuesKey
    <3>4. OneWriter(k) => a = table[k] /\ ~PushesKey(k)'
      <4>1. ASSUME OneWriter(k), NEW u \in Servers, pc'[u] = "push", KeyOf[rec'[u]] = k
            PROVE  FALSE
        <5>1. u # s /\ pc[u] = "push" /\ KeyOf[rec[u]] = k
          BY <1>1, <4>1
        <5>2. s \in Writers[k] /\ u \in Writers[k]
          BY <1>1, <2>3, <5>1 DEF AgreeInv, RightWriter
        <5> QED
          BY <4>1, <5>1, <5>2 DEF OneWriter
      <4>2. OneWriter(k) => a = table[k]
        BY <1>1, <2>1, <2>3 DEF KeyInv, FirstPlaceAgrees
      <4> QED
        BY <4>1, <4>2 DEF PushesKey
    <3>5. OneWriter(k) => FirstPlaceAgrees(k)'
      BY <1>1, <3>3, <3>4 DEF FirstPlaceAgrees, PushesKey
    <3>6. table'[k] # NoAddr
      BY <1>1, <2>1, <3>1 DEF KeyInv
    <3> QED
      BY <1>1, <2>1, <3>3, <3>5, <3>6 DEF KeyInv, OneWriter
  <2>4. CASE k # KeyOf[a]
    <3>1. PushesKey(k)' <=> PushesKey(k)
      BY <1>1, <2>4 DEF PushesKey
    <3>2. CASE QueueOf[k] = b
      <4>1. queue'[QueueOf[k]] = Append(queue[QueueOf[k]], a)
        BY <1>3, <2>1, <3>2
      <4>2. QueuesKey(k)' <=> QueuesKey(k)
        BY <1>2, <2>4, <3>2, <4>1, AppendLast DEF QueuesKey
      <4>3. table[k] \in Addrs /\ LastIs(queue[QueueOf[k]], k, table[k])
              => LastIs(queue'[QueueOf[k]], k, table[k])
        BY <1>2, <2>4, <3>2, <4>1, AppendLast
      <4>4. QueuesKey(k) => table[k] \in Addrs
        BY <2>1 DEF KeyInv, TypeOK
      <4>5. FirstPlaceAgrees(k) => FirstPlaceAgrees(k)'
        BY <1>1, <2>2, <2>4, <3>1, <4>2, <4>3, <4>4 DEF FirstPlaceAgrees
      <4> QED
        BY <1>1, <2>1, <2>2, <3>1, <4>2, <4>5 DEF KeyInv, OneWriter
    <3>3. CASE QueueOf[k] # b
      <4>1. queue'[QueueOf[k]] = queue[QueueOf[k]]
        BY <1>3, <2>1, <3>3
      <4>2. QueuesKey(k)' <=> QueuesKey(k)
        BY <4>1 DEF QueuesKey
      <4>3. FirstPlaceAgrees(k) => FirstPlaceAgrees(k)'
        BY <1>1, <2>2, <2>4, <3>1, <4>1, <4>2 DEF FirstPlaceAgrees
      <4> QED
        BY <1>1, <2>1, <2>2, <3>1, <4>2, <4>3 DEF KeyInv, OneWriter
    <3> QED
      BY <3>2, <3>3
  <2> QED
    BY <2>3, <2>4
<1> QED
  BY <1>4, <1>5, <1>6 DEF AgreeInv

(***************************************************************************)
(* A backend takes the oldest task of its queue.                           *)
(***************************************************************************)
LEMMA PopTaskAgrees ==
    ASSUME TypeOK, TypeOK', AgreeInv, NEW b \in Backends, PopTask(b)
    PROVE  AgreeInv'
<1> DEFINE a == Head(queue[b])
<1>1. /\ task[b] = NoAddr /\ queue[b] # <<>> /\ queue[b] \in Seq(Addrs)
      /\ \A c \in Backends : /\ task'[c] = (IF c = b THEN a ELSE task[c])
                             /\ queue'[c] = (IF c = b THEN Tail(queue[b]) ELSE queue[c])
      /\ pc' = pc /\ rec' = rec /\ table' = table /\ tree' = tree
  BY DEF PopTask, TypeOK
<1>2. a \in Addrs /\ a # NoAddr /\ a = queue[b][1] /\ 1 \in DOMAIN queue[b]
  BY <1>1, RecordAssumption
<1>3. QueueOf[KeyOf[a]] = b
  BY <1>2 DEF AgreeInv, RightQueue
<1>4. RightQueue'
  <2>1. ASSUME NEW i \in DOMAIN queue'[b] PROVE QueueOf[KeyOf[queue'[b][i]]] = b
    <3>1. queue'[b] = Tail(queue[b])
      BY <1>1
    <3>2. i + 1 \in DOMAIN queue[b] /\ queue'[b][i] = queue[b][i + 1]
      BY <1>1, <2>1, <3>1, TailAt
    <3> QED
      BY <3>2 DEF AgreeInv, RightQueue
  <2>2. ASSUME NEW c \in Backends, c # b, NEW i \in DOMAIN queue'[c]
        PROVE  QueueOf[KeyOf[queue'[c][i]]] = c
    BY <1>1, <2>2 DEF AgreeInv, RightQueue
  <2>3. \A c \in Backends : task'[c] # NoAddr => QueueOf[KeyOf[task'[c]]] = c
    BY <1>1, <1>3 DEF AgreeInv, RightQueue
  <2> QED
    BY <2>1, <2>2, <2>3 DEF RightQueue
<1>5. ASSUME NEW k \in Keys PROVE KeyInv(k)'
  <2>1. KeyInv(k) /\ QueueOf[k] \in Backends
    BY PlacementAssumption DEF AgreeInv
  <2>2. PushesKey(k)' <=> PushesKey(k)
    BY <1>1 DEF PushesKey
  <2>3. CASE QueueOf[k] = b
    <3>1. /\ QueuesKey(k) <=> KeyOf[a] = k \/ QueuesKey(k)'
          /\ ~TasksKey(k)
          /\ TasksKey(k)' <=> KeyOf[a] = k
      BY <1>1, <1>2, <2>1, <2>3, TailLast DEF QueuesKey, TasksKey
    <3>2. QueuesKey(k) => table[k] \in Addrs
      BY <2>1 DEF KeyInv, TypeOK
    <3>3. QueuesKey(k) /\ LastIs(queue[b], k, table[k]) =>
             IF QueuesKey(k)' THEN LastIs(queue'[b], k, table[k]) ELSE a = table[k]
      BY <1>1, <2>1, <2>3, <3>2, TailLast DEF QueuesKey
    <3>4. FirstPlaceAgrees(k) => FirstPlaceAgrees(k)'
      BY <1>1, <2>2, <2>3, <3>1, <3>3 DEF FirstPlaceAgrees
    <3> QED
      BY <1>1, <2>1, <2>2, <3>1, <3>4 DEF KeyInv, OneWriter
  <2>4. CASE QueueOf[k] # b
    <3>1. queue'[QueueOf[k]] = queue[QueueOf[k]] /\ task'[QueueOf[k]] = task[QueueOf[k]]
      BY <1>1, <2>1, <2>4
    <3>2. (QueuesKey(k)' <=> QueuesKey(k)) /\ (TasksKey(k)' <=> TasksKey(k))
      BY <3>1 DEF QueuesKey, TasksKey
    <3>3. FirstPlaceAgrees(k) => FirstPlaceAgrees(k)'
      BY <1>1, <2>2, <3>1, <3>2 DEF FirstPlaceAgrees
    <3> QED
      BY <1>1, <2>1, <2>2, <3>2, <3>3 DEF KeyInv, OneWriter
  <2> QED
    BY <2>3, <2>4
<1> QED
  BY <1>1, <1>4, <1>5 DEF AgreeInv, RightWriter

(***************************************************************************)
(* The tree gets the record.                                               *)
(***************************************************************************)
LEMMA ApplyTaskAgrees ==
    ASSUME TypeOK, TypeOK', AgreeInv, NEW b \in Backends, ApplyTask(b)
    PROVE  AgreeInv'
<1> DEFINE a == task[b]
<1>1. /\ a # NoAddr /\ a \in Addrs /\ KeyOf[a] \in Keys
      /\ pc' = pc /\ rec' = rec /\ table' = table /\ queue' = queue
      /\ \A c \in Backends : task'[c] = IF c = b THEN NoAddr ELSE task[c]
  BY RecordAssumption DEF ApplyTask, TypeOK
<1>2. \A k \in Keys : tree'[k] = IF k = KeyOf[a] THEN a ELSE tree[k]
  BY <1>1 DEF ApplyTask, TypeOK
<1>3. QueueOf[KeyOf[a]] = b
  BY <1>1 DEF AgreeInv, RightQueue
<1>4. RightQueue'
  BY <1>1 DEF AgreeInv, RightQueue
<1>5. ASSUME NEW k \in Keys PROVE KeyInv(k)'
  <2>1. KeyInv(k) /\ QueueOf[k] \in Backends
    BY PlacementAssumption DEF AgreeInv
  <2>2. (PushesKey(k)' <=> PushesKey(k)) /\ (QueuesKey(k)' <=> QueuesKey(k))
    BY <1>1 DEF PushesKey, QueuesKey
  <2>3. CASE k = KeyOf[a]
    <3>1. TasksKey(k) /\ ~TasksKey(k)' /\ tree'[k] = a
      BY <1>1, <1>2, <1>3, <2>1, <2>3 DEF TasksKey
    <3>2. FirstPlaceAgrees(k) => FirstPlaceAgrees(k)'
      BY <1>1, <1>3, <2>2, <2>3, <3>1 DEF FirstPlaceAgrees
    <3> QED
      BY <1>1, <2>1, <2>2, <2>3, <3>1, <3>2 DEF KeyInv, OneWriter
  <2>4. CASE k # KeyOf[a]
    <3>1. TasksKey(k)' <=> TasksKey(k)
      BY <1>1, <2>1, <2>4 DEF TasksKey
    <3>2. TasksKey(k) => task'[QueueOf[k]] = task[QueueOf[k]]
      BY <1>1, <2>1, <2>4 DEF TasksKey
    <3>3. tree'[k] = tree[k]
      BY <1>2, <2>4
    <3>4. FirstPlaceAgrees(k) => FirstPlaceAgrees(k)'
      BY <1>1, <2>2, <3>1, <3>2, <3>3 DEF FirstPlaceAgrees
    <3> QED
      BY <1>1, <2>1, <2>2, <3>1, <3>3, <3>4 DEF KeyInv, OneWriter
  <2> QED
    BY <2>3, <2>4
<1> QED
  BY <1>1, <1>4, <1>5 DEF AgreeInv, RightWriter

LEMMA NextAgreeInv == TypeOK /\ TypeOK' /\ AgreeInv /\ [Next]_vars => AgreeInv'
<1> SUFFICES ASSUME TypeOK, TypeOK', AgreeInv, [Next]_vars PROVE AgreeInv'
  OBVIOUS
<1>1. CASE UNCHANGED vars
  BY <1>1 DEF vars, AgreeInv, RightWriter, RightQueue, KeyInv, FirstPlaceAgrees,
              PushesKey, QueuesKey, TasksKey, OneWriter
<1>2. ASSUME NEW s \in Servers, ServerStep(s) PROVE AgreeInv'
  BY <1>2, AppendAgrees, IndexPutAgrees, IndexRefusesAgrees, PushTaskAgrees DEF ServerStep
<1>3. ASSUME NEW b \in Backends, BackendStep(b) PROVE AgreeInv'
  BY <1>3, PopTaskAgrees, ApplyTaskAgrees DEF BackendStep
<1> QED
  BY <1>1, <1>2, <1>3, PutInvokeAgrees DEF Next

LEMMA AgreeInvAlways == Spec => [](TypeOK /\ AgreeInv)
<1>1. TypeOK /\ TypeOK' /\ AgreeInv /\ [Next]_vars => AgreeInv'
  BY NextAgreeInv
<1> QED
  BY <1>1, TypeCorrect, InitAgreeInv, PTL DEF Spec

-----------------------------------------------------------------------------
\* The pending records of a key are where its hash says.
LEMMA PendingPlaces ==
    ASSUME TypeOK, AgreeInv, NEW k \in Keys
    PROVE  Pending(k) <=> PushesKey(k) \/ QueuesKey(k) \/ TasksKey(k)
<1>1. QueueOf[k] \in Backends
  BY PlacementAssumption
<1>2. (\E a \in Pushing : KeyOf[a] = k) <=> PushesKey(k)
  BY DEF Pushing, PushesKey
<1>3. (\E a \in Queued : KeyOf[a] = k) <=> QueuesKey(k)
  <2>1. ASSUME NEW b \in Backends, NEW i \in DOMAIN queue[b], KeyOf[queue[b][i]] = k
        PROVE  QueuesKey(k)
    BY <2>1 DEF AgreeInv, RightQueue, QueuesKey, HasKey
  <2>2. ASSUME NEW i \in DOMAIN queue[QueueOf[k]], KeyOf[queue[QueueOf[k]][i]] = k
        PROVE  queue[QueueOf[k]][i] \in Queued
    BY <1>1 DEF Queued, ElementsOf
  <2> QED
    BY <2>1, <2>2 DEF Queued, ElementsOf, QueuesKey, HasKey
<1>4. (\E a \in Popped : KeyOf[a] = k) <=> TasksKey(k)
  BY <1>1 DEF AgreeInv, RightQueue, Popped, TasksKey
<1> QED
  BY <1>2, <1>3, <1>4 DEF Pending

(***************************************************************************)
(* Without pending tasks the tree and the index hold the same keys: a      *)
(* refused put never gets to the tree, and an accepted one is not lost on  *)
(* the way (hikv.cc:65-69 and 23-28).                                      *)
(***************************************************************************)
THEOREM SameKeysHolds == Spec => []SameKeys
<1>1. TypeOK /\ AgreeInv => SameKeys
  BY PendingPlaces DEF SameKeys, AgreeInv, KeyInv
<1> QED
  BY <1>1, AgreeInvAlways, PTL

(***************************************************************************)
(* The tree of a key with one writer has the record of the index when no   *)
(* task of it is pending, although index, queue and tree are updated one   *)
(* after the other: the key's tasks stay in order.                         *)
(***************************************************************************)
THEOREM TreeAgreesHolds == Spec => []TreeAgrees
<1>1. TypeOK /\ AgreeInv => TreeAgrees
  BY PendingPlaces DEF TreeAgrees, AgreeInv, KeyInv, FirstPlaceAgrees
<1> QED
  BY <1>1, AgreeInvAlways, PTL

-----------------------------------------------------------------------------
(***************************************************************************)
(* The inductive invariant.  No two places hold one record: servers (from  *)
(* the start of a Put, not only at its push), queues, backends; and none   *)
(* of them holds a fresh one, which a Put might take again.                *)
(***************************************************************************)
Held(s) == pc[s] # "idle"

Ordered(a) == \E i \in DOMAIN order[KeyOf[a]] : order[KeyOf[a]][i] = a

ServersApart == \A s, t \in Servers : Held(s) /\ Held(t) /\ rec[s] = rec[t] => s = t

TasksApart == \A b, c \in Backends : task[b] # NoAddr /\ task[b] = task[c] => b = c

QueuesApart ==
    \A b, c \in Backends : \A i \in DOMAIN queue[b], j \in DOMAIN queue[c] :
        queue[b][i] = queue[c][j] => b = c /\ i = j

ServersOnly ==
    \A s \in Servers : Held(s) => \A b \in Backends :
        /\ task[b] # rec[s]
        /\ \A i \in DOMAIN queue[b] : queue[b][i] # rec[s]

TasksOnly ==
    \A b, c \in Backends : task[b] # NoAddr => \A i \in DOMAIN queue[c] : queue[c][i] # task[b]

NotFresh ==
    \A b \in Backends : task[b] \notin fresh /\ \A i \in DOMAIN queue[b] : queue[b][i] \notin fresh

AllOrdered ==
    /\ \A s \in Servers : pc[s] = "push" => Ordered(rec[s])
    /\ \A b \in Backends :
          /\ task[b] # NoAddr => Ordered(task[b])
          /\ \A i \in DOMAIN queue[b] : Ordered(queue[b][i])

OnceInv ==
    /\ ServersApart /\ TasksApart /\ QueuesApart
    /\ ServersOnly /\ TasksOnly /\ NotFresh /\ AllOrdered

LEMMA InitOnceInv == Init => OnceInv
<1> SUFFICES ASSUME Init PROVE OnceInv
  OBVIOUS
<1>1. /\ \A s \in Servers : pc[s] = "idle"
      /\ \A b \in Backends : queue[b] = <<>> /\ task[b] = NoAddr
      /\ NoAddr \notin fresh
  BY RecordAssumption DEF Init
<1>2. \A b \in Backends : \A i \in DOMAIN queue[b] : FALSE
  BY <1>1
<1> QED
  BY <1>1, <1>2 DEF OnceInv, ServersApart, TasksApart, QueuesApart, ServersOnly, TasksOnly,
                    NotFresh, AllOrdered, Held

(***************************************************************************)
(* A step of a server within a Put: it keeps its record or lets it go.     *)
(***************************************************************************)
LEMMA WithinPutOnce ==
    ASSUME OnceInv, NEW s \in Servers,
           Held(s),
           \A u \in Servers \ {s} : pc'[u] = pc[u] /\ rec'[u] = rec[u],
           pc'[s] # "idle" => rec'[s] = rec[s],
           pc'[s] = "push" => Ordered(rec[s])',
           \A a \in Addrs : Ordered(a) => Ordered(a)',
           TypeOK, UNCHANGED <<fresh, queue, task>>
    PROVE  OnceInv'
<1>1. ServersApart' /\ ServersOnly'
  BY DEF OnceInv, ServersApart, ServersOnly, Held
<1>2. TasksApart' /\ QueuesApart' /\ TasksOnly' /\ NotFresh'
  BY DEF OnceInv, TasksApart, QueuesApart, TasksOnly, NotFresh
<1>3. AllOrdered'
  <2>1. \A u \in Servers : pc'[u] = "push" => Ordered(rec[u])'
    <3>1. ASSUME NEW u \in Servers \ {s}, pc'[u] = "push" PROVE Ordered(rec[u])'
      <4>1. pc[u] = "push" /\ rec'[u] = rec[u] /\ rec[u] \in Addrs
        BY <3>1 DEF TypeOK
      <4>2. Ordered(rec[u])
        BY <4>1 DEF OnceInv, AllOrdered
      <4> QED
        BY <4>1, <4>2 DEF Ordered
    <3>2. ASSUME pc'[s] = "push" PROVE Ordered(rec[s])'
      BY <3>2 DEF Ordered
    <3> QED
      BY <3>1, <3>2
  <2>2. \A b \in Backends : task[b] # NoAddr => Ordered(task[b])'
    BY DEF OnceInv, AllOrdered, TypeOK
  <2>3. \A b \in Backends : \A i \in DOMAIN queue[b] : Ordered(queue[b][i])'
    <3>1. \A b \in Backends : \A i \in DOMAIN queue[b] : queue[b][i] \in Addrs
      BY DEF TypeOK
    <3> QED
      BY <3>1 DEF OnceInv, AllOrdered
  <2> QED
    BY <2>1, <2>2, <2>3 DEF AllOrdered
<1> QED
  BY <1>1, <1>2, <1>3 DEF OnceInv

LEMMA PutInvokeOnce ==
    ASSUME TypeOK, OnceInv, NEW s \in Servers, NEW a \in Addrs, PutInvoke(s, a)
    PROVE  OnceInv'
<1>1. /\ a \in fresh /\ fresh' = fresh \ {a}
      /\ pc'[s] = "append" /\ rec'[s] = a
      /\ \A u \in Servers \ {s} : pc'[u] = pc[u] /\ rec'[u] = rec[u]
      /\ queue' = queue /\ task' = task /\ order' = order
  BY DEF PutInvoke, Goto, TypeOK
<1>2. \A u \in Servers : Held(u) => rec[u] # a
  BY <1>1 DEF TypeOK, Held
<1>3. \A b \in Backends : task[b] # a /\ \A i \in DOMAIN queue[b] : queue[b][i] # a
  BY <1>1 DEF OnceInv, NotFresh
<1>4. ServersApart'
  BY <1>1, <1>2 DEF OnceInv, ServersApart, Held
<1>5. ServersOnly'
  BY <1>1, <1>3 DEF OnceInv, ServersOnly, Held
<1>6. TasksApart' /\ QueuesApart' /\ TasksOnly' /\ NotFresh'
  BY <1>1 DEF OnceInv, TasksApart, QueuesApart, TasksOnly, NotFresh
<1>7. AllOrdered'
  BY <1>1 DEF OnceInv, AllOrdered, Ordered
<1> QED
  BY <1>4, <1>5, <1>6, <1>7 DEF OnceInv

LEMMA AppendOnce ==
    ASSUME TypeOK, OnceInv, NEW s \in Servers, AppendKV(s) \/ IndexRefuses(s)
    PROVE  OnceInv'
<1>1. /\ pc[s] # "idle" /\ pc'[s] # "push" /\ (pc'[s] # "idle" => rec'[s] = rec[s])
      /\ \A u \in Servers \ {s} : pc'[u] = pc[u] /\ rec'[u] = rec[u]
      /\ UNCHANGED <<fresh, queue, task, order>>
  BY DEF AppendKV, IndexRefuses, PutReturn, Goto, TypeOK
<1>2. \A a \in Addrs : Ordered(a) => Ordered(a)'
  BY <1>1 DEF Ordered
<1> QED
  BY <1>1, <1>2, WithinPutOnce DEF Held

\* The index takes the record, and remembers all it took before.
LEMMA IndexPutOnce ==
    ASSUME TypeOK, OnceInv, NEW s \in Servers, IndexPut(s)
    PROVE  OnceInv'
<1> DEFINE a == rec[s]
           k == KeyOf[a]
<1>1. /\ pc[s] = "index" /\ pc'[s] = "push" /\ rec' = rec
      /\ \A u \in Servers \ {s} : pc'[u] = pc[u]
      /\ order' = [order EXCEPT ![k] = Append(order[k], a)]
      /\ UNCHANGED <<fresh, queue, task>>
  BY DEF IndexPut, Goto, TypeOK
<1>2. a \in Addrs /\ k \in Keys /\ order[k] \in Seq(Addrs)
  BY <1>1, RecordAssumption DEF TypeOK
<1>3. \A j \in Keys : order'[j] = IF j = k THEN Append(order[k], a) ELSE order[j]
  BY <1>1, <1>2 DEF TypeOK
<1>4. /\ \A i \in DOMAIN order[k] : i \in DOMAIN Append(order[k], a)
                                    /\ Append(order[k], a)[i] = order[k][i]
      /\ Len(order[k]) + 1 \in DOMAIN Append(order[k], a)
      /\ Append(order[k], a)[Len(order[k]) + 1] = a
  <2>1. ASSUME NEW q \in Seq(Addrs)
        PROVE  /\ DOMAIN q = 1 .. Len(q) /\ Len(q) \in Nat
               /\ DOMAIN Append(q, a) = 1 .. Len(q) + 1
               /\ \A i \in 1 .. Len(q) : Append(q, a)[i] = q[i]
               /\ Append(q, a)[Len(q) + 1] = a
    BY <1>2, AppendProperties
  <2> QED
    BY <1>2, <2>1
<1>5. ASSUME NEW c \in Addrs, Ordered(c) PROVE Ordered(c)'
  <2>1. KeyOf[c] \in Keys
    BY RecordAssumption
  <2>2. PICK i \in DOMAIN order[KeyOf[c]] : order[KeyOf[c]][i] = c
    BY <1>5 DEF Ordered
  <2>3. i \in DOMAIN order'[KeyOf[c]] /\ order'[KeyOf[c]][i] = c
    BY <1>3, <1>4, <2>1, <2>2
  <2> QED
    BY <2>3 DEF Ordered
<1>6. Ordered(rec[s])'
  <2>1. Len(order[k]) + 1 \in DOMAIN order'[k] /\ order'[k][Len(order[k]) + 1] = a
    BY <1>2, <1>3, <1>4
  <2> QED
    BY <1>1, <2>1 DEF Ordered
<1> QED
  BY <1>1, <1>5, <1>6, WithinPutOnce DEF Held

(***************************************************************************)
(* The record goes from the server to the end of a queue.                  *)
(***************************************************************************)
LEMMA PushTaskOnce ==
    ASSUME TypeOK, OnceInv, NEW s \in Servers, PushTask(s)
    PROVE  OnceInv'
<1> DEFINE a == rec[s]
<1>1. PICK b \in Backends : queue' = [queue EXCEPT ![b] = Append(queue[b], a)]
  BY DEF PushTask
<1>2. /\ pc[s] = "push" /\ pc'[s] = "idle"
      /\ \A u \in Servers \ {s} : pc'[u] = pc[u] /\ rec'[u] = rec[u]
      /\ UNCHANGED <<fresh, task, order>>
  BY DEF PushTask, PutReturn, Goto, TypeOK
<1>3. a \in Addrs /\ a # NoAddr /\ a \notin fresh /\ queue[b] \in Seq(Addrs) /\ Ordered(a)
  BY <1>2, RecordAssumption DEF TypeOK, OnceInv, AllOrdered
<1>4. ASSUME NEW c \in Backends, NEW i \in DOMAIN queue'[c]
      PROVE  \/ i \in DOMAIN queue[c] /\ queue'[c][i] = queue[c][i]
             \/ c = b /\ i = Len(queue[b]) + 1 /\ queue'[c][i] = a
  <2>1. CASE c = b
    <3>1. queue'[c] = Append(queue[b], a)
      BY <1>1, <2>1 DEF TypeOK
    <3>2. i \in 1 .. Len(queue[b]) + 1
      BY <1>3, <1>4, <3>1, AppendProperties
    <3>3. i \in 1 .. Len(queue[b]) \/ i = Len(queue[b]) + 1
      BY <1>3, <3>2
    <3> QED
      BY <1>3, <2>1, <3>1, <3>3, AppendProperties
  <2>2. CASE c # b
    BY <1>1, <1>4, <2>2 DEF TypeOK
  <2> QED
    BY <2>1, <2>2
<1>5. \A c \in Backends : task[c] # a /\ \A i \in DOMAIN queue[c] : queue[c][i] # a
  BY <1>2 DEF OnceInv, ServersOnly, Held
<1>6. \A u \in Servers : Held(u)' => u # s /\ Held(u) /\ rec'[u] = rec[u] /\ rec[u] # a
  BY <1>2 DEF OnceInv, ServersApart, Held
<1>7. ServersApart' /\ TasksApart'
  BY <1>2, <1>6 DEF OnceInv, ServersApart, TasksApart
<1>8. QueuesApart'
  BY <1>4, <1>5 DEF OnceInv, QueuesApart
<1>9. ServersOnly'
  BY <1>2, <1>4, <1>6 DEF OnceInv, ServersOnly
<1>10. TasksOnly' /\ NotFresh'
  BY <1>2, <1>3, <1>4, <1>5 DEF OnceInv, TasksOnly, NotFresh
<1>11. AllOrdered'
  <2>1. \A u \in Servers : pc'[u] = "push" => Ordered(rec'[u])
    BY <1>2 DEF OnceInv, AllOrdered
  <2>2. \A c \in Backends : /\ task[c] # NoAddr => Ordered(task[c])
                            /\ \A i \in DOMAIN queue'[c] : Ordered(queue'[c][i])
    BY <1>3, <1>4 DEF OnceInv, AllOrdered
  <2> QED
    BY <1>2, <2>1, <2>2 DEF AllOrdered, Ordered
<1> QED
  BY <1>7, <1>8, <1>9, <1>10, <1>11 DEF OnceInv

(***************************************************************************)
(* The record goes from the head of a queue to the backend.                *)
(***************************************************************************)
LEMMA PopTaskOnce ==
    ASSUME TypeOK, OnceInv, NEW b \in Backends, PopTask(b)
    PROVE  OnceInv'
<1> DEFINE a == Head(queue[b])
<1>1. /\ task[b] = NoAddr /\ queue[b] # <<>> /\ queue[b] \in Seq(Addrs)
      /\ \A c \in Backends : /\ task'[c] = (IF c = b THEN a ELSE task[c])
                             /\ queue'[c] = (IF c = b THEN Tail(queue[b]) ELSE queue[c])
      /\ UNCHANGED <<fresh, pc, rec, order>>
  BY DEF PopTask, TypeOK
<1>2. a = queue[b][1] /\ 1 \in DOMAIN queue[b]
  BY <1>1
<1>3. ASSUME NEW c \in Backends, NEW i \in DOMAIN queue'[c]
      PROVE  \/ c = b /\ i \in Nat /\ i + 1 \in DOMAIN queue[b] /\ i + 1 # 1
                /\ queue'[c][i] = queue[b][i + 1]
             \/ c # b /\ i \in DOMAIN queue[c] /\ queue'[c][i] = queue[c][i]
  <2>1. CASE c = b
    <3>1. queue'[c] = Tail(queue[b])
      BY <1>1, <2>1
    <3>2. i \in Nat \ {0}
      BY <1>1, <1>3, <3>1
    <3>3. i + 1 \in DOMAIN queue[b] /\ queue'[c][i] = queue[b][i + 1]
      BY <1>1, <1>3, <3>1, TailAt
    <3> QED
      BY <2>1, <3>2, <3>3
  <2>2. CASE c # b
    BY <1>1, <1>3, <2>2
  <2> QED
    BY <2>1, <2>2
<1>4. \A c \in Backends : task[c] # NoAddr => task[c] # a
  BY <1>2 DEF OnceInv, TasksOnly
<1>5. \A c \in Backends : \A i \in DOMAIN queue'[c] : queue'[c][i] # a
  BY <1>2, <1>3 DEF OnceInv, QueuesApart
<1>6. ServersApart' /\ TasksApart'
  BY <1>1, <1>4 DEF OnceInv, ServersApart, TasksApart, Held
<1>7. QueuesApart'
  BY <1>3 DEF OnceInv, QueuesApart
<1>8. ServersOnly'
  BY <1>1, <1>2, <1>3 DEF OnceInv, ServersOnly, Held
<1>9. TasksOnly'
  BY <1>1, <1>3, <1>5 DEF OnceInv, TasksOnly
<1>10. NotFresh'
  BY <1>1, <1>2, <1>3 DEF OnceInv, NotFresh
<1>11. AllOrdered'
  <2>1. \A c \in Backends : /\ task'[c] # NoAddr => Ordered(task'[c])
                            /\ \A i \in DOMAIN queue'[c] : Ordered(queue'[c][i])
    BY <1>1, <1>2, <1>3 DEF OnceInv, AllOrdered
  <2>2. \A s \in Servers : pc[s] = "push" => Ordered(rec[s])
    BY DEF OnceInv, AllOrdered
  <2> QED
    BY <1>1, <2>1, <2>2 DEF AllOrdered, Ordered
<1> QED
  BY <1>6, <1>7, <1>8, <1>9, <1>10, <1>11 DEF OnceInv

LEMMA TaskAppliedOnce ==
    ASSUME TypeOK, OnceInv, NEW b \in Backends, ApplyTask(b)
    PROVE  OnceInv'
<1>1. /\ \A c \in Backends : task'[c] = IF c = b THEN NoAddr ELSE task[c]
      /\ NoAddr \notin fresh /\ \A s \in Servers : Held(s) => rec[s] # NoAddr
      /\ UNCHANGED <<fresh, pc, rec, queue, order>>
  BY RecordAssumption DEF ApplyTask, TypeOK, Held
<1>2. ServersApart' /\ TasksApart' /\ QueuesApart' /\ TasksOnly' /\ NotFresh'
  BY <1>1 DEF OnceInv, ServersApart, TasksApart, QueuesApart, TasksOnly, NotFresh, Held
<1>3. ServersOnly'
  BY <1>1 DEF OnceInv, ServersOnly, Held
<1>4. AllOrdered'
  BY <1>1 DEF OnceInv, AllOrdered, Ordered
<1> QED
  BY <1>2, <1>3, <1>4 DEF OnceInv

LEMMA NextOnceInv == TypeOK /\ OnceInv /\ [Next]_vars => OnceInv'
<1> SUFFICES ASSUME TypeOK, OnceInv, [Next]_vars PROVE OnceInv'
  OBVIOUS
<1>1. CASE UNCHANGED vars
  BY <1>1 DEF vars, OnceInv, ServersApart, TasksApart, QueuesApart, ServersOnly, TasksOnly,
              NotFresh, AllOrdered, Ordered, Held
<1>2. ASSUME NEW s \in Servers, ServerStep(s) PROVE OnceInv'
  BY <1>2, AppendOnce, IndexPutOnce, PushTaskOnce DEF ServerStep
<1>3. ASSUME NEW b \in Backends, BackendStep(b) PROVE OnceInv'
  BY <1>3, PopTaskOnce, TaskAppliedOnce DEF BackendStep
<1> QED
  BY <1>1, <1>2, <1>3, PutInvokeOnce DEF Next

-----------------------------------------------------------------------------
\* Places that hold nothing but one record are one place.
LEMMA OnePlace ==
    ASSUME TypeOK, OnceInv, NEW a \in Addrs
    PROVE  /\ \A p, q \in Places(a) : p = q
           /\ Places(a) # {} => Ordered(a)
<1> DEFINE PushPlace(p) == \E s \in Servers : pc[s] = "push" /\ rec[s] = a /\ p = <<"push", s>>
           TaskPlace(p) == \E b \in Backends : task[b] = a /\ p = <<"task", b>>
           QueuePlace(p) == \E b \in Backends : \E i \in DOMAIN queue[b] :
                               queue[b][i] = a /\ p = <<"queue", b, i>>
<1>1. \A p \in Places(a) : PushPlace(p) \/ TaskPlace(p) \/ QueuePlace(p)
  BY DEF Places
<1>2. a # NoAddr
  BY RecordAssumption
<1>3. ASSUME NEW p, NEW q, PushPlace(p) PROVE /\ PushPlace(q) => p = q
                                              /\ ~TaskPlace(q) /\ ~QueuePlace(q)
                                              /\ Ordered(a)
  BY <1>3 DEF OnceInv, ServersApart, ServersOnly, AllOrdered, Held
<1>4. ASSUME NEW p, NEW q, TaskPlace(p) PROVE /\ TaskPlace(q) => p = q
                                              /\ ~QueuePlace(q)
                                              /\ Ordered(a)
  BY <1>2, <1>4 DEF OnceInv, TasksApart, TasksOnly, AllOrdered
<1>5. ASSUME NEW p, NEW q, QueuePlace(p) PROVE /\ QueuePlace(q) => p = q
                                               /\ Ordered(a)
  BY <1>5 DEF OnceInv, QueuesApart, AllOrdered
<1> HIDE DEF PushPlace, TaskPlace, QueuePlace
<1> QED
  BY <1>1, <1>3, <1>4, <1>5

(***************************************************************************)
(* An accepted put is passed on once (hikv.cc:65-68 and 23-27): no step    *)
(* doubles its record between the server, the queue and the backend.       *)
(***************************************************************************)
THEOREM TaskOnceHolds == Spec => []TaskOnce
<1>1. TypeOK /\ OnceInv => TaskOnce
  BY OnePlace DEF TaskOnce, Ordered
<1> QED
  BY <1>1, TypeCorrect, InitOnceInv, NextOnceInv, PTL DEF Spec

-----------------------------------------------------------------------------
(* The order of a key's records *)

\* a is the record of k that the index had when it accepted b.
Succ(k, a, b) ==
    \E i \in DOMAIN order[k] :
        /\ order[k][i] = b
        /\ IF i = 1 THEN a = NoAddr ELSE a = order[k][i - 1]

NoneBetween(q, k, i, j) == \A l \in DOMAIN q : i < l /\ l < j => KeyOf[q[l]] # k

\* The first record of k in q follows e, and each other one the record of k
\* before it.
FirstFollows(q, k, e) ==
    \A i \in DOMAIN q : KeyOf[q[i]] = k /\ NoneBetween(q, k, 0, i) => Succ(k, e, q[i])

RestFollows(q, k) ==
    \A i, j \in DOMAIN q :
        i < j /\ KeyOf[q[i]] = k /\ KeyOf[q[j]] = k /\ NoneBetween(q, k, i, j)
            => Succ(k, q[i], q[j])

\* b follows the last record of k in q, or e if q has none.
FollowsLast(q, k, e, b) ==
    IF HasKey(q, k) THEN \A c \in Addrs : LastIs(q, k, c) => Succ(k, c, b)
    ELSE Succ(k, e, b)

LEMMA AppendFollows ==
    ASSUME NEW q \in Seq(Addrs), NEW a \in Addrs, NEW k \in Keys, NEW e,
           FirstFollows(q, k, e), RestFollows(q, k),
           KeyOf[a] = k => FollowsLast(q, k, e, a)
    PROVE  /\ FirstFollows(Append(q, a), k, e)
           /\ RestFollows(Append(q, a), k)
           /\ KeyOf[a] # k => \A c \in Addrs : LastIs(Append(q, a), k, c) => LastIs(q, k, c)
<1> DEFINE r == Append(q, a)
<1>1. /\ DOMAIN q = 1 .. Len(q)
      /\ DOMAIN r = 1 .. Len(q) + 1
      /\ Len(q) \in Nat
      /\ r[Len(q) + 1] = a
      /\ \A i \in 1 .. Len(q) : r[i] = q[i] /\ q[i] \in Addrs
  OBVIOUS
<1> HIDE DEF r
<1>2. \A i \in DOMAIN r : i \in DOMAIN q \/ i = Len(q) + 1
  BY <1>1
<1>3. FirstFollows(r, k, e)
  <2> SUFFICES ASSUME NEW i \in DOMAIN r, KeyOf[r[i]] = k, NoneBetween(r, k, 0, i)
               PROVE  Succ(k, e, r[i])
    BY DEF FirstFollows
  <2>1. CASE i \in DOMAIN q
    <3>1. NoneBetween(q, k, 0, i)
      BY <1>1 DEF NoneBetween
    <3> QED
      BY <1>1, <2>1, <3>1 DEF FirstFollows
  <2>2. CASE i = Len(q) + 1
    <3>1. ~HasKey(q, k)
      BY <1>1, <2>2 DEF HasKey, NoneBetween
    <3> QED
      BY <1>1, <2>2, <3>1 DEF FollowsLast
  <2> QED
    BY <1>2, <2>1, <2>2
<1>4. RestFollows(r, k)
  <2> SUFFICES ASSUME NEW i \in DOMAIN r, NEW j \in DOMAIN r, i < j,
                      KeyOf[r[i]] = k, KeyOf[r[j]] = k, NoneBetween(r, k, i, j)
               PROVE  Succ(k, r[i], r[j])
    BY DEF RestFollows
  <2>1. i \in DOMAIN q /\ r[i] = q[i] /\ q[i] \in Addrs
    BY <1>1
  <2>2. CASE j \in DOMAIN q
    <3>1. NoneBetween(q, k, i, j)
      BY <1>1 DEF NoneBetween
    <3> QED
      BY <1>1, <2>1, <2>2, <3>1 DEF RestFollows
  <2>3. CASE j = Len(q) + 1
    <3>1. HasKey(q, k) /\ LastIs(q, k, q[i])
      BY <1>1, <2>1, <2>3 DEF HasKey, LastIs, NoneBetween
    <3> QED
      BY <1>1, <2>1, <2>3, <3>1 DEF FollowsLast
  <2> QED
    BY <1>2, <2>2, <2>3
<1>5. ASSUME KeyOf[a] # k, NEW c \in Addrs, LastIs(r, k, c) PROVE LastIs(q, k, c)
  <2>1. PICK i \in DOMAIN r : /\ r[i] = c
                              /\ KeyOf[c] = k
                              /\ \A j \in DOMAIN r : j > i => KeyOf[r[j]] # k
    BY <1>5 DEF LastIs
  <2>2. i \in DOMAIN q /\ q[i] = c
    BY <1>1, <1>5, <2>1
  <2>3. \A j \in DOMAIN q : j \in DOMAIN r /\ r[j] = q[j]
    BY <1>1
  <2> QED
    BY <2>1, <2>2, <2>3 DEF LastIs
<1> QED
  BY <1>3, <1>4, <1>5 DEF r

LEMMA TailFollows ==
    ASSUME NEW q \in Seq(Addrs), q # <<>>, NEW k \in Keys, NEW e,
           FirstFollows(q, k, e), RestFollows(q, k)
    PROVE  /\ KeyOf[Head(q)] = k => Succ(k, e, Head(q))
           /\ FirstFollows(Tail(q), k, IF KeyOf[Head(q)] = k THEN Head(q) ELSE e)
           /\ RestFollows(Tail(q), k)
           /\ \A c \in Addrs : LastIs(Tail(q), k, c) => LastIs(q, k, c)
           /\ HasKey(q, k) /\ ~HasKey(Tail(q), k) => LastIs(q, k, Head(q))
<1> DEFINE r == Tail(q)
<1>1. /\ DOMAIN q = 1 .. Len(q)
      /\ DOMAIN r = 1 .. Len(q) - 1
      /\ Len(q) \in Nat \ {0}
      /\ Head(q) = q[1]
      /\ \A i \in 1 .. Len(q) - 1 : r[i] = q[i + 1]
  OBVIOUS
<1> HIDE DEF r
<1>2. KeyOf[Head(q)] = k => Succ(k, e, Head(q))
  <2>1. 1 \in DOMAIN q /\ NoneBetween(q, k, 0, 1)
    BY <1>1 DEF NoneBetween
  <2> QED
    BY <1>1, <2>1 DEF FirstFollows
<1>3. \A i, j \in DOMAIN r : NoneBetween(r, k, i, j) => NoneBetween(q, k, i + 1, j + 1)
  <2> SUFFICES ASSUME NEW i \in DOMAIN r, NEW j \in DOMAIN r, NoneBetween(r, k, i, j),
                      NEW l \in DOMAIN q, i + 1 < l, l < j + 1
               PROVE  KeyOf[q[l]] # k
    BY DEF NoneBetween
  <2>1. l - 1 \in DOMAIN r /\ r[l - 1] = q[l] /\ i < l - 1 /\ l - 1 < j
    BY <1>1
  <2> QED
    BY <2>1 DEF NoneBetween
<1>4. FirstFollows(r, k, IF KeyOf[Head(q)] = k THEN Head(q) ELSE e)
  <2> SUFFICES ASSUME NEW i \in DOMAIN r, KeyOf[r[i]] = k, NoneBetween(r, k, 0, i)
               PROVE  Succ(k, IF KeyOf[Head(q)] = k THEN Head(q) ELSE e, r[i])
    BY DEF FirstFollows
  <2>1. i + 1 \in DOMAIN q /\ 1 \in DOMAIN q /\ 1 < i + 1 /\ r[i] = q[i + 1]
    BY <1>1
  <2>2. NoneBetween(q, k, 1, i + 1)
    <3> SUFFICES ASSUME NEW l \in DOMAIN q, 1 < l, l < i + 1 PROVE KeyOf[q[l]] # k
      BY DEF NoneBetween
    <3>1. l - 1 \in DOMAIN r /\ r[l - 1] = q[l] /\ 0 < l - 1 /\ l - 1 < i
      BY <1>1
    <3> QED
      BY <3>1 DEF NoneBetween
  <2>3. CASE KeyOf[Head(q)] = k
    BY <1>1, <2>1, <2>2, <2>3 DEF RestFollows
  <2>4. CASE KeyOf[Head(q)] # k
    <3>1. NoneBetween(q, k, 0, i + 1)
      BY <1>1, <2>2, <2>4 DEF NoneBetween
    <3> QED
      BY <2>1, <2>4, <3>1 DEF FirstFollows
  <2> QED
    BY <2>3, <2>4
<1>5. RestFollows(r, k)
  <2> SUFFICES ASSUME NEW i \in DOMAIN r, NEW j \in DOMAIN r, i < j,
                      KeyOf[r[i]] = k, KeyOf[r[j]] = k, NoneBetween(r, k, i, j)
               PROVE  Succ(k, r[i], r[j])
    BY DEF RestFollows
  <2>1. /\ i + 1 \in DOMAIN q /\ j + 1 \in DOMAIN q /\ i + 1 < j + 1
        /\ r[i] = q[i + 1] /\ r[j] = q[j + 1]
    BY <1>1
  <2> QED
    BY <1>3, <2>1 DEF RestFollows
<1>6. ASSUME NEW c \in Addrs, LastIs(r, k, c) PROVE LastIs(q, k, c)
  <2>1. PICK i \in DOMAIN r : /\ r[i] = c
                              /\ KeyOf[c] = k
                              /\ \A j \in DOMAIN r : j > i => KeyOf[r[j]] # k
    BY <1>6 DEF LastIs
  <2>2. i + 1 \in DOMAIN q /\ q[i + 1] = c
    BY <1>1, <2>1
  <2>3. ASSUME NEW j \in DOMAIN q, j > i + 1 PROVE KeyOf[q[j]] # k
    <3>1. j - 1 \in DOMAIN r /\ j - 1 > i /\ r[j - 1] = q[j]
      BY <1>1, <2>3
    <3> QED
      BY <2>1, <3>1
  <2> QED
    BY <2>1, <2>2, <2>3 DEF LastIs
<1>7. ASSUME HasKey(q, k), ~HasKey(r, k) PROVE LastIs(q, k, Head(q))
  <2>1. ASSUME NEW j \in DOMAIN q, j > 1 PROVE KeyOf[q[j]] # k
    <3>1. j - 1 \in DOMAIN r /\ r[j - 1] = q[j]
      BY <1>1, <2>1
    <3> QED
      BY <1>7, <3>1 DEF HasKey
  <2>2. 1 \in DOMAIN q /\ KeyOf[q[1]] = k
    BY <1>1, <1>7, <2>1 DEF HasKey
  <2> QED
    BY <1>1, <2>1, <2>2 DEF LastIs
<1> QED
  BY <1>2, <1>4, <1>5, <1>6, <1>7 DEF r

(***************************************************************************)
(* The inductive invariant: the index has the record it accepted last, and *)
(* along the way of a one-writer key's records to the tree, each follows   *)
(* the one before it in the order of the index.                            *)
(***************************************************************************)
Entry(k) == IF TasksKey(k) THEN task[QueueOf[k]] ELSE tree[k]

Follows(k) ==
    /\ TasksKey(k) => Succ(k, tree[k], task[QueueOf[k]])
    /\ FirstFollows(queue[QueueOf[k]], k, Entry(k))
    /\ RestFollows(queue[QueueOf[k]], k)
    /\ \A s \in Servers : pc[s] = "push" /\ KeyOf[rec[s]] = k =>
          FollowsLast(queue[QueueOf[k]], k, Entry(k), rec[s])

IndexIsLast ==
    \A k \in Keys : table[k] = IF order[k] = <<>> THEN NoAddr ELSE order[k][Len(order[k])]

FollowInv == IndexIsLast /\ \A k \in Keys : OneWriter(k) => Follows(k)

LEMMA InitFollowInv == Init => FollowInv
<1> SUFFICES ASSUME Init PROVE FollowInv
  OBVIOUS
<1>1. \A b \in Backends : queue[b] = <<>> /\ task[b] = NoAddr
  BY DEF Init
<1>2. \A s \in Servers : pc[s] = "idle"
  BY DEF Init
<1>3. IndexIsLast
  BY DEF Init, IndexIsLast
<1>4. ASSUME NEW k \in Keys PROVE Follows(k)
  <2>1. QueueOf[k] \in Backends
    BY PlacementAssumption
  <2>2. ~TasksKey(k) /\ \A i \in DOMAIN queue[QueueOf[k]] : FALSE
    BY <1>1, <2>1 DEF TasksKey
  <2> QED
    BY <1>2, <2>2 DEF Follows, FirstFollows, RestFollows
<1> QED
  BY <1>3, <1>4 DEF FollowInv

\* A record never loses the one it follows.
LEMMA SameOrderSameSucc ==
    ASSUME UNCHANGED order
    PROVE  /\ \A k, a, b : Succ(k, a, b)' <=> Succ(k, a, b)
           /\ \A q, k, e : FirstFollows(q, k, e)' <=> FirstFollows(q, k, e)
           /\ \A q, k : RestFollows(q, k)' <=> RestFollows(q, k)
           /\ \A q, k, e, b : FollowsLast(q, k, e, b)' <=> FollowsLast(q, k, e, b)
  BY DEF Succ, FirstFollows, RestFollows, FollowsLast

\* A step that moves no task and makes no server push.
LEMMA OtherStepFollows ==
    ASSUME FollowInv, UNCHANGED <<table, queue, task, tree, order>>,
           \A s \in Servers : pc'[s] = "push" => pc[s] = "push" /\ rec'[s] = rec[s]
    PROVE  FollowInv'
<1>1. IndexIsLast'
  BY DEF FollowInv, IndexIsLast
<1>2. ASSUME NEW k \in Keys, OneWriter(k) PROVE Follows(k)'
  <2>1. Entry(k)' = Entry(k) /\ TasksKey(k)' = TasksKey(k)
    BY DEF Entry, TasksKey
  <2>2. Follows(k)
    BY <1>2 DEF FollowInv
  <2>3. (TasksKey(k) => Succ(k, tree[k], task[QueueOf[k]]))'
    BY <2>1, <2>2, SameOrderSameSucc DEF Follows
  <2>4. FirstFollows(queue[QueueOf[k]], k, Entry(k))' /\ RestFollows(queue[QueueOf[k]], k)'
    BY <2>1, <2>2 DEF Follows, FirstFollows, RestFollows, Succ
  <2>5. (\A s \in Servers : pc[s] = "push" /\ KeyOf[rec[s]] = k =>
            FollowsLast(queue[QueueOf[k]], k, Entry(k), rec[s]))'
    BY <2>1, <2>2 DEF Follows, FollowsLast, Succ
  <2> QED
    BY <2>3, <2>4, <2>5 DEF Follows
<1> QED
  BY <1>1, <1>2 DEF FollowInv, OneWriter

\* The last record of a key in a queue is one record.
LEMMA LastIsUnique ==
    ASSUME NEW q \in Seq(Addrs), NEW k, NEW a, NEW c, LastIs(q, k, a), LastIs(q, k, c)
    PROVE  a = c
<1>1. PICK i \in DOMAIN q : q[i] = a /\ KeyOf[a] = k /\ \A j \in DOMAIN q : j > i => KeyOf[q[j]] # k
  BY DEF LastIs
<1>2. PICK l \in DOMAIN q : q[l] = c /\ KeyOf[c] = k /\ \A j \in DOMAIN q : j > l => KeyOf[q[j]] # k
  BY DEF LastIs
<1>3. i \in Nat /\ l \in Nat
  OBVIOUS
<1>4. i = l
  BY <1>1, <1>2, <1>3
<1> QED
  BY <1>1, <1>2, <1>4

LEMMA IndexPutFollows ==
    ASSUME TypeOK, AgreeInv, FollowInv, NEW s \in Servers, IndexPut(s)
    PROVE  FollowInv'
<1> PICK a \in Addrs : a = rec[s]
  BY DEF TypeOK, IndexPut
<1> PICK k0 \in Keys : k0 = KeyOf[a]
  BY RecordAssumption
<1> PICK old : old = table[k0]
  OBVIOUS
<1>1. /\ pc[s] = "index" /\ pc'[s] = "push" /\ rec' = rec
      /\ \A u \in Servers \ {s} : pc'[u] = pc[u]
      /\ UNCHANGED <<queue, task, tree>>
  BY DEF IndexPut, Goto, TypeOK
<1>2. order[k0] \in Seq(Addrs)
  BY DEF TypeOK
<1>3. /\ \A k \in Keys : order'[k] = IF k = k0 THEN Append(order[k0], a) ELSE order[k]
      /\ \A k \in Keys : table'[k] = IF k = k0 THEN a ELSE table[k]
  BY <1>2 DEF IndexPut, TypeOK
<1>4. /\ DOMAIN order[k0] = 1 .. Len(order[k0]) /\ Len(order[k0]) \in Nat
      /\ DOMAIN order'[k0] = 1 .. Len(order[k0]) + 1 /\ Len(order'[k0]) = Len(order[k0]) + 1
      /\ \A i \in 1 .. Len(order[k0]) : order'[k0][i] = order[k0][i]
      /\ order'[k0][Len(order[k0]) + 1] = a
      /\ order'[k0] # <<>>
  <2>1. order'[k0] = Append(order[k0], a)
    BY <1>2, <1>3
  <2>2. ASSUME NEW q \in Seq(Addrs)
        PROVE  /\ DOMAIN q = 1 .. Len(q) /\ Len(q) \in Nat
               /\ DOMAIN Append(q, a) = 1 .. Len(q) + 1
               /\ Len(Append(q, a)) = Len(q) + 1
               /\ \A i \in 1 .. Len(q) : Append(q, a)[i] = q[i]
               /\ Append(q, a)[Len(q) + 1] = a
               /\ Append(q, a) # <<>>
    BY AppendProperties
  <2> QED
    BY <1>2, <2>1, <2>2
<1>5. IndexIsLast'
  BY <1>3, <1>4 DEF FollowInv, IndexIsLast
<1>6. ASSUME NEW k \in Keys, NEW c, NEW d, Succ(k, c, d) PROVE Succ(k, c, d)'
  <2>1. CASE k # k0
    BY <1>3, <1>6, <2>1 DEF Succ
  <2>2. CASE k = k0
    <3>1. PICK i \in DOMAIN order[k0] :
             /\ order[k0][i] = d
             /\ IF i = 1 THEN c = NoAddr ELSE c = order[k0][i - 1]
      BY <1>6, <2>2 DEF Succ
    <3>2. i \in DOMAIN order'[k0] /\ (i # 1 => i - 1 \in 1 .. Len(order[k0]))
      BY <1>4
    <3>3. /\ order'[k0][i] = d
          /\ IF i = 1 THEN c = NoAddr ELSE c = order'[k0][i - 1]
      BY <1>4, <3>1, <3>2
    <3> QED
      BY <2>2, <3>2, <3>3 DEF Succ
  <2> QED
    BY <2>1, <2>2
<1>7. Succ(k0, old, a)'
  <2>1. Len(order[k0]) + 1 \in DOMAIN order'[k0]
    BY <1>4
  <2>2. CASE order[k0] = <<>>
    <3>1. old = NoAddr /\ Len(order[k0]) = 0
      BY <1>2, <2>2 DEF FollowInv, IndexIsLast
    <3> QED
      BY <1>4, <2>1, <3>1 DEF Succ
  <2>3. CASE order[k0] # <<>>
    <3>1. old = order'[k0][Len(order[k0])] /\ Len(order[k0]) # 0
      BY <1>2, <1>4, <2>3 DEF FollowInv, IndexIsLast
    <3>2. Len(order[k0]) + 1 # 1 /\ (Len(order[k0]) + 1) - 1 = Len(order[k0])
      BY <1>4, <3>1
    <3> QED
      BY <1>4, <2>1, <3>1, <3>2 DEF Succ
  <2> QED
    BY <2>2, <2>3
<1>8. ASSUME NEW k \in Keys, OneWriter(k) PROVE Follows(k)'
  <2> DEFINE q == queue[QueueOf[k]]
  <2>1. Entry(k)' = Entry(k) /\ TasksKey(k)' = TasksKey(k) /\ q' = q
    BY <1>1 DEF Entry, TasksKey
  <2>2. Follows(k) /\ KeyInv(k) /\ q \in Seq(Addrs)
    BY <1>8, PlacementAssumption DEF FollowInv, AgreeInv, TypeOK
  <2>3. (TasksKey(k) => Succ(k, tree[k], task[QueueOf[k]]))'
    BY <1>1, <1>6, <2>1, <2>2 DEF Follows
  <2>4. FirstFollows(q, k, Entry(k))' /\ RestFollows(q, k)'
    BY <1>6, <2>1, <2>2 DEF Follows, FirstFollows, RestFollows
  <2>5. ASSUME NEW u \in Servers, pc'[u] = "push", KeyOf[rec[u]] = k
        PROVE  FollowsLast(q, k, Entry(k), rec[u])'
    <3>1. CASE u # s
      BY <1>1, <1>6, <2>1, <2>2, <2>5, <3>1 DEF Follows, FollowsLast
    <3>2. CASE u = s
      <4>1. k = k0 /\ rec'[u] = a
        BY <1>1, <2>5, <3>2
      <4>2. ~PushesKey(k)
        <5>1. ASSUME NEW v \in Servers, pc[v] = "push", KeyOf[rec[v]] = k PROVE FALSE
          <6>1. s \in Writers[k] /\ v \in Writers[k] /\ v # s
            BY <1>1, <2>5, <3>2, <5>1 DEF AgreeInv, RightWriter
          <6> QED
            BY <1>8, <6>1 DEF OneWriter
        <5> QED
          BY <5>1 DEF PushesKey
      <4>3. IF HasKey(q, k) THEN LastIs(q, k, old) ELSE Entry(k) = old
        BY <1>8, <2>2, <4>1, <4>2 DEF KeyInv, FirstPlaceAgrees, Entry, QueuesKey
      <4>4. \A c \in Addrs : HasKey(q, k) /\ LastIs(q, k, c) => c = old
        BY <2>2, <4>3, LastIsUnique
      <4>5. \A c : c = old => Succ(k, c, rec[u])'
        BY <1>7, <4>1 DEF Succ
      <4> QED
        BY <2>1, <4>3, <4>4, <4>5 DEF FollowsLast, Succ
    <3> QED
      BY <3>1, <3>2
  <2> QED
    BY <1>1, <2>3, <2>4, <2>5 DEF Follows
<1> QED
  BY <1>5, <1>8 DEF FollowInv, OneWriter

\* Push, pop and apply: the order of the index stays as it is.
LEMMA PushTaskFollows ==
    ASSUME TypeOK, AgreeInv, FollowInv, NEW s \in Servers, PushTask(s)
    PROVE  FollowInv'
<1> PICK a \in Addrs : a = rec[s]
  BY DEF TypeOK, PushTask
<1> PICK b \in Backends : b = QueueOf[KeyOf[a]]
  BY RecordAssumption, PlacementAssumption
<1>1. /\ pc[s] = "push" /\ pc'[s] = "idle"
      /\ \A u \in Servers \ {s} : pc'[u] = pc[u] /\ rec'[u] = rec[u]
      /\ UNCHANGED <<table, task, tree, order>>
  BY DEF PushTask, PutReturn, Goto, TypeOK
<1>2. \A c \in Backends : queue'[c] = IF c = b THEN Append(queue[b], a) ELSE queue[c]
  BY DEF PushTask, QueueFor, TypeOK
<1>3. IndexIsLast'
  BY <1>1 DEF FollowInv, IndexIsLast
<1>4. ASSUME NEW k \in Keys, OneWriter(k) PROVE Follows(k)'
  <2> PICK e : e = Entry(k)
    OBVIOUS
  <2> PICK q \in Seq(Addrs) : q = queue[QueueOf[k]]
    BY PlacementAssumption DEF TypeOK
  <2> PICK r : r = queue'[QueueOf[k]]
    OBVIOUS
  <2>1. Entry(k)' = e /\ (TasksKey(k)' <=> TasksKey(k)) /\ QueueOf[k] \in Backends
    BY <1>1, PlacementAssumption DEF Entry, TasksKey
  <2>2. Follows(k)
    BY <1>4 DEF FollowInv
  <2>3. (TasksKey(k) => Succ(k, tree[k], task[QueueOf[k]]))'
    BY <1>1, <2>1, <2>2 DEF Follows, Succ
  <2>4. r = q \/ r = Append(q, a)
    BY <1>2, <2>1
  <2>5. KeyOf[a] = k => FollowsLast(q, k, e, a)
    BY <1>1, <2>2 DEF Follows
  <2>6. FirstFollows(r, k, e) /\ RestFollows(r, k)
    BY <2>2, <2>4, <2>5, AppendFollows DEF Follows
  <2>7. ASSUME NEW u \in Servers, pc'[u] = "push", KeyOf[rec'[u]] = k,
               NEW d, d = rec'[u]
        PROVE  FollowsLast(r, k, e, d)
    <3>1. u # s /\ pc[u] = "push" /\ rec[u] = d /\ KeyOf[d] = k
      BY <1>1, <2>7
    <3>2. KeyOf[a] # k
      <4>1. ASSUME KeyOf[a] = k PROVE FALSE
        <5>1. s \in Writers[k] /\ u \in Writers[k]
          BY <1>1, <3>1, <4>1 DEF AgreeInv, RightWriter
        <5> QED
          BY <1>4, <3>1, <5>1 DEF OneWriter
      <4> QED
        BY <4>1
    <3>3. FollowsLast(q, k, e, d)
      BY <2>2, <3>1 DEF Follows
    <3>4. CASE r = Append(q, a)
      <4>1. HasKey(r, k) <=> HasKey(q, k)
        BY <3>2, <3>4, AppendLast
      <4>2. \A c \in Addrs : LastIs(r, k, c) => LastIs(q, k, c)
        BY <2>2, <2>5, <3>2, <3>4, AppendFollows DEF Follows
      <4> QED
        BY <3>3, <4>1, <4>2 DEF FollowsLast
    <3> QED
      BY <2>4, <3>3, <3>4
  <2>8. FirstFollows(queue[QueueOf[k]], k, Entry(k))' /\ RestFollows(queue[QueueOf[k]], k)'
    BY <1>1, <2>1, <2>6, SameOrderSameSucc DEF FirstFollows, RestFollows, Succ
  <2>9. ASSUME NEW u \in Servers, pc'[u] = "push", KeyOf[rec'[u]] = k
        PROVE  FollowsLast(queue[QueueOf[k]], k, Entry(k), rec[u])'
    <3>1. FollowsLast(r, k, e, rec'[u])
      BY <2>7, <2>9
    <3> QED
      BY <1>1, <2>1, <3>1 DEF FollowsLast, Succ
  <2> QED
    BY <2>3, <2>8, <2>9 DEF Follows
<1> QED
  BY <1>3, <1>4 DEF FollowInv, OneWriter

LEMMA PopTaskFollows ==
    ASSUME TypeOK, AgreeInv, FollowInv, NEW b \in Backends, PopTask(b)
    PROVE  FollowInv'
<1>1. /\ task[b] = NoAddr /\ queue[b] # <<>> /\ queue[b] \in Seq(Addrs)
      /\ \A c \in Backends : /\ task'[c] = (IF c = b THEN Head(queue[b]) ELSE task[c])
                             /\ queue'[c] = (IF c = b THEN Tail(queue[b]) ELSE queue[c])
      /\ UNCHANGED <<pc, rec, table, tree, order>>
  BY DEF PopTask, TypeOK
<1>2. IndexIsLast'
  BY <1>1 DEF FollowInv, IndexIsLast
<1>3. ASSUME NEW k \in Keys, OneWriter(k) PROVE Follows(k)'
  <2> PICK e : e = Entry(k)
    OBVIOUS
  <2> PICK e1 : e1 = Entry(k)'
    OBVIOUS
  <2> PICK q \in Seq(Addrs) : q = queue[QueueOf[k]]
    BY PlacementAssumption DEF TypeOK
  <2> PICK r : r = queue'[QueueOf[k]]
    OBVIOUS
  <2>1. Follows(k) /\ QueueOf[k] \in Backends
    BY <1>3, PlacementAssumption DEF FollowInv
  <2>2. CASE QueueOf[k] # b
    <3>1. r = q /\ e1 = e /\ (TasksKey(k)' <=> TasksKey(k)) /\ task'[QueueOf[k]] = task[QueueOf[k]]
      BY <1>1, <2>1, <2>2 DEF Entry, TasksKey
    <3>2. (TasksKey(k) => Succ(k, tree[k], task[QueueOf[k]]))'
      BY <1>1, <2>1, <3>1 DEF Follows, Succ
    <3>3. FirstFollows(queue[QueueOf[k]], k, Entry(k))' /\ RestFollows(queue[QueueOf[k]], k)'
      BY <1>1, <2>1, <3>1 DEF Follows, FirstFollows, RestFollows, Succ
    <3>4. (\A s \in Servers : pc[s] = "push" /\ KeyOf[rec[s]] = k =>
              FollowsLast(queue[QueueOf[k]], k, Entry(k), rec[s]))'
      BY <1>1, <2>1, <3>1 DEF Follows, FollowsLast, Succ
    <3> QED
      BY <3>2, <3>3, <3>4 DEF Follows
  <2>3. CASE QueueOf[k] = b
    <3>1. /\ q # <<>> /\ r = Tail(q) /\ task'[QueueOf[k]] = Head(q)
          /\ ~TasksKey(k) /\ e = tree[k] /\ Head(q) \in Addrs /\ Head(q) # NoAddr
      BY <1>1, <2>1, <2>3, RecordAssumption DEF Entry, TasksKey
    <3>2. /\ TasksKey(k)' <=> KeyOf[Head(q)] = k
          /\ e1 = IF KeyOf[Head(q)] = k THEN Head(q) ELSE e
      BY <1>1, <3>1 DEF Entry, TasksKey
    <3>3. /\ KeyOf[Head(q)] = k => Succ(k, e, Head(q))
          /\ FirstFollows(r, k, e1) /\ RestFollows(r, k)
          /\ \A c \in Addrs : LastIs(r, k, c) => LastIs(q, k, c)
          /\ HasKey(q, k) /\ ~HasKey(r, k) => LastIs(q, k, Head(q))
      BY <2>1, <3>1, <3>2, TailFollows DEF Follows
    <3>4. HasKey(q, k) <=> KeyOf[Head(q)] = k \/ HasKey(r, k)
      BY <3>1, TailLast
    <3>5. (TasksKey(k) => Succ(k, tree[k], task[QueueOf[k]]))'
      BY <1>1, <3>1, <3>2, <3>3 DEF Succ
    <3>6. FirstFollows(queue[QueueOf[k]], k, Entry(k))' /\ RestFollows(queue[QueueOf[k]], k)'
      BY <1>1, <3>3 DEF FirstFollows, RestFollows, Succ
    <3>7. ASSUME NEW u \in Servers, pc'[u] = "push", KeyOf[rec'[u]] = k
          PROVE  FollowsLast(queue[QueueOf[k]], k, Entry(k), rec[u])'
      <4>1. FollowsLast(q, k, e, rec[u])
        BY <1>1, <2>1, <3>7 DEF Follows
      <4>2. FollowsLast(r, k, e1, rec[u])
        <5>1. CASE HasKey(r, k)
          BY <3>3, <3>4, <4>1, <5>1 DEF FollowsLast
        <5>2. CASE ~HasKey(r, k) /\ KeyOf[Head(q)] = k
          BY <3>1, <3>2, <3>3, <3>4, <4>1, <5>2 DEF FollowsLast
        <5>3. CASE ~HasKey(r, k) /\ KeyOf[Head(q)] # k
          BY <3>2, <3>4, <4>1, <5>3 DEF FollowsLast
        <5> QED
          BY <5>1, <5>2, <5>3
      <4> QED
        BY <1>1, <4>2 DEF FollowsLast, Succ
    <3> QED
      BY <3>5, <3>6, <3>7 DEF Follows
  <2> QED
    BY <2>2, <2>3
<1> QED
  BY <1>2, <1>3 DEF FollowInv, OneWriter

LEMMA ApplyTaskFollows ==
    ASSUME TypeOK, AgreeInv, FollowInv, NEW b \in Backends, ApplyTask(b)
    PROVE  FollowInv'
<1>1. /\ task[b] # NoAddr /\ KeyOf[task[b]] \in Keys /\ QueueOf[KeyOf[task[b]]] = b
      /\ \A c \in Backends : task'[c] = IF c = b THEN NoAddr ELSE task[c]
      /\ \A k \in Keys : tree'[k] = IF k = KeyOf[task[b]] THEN task[b] ELSE tree[k]
      /\ UNCHANGED <<pc, rec, table, queue, order>>
  BY RecordAssumption DEF ApplyTask, TypeOK, AgreeInv, RightQueue
<1>2. IndexIsLast'
  BY <1>1 DEF FollowInv, IndexIsLast
<1>3. ASSUME NEW k \in Keys, OneWriter(k) PROVE Follows(k)'
  <2>1. Follows(k) /\ QueueOf[k] \in Backends
    BY <1>3, PlacementAssumption DEF FollowInv
  <2>2. /\ Entry(k)' = Entry(k)
        /\ TasksKey(k)' => TasksKey(k) /\ UNCHANGED <<tree[k], task[QueueOf[k]]>>
    BY <1>1, <2>1 DEF Entry, TasksKey
  <2>3. (TasksKey(k) => Succ(k, tree[k], task[QueueOf[k]]))'
    BY <1>1, <2>1, <2>2 DEF Follows, Succ
  <2>4. FirstFollows(queue[QueueOf[k]], k, Entry(k))' /\ RestFollows(queue[QueueOf[k]], k)'
    BY <1>1, <2>1, <2>2 DEF Follows, FirstFollows, RestFollows, Succ
  <2>5. (\A s \in Servers : pc[s] = "push" /\ KeyOf[rec[s]] = k =>
            FollowsLast(queue[QueueOf[k]], k, Entry(k), rec[s]))'
    BY <1>1, <2>1, <2>2 DEF Follows, FollowsLast, Succ
  <2> QED
    BY <2>3, <2>4, <2>5 DEF Follows
<1> QED
  BY <1>2, <1>3 DEF FollowInv, OneWriter

LEMMA NextFollowInv == TypeOK /\ AgreeInv /\ FollowInv /\ [Next]_vars => FollowInv'
<1> SUFFICES ASSUME TypeOK, AgreeInv, FollowInv, [Next]_vars PROVE FollowInv'
  OBVIOUS
<1>1. CASE UNCHANGED vars
  BY <1>1, OtherStepFollows DEF vars
<1>2. ASSUME NEW s \in Servers, NEW a \in Addrs, PutInvoke(s, a) PROVE FollowInv'
  BY <1>2, OtherStepFollows DEF PutInvoke, Goto, TypeOK
<1>3. ASSUME NEW s \in Servers, AppendKV(s) \/ IndexRefuses(s) PROVE FollowInv'
  BY <1>3, OtherStepFollows DEF AppendKV, IndexRefuses, PutReturn, Goto, TypeOK
<1> QED
  BY <1>1, <1>2, <1>3, IndexPutFollows, PushTaskFollows, PopTaskFollows, ApplyTaskFollows
     DEF Next, ServerStep, BackendStep

(***************************************************************************)
(* The tree of a key that one server writes never skips a record of the    *)
(* index nor goes back to an earlier one: its tasks share one queue        *)
(* (hikv.cc:68) and one backend thread (hikv.cc:23-28).                    *)
(***************************************************************************)
THEOREM TreeFollowsIndexHolds == Spec => TreeFollowsIndex
<1> DEFINE Follow == \A k \in Keys : OneWriter(k) /\ tree'[k] # tree[k] =>
              \E i \in DOMAIN order[k] :
                  /\ order[k][i] = tree'[k]
                  /\ IF i = 1 THEN tree[k] = NoAddr ELSE tree[k] = order[k][i - 1]
<1>1. ASSUME TypeOK, AgreeInv, FollowInv, [Next]_vars PROVE [Follow]_vars
  <2> SUFFICES ASSUME NEW k \in Keys, OneWriter(k), tree'[k] # tree[k]
               PROVE  Succ(k, tree[k], tree'[k])
    BY DEF Succ
  <2>1. PICK b \in Backends : ApplyTask(b)
    BY <1>1 DEF Next, ServerStep, BackendStep, PutInvoke, AppendKV, IndexPut, IndexRefuses,
                PushTask, PopTask, vars
  <2>2. /\ task[b] # NoAddr /\ KeyOf[task[b]] = k /\ tree'[k] = task[b]
        /\ QueueOf[KeyOf[task[b]]] = b
    BY <1>1, <2>1 DEF ApplyTask, TypeOK, AgreeInv, RightQueue
  <2> QED
    BY <1>1, <2>2 DEF FollowInv, Follows, TasksKey
<1>2. Spec => [](TypeOK /\ AgreeInv /\ FollowInv)
  <2>1. TypeOK /\ AgreeInv /\ FollowInv /\ [Next]_vars => FollowInv'
    BY NextFollowInv
  <2> QED
    BY <2>1, AgreeInvAlways, InitFollowInv, PTL DEF Spec
<1> QED
  BY <1>1, <1>2, PTL DEF Spec, TreeFollowsIndex

=============================================================================
