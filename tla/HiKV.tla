--------------------------------- MODULE HiKV ---------------------------------
(***************************************************************************)
(* The key-value store of hikv/hikv.cc: server threads write through the   *)
(* persistent log and the hash index, and hand every accepted put to a     *)
(* queue; detached backend threads drain the queues into the B+-tree.      *)
(*                                                                         *)
(* The hash index and the tree are used through what HashTableRefinement   *)
(* and BPTreeRefinement show of them: a Put takes effect in one step, and  *)
(* the index refuses it only when the key is new and its bucket is full.   *)
(***************************************************************************)
EXTENDS Integers, Sequences, FiniteSets

CONSTANTS
    Servers,    \* server threads, each with a PStore of its own
    Backends,   \* backend threads, each with a task queue of its own
    Keys,
    Addrs,      \* the records that are put, by the address AppendKV returns
    KeyOf,      \* KeyOf[a]: the key of record a
    Writers,    \* Writers[k]: the servers whose clients put key k
    QueueOf,    \* QueueOf[k]: CityHash32(k) % num_backend_thread_
    BucketOf,   \* BucketOf[k]: the hash bucket of k
    NumSlot,    \* NUM_HASH_SLOT
    NoAddr

ASSUME RecordAssumption ==
    /\ KeyOf \in [Addrs -> Keys]
    /\ Writers \in [Keys -> SUBSET Servers]
    /\ NoAddr \notin Addrs

ASSUME PlacementAssumption ==
    /\ QueueOf \in [Keys -> Backends]
    /\ NumSlot \in Nat \ {0}

VARIABLES
    fresh,      \* records not yet put
    pc,         \* what a server thread does next
    rec,        \* the record its Put works on
    durable,    \* records persisted by pmem_memcpy_persist
    table,      \* the hash index
    queue,      \* task_queue_: accepted records not yet popped
    task,       \* the task a backend has popped and not yet applied
    tree,       \* the B+-tree
    order       \* history: the records the index accepted, per key

vars == <<fresh, pc, rec, durable, table, queue, task, tree, order>>

Init ==
    /\ fresh = Addrs
    /\ pc = [s \in Servers |-> "idle"]
    /\ rec = [s \in Servers |-> NoAddr]
    /\ durable = {}
    /\ table = [k \in Keys |-> NoAddr]
    /\ queue = [b \in Backends |-> <<>>]
    /\ task = [b \in Backends |-> NoAddr]
    /\ tree = [k \in Keys |-> NoAddr]
    /\ order = [k \in Keys |-> <<>>]

Goto(s, label) == pc' = [pc EXCEPT ![s] = label]

-----------------------------------------------------------------------------
(* HiKV::Put on a server thread *)

PutInvoke(s, a) ==
    /\ pc[s] = "idle"
    /\ a \in fresh
    /\ s \in Writers[KeyOf[a]]
    /\ fresh' = fresh \ {a}
    /\ rec' = [rec EXCEPT ![s] = a]
    /\ Goto(s, "append")
    /\ UNCHANGED <<durable, table, queue, task, tree, order>>

\* Mutant of AppendKV: the copy is not flushed.
AppendVolatile(s) ==
    /\ pc[s] = "append"
    /\ Goto(s, "index")
    /\ UNCHANGED <<fresh, rec, durable, table, queue, task, tree, order>>

\* The record is durable when AppendKV returns.
AppendKV(s) ==
    /\ pc[s] = "append"
    /\ durable' = durable \cup {rec[s]}
    /\ Goto(s, "index")
    /\ UNCHANGED <<fresh, rec, table, queue, task, tree, order>>

InBucket(k) == {j \in Keys : table[j] # NoAddr /\ BucketOf[j] = BucketOf[k]}
BucketFull(k) == table[k] = NoAddr /\ Cardinality(InBucket(k)) >= NumSlot

PutReturn(s) ==
    /\ Goto(s, "idle")
    /\ rec' = [rec EXCEPT ![s] = NoAddr]

\* Mutant of IndexPut: the return value of HashTable::Put is negated.
IndexPutNoTask(s) ==
    LET a == rec[s]
        k == KeyOf[a]
    IN
    /\ pc[s] = "index"
    /\ ~BucketFull(k)
    /\ table' = [table EXCEPT ![k] = a]
    /\ order' = [order EXCEPT ![k] = Append(@, a)]
    /\ PutReturn(s)
    /\ UNCHANGED <<fresh, durable, queue, task, tree>>

IndexPut(s) ==
    LET a == rec[s]
        k == KeyOf[a]
    IN
    /\ pc[s] = "index"
    /\ ~BucketFull(k)
    /\ table' = [table EXCEPT ![k] = a]
    /\ order' = [order EXCEPT ![k] = Append(@, a)]
    /\ Goto(s, "push")
    /\ UNCHANGED <<fresh, rec, durable, queue, task, tree>>

IndexRefuses(s) ==
    /\ pc[s] = "index"
    /\ BucketFull(KeyOf[rec[s]])
    /\ PutReturn(s)
    /\ UNCHANGED <<fresh, durable, table, queue, task, tree, order>>

\* Mutant of QueueFor: any queue takes the task.
QueueForAny(k, b) == TRUE

QueueFor(k, b) == b = QueueOf[k]

PushTask(s) ==
    /\ pc[s] = "push"
    /\ \E b \in Backends :
          /\ QueueFor(KeyOf[rec[s]], b)
          /\ queue' = [queue EXCEPT ![b] = Append(@, rec[s])]
    /\ PutReturn(s)
    /\ UNCHANGED <<fresh, durable, table, task, tree, order>>

-----------------------------------------------------------------------------
(* async_btree_handle on a backend thread *)

\* Mutant of PopTask: the task is read but not taken off the queue.
PopTaskPeek(b) ==
    /\ task[b] = NoAddr
    /\ queue[b] # <<>>
    /\ task' = [task EXCEPT ![b] = Head(queue[b])]
    /\ UNCHANGED <<fresh, pc, rec, durable, table, queue, tree, order>>

\* Mutant of PopTask: the last task stays in the queue.
PopTaskNotLast(b) ==
    /\ task[b] = NoAddr
    /\ Len(queue[b]) > 1
    /\ task' = [task EXCEPT ![b] = Head(queue[b])]
    /\ queue' = [queue EXCEPT ![b] = Tail(@)]
    /\ UNCHANGED <<fresh, pc, rec, durable, table, tree, order>>

PopTask(b) ==
    /\ task[b] = NoAddr
    /\ queue[b] # <<>>
    /\ task' = [task EXCEPT ![b] = Head(queue[b])]
    /\ queue' = [queue EXCEPT ![b] = Tail(@)]
    /\ UNCHANGED <<fresh, pc, rec, durable, table, tree, order>>

\* Mutant of ApplyTask: a key that the tree has is not updated.
ApplyTaskOnce(b) ==
    LET a == task[b] IN
    /\ a # NoAddr
    /\ tree' = IF tree[KeyOf[a]] = NoAddr THEN [tree EXCEPT ![KeyOf[a]] = a] ELSE tree
    /\ task' = [task EXCEPT ![b] = NoAddr]
    /\ UNCHANGED <<fresh, pc, rec, durable, table, queue, order>>

\* Bptree::Put.
ApplyTask(b) ==
    LET a == task[b] IN
    /\ a # NoAddr
    /\ tree' = [tree EXCEPT ![KeyOf[a]] = a]
    /\ task' = [task EXCEPT ![b] = NoAddr]
    /\ UNCHANGED <<fresh, pc, rec, durable, table, queue, order>>

-----------------------------------------------------------------------------
ServerStep(s) == AppendKV(s) \/ IndexPut(s) \/ IndexRefuses(s) \/ PushTask(s)

BackendStep(b) == PopTask(b) \/ ApplyTask(b)

Next ==
    \/ \E s \in Servers : ServerStep(s) \/ \E a \in Addrs : PutInvoke(s, a)
    \/ \E b \in Backends : BackendStep(b)

Spec == Init /\ [][Next]_vars

(***************************************************************************)
(* Server threads wait for nothing inside Put, and the backend threads     *)
(* poll their queues forever.                                              *)
(***************************************************************************)
FairSpec ==
    /\ Spec
    /\ \A s \in Servers : WF_vars(ServerStep(s))
    /\ \A b \in Backends : WF_vars(BackendStep(b))

-----------------------------------------------------------------------------
(* Properties *)

ElementsOf(q) == {q[i] : i \in DOMAIN q}

TypeOK ==
    /\ fresh \subseteq Addrs
    /\ pc \in [Servers -> {"idle", "append", "index", "push"}]
    /\ rec \in [Servers -> Addrs \cup {NoAddr}]
    /\ durable \subseteq Addrs
    /\ table \in [Keys -> Addrs \cup {NoAddr}]
    /\ queue \in [Backends -> Seq(Addrs)]
    /\ task \in [Backends -> Addrs \cup {NoAddr}]
    /\ tree \in [Keys -> Addrs \cup {NoAddr}]
    /\ order \in [Keys -> Seq(Addrs)]
    /\ \A s \in Servers : pc[s] # "idle" => rec[s] \in Addrs \ fresh

\* Where an accepted record may wait for its way into the tree.
Pushing == {rec[s] : s \in {u \in Servers : pc[u] = "push"}}
Queued == UNION {ElementsOf(queue[b]) : b \in Backends}
Popped == {task[b] : b \in Backends} \ {NoAddr}
InTree == {tree[k] : k \in Keys} \ {NoAddr}
Indexed == {table[k] : k \in Keys} \ {NoAddr}

(***************************************************************************)
(* A reader or a backend only ever sees a record that is durable: Put      *)
(* persists it before the index publishes it (hikv.cc:64-65).              *)
(***************************************************************************)
DurableFirst == Indexed \cup Pushing \cup Queued \cup Popped \cup InTree \subseteq durable

(***************************************************************************)
(* An accepted record is on its way to the tree exactly once: no two of    *)
(* the server, the queues and the backends have it at the same time.       *)
(***************************************************************************)
Places(a) ==
    {<<"push", s>> : s \in {u \in Servers : pc[u] = "push" /\ rec[u] = a}}
    \cup {<<"task", b>> : b \in {c \in Backends : task[c] = a}}
    \cup UNION {{<<"queue", b, i>> : i \in {j \in DOMAIN queue[b] : queue[b][j] = a}}
                : b \in Backends}

TaskOnce ==
    \A a \in Addrs :
        /\ \A p, q \in Places(a) : p = q
        /\ Places(a) # {} => \E i \in DOMAIN order[KeyOf[a]] : order[KeyOf[a]][i] = a

(***************************************************************************)
(* The tree lags behind the index, and catches up: a key of the index is   *)
(* in the tree or a record of it is on the way, so that without pending    *)
(* tasks both hold the same keys.                                          *)
(***************************************************************************)
Pending(k) == \E a \in Pushing \cup Queued \cup Popped : KeyOf[a] = k

SameKeys ==
    \A k \in Keys :
        /\ tree[k] # NoAddr \/ Pending(k) <=> table[k] # NoAddr
        /\ tree[k] # NoAddr => KeyOf[tree[k]] = k

(***************************************************************************)
(* A key that one server writes, as the clients' disjoint key ranges make  *)
(* it (client.cc:204), has its last record in the tree once its tasks are  *)
(* done.  Two servers writing one key may pass each other between the      *)
(* index and the queue (hikv.cc:65-68), and the tree keeps the older       *)
(* record for good.                                                        *)
(***************************************************************************)
OneWriter(k) == \A s, t \in Writers[k] : s = t

TreeAgrees == \A k \in Keys : OneWriter(k) /\ ~Pending(k) => tree[k] = table[k]

(***************************************************************************)
(* For such a key the tree moves only forward, from one record the index   *)
(* accepted to the next, skipping none: one key's tasks share a queue and  *)
(* a backend.                                                              *)
(***************************************************************************)
TreeFollowsIndex ==
    [][\A k \in Keys : OneWriter(k) /\ tree'[k] # tree[k] =>
          \E i \in DOMAIN order[k] :
              /\ order[k][i] = tree'[k]
              /\ IF i = 1 THEN tree[k] = NoAddr ELSE tree[k] = order[k][i - 1]]_vars

(***************************************************************************)
(* Every key the index holds gets into the tree, and the tree of a         *)
(* one-writer key settles on the record of the index.                      *)
(***************************************************************************)
TreeCatchesUp ==
    \A k \in Keys :
        /\ table[k] # NoAddr ~> tree[k] # NoAddr
        /\ OneWriter(k) => <>[](tree[k] = table[k])

=============================================================================
