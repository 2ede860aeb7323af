# A verification of HiKV over RPC

HiKV is a key-value store for persistent memory.  Server threads log every put,
enter it into a lock-free hash index and hand it to a queue; a backend thread
drains the queue into a concurrent B+-tree.  One benchmark drives the store over
RPC, another one in the same process.  This directory holds TLA+ models of these
parts, TLC configurations that check them on small instances, and theorems that
hold for every instance.

Line numbers refer to the sources.  `PROJECT.json` lists, for every definition
that stands for code, the lines it stands for.

## The system

| Part | Source | State | Operations | Model |
|---|---|---|---|---|
| Hash index | `hikv/hashtable.*` | `table_[partition][bucket].slot[8]`, 64-bit words | constructor, `Put`, `Get`, `Print` | `HashTable` |
| B+-tree | `hikv/bptree-template.hpp`, `bptree.*` | nodes, `root_`, `header_`, `mutex_`, a lock byte per leaf | `Insert`, `Search`, `Remove`, `Scan`, `Iterator`, `Print` | `BPTree`, `NodeArrays`, `TreeReaders` |
| Store | `hikv/hikv.*` | the index, the tree, a log per server, a task queue per backend | constructor, `Put`, `Get`, `Print`, `async_btree_handle` | `HiKV` |
| Log | `hikv/pstore.hpp` | `base_`, `size_`, `usage_` | `AppendKV`, `AppendValue` | `Storage`; its durability also in `HiKV` |
| Allocator | `hikv/allocator.hpp` | `base_`, `size_`, `usage_`, a mutex | `Allocate`, `AlignAllocate` | `Storage` |
| Task queue | `hikv/tbb/concurrent_queue.h`, `internal/_concurrent_queue_impl.h` | two ticket counters, 8 micro queues with counters, a list of pages and a mutex each | `push`, `try_pop`, `empty`, the iterator, the copy, the destructor | `ConcurrentQueue`, `QueueAtRest` |
| RPC benchmark | `cs/` | a `RequestContext` and `ResultContext` per client thread | the two request handlers, `kv_cont_func`, `run_client_thread`, both `main`s | `ClientServer` |
| Local benchmark | `benchmark/example/` | figures per thread | `run_put_work`, `run_get_work`, `main` | `LocalBenchmark` |
| External | CityHash, TBB's locks and atomics, PMDK, eRPC | | | by their contracts |

How they interact:

    client thread --request--> server thread --Put/Get--> HiKV
                  <--reply----                  AppendKV (log), then
                                                HashTable::Put, then
                                                push to task_queue_[hash(key)]
                                                          |
                              backend thread  <--try_pop--+
                                    '--Insert--> B+-tree

Server threads share the hash index without any lock.  Each server thread has a
log of its own and serves the sessions of the clients whose number is congruent to
its own.  Server and backend threads share only the queues, which are TBB's and
come with the repository as headers. Nothing reads the tree except `Print`: gets
are answered by the index.

What is hard, and which properties say that it is right:

* *The index.*  A slot is tested, decoded, compared and overwritten by separate
  accesses, and claimed by compare-and-swap; a lost swap is not retried.  It must
  stay a map: one slot per key (`UniqueKey`), a slot never changes its key
  (`SlotKeyStable`), a put is refused only by a full bucket
  (`RefusedOnlyWhenFull`), calls return (`CallsReturn`), and all of it together
  is a linearizable map (`LinearizableMap`).
* *The tree.*  A leaf is locked in one critical section, written or split outside
  of it, and linked to its parent in a second one; in between other splits move
  the leaf to another parent.  Paths must lead to every key (`PathFindsKey`),
  parents must be right when they are read (`ParentLinks`, `LinkTarget`), a leaf
  must have one writer (`OneWriter`), the chain that scans follow must be sorted
  at every moment (`ChainSorted`), and the operations must be atomic (`AtomicMap`).
  An insert that meets a locked leaf tries again, and each attempt takes the mutex
  that the one who must unlock the leaf may be waiting for (`InsertsReturn`).  Inside a node, entries that no longer
  count stay in the arrays and must not be found (`ImplementsFunctions`).  Scans,
  the iterator and `Print` take no locks; in a tree at rest they must be right
  (`ScanAtRest`, `IteratorAtRest`, `PrintAtRest`).
* *The store.*  The index is updated before the task is queued, and the tree lags
  behind.  A record must be durable before anything refers to it
  (`DurableFirst`), an accepted record must travel to the tree exactly once
  (`TaskOnce`), a refused one never (`SameKeys`), and for a key with one writer
  the tree must follow the index (`TreeAgrees`, `TreeFollowsIndex`,
  `TreeCatchesUp`).
* *The task queue.*  No push or pop takes a lock for a whole call: tickets put the
  threads in line.  A micro queue must have one push and one pop at its pages at a
  time (`OneAtATime`), a pop must not reach a slot before the push of its ticket is
  done with it (`PushOverBeforePop`), a page must be neither lost nor touched after
  it is freed (`PagesAccounted`), the iterator and the copy must meet the items
  behind first and last pages that are partly popped or filled (`WalksMeetItems`),
  calls return although a ticket waits for the tickets before it (`CallsReturn`),
  and all of it is a FIFO queue (`LinearizableQueue`), which is what `HiKV` takes it
  for.
* *Storage.*  Logs and partitions share one file that is mapped anywhere: regions
  must not overlap and partitions must be aligned (`RegionsApart`), the program may
  give up only when the file is too small (`ExitsOnlyIfTooSmall`), and no record may
  reach a partition or another record, nor an earlier life of the program leak into
  this one (`RecordsIntact`).
* *The RPC benchmark.*  One reply buffer per client serves both kinds of request
  (`ReplyAnswersRequest`); key ranges must stay disjoint, since the store relies
  on it (`OneClientPerKey`); the counts must add up although refused puts are
  acknowledged and half of each key is whatever the buffer held (`CountsAddUp`);
  the run must end (`BenchmarkEnds`).
* *The local benchmark.*  Its ranges must keep the threads off each other's keys
  (`TreeMatchesIndex`), half of each key is uninitialised and the get phase asks for
  one key too many (`FoundKeys`), both phases share their figures (`PrintedTotals`),
  and nobody joins the backends (`LocalBenchmarkEnds`).

`PROJECT.json` lists these and the remaining hazards under "hazards", each at its
line, with the properties that cover it or the reason why none does.

## The modules

| Module | Models | Built on |
|---|---|---|
| `HashTable` | the index, one step per access to a shared slot | |
| `KVMap` | abstract: a linearizable map | |
| `HashTableRefinement` | the mapping from the first to the second | `HashTable`, `KVMap` |
| `HashTableProofs` | theorems about `HashTable`, and its refinement | `HashTableRefinement` |
| `BPTree` | the tree, one step per critical section or per write outside one | |
| `OrderedMap` | abstract: an atomic map, with calls and returns | |
| `BPTreeRefinement` | the mapping | `BPTree`, `OrderedMap` |
| `BPTreeProofs` | theorems about `BPTree`, and its refinement | `BPTreeRefinement` |
| `NodeFunctions` | a node's sorted array as a function, used by `BPTree` | |
| `NodeMap` | abstract: one node in these terms, with calls and answers | `NodeFunctions` |
| `NodeArrays` | one node as its arrays, and the mapping to `NodeMap` | `NodeMap` |
| `NodeArraysProofs` | that the mapping holds | `NodeArrays` |
| `TreeReaders` | scan, iterator and `Print` | `BPTree` |
| `HiKV` | the store, with index and tree as the atomic maps shown above | |
| `HiKVProofs` | theorems about `HiKV` | `HiKV` |
| `ConcurrentQueue` | the task queue, one step per shared access | |
| `FifoQueue` | abstract: a linearizable FIFO queue | |
| `ConcurrentQueueRefinement` | the mapping | `ConcurrentQueue`, `FifoQueue` |
| `QueueAtRest` | the iterator and the copy | `ConcurrentQueueRefinement` |
| `ConcurrentQueueProofs` | theorems about `ConcurrentQueue`, its refinement and its readers | `QueueAtRest` |
| `LocalBenchmark` | both phases and main of the benchmark in one process | `HiKV` |
| `LocalBenchmarkProofs` | theorems about `LocalBenchmark` | `LocalBenchmark`, `HiKVProofs` |
| `ClientServer` | clients, server threads, main | |
| `ClientServerProofs` | theorems about `ClientServer` | `ClientServer` |
| `Storage` | the allocator, the regions taken from it, the logs, restarts | |
| `StorageProofs` | theorems about `Storage` | `Storage` |
| `MC...` | instances for TLC | the module named |

Every module with actions also defines a few *mutants*: an operator in front of
the definition it is a broken form of, marked "Mutant of", which no specification
uses.  Put in place of that definition, each makes TLC refute one property
("mutants" in `PROJECT.json`): the property does depend on the code it is about.

**HashTable.**  `table` maps a cell (partition, bucket, slot) to `Empty` or to a
word, a signature with the address of a record; `KeyAt` gives the key at the head
of a record.  `Put` is `PutInvoke`, then per probe `PutTest` (the slot is zero or
not) and `PutCompare` or `PutCas`, and `PutStore` for the overwriting store; `Get`
is `GetInvoke`, `GetTest`, `GetCompare`.  The loop body probes two buckets whose
hashes have the same seed, so it probes one bucket twice; `Seed`, `block` and
`NextProbe` keep that as the code has it, and `UniqueKey` depends on it: after a
lost compare-and-swap only the second block looks at the slot that was lost.
Partition and signature are computed from the bucket id, which is far below 2^48
(`SizeAssumption`), so both are always 0; the model derives this, too
(`CellOfKey`).  Records are put at most once each: `AppendKV` returns a new
address each time.

**BPTree.**  The sorted array of a node is a function on the keys it holds, so
inserting in sorted order is extending the function; `First` cuts it at an index
for the splits (`NodeFunctions`).  `FindAndLock` is the first critical section of
`bptree_insert`, `WriteLeaf` and `SplitLeaf` the writes outside, `EnterParent`
takes the mutex and reads the parent, and `GrowRoot`, `InsertChild` and
`SplitInner` are the three branches of `insert_into_parent`, one level per step. 
An
iteration of the loop that finds the leaf locked (`_xabort` outside of a transaction
does nothing, inside it aborts and retries) is two steps: `MeetLock` takes the mutex
and `Retry` gives it up, and nobody else can take it in between.  `Search` and
`Remove` have the same loop.  Critical sections are atomic to each other both with
the real mutex and with elision, so an iteration that finds the leaf unlocked is one
step.  Each operation starts with a step that fixes its arguments (`InsertInvoke`,
`SearchInvoke`, `RemoveInvoke`); an insert returns at `Unlock`, the others with their
answer.  In `OrderedMap` a call with its arguments is part of the state: it is opened,
takes effect once, with these arguments, and is closed.

**NodeArrays.**  One leaf or inner node, with arrays indexed as in the code: both
binary searches, insertion by shifting, removal, and the split, after which either
half is followed.  What `malloc`, `memset` or a split leaves behind `nkeys` is part
of the state.  `Map` reads off the function that `BPTree` uses; `NodeMap` says what
the operations must do to it and answer.  `call` is the last operation with its
arguments, the half that was followed and what was returned, and is the same variable
in both modules: an answer counts only as one to what was asked.  An operation is one step because a node
has one writer (`OneWriter`), and a separator is inserted once (`LinkTarget`).

**TreeReaders.**  `Scan`, `Begin` with the iterator, and the two walks of `Print` are
operators on a state of `BPTree`: they change nothing and take no locks.  They
promise something only while no insert runs (`AtRest`).  `Begin` starts at whatever
its uninitialised position holds; every position within the header leaf is tried.

**Storage.**  A start of the program is `AllocateLog` and `AllocatePartition` once per
server, each of which may exit; `AppendKV` then persists records; `Restart` can
happen at any time, keeps the file and may map it elsewhere.  The file is an array
of words that name the record which wrote them.  `AppendKV` has no bound in the
code, so the model has none but the end of the file, beyond which nothing is
mapped.

**HiKV.**  `Put` is `PutInvoke`, `AppendKV`, `IndexPut` or `IndexRefuses`, and
`PushTask`; a backend is `PopTask` and `ApplyTask`.  `durable` holds the records
that were persisted, `order` is a history of the index's order per key.  `Get` and
`Print` change nothing and are left to `HashTable`.  The queues are the FIFO queues
that `ConcurrentQueue` implements.

**ConcurrentQueue.**  A push is `PushTicket`, `AllocatePage` when its index is the
first of a page, the wait for its turn (`PushTurnNew`, `PushTurn`), `LinkPage` and
`SetTailPage` under `page_mutex`, `FillSlot` and `PushRelease`; a pop is `ReadHead`,
`LookEmpty` or `LookFull`, the compare-and-swap (`ClaimWins`, `ClaimLoses`), the wait
for its turn and for its item, `TakeItem`, and behind the last index of a page
`UnlinkPage`, `ClearTailPage` and `FreePage`.  The counters of a micro queue advance
in steps of `NQueue`, as in the code, and `Phi` spreads tickets over micro queues.
Every step is one access to shared memory, in a sequentially consistent order: the
weaker orders TBB asks for are those of its x86 atomics.  The history `pushed` of the
refinement is the sequence of items by ticket.

**QueueAtRest.**  The iterator's `advance` and the copy's `assign` and `make_copy` as
operators on the pages; they have a meaning only while nobody works on the queue, and
are checked in every such state.  Loops are recursive functions of the ticket the
iterator is at (`ArrayAt`, `Visited`) and of the number of the page (`PageAt`).

**LocalBenchmark.**  Extends `HiKV`: `PutKey` is a `PutInvoke` of the store, after
which the store's own steps run; `GetKey` reads the index; `Spawn`, `Join`, `Sum` and
`PrintStore` are `main`, which goes twice through the first three.  A key is a pair of
the number that is written and the half that is not.  Backends run until `main`
returns and are not waited for.

**ClientServer.**  `SendBatch`, `EndInsert`, `EndSearch` are `run_client_thread`;
`Continue` is `kv_cont_func`; `TakeRequest`, one `HandlePut` or `HandleGet` per
key and `Respond` are the handlers; `Spawn`, `SumNext`, `JoinNext` are the
client's `main`.  The throughput figures are represented by the counts they are
computed from.  The request buffer is kept in words of 8 bytes across requests,
and starts as one of `Residues`: only the first word of each key is ever written,
so what the server takes for a key is a pair of the number and of what was there
before.  A value is the key and padding, in words of 16 bytes, which is all that
`Get`'s copy and the client's comparison tell apart.  eRPC runs a handler once per
request and a continuation once per reply: that is its contract, and external.

## The runs

| Run | Question | Bounds |
|---|---|---|
| `hash_index` | Is there one slot per key, are refusals justified, is the table a linearizable map?  Do calls end? | 2 threads, 4 records of 3 keys, 2 partitions of 2 buckets of 2 slots |
| `btree` | Are paths, parents, locks and the leaf chain right? | 3 threads, 6 keys, one of them put twice, searched and removed, 2 slots per node, 14 nodes |
| `btree_returns` | Do inserts end? | the same, but each key put once and none searched or removed |
| `btree_map` | Are insert, search and remove atomic?  What do scan, iterator and `Print` return at rest? | 2 threads, 6 keys, 2 of them searched and removed |
| `btree_nodes` | Do the arrays of a node implement its function? | 5 slots, 6 keys, 2 values or children |
| `store` | Durability, exactly-once tasks, agreement of tree and index; does the tree catch up? | 2 servers, 2 backends, 6 records of 4 keys |
| `task_queue` | Exclusion by tickets, pages, the walks, a FIFO queue; do calls end? | 2 micro queues, 2 items per page, 6 pages, up to 7 items, five mixes of pushing, popping and asking threads |
| `local_benchmark` | Keys, counts and totals; does it end? | 2 threads of 2 keys, 2 values of the unwritten half, 2 backends, buckets of 2 slots |
| `rpc` | Replies, key ranges and counts; does it end? | 3 clients of 4 keys, 2 server threads, batches of 2 |
| `storage` | Regions, records and restarts | 2 servers, files of 6 to 24 words, 3 mapping addresses, 7 records of 2 words |
| `reply_value`, `printed_sum` | the two findings below | as `rpc` |

Why these bounds are enough to be interesting.  *Index:* three keys compete for a
bucket of two slots, so that a bucket fills, a compare-and-swap is lost to the
same key and to another one, and a put is refused; one key is put twice, so that
an overwriting store meets a concurrent claim, store and get; the second bucket
and the second partition stay empty, which `HomeBucket` claims they do.  Two
threads suffice for a conflict on one slot; the theorems cover any number. *Tree:*
nodes of two slots split as soon as they can; six keys reach three levels of inner
nodes, by a split that goes up through two of them; three threads let one split
the parent of a leaf whose own split is waiting for the mutex, while a third is in
the middle of an insert or waits for a leaf.  *Nodes:* an odd number of slots, as in the program (41),
gives halves of different length, and the key 0 looks like a zeroed entry. 
*Storage:* sizes that the servers do and do not divide, addresses that are and are
not aligned, files that just suffice, are too small for the last partition, or for
the second log; seven records can overrun a log.  *Store:* k1 and k4 have one
writer, k2 and k3 two, three keys share a bucket of two slots, two share a queue:
an order that differs between index and queue, a refusal, and two queues at work
all occur. *Task queue:* pages of two items, so that every page but the first of a
micro queue is linked while another is popped, and the last item of a page is the
only one left when the next page comes; the mixes are two pushers and a popper (as
in the store), two of each, which compete for a ticket, five items and two
poppers, seven items to fill two pages of a micro queue, and a thread that asks
`empty`. *Local benchmark:* the keys of one half share a bucket, so a put is
refused, those of the other half do not; the extra key of the first thread's get
phase is one the second thread puts, the last thread's is nobody's. *RPC:* two
clients share a server thread; twelve keys on eight slots, so a third is refused;
the fresh buffer of one client is uniform, those of the others differ in a word
that becomes half of a key, once in an insert and once in a search.

`CHECK_DEADLOCK FALSE` is set where the program stops or a bounded workload ends:
every record inserted, every thread joined.  The storage run checks deadlock, since
the program can always be restarted.  The index and queue runs check deadlock: a
get can always be called, and a popper polls.

`Quotas` and `Pages` (calls and memory of the queue), `Asked` (keys searched and
removed), `MaxNode` (nodes that can be allocated; no state of these runs asks for
more), `Entries` and `Addrs` (the workload) are bounds of the instances, not of
the code.  Symmetry is used for threads in runs without liveness properties only. 
Type correctness is a theorem for `HiKV` and the tree, and part of the proved
invariants of `HashTable`, `ClientServer` and the queue's tickets.

Fairness.  Each thread is weakly fair in its own steps, but for the tree: the operating
system schedules it, and inside an operation it has no reason to stop.  Callers are not
obliged to call: invocations are not fair.  An insert that waits for a leaf lock
takes the mutex and gives it up again and again, so a thread that wants the mutex
finds it free only now and then, and weak fairness says nothing of it: with it, TLC
finds the run in which the waiting thread always wins against the one that has to link
and unlock its leaf.  `FairSpec` of `BPTree` is therefore strongly fair to each thread,
which is to say that the mutex is.  The code relies on this and does not ensure it:
`speculative_spin_mutex` has no queue, and only the varying time between two attempts
speaks for it.  What `InsertsReturn` then shows is that nothing else blocks an insert: a
leaf that stays locked, a mutex that is not given up on one of the paths, two inserts
that wait for each other.  It also takes a workload that ends: a steady stream of
inserts into one leaf may keep it locked whenever a certain one looks, and the code
promises nothing against that (listed as a hazard).  Backends poll forever, so weak
fairness of `BackendStep` is the loop of `async_btree_handle`.  In
`ConcurrentQueue` a thread inside a call runs, and only poppers call again without
end.  In `LocalBenchmark` the threads and `main` run; the backends need no fairness,
since nobody waits for them.  In `ClientServer`
the event loops of both sides poll; `run_event_loop(1000000)` returns after 1000
seconds, far longer than the run.

## What is proved

TLAPS checks these for all values of the constants that meet the assumptions in
the modules.

* **HashTable**, any number of threads, keys, buckets and slots, any hash function:
  `Invariance`, `UniqueKeyHolds`, `SlotKeyStableHolds`, `RefusedOnlyWhenFullHolds`.
  Assumed: records have a key (`HashAssumption`), bucket ids are below the
  signature bits (`SizeAssumption`), a word is not zero (`EmptyAssumption`).
  `UniqueKey` alone is not inductive: a put that is about to claim a slot must
  know that its key is not behind it and not ahead.  `IInv` adds that a record lies
  in the bucket of its key (`HomeBucket`), that a bucket fills from its first slot
  (`NoHoles`), that the slots a put has passed hold other keys (`PassedSlots`) and
  what a thread knows of the slot it is at (`CurrentSlot`): a claim at slot i then
  has only other keys before it and, the slot being empty, nothing behind it.  The
  step lemma has one case for each action; `NextProbeIInv` and `WriteSlotIInv` carry
  what they share.  The action properties follow from the same invariant.
  `LinearizableMapHolds` shows that the index implements `KVMap`: each step maps to a
  step of the map or to a stutter.  A `Put` takes effect at its compare-and-swap or
  store.  A `Get` may return any binding its key had since it was called; `SeenInv`
  says that this history has the present binding and that, as long as it does not
  have "unbound", the slots the `Get` has passed hold other keys.  That needs
  `NoHoles`: behind an empty slot there is nothing to find (`EmptySlotEndsSearch`).
* **BPTree**, any number of threads, any tree, any keys and values, any two sizes of
  nodes of at least 2 slots (`SlotsAssumption`); nullptr is no node, thread or value
  (`NullAssumption`).
  - `OneWriterHolds`, the leaf lock excludes.  `LockInv` adds that a thread without a
    leaf has no `cur` left over, which `FindAndLock` would otherwise forget.  It does
    not assume anything about the shape of the tree.
  - `TypeCorrect`: no node overflows and no pointer leads astray.  `TypeInv` adds what
    the splits need: only `header_` may be an empty leaf, an inner node has a child
    (`NodesFilled`), and what each thread is at (`Calls`).  `SplitIsCut` turns the
    split by position into a cut at a key, with neither half empty, which is why both
    sizes must be at least 2.
  - `ParentLinksHolds`, in every state.  `Links` adds that
    a node is the child of its parent once and that a node which is still to be
    linked (`Pending`) belongs to one insert, has no parent and is not the root.
  - `PathFindsKeyHolds` and `LinkTargetHolds`.  Which leaf a key belongs to follows
    from the history of splits, not from the tree of the moment, so `TreeInv` says that
    a history exists: `lv` is the height of a node, `at[l][k]` the node at height `l`
    that key `k` belongs to, `left[n]` the node that `n` was split from.  `Routes`: one
    step down (`Leads`) from the node a key belongs to comes to the one it belongs to
    below, or, while that one pends, to the node left of it.  `Placed`: a key is in a
    node only if it belongs there.  `Offs`: what a pending node and the node it was
    split from have to do with each other.  `Chained`: the keys that belong to a leaf
    are below those that belong to the next.  Each step has a lemma that gives the new
    history (`SplitLeafTree`, `InsertChildTree`, `GrowRootTree`, `SplitInnerTree`).
    Such a history was first added to a small instance as variables, and TLC checked
    it on every state, before it was proved.
  - `ChainSortedHolds`, from `Chained`, and from `Reached`: a set that has `header_` and
    is closed under `next` has every leaf.
  - `AtomicMapHolds`: the tree implements `OrderedMap`, calls and returns included
    (`OpenCall`).  A search ends at the leaf its key belongs to (`SearchFinds`), no
    other has the key (`Placed`), and that leaf is open (`OpenIs`), so what is read or
    written there is the map's entry of the key (`TreeMap`, `OneWritten`).  A step moves
    the call of its own thread and of no other (`CallMoves`, `CallStays`); `WriteLeaf` and
    `SplitLeaf` write the pending argument, and no other step of an insert changes the
    map (`InsertMoves`).
  - The search and the walk along the chain are recursive functions.  That such a
    function exists and has its value at each argument is proved as an induction on
    the height and on the number of steps, in the form that every nonempty set of
    numbers has a least one (`LeastNat`, `DownwardRecursion`, `Repetition`).
* **NodeArrays**, any number of slots from 2 on, any keys and items, any old contents
  of the arrays (`ArraysAssumption`): `ImplementsFunctionsHolds`, which makes the
  functions of `BPTree` sound: each operation changes the function as its arguments
  ask and returns what the function has for its key.  The invariant (`NodeInv`) says that the keys of the
  first `nkeys` elements ascend, and nothing of the rest.  Binary search, a recursion
  on a range, halts behind the keys below the one it looks for and reads no element
  that does not count (`SearchFinds`, by induction on the length of the range).
  Shifting then adds the key to the function (`InsertAtIs`), a value that is
  overwritten changes it there only (`ReplacedIs`), and a split cuts it by the number
  of keys below (`FrontKeys`), the upper half into arrays with any contents
  (`UpperHalfIs`).
* **HiKV**, any numbers of servers, backends, keys, records.
  - `TypeCorrect` and `DurableFirstHolds`.  `DurableInv` adds that the record of a
    server past `AppendKV` is durable, and says of each queue that it is a sequence of
    durable records, which the steps on queues preserve.
  - `SameKeysHolds` and `TreeAgreesHolds`.  That a key in the index is in the tree or
    on its way says nothing of the order in which records arrive.  `AgreeInv` adds that
    a server puts only keys it may write (`RightWriter`), that a record is in the queue
    of its hash (`RightQueue`), and, for a key with one writer, that along the way from
    the server to the end of the queue, to the backend and to the tree, the first place
    that has a record of the key has the index's (`FirstPlaceAgrees`).
  - `TaskOnceHolds`.  `OnceInv` adds that no two places hold one record, counting
    servers from the start of a `Put`, that no queue holds one twice, and that queued
    records are not fresh, so that no `Put` takes them again.
  - `TreeFollowsIndexHolds`, an action property.  `FollowInv` says that the index has
    the record it accepted last, and that along the way of a one-writer key's records
    to the tree each comes right after the one before it in the index's order; the
    step that applies one to the tree then keeps that order.
* **LocalBenchmark**, any numbers of threads and of operations for each
  (`RangesAssumption`): `TreeMatchesIndexHolds`, `PrintedTotalsHolds` and
  `FoundKeysHolds`.  A step of the benchmark is a step of the store or leaves it alone
  (`StepOfStore`), so the store's invariants hold of it (`StoreInv`).  `BaseInv` adds
  what main knows of its threads in each phase and that a thread's loop counter is in
  its range, `RangesApart` that ranges do not meet.  `PutInv` counts: a thread has put
  exactly the keys up to its counter, each once; `AskedInv` does so for the keys it has
  asked for, with the set's cardinality; `SumInv` for the figures main adds up.
* **ConcurrentQueue**, any numbers of threads, calls, micro queues, items per page
  and pages.  Assumed: the layout's
  numbers (`LayoutAssumption`), that `NQueue` tickets in a row go to different micro
  queues (`SpreadAssumption`, as 8 and 3 have no common divisor), and that threads
  are distinct (`ThreadAssumption`).
  - `OneAtATimeHolds` and `PushOverBeforePopHolds`.  Pushes and pops wait in line in
    the same way, so `TurnInv` states `Ordered` for both, each with its counters and
    the threads that wait on them: a ticket is below the global counter and is held by
    one thread, the counter of a micro queue has not passed a ticket that is held or not
    yet taken, and equals the turn of whoever is past its wait.  `TurnInv` adds that
    pops do not overtake pushes.  `OneTicketPerTurn` is the arithmetic behind it: two
    tickets of one micro queue with the same turn are the same ticket.
  - `PagesAccountedHolds`.  `Lists` says where the pages of a micro queue are: `Lo` and
    `Hi` number the pages that its counters have not finished with, a function assigns
    a page to each number, and these pages are linked in order (`Chain`), different
    from each other and from those of the other micro queues (`Distinct`, `Owned`),
    begin at `head_page` and end at `tail_page` (`Ends`) and, with those a thread is
    about to link or to free, are all pages there are (`NoneLost`); `Knows` is what a
    thread between two steps still knows of them.  For the destructor, a queue that is
    drained and at rest has every counter at the same ticket (`Drained`), hence at most
    one page left in each micro queue; that the tickets below a round number fill every
    micro queue is a pigeonhole argument over `SpreadAssumption` (`EveryMicroQueue`).
  - `LinearizableQueueHolds`: the queue implements `FifoQueue`.  `FifoInv` joins what
    the abstract queue is to what the pages hold: a ticket whose push has written its
    item (`Filled`) has it in its slot as long as its page lives (`Stored`), so that a
    pop takes the item of its own ticket, and tickets are pushed and popped in order.
    `Watch` keeps for a call of `empty`, which reads two counters that meanwhile move, a
    moment at which its answer was true.
  - `WalksMeetItemsHolds`.  At rest nobody holds a ticket, so the counters of a micro
    queue are the rounds of the next tickets it gets (`CounterAtRest`) and every ticket
    that is pushed and not popped has its item in a page of the list (`Resting`).  The
    pages the iterator has when it comes to ticket k are those of the next ticket of
    each micro queue from k on (`PagesFrom`): a step changes one of them, and just when
    its last index is done (`IteratorMoves`).  For the copy, `PageAtIs` numbers the pages of
    the walk along `next`, and `PlaceInList` is the arithmetic of the first and the last
    page.  The recursive functions are shown equal to these closed forms by an induction
    on their argument (`Induction`, over a set, which the provers can use).
* **Storage**, any sizes, alignment, mapping addresses, number of servers and
  restarts: `RegionsApartHolds`, `ExitsOnlyIfTooSmallHolds` and `RecordsIntactHolds`.
  `SpaceInv` adds that
  every region ends below `usage_`, where the next one begins, and that the logs are
  allocated before the partitions.  `ReturnedSpaceInv` is the step both allocations
  share; `RoundUp` and `MultipleOf` are the arithmetic of `AlignAllocate`.  For the
  exits `SizeInv` bounds `usage_` by the regions allocated so far, one share each and
  a gap before each partition.  For the records `ShapeInv` says that each lies within
  the filled part of its log and that nothing is written before all regions are
  there, and `FileInv` that, while no log has run over its end, the file holds every
  record whole and the partitions are free; `LogsApart` and `Words` turn the regions'
  bounds into words of the file that do not meet.
* **ClientServer**, any numbers of clients, servers, keys and any batch size that
  divides a client's range (`BatchAssumption`), any buckets and any fresh buffers:
  `OneClientPerKeyHolds`, `ReplyAnswersRequestHolds`, `CountsAddUpHolds`.  `Inv` adds
  that a client is at a whole number of batches, and that a server thread works on a
  request that is still the one its client waits for: a client has one request
  outstanding, so its flag cannot change under way.  For the counts, `CountInv` follows
  a batch through its stations: the request asks for the keys (`KeyOf`) of the numbers
  sent last (`Asking`), what the handler has so far answers the first of them
  (`Working`), the reply answers them all (`Replied`), and the client has counted what
  is answered (`Counted`).  A key is its number and a word of the buffer that no batch
  ever writes (`WordsWritten`), so it stays the same key for the whole run; the store
  holds no other key of the client's range (`Owns`).  `Unaffected` carries all of it
  over the steps of the other clients, whose ranges are apart (`RangesApart`).

One property was wrong in a way that no run could show.  `NoDanglingPage` used to say
that the `next` of every allocated page is allocated.  The proof of the pop fails
there: a popper that has unlinked its page and not yet freed it leaves a page whose
`next` the next popper may already have unlinked and freed.  That takes seven items and
two poppers, more than any mix of the run has.  The link is not followed any more, so
the property now leaves out pages that a thread is about to free.

Only model-checked: the readers of the tree.  Liveness under fairness, and
ENABLED, are out of the prover's reach and stay with TLC.

## Findings

* `hikv/hashtable.cc:118`: `Get` copies `kValueSize` bytes from the start of the
  record.  The record starts with the key (`pstore.hpp:44-45`), so the caller gets
  the key and the first 48 bytes of the value.  `cs/common.h:13` promises the value.
  The benchmarks do not notice, because their values start with the key and only 8
  bytes are compared (run `reply_value`).
* `cs/client.cc:212`: `main` adds up a thread's figures before it joins it, so the
  printed total misses what is not yet set; the local benchmark joins first (run
  `printed_sum`).

## Not modelled, and why

* What a scan or an iterator sees next to an insert: they take no locks and promise
  nothing then; `Bptree` does not expose them and no code of the repository calls
  them.  Likewise `Begin` at an uninitialised position behind the header's entries,
  which reads stale entries or beyond the array.
* The `line_*` variants of the node operations (`do_line_search` is 0),
  `AppendValue` and `End`, which have no caller or no body.
* `Print` of the index: it counts.
* `Print` of the tree next to backends, as at the end of the local benchmark
  (`example.cc:134`): `PrintAtRest` is about a tree at rest, and `PrintStore` of
  `LocalBenchmark` is one step.
* The inside of a push or a pop in `HiKV` and `LocalBenchmark`: there the queue is
  the one `ConcurrentQueue` implements, so a push that waits for `page_mutex` while a
  backend's pop has it is seen in `ConcurrentQueue` (`CallsReturn`) only.
* What the tree ends with when two servers put one key in the opposite order
  (`hikv.cc:64-68`): the models allow it, and the properties that compare tree and
  index leave such keys out.  A range that the batch does not divide and a log longer
  than its region are left out likewise (`BatchAssumption`, `WithinLogs`).
* Recovery: the constructor clears the index and starts every log at 0, and there
  is no code that reads what the file holds (`Restart` of `Storage` models this).
* Requests that are never answered, on which the client waits forever, and loss of a
  session: `sm_handler` ignores the event, and when the continuation runs
  then, and on which buffer contents, is in eRPC, of which the repository has
  archives only.
* `num_backend_threads` = 0, a division by zero in the choice of the queue: `HiKV`
  assumes a backend for each key.
* Of the queue: an allocation of a page that fails, whose exception no caller
  catches; the wrap of tickets at 2^64; `internal_swap`, which no caller reaches;
  `concurrent_bounded_queue`, whose code is in a library that the repository does
  not have; orders of memory accesses weaker than sequential consistency.
* Transactional execution of `speculative_spin_mutex`: a transaction that commits is
  atomic, one that aborts has no effect, which is what the critical sections of
  `BPTree` are.
* The other headers of TBB (flow graphs, schedulers, hash maps, allocators): the
  program uses none of them.
* Connecting, CPU affinity, timers, CityHash, PMDK, eRPC.

## Plan

Done: `HashTable`, `BPTree`, `HiKV`, `ClientServer`, `Storage`, `NodeArrays`,
`TreeReaders`, `ConcurrentQueue`, `QueueAtRest`, `LocalBenchmark`, with their
refinements and the theorems above.  What is left:

1. Session failure in `ClientServer`, once eRPC's behaviour is known.
2. `HiKV` over the detailed index, tree and queue instead of the map and queue they
   implement; scans next to inserts, one leaf per step, with what they may miss and
   repeat.
3. Proofs: the readers of the tree at rest.
