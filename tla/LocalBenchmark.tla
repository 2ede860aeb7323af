----------------------------- MODULE LocalBenchmark -----------------------------
(***************************************************************************)
(* The benchmark on one machine (benchmark/example/example.cc) on the      *)
(* store of HiKV: main starts a thread per server thread of the store to   *)
(* put a range of keys, joins them, adds up their throughput, does the     *)
(* same with threads that get the keys, and prints the store.  When main   *)
(* returns the backends, which nobody joins, are gone.                     *)
(*                                                                         *)
(* A key is a number and the half of the buffer that new char[] leaves     *)
(* uninitialised.  Throughput stands for the operation count it is         *)
(* computed from.  A Get is one step: no Put is under way then, which is   *)
(* what FoundKeys depends on.  What Bptree::Print counts next to running  *)
(* backends is arbitrary and not recorded.                                 *)
(***************************************************************************)
EXTENDS HiKV

CONSTANTS
    NumThreads,     \* _options.num_server_threads
    NumKv,          \* _num_kv, of one thread
    Halves          \* what the other half of a fresh key buffer may hold

\* Records are told apart by the thread that puts them and their key; any
\* thread might put any key.
ASSUME RangesAssumption ==
    /\ NumThreads \in Nat \ {0}
    /\ NumKv \in Nat \ {0}
    /\ Servers = 0 .. NumThreads - 1
    /\ Keys = (1 .. NumThreads * NumKv + 2) \X Halves
    /\ Addrs = Servers \X Keys
    /\ KeyOf = [a \in Addrs |-> a[2]]
    /\ Writers = [k \in Keys |-> Servers]

VARIABLES
    main,           \* what main does next
    round,          \* in its first or second half: "put" or "get"
    next_thread,    \* its loop counter
    work,           \* what a benchmark thread runs
    at,             \* i
    found,          \* _found
    asked,          \* history: the keys it has looked for
    g_iops,
    sum_iops,       \* _sum_iops
    printed         \* the sum of each half, and the keys of HashTable::Print

thread_vars == <<work, at, found, asked, g_iops>>
main_vars == <<main, round, next_thread, sum_iops, printed>>
bvars == <<vars, thread_vars, main_vars>>

BInit ==
    /\ Init
    /\ main = "spawn"
    /\ round = "put"
    /\ next_thread = 0
    /\ work = [t \in Servers |-> "none"]
    /\ at = [t \in Servers |-> 0]
    /\ found = [t \in Servers |-> 0]
    /\ asked = [t \in Servers |-> {}]
    /\ g_iops = [t \in Servers |-> 0]
    /\ sum_iops = 0
    /\ printed = [put |-> 0, get |-> 0, num_kv |-> 0]

\* Mutant of Low: the first key is the last of the thread before.
LowShared(t) == t * NumKv

Low(t) == t * NumKv + 1

\* Mutant of Up: the get threads have the range of the put threads.
UpSame(t, r) == (t + 1) * NumKv

Up(t, r) == (t + 1) * NumKv + IF r = "get" THEN 1 ELSE 0

Count(t, r) == Up(t, r) - Low(t) + 1

-----------------------------------------------------------------------------
(* run_put_work and run_get_work *)

\* The key number i + 1 in a fresh buffer.
FreshKeys(t) == {at[t] + 1} \X Halves

PutKey(t) ==
    /\ work[t] = "put"
    /\ at[t] <= Up(t, "put")
    /\ \E k \in FreshKeys(t) : PutInvoke(t, <<t, k>>)
    /\ at' = [at EXCEPT ![t] = @ + 1]
    /\ UNCHANGED <<work, found, asked, g_iops, main_vars>>

\* A found value is compared by its first word, where HashTable::Get has put
\* the start of the record, its key.
Matches(k) == table[k] # NoAddr /\ KeyOf[table[k]][1] = k[1]

GetKey(t) ==
    /\ work[t] = "get"
    /\ at[t] <= Up(t, "get")
    /\ \E k \in FreshKeys(t) :
          /\ asked' = [asked EXCEPT ![t] = @ \cup {k}]
          /\ found' = [found EXCEPT ![t] = @ + IF Matches(k) THEN 1 ELSE 0]
    /\ at' = [at EXCEPT ![t] = @ + 1]
    /\ UNCHANGED <<vars, work, g_iops, main_vars>>

WorkEnds(t) ==
    /\ work[t] \in {"put", "get"}
    /\ pc[t] = "idle"
    /\ at[t] > Up(t, work[t])
    /\ g_iops' = [g_iops EXCEPT ![t] = Count(t, work[t])]
    /\ work' = [work EXCEPT ![t] = "finished"]
    /\ UNCHANGED <<vars, at, found, asked, main_vars>>

-----------------------------------------------------------------------------
(* main *)

NextOr(label) ==
    IF next_thread + 1 < NumThreads
    THEN next_thread' = next_thread + 1 /\ UNCHANGED main
    ELSE next_thread' = 0 /\ main' = label

\* Mutant of Spawn: the last thread is not started.
SpawnAllButLast ==
    /\ main = "spawn"
    /\ work' = IF next_thread + 1 = NumThreads THEN work
               ELSE [work EXCEPT ![next_thread] = round]
    /\ at' = [at EXCEPT ![next_thread] = Low(next_thread)]
    /\ NextOr("join")
    /\ UNCHANGED <<vars, found, asked, g_iops, round, sum_iops, printed>>

Spawn ==
    /\ main = "spawn"
    /\ work' = [work EXCEPT ![next_thread] = round]
    /\ at' = [at EXCEPT ![next_thread] = Low(next_thread)]
    /\ NextOr("join")
    /\ UNCHANGED <<vars, found, asked, g_iops, round, sum_iops, printed>>

\* Mutant of Join: main goes on at once.
JoinNobody ==
    /\ main = "join"
    /\ NextOr("sum")
    /\ UNCHANGED <<vars, thread_vars, round, sum_iops, printed>>

Join ==
    /\ main = "join"
    /\ work[next_thread] = "finished"
    /\ NextOr("sum")
    /\ UNCHANGED <<vars, thread_vars, round, sum_iops, printed>>

\* The sum is printed after the last thread, and starts again from 0.
Sum ==
    LET sum == sum_iops + g_iops[next_thread] IN
    /\ main = "sum"
    /\ NextOr(IF round = "put" THEN "spawn" ELSE "print")
    /\ IF next_thread + 1 < NumThreads
       THEN sum_iops' = sum /\ UNCHANGED <<round, printed>>
       ELSE /\ printed' = [printed EXCEPT ![round] = sum]
            /\ sum_iops' = 0
            /\ round' = "get"
    /\ UNCHANGED <<vars, thread_vars>>

\* HiKV::Print, then the end of main.
PrintStore ==
    /\ main = "print"
    /\ printed' = [printed EXCEPT !.num_kv = Cardinality({k \in Keys : table[k] # NoAddr})]
    /\ main' = "ended"
    /\ UNCHANGED <<vars, thread_vars, round, next_thread, sum_iops>>

-----------------------------------------------------------------------------
InPut(t) == ServerStep(t) /\ UNCHANGED <<thread_vars, main_vars>>

ThreadStep(t) == PutKey(t) \/ GetKey(t) \/ WorkEnds(t) \/ InPut(t)

\* The backends run until main returns.
BackendRuns(b) ==
    /\ main # "ended"
    /\ BackendStep(b)
    /\ UNCHANGED <<thread_vars, main_vars>>

MainStep == Spawn \/ Join \/ Sum \/ PrintStore

BNext ==
    \/ \E t \in Servers : ThreadStep(t)
    \/ \E b \in Backends : BackendRuns(b)
    \/ MainStep

\* Nobody waits for a backend: they may be as slow as they like.
BSpec ==
    /\ BInit
    /\ [][BNext]_bvars
    /\ \A t \in Servers : WF_bvars(ThreadStep(t))
    /\ WF_bvars(MainStep)

-----------------------------------------------------------------------------
(* Properties *)

(***************************************************************************)
(* The ranges of the threads (lines 106-107) keep them off each other's    *)
(* keys: no key is put twice, so that the tree, which orders the puts of   *)
(* two threads as they reach a queue, ends up with the record that the     *)
(* index has.                                                              *)
(***************************************************************************)
TreeMatchesIndex ==
    \A k \in Keys :
        /\ Len(order[k]) <= 1
        /\ ~Pending(k) => tree[k] = table[k]

(***************************************************************************)
(* FOUND is the number of keys the thread asked for that any thread has    *)
(* put and the index has taken: every put is over before the first get,    *)
(* and it is the put with all bytes of the key that counts.  So if the     *)
(* uninitialised halves agree and the index took every key, a get thread   *)
(* finds one key more than its put thread wrote, the first of the next     *)
(* thread, and the last thread misses its last one (line 122).             *)
(***************************************************************************)
FoundIfPut(t) == found[t] = Cardinality({k \in asked[t] : order[k] # <<>>})

PutKeys == {k \in Keys : \E t \in Servers : <<t, k>> \notin fresh}

AllTaken == PutKeys = {k \in Keys : order[k] # <<>>}

HalvesAgree(t) == \A k \in asked[t] : \A j \in PutKeys : k[2] = j[2]

FoundOneMore(t) ==
    AllTaken /\ HalvesAgree(t) => found[t] = IF t = NumThreads - 1 THEN NumKv ELSE NumKv + 1

FoundKeys ==
    main \in {"print", "ended"} => \A t \in Servers : FoundIfPut(t) /\ FoundOneMore(t)

(***************************************************************************)
(* Each printed sum has the figure of every thread for that half, although *)
(* both halves share g_iops: main joins the threads before it adds (lines  *)
(* 110-117 and 125-132).  HashTable::Print counts the accepted keys.       *)
(***************************************************************************)
PrintedTotals ==
    /\ round = "get" => printed.put = NumThreads * NumKv
    /\ main \in {"print", "ended"} => printed.get = NumThreads * (NumKv + 1)
    /\ main = "ended" => printed.num_kv = Cardinality({k \in Keys : order[k] # <<>>})

(***************************************************************************)
(* The benchmark ends, even if no backend ever applies a task.             *)
(***************************************************************************)
LocalBenchmarkEnds == <>(main = "ended")

=============================================================================
