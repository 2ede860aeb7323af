-------------------------- MODULE LocalBenchmarkProofs --------------------------
(***************************************************************************)
(* The benchmark of one machine, for every number of threads, of keys per  *)
(* thread and of backends, and whatever the uninitialised halves hold: the *)
(* ranges of the threads do not meet, the sums are complete, and every key *)
(* that was taken is found.                                                *)
(***************************************************************************)
EXTENDS LocalBenchmark, HiKVProofs, FiniteSetTheorems

-----------------------------------------------------------------------------
(* The store under the benchmark *)

StoreInv == DurableInv /\ AgreeInv /\ OnceInv /\ FollowInv

LEMMA StoreTypeOK == StoreInv => TypeOK
  BY DEF StoreInv, DurableInv

\* Every step of the benchmark is a step of the store or leaves it alone.
LEMMA StepOfStore ==
    ASSUME TypeOK, [BNext]_bvars
    PROVE  [Next]_vars
<1>1. ASSUME NEW t \in Servers, PutKey(t) PROVE Next
  <2>1. PICK k \in FreshKeys(t) : PutInvoke(t, <<t, k>>)
    BY <1>1 DEF PutKey
  <2>2. <<t, k>> \in Addrs
    BY <2>1 DEF PutInvoke, TypeOK
  <2> QED
    BY <2>1, <2>2 DEF Next
<1>2. ASSUME NEW t \in Servers, InPut(t) PROVE Next
  BY <1>2 DEF InPut, Next
<1>3. ASSUME NEW b \in Backends, BackendRuns(b) PROVE Next
  BY <1>3 DEF BackendRuns, Next
<1>4. ASSUME NEW t \in Servers, GetKey(t) \/ WorkEnds(t) PROVE UNCHANGED vars
  BY <1>4 DEF GetKey, WorkEnds
<1>5. CASE MainStep
  BY <1>5 DEF MainStep, Spawn, Join, Sum, PrintStore
<1>6. CASE UNCHANGED bvars
  BY <1>6 DEF bvars
<1> QED
  BY <1>1, <1>2, <1>3, <1>4, <1>5, <1>6 DEF BNext, ThreadStep

LEMMA NextStoreInv == StoreInv /\ [BNext]_bvars => StoreInv'
<1> SUFFICES ASSUME StoreInv, [BNext]_bvars PROVE StoreInv'
  OBVIOUS
<1>1. [Next]_vars
  BY StepOfStore, StoreTypeOK
<1>2. DurableInv' /\ TypeOK /\ TypeOK'
  BY <1>1, NextDurableInv DEF StoreInv, DurableInv
<1> QED
  BY <1>1, <1>2, NextAgreeInv, NextOnceInv, NextFollowInv DEF StoreInv

LEMMA InitStoreInv == Init => StoreInv
  BY InitDurableInv, InitAgreeInv, InitOnceInv, InitFollowInv DEF StoreInv

-----------------------------------------------------------------------------
(* The ranges *)

Extra(r) == IF r = "get" THEN 1 ELSE 0

LEMMA RangeFacts ==
    ASSUME NEW t \in Servers
    PROVE  /\ Low(t) \in Nat
           /\ \A r : Up(t, r) \in Nat /\ Up(t, r) = Low(t) + NumKv - 1 + Extra(r)
           /\ \A r : Count(t, r) = NumKv + Extra(r)
           /\ Low(t) + NumKv <= NumThreads * NumKv + 1
           /\ t + 1 \in Servers => Low(t + 1) = Low(t) + NumKv
           /\ t + 1 \notin Servers => t = NumThreads - 1 /\ Low(t) + NumKv = NumThreads * NumKv + 1
           /\ t \in Nat /\ NumKv \in Nat \ {0}
<1>1. /\ t \in Nat /\ NumThreads \in Nat \ {0} /\ NumKv \in Nat \ {0} /\ t + 1 <= NumThreads
      /\ t + 1 \in Servers \/ t = NumThreads - 1
      /\ t + 1 \notin Servers => t = NumThreads - 1
  BY RangesAssumption
<1>2. t * NumKv \in Nat /\ (t + 1) * NumKv = t * NumKv + NumKv
  BY <1>1
<1>3. ASSUME NEW d \in Nat, NumThreads = t + 1 + d
      PROVE  NumThreads * NumKv = (t + 1) * NumKv + d * NumKv /\ d * NumKv \in Nat
  BY <1>1, <1>3
<1>4. (t + 1) * NumKv <= NumThreads * NumKv /\ NumThreads * NumKv \in Nat
  <2>1. PICK d \in Nat : NumThreads = t + 1 + d
    <3>1. NumThreads - (t + 1) \in Nat /\ NumThreads = t + 1 + (NumThreads - (t + 1))
      BY <1>1
    <3> QED
      BY <3>1
  <2> QED
    BY <1>2, <1>3, <2>1, <1>1
<1>5. \A r : Extra(r) \in {0, 1} /\ Up(t, r) = (t + 1) * NumKv + Extra(r)
  BY DEF Extra, Up
<1> QED
  BY <1>1, <1>2, <1>4, <1>5 DEF Low, Count

\* Two threads' ranges do not meet.
LEMMA RangesApart ==
    ASSUME NEW t \in Servers, NEW u \in Servers, t < u
    PROVE  Low(t) + NumKv <= Low(u)
<1>1. t \in Nat /\ u \in Nat /\ NumKv \in Nat
  BY RangesAssumption
<1>2. PICK d \in Nat : u = t + 1 + d
  <2>1. u - (t + 1) \in Nat /\ u = t + 1 + (u - (t + 1))
    BY <1>1
  <2> QED
    BY <2>1
<1>3. u * NumKv = t * NumKv + NumKv + d * NumKv /\ d * NumKv \in Nat /\ t * NumKv \in Nat
  BY <1>1, <1>2
<1> QED
  BY <1>3, <1>1 DEF Low

-----------------------------------------------------------------------------
(***************************************************************************)
(* What the threads and main do: no thread works while main adds up or     *)
(* prints, and a Put runs only while its thread puts.                      *)
(***************************************************************************)
Started(t) == main # "spawn" \/ t < next_thread

BTypeOK ==
    /\ main \in {"spawn", "join", "sum", "print", "ended"}
    /\ round \in {"put", "get"}
    /\ next_thread \in Servers
    /\ work \in [Servers -> {"none", "put", "get", "finished"}]
    /\ at \in [Servers -> Nat]
    /\ found \in [Servers -> Nat]
    /\ asked \in [Servers -> SUBSET Keys]
    /\ g_iops \in [Servers -> Nat]
    /\ sum_iops \in Nat
    /\ printed = [put |-> printed.put, get |-> printed.get, num_kv |-> printed.num_kv]

Phase ==
    /\ \A t \in Servers : work[t] \in {"put", "get"} => /\ work[t] = round
                                                        /\ main \in {"spawn", "join"}
                                                        /\ Started(t)
    /\ \A t \in Servers : work[t] = "none" => round = "put" /\ ~Started(t)
    /\ \A t \in Servers : work[t] = "finished" => round = "get" \/ Started(t)
    /\ main = "join" => \A t \in Servers : t < next_thread => work[t] = "finished"
    /\ main \in {"sum", "print", "ended"} => \A t \in Servers : work[t] = "finished"
    /\ main \in {"print", "ended"} => round = "get"
    /\ \A t \in Servers : pc[t] # "idle" => work[t] = "put"

AtRange ==
    \A t \in Servers :
        work[t] \in {"put", "get"} => Low(t) <= at[t] /\ at[t] <= Up(t, work[t]) + 1

BaseInv == StoreInv /\ BTypeOK /\ Phase /\ AtRange

LEMMA InitBase == BInit => BTypeOK /\ Phase /\ AtRange
  BY RangesAssumption DEF BInit, Init, BTypeOK, Phase, AtRange, Started

\* The loop counter of main stays inside its loop.
LEMMA LoopCounter ==
    ASSUME BTypeOK, NEW label, NextOr(label)
    PROVE  /\ next_thread' \in Servers
           /\ \/ main' = main /\ next_thread' = next_thread + 1
              \/ /\ main' = label /\ next_thread' = 0
                 /\ \A t \in Servers : t < next_thread \/ t = next_thread
  BY RangesAssumption DEF BTypeOK, NextOr

LEMMA PutKeyBase ==
    ASSUME BaseInv, NEW t \in Servers, PutKey(t)
    PROVE  BTypeOK' /\ Phase' /\ AtRange'
<1>1. /\ work[t] = "put" /\ at[t] <= Up(t, "put") /\ at[t] \in Nat
      /\ \A u \in Servers : at'[u] = IF u = t THEN at[t] + 1 ELSE at[u]
      /\ at' \in [Servers -> Nat]
      /\ UNCHANGED <<work, found, asked, g_iops, main, round, next_thread, sum_iops, printed>>
  BY DEF BaseInv, BTypeOK, PutKey, main_vars
<1>2. \A u \in Servers : u # t => pc'[u] = pc[u]
  BY StoreTypeOK DEF PutKey, PutInvoke, Goto, TypeOK, BaseInv
<1>3. BTypeOK'
  BY <1>1 DEF BaseInv, BTypeOK
<1>4. Phase'
  BY <1>1, <1>2 DEF BaseInv, Phase, Started
<1>5. AtRange'
  BY <1>1, RangeFacts DEF BaseInv, AtRange, BTypeOK
<1> QED
  BY <1>3, <1>4, <1>5

LEMMA GetKeyBase ==
    ASSUME BaseInv, NEW t \in Servers, GetKey(t)
    PROVE  BTypeOK' /\ Phase' /\ AtRange'
<1>1. /\ work[t] = "get" /\ at[t] <= Up(t, "get") /\ at[t] \in Nat
      /\ \A u \in Servers : at'[u] = IF u = t THEN at[t] + 1 ELSE at[u]
      /\ at' \in [Servers -> Nat]
      /\ UNCHANGED <<pc, work, g_iops, main, round, next_thread, sum_iops, printed>>
  BY DEF BaseInv, BTypeOK, GetKey, main_vars, vars
<1>2. PICK k \in FreshKeys(t) :
         /\ asked' = [asked EXCEPT ![t] = @ \cup {k}]
         /\ found' = [found EXCEPT ![t] = @ + IF Matches(k) THEN 1 ELSE 0]
  BY DEF GetKey
<1>3. k \in Keys
  <2>1. at[t] + 1 \in 1 .. NumThreads * NumKv + 2
    <3>1. Low(t) \in Nat /\ Up(t, "get") = Low(t) + NumKv /\ Low(t) + NumKv <= NumThreads * NumKv + 1
      BY RangeFacts DEF Extra
    <3>2. NumThreads * NumKv \in Nat /\ NumKv \in Nat
      BY RangesAssumption
    <3> QED
      BY <1>1, <3>1, <3>2
  <2> QED
    BY <2>1, RangesAssumption DEF FreshKeys
<1>4. BTypeOK'
  BY <1>1, <1>2, <1>3 DEF BaseInv, BTypeOK
<1>5. Phase'
  BY <1>1 DEF BaseInv, Phase, Started
<1>6. AtRange'
  BY <1>1, RangeFacts DEF BaseInv, AtRange, BTypeOK
<1> QED
  BY <1>4, <1>5, <1>6

LEMMA WorkEndsBase ==
    ASSUME BaseInv, NEW t \in Servers, WorkEnds(t)
    PROVE  BTypeOK' /\ Phase' /\ AtRange'
<1>1. /\ work[t] \in {"put", "get"} /\ pc[t] = "idle"
      /\ \A u \in Servers : work'[u] = IF u = t THEN "finished" ELSE work[u]
      /\ work' \in [Servers -> {"none", "put", "get", "finished"}]
      /\ UNCHANGED <<pc, at, found, asked, main, round, next_thread, sum_iops, printed>>
  BY DEF BaseInv, BTypeOK, WorkEnds, main_vars, vars
<1>2. BTypeOK'
  <2>1. Count(t, work[t]) \in Nat
    <3>1. Count(t, work[t]) = NumKv + Extra(work[t]) /\ NumKv \in Nat
      BY RangeFacts
    <3>2. Extra(work[t]) \in Nat
      BY DEF Extra
    <3> QED
      BY <3>1, <3>2
  <2> QED
    BY <1>1, <2>1 DEF BaseInv, BTypeOK, WorkEnds
<1>3. Phase'
  BY <1>1 DEF BaseInv, Phase, Started
<1>4. AtRange'
  BY <1>1 DEF BaseInv, AtRange
<1> QED
  BY <1>2, <1>3, <1>4

LEMMA StoreStepBase ==
    ASSUME BaseInv, (\E t \in Servers : InPut(t)) \/ \E b \in Backends : BackendRuns(b)
    PROVE  BTypeOK' /\ Phase' /\ AtRange'
<1>1. UNCHANGED <<work, at, found, asked, g_iops, main, round, next_thread, sum_iops, printed>>
  BY DEF InPut, BackendRuns, thread_vars, main_vars
<1>2. \A u \in Servers : pc'[u] # "idle" => pc[u] # "idle"
  <2>1. ASSUME NEW t \in Servers, InPut(t) PROVE \A u \in Servers : pc'[u] # "idle" => pc[u] # "idle"
    BY <2>1, StoreTypeOK DEF InPut, ServerStep, AppendKV, IndexPut, IndexRefuses, PushTask,
                             PutReturn, Goto, BaseInv, TypeOK
  <2>2. ASSUME NEW b \in Backends, BackendRuns(b) PROVE pc' = pc
    BY <2>2 DEF BackendRuns, BackendStep, PopTask, ApplyTask
  <2> QED
    BY <2>1, <2>2
<1>3. BTypeOK'
  BY <1>1 DEF BaseInv, BTypeOK
<1>4. Phase'
  BY <1>1, <1>2 DEF BaseInv, Phase, Started
<1>5. AtRange'
  BY <1>1 DEF BaseInv, AtRange
<1> QED
  BY <1>3, <1>4, <1>5

LEMMA SpawnBase ==
    ASSUME BaseInv, Spawn
    PROVE  BTypeOK' /\ Phase' /\ AtRange'
<1>1. /\ main = "spawn" /\ next_thread \in Servers /\ round \in {"put", "get"}
      /\ \A u \in Servers : /\ work'[u] = IF u = next_thread THEN round ELSE work[u]
                            /\ at'[u] = IF u = next_thread THEN Low(u) ELSE at[u]
      /\ work' \in [Servers -> {"none", "put", "get", "finished"}]
      /\ UNCHANGED <<pc, found, asked, g_iops, round, sum_iops, printed>>
  BY DEF BaseInv, BTypeOK, Spawn, vars
<1>2. /\ next_thread' \in Servers
      /\ \/ main' = main /\ next_thread' = next_thread + 1
         \/ /\ main' = "join" /\ next_thread' = 0
            /\ \A t \in Servers : t < next_thread \/ t = next_thread
  BY LoopCounter DEF BaseInv, Spawn
<1>3. Low(next_thread) \in Nat /\ at' \in [Servers -> Nat]
  BY <1>1, RangeFacts DEF Spawn, BaseInv, BTypeOK
<1>4. BTypeOK'
  BY <1>1, <1>2, <1>3 DEF BaseInv, BTypeOK
<1>5. Phase'
  <2>1. \A t \in Servers : t \in Nat /\ (t < next_thread + 1 <=> t < next_thread \/ t = next_thread)
    BY <1>1, RangesAssumption
  <2>2. \A t \in Servers : ~(t < 0)
    BY RangesAssumption
  <2>3. \A t \in Servers : Started(t)' <=> t < next_thread \/ t = next_thread
    BY <1>1, <1>2, <2>1 DEF Started
  <2>4. \A t \in Servers : Started(t) <=> t < next_thread
    BY <1>1 DEF Started
  <2>5. work[next_thread] # "put" /\ pc[next_thread] = "idle"
    BY <1>1, <2>1, <2>4 DEF BaseInv, Phase
  <2> QED
    BY <1>1, <1>2, <2>2, <2>3, <2>4, <2>5 DEF BaseInv, Phase
<1>6. AtRange'
  <2>1. Low(next_thread) <= Up(next_thread, round) + 1
    BY <1>1, RangeFacts DEF Extra
  <2> QED
    BY <1>1, <1>3, <2>1 DEF BaseInv, AtRange
<1> QED
  BY <1>4, <1>5, <1>6

LEMMA JoinBase ==
    ASSUME BaseInv, Join
    PROVE  BTypeOK' /\ Phase' /\ AtRange'
<1>1. /\ main = "join" /\ work[next_thread] = "finished" /\ next_thread \in Servers
      /\ UNCHANGED <<pc, work, at, found, asked, g_iops, round, sum_iops, printed>>
  BY DEF BaseInv, BTypeOK, Join, vars, thread_vars
<1>2. /\ next_thread' \in Servers
      /\ \/ main' = main /\ next_thread' = next_thread + 1
         \/ /\ main' = "sum" /\ next_thread' = 0
            /\ \A t \in Servers : t < next_thread \/ t = next_thread
  BY LoopCounter DEF BaseInv, Join
<1>3. BTypeOK' /\ AtRange'
  BY <1>1, <1>2 DEF BaseInv, BTypeOK, AtRange
<1>4. Phase'
  <2>1. \A t \in Servers : t \in Nat /\ (t < next_thread + 1 <=> t < next_thread \/ t = next_thread)
    BY <1>1, RangesAssumption
  <2>2. \A t \in Servers : Started(t)' /\ Started(t)
    BY <1>1, <1>2 DEF Started
  <2> QED
    BY <1>1, <1>2, <2>1, <2>2 DEF BaseInv, Phase
<1> QED
  BY <1>3, <1>4

LEMMA SumBase ==
    ASSUME BaseInv, Sum
    PROVE  BTypeOK' /\ Phase' /\ AtRange'
<1>1. /\ main = "sum" /\ next_thread \in Servers
      /\ UNCHANGED <<pc, work, at, found, asked, g_iops>>
  BY DEF BaseInv, BTypeOK, Sum, vars, thread_vars
<1>2. /\ next_thread' \in Servers
      /\ \/ main' = main /\ next_thread' = next_thread + 1
         \/ /\ main' = IF round = "put" THEN "spawn" ELSE "print"
            /\ next_thread' = 0
            /\ \A t \in Servers : t < next_thread \/ t = next_thread
  BY LoopCounter DEF BaseInv, Sum
<1>3. next_thread + 1 < NumThreads <=> main' = main
  BY <1>1 DEF Sum, NextOr, BaseInv, BTypeOK
<1>4. /\ main' = main => UNCHANGED <<round, printed>>
      /\ main' # main => round' = "get"
      /\ sum_iops' \in Nat
  BY <1>1, <1>3 DEF Sum, BaseInv, BTypeOK
<1>5. printed' = [put |-> printed'.put, get |-> printed'.get, num_kv |-> printed'.num_kv]
  BY DEF Sum, BaseInv, BTypeOK
<1>6. BTypeOK' /\ AtRange'
  BY <1>1, <1>2, <1>4, <1>5 DEF BaseInv, BTypeOK, AtRange
<1>7. Phase'
  BY <1>1, <1>2, <1>4 DEF BaseInv, Phase, Started, BTypeOK
<1> QED
  BY <1>6, <1>7

LEMMA PrintBase ==
    ASSUME BaseInv, PrintStore
    PROVE  BTypeOK' /\ Phase' /\ AtRange'
<1>1. /\ main = "print" /\ main' = "ended"
      /\ UNCHANGED <<pc, work, at, found, asked, g_iops, round, next_thread, sum_iops>>
  BY DEF PrintStore, vars, thread_vars
<1>2. printed' = [put |-> printed'.put, get |-> printed'.get, num_kv |-> printed'.num_kv]
  BY DEF PrintStore, BaseInv, BTypeOK
<1> QED
  BY <1>1, <1>2 DEF BaseInv, BTypeOK, Phase, AtRange, Started

LEMMA NextBase == BaseInv /\ [BNext]_bvars => BaseInv'
<1> SUFFICES ASSUME BaseInv, [BNext]_bvars PROVE BaseInv'
  OBVIOUS
<1>1. StoreInv'
  BY NextStoreInv DEF BaseInv
<1>2. CASE UNCHANGED bvars
  BY <1>1, <1>2 DEF bvars, vars, thread_vars, main_vars, BaseInv, BTypeOK, Phase, AtRange, Started
<1>3. CASE BNext
  BY <1>1, <1>3, PutKeyBase, GetKeyBase, WorkEndsBase, StoreStepBase, SpawnBase, JoinBase,
     SumBase, PrintBase DEF BaseInv, BNext, ThreadStep, MainStep
<1> QED
  BY <1>2, <1>3

-----------------------------------------------------------------------------
(***************************************************************************)
(* Puts: a thread has put one key of each number of its range up to where  *)
(* it is, and no key of another number; so the ranges being apart, a key   *)
(* is put once and the index has at most one record of it.                 *)
(***************************************************************************)
PutUpTo(t) ==
    IF work[t] = "none" THEN Low(t) ELSE IF work[t] = "put" THEN at[t] ELSE Up(t, "put") + 1

InRange == \A t \in Servers, k \in Keys : <<t, k>> \notin fresh => Low(t) < k[1] /\ k[1] <= PutUpTo(t)

AllPut ==
    \A t \in Servers : \A n \in Nat :
        Low(t) < n /\ n <= PutUpTo(t) => \E k \in Keys : k[1] = n /\ <<t, k>> \notin fresh

OrderedOnce ==
    /\ \A k \in Keys : /\ Len(order[k]) <= 1
                       /\ \A i \in DOMAIN order[k] : order[k][i] \notin fresh /\ KeyOf[order[k][i]] = k
                       /\ tree[k] # NoAddr => Ordered(tree[k])
    /\ \A t \in Servers : /\ pc[t] # "idle" => rec[t][1] = t
                          /\ pc[t] \in {"append", "index"} => order[KeyOf[rec[t]]] = <<>>

PutInv == InRange /\ AllPut /\ OrderedOnce

LEMMA InitPut == BInit => PutInv
<1> SUFFICES ASSUME BInit PROVE PutInv
  OBVIOUS
<1>1. /\ \A t \in Servers, k \in Keys : <<t, k>> \in fresh
      /\ \A t \in Servers : PutUpTo(t) = Low(t) /\ Low(t) \in Nat /\ pc[t] = "idle"
      /\ \A k \in Keys : order[k] = <<>> /\ tree[k] = NoAddr
  BY RangesAssumption, RangeFacts DEF BInit, Init, PutUpTo
<1> QED
  BY <1>1 DEF PutInv, InRange, AllPut, OrderedOnce

LEMMA RecordFacts ==
    /\ \A t \in Servers, k \in Keys : <<t, k>> \in Addrs /\ KeyOf[<<t, k>>] = k
    /\ \A a \in Addrs : a[1] \in Servers /\ a[2] \in Keys /\ a = <<a[1], a[2]>> /\ KeyOf[a] = a[2]
    /\ \A k \in Keys : k[1] \in Nat /\ k = <<k[1], k[2]>>
<1>1. NumThreads * NumKv + 2 \in Nat
  BY RangesAssumption
<1> QED
  BY <1>1, RangesAssumption

LEMMA PutUpToRange ==
    BaseInv => \A t \in Servers : PutUpTo(t) <= Low(t) + NumKv /\ PutUpTo(t) \in Nat
  BY RangeFacts DEF PutUpTo, Extra, BaseInv, AtRange, BTypeOK

\* A key is put by one thread.
LEMMA OnePutter ==
    ASSUME BaseInv, InRange, NEW k \in Keys, NEW t \in Servers, NEW u \in Servers,
           <<t, k>> \notin fresh, <<u, k>> \notin fresh
    PROVE  t = u
<1>1. \A v \in Servers : PutUpTo(v) <= Low(v) + NumKv /\ PutUpTo(v) \in Nat
  BY PutUpToRange
<1>2. /\ Low(t) < k[1] /\ k[1] <= Low(t) + NumKv
      /\ Low(u) < k[1] /\ k[1] <= Low(u) + NumKv
      /\ Low(t) \in Nat /\ Low(u) \in Nat /\ k[1] \in Nat /\ NumKv \in Nat
  BY <1>1, RangeFacts, RecordFacts DEF InRange
<1>3. t < u \/ u < t \/ t = u
  BY RangesAssumption
<1> QED
  BY <1>2, <1>3, RangesApart

LEMMA PutKeyPut ==
    ASSUME BaseInv, PutInv, NEW t \in Servers, PutKey(t)
    PROVE  PutInv'
<1>1. PICK k \in FreshKeys(t) : PutInvoke(t, <<t, k>>)
  BY DEF PutKey
<1>2. /\ work[t] = "put" /\ at[t] <= Up(t, "put") /\ at[t] \in Nat /\ Low(t) <= at[t]
      /\ \A u \in Servers : at'[u] = IF u = t THEN at[t] + 1 ELSE at[u]
      /\ work' = work
  BY DEF BaseInv, BTypeOK, AtRange, PutKey
<1>3. /\ <<t, k>> \in fresh /\ <<t, k>> \in Addrs /\ k \in Keys /\ KeyOf[<<t, k>>] = k
      /\ k[1] = at[t] + 1
      /\ fresh' = fresh \ {<<t, k>>}
      /\ \A u \in Servers : /\ pc'[u] = (IF u = t THEN "append" ELSE pc[u])
                            /\ rec'[u] = (IF u = t THEN <<t, k>> ELSE rec[u])
      /\ UNCHANGED <<tree, order>>
  BY <1>1, StoreTypeOK, RecordFacts DEF PutInvoke, Goto, BaseInv, TypeOK, FreshKeys
<1>4. \A u \in Servers : PutUpTo(u)' = IF u = t THEN PutUpTo(t) + 1 ELSE PutUpTo(u)
  BY <1>2 DEF PutUpTo
<1>5. PutUpTo(t) = at[t]
  BY <1>2 DEF PutUpTo
<1>6. InRange'
  <2> SUFFICES ASSUME NEW u \in Servers, NEW j \in Keys, <<u, j>> \notin fresh'
               PROVE  Low(u) < j[1] /\ j[1] <= PutUpTo(u)'
    BY DEF InRange
  <2>1. CASE <<u, j>> \notin fresh
    <3>1. Low(u) < j[1] /\ j[1] <= PutUpTo(u) /\ j[1] \in Nat
      BY <2>1, RecordFacts DEF PutInv, InRange
    <3> QED
      BY <1>2, <1>4, <1>5, <3>1
  <2>2. CASE <<u, j>> \in fresh
    <3>1. u = t /\ j = k
      BY <1>3, <2>2
    <3>2. Low(t) \in Nat
      BY RangeFacts
    <3> QED
      BY <1>2, <1>3, <1>4, <1>5, <3>1, <3>2
  <2> QED
    BY <2>1, <2>2
<1>7. AllPut'
  <2> SUFFICES ASSUME NEW u \in Servers, NEW n \in Nat, Low(u) < n, n <= PutUpTo(u)'
               PROVE  \E j \in Keys : j[1] = n /\ <<u, j>> \notin fresh'
    BY DEF AllPut
  <2>1. CASE n <= PutUpTo(u)
    <3>1. PICK j \in Keys : j[1] = n /\ <<u, j>> \notin fresh
      BY <2>1 DEF PutInv, AllPut
    <3> QED
      BY <1>3, <3>1
  <2>2. CASE ~(n <= PutUpTo(u))
    <3>1. u = t /\ n = at[t] + 1
      BY <1>2, <1>4, <1>5, <2>2
    <3> QED
      BY <1>3, <3>1
  <2> QED
    BY <2>1, <2>2
<1>8. order[k] = <<>>
  <2>1. ASSUME order[k] # <<>> PROVE FALSE
    <3>1. order[k] \in Seq(Addrs) /\ 1 \in DOMAIN order[k] /\ order[k][1] \in Addrs
      BY <1>3, <2>1, StoreTypeOK DEF BaseInv, TypeOK
    <3>2. order[k][1] \notin fresh /\ KeyOf[order[k][1]] = k
      BY <1>3, <3>1 DEF PutInv, OrderedOnce
    <3>3. PICK u \in Servers : order[k][1] = <<u, k>>
      BY <3>1, <3>2, RecordFacts
    <3>4. Low(u) < k[1] /\ k[1] <= PutUpTo(u)
      BY <1>3, <3>2, <3>3 DEF PutInv, InRange
    <3>5. u # t
      BY <1>2, <1>3, <1>5, <3>4
    <3>6. PutUpTo(u) <= Low(u) + NumKv /\ PutUpTo(u) \in Nat
      BY PutUpToRange
    <3>7. k[1] <= Low(t) + NumKv /\ Low(t) < k[1]
      BY <1>2, <1>3, RangeFacts DEF Extra
    <3>8. t < u \/ u < t
      BY <3>5, RangesAssumption
    <3>9. Low(t) \in Nat /\ Low(u) \in Nat /\ NumKv \in Nat /\ k[1] \in Nat
      BY <1>3, RangeFacts, RecordFacts
    <3> QED
      BY <3>4, <3>6, <3>7, <3>8, <3>9, RangesApart
  <2> QED
    BY <2>1
<1>9. OrderedOnce'
  <2>1. \A j \in Keys : /\ Len(order[j]) <= 1
                        /\ \A i \in DOMAIN order[j] : order[j][i] \notin fresh' /\ KeyOf[order[j][i]] = j
                        /\ tree[j] # NoAddr => Ordered(tree[j])'
    BY <1>3 DEF PutInv, OrderedOnce, Ordered
  <2>2. \A u \in Servers : /\ pc'[u] # "idle" => rec'[u][1] = u
                           /\ pc'[u] \in {"append", "index"} => order[KeyOf[rec'[u]]] = <<>>
    BY <1>3, <1>8 DEF PutInv, OrderedOnce
  <2> QED
    BY <1>3, <2>1, <2>2 DEF OrderedOnce, Ordered
<1> QED
  BY <1>6, <1>7, <1>9 DEF PutInv

\* A step that puts no key and gives no record to the index.
LEMMA OtherStepPut ==
    ASSUME BaseInv, PutInv, UNCHANGED <<fresh, order>>,
           \A t \in Servers : PutUpTo(t)' = PutUpTo(t),
           \A t \in Servers : pc'[t] # "idle" =>
               /\ pc[t] # "idle" /\ rec'[t] = rec[t]
               /\ pc'[t] \in {"append", "index"} => pc[t] \in {"append", "index"},
           \A k \in Keys : tree'[k] # NoAddr => tree'[k] = tree[k] \/ Ordered(tree'[k])
    PROVE  PutInv'
<1>1. InRange' /\ AllPut'
  BY DEF PutInv, InRange, AllPut
<1>2. \A k \in Keys : tree'[k] # NoAddr => Ordered(tree[k])'
  BY DEF PutInv, OrderedOnce, Ordered
<1>3. \A k \in Keys : /\ Len(order'[k]) <= 1
                      /\ \A i \in DOMAIN order'[k] : order'[k][i] \notin fresh' /\ KeyOf[order'[k][i]] = k
  BY DEF PutInv, OrderedOnce
<1>4. \A t \in Servers : /\ pc'[t] # "idle" => rec'[t][1] = t
                         /\ pc'[t] \in {"append", "index"} => order'[KeyOf[rec'[t]]] = <<>>
  BY DEF PutInv, OrderedOnce
<1> QED
  BY <1>1, <1>2, <1>3, <1>4 DEF PutInv, OrderedOnce

LEMMA IndexPutPut ==
    ASSUME BaseInv, PutInv, NEW t \in Servers, IndexPut(t), UNCHANGED <<work, at>>
    PROVE  PutInv'
<1> DEFINE k == KeyOf[rec[t]]
<1>1. /\ pc[t] = "index" /\ rec[t] \in Addrs \ fresh /\ rec[t][1] = t /\ order[k] = <<>>
      /\ k \in Keys /\ rec[t] = <<t, k>>
  <2>1. pc[t] = "index"
    BY DEF IndexPut
  <2>2. rec[t] \in Addrs \ fresh /\ rec[t][1] = t /\ order[k] = <<>>
    BY <2>1, StoreTypeOK DEF BaseInv, TypeOK, PutInv, OrderedOnce
  <2> QED
    BY <2>1, <2>2, RecordFacts
<1>2. /\ order'[k] = <<rec[t]>>
      /\ \A j \in Keys \ {k} : order'[j] = order[j]
      /\ \A u \in Servers : pc'[u] = IF u = t THEN "push" ELSE pc[u]
      /\ UNCHANGED <<fresh, rec, tree>>
  BY <1>1, StoreTypeOK DEF IndexPut, Goto, BaseInv, TypeOK
<1>3. InRange' /\ AllPut'
  BY <1>2 DEF PutInv, InRange, AllPut, PutUpTo
<1>4. \A j \in Keys : /\ Len(order'[j]) <= 1
                      /\ \A i \in DOMAIN order'[j] : order'[j][i] \notin fresh' /\ KeyOf[order'[j][i]] = j
  <2>1. Len(<<rec[t]>>) = 1 /\ \A i \in DOMAIN <<rec[t]>> : <<rec[t]>>[i] = rec[t]
    OBVIOUS
  <2> QED
    BY <1>1, <1>2, <2>1 DEF PutInv, OrderedOnce
<1>5. \A j \in Keys : tree'[j] # NoAddr => Ordered(tree[j])'
  <2> SUFFICES ASSUME NEW j \in Keys, tree[j] # NoAddr PROVE Ordered(tree[j])'
    BY <1>2
  <2>1. Ordered(tree[j]) /\ tree[j] \in Addrs /\ KeyOf[tree[j]] \in Keys
    BY StoreTypeOK, RecordAssumption DEF PutInv, OrderedOnce, BaseInv, TypeOK
  <2>2. KeyOf[tree[j]] # k
    BY <1>1, <2>1 DEF Ordered
  <2> QED
    BY <1>2, <2>1, <2>2 DEF Ordered
<1>6. \A u \in Servers : /\ pc'[u] # "idle" => rec'[u][1] = u
                         /\ pc'[u] \in {"append", "index"} => order'[KeyOf[rec'[u]]] = <<>>
  <2> SUFFICES ASSUME NEW u \in Servers, pc'[u] # "idle"
               PROVE  /\ rec'[u][1] = u
                      /\ pc'[u] \in {"append", "index"} => order'[KeyOf[rec'[u]]] = <<>>
    OBVIOUS
  <2>1. CASE u = t
    BY <1>1, <1>2, <2>1
  <2>2. CASE u # t
    <3>1. pc[u] # "idle" /\ pc'[u] = pc[u] /\ rec'[u] = rec[u]
      BY <1>2, <2>2
    <3>2. rec[u] \in Addrs \ fresh /\ rec[u][1] = u /\ rec[u] = <<u, KeyOf[rec[u]]>> /\ KeyOf[rec[u]] \in Keys
      BY <3>1, StoreTypeOK, RecordFacts DEF BaseInv, TypeOK, PutInv, OrderedOnce
    <3>3. KeyOf[rec[u]] # k
      BY <1>1, <2>2, <3>2, OnePutter DEF PutInv
    <3> QED
      BY <1>2, <3>1, <3>2, <3>3 DEF PutInv, OrderedOnce
  <2> QED
    BY <2>1, <2>2
<1> QED
  BY <1>3, <1>4, <1>5, <1>6 DEF PutInv, OrderedOnce

LEMMA StoreStepPut ==
    ASSUME BaseInv, PutInv, (\E t \in Servers : InPut(t)) \/ \E b \in Backends : BackendRuns(b)
    PROVE  PutInv'
<1>1. UNCHANGED <<work, at>>
  BY DEF InPut, BackendRuns, thread_vars
<1>2. \A t \in Servers : PutUpTo(t)' = PutUpTo(t)
  BY <1>1 DEF PutUpTo
<1>3. TypeOK
  BY StoreTypeOK DEF BaseInv
<1>4. ASSUME NEW t \in Servers, AppendKV(t) \/ IndexRefuses(t) \/ PushTask(t) PROVE PutInv'
  <2>1. /\ UNCHANGED <<fresh, order, tree>>
        /\ \A u \in Servers : pc'[u] # "idle" =>
             /\ pc[u] # "idle" /\ rec'[u] = rec[u]
             /\ pc'[u] \in {"append", "index"} => pc[u] \in {"append", "index"}
    BY <1>3, <1>4 DEF AppendKV, IndexRefuses, PushTask, PutReturn, Goto, TypeOK
  <2> QED
    BY <1>2, <2>1, OtherStepPut
<1>5. ASSUME NEW b \in Backends, PopTask(b) PROVE PutInv'
  BY <1>2, <1>5, OtherStepPut DEF PopTask
<1>6. ASSUME NEW b \in Backends, ApplyTask(b) PROVE PutInv'
  <2>1. \A k \in Keys : tree'[k] = tree[k] \/ tree'[k] = task[b]
    BY <1>3, <1>6 DEF ApplyTask, TypeOK
  <2>2. Ordered(task[b])
    BY <1>6 DEF ApplyTask, BaseInv, StoreInv, OnceInv, AllOrdered
  <2>3. UNCHANGED <<fresh, order, pc, rec>>
    BY <1>6 DEF ApplyTask
  <2> QED
    BY <1>2, <2>1, <2>2, <2>3, OtherStepPut
<1> QED
  BY <1>1, <1>4, <1>5, <1>6, IndexPutPut DEF InPut, ServerStep, BackendRuns, BackendStep

LEMMA NextPut == BaseInv /\ PutInv /\ [BNext]_bvars => PutInv'
<1> SUFFICES ASSUME BaseInv, PutInv, [BNext]_bvars PROVE PutInv'
  OBVIOUS
<1>1. ASSUME UNCHANGED vars, \A t \in Servers : PutUpTo(t)' = PutUpTo(t) PROVE PutInv'
  BY <1>1, OtherStepPut DEF vars
<1>2. CASE UNCHANGED bvars
  BY <1>1, <1>2 DEF bvars, thread_vars, PutUpTo
<1>3. ASSUME NEW t \in Servers, GetKey(t) PROVE PutInv'
  BY <1>1, <1>3 DEF GetKey, PutUpTo, BaseInv, BTypeOK
<1>4. ASSUME NEW t \in Servers, WorkEnds(t) PROVE PutInv'
  <2>1. work[t] = "put" => at[t] = Up(t, "put") + 1
    BY <1>4, RangeFacts DEF WorkEnds, BaseInv, AtRange, BTypeOK, Extra
  <2> QED
    BY <1>1, <1>4, <2>1 DEF WorkEnds, PutUpTo, BaseInv, BTypeOK
<1>5. CASE Spawn
  <2>1. (work[next_thread] = "none" /\ round = "put") \/ (work[next_thread] = "finished" /\ round = "get")
    <3>1. next_thread \in Servers /\ ~(next_thread < next_thread) /\ main = "spawn"
      BY <1>5, RangesAssumption DEF Spawn, BaseInv, BTypeOK
    <3>2. work[next_thread] \in {"none", "finished"} /\ round \in {"put", "get"}
      BY <3>1 DEF BaseInv, BTypeOK, Phase, Started
    <3> QED
      BY <3>1, <3>2 DEF BaseInv, Phase, Started
  <2> QED
    BY <1>1, <1>5, <2>1 DEF Spawn, PutUpTo, BaseInv, BTypeOK
<1>6. CASE Join \/ Sum \/ PrintStore
  BY <1>1, <1>6 DEF Join, Sum, PrintStore, thread_vars, PutUpTo
<1> QED
  BY <1>2, <1>3, <1>4, <1>5, <1>6, PutKeyPut, StoreStepPut DEF BNext, ThreadStep, MainStep

\* What the index has taken of a key is what the history has.
LEMMA IndexedOrdered ==
    ASSUME BaseInv, NEW k \in Keys
    PROVE  table[k] # NoAddr <=> order[k] # <<>>
<1>1. order[k] \in Seq(Addrs)
  BY StoreTypeOK DEF BaseInv, TypeOK
<1>2. order[k] # <<>> => Len(order[k]) \in DOMAIN order[k] /\ order[k][Len(order[k])] \in Addrs
  BY <1>1
<1> QED
  BY <1>2, RecordAssumption DEF BaseInv, StoreInv, FollowInv, IndexIsLast

(***************************************************************************)
(* No two Puts are of one key (benchmark/example/example.cc:106-107), so   *)
(* the index has at most one record of a key, and the tree has that one    *)
(* when no task of the key is pending.                                     *)
(***************************************************************************)
THEOREM TreeMatchesIndexHolds == BSpec => []TreeMatchesIndex
<1>1. BInit => BaseInv /\ PutInv
  BY InitBase, InitPut, InitStoreInv DEF BInit, BaseInv
<1>2. BaseInv /\ PutInv /\ [BNext]_bvars => (BaseInv /\ PutInv)'
  BY NextBase, NextPut
<1>3. BaseInv /\ PutInv => TreeMatchesIndex
  <2> SUFFICES ASSUME BaseInv, PutInv, NEW k \in Keys, ~Pending(k) PROVE tree[k] = table[k]
    BY DEF TreeMatchesIndex, PutInv, OrderedOnce
  <2>1. TypeOK /\ AgreeInv /\ IndexIsLast
    BY StoreTypeOK DEF BaseInv, StoreInv, FollowInv
  <2>2. /\ tree[k] # NoAddr <=> table[k] # NoAddr
        /\ tree[k] # NoAddr => KeyOf[tree[k]] = k
    BY <2>1, PendingPlaces DEF AgreeInv, KeyInv
  <2>3. ASSUME tree[k] # NoAddr PROVE tree[k] = table[k]
    <3>1. PICK i \in DOMAIN order[k] : order[k][i] = tree[k]
      BY <2>2, <2>3 DEF PutInv, OrderedOnce, Ordered
    <3>2. order[k] \in Seq(Addrs) /\ Len(order[k]) <= 1
      BY <2>1 DEF TypeOK, PutInv, OrderedOnce
    <3>3. i = Len(order[k]) /\ order[k] # <<>>
      BY <3>1, <3>2
    <3> QED
      BY <2>1, <3>1, <3>3 DEF IndexIsLast
  <2> QED
    BY <2>2, <2>3
<1> QED
  BY <1>1, <1>2, <1>3, PTL DEF BSpec

-----------------------------------------------------------------------------
(***************************************************************************)
(* The sums: a thread that is done with a half has left the figure of that *)
(* half, and main adds no figure before it is there.                       *)
(***************************************************************************)
Done(t) == work[t] = "finished" /\ Started(t)

SumInv ==
    /\ \A t \in Servers : Done(t) => g_iops[t] = NumKv + Extra(round)
    /\ main \in {"spawn", "join"} => sum_iops = 0
    /\ main = "sum" => sum_iops = next_thread * (NumKv + Extra(round))
    /\ PrintedTotals

LEMMA InitSum == BInit => SumInv
  BY RangesAssumption DEF BInit, Init, SumInv, Done, PrintedTotals

LEMMA ExtraFacts ==
    /\ NumKv \in Nat /\ NumThreads \in Nat
    /\ Extra("put") = 0 /\ Extra("get") = 1
    /\ \A r : NumKv + Extra(r) \in Nat
    /\ \A n, m \in Nat : n * m \in Nat /\ (n + 1) * m = n * m + m
    /\ \A m \in Nat : 0 * m = 0
<1>1. NumKv \in Nat /\ NumThreads \in Nat
  BY RangesAssumption
<1>2. Extra("put") = 0 /\ Extra("get") = 1 /\ \A r : Extra(r) \in {0, 1}
  BY DEF Extra
<1>3. \A n, m \in Nat : n * m \in Nat /\ (n + 1) * m = n * m + m
  OBVIOUS
<1>4. \A m \in Nat : 0 * m = 0
  OBVIOUS
<1> QED
  BY <1>1, <1>2, <1>3, <1>4

\* A Put is under way only while main starts or joins the threads.
LEMMA PutsEarly ==
    ASSUME BaseInv, NEW t \in Servers, PutKey(t) \/ InPut(t)
    PROVE  main \in {"spawn", "join"} /\ round = "put"
<1>1. work[t] = "put"
  BY DEF PutKey, InPut, ServerStep, AppendKV, IndexPut, IndexRefuses, PushTask, BaseInv, Phase
<1> QED
  BY <1>1 DEF BaseInv, Phase

LEMMA SumSum ==
    ASSUME BaseInv, SumInv, Sum
    PROVE  SumInv'
<1>1. /\ main = "sum" /\ next_thread \in Servers /\ round \in {"put", "get"}
      /\ \A t \in Servers : work[t] = "finished" /\ Done(t)
      /\ UNCHANGED <<work, g_iops, order>>
  BY DEF BaseInv, BTypeOK, Phase, Sum, Done, Started, vars, thread_vars
<1>2. g_iops[next_thread] = NumKv + Extra(round) /\ sum_iops = next_thread * (NumKv + Extra(round))
  BY <1>1 DEF SumInv
<1>3. next_thread \in Nat /\ NumThreads \in Nat /\ next_thread < NumThreads
  BY <1>1, RangesAssumption
<1>4. sum_iops + g_iops[next_thread] = (next_thread + 1) * (NumKv + Extra(round))
  BY <1>2, <1>3, ExtraFacts
<1>5. CASE next_thread + 1 < NumThreads
  <2>1. UNCHANGED <<main, round, printed>> /\ next_thread' = next_thread + 1
        /\ sum_iops' = sum_iops + g_iops[next_thread]
    BY <1>5 DEF Sum, NextOr
  <2> QED
    BY <1>1, <1>4, <2>1 DEF SumInv, PrintedTotals, Done, Started
<1>6. CASE ~(next_thread + 1 < NumThreads)
  <2>1. /\ main' = IF round = "put" THEN "spawn" ELSE "print"
        /\ next_thread' = 0 /\ sum_iops' = 0 /\ round' = "get"
        /\ printed' = [printed EXCEPT ![round] = sum_iops + g_iops[next_thread]]
    BY <1>6 DEF Sum, NextOr
  <2>2. next_thread + 1 = NumThreads
    BY <1>3, <1>6
  <2>3. printed = [put |-> printed.put, get |-> printed.get, num_kv |-> printed.num_kv]
    BY DEF BaseInv, BTypeOK
  <2>4. CASE round = "put"
    <3>1. printed'.put = NumThreads * NumKv
      BY <1>4, <2>1, <2>2, <2>3, <2>4, ExtraFacts
    <3>2. \A t \in Servers : ~Done(t)'
      BY <2>1, <2>4, RangesAssumption DEF Done, Started
    <3> QED
      BY <2>1, <2>4, <3>1, <3>2 DEF SumInv, PrintedTotals
  <2>5. CASE round = "get"
    <3>1. printed'.get = NumThreads * (NumKv + 1) /\ printed'.put = printed.put
      BY <1>4, <2>1, <2>2, <2>3, <2>5, ExtraFacts
    <3> QED
      BY <1>1, <2>1, <2>5, <3>1 DEF SumInv, PrintedTotals
  <2> QED
    BY <1>1, <2>4, <2>5
<1> QED
  BY <1>5, <1>6

LEMMA NextSum == BaseInv /\ SumInv /\ [BNext]_bvars => SumInv'
<1> SUFFICES ASSUME BaseInv, SumInv, [BNext]_bvars PROVE SumInv'
  OBVIOUS
<1>1. CASE UNCHANGED bvars
  BY <1>1 DEF bvars, vars, thread_vars, main_vars, SumInv, PrintedTotals, Done, Started
<1>2. ASSUME NEW t \in Servers, PutKey(t) \/ InPut(t) PROVE SumInv'
  <2>1. UNCHANGED <<work, g_iops, main, round, next_thread, sum_iops, printed>>
    BY <1>2 DEF PutKey, InPut, thread_vars, main_vars
  <2>2. main \in {"spawn", "join"}
    BY <1>2, PutsEarly
  <2> QED
    BY <2>1, <2>2 DEF SumInv, PrintedTotals, Done, Started
<1>3. ASSUME NEW t \in Servers, GetKey(t) PROVE SumInv'
  BY <1>3 DEF GetKey, vars, main_vars, SumInv, PrintedTotals, Done, Started
<1>4. ASSUME NEW t \in Servers, WorkEnds(t) PROVE SumInv'
  <2>1. /\ UNCHANGED <<order, main, round, next_thread, sum_iops, printed>>
        /\ work[t] = round
        /\ \A u \in Servers : g_iops'[u] = IF u = t THEN Count(t, round) ELSE g_iops[u]
        /\ \A u \in Servers : u # t => work'[u] = work[u]
    BY <1>4 DEF WorkEnds, vars, main_vars, BaseInv, Phase, BTypeOK
  <2>2. Count(t, round) = NumKv + Extra(round)
    BY RangeFacts
  <2> QED
    BY <2>1, <2>2 DEF SumInv, PrintedTotals, Done, Started
<1>5. ASSUME NEW b \in Backends, BackendRuns(b) PROVE SumInv'
  <2>1. UNCHANGED <<work, g_iops, main, round, next_thread, sum_iops, printed, order>>
    BY <1>5 DEF BackendRuns, BackendStep, PopTask, ApplyTask, thread_vars, main_vars
  <2> QED
    BY <2>1 DEF SumInv, PrintedTotals, Done, Started
<1>6. CASE Spawn
  <2>1. /\ main = "spawn" /\ next_thread \in Servers
        /\ \A u \in Servers : work'[u] = IF u = next_thread THEN round ELSE work[u]
        /\ round # "finished"
        /\ UNCHANGED <<g_iops, order, round, sum_iops, printed>>
    BY <1>6 DEF BaseInv, BTypeOK, Spawn, vars
  <2>2. \/ main' = main /\ next_thread' = next_thread + 1
        \/ /\ main' = "join" /\ next_thread' = 0
           /\ \A t \in Servers : t < next_thread \/ t = next_thread
    BY <1>6, LoopCounter DEF BaseInv, Spawn
  <2>3. \A t \in Servers : Done(t)' => Done(t)
    <3>1. \A t \in Servers : t < next_thread + 1 <=> t < next_thread \/ t = next_thread
      BY <2>1, RangesAssumption
    <3> QED
      BY <2>1, <2>2, <3>1 DEF Done, Started
  <2> QED
    BY <2>1, <2>2, <2>3 DEF SumInv, PrintedTotals
<1>7. CASE Join
  <2>1. /\ main = "join"
        /\ UNCHANGED <<work, g_iops, order, round, sum_iops, printed>>
    BY <1>7 DEF Join, vars, thread_vars
  <2>2. \/ main' = main /\ next_thread' = next_thread + 1
        \/ main' = "sum" /\ next_thread' = 0
    BY <1>7, LoopCounter DEF BaseInv, Join
  <2>3. 0 * (NumKv + Extra(round)) = 0
    BY ExtraFacts
  <2> QED
    BY <2>1, <2>2, <2>3 DEF SumInv, PrintedTotals, Done, Started
<1>8. CASE PrintStore
  <2>1. /\ main = "print" /\ main' = "ended" /\ round = "get"
        /\ UNCHANGED <<work, g_iops, order, round, sum_iops>>
        /\ printed' = [printed EXCEPT !.num_kv = Cardinality({k \in Keys : table[k] # NoAddr})]
        /\ printed = [put |-> printed.put, get |-> printed.get, num_kv |-> printed.num_kv]
    BY <1>8 DEF PrintStore, vars, thread_vars, BaseInv, BTypeOK, Phase
  <2>2. {k \in Keys : table[k] # NoAddr} = {k \in Keys : order[k] # <<>>}
    BY IndexedOrdered
  <2> QED
    BY <2>1, <2>2 DEF SumInv, PrintedTotals, Done, Started
<1> QED
  BY <1>1, <1>2, <1>3, <1>4, <1>5, <1>6, <1>7, <1>8, SumSum DEF BNext, ThreadStep, MainStep

LEMMA BaseAlways == BSpec => []BaseInv
<1>1. BInit => BaseInv
  BY InitBase, InitStoreInv DEF BInit, BaseInv
<1> QED
  BY <1>1, NextBase, PTL DEF BSpec

(***************************************************************************)
(* The printed sums are those of all threads, each of the half that is     *)
(* printed (benchmark/example/example.cc:110-117, 125-132): no thread is   *)
(* added before it has ended, none is missed, and the second half starts   *)
(* from 0.  The number of keys is that of the puts that were taken.        *)
(***************************************************************************)
THEOREM PrintedTotalsHolds == BSpec => []PrintedTotals
<1>1. SumInv => PrintedTotals
  BY DEF SumInv
<1> QED
  BY <1>1, BaseAlways, InitSum, NextSum, PTL DEF BSpec

-----------------------------------------------------------------------------
(***************************************************************************)
(* Gets: a thread has asked for one key of each number of its range up to  *)
(* where it is, and found those of them that the index has.                *)
(***************************************************************************)
GetUpTo(t) ==
    IF round = "put" \/ ~Started(t) THEN Low(t)
    ELSE IF work[t] = "get" THEN at[t] ELSE Up(t, "get") + 1

AskedOnce(t) ==
    /\ IsFiniteSet(asked[t])
    /\ Cardinality(asked[t]) = GetUpTo(t) - Low(t)
    /\ \A k \in asked[t] : Low(t) < k[1] /\ k[1] <= GetUpTo(t)
    /\ \A j, k \in asked[t] : j[1] = k[1] => j = k
    /\ \A n \in Nat : Low(t) < n /\ n <= GetUpTo(t) => \E k \in asked[t] : k[1] = n

AskedInv == \A t \in Servers : AskedOnce(t) /\ FoundIfPut(t)

LEMMA InitAsked == BInit => AskedInv
<1> SUFFICES ASSUME BInit, NEW t \in Servers PROVE AskedOnce(t) /\ FoundIfPut(t)
  BY DEF AskedInv
<1>1. asked[t] = {} /\ GetUpTo(t) = Low(t) /\ found[t] = 0 /\ Low(t) \in Nat
  BY RangeFacts DEF BInit, GetUpTo
<1>2. {k \in asked[t] : order[k] # <<>>} = {}
  BY <1>1
<1> QED
  BY <1>1, <1>2, FS_EmptySet DEF AskedOnce, FoundIfPut

\* A step that asks for no key.
LEMMA OtherStepAsked ==
    ASSUME BaseInv, AskedInv, UNCHANGED <<asked, found>>,
           \A t \in Servers : GetUpTo(t)' = GetUpTo(t),
           UNCHANGED order \/ round = "put"
    PROVE  AskedInv'
<1> SUFFICES ASSUME NEW t \in Servers PROVE AskedOnce(t)' /\ FoundIfPut(t)'
  BY DEF AskedInv
<1>1. AskedOnce(t)'
  BY DEF AskedInv, AskedOnce
<1>2. FoundIfPut(t)'
  <2>1. CASE UNCHANGED order
    BY <2>1 DEF AskedInv, FoundIfPut
  <2>2. CASE round = "put"
    <3>1. Low(t) \in Nat /\ GetUpTo(t) = Low(t) /\ asked[t] \in SUBSET Keys
      BY <2>2, RangeFacts DEF GetUpTo, BaseInv, BTypeOK
    <3>2. asked[t] = {}
      BY <3>1, RecordFacts DEF AskedInv, AskedOnce
    <3>3. {k \in asked[t] : order[k] # <<>>} = {} /\ {k \in asked[t] : order'[k] # <<>>} = {}
      BY <3>2
    <3> QED
      BY <3>3 DEF AskedInv, FoundIfPut
  <2> QED
    BY <2>1, <2>2
<1> QED
  BY <1>1, <1>2

\* What HashTable::Get finds is there if and only if the index took the key.
LEMMA MatchesOrdered ==
    ASSUME BaseInv, PutInv, NEW k \in Keys
    PROVE  Matches(k) <=> order[k] # <<>>
<1>1. order[k] \in Seq(Addrs)
  BY StoreTypeOK DEF BaseInv, TypeOK
<1>2. ASSUME order[k] # <<>> PROVE KeyOf[table[k]] = k
  <2>1. Len(order[k]) \in DOMAIN order[k] /\ table[k] = order[k][Len(order[k])]
    BY <1>1, <1>2 DEF BaseInv, StoreInv, FollowInv, IndexIsLast
  <2> QED
    BY <2>1 DEF PutInv, OrderedOnce
<1> QED
  BY <1>2, IndexedOrdered DEF Matches

LEMMA GetKeyAsked ==
    ASSUME BaseInv, BaseInv', PutInv, AskedInv, NEW t \in Servers, GetKey(t)
    PROVE  AskedInv'
<1>1. PICK k \in FreshKeys(t) : /\ asked' = [asked EXCEPT ![t] = @ \cup {k}]
                                /\ found' = [found EXCEPT ![t] = @ + IF Matches(k) THEN 1 ELSE 0]
  BY DEF GetKey
<1>2. /\ work[t] = "get" /\ work' = work /\ order' = order /\ round = "get" /\ Started(t)
      /\ at[t] \in Nat /\ k[1] = at[t] + 1
      /\ \A u \in Servers : at'[u] = IF u = t THEN at[t] + 1 ELSE at[u]
      /\ \A u \in Servers : Started(u)' <=> Started(u)
      /\ round' = round
  BY DEF GetKey, FreshKeys, BaseInv, BTypeOK, Phase, Started, main_vars, vars
<1>3. /\ asked'[t] = asked[t] \cup {k}
      /\ found'[t] = found[t] + IF Matches(k) THEN 1 ELSE 0
      /\ asked[t] \subseteq Keys /\ k \in Keys
      /\ \A u \in Servers \ {t} : asked'[u] = asked[u] /\ found'[u] = found[u]
  <2>1. asked'[t] = asked[t] \cup {k} /\ asked'[t] \subseteq Keys
    BY <1>1 DEF BaseInv, BTypeOK
  <2> QED
    BY <1>1, <2>1 DEF BaseInv, BTypeOK
<1>4. GetUpTo(t) = at[t] /\ GetUpTo(t)' = at[t] + 1
  BY <1>2 DEF GetUpTo
<1>5. /\ IsFiniteSet(asked[t]) /\ Cardinality(asked[t]) = at[t] - Low(t)
      /\ \A j \in asked[t] : Low(t) < j[1] /\ j[1] <= at[t] /\ j[1] \in Nat
      /\ Low(t) \in Nat /\ Low(t) <= at[t]
  BY <1>2, <1>3, <1>4, RangeFacts, RecordFacts DEF AskedInv, AskedOnce, BaseInv, AtRange
<1>6. k \notin asked[t]
  BY <1>2, <1>5
<1>7. AskedOnce(t)'
  <2>1. IsFiniteSet(asked'[t]) /\ Cardinality(asked'[t]) = at[t] + 1 - Low(t)
    <3>1. /\ IsFiniteSet(asked[t] \cup {k})
          /\ Cardinality(asked[t] \cup {k}) = Cardinality(asked[t]) + 1
      BY <1>5, <1>6, FS_AddElement
    <3> QED
      BY <1>2, <1>3, <1>5, <3>1
  <2>2. \A j \in asked'[t] : Low(t) < j[1] /\ j[1] <= at[t] + 1
    BY <1>2, <1>3, <1>5
  <2>3. \A j, l \in asked'[t] : j[1] = l[1] => j = l
    BY <1>2, <1>3, <1>5 DEF AskedInv, AskedOnce
  <2>4. \A n \in Nat : Low(t) < n /\ n <= at[t] + 1 => \E j \in asked'[t] : j[1] = n
    <3> SUFFICES ASSUME NEW n \in Nat, Low(t) < n, n <= at[t] + 1 PROVE \E j \in asked'[t] : j[1] = n
      OBVIOUS
    <3>1. CASE n = at[t] + 1
      BY <1>2, <1>3, <3>1
    <3>2. CASE n # at[t] + 1
      <4>1. n <= at[t]
        BY <1>2, <3>2
      <4> QED
        BY <1>3, <1>4, <4>1 DEF AskedInv, AskedOnce
    <3> QED
      BY <3>1, <3>2
  <2> QED
    <3>1. Cardinality(asked'[t]) = GetUpTo(t)' - Low(t)
      BY <1>2, <1>4, <1>5, <2>1
    <3>2. \A j \in asked'[t] : Low(t) < j[1] /\ j[1] <= GetUpTo(t)'
      BY <1>4, <2>2
    <3>3. \A n \in Nat : Low(t) < n /\ n <= GetUpTo(t)' => \E j \in asked'[t] : j[1] = n
      BY <1>4, <2>4
    <3> QED
      BY <2>1, <2>3, <3>1, <3>2, <3>3 DEF AskedOnce
<1>8. FoundIfPut(t)'
  <2> DEFINE T == {j \in asked[t] : order[j] # <<>>}
  <2>1. found[t] = Cardinality(T) /\ IsFiniteSet(T) /\ k \notin T
    BY <1>5, <1>6, FS_Subset DEF AskedInv, FoundIfPut
  <2>2. CASE Matches(k)
    <3>1. {j \in asked'[t] : order[j] # <<>>} = T \cup {k}
      BY <1>3, <2>2, MatchesOrdered
    <3>2. Cardinality(T \cup {k}) = Cardinality(T) + 1
      BY <2>1, FS_AddElement
    <3>3. found'[t] = Cardinality({j \in asked'[t] : order[j] # <<>>})
      BY <1>3, <2>1, <2>2, <3>1, <3>2
    <3> QED
      BY <1>2, <3>3 DEF FoundIfPut
  <2>3. CASE ~Matches(k)
    <3>1. {j \in asked'[t] : order[j] # <<>>} = T
      BY <1>3, <2>3, MatchesOrdered
    <3>2. found'[t] = found[t]
      BY <1>3, <2>3 DEF BaseInv, BTypeOK
    <3> QED
      BY <1>2, <2>1, <3>1, <3>2 DEF FoundIfPut
  <2> QED
    BY <2>2, <2>3
<1>9. ASSUME NEW u \in Servers \ {t} PROVE AskedOnce(u)' /\ FoundIfPut(u)'
  <2>1. GetUpTo(u)' = GetUpTo(u) /\ asked'[u] = asked[u] /\ found'[u] = found[u]
    BY <1>2, <1>3 DEF GetUpTo
  <2> QED
    BY <1>2, <2>1 DEF AskedInv, AskedOnce, FoundIfPut
<1> QED
  BY <1>7, <1>8, <1>9 DEF AskedInv

LEMMA NextAsked == BaseInv /\ BaseInv' /\ PutInv /\ AskedInv /\ [BNext]_bvars => AskedInv'
<1> SUFFICES ASSUME BaseInv, BaseInv', PutInv, AskedInv, [BNext]_bvars PROVE AskedInv'
  OBVIOUS
<1>1. CASE UNCHANGED bvars
  BY <1>1, OtherStepAsked DEF bvars, vars, thread_vars, main_vars, GetUpTo, Started
<1>2. ASSUME NEW t \in Servers, PutKey(t) \/ InPut(t) PROVE AskedInv'
  <2>1. UNCHANGED <<asked, found, round>> /\ round = "put"
    BY <1>2, PutsEarly DEF PutKey, InPut, thread_vars, main_vars
  <2> QED
    BY <2>1, OtherStepAsked DEF GetUpTo
<1>3. ASSUME NEW b \in Backends, BackendRuns(b) PROVE AskedInv'
  <2>1. UNCHANGED <<asked, found, round, main, next_thread, work, at, order>>
    BY <1>3 DEF BackendRuns, BackendStep, PopTask, ApplyTask, thread_vars, main_vars
  <2> QED
    BY <2>1, OtherStepAsked DEF GetUpTo, Started
<1>4. ASSUME NEW t \in Servers, WorkEnds(t) PROVE AskedInv'
  <2>1. /\ UNCHANGED <<asked, found, order, round, main, next_thread, at>>
        /\ \A u \in Servers : work'[u] = IF u = t THEN "finished" ELSE work[u]
        /\ work[t] = round /\ at[t] > Up(t, work[t]) /\ at[t] <= Up(t, work[t]) + 1
        /\ at[t] \in Nat /\ round \in {"put", "get"}
    BY <1>4 DEF WorkEnds, vars, main_vars, BaseInv, BTypeOK, Phase, AtRange
  <2>2. at[t] = Up(t, work[t]) + 1
    <3>1. Up(t, work[t]) \in Nat
      BY RangeFacts
    <3> QED
      BY <2>1, <3>1
  <2>3. \A u \in Servers : GetUpTo(u)' = GetUpTo(u)
    BY <2>1, <2>2 DEF GetUpTo, Started
  <2> QED
    BY <2>1, <2>3, OtherStepAsked
<1>5. CASE Spawn
  <2>1. /\ main = "spawn" /\ next_thread \in Servers
        /\ \A u \in Servers : /\ work'[u] = IF u = next_thread THEN round ELSE work[u]
                              /\ at'[u] = IF u = next_thread THEN Low(u) ELSE at[u]
        /\ UNCHANGED <<asked, found, order, round>>
        /\ round \in {"put", "get"}
    BY <1>5 DEF BaseInv, BTypeOK, Spawn, vars
  <2>2. \/ main' = main /\ next_thread' = next_thread + 1
        \/ /\ main' = "join" /\ next_thread' = 0
           /\ \A t \in Servers : t < next_thread \/ t = next_thread
    BY <1>5, LoopCounter DEF BaseInv, Spawn
  <2>3. \A t \in Servers : Started(t)' <=> Started(t) \/ t = next_thread
    <3>1. \A t \in Servers : t < next_thread + 1 <=> t < next_thread \/ t = next_thread
      BY <2>1, RangesAssumption
    <3> QED
      BY <2>1, <2>2, <3>1 DEF Started
  <2>4. ~Started(next_thread)
    BY <2>1, RangesAssumption DEF Started
  <2>5. \A t \in Servers : GetUpTo(t)' = GetUpTo(t)
    BY <2>1, <2>3, <2>4 DEF GetUpTo
  <2> QED
    BY <2>1, <2>5, OtherStepAsked
<1>6. CASE Join
  <2>1. UNCHANGED <<asked, found, order, round, work, at>> /\ main = "join" /\ main' \in {"join", "sum"}
    BY <1>6 DEF Join, NextOr, vars, thread_vars
  <2> QED
    BY <2>1, OtherStepAsked DEF GetUpTo, Started
<1>7. CASE Sum
  <2>1. /\ UNCHANGED <<asked, found, order, work, at>> /\ main = "sum"
        /\ \/ main' = main /\ round' = round
           \/ round' = "get" /\ next_thread' = 0 /\ main' = IF round = "put" THEN "spawn" ELSE "print"
    BY <1>7 DEF Sum, NextOr, vars, thread_vars
  <2>2. \A t \in Servers : ~(t < 0)
    BY RangesAssumption
  <2>3. \A t \in Servers : GetUpTo(t)' = GetUpTo(t)
    BY <2>1, <2>2 DEF GetUpTo, Started, BaseInv, BTypeOK
  <2> QED
    BY <2>1, <2>3, OtherStepAsked
<1>8. CASE PrintStore
  BY <1>8, OtherStepAsked DEF PrintStore, vars, thread_vars, GetUpTo, Started
<1> QED
  BY <1>1, <1>2, <1>3, <1>4, <1>5, <1>6, <1>7, <1>8, GetKeyAsked DEF BNext, ThreadStep, MainStep

-----------------------------------------------------------------------------
(***************************************************************************)
(* What a thread has found when all are done: the keys it asked for are    *)
(* those of its range and one more, the first of the next thread.          *)
(***************************************************************************)
LEMMA AskedWasPut ==
    ASSUME PutInv, NEW t \in Servers, HalvesAgree(t), NEW k \in asked[t], k \in Keys,
           NEW u \in Servers, Low(u) < k[1], k[1] <= PutUpTo(u)
    PROVE  k \in PutKeys
<1>1. PICK j \in Keys : j[1] = k[1] /\ <<u, j>> \notin fresh
  BY RecordFacts DEF PutInv, AllPut
<1>2. j \in PutKeys
  BY <1>1 DEF PutKeys
<1>3. j = k
  BY <1>1, <1>2, RecordFacts DEF HalvesAgree
<1> QED
  BY <1>2, <1>3

LEMMA FoundWhenDone ==
    ASSUME BaseInv, PutInv, AskedInv, main \in {"print", "ended"}, NEW t \in Servers,
           AllTaken, HalvesAgree(t)
    PROVE  found[t] = IF t = NumThreads - 1 THEN NumKv ELSE NumKv + 1
<1>1. /\ \A u \in Servers : PutUpTo(u) = Low(u) + NumKv
      /\ GetUpTo(t) = Low(t) + NumKv + 1
      /\ Low(t) \in Nat /\ NumKv \in Nat \ {0}
  <2>1. round = "get" /\ \A u \in Servers : work[u] = "finished" /\ Started(u)
    BY DEF BaseInv, Phase, Started
  <2>2. \A u \in Servers : Low(u) \in Nat /\ NumKv \in Nat \ {0} /\ Up(u, "put") = Low(u) + NumKv - 1
    BY RangeFacts DEF Extra
  <2>3. Up(t, "get") = Low(t) + NumKv
    BY RangeFacts DEF Extra
  <2>4. \A u \in Servers : PutUpTo(u) = Up(u, "put") + 1
    BY <2>1 DEF PutUpTo
  <2>5. GetUpTo(t) = Up(t, "get") + 1
    BY <2>1 DEF GetUpTo
  <2> QED
    BY <2>2, <2>3, <2>4, <2>5
<1>2. /\ IsFiniteSet(asked[t]) /\ Cardinality(asked[t]) = NumKv + 1
      /\ asked[t] \subseteq Keys
      /\ \A k \in asked[t] : k[1] \in Nat /\ Low(t) < k[1] /\ k[1] <= Low(t) + NumKv + 1
  <2>1. AskedOnce(t) /\ asked[t] \subseteq Keys
    BY DEF AskedInv, BaseInv, BTypeOK
  <2> QED
    BY <1>1, <2>1, RecordFacts DEF AskedOnce
<1>3. /\ {k \in asked[t] : order[k] # <<>>} = asked[t] \cap PutKeys
      /\ found[t] = Cardinality({k \in asked[t] : order[k] # <<>>})
  BY <1>2 DEF AllTaken, AskedInv, FoundIfPut
<1>4. ASSUME NEW k \in asked[t], k[1] <= Low(t) + NumKv PROVE k \in PutKeys
  BY <1>1, <1>2, <1>4, AskedWasPut
<1>5. CASE t # NumThreads - 1
  <2>1. t + 1 \in Servers /\ Low(t + 1) = Low(t) + NumKv
    BY <1>5, RangeFacts
  <2>2. ASSUME NEW k \in asked[t], k[1] = Low(t) + NumKv + 1 PROVE k \in PutKeys
    <3>1. Low(t + 1) < k[1] /\ k[1] <= PutUpTo(t + 1)
      BY <1>1, <2>1, <2>2
    <3> QED
      BY <1>2, <2>1, <3>1, AskedWasPut
  <2>3. asked[t] \cap PutKeys = asked[t]
    <3>1. \A k \in asked[t] : k[1] <= Low(t) + NumKv \/ k[1] = Low(t) + NumKv + 1
      BY <1>1, <1>2
    <3> QED
      BY <1>4, <2>2, <3>1
  <2> QED
    BY <1>2, <1>3, <1>5, <2>3
<1>6. CASE t = NumThreads - 1
  <2>1. PICK k0 \in asked[t] : k0[1] = Low(t) + NumKv + 1
    <3>1. Low(t) + NumKv + 1 \in Nat /\ Low(t) < Low(t) + NumKv + 1
      BY <1>1
    <3> QED
      BY <1>1, <3>1 DEF AskedInv, AskedOnce
  <2>2. k0 \notin PutKeys
    <3> SUFFICES ASSUME NEW u \in Servers, <<u, k0>> \notin fresh PROVE FALSE
      BY DEF PutKeys
    <3>1. k0[1] <= Low(u) + NumKv
      BY <1>1, <1>2 DEF PutInv, InRange
    <3>2. u = t \/ Low(u) + NumKv <= Low(t)
      <4>1. u = t \/ u < t
        BY <1>6, RangesAssumption
      <4> QED
        BY <4>1, RangesApart
    <3>3. Low(u) \in Nat
      BY RangeFacts
    <3> QED
      BY <1>1, <2>1, <3>1, <3>2, <3>3
  <2>3. asked[t] \cap PutKeys = asked[t] \ {k0}
    <3>1. \A k \in asked[t] \ {k0} : k[1] <= Low(t) + NumKv
      <4>1. \A k \in asked[t] \ {k0} : k[1] # k0[1]
        BY DEF AskedInv, AskedOnce
      <4> QED
        BY <1>1, <1>2, <2>1, <4>1
    <3> QED
      BY <1>4, <2>2, <3>1
  <2>4. Cardinality(asked[t] \ {k0}) = Cardinality(asked[t]) - 1
    BY <1>2, FS_RemoveElement
  <2>5. found[t] = NumKv
    <3>1. found[t] = Cardinality(asked[t] \ {k0})
      BY <1>3, <2>3
    <3> QED
      BY <1>1, <1>2, <2>4, <3>1
  <2> QED
    BY <1>6, <2>5
<1> QED
  BY <1>5, <1>6

(***************************************************************************)
(* FOUND counts the keys that were put and taken: every put of the first   *)
(* half is over before the first get (benchmark/example/example.cc:110).   *)
(* When the halves agree and the index took every key, each thread finds   *)
(* one more than it put, but the last, whose last key nobody put (122).    *)
(***************************************************************************)
THEOREM FoundKeysHolds == BSpec => []FoundKeys
<1>1. BInit => PutInv /\ AskedInv
  BY InitPut, InitAsked
<1>2. BaseInv /\ BaseInv' /\ PutInv /\ AskedInv /\ [BNext]_bvars => (PutInv /\ AskedInv)'
  BY NextPut, NextAsked
<1>3. BaseInv /\ PutInv /\ AskedInv => FoundKeys
  BY FoundWhenDone DEF FoundKeys, FoundOneMore, AskedInv
<1> QED
  BY <1>1, <1>2, <1>3, BaseAlways, PTL DEF BSpec

=============================================================================
