---------------------------- MODULE MCLocalBenchmark ----------------------------
(***************************************************************************)
(* Two threads of two keys, numbers 2 to 5, and a get of number 6; two     *)
(* possible halves.  Keys with the half 1 share a bucket of two slots, so  *)
(* that a third one is refused, keys with the half 0 have room.            *)
(***************************************************************************)
EXTENDS LocalBenchmark

CONSTANTS b1, b2

MCBackends == {b1, b2}
MCServers == 0 .. NumThreads - 1
MCKeys == (1 .. NumThreads * NumKv + 2) \X Halves
MCAddrs == MCServers \X MCKeys
MCKeyOf == [a \in MCAddrs |-> a[2]]
MCWriters == [k \in MCKeys |-> MCServers]
MCQueueOf == [k \in MCKeys |-> IF k[1] % 2 = 0 THEN b1 ELSE b2]
MCBucketOf == [k \in MCKeys |-> IF k[2] = 1 THEN 0 ELSE k[1]]
=============================================================================
