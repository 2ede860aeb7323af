------------------------------- MODULE MCHiKV -------------------------------
(***************************************************************************)
(* Two servers and two backends.  k1 and k4 are written by one server      *)
(* each, k2 and k3 by both; k1, k2 and k3 share a bucket of two slots, and *)
(* k1 and k2 a queue.                                                      *)
(***************************************************************************)
EXTENDS HiKV, TLC

CONSTANTS s1, s2, b1, b2, k1, k2, k3, k4, a1, a2, a3, a4, a5, a6

MCServers == {s1, s2}
MCBackends == {b1, b2}
MCKeys == {k1, k2, k3, k4}
MCAddrs == {a1, a2, a3, a4, a5, a6}
MCKeyOf == a1 :> k1 @@ a2 :> k1 @@ a3 :> k2 @@ a4 :> k2 @@ a5 :> k3 @@ a6 :> k4
MCWriters == k1 :> {s1} @@ k2 :> {s1, s2} @@ k3 :> {s1, s2} @@ k4 :> {s2}
MCQueueOf == k1 :> b1 @@ k2 :> b1 @@ k3 :> b2 @@ k4 :> b2
MCBucketOf == k1 :> 0 @@ k2 :> 0 @@ k3 :> 0 @@ k4 :> 1
=============================================================================
