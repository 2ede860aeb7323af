--------------------------- MODULE MCConcurrentQueue ---------------------------
(***************************************************************************)
(* Two micro queues with pages of two items: every page but the first of a *)
(* micro queue is linked while others pop.  The calls, by thread:          *)
(*   - two server threads push, one backend pops, as in HiKV;              *)
(*   - two pushers and two poppers, which compete for a ticket;            *)
(*   - five items and two poppers;                                         *)
(*   - seven items, for two full pages of a micro queue, and a popper;     *)
(*   - a pusher, a popper and a thread that asks whether it is empty.      *)
(***************************************************************************)
EXTENDS QueueAtRest, TLC

CONSTANTS p1, p2, c1, c2, o1

MCPushers == {p1, p2}
MCPoppers == {c1, c2}
MCObservers == {o1}
Calls(a, b, c, d, o) == p1 :> a @@ p2 :> b @@ c1 :> c @@ c2 :> d @@ o1 :> o
MCQuotas == {Calls(3,2,1,0,0), Calls(2,1,1,1,0), Calls(5,0,1,1,0), Calls(7,0,1,0,0), Calls(2,0,1,0,1)}
MCPages == 1 .. 6
=============================================================================
