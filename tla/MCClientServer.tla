--------------------------- MODULE MCClientServer ---------------------------
(***************************************************************************)
(* Three clients of four keys on two server threads, in batches of two.    *)
(* Keys fall into four buckets of two slots: a third of them is refused.   *)
(* The fresh buffer of client 2 is uniform; those of the others differ in  *)
(* a word that is half of a key, of the second one searched of client 0    *)
(* and of the second one inserted of client 1.                             *)
(***************************************************************************)
EXTENDS ClientServer

MCBucketOf(k) == k[1] % 4

Uniform == [w \in BufWords |-> 7]
MCResidues == {[c \in Clients |-> CASE c = 0 -> [Uniform EXCEPT ![3] = 0]
                                    [] c = 1 -> [Uniform EXCEPT ![11] = 0]
                                    [] OTHER -> Uniform]}
=============================================================================
