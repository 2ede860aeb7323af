--------------------------- MODULE BPTreeRefinement ---------------------------
(***************************************************************************)
(* The B+-tree implements the atomic map OrderedMap: an insert takes       *)
(* effect where it writes the locked leaf or the half of a split.          *)
(***************************************************************************)
EXTENDS BPTree

LeavesWith(k) == {n \in leaves : k \in DOMAIN entry[n]}

MapOf(k) ==
    IF LeavesWith(k) = {} THEN Null ELSE entry[CHOOSE n \in LeavesWith(k) : TRUE][k]

\* The call that a thread is in, with its arguments and, of an insert, its progress.
OpenCall(t) ==
    CASE pc[t] \in {"find", "write"} ->
            [op |-> "insert", key |-> Key(t), value |-> Value(t)]
      [] pc[t] \in {"link", "parent", "unlock"} -> [op |-> "written"]
      [] pc[t] \in {"search", "remove"} -> [op |-> pc[t], key |-> Key(t)]
      [] pc[t] = "idle" -> [op |-> "none"]

Map == INSTANCE OrderedMap WITH
          map <- [k \in Keys |-> MapOf(k)],
          call <- [t \in Threads |-> OpenCall(t)],
          Absent <- Null,
          NoAnswer <- Null

(***************************************************************************)
(* Insert, Search and Remove of bptree-template.hpp are atomic: an insert  *)
(* that returns has written the value it was given at the key it was       *)
(* given, once; a search finds the last value written for the key it was   *)
(* asked for, whatever split is under way along its path, and never        *)
(* reports a key missing that was inserted.                                *)
(***************************************************************************)
AtomicMap == Map!Spec

=============================================================================
