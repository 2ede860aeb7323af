-------------------------- MODULE HashTableRefinement --------------------------
(***************************************************************************)
(* The hash index implements the linearizable map KVMap.  The history      *)
(* variable seen records, for each open Get, the bindings of its key since *)
(* the call; it does not constrain the table.                              *)
(***************************************************************************)
EXTENDS HashTable

VARIABLE seen

hvars == <<table, fresh, pc, key, pos, slot, block, ret, seen>>

(***************************************************************************)
(* The map that the table represents.                                      *)
(***************************************************************************)
Bound(k) == {c \in Cells : Holds(c, k)}

MapOf(k) ==
    IF Bound(k) = {} THEN NoAddr ELSE table[CHOOSE c \in Bound(k) : TRUE].addr

AbstractMap == [k \in Keys |-> MapOf(k)]

InPut(t) == pc[t] \in PutSteps
InGet(t) == pc[t] \in GetSteps

OpenCall(t) ==
    IF InPut(t) THEN [op |-> "put", addr |-> pos[t]]
    ELSE IF InGet(t) THEN [op |-> "get", key |-> key[t]]
    ELSE [op |-> "none"]

\* The binding of the key of an open Get after the step joins its history.
Observe ==
    seen' = [t \in Threads |->
               IF pc'[t] \notin GetSteps THEN {}
               ELSE IF pc[t] \in GetSteps THEN seen[t] \cup {MapOf(key[t])'}
               ELSE {MapOf(key'[t])}]

HInit == Init /\ seen = [t \in Threads |-> {}]
HNext == Next /\ Observe
HSpec == HInit /\ [][HNext]_hvars

(***************************************************************************)
(* A thread inside a call keeps running: it holds no lock, waits for       *)
(* nothing and is scheduled by the operating system.                       *)
(***************************************************************************)
HFairSpec == HSpec /\ \A t \in Threads : WF_hvars(Step(t) /\ Observe)

Map == INSTANCE KVMap WITH
          map <- AbstractMap,
          call <- [t \in Threads |-> OpenCall(t)],
          candidates <- seen,
          ret <- ret

(***************************************************************************)
(* Put and Get of hashtable.cc are linearizable: a Put is seen by every    *)
(* Get that starts after it returned, a Get that overlaps Puts returns one *)
(* of the records its key was bound to in the meantime, and a key once put *)
(* is never missed.                                                        *)
(***************************************************************************)
LinearizableMap == Map!Spec

=============================================================================
