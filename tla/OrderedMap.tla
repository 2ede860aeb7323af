------------------------------ MODULE OrderedMap ------------------------------
(***************************************************************************)
(* What the B+-tree promises its callers: an atomic map.  Between its call *)
(* and its return an insert writes its value at its key, once.  A search   *)
(* or a remove takes effect in the step that returns its answer.  A        *)
(* removed key is found, with the value 0.                                 *)
(***************************************************************************)
EXTENDS Integers

CONSTANTS Threads, Keys, Values, Asked, Absent, NoAnswer

VARIABLES
    map,        \* the value of each key, or Absent
    call,       \* the open call of each thread
    answer      \* what the last search or remove returned

vars == <<map, call, answer>>

Idle == [op |-> "none"]
InsertCall(k, v) == [op |-> "insert", key |-> k, value |-> v]
Written == [op |-> "written"]
SearchCall(k) == [op |-> "search", key |-> k]
RemoveCall(k) == [op |-> "remove", key |-> k]

Init ==
    /\ map = [k \in Keys |-> Absent]
    /\ call = [t \in Threads |-> Idle]
    /\ answer = NoAnswer

\* The call of thread t goes from one state to the next.
Moves(t, c, d) == call[t] = c /\ call' = [call EXCEPT ![t] = d]

Present(k) == map[k] # Absent
Answer(k, v) == [key |-> k, ok |-> Present(k), value |-> v]

Insert(t, k, v) ==
    /\ Moves(t, InsertCall(k, v), Written)
    /\ map' = [map EXCEPT ![k] = v]
    /\ UNCHANGED answer

Search(t, k) ==
    /\ Moves(t, SearchCall(k), Idle)
    /\ answer' = Answer(k, IF Present(k) THEN map[k] ELSE 0)
    /\ UNCHANGED map

Remove(t, k) ==
    /\ Moves(t, RemoveCall(k), Idle)
    /\ map' = IF Present(k) THEN [map EXCEPT ![k] = 0] ELSE map
    /\ answer' = Answer(k, 0)

InsertInvoke(t, k, v) == Moves(t, Idle, InsertCall(k, v)) /\ UNCHANGED <<map, answer>>
InsertReturn(t) == Moves(t, Written, Idle) /\ UNCHANGED <<map, answer>>
SearchInvoke(t, k) == Moves(t, Idle, SearchCall(k)) /\ UNCHANGED <<map, answer>>
RemoveInvoke(t, k) == Moves(t, Idle, RemoveCall(k)) /\ UNCHANGED <<map, answer>>

Next ==
    \E t \in Threads :
        \/ \E k \in Keys, v \in Values : InsertInvoke(t, k, v) \/ Insert(t, k, v)
        \/ InsertReturn(t)
        \/ \E k \in Asked :
              \/ SearchInvoke(t, k) \/ Search(t, k)
              \/ RemoveInvoke(t, k) \/ Remove(t, k)

Spec == Init /\ [][Next]_vars

=============================================================================
