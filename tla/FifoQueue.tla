------------------------------- MODULE FifoQueue -------------------------------
(***************************************************************************)
(* What a concurrent queue promises its callers: a linearizable FIFO       *)
(* queue.  A push takes effect in one step between call and return, a pop  *)
(* removes the oldest item, or finds the queue empty, in one step between  *)
(* call and return.  empty() answers with a value that was right at some   *)
(* moment between its call and return; moments[t] collects these.          *)
(***************************************************************************)
EXTENDS Sequences

CONSTANTS Pushers, Poppers, Observers, Items, Nothing

VARIABLES
    queue,
    call,       \* what a thread is doing
    value,      \* what a popper got
    moments,
    answer      \* what an observer was told

vars == <<queue, call, value, moments, answer>>

Init ==
    /\ queue = <<>>
    /\ call = [t \in Pushers \cup Poppers |-> "none"]
    /\ value = [t \in Poppers |-> Nothing]
    /\ moments = [t \in Observers |-> {}]
    /\ answer = [t \in Observers |-> FALSE]

Becomes(t, from, to) == call[t] = from /\ call' = [call EXCEPT ![t] = to]

\* An open empty() sees the queue change.
Changes(q) ==
    /\ queue' = q
    /\ moments' = [t \in Observers |->
                      IF moments[t] = {} THEN {} ELSE moments[t] \cup {q = <<>>}]

Push(t) ==
    /\ Becomes(t, "none", "pushing")
    /\ \E i \in Items : Changes(Append(queue, i))
    /\ UNCHANGED <<value, answer>>

PushReturn(t) ==
    /\ Becomes(t, "pushing", "none")
    /\ UNCHANGED <<queue, value, moments, answer>>

PopCall(t) ==
    /\ Becomes(t, "none", "popping")
    /\ UNCHANGED <<queue, value, moments, answer>>

Pop(t) ==
    /\ queue # <<>>
    /\ Becomes(t, "popping", "popped")
    /\ value' = [value EXCEPT ![t] = Head(queue)]
    /\ Changes(Tail(queue))
    /\ UNCHANGED answer

PopReturn(t) ==
    /\ Becomes(t, "popped", "none")
    /\ UNCHANGED <<queue, value, moments, answer>>

PopEmpty(t) ==
    /\ queue = <<>>
    /\ Becomes(t, "popping", "none")
    /\ value' = [value EXCEPT ![t] = Nothing]
    /\ UNCHANGED <<queue, moments, answer>>

EmptyCall(t) ==
    /\ moments[t] = {}
    /\ moments' = [moments EXCEPT ![t] = {queue = <<>>}]
    /\ UNCHANGED <<queue, call, value, answer>>

EmptyReturn(t) ==
    /\ \E a \in moments[t] : answer' = [answer EXCEPT ![t] = a]
    /\ moments' = [moments EXCEPT ![t] = {}]
    /\ UNCHANGED <<queue, call, value>>

Next ==
    \/ \E t \in Pushers : Push(t) \/ PushReturn(t)
    \/ \E t \in Poppers : PopCall(t) \/ Pop(t) \/ PopReturn(t) \/ PopEmpty(t)
    \/ \E t \in Observers : EmptyCall(t) \/ EmptyReturn(t)

Spec == Init /\ [][Next]_vars

=============================================================================
