----------------------- MODULE ConcurrentQueueRefinement -----------------------
(***************************************************************************)
(* The concurrent queue implements the linearizable queue FifoQueue: a     *)
(* push takes effect when it takes its ticket, a pop when it claims one,   *)
(* or finds none left.  Two history variables that do not constrain the    *)
(* queue: pushed is the item of every ticket, moments[t] tells whether the *)
(* queue was empty, or was not, since the open call of empty by t.         *)
(***************************************************************************)
EXTENDS ConcurrentQueue, Sequences

VARIABLES pushed, moments

hvars == <<vars, pushed, moments>>

\* The items of the tickets that are pushed and not claimed.
Contents == SubSeq(pushed, rep_head + 1, rep_tail)

InEmptyCall(t) == pc[t] # "idle"

Observe ==
    /\ pushed' = IF rep_tail' = rep_tail THEN pushed
                 ELSE Append(pushed, task'[CHOOSE t \in Pushers : left'[t] # left[t]])
    /\ moments' = [t \in Observers |->
                      IF InEmptyCall(t)' THEN moments[t] \cup {rep_head' = rep_tail'} ELSE {}]

HInit ==
    /\ Init
    /\ pushed = <<>>
    /\ moments = [t \in Observers |-> {}]

HNext == Next /\ Observe
HSpec == HInit /\ [][HNext]_hvars /\ Fairness

HasTicket == {"pop_turn", "await", "pop_page", "take"}
HasItem == {"pop_lock", "unlink", "clear_tail", "pop_release", "free"}

CallOf(t) ==
    CASE pc[t] = "idle" -> "none"
      [] pc[t] \in {"look", "claim"} -> "popping"
      [] pc[t] \in HasTicket \cup HasItem -> "popped"
      [] OTHER -> "pushing"

\* The item that is due to a pop, until it has copied an item.
ValueOf(t) == IF pc[t] \in HasTicket THEN pushed[ticket[t] + 1] ELSE task[t]

Fifo == INSTANCE FifoQueue WITH
           Items <- Tasks,
           queue <- Contents,
           call <- [t \in Pushers \cup Poppers |-> CallOf(t)],
           value <- [t \in Poppers |-> ValueOf(t)]

(***************************************************************************)
(* push and try_pop are linearizable (hikv.cc:24 and 68 rely on it): every *)
(* item comes out once and in the order of the pushes, whatever pages and  *)
(* micro queues it goes through, try_pop returns false only if the queue   *)
(* is empty at that moment, and empty() is right at some moment of its     *)
(* call.                                                                   *)
(***************************************************************************)
LinearizableQueue == Fifo!Spec

=============================================================================
