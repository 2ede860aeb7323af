---------------------------- MODULE ConcurrentQueue ----------------------------
(***************************************************************************)
(* tbb::concurrent_queue, the task queue between server and backend        *)
(* threads (hikv.hpp:73): internal/_concurrent_queue_impl.h, on the calls  *)
(* push and try_pop that hikv.cc makes, and empty.                         *)
(*                                                                         *)
(* A push takes a ticket from tail_counter, a pop one from head_counter.   *)
(* The ticket chooses a micro queue, where pushes and pops wait until it   *)
(* is their turn.  A micro queue is a list of pages: the push with the     *)
(* first index of a page links it, the pop with the last index unlinks and *)
(* frees it.  Both hold page_mutex, for a list of one page has a single    *)
(* link that is first and last.                                            *)
(*                                                                         *)
(* One shared access per step, in a sequentially consistent order.  Items  *)
(* are pointers: copying one does not throw, so every mask bit gets set    *)
(* and n_invalid_entries stays 0.  A failed page allocation ends the       *)
(* program, for nobody catches its exception, and is not modelled.         *)
(* Tickets are not wrapped to 64 bits.                                     *)
(***************************************************************************)
EXTENDS Integers, FiniteSets

CONSTANTS
    Pushers,        \* threads that call push
    Poppers,        \* threads that call try_pop
    Observers,      \* threads that call empty
    Quotas,         \* how many calls of push and of empty a thread makes; the
                    \* calls of try_pop are not counted, a popper of 0 makes none
    NQueue,         \* n_queue
    Phi,            \* phi
    ItemsPerPage,   \* items_per_page
    Pages,          \* the memory for pages
    NoPage, Nothing, Nobody

Threads == Pushers \cup Poppers \cup Observers
MicroQueues == 0 .. NQueue - 1

ASSUME LayoutAssumption ==
    /\ NQueue \in Nat \ {0}
    /\ Phi \in Nat
    /\ ItemsPerPage \in Nat \ {0}

\* n_queue and phi have no common divisor: n_queue tickets in a row go to
\* n_queue different micro queues.
ASSUME SpreadAssumption ==
    \A i, j \in MicroQueues : (i * Phi) % NQueue = (j * Phi) % NQueue => i = j

ASSUME ThreadAssumption ==
    /\ Pushers \cap Poppers = {}
    /\ (Pushers \cup Poppers) \cap Observers = {}
    /\ Nobody \notin Threads
    /\ NoPage \notin Pages
    /\ Quotas \subseteq [Threads -> Nat]

\* The items: the number of calls its thread has left tells them apart.
Tasks == UNION {{t} \X (1 .. quota[t]) : t \in Pushers, quota \in Quotas}

VARIABLES
    rep_head, rep_tail,         \* concurrent_queue_rep: head_counter, tail_counter
    head_counter, tail_counter, \* of each micro queue
    head_page, tail_page, page_mutex,
    allocated,                  \* pages that are not free
    next, mask, slot,           \* the fields of each page; slot is its items
    pc,                         \* what a thread does next
    left,                       \* the calls it may still make
    ticket,                     \* its k
    mine,                       \* its p
    seen,                       \* its q, under page_mutex
    task,                       \* what it pushes, or what its try_pop returned
    answer                      \* what its empty returned

rep_vars == <<rep_head, rep_tail>>
counter_vars == <<head_counter, tail_counter>>
list_vars == <<head_page, tail_page, page_mutex>>
page_vars == <<allocated, next, mask, slot>>
local_vars == <<left, ticket, mine, seen, task, answer>>
vars == <<rep_vars, counter_vars, list_vars, page_vars, pc, local_vars>>

\* concurrent_queue_rep::index, and k as micro_queue::push and pop use it.
Micro(k) == (k * Phi) % NQueue
Turn(k) == k - (k % NQueue)
Index(k) == (k \div NQueue) % ItemsPerPage
Last(k) == Index(k) = ItemsPerPage - 1

Init ==
    /\ rep_head = 0
    /\ rep_tail = 0
    /\ head_counter = [m \in MicroQueues |-> 0]
    /\ tail_counter = [m \in MicroQueues |-> 0]
    /\ head_page = [m \in MicroQueues |-> NoPage]
    /\ tail_page = [m \in MicroQueues |-> NoPage]
    /\ page_mutex = [m \in MicroQueues |-> Nobody]
    /\ allocated = {}
    /\ next = [p \in Pages |-> NoPage]
    /\ mask = [p \in Pages |-> {}]
    /\ slot = [p \in Pages |-> [i \in 0 .. ItemsPerPage - 1 |-> Nothing]]
    /\ pc = [t \in Threads |-> "idle"]
    /\ left \in Quotas
    /\ ticket = [t \in Threads |-> 0]
    /\ mine = [t \in Threads |-> NoPage]
    /\ seen = [t \in Threads |-> NoPage]
    /\ task = [t \in Threads |-> Nothing]
    /\ answer = [t \in Observers |-> FALSE]

Goto(t, label) == pc' = [pc EXCEPT ![t] = label]
At(t) == Micro(ticket[t])

\* The call ends: its local variables are gone.
Return(t) ==
    /\ Goto(t, "idle")
    /\ ticket' = [ticket EXCEPT ![t] = 0]
    /\ mine' = [mine EXCEPT ![t] = NoPage]
    /\ seen' = [seen EXCEPT ![t] = NoPage]

-----------------------------------------------------------------------------
(* push *)

PushTicket(t) ==
    /\ pc[t] = "idle"
    /\ left[t] > 0
    /\ left' = [left EXCEPT ![t] = @ - 1]
    /\ task' = [task EXCEPT ![t] = <<t, left[t]>>]
    /\ ticket' = [ticket EXCEPT ![t] = rep_tail]
    /\ rep_tail' = rep_tail + 1
    /\ Goto(t, IF Index(rep_tail) = 0 THEN "allocate" ELSE "push_turn")
    /\ UNCHANGED <<rep_head, counter_vars, list_vars, page_vars, mine, seen, answer>>

\* Which free page the allocator returns makes no difference.
AllocatePage(t) ==
    /\ pc[t] = "allocate"
    /\ \E p \in Pages \ allocated :
          /\ p = CHOOSE free \in Pages \ allocated : TRUE
          /\ allocated' = allocated \cup {p}
          /\ mask' = [mask EXCEPT ![p] = {}]
          /\ next' = [next EXCEPT ![p] = NoPage]
          /\ mine' = [mine EXCEPT ![t] = p]
    /\ Goto(t, "push_turn")
    /\ UNCHANGED <<rep_vars, counter_vars, list_vars, slot, left, ticket, seen, task, answer>>

MyTurn(counter, t) == counter[At(t)] = Turn(ticket[t])

\* Mutant of PushTurn: a push with a page of its own does not wait.
PushTurnNew(t) ==
    /\ pc[t] = "push_turn"
    /\ mine[t] # NoPage \/ MyTurn(tail_counter, t)
    /\ Goto(t, IF mine[t] # NoPage THEN "push_lock" ELSE "push_page")
    /\ UNCHANGED <<rep_vars, counter_vars, list_vars, page_vars, local_vars>>

PushTurn(t) ==
    /\ pc[t] = "push_turn"
    /\ MyTurn(tail_counter, t)
    /\ Goto(t, IF mine[t] # NoPage THEN "push_lock" ELSE "push_page")
    /\ UNCHANGED <<rep_vars, counter_vars, list_vars, page_vars, local_vars>>

\* Mutant of Locked: the lock is taken whoever has it.
LockedAnyway(t) == page_mutex' = [page_mutex EXCEPT ![At(t)] = t]

Locked(t) ==
    /\ page_mutex[At(t)] = Nobody
    /\ page_mutex' = [page_mutex EXCEPT ![At(t)] = t]

Unlocked(t) == page_mutex' = [page_mutex EXCEPT ![At(t)] = Nobody]

PushLock(t) ==
    /\ pc[t] = "push_lock"
    /\ Locked(t)
    /\ seen' = [seen EXCEPT ![t] = tail_page[At(t)]]
    /\ Goto(t, "link")
    /\ UNCHANGED <<rep_vars, counter_vars, head_page, tail_page, page_vars,
                   left, ticket, mine, task, answer>>

LinkPage(t) ==
    /\ pc[t] = "link"
    /\ IF seen[t] # NoPage
       THEN /\ next' = [next EXCEPT ![seen[t]] = mine[t]]
            /\ UNCHANGED head_page
       ELSE /\ head_page' = [head_page EXCEPT ![At(t)] = mine[t]]
            /\ UNCHANGED next
    /\ Goto(t, "set_tail")
    /\ UNCHANGED <<rep_vars, counter_vars, tail_page, page_mutex, allocated, mask, slot,
                   local_vars>>

SetTailPage(t) ==
    /\ pc[t] = "set_tail"
    /\ tail_page' = [tail_page EXCEPT ![At(t)] = mine[t]]
    /\ Unlocked(t)
    /\ Goto(t, "fill")
    /\ UNCHANGED <<rep_vars, counter_vars, head_page, page_vars, local_vars>>

PushPage(t) ==
    /\ pc[t] = "push_page"
    /\ mine' = [mine EXCEPT ![t] = tail_page[At(t)]]
    /\ Goto(t, "fill")
    /\ UNCHANGED <<rep_vars, counter_vars, list_vars, page_vars, left, ticket, seen, task, answer>>

\* copy_item, and the item's bit in the mask.
FillSlot(t) ==
    /\ pc[t] = "fill"
    /\ slot' = [slot EXCEPT ![mine[t]][Index(ticket[t])] = task[t]]
    /\ mask' = [mask EXCEPT ![mine[t]] = @ \cup {Index(ticket[t])}]
    /\ Goto(t, "push_release")
    /\ UNCHANGED <<rep_vars, counter_vars, list_vars, allocated, next, local_vars>>

PushRelease(t) ==
    /\ pc[t] = "push_release"
    /\ tail_counter' = [tail_counter EXCEPT ![At(t)] = @ + NQueue]
    /\ Return(t)
    /\ UNCHANGED <<rep_vars, head_counter, list_vars, page_vars, left, task, answer>>

-----------------------------------------------------------------------------
(* try_pop *)

ReadHead(t) ==
    /\ pc[t] = "idle"
    /\ left[t] > 0
    /\ ticket' = [ticket EXCEPT ![t] = rep_head]
    /\ Goto(t, "look")
    /\ UNCHANGED <<rep_vars, counter_vars, list_vars, page_vars, left, mine, seen, task, answer>>

LookEmpty(t) ==
    /\ pc[t] = "look"
    /\ rep_tail - ticket[t] <= 0
    /\ task' = [task EXCEPT ![t] = Nothing]
    /\ Return(t)
    /\ UNCHANGED <<rep_vars, counter_vars, list_vars, page_vars, left, answer>>

LookFull(t) ==
    /\ pc[t] = "look"
    /\ rep_tail - ticket[t] > 0
    /\ Goto(t, "claim")
    /\ UNCHANGED <<rep_vars, counter_vars, list_vars, page_vars, local_vars>>

\* Mutant of ClaimWins: an increment instead of the compare_and_swap.
ClaimBlind(t) ==
    /\ pc[t] = "claim"
    /\ rep_head' = rep_head + 1
    /\ Goto(t, "pop_turn")
    /\ UNCHANGED <<rep_tail, counter_vars, list_vars, page_vars, local_vars>>

\* compare_and_swap on head_counter.
ClaimWins(t) ==
    /\ pc[t] = "claim"
    /\ rep_head = ticket[t]
    /\ rep_head' = rep_head + 1
    /\ Goto(t, "pop_turn")
    /\ UNCHANGED <<rep_tail, counter_vars, list_vars, page_vars, local_vars>>

\* Mutant of ClaimLoses: the retry is with the ticket that is gone.
ClaimLosesStale(t) ==
    /\ pc[t] = "claim"
    /\ rep_head # ticket[t]
    /\ Goto(t, "look")
    /\ UNCHANGED <<rep_vars, counter_vars, list_vars, page_vars, local_vars>>

ClaimLoses(t) ==
    /\ pc[t] = "claim"
    /\ rep_head # ticket[t]
    /\ ticket' = [ticket EXCEPT ![t] = rep_head]
    /\ Goto(t, "look")
    /\ UNCHANGED <<rep_vars, counter_vars, list_vars, page_vars, left, mine, seen, task, answer>>

PopTurn(t) ==
    /\ pc[t] = "pop_turn"
    /\ MyTurn(head_counter, t)
    /\ Goto(t, "await")
    /\ UNCHANGED <<rep_vars, counter_vars, list_vars, page_vars, local_vars>>

\* Mutant of AwaitItem: try_pop does not wait for the push.
AwaitNothing(t) ==
    /\ pc[t] = "await"
    /\ Goto(t, "pop_page")
    /\ UNCHANGED <<rep_vars, counter_vars, list_vars, page_vars, local_vars>>

\* The push of this ticket has to be over.
AwaitItem(t) ==
    /\ pc[t] = "await"
    /\ ~MyTurn(tail_counter, t)
    /\ Goto(t, "pop_page")
    /\ UNCHANGED <<rep_vars, counter_vars, list_vars, page_vars, local_vars>>

PopPage(t) ==
    /\ pc[t] = "pop_page"
    /\ mine' = [mine EXCEPT ![t] = head_page[At(t)]]
    /\ Goto(t, "take")
    /\ UNCHANGED <<rep_vars, counter_vars, list_vars, page_vars, left, ticket, seen, task, answer>>

\* assign_and_destroy_item, for the mask bit is set.
TakeItem(t) ==
    /\ pc[t] = "take"
    /\ Index(ticket[t]) \in mask[mine[t]]
    /\ task' = [task EXCEPT ![t] = slot[mine[t]][Index(ticket[t])]]
    /\ Goto(t, IF Last(ticket[t]) THEN "pop_lock" ELSE "pop_release")
    /\ UNCHANGED <<rep_vars, counter_vars, list_vars, page_vars, left, ticket, mine, seen, answer>>

\* ~micro_queue_pop_finalizer, from here on.
PopLock(t) ==
    /\ pc[t] = "pop_lock"
    /\ Locked(t)
    /\ seen' = [seen EXCEPT ![t] = next[mine[t]]]
    /\ Goto(t, "unlink")
    /\ UNCHANGED <<rep_vars, counter_vars, head_page, tail_page, page_vars,
                   left, ticket, mine, task, answer>>

UnlinkPage(t) ==
    /\ pc[t] = "unlink"
    /\ head_page' = [head_page EXCEPT ![At(t)] = seen[t]]
    /\ IF seen[t] # NoPage
       THEN Unlocked(t) /\ Goto(t, "pop_release")
       ELSE Goto(t, "clear_tail") /\ UNCHANGED page_mutex
    /\ UNCHANGED <<rep_vars, counter_vars, tail_page, page_vars, local_vars>>

ClearTailPage(t) ==
    /\ pc[t] = "clear_tail"
    /\ tail_page' = [tail_page EXCEPT ![At(t)] = NoPage]
    /\ Unlocked(t)
    /\ Goto(t, "pop_release")
    /\ UNCHANGED <<rep_vars, counter_vars, head_page, page_vars, local_vars>>

PopRelease(t) ==
    /\ pc[t] = "pop_release"
    /\ head_counter' = [head_counter EXCEPT ![At(t)] = Turn(ticket[t]) + NQueue]
    /\ IF Last(ticket[t]) THEN Goto(t, "free") /\ UNCHANGED <<ticket, mine, seen>>
                          ELSE Return(t)
    /\ UNCHANGED <<rep_vars, tail_counter, list_vars, page_vars, left, task, answer>>

\* What a free page holds is not told apart.
FreePage(t) ==
    /\ pc[t] = "free"
    /\ allocated' = allocated \ {mine[t]}
    /\ next' = [next EXCEPT ![mine[t]] = NoPage]
    /\ mask' = [mask EXCEPT ![mine[t]] = {}]
    /\ slot' = [slot EXCEPT ![mine[t]] = [i \in 0 .. ItemsPerPage - 1 |-> Nothing]]
    /\ Return(t)
    /\ UNCHANGED <<rep_vars, counter_vars, list_vars, left, task, answer>>

-----------------------------------------------------------------------------
(* empty: tc is kept in ticket, what the read of head_counter shows in pc *)

EmptyReadTail(t) ==
    /\ pc[t] = "idle"
    /\ left[t] > 0
    /\ left' = [left EXCEPT ![t] = @ - 1]
    /\ ticket' = [ticket EXCEPT ![t] = rep_tail]
    /\ Goto(t, "empty_head")
    /\ UNCHANGED <<rep_vars, counter_vars, list_vars, page_vars, mine, seen, task, answer>>

EmptyReadHead(t) ==
    /\ pc[t] = "empty_head"
    /\ Goto(t, IF ticket[t] = rep_head THEN "empty_same" ELSE "empty_differs")
    /\ UNCHANGED <<rep_vars, counter_vars, list_vars, page_vars, local_vars>>

EmptyAgain(t) ==
    /\ pc[t] \in {"empty_same", "empty_differs"}
    /\ answer' = [answer EXCEPT ![t] = ticket[t] = rep_tail /\ pc[t] = "empty_same"]
    /\ Return(t)
    /\ UNCHANGED <<rep_vars, counter_vars, list_vars, page_vars, left, task>>

-----------------------------------------------------------------------------
InPush(t) ==
    \/ AllocatePage(t) \/ PushTurn(t) \/ PushLock(t) \/ LinkPage(t) \/ SetTailPage(t)
    \/ PushPage(t) \/ FillSlot(t) \/ PushRelease(t)

InPop(t) ==
    \/ LookEmpty(t) \/ LookFull(t) \/ ClaimWins(t) \/ ClaimLoses(t) \/ PopTurn(t)
    \/ AwaitItem(t) \/ PopPage(t) \/ TakeItem(t) \/ PopLock(t) \/ UnlinkPage(t)
    \/ ClearTailPage(t) \/ PopRelease(t) \/ FreePage(t)

InEmpty(t) == EmptyReadHead(t) \/ EmptyAgain(t)

Next ==
    \/ \E t \in Pushers : PushTicket(t) \/ InPush(t)
    \/ \E t \in Poppers : ReadHead(t) \/ InPop(t)
    \/ \E t \in Observers : EmptyReadTail(t) \/ InEmpty(t)

Spec == Init /\ [][Next]_vars

(***************************************************************************)
(* A thread inside a call runs; only the backends call again and again     *)
(* (hikv.cc:23).                                                           *)
(***************************************************************************)
Fairness ==
    /\ \A t \in Pushers : WF_vars(InPush(t))
    /\ \A t \in Poppers : WF_vars(ReadHead(t) \/ InPop(t))
    /\ \A t \in Observers : WF_vars(InEmpty(t))

FairSpec == Spec /\ Fairness

-----------------------------------------------------------------------------
(* Properties *)

PushSteps == {"allocate", "push_turn", "push_lock", "link", "set_tail", "push_page",
              "fill", "push_release"}
PopSteps == {"look", "claim", "pop_turn", "await", "pop_page", "take", "pop_lock",
             "unlink", "clear_tail", "pop_release", "free"}
EmptySteps == {"empty_head", "empty_same", "empty_differs"}

(***************************************************************************)
(* The tickets do the work of a lock: at most one push and one pop are at  *)
(* the pages of a micro queue at a time, and what they do there without    *)
(* page_mutex (lines 246-251 and 270-276) is theirs alone.                 *)
(***************************************************************************)
PushSections == {"push_lock", "link", "set_tail", "push_page", "fill", "push_release"}
PopSections == {"await", "pop_page", "take", "pop_lock", "unlink", "clear_tail", "pop_release"}

OneAtATime ==
    \A t, u \in Threads : t # u /\ At(t) = At(u) =>
        /\ ~(pc[t] \in PushSections /\ pc[u] \in PushSections)
        /\ ~(pc[t] \in PopSections /\ pc[u] \in PopSections)

(***************************************************************************)
(* A pop is at a slot only when the push of its ticket has left it: they   *)
(* agree through tail_counter (lines 251 and 267) alone, and the slot, the *)
(* mask and the page are read without a lock.                              *)
(***************************************************************************)
PushOverBeforePop ==
    \A t, u \in Threads :
        /\ pc[t] \in PopSections \ {"await"}
        /\ pc[u] \in PushSteps
        => ticket[t] # ticket[u]

(***************************************************************************)
(* Nobody follows a pointer to a page that has been freed, or to none: a   *)
(* pop frees a page without waiting for pushes (line 385).  No page is     *)
(* lost either: a queue that is drained and at rest keeps at most one in   *)
(* each micro queue, which internal_finish_clear (line 574) finds from     *)
(* tail_page and frees (its assertions at lines 581 and 585).              *)
(***************************************************************************)
NoDanglingPage ==
    /\ \A t \in Threads :
          /\ pc[t] \in {"link", "set_tail", "fill", "take", "pop_lock", "unlink", "free"} =>
                mine[t] \in allocated
          /\ pc[t] \in {"link", "unlink"} => seen[t] \in allocated \cup {NoPage}
    /\ \A m \in MicroQueues :
          /\ head_page[m] \in allocated \cup {NoPage}
          /\ page_mutex[m] = Nobody => tail_page[m] \in allocated \cup {NoPage}
    /\ \A p \in allocated :
          \/ next[p] \in allocated \cup {NoPage}
          \/ \E t \in Threads : mine[t] = p /\ pc[t] = "free"

AtRest == \A t \in Threads : pc[t] = "idle"

FinishClear == allocated \ {tail_page[m] : m \in MicroQueues}

DestructorFreesAll ==
    AtRest /\ rep_head = rep_tail =>
        /\ FinishClear = {}
        /\ \A m \in MicroQueues : head_page[m] = tail_page[m]

PagesAccounted == NoDanglingPage /\ DestructorFreesAll

(***************************************************************************)
(* A push or pop waits for others in three places (lines 230, 266 and 267) *)
(* and at page_mutex, and still every call returns: the ticket it waits    *)
(* for belongs to a call that itself goes on.                              *)
(***************************************************************************)
CallsReturn == \A t \in Threads : pc[t] # "idle" ~> pc[t] = "idle"

=============================================================================
