------------------------------ MODULE QueueAtRest ------------------------------
(***************************************************************************)
(* The operations of the concurrent queue that are for a queue nobody      *)
(* works on: the iterator and the copy (_concurrent_queue_impl.h).  Both   *)
(* walk the pages of the micro queues, of which the first and the last may *)
(* be in part popped or in part filled.                                    *)
(***************************************************************************)
EXTENDS ConcurrentQueueRefinement

-----------------------------------------------------------------------------
(* concurrent_queue_iterator *)

\* get_item; array has a page of each micro queue.
Valid(array, k) == Index(k) \in mask[array[Micro(k)]]
GetItem(array, k) == slot[array[Micro(k)]][Index(k)]

Advance(array, k) ==
    [m \in MicroQueues |-> IF m = Micro(k) /\ Last(k) THEN next[array[m]] ELSE array[m]]

\* The pages it has when it comes to ticket k.
ArrayAt ==
    LET array[k \in rep_head .. rep_tail] ==
            IF k = rep_head THEN head_page ELSE Advance(array[k - 1], k - 1)
    IN  array

\* All items the iterator comes to; an item that is not valid is skipped.
Visited ==
    LET met[k \in rep_head .. rep_tail] ==
            IF k = rep_head THEN <<>>
            ELSE IF Valid(ArrayAt[k - 1], k - 1)
            THEN Append(met[k - 1], GetItem(ArrayAt[k - 1], k - 1))
            ELSE met[k - 1]
    IN  met[rep_tail]

-----------------------------------------------------------------------------
(* The copy constructor *)

\* make_copy: the items of page p from begin up to, not with, end.
MakeCopy(p, begin, end) ==
    [i \in 0 .. ItemsPerPage - 1 |-> IF i \in begin .. end - 1 /\ i \in mask[p]
                                     THEN slot[p][i] ELSE Nothing]

\* Mutant of LastIndex: no item of a last page that is full is copied.
LastIndexZero(m) == (tail_counter[m] \div NQueue) % ItemsPerPage

LastIndex(m) ==
    LET last_index == (tail_counter[m] \div NQueue) % ItemsPerPage
    IN  IF last_index = 0 THEN ItemsPerPage ELSE last_index

\* The pages of micro queue m from head_page on to tail_page, where the walk
\* stays; there are no more of them than pushes.
PageAt(m) ==
    LET page[j \in 1 .. tail_counter[m]] ==
            IF j = 1 THEN head_page[m]
            ELSE IF page[j - 1] = tail_page[m] THEN page[j - 1]
            ELSE next[page[j - 1]]
    IN  page

\* micro_queue::assign: the pages of the copy, in their order, up to tail_page.
Assign(m) ==
    LET n_items == (tail_counter[m] - head_counter[m]) \div NQueue
        index == (head_counter[m] \div NQueue) % ItemsPerPage
        end_in_first_page ==
            IF index + n_items < ItemsPerPage THEN index + n_items ELSE ItemsPerPage
        IsLast(j) == PageAt(m)[j] = tail_page[m]
        last == CHOOSE j \in DOMAIN PageAt(m) : IsLast(j) /\ \A i \in 1 .. j - 1 : ~IsLast(i)
        End(j) == IF j = 1 THEN end_in_first_page
                  ELSE IF j = last THEN LastIndex(m) ELSE ItemsPerPage
    IN  IF head_page[m] = NoPage THEN <<>>
        ELSE [j \in 1 .. last |-> MakeCopy(PageAt(m)[j], IF j = 1 THEN index ELSE 0, End(j))]

-----------------------------------------------------------------------------
(* Properties *)

(***************************************************************************)
(* Iterator and copy agree with push and pop about a queue at rest.  The   *)
(* iterator meets the items in the order in which they would be popped,    *)
(* and meets them all.  In a copy every ticket that is still to be popped  *)
(* finds its item: in the page a pop reaches when it frees a page for each *)
(* last index, at the index of the ticket.  The copy has no other page,    *)
(* but for one without items.                                              *)
(***************************************************************************)
IteratorInOrder == Visited = Contents

PageNumber(m, k) ==
    (k \div NQueue) \div ItemsPerPage - (head_counter[m] \div NQueue) \div ItemsPerPage + 1

CopyHasItems ==
    \A m \in MicroQueues :
        LET copy == Assign(m)
            tickets == {k \in rep_head .. rep_tail - 1 : Micro(k) = m}
        IN  /\ \A k \in tickets :
                   /\ PageNumber(m, k) \in DOMAIN copy
                   /\ copy[PageNumber(m, k)][Index(k)] = pushed[k + 1]
            /\ \A j \in DOMAIN copy :
                   j = 1 \/ \E k \in tickets : PageNumber(m, k) = j

WalksMeetItems == AtRest => IteratorInOrder /\ CopyHasItems

=============================================================================
