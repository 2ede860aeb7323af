------------------------- MODULE ConcurrentQueueProofs -------------------------
(***************************************************************************)
(* The concurrent queue, for any number of threads, micro queues, pages    *)
(* and items, in four parts.                                               *)
(*   - Tickets as a lock: one push and one pop at a time are inside a      *)
(*     micro queue, and a pop is at a slot only after the push of its      *)
(*     ticket has left it.  Pushes and pops are ordered by the same        *)
(*     mechanism, a global ticket counter n and a counter c of each micro  *)
(*     queue, so that its invariant Ordered is stated once, of plain       *)
(*     values, and used for both.                                          *)
(*   - Pages: the list of a micro queue is the pages from number Lo up to  *)
(*     Hi, which the counters give; a page that is allocated is in one     *)
(*     list or in the hands of one thread.  So none is used after it is    *)
(*     freed, and none is lost.                                            *)
(*   - Items: the slot of a ticket, in the page of its number, has the     *)
(*     item that was pushed with it; with the tickets in order, that makes *)
(*     the queue a linearizable FIFO.                                      *)
(*   - The queue at rest: what is pushed and not popped has its item in a  *)
(*     page of the lists, so that the iterator and the copy meet it.       *)
(***************************************************************************)
EXTENDS QueueAtRest, TLAPS, FiniteSetTheorems, SequenceTheorems,
        WellFoundedInduction

-----------------------------------------------------------------------------
(* Arithmetic *)

LEMMA Division ==
    ASSUME NEW n \in Nat \ {0}, NEW a \in Nat
    PROVE  /\ a \div n \in Nat
           /\ a % n \in 0 .. n - 1
           /\ a = n * (a \div n) + (a % n)
  BY Z3

LEMMA Remainder ==
    ASSUME NEW n \in Nat \ {0}, NEW q \in Nat, NEW r \in 0 .. n - 1
    PROVE  (n * q + r) % n = r
  BY Z3

LEMMA Multiples ==
    ASSUME NEW n \in Nat \ {0}, NEW a \in Nat, NEW b \in Nat, n * a < n * b
    PROVE  n * a + n <= n * b
  BY Z3

LEMMA Distribute ==
    ASSUME NEW n \in Nat, NEW a \in Nat, NEW b \in Nat
    PROVE  n * a + n * b = n * (a + b)
  BY Z3

\* A ticket is its turn and its place in the round.
LEMMA TurnFacts ==
    ASSUME NEW k \in Nat
    PROVE  /\ Micro(k) \in MicroQueues
           /\ Turn(k) \in Nat
           /\ k = Turn(k) + (k % NQueue)
           /\ k % NQueue \in MicroQueues
           /\ \E q \in Nat : Turn(k) = NQueue * q
<1>1. k * Phi \in Nat
  BY LayoutAssumption
<1>2. /\ k \div NQueue \in Nat
      /\ k % NQueue \in 0 .. NQueue - 1
      /\ k = NQueue * (k \div NQueue) + (k % NQueue)
  BY Division, LayoutAssumption
<1>3. (k * Phi) % NQueue \in 0 .. NQueue - 1
  BY <1>1, Division, LayoutAssumption
<1>4. NQueue * (k \div NQueue) \in Nat
  BY <1>2, LayoutAssumption
<1>5. Turn(k) = NQueue * (k \div NQueue)
  BY <1>2, <1>4, LayoutAssumption DEF Turn
<1> QED
  BY <1>2, <1>3, <1>4, <1>5, LayoutAssumption DEF Micro, MicroQueues

\* The micro queue depends on the place in the round only ...
LEMMA MicroOfPlace ==
    ASSUME NEW k \in Nat
    PROVE  Micro(k) = ((k % NQueue) * Phi) % NQueue
<1> DEFINE x == (k % NQueue) * Phi
           d == k \div NQueue
<1>1. d \in Nat /\ k % NQueue \in 0 .. NQueue - 1 /\ k = NQueue * d + (k % NQueue)
  BY Division, LayoutAssumption
<1>2. x \in Nat
  BY <1>1, LayoutAssumption
<1>3. x \div NQueue \in Nat /\ x % NQueue \in 0 .. NQueue - 1
      /\ x = NQueue * (x \div NQueue) + (x % NQueue)
  BY <1>2, Division, LayoutAssumption
<1>4. k * Phi = (NQueue * d) * Phi + x
  BY <1>1, LayoutAssumption, Z3
<1>5. (NQueue * d) * Phi = NQueue * (d * Phi) /\ d * Phi \in Nat
  BY <1>1, LayoutAssumption, Z3
<1> DEFINE a == d * Phi
           b == x \div NQueue
<1>6. /\ a \in Nat /\ b \in Nat
      /\ k * Phi = NQueue * a + x
      /\ x = NQueue * b + (x % NQueue)
      /\ x % NQueue \in 0 .. NQueue - 1
  BY <1>3, <1>4, <1>5
<1> HIDE DEF a, b, x, d
<1>7. k * Phi = NQueue * (a + b) + (x % NQueue)
  <2>1. NQueue * a + NQueue * b = NQueue * (a + b)
    BY <1>6, Distribute, LayoutAssumption
  <2>2. NQueue * a \in Nat /\ NQueue * b \in Nat /\ NQueue * (a + b) \in Nat
    BY <1>6, LayoutAssumption
  <2> QED
    BY <1>6, <2>1, <2>2
<1>8. (k * Phi) % NQueue = x % NQueue
  <2>1. a + b \in Nat
    BY <1>6
  <2>2. (NQueue * (a + b) + (x % NQueue)) % NQueue = x % NQueue
    BY <1>6, <2>1, Remainder, LayoutAssumption
  <2> QED
    BY <1>7, <2>2
<1> QED
  BY <1>8 DEF Micro, x

\* ... so that two tickets of a round never meet in one.
LEMMA OneTicketPerTurn ==
    ASSUME NEW j \in Nat, NEW k \in Nat, Micro(j) = Micro(k), Turn(j) = Turn(k)
    PROVE  j = k
<1>1. ((j % NQueue) * Phi) % NQueue = ((k % NQueue) * Phi) % NQueue
  BY MicroOfPlace
<1>2. j % NQueue = k % NQueue
  BY <1>1, TurnFacts, SpreadAssumption
<1> QED
  BY <1>2, TurnFacts

LEMMA TurnGap ==
    ASSUME NEW j \in Nat, NEW k \in Nat, Turn(j) < Turn(k)
    PROVE  Turn(j) + NQueue <= Turn(k)
<1>1. PICK a \in Nat : Turn(j) = NQueue * a
  BY TurnFacts
<1>2. PICK b \in Nat : Turn(k) = NQueue * b
  BY TurnFacts
<1> QED
  BY <1>1, <1>2, Multiples, LayoutAssumption

-----------------------------------------------------------------------------
(* Taking turns: hold are the threads with a ticket, sect those whose turn *)
(* it is, k the tickets, c the counters of the micro queues and n the next *)
(* ticket.                                                                 *)

Rounds(c) == \A m \in MicroQueues : \E q \in Nat : c[m] = NQueue * q

Ordered(c, n, hold, sect, k) ==
    /\ n \in Nat
    /\ c \in [MicroQueues -> Nat]
    /\ k \in [Threads -> Nat]
    /\ hold \subseteq Threads
    /\ sect \subseteq hold
    /\ Rounds(c)
    /\ \A j \in Nat : j >= n => c[Micro(j)] <= Turn(j)
    /\ \A j \in Nat : j < n => Turn(j) < c[Micro(j)] \/ \E t \in hold : k[t] = j
    /\ \A t \in hold : k[t] < n /\ c[Micro(k[t])] <= Turn(k[t])
    /\ \A t \in sect : c[Micro(k[t])] = Turn(k[t])
    /\ \A t, u \in hold : t # u => k[t] # k[u]

LEMMA OrderedTake ==
    ASSUME NEW c, NEW n, NEW hold, NEW sect, NEW k, Ordered(c, n, hold, sect, k),
           NEW t \in Threads \ hold
    PROVE  Ordered(c, n + 1, hold \cup {t}, sect, [k EXCEPT ![t] = n])
<1> DEFINE k2 == [k EXCEPT ![t] = n]
<1>1. k2 \in [Threads -> Nat] /\ k2[t] = n /\ \A u \in hold : k2[u] = k[u]
  BY DEF Ordered
<1>2. c[Micro(n)] <= Turn(n)
  BY DEF Ordered
<1> HIDE DEF k2
<1>3. \A u \in hold \cup {t} : k2[u] < n + 1 /\ c[Micro(k2[u])] <= Turn(k2[u])
  BY <1>1, <1>2 DEF Ordered
<1>4. \A u \in sect : c[Micro(k2[u])] = Turn(k2[u])
  BY <1>1 DEF Ordered
<1>5. \A u, v \in hold \cup {t} : u # v => k2[u] # k2[v]
  BY <1>1 DEF Ordered
<1>6. \A j \in Nat : j >= n + 1 => c[Micro(j)] <= Turn(j)
  BY DEF Ordered
<1> QED
  BY <1>1, <1>3, <1>4, <1>5, <1>6 DEF Ordered, k2

LEMMA OrderedEnter ==
    ASSUME NEW c, NEW n, NEW hold, NEW sect, NEW k, Ordered(c, n, hold, sect, k),
           NEW t \in hold, c[Micro(k[t])] = Turn(k[t])
    PROVE  Ordered(c, n, hold, sect \cup {t}, k)
  BY DEF Ordered

\* The counter of the micro queue moves on by a round.
LEMMA OrderedRelease ==
    ASSUME NEW c, NEW n, NEW hold, NEW sect, NEW k, Ordered(c, n, hold, sect, k),
           NEW t \in sect
    PROVE  Ordered([c EXCEPT ![Micro(k[t])] = @ + NQueue], n, hold \ {t}, sect \ {t}, k)
<1> DEFINE m == Micro(k[t])
           d == [c EXCEPT ![m] = @ + NQueue]
<1>1. k[t] \in Nat /\ k[t] < n /\ m \in MicroQueues /\ c[m] = Turn(k[t])
  BY TurnFacts DEF Ordered
<1>2. /\ d \in [MicroQueues -> Nat]
      /\ d[m] = c[m] + NQueue
      /\ \A i \in MicroQueues : i # m => d[i] = c[i]
  BY <1>1, LayoutAssumption DEF Ordered
<1> HIDE DEF m, d
\* A ticket that is still due in the micro queue has a later turn.
<1>3. ASSUME NEW j \in Nat, j # k[t], c[Micro(j)] <= Turn(j)
      PROVE  d[Micro(j)] <= Turn(j)
  <2>1. Micro(j) \in MicroQueues /\ Turn(j) \in Nat
    BY TurnFacts
  <2>2. CASE Micro(j) # m
    BY <1>2, <1>3, <2>1, <2>2
  <2>3. CASE Micro(j) = m
    <3>1. Turn(k[t]) # Turn(j)
      BY <1>1, <1>3, <2>3, OneTicketPerTurn DEF m
    <3>2. Turn(k[t]) < Turn(j)
      BY <1>1, <1>3, <2>1, <2>3, <3>1, TurnFacts
    <3> QED
      BY <1>1, <1>2, <2>3, <3>2, TurnGap
  <2> QED
    BY <2>2, <2>3
<1>4. \A j \in Nat : j >= n => d[Micro(j)] <= Turn(j)
  BY <1>1, <1>3 DEF Ordered
<1>5. \A u \in hold \ {t} : k[u] < n /\ d[Micro(k[u])] <= Turn(k[u])
  BY <1>3 DEF Ordered
<1>6. \A u \in sect \ {t} : d[Micro(k[u])] = Turn(k[u])
  <2> TAKE u \in sect \ {t}
  <2>1. k[u] \in Nat /\ k[u] # k[t] /\ c[Micro(k[u])] = Turn(k[u])
    BY DEF Ordered
  <2>2. Micro(k[u]) # m
    BY <1>1, <2>1, OneTicketPerTurn DEF m
  <2> QED
    BY <1>2, <2>1, <2>2, TurnFacts
<1>7. Rounds(d)
  <2> SUFFICES ASSUME NEW i \in MicroQueues PROVE \E q \in Nat : d[i] = NQueue * q
    BY DEF Rounds
  <2>1. PICK q \in Nat : c[i] = NQueue * q
    BY DEF Ordered, Rounds
  <2>2. NQueue * q + NQueue = NQueue * (q + 1)
    BY LayoutAssumption, Z3
  <2> QED
    BY <1>2, <2>1, <2>2
<1>8. \A j \in Nat : j < n => Turn(j) < d[Micro(j)] \/ \E u \in hold \ {t} : k[u] = j
  <2> SUFFICES ASSUME NEW j \in Nat, j < n, ~ \E u \in hold \ {t} : k[u] = j
               PROVE  Turn(j) < d[Micro(j)]
    OBVIOUS
  <2>1. Micro(j) \in MicroQueues /\ Turn(j) \in Nat
    BY TurnFacts
  <2>2. c[Micro(j)] \in Nat /\ c[Micro(j)] <= d[Micro(j)]
    BY <1>2, <2>1, LayoutAssumption DEF Ordered
  <2>3. CASE Turn(j) < c[Micro(j)]
    BY <1>2, <2>1, <2>2, <2>3
  <2>4. CASE ~(Turn(j) < c[Micro(j)])
    <3>1. k[t] = j
      BY <2>4 DEF Ordered
    <3> QED
      BY <1>1, <1>2, <2>1, <3>1, LayoutAssumption DEF m
  <2> QED
    BY <2>3, <2>4
<1> QED
  BY <1>2, <1>4, <1>5, <1>6, <1>7, <1>8 DEF Ordered, d, m

\* The tickets of threads that hold none do not matter.
LEMMA OrderedOther ==
    ASSUME NEW c, NEW n, NEW hold, NEW sect, NEW k, Ordered(c, n, hold, sect, k),
           NEW k2 \in [Threads -> Nat], \A t \in hold : k2[t] = k[t]
    PROVE  Ordered(c, n, hold, sect, k2)
  BY DEF Ordered

LEMMA OrderedApart ==
    ASSUME NEW c, NEW n, NEW hold, NEW sect, NEW k, Ordered(c, n, hold, sect, k),
           NEW t \in sect, NEW u \in sect, Micro(k[t]) = Micro(k[u])
    PROVE  t = u
<1>1. k[t] \in Nat /\ k[u] \in Nat /\ Turn(k[t]) = Turn(k[u])
  BY DEF Ordered
<1> QED
  BY <1>1, OneTicketPerTurn DEF Ordered

-----------------------------------------------------------------------------
(* The inductive invariant: both sides take turns, pops stay behind pushes *)
(* and a pop that has found its item done is behind the push of its ticket.*)

ClaimedSteps == PopSteps \ {"look", "claim", "free"}

Pushing == {t \in Threads : pc[t] \in PushSteps}
PushInside == {t \in Threads : pc[t] \in PushSections}
Claimed == {t \in Threads : pc[t] \in ClaimedSteps}
PopInside == {t \in Threads : pc[t] \in PopSections}
ItemDone == {t \in Threads : pc[t] \in PopSections \ {"await"}}

TurnInv ==
    /\ pc \in [Threads -> {"idle"} \cup PushSteps \cup PopSteps \cup EmptySteps]
    /\ Ordered(tail_counter, rep_tail, Pushing, PushInside, ticket)
    /\ Ordered(head_counter, rep_head, Claimed, PopInside, ticket)
    /\ \A m \in MicroQueues : head_counter[m] <= tail_counter[m]
    /\ \A t \in ItemDone : Turn(ticket[t]) < tail_counter[At(t)]

LEMMA InitTurnInv == Init => TurnInv
<1> SUFFICES ASSUME Init PROVE TurnInv
  OBVIOUS
<1>1. /\ Pushing = {} /\ PushInside = {} /\ Claimed = {} /\ PopInside = {} /\ ItemDone = {}
      /\ pc \in [Threads -> {"idle"} \cup PushSteps \cup PopSteps \cup EmptySteps]
  BY DEF Init, Pushing, PushInside, Claimed, PopInside, ItemDone, PushSteps, PushSections,
         ClaimedSteps, PopSteps, PopSections
<1>2. \A j \in Nat : Micro(j) \in MicroQueues /\ 0 <= Turn(j)
  BY TurnFacts
<1>3. Rounds([m \in MicroQueues |-> 0])
  BY LayoutAssumption DEF Rounds
<1>4. Ordered([m \in MicroQueues |-> 0], 0, {}, {}, ticket)
  BY <1>2, <1>3 DEF Init, Ordered
<1> QED
  BY <1>1, <1>4 DEF Init, TurnInv

\* A step that leaves the counters alone and in which nobody gets or gives up
\* a ticket or a turn.
LEMMA QuietStep ==
    ASSUME TurnInv,
           UNCHANGED <<rep_vars, counter_vars>>,
           ticket' \in [Threads -> Nat],
           \A t \in Pushing \cup Claimed : ticket'[t] = ticket[t],
           pc' \in [Threads -> {"idle"} \cup PushSteps \cup PopSteps \cup EmptySteps],
           Pushing' = Pushing, PushInside' = PushInside,
           Claimed' = Claimed, PopInside' = PopInside, ItemDone' = ItemDone
    PROVE  TurnInv'
<1>1. Ordered(tail_counter, rep_tail, Pushing, PushInside, ticket')
  BY OrderedOther DEF TurnInv
<1>2. Ordered(head_counter, rep_head, Claimed, PopInside, ticket')
  BY OrderedOther DEF TurnInv
<1>3. \A t \in ItemDone : t \in Claimed
  BY DEF ItemDone, Claimed, ClaimedSteps, PopSections, PopSteps
<1> QED
  BY <1>1, <1>2, <1>3 DEF TurnInv, rep_vars, counter_vars, At

LEMMA PushStepTurnInv ==
    ASSUME TurnInv, NEW t \in Threads, PushTicket(t) \/ InPush(t)
    PROVE  TurnInv'
<1> USE DEF Pushing, PushInside, Claimed, PopInside, ItemDone, PushSteps, PushSections,
            ClaimedSteps, PopSteps, PopSections, EmptySteps
<1>0. /\ pc \in [Threads -> {"idle"} \cup PushSteps \cup PopSteps \cup EmptySteps]
      /\ ticket \in [Threads -> Nat]
      /\ rep_tail \in Nat /\ rep_head \in Nat
      /\ tail_counter \in [MicroQueues -> Nat]
  BY DEF TurnInv, Ordered
<1>1. CASE PushTicket(t)
  <2>1. /\ t \notin Pushing /\ t \notin Claimed /\ t \notin ItemDone
        /\ Pushing' = Pushing \cup {t} /\ PushInside' = PushInside
        /\ Claimed' = Claimed /\ PopInside' = PopInside /\ ItemDone' = ItemDone
        /\ pc' \in [Threads -> {"idle"} \cup PushSteps \cup PopSteps \cup EmptySteps]
    BY <1>0, <1>1 DEF PushTicket, Goto
  <2>2. ticket' = [ticket EXCEPT ![t] = rep_tail] /\ rep_tail' = rep_tail + 1
        /\ UNCHANGED <<rep_head, head_counter, tail_counter>>
    BY <1>1 DEF PushTicket, counter_vars
  <2> HIDE DEF Pushing, PushInside, Claimed, PopInside, ItemDone
  <2>3. Ordered(tail_counter, rep_tail + 1, Pushing \cup {t}, PushInside, ticket')
    BY <2>1, <2>2, OrderedTake DEF TurnInv
  <2>4. ticket' \in [Threads -> Nat] /\ \A u \in Claimed : ticket'[u] = ticket[u]
    BY <1>0, <2>1, <2>2 DEF Claimed
  <2>5. Ordered(head_counter, rep_head, Claimed, PopInside, ticket')
    BY <2>4, OrderedOther DEF TurnInv
  <2>6. \A u \in ItemDone : Turn(ticket'[u]) < tail_counter[At(u)']
    BY <1>0, <2>1, <2>2 DEF TurnInv, At, ItemDone
  <2> QED
    BY <2>1, <2>2, <2>3, <2>5, <2>6 DEF TurnInv
<1>2. CASE PushTurn(t)
  <2>1. /\ t \in Pushing
        /\ Pushing' = Pushing /\ PushInside' = PushInside \cup {t}
        /\ Claimed' = Claimed /\ PopInside' = PopInside /\ ItemDone' = ItemDone
        /\ pc' \in [Threads -> {"idle"} \cup PushSteps \cup PopSteps \cup EmptySteps]
    BY <1>0, <1>2 DEF PushTurn, Goto
  <2>2. /\ tail_counter[Micro(ticket[t])] = Turn(ticket[t])
        /\ UNCHANGED <<rep_head, rep_tail, head_counter, tail_counter, ticket>>
    BY <1>2 DEF PushTurn, MyTurn, At, rep_vars, counter_vars, local_vars
  <2> HIDE DEF Pushing, PushInside, Claimed, PopInside, ItemDone
  <2>3. Ordered(tail_counter, rep_tail, Pushing, PushInside \cup {t}, ticket)
    BY <2>1, <2>2, OrderedEnter DEF TurnInv
  <2> QED
    BY <2>1, <2>2, <2>3 DEF TurnInv, At
<1>3. CASE PushRelease(t)
  <2>1. /\ t \in PushInside /\ t \notin Claimed /\ t \notin ItemDone
        /\ Pushing' = Pushing \ {t} /\ PushInside' = PushInside \ {t}
        /\ Claimed' = Claimed /\ PopInside' = PopInside /\ ItemDone' = ItemDone
        /\ pc' \in [Threads -> {"idle"} \cup PushSteps \cup PopSteps \cup EmptySteps]
    BY <1>0, <1>3 DEF PushRelease, Return, Goto
  <2>2. /\ tail_counter' = [tail_counter EXCEPT ![Micro(ticket[t])] = @ + NQueue]
        /\ ticket' = [ticket EXCEPT ![t] = 0]
        /\ UNCHANGED <<rep_head, rep_tail, head_counter>>
    BY <1>3 DEF PushRelease, Return, At, rep_vars
  <2>3. \A m \in MicroQueues : tail_counter[m] <= tail_counter'[m]
    BY <1>0, <2>2, LayoutAssumption
  <2> HIDE DEF Pushing, PushInside, Claimed, PopInside, ItemDone
  <2>4. Ordered(tail_counter', rep_tail, Pushing \ {t}, PushInside \ {t}, ticket)
    BY <2>1, <2>2, OrderedRelease DEF TurnInv
  <2>5. ticket' \in [Threads -> Nat]
        /\ \A u \in Claimed \cup (Pushing \ {t}) \cup ItemDone : ticket'[u] = ticket[u]
    BY <1>0, <2>1, <2>2 DEF Claimed, Pushing, ItemDone
  <2>6. Ordered(tail_counter', rep_tail, Pushing \ {t}, PushInside \ {t}, ticket')
    BY <2>4, <2>5, OrderedOther
  <2>7. Ordered(head_counter, rep_head, Claimed, PopInside, ticket')
    BY <2>5, OrderedOther DEF TurnInv
  <2>8. \A m \in MicroQueues : head_counter[m] <= tail_counter'[m]
    BY <1>0, <2>3, <2>6 DEF TurnInv, Ordered
  <2>9. \A u \in ItemDone : Turn(ticket'[u]) < tail_counter'[At(u)']
    <3> TAKE u \in ItemDone
    <3>1. ticket[u] \in Nat /\ ticket'[u] = ticket[u]
      BY <1>0, <2>5 DEF ItemDone
    <3>2. Micro(ticket[u]) \in MicroQueues /\ Turn(ticket[u]) \in Nat
      BY <3>1, TurnFacts
    <3>3. Turn(ticket[u]) < tail_counter[Micro(ticket[u])]
      BY DEF TurnInv, At
    <3>4. tail_counter'[Micro(ticket[u])] \in Nat
      BY <2>6, <3>2 DEF Ordered
    <3> QED
      BY <1>0, <2>3, <3>1, <3>2, <3>3, <3>4 DEF At
  <2> QED
    BY <2>1, <2>2, <2>6, <2>7, <2>8, <2>9 DEF TurnInv
<1>4. CASE AllocatePage(t) \/ PushLock(t) \/ LinkPage(t) \/ SetTailPage(t)
           \/ PushPage(t) \/ FillSlot(t)
  <2>1. UNCHANGED <<rep_vars, counter_vars, ticket>>
    BY <1>4 DEF AllocatePage, PushLock, LinkPage, SetTailPage, PushPage, FillSlot, local_vars
  <2>2. \E from \in {<<"allocate", "push_turn">>, <<"push_lock", "link">>, <<"link", "set_tail">>,
                     <<"set_tail", "fill">>, <<"push_page", "fill">>, <<"fill", "push_release">>} :
           pc[t] = from[1] /\ pc' = [pc EXCEPT ![t] = from[2]]
    BY <1>4 DEF AllocatePage, PushLock, LinkPage, SetTailPage, PushPage, FillSlot, Goto
  <2>3. /\ Pushing' = Pushing /\ PushInside' = PushInside
        /\ Claimed' = Claimed /\ PopInside' = PopInside /\ ItemDone' = ItemDone
        /\ pc' \in [Threads -> {"idle"} \cup PushSteps \cup PopSteps \cup EmptySteps]
    BY <1>0, <2>2
  <2> QED
    BY <1>0, <2>1, <2>3, QuietStep
<1> QED
  BY <1>1, <1>2, <1>3, <1>4 DEF InPush

LEMMA PopStepTurnInv ==
    ASSUME TurnInv, NEW t \in Threads, ReadHead(t) \/ InPop(t)
    PROVE  TurnInv'
<1> USE DEF Pushing, PushInside, Claimed, PopInside, ItemDone, PushSteps, PushSections,
            ClaimedSteps, PopSteps, PopSections, EmptySteps
<1>0. /\ pc \in [Threads -> {"idle"} \cup PushSteps \cup PopSteps \cup EmptySteps]
      /\ ticket \in [Threads -> Nat]
      /\ rep_tail \in Nat /\ rep_head \in Nat
      /\ head_counter \in [MicroQueues -> Nat]
      /\ tail_counter \in [MicroQueues -> Nat]
  BY DEF TurnInv, Ordered
<1>1. CASE ReadHead(t) \/ LookEmpty(t) \/ LookFull(t) \/ ClaimLoses(t)
  <2>1. /\ UNCHANGED <<rep_vars, counter_vars>>
        /\ ticket' \in [Threads -> Nat]
        /\ \A u \in Threads : u # t => ticket'[u] = ticket[u]
    BY <1>0, <1>1 DEF ReadHead, LookEmpty, LookFull, ClaimLoses, Return, local_vars
  <2>2. \E from \in {<<"idle", "look">>, <<"look", "idle">>, <<"look", "claim">>,
                     <<"claim", "look">>} :
           pc[t] = from[1] /\ pc' = [pc EXCEPT ![t] = from[2]]
    BY <1>1 DEF ReadHead, LookEmpty, LookFull, ClaimLoses, Return, Goto
  <2>3. /\ t \notin Pushing \cup Claimed
        /\ Pushing' = Pushing /\ PushInside' = PushInside
        /\ Claimed' = Claimed /\ PopInside' = PopInside /\ ItemDone' = ItemDone
        /\ pc' \in [Threads -> {"idle"} \cup PushSteps \cup PopSteps \cup EmptySteps]
    BY <1>0, <2>2
  <2>4. \A u \in Pushing \cup Claimed : ticket'[u] = ticket[u]
    BY <2>1, <2>3
  <2> QED
    BY <2>1, <2>3, <2>4, QuietStep
<1>2. CASE ClaimWins(t)
  <2>1. /\ t \notin Claimed
        /\ Pushing' = Pushing /\ PushInside' = PushInside
        /\ Claimed' = Claimed \cup {t} /\ PopInside' = PopInside /\ ItemDone' = ItemDone
        /\ pc' \in [Threads -> {"idle"} \cup PushSteps \cup PopSteps \cup EmptySteps]
    BY <1>0, <1>2 DEF ClaimWins, Goto
  <2>2. /\ ticket[t] = rep_head /\ rep_head' = rep_head + 1
        /\ UNCHANGED <<rep_tail, head_counter, tail_counter, ticket>>
    BY <1>2 DEF ClaimWins, counter_vars, local_vars
  <2>3. [ticket EXCEPT ![t] = rep_head] = ticket
    BY <1>0, <2>2
  <2> HIDE DEF Pushing, PushInside, Claimed, PopInside, ItemDone
  <2>4. Ordered(head_counter, rep_head + 1, Claimed \cup {t}, PopInside,
                [ticket EXCEPT ![t] = rep_head])
    BY <2>1, OrderedTake DEF TurnInv
  <2> QED
    BY <2>1, <2>2, <2>3, <2>4 DEF TurnInv, At
<1>3. CASE PopTurn(t)
  <2>1. /\ t \in Claimed
        /\ Pushing' = Pushing /\ PushInside' = PushInside
        /\ Claimed' = Claimed /\ PopInside' = PopInside \cup {t} /\ ItemDone' = ItemDone
        /\ pc' \in [Threads -> {"idle"} \cup PushSteps \cup PopSteps \cup EmptySteps]
    BY <1>0, <1>3 DEF PopTurn, Goto
  <2>2. /\ head_counter[Micro(ticket[t])] = Turn(ticket[t])
        /\ UNCHANGED <<rep_head, rep_tail, head_counter, tail_counter, ticket>>
    BY <1>3 DEF PopTurn, MyTurn, At, rep_vars, counter_vars, local_vars
  <2> HIDE DEF Pushing, PushInside, Claimed, PopInside, ItemDone
  <2>3. Ordered(head_counter, rep_head, Claimed, PopInside \cup {t}, ticket)
    BY <2>1, <2>2, OrderedEnter DEF TurnInv
  <2> QED
    BY <2>1, <2>2, <2>3 DEF TurnInv, At
\* The counter of the pops is at this ticket, that of the pushes past it.
<1>4. CASE AwaitItem(t)
  <2>1. /\ t \in PopInside
        /\ Pushing' = Pushing /\ PushInside' = PushInside
        /\ Claimed' = Claimed /\ PopInside' = PopInside /\ ItemDone' = ItemDone \cup {t}
        /\ pc' \in [Threads -> {"idle"} \cup PushSteps \cup PopSteps \cup EmptySteps]
    BY <1>0, <1>4 DEF AwaitItem, Goto
  <2>2. /\ tail_counter[Micro(ticket[t])] # Turn(ticket[t])
        /\ UNCHANGED <<rep_head, rep_tail, head_counter, tail_counter, ticket>>
    BY <1>4 DEF AwaitItem, MyTurn, At, rep_vars, counter_vars, local_vars
  <2> HIDE DEF Pushing, PushInside, Claimed, PopInside, ItemDone
  <2>3. Micro(ticket[t]) \in MicroQueues /\ Turn(ticket[t]) \in Nat
    BY <1>0, TurnFacts
  <2>4. head_counter[Micro(ticket[t])] = Turn(ticket[t])
    BY <2>1 DEF TurnInv, Ordered
  <2>5. Turn(ticket[t]) < tail_counter[At(t)]
    BY <1>0, <2>2, <2>3, <2>4 DEF TurnInv, At
  <2> QED
    BY <2>1, <2>2, <2>5 DEF TurnInv, At
<1>5. CASE PopRelease(t)
  <2>1. /\ t \in PopInside /\ t \in ItemDone /\ t \notin Pushing
        /\ Pushing' = Pushing /\ PushInside' = PushInside
        /\ Claimed' = Claimed \ {t} /\ PopInside' = PopInside \ {t}
        /\ ItemDone' = ItemDone \ {t}
        /\ pc' \in [Threads -> {"idle"} \cup PushSteps \cup PopSteps \cup EmptySteps]
    BY <1>0, <1>5 DEF PopRelease, Return, Goto
  <2>2. /\ head_counter' = [head_counter EXCEPT ![Micro(ticket[t])] = Turn(ticket[t]) + NQueue]
        /\ UNCHANGED <<rep_head, rep_tail, tail_counter>>
        /\ ticket' \in [Threads -> Nat]
        /\ \A u \in Threads : u # t => ticket'[u] = ticket[u]
    BY <1>0, <1>5 DEF PopRelease, Return, At, rep_vars
  <2>3. \A u \in ItemDone : u \in Claimed
    OBVIOUS
  <2> HIDE DEF Pushing, PushInside, Claimed, PopInside, ItemDone
  <2>4. Micro(ticket[t]) \in MicroQueues /\ Turn(ticket[t]) \in Nat
    BY <1>0, TurnFacts
  <2>5. head_counter[Micro(ticket[t])] = Turn(ticket[t])
    BY <2>1 DEF TurnInv, Ordered
  <2>6. head_counter' = [head_counter EXCEPT ![Micro(ticket[t])] = @ + NQueue]
    BY <1>0, <2>2, <2>4, <2>5
  <2>7. Ordered(head_counter', rep_head, Claimed \ {t}, PopInside \ {t}, ticket)
    BY <2>1, <2>6, OrderedRelease DEF TurnInv
  <2>8. \A u \in (Claimed \ {t}) \cup Pushing : ticket'[u] = ticket[u]
    BY <2>1, <2>2 DEF Claimed, Pushing
  <2>9. Ordered(head_counter', rep_head, Claimed \ {t}, PopInside \ {t}, ticket')
    BY <2>2, <2>7, <2>8, OrderedOther
  <2>10. Ordered(tail_counter, rep_tail, Pushing, PushInside, ticket')
    BY <2>2, <2>8, OrderedOther DEF TurnInv
  <2>11. \A m \in MicroQueues : head_counter'[m] <= tail_counter[m]
    <3>1. Turn(ticket[t]) < tail_counter[Micro(ticket[t])]
      BY <2>1 DEF TurnInv, At
    <3>2. PICK a \in Nat : Turn(ticket[t]) = NQueue * a
      BY <1>0, TurnFacts
    <3>3. PICK b \in Nat : tail_counter[Micro(ticket[t])] = NQueue * b
      BY <2>4 DEF TurnInv, Ordered, Rounds
    <3>4. Turn(ticket[t]) + NQueue <= tail_counter[Micro(ticket[t])]
      BY <3>1, <3>2, <3>3, Multiples, LayoutAssumption
    <3> QED
      BY <1>0, <2>2, <2>4, <3>4 DEF TurnInv
  <2>12. \A u \in ItemDone \ {t} : Turn(ticket'[u]) < tail_counter[At(u)']
    BY <2>3, <2>8 DEF TurnInv, At
  <2> QED
    BY <2>1, <2>2, <2>9, <2>10, <2>11, <2>12 DEF TurnInv
<1>6. CASE PopPage(t) \/ TakeItem(t) \/ PopLock(t) \/ UnlinkPage(t) \/ ClearTailPage(t)
  <2>1. UNCHANGED <<rep_vars, counter_vars, ticket>>
    BY <1>6 DEF PopPage, TakeItem, PopLock, UnlinkPage, ClearTailPage, local_vars
  <2>2. \E from \in {<<"pop_page", "take">>, <<"take", "pop_lock">>, <<"take", "pop_release">>,
                     <<"pop_lock", "unlink">>, <<"unlink", "pop_release">>,
                     <<"unlink", "clear_tail">>, <<"clear_tail", "pop_release">>} :
           pc[t] = from[1] /\ pc' = [pc EXCEPT ![t] = from[2]]
    BY <1>6 DEF PopPage, TakeItem, PopLock, UnlinkPage, ClearTailPage, Goto
  <2>3. /\ Pushing' = Pushing /\ PushInside' = PushInside
        /\ Claimed' = Claimed /\ PopInside' = PopInside /\ ItemDone' = ItemDone
        /\ pc' \in [Threads -> {"idle"} \cup PushSteps \cup PopSteps \cup EmptySteps]
    BY <1>0, <2>2
  <2> QED
    BY <1>0, <2>1, <2>3, QuietStep
<1>7. CASE FreePage(t)
  <2>1. /\ UNCHANGED <<rep_vars, counter_vars>>
        /\ ticket' \in [Threads -> Nat]
        /\ \A u \in Threads : u # t => ticket'[u] = ticket[u]
        /\ pc[t] = "free" /\ pc' = [pc EXCEPT ![t] = "idle"]
    BY <1>0, <1>7 DEF FreePage, Return, Goto
  <2>2. /\ t \notin Pushing \cup Claimed
        /\ Pushing' = Pushing /\ PushInside' = PushInside
        /\ Claimed' = Claimed /\ PopInside' = PopInside /\ ItemDone' = ItemDone
        /\ pc' \in [Threads -> {"idle"} \cup PushSteps \cup PopSteps \cup EmptySteps]
    BY <1>0, <2>1
  <2>3. \A u \in Pushing \cup Claimed : ticket'[u] = ticket[u]
    BY <2>1, <2>2
  <2> QED
    BY <2>1, <2>2, <2>3, QuietStep
<1> QED
  BY <1>1, <1>2, <1>3, <1>4, <1>5, <1>6, <1>7 DEF InPop

LEMMA EmptyStepTurnInv ==
    ASSUME TurnInv, NEW t \in Threads, EmptyReadTail(t) \/ InEmpty(t)
    PROVE  TurnInv'
<1> USE DEF Pushing, PushInside, Claimed, PopInside, ItemDone, PushSteps, PushSections,
            ClaimedSteps, PopSteps, PopSections, EmptySteps
<1>0. /\ pc \in [Threads -> {"idle"} \cup PushSteps \cup PopSteps \cup EmptySteps]
      /\ ticket \in [Threads -> Nat]
      /\ rep_tail \in Nat
  BY DEF TurnInv, Ordered
<1>1. /\ UNCHANGED <<rep_vars, counter_vars>>
      /\ ticket' \in [Threads -> Nat]
      /\ \A u \in Threads : u # t => ticket'[u] = ticket[u]
  BY <1>0 DEF EmptyReadTail, InEmpty, EmptyReadHead, EmptyAgain, Return, local_vars
<1>2. \E from, to \in {"idle", "empty_head", "empty_same", "empty_differs"} :
         pc[t] = from /\ pc' = [pc EXCEPT ![t] = to]
  BY DEF EmptyReadTail, InEmpty, EmptyReadHead, EmptyAgain, Return, Goto
<1>3. /\ t \notin Pushing \cup Claimed
      /\ Pushing' = Pushing /\ PushInside' = PushInside
      /\ Claimed' = Claimed /\ PopInside' = PopInside /\ ItemDone' = ItemDone
      /\ pc' \in [Threads -> {"idle"} \cup PushSteps \cup PopSteps \cup EmptySteps]
  BY <1>0, <1>2
<1>4. \A u \in Pushing \cup Claimed : ticket'[u] = ticket[u]
  BY <1>1, <1>3
<1> QED
  BY <1>1, <1>3, <1>4, QuietStep

LEMMA NextTurnInv == TurnInv /\ [Next]_vars => TurnInv'
<1> SUFFICES ASSUME TurnInv, [Next]_vars PROVE TurnInv'
  OBVIOUS
<1>1. CASE Next
  BY <1>1, PushStepTurnInv, PopStepTurnInv, EmptyStepTurnInv DEF Next, Threads
<1>2. CASE UNCHANGED vars
  <2>1. /\ UNCHANGED <<rep_vars, counter_vars, pc, ticket>>
    BY <1>2 DEF vars, local_vars
  <2> QED
    BY <2>1 DEF TurnInv, Ordered, Rounds, Pushing, PushInside, Claimed, PopInside, ItemDone,
                At, rep_vars, counter_vars
<1> QED
  BY <1>1, <1>2

THEOREM Turns == Spec => []TurnInv
<1> QED
  BY InitTurnInv, NextTurnInv, PTL DEF Spec

-----------------------------------------------------------------------------
(***************************************************************************)
(* At most one push and one pop are at the pages of a micro queue.         *)
(***************************************************************************)
THEOREM OneAtATimeHolds == Spec => []OneAtATime
<1>1. TurnInv => OneAtATime
  <2> SUFFICES ASSUME TurnInv, NEW t \in Threads, NEW u \in Threads, t # u, At(t) = At(u)
               PROVE  /\ ~(pc[t] \in PushSections /\ pc[u] \in PushSections)
                      /\ ~(pc[t] \in PopSections /\ pc[u] \in PopSections)
    BY DEF OneAtATime
  <2>1. ~(t \in PushInside /\ u \in PushInside)
    BY OrderedApart DEF TurnInv, At
  <2>2. ~(t \in PopInside /\ u \in PopInside)
    BY OrderedApart DEF TurnInv, At
  <2> QED
    BY <2>1, <2>2 DEF PushInside, PopInside
<1> QED
  BY <1>1, Turns, PTL

(***************************************************************************)
(* A pop reads the slot of its ticket when the push of that ticket is over:*)
(* the counter of the pushes is past it, and never goes back.              *)
(***************************************************************************)
THEOREM PushOverBeforePopHolds == Spec => []PushOverBeforePop
<1>1. TurnInv => PushOverBeforePop
  <2> SUFFICES ASSUME TurnInv, NEW t \in Threads, NEW u \in Threads,
                      pc[t] \in PopSections \ {"await"}, pc[u] \in PushSteps,
                      ticket[t] = ticket[u]
               PROVE  FALSE
    BY DEF PushOverBeforePop
  <2>1. t \in ItemDone /\ u \in Pushing
    BY DEF ItemDone, Pushing
  <2>2. ticket[u] \in Nat /\ tail_counter[Micro(ticket[u])] <= Turn(ticket[u])
    BY <2>1 DEF TurnInv, Ordered
  <2>3. Turn(ticket[u]) < tail_counter[Micro(ticket[u])]
    BY <2>1 DEF TurnInv, At
  <2>4. Turn(ticket[u]) \in Nat /\ tail_counter[Micro(ticket[u])] \in Nat
    BY <2>2, TurnFacts DEF TurnInv, Ordered
  <2> QED
    BY <2>2, <2>3, <2>4
<1> QED
  BY <1>1, Turns, PTL

-----------------------------------------------------------------------------
(* The way of a thread through its call *)

Step(t) ==
    \/ PushTicket(t) \/ InPush(t)
    \/ ReadHead(t) \/ InPop(t)
    \/ EmptyReadTail(t) \/ InEmpty(t)

LEMMA NextIsStep == ASSUME Next PROVE \E t \in Threads : Step(t)
  BY DEF Next, Step, Threads

Over(f, S) == f = [x \in S |-> f[x]]

TypeOK ==
    /\ Over(head_page, MicroQueues)
    /\ Over(tail_page, MicroQueues)
    /\ page_mutex \in [MicroQueues -> Threads \cup {Nobody}]
    /\ allocated \in SUBSET Pages
    /\ Over(next, Pages)
    /\ Over(mine, Threads)
    /\ Over(seen, Threads)

\* Which page a thread has, and what the index of its ticket is.
WayOf(t) ==
    /\ pc[t] = "idle" => mine[t] = NoPage
    /\ pc[t] = "allocate" => mine[t] = NoPage /\ Index(ticket[t]) = 0
    /\ pc[t] = "push_turn" => (mine[t] # NoPage <=> Index(ticket[t]) = 0)
    /\ pc[t] \in {"push_lock", "link", "set_tail"} => Index(ticket[t]) = 0
    /\ pc[t] = "push_page" => Index(ticket[t]) # 0
    /\ pc[t] \in {"pop_lock", "unlink", "clear_tail", "free"} => Last(ticket[t])

Locking == {"link", "set_tail", "unlink", "clear_tail"}

MutexInv ==
    \A m \in MicroQueues, t \in Threads :
        page_mutex[m] = t <=> pc[t] \in Locking /\ At(t) = m

WayInv == TypeOK /\ MutexInv /\ \A t \in Threads : WayOf(t)

LEMMA InitWayInv == Init => WayInv
  BY ThreadAssumption DEF Init, WayInv, TypeOK, Over, MutexInv, WayOf, Locking

Stays(t) ==
    /\ pc'[t] = pc[t]
    /\ ticket'[t] = ticket[t]
    /\ mine'[t] = mine[t]
    /\ seen'[t] = seen[t]

\* A step is a step of one thread: the others keep their local variables.
LEMMA OthersStay ==
    ASSUME TurnInv, TypeOK, NEW t \in Threads, Step(t)
    PROVE  \A u \in Threads : u # t => Stays(u)
<1> USE DEF Over
<1>1. /\ pc \in [Threads -> {"idle"} \cup PushSteps \cup PopSteps \cup EmptySteps]
      /\ ticket \in [Threads -> Nat]
      /\ Over(mine, Threads) /\ Over(seen, Threads)
  BY DEF TurnInv, Ordered, TypeOK
<1>2. ASSUME PushTicket(t) \/ InPush(t) PROVE \A u \in Threads : u # t => Stays(u)
  BY <1>1, <1>2 DEF PushTicket, InPush, AllocatePage, PushTurn, PushLock, LinkPage, SetTailPage,
                    PushPage, FillSlot, PushRelease, Goto, Return, Stays, local_vars
<1>3. ASSUME ReadHead(t) \/ InPop(t) PROVE \A u \in Threads : u # t => Stays(u)
  BY <1>1, <1>3 DEF ReadHead, InPop, LookEmpty, LookFull, ClaimWins, ClaimLoses, PopTurn,
                    AwaitItem, PopPage, TakeItem, PopLock, UnlinkPage, ClearTailPage,
                    PopRelease, FreePage, Goto, Return, Stays, local_vars
<1>4. ASSUME EmptyReadTail(t) \/ InEmpty(t) PROVE \A u \in Threads : u # t => Stays(u)
  BY <1>1, <1>4 DEF EmptyReadTail, InEmpty, EmptyReadHead, EmptyAgain, Goto, Return, Stays,
                    local_vars
<1> QED
  BY <1>2, <1>3, <1>4 DEF Step

LEMMA StepTypeOK ==
    ASSUME TypeOK, TurnInv, NEW t \in Threads, Step(t)
    PROVE  TypeOK'
<1> USE DEF TypeOK, Over
<1>1. At(t) \in MicroQueues
  BY TurnFacts DEF TurnInv, Ordered, At
<1>2. CASE PushTicket(t) \/ InPush(t)
  BY <1>1, <1>2 DEF PushTicket, InPush, AllocatePage, PushTurn, PushLock, LinkPage,
        SetTailPage, PushPage, FillSlot, PushRelease, Return, local_vars, list_vars, page_vars,
        Locked, Unlocked
<1>3. CASE ReadHead(t) \/ InPop(t)
  <2>1. CASE ReadHead(t) \/ LookEmpty(t) \/ LookFull(t) \/ ClaimWins(t) \/ ClaimLoses(t)
    BY <2>1 DEF ReadHead, LookEmpty, LookFull, ClaimWins, ClaimLoses, Return, local_vars,
          list_vars, page_vars
  <2>2. CASE PopTurn(t) \/ AwaitItem(t) \/ PopPage(t) \/ TakeItem(t)
    BY <1>1, <2>2 DEF PopTurn, AwaitItem, PopPage, TakeItem, local_vars, list_vars, page_vars
  <2>3. CASE PopLock(t)
    BY <1>1, <2>3 DEF PopLock, page_vars, Locked
  <2>4. CASE UnlinkPage(t) \/ ClearTailPage(t)
    BY <1>1, <2>4 DEF UnlinkPage, ClearTailPage, page_vars, local_vars, Unlocked
  <2>5. CASE PopRelease(t) \/ FreePage(t)
    BY <1>1, <2>5 DEF PopRelease, FreePage, page_vars, list_vars, local_vars, Return
  <2> QED
    BY <1>3, <2>1, <2>2, <2>3, <2>4, <2>5 DEF InPop
<1>4. CASE EmptyReadTail(t) \/ InEmpty(t)
  BY <1>4 DEF EmptyReadTail, InEmpty, EmptyReadHead, EmptyAgain, Return, local_vars,
        list_vars, page_vars
<1> QED
  BY <1>2, <1>3, <1>4 DEF Step

LEMMA StepMutex ==
    ASSUME TypeOK, TurnInv, MutexInv, NEW t \in Threads, Step(t)
    PROVE  MutexInv'
<1>1. /\ At(t) \in MicroQueues
      /\ pc \in [Threads -> {"idle"} \cup PushSteps \cup PopSteps \cup EmptySteps]
      /\ page_mutex \in [MicroQueues -> Threads \cup {Nobody}]
      /\ ticket \in [Threads -> Nat]
  BY TurnFacts DEF TurnInv, Ordered, At, TypeOK
<1>2. \A u \in Threads : u # t => pc'[u] = pc[u] /\ At(u)' = At(u)
  BY OthersStay DEF Stays, At
<1>3. ASSUME UNCHANGED page_mutex, pc[t] \in Locking <=> pc'[t] \in Locking,
             pc[t] \in Locking => ticket'[t] = ticket[t]
      PROVE  MutexInv'
  BY <1>2, <1>3 DEF MutexInv, At
<1>4. ASSUME Locked(t), pc'[t] \in Locking, pc[t] \notin Locking, ticket' = ticket
      PROVE  MutexInv'
  BY <1>1, <1>2, <1>4, ThreadAssumption DEF MutexInv, Locked, At
<1>5. ASSUME Unlocked(t), pc'[t] \notin Locking, pc[t] \in Locking, ticket' = ticket
      PROVE  MutexInv'
  BY <1>1, <1>2, <1>5, ThreadAssumption DEF MutexInv, Unlocked, At
<1>6. CASE PushTicket(t) \/ InPush(t)
  <2>1. CASE PushLock(t)
    BY <1>1, <1>4, <2>1 DEF PushLock, Goto, Locking
  <2>2. CASE SetTailPage(t)
    BY <1>1, <1>5, <2>2 DEF SetTailPage, Goto, Locking, local_vars
  <2>3. CASE PushTicket(t) \/ AllocatePage(t) \/ PushTurn(t) \/ LinkPage(t) \/ PushPage(t)
             \/ FillSlot(t) \/ PushRelease(t)
    BY <1>1, <1>3, <2>3 DEF PushTicket, AllocatePage, PushTurn, LinkPage, PushPage, FillSlot,
         PushRelease, Goto, Return, Locking, local_vars, list_vars
  <2> QED
    BY <1>6, <2>1, <2>2, <2>3 DEF InPush
<1>7. CASE ReadHead(t) \/ InPop(t)
  <2>1. CASE PopLock(t)
    BY <1>1, <1>4, <2>1 DEF PopLock, Goto, Locking
  <2>2. CASE ClearTailPage(t) \/ (UnlinkPage(t) /\ seen[t] # NoPage)
    BY <1>1, <1>5, <2>2 DEF ClearTailPage, UnlinkPage, Goto, Locking, local_vars
  <2>3. CASE UnlinkPage(t) /\ seen[t] = NoPage
    BY <1>1, <1>3, <2>3 DEF UnlinkPage, Goto, Locking, local_vars
  <2>4. CASE ReadHead(t) \/ LookEmpty(t) \/ LookFull(t) \/ ClaimWins(t) \/ ClaimLoses(t)
             \/ PopTurn(t) \/ AwaitItem(t) \/ PopPage(t) \/ TakeItem(t) \/ PopRelease(t)
             \/ FreePage(t)
    BY <1>1, <1>3, <2>4 DEF ReadHead, LookEmpty, LookFull, ClaimWins, ClaimLoses, PopTurn,
         AwaitItem, PopPage, TakeItem, PopRelease, FreePage, Goto, Return, Locking,
         local_vars, list_vars
  <2> QED
    BY <1>7, <2>1, <2>2, <2>3, <2>4 DEF InPop
<1>8. CASE EmptyReadTail(t) \/ InEmpty(t)
  BY <1>1, <1>3, <1>8 DEF EmptyReadTail, InEmpty, EmptyReadHead, EmptyAgain, Goto, Return,
       Locking, local_vars, list_vars
<1> QED
  BY <1>6, <1>7, <1>8 DEF Step

LEMMA StepWay ==
    ASSUME TypeOK, TurnInv, NEW t \in Threads, WayOf(t), Step(t)
    PROVE  WayOf(t)'
<1> USE DEF Over
<1>1. /\ pc \in [Threads -> {"idle"} \cup PushSteps \cup PopSteps \cup EmptySteps]
      /\ ticket \in [Threads -> Nat]
      /\ Over(mine, Threads)
  BY DEF TurnInv, Ordered, TypeOK
<1>2. CASE PushTicket(t) \/ InPush(t)
  BY <1>1, <1>2, ThreadAssumption DEF PushTicket, InPush, AllocatePage, PushTurn, PushLock, LinkPage,
        SetTailPage, PushPage, FillSlot, PushRelease, Goto, Return, WayOf, local_vars
<1>3. CASE ReadHead(t) \/ InPop(t)
  BY <1>1, <1>3 DEF ReadHead, InPop, LookEmpty, LookFull, ClaimWins, ClaimLoses, PopTurn,
        AwaitItem, PopPage, TakeItem, PopLock, UnlinkPage, ClearTailPage, PopRelease, FreePage,
        Goto, Return, WayOf, local_vars
<1>4. CASE EmptyReadTail(t) \/ InEmpty(t)
  BY <1>1, <1>4 DEF EmptyReadTail, InEmpty, EmptyReadHead, EmptyAgain, Goto, Return, WayOf,
        local_vars
<1> QED
  BY <1>2, <1>3, <1>4 DEF Step

LEMMA NextWayInv == TurnInv /\ WayInv /\ [Next]_vars => WayInv'
<1> SUFFICES ASSUME TurnInv, WayInv, [Next]_vars PROVE WayInv'
  OBVIOUS
<1>1. CASE Next
  <2>1. PICK t \in Threads : Step(t)
    BY <1>1, NextIsStep
  <2>2. ASSUME NEW u \in Threads, u # t PROVE WayOf(u)'
    BY <2>1, <2>2, OthersStay DEF WayInv, WayOf, Stays
  <2> QED
    BY <2>1, <2>2, StepTypeOK, StepMutex, StepWay DEF WayInv
<1>2. CASE UNCHANGED vars
  BY <1>2 DEF vars, rep_vars, counter_vars, list_vars, page_vars, local_vars, WayInv, TypeOK, Over,
              MutexInv, WayOf, At
<1> QED
  BY <1>1, <1>2

-----------------------------------------------------------------------------
(* Pages by number: page j of a micro queue has the items of the rounds    *)
(* from j * ItemsPerPage on.  Lo is the first page that is linked, Hi one  *)
(* past the last.                                                          *)

PageOf(c) == (c \div NQueue) \div ItemsPerPage
PageUp(c) == (c \div NQueue + ItemsPerPage - 1) \div ItemsPerPage
PageNo(k) == PageOf(k)

LEMMA Quotient ==
    ASSUME NEW n \in Nat \ {0}, NEW q \in Nat, NEW r \in 0 .. n - 1
    PROVE  (n * q + r) \div n = q
  BY Z3

LEMMA Quotients ==
    ASSUME NEW n \in Nat \ {0}, NEW a \in Nat, NEW b \in Nat, a <= b
    PROVE  a \div n <= b \div n
<1>1. /\ a \div n \in Nat /\ a % n \in 0 .. n - 1 /\ a = n * (a \div n) + (a % n)
      /\ b \div n \in Nat /\ b % n \in 0 .. n - 1 /\ b = n * (b \div n) + (b % n)
  BY Division
<1> DEFINE p == a \div n
           q == b \div n
           i == a % n
           j == b % n
<1>2. /\ p \in Nat /\ q \in Nat /\ i \in 0 .. n - 1 /\ j \in 0 .. n - 1
      /\ n * p + i <= n * q + j
  BY <1>1
<1> HIDE DEF p, q, i, j
<1>3. ~(q < p)
  <2> SUFFICES ASSUME q < p PROVE FALSE
    OBVIOUS
  <2>1. n * q \in Nat /\ n * p \in Nat /\ n * q < n * p
    BY <1>2, Z3
  <2>2. n * q + n <= n * p
    BY <1>2, <2>1, Multiples
  <2> QED
    BY <1>2, <2>1, <2>2
<1> QED
  BY <1>2, <1>3 DEF p, q

LEMMA PageFacts ==
    ASSUME NEW k \in Nat
    PROVE  /\ PageNo(k) \in Nat
           /\ Index(k) \in 0 .. ItemsPerPage - 1
           /\ k \div NQueue = ItemsPerPage * PageNo(k) + Index(k)
           /\ PageOf(Turn(k)) = PageNo(k)
           /\ PageUp(Turn(k)) = IF Index(k) = 0 THEN PageNo(k) ELSE PageNo(k) + 1
           /\ PageOf(Turn(k) + NQueue) = IF Last(k) THEN PageNo(k) + 1 ELSE PageNo(k)
           /\ PageUp(Turn(k) + NQueue) = PageNo(k) + 1
<1> DEFINE r == k \div NQueue
           q == PageNo(k)
           i == Index(k)
<1>1. r \in Nat /\ k % NQueue \in 0 .. NQueue - 1 /\ k = NQueue * r + (k % NQueue)
  BY Division, LayoutAssumption
<1>2. q \in Nat /\ i \in 0 .. ItemsPerPage - 1 /\ r = ItemsPerPage * q + i
  BY <1>1, Division, LayoutAssumption DEF PageNo, PageOf, Index
<1>3. Turn(k) = NQueue * r + 0 /\ Turn(k) + NQueue = NQueue * (r + 1) + 0
  <2>1. NQueue * r \in Nat
    BY <1>1, LayoutAssumption
  <2>2. Turn(k) = NQueue * r
    BY <1>1, <2>1, LayoutAssumption DEF Turn
  <2> HIDE DEF r
  <2>3. NQueue * r + NQueue = NQueue * (r + 1)
    BY <1>1, LayoutAssumption, Z3
  <2>4. NQueue * (r + 1) \in Nat
    BY <1>1, LayoutAssumption
  <2> QED
    BY <2>1, <2>2, <2>3, <2>4
<1> HIDE DEF r
<1>4. Turn(k) \div NQueue = r /\ (Turn(k) + NQueue) \div NQueue = r + 1
  <2>1. 0 \in 0 .. NQueue - 1 /\ r + 1 \in Nat /\ NQueue \in Nat \ {0} /\ r \in Nat
    BY <1>1, LayoutAssumption
  <2>2. (NQueue * r + 0) \div NQueue = r
    BY <2>1, Quotient
  <2>3. (NQueue * (r + 1) + 0) \div NQueue = r + 1
    BY <2>1, Quotient
  <2> QED
    BY <1>3, <2>2, <2>3
<1> HIDE DEF q, i
<1> DEFINE I == ItemsPerPage
<1>5. I \in Nat \ {0} /\ i \in 0 .. I - 1 /\ q \in Nat /\ r = I * q + i /\ q + 1 \in Nat
      /\ I * q \in Nat /\ I * (q + 1) = I * q + I
  <2>1. I * (q + 1) = I * q + I
    BY <1>2, LayoutAssumption, Z3
  <2> QED
    BY <1>2, <2>1, LayoutAssumption
<1>6. Last(k) <=> i = I - 1
  BY DEF Last, i
<1> HIDE DEF I
<1>7. r \div I = q
  BY <1>5, Quotient
<1>8. (r + I - 1) \div I = IF i = 0 THEN q ELSE q + 1
  <2>1. CASE i = 0
    <3>1. r + I - 1 = I * q + (I - 1) /\ I - 1 \in 0 .. I - 1
      BY <1>5, <2>1
    <3> QED
      BY <1>5, <2>1, <3>1, Quotient
  <2>2. CASE i # 0
    <3>1. r + I - 1 = I * (q + 1) + (i - 1) /\ i - 1 \in 0 .. I - 1
      BY <1>5, <2>2
    <3> QED
      BY <1>5, <2>2, <3>1, Quotient
  <2> QED
    BY <2>1, <2>2
<1>9. (r + 1) \div I = IF i = I - 1 THEN q + 1 ELSE q
  <2>1. CASE i = I - 1
    <3>1. r + 1 = I * (q + 1) + 0 /\ 0 \in 0 .. I - 1
      BY <1>5, <2>1
    <3> QED
      BY <1>5, <2>1, <3>1, Quotient
  <2>2. CASE i # I - 1
    <3>1. r + 1 = I * q + (i + 1) /\ i + 1 \in 0 .. I - 1
      BY <1>5, <2>2
    <3> QED
      BY <1>5, <2>2, <3>1, Quotient
  <2> QED
    BY <2>1, <2>2
<1>10. (r + 1 + I - 1) \div I = q + 1
  <2>1. r + 1 + I - 1 = I * (q + 1) + i
    BY <1>5
  <2> QED
    BY <1>5, <2>1, Quotient
<1> QED
  BY <1>2, <1>4, <1>6, <1>7, <1>8, <1>9, <1>10 DEF PageOf, PageUp, I, q, i, r, PageNo

LEMMA PagesGrow ==
    ASSUME NEW c \in Nat, NEW d \in Nat, c <= d
    PROVE  /\ PageOf(c) \in Nat /\ PageUp(c) \in Nat
           /\ PageOf(c) <= PageOf(d) /\ PageUp(c) <= PageUp(d) /\ PageOf(c) <= PageUp(c)
<1> DEFINE r == c \div NQueue
           s == d \div NQueue
<1>1. r \in Nat /\ s \in Nat /\ r <= s
  BY Division, Quotients, LayoutAssumption
<1> HIDE DEF r, s
<1> DEFINE I == ItemsPerPage
<1>2. /\ I \in Nat \ {0} /\ r + I - 1 \in Nat /\ s + I - 1 \in Nat
      /\ r + I - 1 <= s + I - 1 /\ r <= r + I - 1
  BY <1>1, LayoutAssumption
<1> HIDE DEF I
<1>3. /\ r \div I \in Nat /\ (r + I - 1) \div I \in Nat
      /\ r \div I <= s \div I /\ (r + I - 1) \div I <= (s + I - 1) \div I
      /\ r \div I <= (r + I - 1) \div I
  BY <1>1, <1>2, Division, Quotients
<1> QED
  BY <1>3 DEF PageOf, PageUp, r, s, I

\* A pop that has taken its page out of the list, a push that has linked one,
\* before they move the counter.
Passed(t) == pc[t] = "clear_tail" \/ (pc[t] = "pop_release" /\ Last(ticket[t]))
Linked(t) == pc[t] \in {"set_tail", "fill", "push_release"} /\ Index(ticket[t]) = 0

PassedAt(m) == \E t \in Threads : Passed(t) /\ At(t) = m
LinkedAt(m) == \E t \in Threads : Linked(t) /\ At(t) = m

Lo(m) == PageOf(head_counter[m]) + (IF PassedAt(m) THEN 1 ELSE 0)
Hi(m) == PageUp(tail_counter[m]) + (IF LinkedAt(m) THEN 1 ELSE 0)

LEMMA PlaceFacts ==
    ASSUME TurnInv
    PROVE  /\ \A m \in MicroQueues :
                 head_counter[m] \in Nat /\ tail_counter[m] \in Nat /\ head_counter[m] <= tail_counter[m]
           /\ \A t \in Threads : ticket[t] \in Nat /\ At(t) \in MicroQueues
           /\ \A t \in PushInside : tail_counter[At(t)] = Turn(ticket[t])
           /\ \A t \in PopInside : head_counter[At(t)] = Turn(ticket[t])
           /\ \A t \in ItemDone : Turn(ticket[t]) + NQueue <= tail_counter[At(t)]
<1>1. \A t \in Threads : ticket[t] \in Nat /\ At(t) \in MicroQueues
  BY TurnFacts DEF TurnInv, Ordered, At
<1>2. ASSUME NEW t \in ItemDone PROVE Turn(ticket[t]) + NQueue <= tail_counter[At(t)]
  <2>1. t \in Threads /\ Turn(ticket[t]) < tail_counter[At(t)]
    BY <1>2 DEF TurnInv, ItemDone
  <2>2. PICK a \in Nat : Turn(ticket[t]) = NQueue * a
    BY <1>1, <2>1, TurnFacts
  <2>3. PICK b \in Nat : tail_counter[At(t)] = NQueue * b
    BY <1>1, <2>1 DEF TurnInv, Ordered, Rounds
  <2> QED
    BY <2>1, <2>2, <2>3, Multiples, LayoutAssumption
<1> QED
  BY <1>1, <1>2 DEF TurnInv, Ordered, At

OnHead == {"pop_page", "take", "pop_lock", "unlink"}
OnTail == {"set_tail", "push_page", "fill", "push_release"}

Bounds ==
    /\ \A m \in MicroQueues : Lo(m) \in Nat /\ Hi(m) \in Nat /\ Lo(m) <= Hi(m)
    /\ \A t \in Threads : pc[t] \in OnHead \cup OnTail => Lo(At(t)) < Hi(At(t))

LEMMA BoundsHold ==
    ASSUME TurnInv, WayInv
    PROVE  Bounds
<1>1. \A m \in MicroQueues :
         head_counter[m] \in Nat /\ tail_counter[m] \in Nat /\ head_counter[m] <= tail_counter[m]
  BY PlaceFacts
\* Up to Lo, pops have been preceded by pushes.
<1>2. ASSUME NEW m \in MicroQueues
      PROVE  \E c \in Nat : c <= tail_counter[m] /\ Lo(m) = PageOf(c)
  <2>1. CASE ~PassedAt(m)
    <3>1. PageOf(head_counter[m]) \in Nat
      BY <1>1, PagesGrow
    <3> QED
      BY <1>1, <2>1, <3>1 DEF Lo
  <2>2. CASE PassedAt(m)
    <3>1. PICK t \in Threads : Passed(t) /\ At(t) = m
      BY <2>2 DEF PassedAt
    <3>2. t \in PopInside /\ t \in ItemDone /\ Last(ticket[t])
      BY <3>1 DEF Passed, PopInside, ItemDone, PopSections, WayInv, WayOf
    <3>3. /\ ticket[t] \in Nat /\ head_counter[m] = Turn(ticket[t])
          /\ head_counter[m] + NQueue <= tail_counter[m]
      BY <3>1, <3>2, PlaceFacts
    <3>4. /\ PageOf(head_counter[m]) = PageNo(ticket[t])
          /\ PageOf(head_counter[m] + NQueue) = PageNo(ticket[t]) + 1
      BY <3>2, <3>3, PageFacts
    <3>5. head_counter[m] + NQueue \in Nat
      BY <1>1, LayoutAssumption
    <3> QED
      BY <2>2, <3>3, <3>4, <3>5 DEF Lo
  <2> QED
    BY <2>1, <2>2
<1>3. ASSUME NEW m \in MicroQueues
      PROVE  /\ Lo(m) \in Nat /\ Lo(m) <= PageOf(tail_counter[m])
             /\ Hi(m) \in Nat /\ PageUp(tail_counter[m]) <= Hi(m)
             /\ PageUp(tail_counter[m]) \in Nat /\ PageOf(tail_counter[m]) \in Nat
             /\ PageOf(tail_counter[m]) <= PageUp(tail_counter[m])
  <2>1. PICK c \in Nat : c <= tail_counter[m] /\ Lo(m) = PageOf(c)
    BY <1>2, <1>3
  <2>2. /\ PageOf(c) \in Nat /\ PageOf(c) <= PageOf(tail_counter[m])
    BY <1>1, <1>3, <2>1, PagesGrow
  <2>3. /\ PageUp(tail_counter[m]) \in Nat /\ PageOf(tail_counter[m]) \in Nat
        /\ PageOf(tail_counter[m]) <= PageUp(tail_counter[m])
    BY <1>1, <1>3, PagesGrow
  <2>4. Hi(m) = PageUp(tail_counter[m]) \/ Hi(m) = PageUp(tail_counter[m]) + 1
    BY <2>3 DEF Hi
  <2> QED
    BY <2>1, <2>2, <2>3, <2>4
<1>4. ASSUME NEW t \in Threads, pc[t] \in OnHead PROVE Lo(At(t)) < Hi(At(t))
  <2>1. t \in PopInside /\ t \in ItemDone
    BY <1>4 DEF OnHead, PopInside, ItemDone, PopSections
  <2>2. /\ ticket[t] \in Nat /\ At(t) \in MicroQueues
        /\ head_counter[At(t)] = Turn(ticket[t])
        /\ Turn(ticket[t]) + NQueue <= tail_counter[At(t)]
    BY <2>1, PlaceFacts
  <2>3. ~PassedAt(At(t))
    <3> SUFFICES ASSUME NEW u \in Threads, Passed(u), At(u) = At(t) PROVE FALSE
      BY DEF PassedAt
    <3>1. u \in PopInside /\ u # t
      BY <1>4 DEF Passed, PopInside, PopSections, OnHead
    <3> QED
      BY <2>1, <3>1, OrderedApart DEF TurnInv, At
  <2>4. Lo(At(t)) = PageNo(ticket[t]) /\ PageNo(ticket[t]) \in Nat
    BY <2>2, <2>3, PageFacts DEF Lo
  <2>5. PageUp(Turn(ticket[t]) + NQueue) = PageNo(ticket[t]) + 1
    BY <2>2, PageFacts
  <2>6. Turn(ticket[t]) + NQueue \in Nat
    BY <1>1, <2>2, LayoutAssumption
  <2>7. PageUp(Turn(ticket[t]) + NQueue) <= PageUp(tail_counter[At(t)])
    BY <1>1, <2>2, <2>6, PagesGrow
  <2>8. /\ Hi(At(t)) \in Nat /\ PageUp(tail_counter[At(t)]) <= Hi(At(t))
        /\ PageUp(tail_counter[At(t)]) \in Nat
    BY <1>3, <2>2
  <2> QED
    BY <2>4, <2>5, <2>7, <2>8
<1>5. ASSUME NEW t \in Threads, pc[t] \in OnTail PROVE Lo(At(t)) < Hi(At(t))
  <2>1. t \in PushInside
    BY <1>5 DEF OnTail, PushInside, PushSections
  <2>2. /\ ticket[t] \in Nat /\ At(t) \in MicroQueues
        /\ tail_counter[At(t)] = Turn(ticket[t])
    BY <2>1, PlaceFacts
  <2>3. Lo(At(t)) \in Nat /\ Lo(At(t)) <= PageNo(ticket[t]) /\ PageNo(ticket[t]) \in Nat
    <3>1. Lo(At(t)) \in Nat /\ Lo(At(t)) <= PageOf(tail_counter[At(t)])
      BY <1>3, <2>2
    <3>2. PageOf(tail_counter[At(t)]) = PageNo(ticket[t]) /\ PageNo(ticket[t]) \in Nat
      BY <2>2, PageFacts
    <3> QED
      BY <3>1, <3>2
  <2>4. Hi(At(t)) = PageNo(ticket[t]) + 1
    <3>1. PageUp(tail_counter[At(t)])
             = IF Index(ticket[t]) = 0 THEN PageNo(ticket[t]) ELSE PageNo(ticket[t]) + 1
      BY <2>2, PageFacts
    <3>2. CASE Index(ticket[t]) = 0
      <4>1. pc[t] # "push_page"
        BY <3>2 DEF WayInv, WayOf
      <4>2. LinkedAt(At(t))
        BY <1>5, <3>2, <4>1 DEF LinkedAt, Linked, OnTail
      <4> QED
        BY <3>1, <3>2, <4>2 DEF Hi
    <3>3. CASE Index(ticket[t]) # 0
      <4>1. ~LinkedAt(At(t))
        <5> SUFFICES ASSUME NEW u \in Threads, Linked(u), At(u) = At(t) PROVE FALSE
          BY DEF LinkedAt
        <5>1. u \in PushInside /\ u # t
          BY <3>3 DEF Linked, PushInside, PushSections
        <5> QED
          BY <2>1, <5>1, OrderedApart DEF TurnInv, At
      <4> QED
        BY <2>3, <3>1, <3>3, <4>1 DEF Hi
    <3> QED
      BY <3>2, <3>3
  <2> QED
    BY <2>3, <2>4
<1>6. \A m \in MicroQueues : Lo(m) \in Nat /\ Hi(m) \in Nat /\ Lo(m) <= Hi(m)
  <2> TAKE m \in MicroQueues
  <2> QED
    BY <1>3
<1> QED
  BY <1>4, <1>5, <1>6 DEF Bounds

\* Only a link and an unlink move the ends of the list: what the counters do
\* is made up for by what the thread has done.
LEMMA EndsMove ==
    ASSUME TurnInv, TurnInv', WayInv, NEW t \in Threads, Step(t), NEW m \in MicroQueues
    PROVE  /\ Lo(m)' = IF UnlinkPage(t) /\ At(t) = m THEN Lo(m) + 1 ELSE Lo(m)
           /\ Hi(m)' = IF LinkPage(t) /\ At(t) = m THEN Hi(m) + 1 ELSE Hi(m)
<1> DEFINE Quiet == /\ UNCHANGED counter_vars
                    /\ Passed(t)' <=> Passed(t)
                    /\ Linked(t)' <=> Linked(t)
                    /\ Passed(t) \/ Linked(t) => ticket'[t] = ticket[t]
<1>1. /\ pc \in [Threads -> {"idle"} \cup PushSteps \cup PopSteps \cup EmptySteps]
      /\ ticket \in [Threads -> Nat]
      /\ head_counter \in [MicroQueues -> Nat] /\ tail_counter \in [MicroQueues -> Nat]
      /\ At(t) \in MicroQueues /\ ticket[t] \in Nat /\ WayOf(t)
  BY TurnFacts DEF TurnInv, Ordered, At, WayInv
<1>2. \A u \in Threads : u # t =>
         /\ Passed(u)' <=> Passed(u)
         /\ Linked(u)' <=> Linked(u)
         /\ At(u)' = At(u)
  BY OthersStay DEF WayInv, Stays, Passed, Linked, At
\* Whoever else has taken a page out or linked one is at another micro queue.
<1>3. \A u \in Threads : u # t /\ Passed(u) /\ At(u) = At(t) => t \notin PopInside
  BY OrderedApart DEF TurnInv, At, Passed, PopInside, PopSections
<1>4. \A u \in Threads : u # t /\ Linked(u) /\ At(u) = At(t) => t \notin PushInside
  BY OrderedApart DEF TurnInv, At, Linked, PushInside, PushSections
<1>5. ASSUME Quiet PROVE Lo(m)' = Lo(m) /\ Hi(m)' = Hi(m)
  <2>1. (PassedAt(m)' <=> PassedAt(m)) /\ (LinkedAt(m)' <=> LinkedAt(m))
    BY <1>2, <1>5 DEF PassedAt, LinkedAt, At
  <2> QED
    BY <1>5, <2>1 DEF Lo, Hi, counter_vars
<1>6. ASSUME UNCHANGED counter_vars, UNCHANGED ticket,
             ~Passed(t), Passed(t)', ~Linked(t), ~Linked(t)', t \in PopInside
      PROVE  /\ Lo(m)' = IF At(t) = m THEN Lo(m) + 1 ELSE Lo(m)
             /\ Hi(m)' = Hi(m)
  <2>1. /\ LinkedAt(m)' <=> LinkedAt(m)
        /\ At(t) # m => (PassedAt(m)' <=> PassedAt(m))
        /\ At(t) = m => ~PassedAt(m) /\ PassedAt(m)'
    BY <1>2, <1>3, <1>6 DEF PassedAt, LinkedAt, At
  <2>2. PageOf(head_counter[m]) \in Nat
    BY <1>1, PagesGrow
  <2> QED
    BY <1>6, <2>1, <2>2 DEF Lo, Hi, counter_vars
<1>7. ASSUME UNCHANGED counter_vars, UNCHANGED ticket,
             ~Linked(t), Linked(t)', ~Passed(t), ~Passed(t)', t \in PushInside
      PROVE  /\ Hi(m)' = IF At(t) = m THEN Hi(m) + 1 ELSE Hi(m)
             /\ Lo(m)' = Lo(m)
  <2>1. /\ PassedAt(m)' <=> PassedAt(m)
        /\ At(t) # m => (LinkedAt(m)' <=> LinkedAt(m))
        /\ At(t) = m => ~LinkedAt(m) /\ LinkedAt(m)'
    BY <1>2, <1>4, <1>7 DEF PassedAt, LinkedAt, At
  <2>2. PageUp(tail_counter[m]) \in Nat
    BY <1>1, PagesGrow
  <2> QED
    BY <1>7, <2>1, <2>2 DEF Lo, Hi, counter_vars
<1>8. CASE PopRelease(t)
  <2>1. /\ t \in PopInside /\ ~Linked(t) /\ ~Linked(t)' /\ ~Passed(t)'
        /\ Passed(t) <=> Last(ticket[t])
        /\ head_counter' = [head_counter EXCEPT ![At(t)] = Turn(ticket[t]) + NQueue]
        /\ tail_counter' = tail_counter
        /\ ~UnlinkPage(t) /\ ~LinkPage(t)
    BY <1>1, <1>8 DEF PopRelease, Goto, Return, Passed, Linked, PopInside, PopSections,
          UnlinkPage, LinkPage
  <2>2. (LinkedAt(m)' <=> LinkedAt(m)) /\ Hi(m)' = Hi(m)
    BY <1>2, <2>1 DEF LinkedAt, Hi
  <2>3. CASE At(t) # m
    <3>1. PassedAt(m)' <=> PassedAt(m)
      BY <1>2, <2>1, <2>3 DEF PassedAt
    <3>2. head_counter'[m] = head_counter[m]
      BY <1>1, <2>1, <2>3
    <3> QED
      BY <2>1, <2>2, <3>1, <3>2 DEF Lo
  <2>4. CASE At(t) = m
    <3>1. /\ head_counter[m] = Turn(ticket[t])
          /\ head_counter'[m] = Turn(ticket[t]) + NQueue
      BY <1>1, <2>1, <2>4, PlaceFacts
    <3>2. ~PassedAt(m)' /\ (PassedAt(m) <=> Last(ticket[t]))
      BY <1>2, <1>3, <2>1, <2>4 DEF PassedAt
    <3>3. /\ PageNo(ticket[t]) \in Nat
          /\ PageOf(Turn(ticket[t])) = PageNo(ticket[t])
          /\ PageOf(Turn(ticket[t]) + NQueue)
                = IF Last(ticket[t]) THEN PageNo(ticket[t]) + 1 ELSE PageNo(ticket[t])
      BY <1>1, PageFacts
    <3>4. Lo(m) = IF Last(ticket[t]) THEN PageNo(ticket[t]) + 1 ELSE PageNo(ticket[t])
      BY <3>1, <3>2, <3>3 DEF Lo
    <3>5. Lo(m)' = PageOf(Turn(ticket[t]) + NQueue) + 0
      BY <3>1, <3>2 DEF Lo
    <3> QED
      BY <2>1, <2>2, <3>3, <3>4, <3>5
  <2> QED
    BY <2>3, <2>4
<1>9. CASE PushRelease(t)
  <2>1. /\ t \in PushInside /\ ~Passed(t) /\ ~Passed(t)' /\ ~Linked(t)'
        /\ Linked(t) <=> Index(ticket[t]) = 0
        /\ tail_counter' = [tail_counter EXCEPT ![At(t)] = @ + NQueue]
        /\ head_counter' = head_counter
        /\ ~UnlinkPage(t) /\ ~LinkPage(t)
    BY <1>1, <1>9 DEF PushRelease, Goto, Return, Passed, Linked, PushInside, PushSections,
          UnlinkPage, LinkPage
  <2>2. (PassedAt(m)' <=> PassedAt(m)) /\ Lo(m)' = Lo(m)
    BY <1>2, <2>1 DEF PassedAt, Lo
  <2>3. CASE At(t) # m
    <3>1. LinkedAt(m)' <=> LinkedAt(m)
      BY <1>2, <2>1, <2>3 DEF LinkedAt
    <3>2. tail_counter'[m] = tail_counter[m]
      BY <1>1, <2>1, <2>3
    <3> QED
      BY <2>1, <2>2, <3>1, <3>2 DEF Hi
  <2>4. CASE At(t) = m
    <3>1. /\ tail_counter[m] = Turn(ticket[t])
          /\ tail_counter'[m] = Turn(ticket[t]) + NQueue
      BY <1>1, <2>1, <2>4, PlaceFacts
    <3>2. ~LinkedAt(m)' /\ (LinkedAt(m) <=> Index(ticket[t]) = 0)
      BY <1>2, <1>4, <2>1, <2>4 DEF LinkedAt
    <3>3. /\ PageNo(ticket[t]) \in Nat
          /\ PageUp(Turn(ticket[t]))
                = IF Index(ticket[t]) = 0 THEN PageNo(ticket[t]) ELSE PageNo(ticket[t]) + 1
          /\ PageUp(Turn(ticket[t]) + NQueue) = PageNo(ticket[t]) + 1
      BY <1>1, PageFacts
    <3>4. Hi(m) = PageNo(ticket[t]) + 1
      BY <3>1, <3>2, <3>3 DEF Hi
    <3>5. Hi(m)' = PageUp(Turn(ticket[t]) + NQueue) + 0
      BY <3>1, <3>2 DEF Hi
    <3> QED
      BY <2>1, <2>2, <3>3, <3>4, <3>5
  <2> QED
    BY <2>3, <2>4
<1>10. CASE UnlinkPage(t)
  <2>1. /\ UNCHANGED counter_vars /\ UNCHANGED ticket /\ t \in PopInside
        /\ ~Passed(t) /\ Passed(t)' /\ ~Linked(t) /\ ~Linked(t)' /\ ~LinkPage(t)
    BY <1>1, <1>10 DEF UnlinkPage, LinkPage, Goto, Passed, Linked, PopInside, PopSections,
          WayOf, local_vars
  <2> QED
    BY <1>6, <1>10, <2>1
<1>11. CASE LinkPage(t)
  <2>1. /\ UNCHANGED counter_vars /\ UNCHANGED ticket /\ t \in PushInside
        /\ ~Passed(t) /\ ~Passed(t)' /\ ~Linked(t) /\ Linked(t)' /\ ~UnlinkPage(t)
    BY <1>1, <1>11 DEF UnlinkPage, LinkPage, Goto, Passed, Linked, PushInside, PushSections,
          WayOf, local_vars
  <2> QED
    BY <1>7, <1>11, <2>1
<1>12. CASE ~(PopRelease(t) \/ PushRelease(t) \/ UnlinkPage(t) \/ LinkPage(t))
  <2>1. ASSUME PushTicket(t) \/ AllocatePage(t) \/ PushTurn(t) \/ PushLock(t)
               \/ SetTailPage(t) \/ PushPage(t) \/ FillSlot(t)
        PROVE  Quiet
    BY <1>1, <2>1 DEF PushTicket, AllocatePage, PushTurn, PushLock, SetTailPage, PushPage,
          FillSlot, Goto, Passed, Linked, WayOf, local_vars, counter_vars
  <2>2. ASSUME ReadHead(t) \/ LookEmpty(t) \/ LookFull(t) \/ ClaimWins(t) \/ ClaimLoses(t)
               \/ PopTurn(t) \/ AwaitItem(t) \/ PopPage(t) \/ TakeItem(t) \/ PopLock(t)
               \/ ClearTailPage(t) \/ FreePage(t)
        PROVE  Quiet
    BY <1>1, <2>2 DEF ReadHead, LookEmpty, LookFull, ClaimWins, ClaimLoses, PopTurn, AwaitItem,
          PopPage, TakeItem, PopLock, ClearTailPage, FreePage, Goto, Return, Passed, Linked,
          WayOf, local_vars, counter_vars
  <2>3. ASSUME EmptyReadTail(t) \/ InEmpty(t) PROVE Quiet
    BY <1>1, <2>3 DEF EmptyReadTail, InEmpty, EmptyReadHead, EmptyAgain, Goto, Return, Passed,
          Linked, local_vars, counter_vars
  <2>4. Quiet
    BY <1>12, <2>1, <2>2, <2>3 DEF Step, InPush, InPop
  <2> QED
    BY <1>5, <1>12, <2>4
<1> QED
  BY <1>8, <1>9, <1>10, <1>11, <1>12

-----------------------------------------------------------------------------
(* The pages: pg[m][j] is page j of the list of micro queue m, for j from  *)
(* lo[m] up to hi[m].                                                      *)

AnyPage == Pages \cup {NoPage}

Live(lo, hi, m) == lo[m] .. hi[m] - 1
FirstPage(lo, hi, pg, m) == IF lo[m] < hi[m] THEN pg[m][lo[m]] ELSE NoPage
LastPage(lo, hi, pg, m) == IF lo[m] < hi[m] THEN pg[m][hi[m] - 1] ELSE NoPage

\* Pages of one thread: allocated and not yet linked, or not yet freed.
PushPrivate(t) == pc[t] \in {"push_turn", "push_lock", "link"} /\ Index(ticket[t]) = 0
Private(t) == PushPrivate(t) \/ Passed(t) \/ pc[t] = "free"

Chain(lo, hi, pg) ==
    \A m \in MicroQueues : \A j \in Live(lo, hi, m) :
        /\ pg[m][j] \in allocated
        /\ next[pg[m][j]] = IF j + 1 < hi[m] THEN pg[m][j + 1] ELSE NoPage

Distinct(lo, hi, pg) ==
    \A m, n \in MicroQueues : \A i \in Live(lo, hi, m), j \in Live(lo, hi, n) :
        pg[m][i] = pg[n][j] => m = n /\ i = j

\* tail_page is wrong while a thread with page_mutex is about to set it.
Ends(lo, hi, pg) ==
    \A m \in MicroQueues :
        /\ head_page[m] = FirstPage(lo, hi, pg, m)
        /\ \/ \E t \in Threads : pc[t] \in {"set_tail", "clear_tail"} /\ At(t) = m
           \/ tail_page[m] = LastPage(lo, hi, pg, m)

Owned(lo, hi, pg) ==
    \A t \in Threads : Private(t) =>
        /\ mine[t] \in allocated
        /\ \A m \in MicroQueues : \A j \in Live(lo, hi, m) : pg[m][j] # mine[t]
        /\ \A u \in Threads : Private(u) /\ mine[u] = mine[t] => u = t

NoneLost(lo, hi, pg) ==
    \A p \in allocated :
        \/ \E m \in MicroQueues : \E j \in Live(lo, hi, m) : pg[m][j] = p
        \/ \E t \in Threads : Private(t) /\ mine[t] = p

\* What a thread has read is still so.
Knows(lo, hi, pg, t) ==
    /\ PushPrivate(t) => next[mine[t]] = NoPage
    /\ pc[t] = "link" => seen[t] = LastPage(lo, hi, pg, At(t))
    /\ pc[t] \in {"set_tail", "fill", "push_release"} => mine[t] = LastPage(lo, hi, pg, At(t))
    /\ pc[t] \in {"take", "pop_lock", "unlink"} => mine[t] = FirstPage(lo, hi, pg, At(t))
    /\ pc[t] = "unlink" => seen[t] = next[mine[t]]
    /\ pc[t] = "clear_tail" => lo[At(t)] = hi[At(t)]
    /\ Passed(t) => next[mine[t]] = NoPage \/ next[mine[t]] = FirstPage(lo, hi, pg, At(t))

Lists(lo, hi, pg) ==
    /\ Chain(lo, hi, pg)
    /\ Distinct(lo, hi, pg)
    /\ Ends(lo, hi, pg)
    /\ Owned(lo, hi, pg)
    /\ NoneLost(lo, hi, pg)
    /\ \A t \in Threads : Knows(lo, hi, pg, t)

Numbers == [MicroQueues -> Nat]
Placements == [MicroQueues -> [Nat -> AnyPage]]

Los == [m \in MicroQueues |-> Lo(m)]
His == [m \in MicroQueues |-> Hi(m)]

PagesInv == \E pg \in Placements : Lists(Los, His, pg)

Bounded(lo, hi) ==
    /\ lo \in Numbers /\ hi \in Numbers
    /\ \A m \in MicroQueues : lo[m] <= hi[m]
    /\ \A t \in Threads : pc[t] \in OnHead \cup OnTail => lo[At(t)] < hi[At(t)]

LEMMA InitPages == Init => PagesInv
<1> SUFFICES ASSUME Init PROVE PagesInv
  OBVIOUS
<1>1. \A m \in MicroQueues : Lo(m) = 0 /\ Hi(m) = 0
  <2>1. ItemsPerPage - 1 \in 0 .. ItemsPerPage - 1 /\ 0 \in 0 .. NQueue - 1 /\ 0 \in 0 .. ItemsPerPage - 1
    BY LayoutAssumption
  <2>2. 0 \div NQueue = 0 /\ 0 \div ItemsPerPage = 0 /\ (ItemsPerPage - 1) \div ItemsPerPage = 0
    <3>1. /\ NQueue * 0 + 0 = 0 /\ ItemsPerPage * 0 + 0 = 0
          /\ ItemsPerPage * 0 + (ItemsPerPage - 1) = ItemsPerPage - 1
      BY LayoutAssumption
    <3>2. /\ (NQueue * 0 + 0) \div NQueue = 0
          /\ (ItemsPerPage * 0 + 0) \div ItemsPerPage = 0
          /\ (ItemsPerPage * 0 + (ItemsPerPage - 1)) \div ItemsPerPage = 0
      BY <2>1, Quotient, LayoutAssumption
    <3> QED
      BY <3>1, <3>2
  <2>3. PageOf(0) = 0 /\ PageUp(0) = 0
    <3>1. 0 + ItemsPerPage - 1 = ItemsPerPage - 1
      BY LayoutAssumption
    <3> QED
      BY <2>2, <3>1 DEF PageOf, PageUp
  <2>4. \A m \in MicroQueues : ~PassedAt(m) /\ ~LinkedAt(m)
    BY DEF Init, PassedAt, LinkedAt, Passed, Linked
  <2> QED
    BY <2>3, <2>4 DEF Init, Lo, Hi
<1> DEFINE pg == [m \in MicroQueues |-> [j \in Nat |-> NoPage]]
<1>2. pg \in Placements
  BY DEF Placements, AnyPage
<1>3. Lists(Los, His, pg)
  BY <1>1 DEF Init, Lists, Los, His, Chain, Distinct, Ends, Owned, NoneLost, Knows, Live, FirstPage,
              LastPage, Private, PushPrivate, Passed
<1> QED
  BY <1>2, <1>3 DEF PagesInv

\* A step that leaves the lists alone and in which a thread goes on its way.
LEMMA LocalStep ==
    ASSUME NEW lo, NEW hi, NEW pg, Lists(lo, hi, pg),
           NEW t \in Threads, \A u \in Threads : u # t => Stays(u),
           UNCHANGED <<head_page, tail_page, allocated, next>>,
           pc[t] \notin {"set_tail", "clear_tail"},
           Private(t)' <=> Private(t),
           Private(t) => mine'[t] = mine[t],
           Knows(lo, hi, pg, t)'
    PROVE  Lists(lo, hi, pg)'
<1>1. \A u \in Threads : u # t =>
         /\ pc'[u] = pc[u] /\ mine'[u] = mine[u] /\ seen'[u] = seen[u] /\ ticket'[u] = ticket[u]
         /\ At(u)' = At(u)
         /\ PushPrivate(u)' <=> PushPrivate(u)
         /\ Passed(u)' <=> Passed(u)
         /\ Private(u)' <=> Private(u)
  BY DEF Stays, At, PushPrivate, Passed, Private
<1>2. Chain(lo, hi, pg)' /\ Distinct(lo, hi, pg)'
  BY DEF Lists, Chain, Distinct
<1>3. Ends(lo, hi, pg)'
  BY <1>1 DEF Lists, Ends, FirstPage, LastPage
<1>4. Owned(lo, hi, pg)'
  BY <1>1 DEF Lists, Owned
<1>5. NoneLost(lo, hi, pg)'
  BY <1>1 DEF Lists, NoneLost
<1>6. \A u \in Threads : Knows(lo, hi, pg, u)'
  <2> SUFFICES ASSUME NEW u \in Threads, u # t PROVE Knows(lo, hi, pg, u)'
    OBVIOUS
  <2>1. Knows(lo, hi, pg, u)
    BY DEF Lists
  <2> QED
    BY <1>1, <2>1 DEF Knows, FirstPage, LastPage
<1> QED
  BY <1>2, <1>3, <1>4, <1>5, <1>6 DEF Lists

LEMMA PushLocal ==
    ASSUME NEW lo, NEW hi, NEW pg, Lists(lo, hi, pg), Bounded(lo, hi), TurnInv, WayInv,
           NEW t \in Threads, Step(t),
           PushTicket(t) \/ PushTurn(t) \/ PushLock(t) \/ PushPage(t) \/ FillSlot(t) \/ PushRelease(t)
    PROVE  Lists(lo, hi, pg)'
<1> USE DEF Over
<1>1. /\ pc \in [Threads -> {"idle"} \cup PushSteps \cup PopSteps \cup EmptySteps]
      /\ ticket \in [Threads -> Nat] /\ Over(mine, Threads) /\ Over(seen, Threads)
      /\ At(t) \in MicroQueues /\ WayOf(t)
  BY TurnFacts DEF TurnInv, Ordered, At, WayInv, TypeOK
<1>2. \A u \in Threads : u # t => Stays(u)
  BY OthersStay DEF WayInv
<1>3. Knows(lo, hi, pg, t)
  BY DEF Lists
<1>4. CASE PushTicket(t) \/ PushTurn(t) \/ FillSlot(t) \/ PushRelease(t)
  <2>1. /\ UNCHANGED <<head_page, tail_page, allocated, next>>
        /\ pc[t] \notin {"set_tail", "clear_tail"}
        /\ Private(t)' <=> Private(t)
        /\ Private(t) => mine'[t] = mine[t]
    BY <1>1, <1>4 DEF PushTicket, PushTurn, FillSlot, PushRelease, Goto, Return, Private,
          PushPrivate, Passed, WayOf, list_vars, page_vars, local_vars
  <2>2. Knows(lo, hi, pg, t)'
    BY <1>1, <1>3, <1>4 DEF PushTicket, PushTurn, FillSlot, PushRelease, Goto, Return, Knows,
          PushPrivate, Passed, WayOf, At, FirstPage, LastPage, list_vars, page_vars, local_vars
  <2> QED
    BY <1>2, <2>1, <2>2, LocalStep
<1>5. CASE PushLock(t)
  <2>1. /\ UNCHANGED <<head_page, tail_page, allocated, next>>
        /\ pc[t] \notin {"set_tail", "clear_tail"}
        /\ Private(t)' <=> Private(t)
        /\ Private(t) => mine'[t] = mine[t]
    BY <1>1, <1>5 DEF PushLock, Goto, Private, PushPrivate, Passed, WayOf, page_vars
  <2>2. \A u \in Threads : ~(pc[u] \in {"set_tail", "clear_tail"} /\ At(u) = At(t))
    BY <1>1, <1>5, ThreadAssumption DEF PushLock, Locked, WayInv, MutexInv, Locking
  <2>3. tail_page[At(t)] = LastPage(lo, hi, pg, At(t))
    BY <1>1, <2>2 DEF Lists, Ends
  <2>4. Knows(lo, hi, pg, t)'
    BY <1>1, <1>3, <1>5, <2>3 DEF PushLock, Goto, Knows, PushPrivate, Passed, WayOf, At, FirstPage,
          LastPage, page_vars
  <2> QED
    BY <1>2, <2>1, <2>4, LocalStep
<1>6. CASE PushPage(t)
  <2>1. /\ UNCHANGED <<head_page, tail_page, allocated, next>>
        /\ pc[t] \notin {"set_tail", "clear_tail"}
        /\ Private(t)' <=> Private(t)
        /\ Private(t) => mine'[t] = mine[t]
    BY <1>1, <1>6 DEF PushPage, Goto, Private, PushPrivate, Passed, WayOf, list_vars, page_vars
  <2>2. ASSUME NEW u \in Threads, pc[u] \in {"set_tail", "clear_tail"}, At(u) = At(t) PROVE FALSE
    <3>1. CASE pc[u] = "set_tail"
      <4>1. u \in PushInside /\ t \in PushInside /\ u # t
        BY <1>6, <3>1 DEF PushPage, PushInside, PushSections
      <4> QED
        BY <2>2, <4>1, OrderedApart DEF TurnInv, At
    <3>2. CASE pc[u] = "clear_tail"
      <4>1. lo[At(u)] = hi[At(u)]
        BY <3>2 DEF Lists, Knows
      <4>2. lo[At(t)] < hi[At(t)] /\ lo[At(t)] \in Nat
        BY <1>1, <1>6 DEF PushPage, Bounded, OnTail, Numbers
      <4> QED
        BY <2>2, <4>1, <4>2
    <3> QED
      BY <2>2, <3>1, <3>2
  <2>3. tail_page[At(t)] = LastPage(lo, hi, pg, At(t))
    BY <1>1, <2>2 DEF Lists, Ends
  <2>4. Knows(lo, hi, pg, t)'
    BY <1>1, <1>3, <1>6, <2>3 DEF PushPage, Goto, Knows, PushPrivate, Passed, WayOf, At, FirstPage,
          LastPage, list_vars, page_vars
  <2> QED
    BY <1>2, <2>1, <2>4, LocalStep
<1> QED
  BY <1>4, <1>5, <1>6

LEMMA PopLocal ==
    ASSUME NEW lo, NEW hi, NEW pg, Lists(lo, hi, pg), TurnInv, WayInv,
           NEW t \in Threads, Step(t),
           \/ ReadHead(t) \/ LookEmpty(t) \/ LookFull(t) \/ ClaimWins(t) \/ ClaimLoses(t)
           \/ PopTurn(t) \/ AwaitItem(t) \/ PopPage(t) \/ TakeItem(t) \/ PopLock(t)
           \/ PopRelease(t) \/ EmptyReadTail(t) \/ InEmpty(t)
    PROVE  Lists(lo, hi, pg)'
<1> USE DEF Over
<1>1. /\ pc \in [Threads -> {"idle"} \cup PushSteps \cup PopSteps \cup EmptySteps]
      /\ ticket \in [Threads -> Nat] /\ Over(mine, Threads) /\ Over(seen, Threads)
      /\ At(t) \in MicroQueues /\ WayOf(t)
  BY TurnFacts DEF TurnInv, Ordered, At, WayInv, TypeOK
<1>2. \A u \in Threads : u # t => Stays(u)
  BY OthersStay DEF WayInv
<1>3. Knows(lo, hi, pg, t) /\ head_page[At(t)] = FirstPage(lo, hi, pg, At(t))
  BY <1>1 DEF Lists, Ends
<1>4. CASE \/ ReadHead(t) \/ LookEmpty(t) \/ LookFull(t) \/ ClaimWins(t) \/ ClaimLoses(t)
           \/ PopTurn(t) \/ AwaitItem(t) \/ EmptyReadTail(t) \/ InEmpty(t)
  <2>1. /\ UNCHANGED <<head_page, tail_page, allocated, next>>
        /\ pc[t] \notin {"set_tail", "clear_tail"}
        /\ ~Private(t)' /\ ~Private(t)
    BY <1>1, <1>4 DEF ReadHead, LookEmpty, LookFull, ClaimWins, ClaimLoses, PopTurn, AwaitItem,
          EmptyReadTail, InEmpty, EmptyReadHead, EmptyAgain, Goto, Return, Private, PushPrivate,
          Passed, list_vars, page_vars
  <2>2. Knows(lo, hi, pg, t)'
    BY <1>1, <1>4 DEF ReadHead, LookEmpty, LookFull, ClaimWins, ClaimLoses, PopTurn, AwaitItem,
          EmptyReadTail, InEmpty, EmptyReadHead, EmptyAgain, Goto, Return, Knows, PushPrivate,
          Passed
  <2> QED
    BY <1>2, <2>1, <2>2, LocalStep
<1>5. CASE PopPage(t) \/ TakeItem(t) \/ PopLock(t) \/ PopRelease(t)
  <2>1. /\ UNCHANGED <<head_page, tail_page, allocated, next>>
        /\ pc[t] \notin {"set_tail", "clear_tail"}
        /\ Private(t)' <=> Private(t)
        /\ Private(t) => mine'[t] = mine[t]
    BY <1>1, <1>5 DEF PopPage, TakeItem, PopLock, PopRelease, Goto, Return, Private, PushPrivate,
          Passed, WayOf, list_vars, page_vars
  <2>2. Knows(lo, hi, pg, t)'
    BY <1>1, <1>3, <1>5 DEF PopPage, TakeItem, PopLock, PopRelease, Goto, Return, Knows,
          PushPrivate, Passed, WayOf, At, FirstPage, LastPage, list_vars, page_vars
  <2> QED
    BY <1>2, <2>1, <2>2, LocalStep
<1> QED
  BY <1>4, <1>5

LEMMA AllocatePages ==
    ASSUME NEW lo, NEW hi, NEW pg, Lists(lo, hi, pg), Bounded(lo, hi), TurnInv, WayInv,
           NEW t \in Threads, Step(t), AllocatePage(t)
    PROVE  Lists(lo, hi, pg)'
<1>1. /\ pc \in [Threads -> {"idle"} \cup PushSteps \cup PopSteps \cup EmptySteps]
      /\ ticket \in [Threads -> Nat] /\ Over(mine, Threads) /\ Over(next, Pages)
      /\ WayOf(t) /\ allocated \subseteq Pages
  BY DEF TurnInv, Ordered, WayInv, TypeOK
<1>2. \A u \in Threads : u # t =>
         /\ pc'[u] = pc[u] /\ mine'[u] = mine[u] /\ seen'[u] = seen[u] /\ ticket'[u] = ticket[u]
         /\ At(u)' = At(u)
         /\ PushPrivate(u)' <=> PushPrivate(u)
         /\ Passed(u)' <=> Passed(u)
         /\ Private(u)' <=> Private(u)
  BY OthersStay DEF WayInv, Stays, At, PushPrivate, Passed, Private
<1>3. PICK p : /\ p \in Pages \ allocated
               /\ allocated' = allocated \cup {p}
               /\ next' = [next EXCEPT ![p] = NoPage]
               /\ mine' = [mine EXCEPT ![t] = p]
  BY DEF AllocatePage
<1>4. /\ UNCHANGED <<head_page, tail_page, seen, ticket>>
      /\ pc[t] = "allocate" /\ pc'[t] = "push_turn"
      /\ mine'[t] = p /\ next'[p] = NoPage
      /\ \A q \in allocated : next'[q] = next[q]
      /\ Index(ticket[t]) = 0
  BY <1>1, <1>3 DEF AllocatePage, Goto, list_vars, WayOf, Over
<1>5. /\ ~Private(t) /\ PushPrivate(t)' /\ Private(t)' /\ ~Passed(t)'
  BY <1>4 DEF Private, PushPrivate, Passed
<1>6. Chain(lo, hi, pg)' /\ Distinct(lo, hi, pg)'
  BY <1>3, <1>4 DEF Lists, Chain, Distinct
<1>7. Ends(lo, hi, pg)'
  BY <1>2, <1>4 DEF Lists, Ends, FirstPage, LastPage
<1>8. Owned(lo, hi, pg)'
  <2>1. \A u \in Threads : u # t /\ Private(u) => mine[u] \in allocated
    BY DEF Lists, Owned
  <2>2. \A m \in MicroQueues : \A j \in Live(lo, hi, m) : pg[m][j] \in allocated
    BY DEF Lists, Chain
  <2>3. \A u, v \in Threads : Private(u) /\ Private(v) /\ mine[u] = mine[v] => u = v
    BY DEF Lists, Owned
  <2>4. \A u \in Threads : Private(u) =>
           \A m \in MicroQueues : \A j \in Live(lo, hi, m) : pg[m][j] # mine[u]
    BY DEF Lists, Owned
  <2> QED
    BY <1>2, <1>3, <1>4, <1>5, <2>1, <2>2, <2>3, <2>4 DEF Owned
<1>9. NoneLost(lo, hi, pg)'
  BY <1>2, <1>3, <1>4, <1>5 DEF Lists, NoneLost
<1>10. \A u \in Threads : Knows(lo, hi, pg, u)'
  <2>1. Knows(lo, hi, pg, t)'
    BY <1>4, <1>5 DEF Knows
  <2>2. ASSUME NEW u \in Threads, u # t PROVE Knows(lo, hi, pg, u)'
    <3>1. Knows(lo, hi, pg, u)
      BY DEF Lists
    <3>2. Private(u) => mine[u] \in allocated
      BY DEF Lists, Owned
    <3>3. pc[u] = "unlink" => mine[u] \in allocated
      <4> SUFFICES ASSUME pc[u] = "unlink" PROVE mine[u] \in allocated
        OBVIOUS
      <4>1. At(u) \in MicroQueues /\ lo[At(u)] < hi[At(u)] /\ lo[At(u)] \in Nat /\ hi[At(u)] \in Nat
        BY TurnFacts DEF TurnInv, Ordered, At, Bounded, OnHead, Numbers
      <4>2. lo[At(u)] \in Live(lo, hi, At(u))
        BY <4>1 DEF Live
      <4> QED
        BY <3>1, <4>1, <4>2 DEF Knows, FirstPage, Lists, Chain
    <3> QED
      BY <1>2, <1>4, <2>2, <3>1, <3>2, <3>3 DEF Knows, FirstPage, LastPage, Private
  <2> QED
    BY <2>1, <2>2
<1> QED
  BY <1>6, <1>7, <1>8, <1>9, <1>10 DEF Lists

\* page_mutex: nobody else is at the ends of this list.
LEMMA LockedAlone ==
    ASSUME WayInv, NEW t \in Threads, NEW u \in Threads, At(t) \in MicroQueues,
           pc[t] \in Locking, pc[u] \in Locking, At(t) = At(u)
    PROVE  t = u
  BY DEF WayInv, MutexInv

LEMMA LiveEnds ==
    ASSUME NEW lo, NEW hi, NEW pg, Lists(lo, hi, pg), Bounded(lo, hi), NEW m \in MicroQueues,
           lo[m] < hi[m]
    PROVE  /\ lo[m] \in Live(lo, hi, m) /\ hi[m] - 1 \in Live(lo, hi, m)
           /\ FirstPage(lo, hi, pg, m) = pg[m][lo[m]] /\ FirstPage(lo, hi, pg, m) \in allocated
           /\ LastPage(lo, hi, pg, m) = pg[m][hi[m] - 1] /\ LastPage(lo, hi, pg, m) \in allocated
<1>1. lo[m] \in Live(lo, hi, m) /\ hi[m] - 1 \in Live(lo, hi, m)
  BY DEF Bounded, Numbers, Live
<1> QED
  BY <1>1 DEF Lists, Chain, FirstPage, LastPage

LEMMA LinkPages ==
    ASSUME NEW lo, NEW hi, NEW pg \in Placements, Lists(lo, hi, pg), Bounded(lo, hi),
           TurnInv, WayInv, NEW t \in Threads, Step(t), LinkPage(t),
           NEW m, m = At(t), NEW p, p = mine[t]
    PROVE  Lists(lo, [hi EXCEPT ![m] = @ + 1], [pg EXCEPT ![m] = [@ EXCEPT ![hi[m]] = p]])'
<1>1. PICK q, h : m = At(t) /\ p = mine[t] /\ q = seen[t] /\ h = hi[m]
  OBVIOUS
<1>2. /\ pc \in [Threads -> {"idle"} \cup PushSteps \cup PopSteps \cup EmptySteps]
      /\ ticket \in [Threads -> Nat] /\ Over(head_page, MicroQueues) /\ Over(next, Pages)
      /\ WayOf(t) /\ allocated \subseteq Pages
      /\ m \in MicroQueues /\ At(t) \in MicroQueues
      /\ lo[m] \in Nat /\ hi[m] \in Nat /\ h \in Nat /\ lo[m] <= hi[m]
  <2>1. m \in MicroQueues /\ At(t) \in MicroQueues
    BY <1>1, PlaceFacts
  <2>2. lo[m] \in Nat /\ hi[m] \in Nat /\ lo[m] <= hi[m]
    BY <2>1 DEF Bounded, Numbers
  <2> QED
    BY <1>1, <2>1, <2>2 DEF TurnInv, Ordered, WayInv, TypeOK
<1>3. \A u \in Threads : u # t =>
         /\ pc'[u] = pc[u] /\ mine'[u] = mine[u] /\ seen'[u] = seen[u] /\ ticket'[u] = ticket[u]
         /\ At(u)' = At(u)
         /\ PushPrivate(u)' <=> PushPrivate(u)
         /\ Passed(u)' <=> Passed(u)
         /\ Private(u)' <=> Private(u)
  BY OthersStay DEF WayInv, Stays, At, PushPrivate, Passed, Private
<1>4. /\ UNCHANGED <<tail_page, allocated, mine, seen, ticket>>
      /\ pc[t] = "link" /\ pc'[t] = "set_tail" /\ At(t)' = m
      /\ Index(ticket[t]) = 0
  BY <1>1, <1>2 DEF LinkPage, Goto, local_vars, WayOf, At
<1>5. /\ PushPrivate(t) /\ Private(t) /\ ~Private(t)' /\ ~Passed(t)' /\ ~PushPrivate(t)'
  BY <1>4 DEF Private, PushPrivate, Passed
<1>6. /\ p \in allocated /\ p # NoPage /\ next[p] = NoPage
      /\ \A n \in MicroQueues : \A j \in Live(lo, hi, n) : pg[n][j] # p
      /\ \A u \in Threads : Private(u) /\ mine[u] = p => u = t
  <2>1. Knows(lo, hi, pg, t)
    BY DEF Lists
  <2> QED
    BY <1>1, <1>2, <1>5, <2>1, ThreadAssumption DEF Lists, Owned, Knows
<1>7. \/ /\ lo[m] = h /\ q = NoPage /\ next' = next
         /\ head_page' = [head_page EXCEPT ![m] = p]
      \/ /\ lo[m] < h /\ q = pg[m][h - 1] /\ q \in allocated /\ h - 1 \in Live(lo, hi, m)
         /\ next' = [next EXCEPT ![q] = p] /\ head_page' = head_page
  <2>1. q = LastPage(lo, hi, pg, m)
    BY <1>1, <1>4 DEF Lists, Knows
  <2>2. CASE lo[m] = h
    <3>1. q = NoPage
      BY <1>1, <1>2, <2>1, <2>2 DEF LastPage
    <3> QED
      BY <1>1, <2>2, <3>1 DEF LinkPage
  <2>3. CASE lo[m] < h
    <3>1. q = pg[m][h - 1] /\ q \in allocated /\ h - 1 \in Live(lo, hi, m)
      BY <1>1, <1>2, <2>1, <2>3, LiveEnds
    <3>2. q # NoPage
      BY <1>2, <3>1, ThreadAssumption
    <3> QED
      BY <1>1, <2>3, <3>1, <3>2 DEF LinkPage
  <2> QED
    BY <1>1, <1>2, <2>2, <2>3
<1> DEFINE hi2 == [hi EXCEPT ![m] = @ + 1]
           pg2 == [pg EXCEPT ![m] = [@ EXCEPT ![h] = p]]
<1>8. /\ hi2[m] = h + 1 /\ \A n \in MicroQueues : n # m => hi2[n] = hi[n]
      /\ pg2[m][h] = p /\ \A j \in Nat : j # h => pg2[m][j] = pg[m][j]
      /\ \A n \in MicroQueues : n # m => pg2[n] = pg[n]
  BY <1>1, <1>2 DEF Bounded, Numbers, Placements
<1> HIDE DEF hi2, pg2
\* The live pages are those there were, and this one.
<1>9. /\ \A n \in MicroQueues : \A j \in Live(lo, hi, n) :
            j \in Live(lo, hi2, n) /\ pg2[n][j] = pg[n][j] /\ (n = m => j < h)
      /\ \A n \in MicroQueues : \A j \in Live(lo, hi2, n) : j \in Live(lo, hi, n) \/ (n = m /\ j = h)
      /\ h \in Live(lo, hi2, m)
  BY <1>1, <1>2, <1>8 DEF Live, Bounded, Numbers
\* Nothing else is the page whose link is set.
<1>10. \A r \in allocated : r # q => next'[r] = next[r]
  BY <1>2, <1>7 DEF Over
<1>11. Chain(lo, hi2, pg2)'
  <2> SUFFICES ASSUME NEW n \in MicroQueues, NEW j \in Live(lo, hi2, n)
               PROVE  /\ pg2[n][j] \in allocated
                      /\ next'[pg2[n][j]] = IF j + 1 < hi2[n] THEN pg2[n][j + 1] ELSE NoPage
    BY <1>4 DEF Chain, Live
  <2>1. CASE n = m /\ j = h
    <3>1. ~(h + 1 < hi2[m])
      BY <1>2, <1>8
    <3>2. p # q
      BY <1>2, <1>6, <1>7
    <3>3. next'[p] = NoPage
      BY <1>6, <1>10, <3>2
    <3> QED
      BY <1>6, <1>8, <2>1, <3>1, <3>3
  <2>2. CASE n = m /\ j # h
    <3>1. j \in Live(lo, hi, m) /\ j < h /\ j \in Nat /\ pg2[m][j] = pg[m][j] /\ h = hi[m]
      BY <1>1, <1>2, <1>9, <2>2 DEF Live
    <3>2. /\ pg[m][j] \in allocated
          /\ next[pg[m][j]] = IF j + 1 < h THEN pg[m][j + 1] ELSE NoPage
      BY <1>2, <3>1 DEF Lists, Chain
    <3>3. CASE j = h - 1
      <4>1. next'[q] = p
        BY <1>2, <1>7, <3>1, <3>3 DEF Over, Live
      <4>2. q = pg[m][j]
        BY <1>2, <1>7, <3>1, <3>3 DEF Live
      <4>3. j + 1 = h /\ j + 1 < hi2[m]
        BY <1>2, <1>8, <3>1, <3>3
      <4> QED
        BY <1>8, <2>2, <3>1, <3>2, <4>1, <4>2, <4>3
    <3>4. CASE j # h - 1
      <4>1. pg[m][j] # q
        BY <1>2, <1>7, <3>1, <3>2, <3>4, ThreadAssumption DEF Lists, Distinct
      <4>2. next'[pg[m][j]] = pg[m][j + 1]
        BY <1>2, <1>10, <3>1, <3>2, <3>4, <4>1
      <4>3. j + 1 < hi2[m] /\ j + 1 # h /\ j + 1 \in Nat
        BY <1>2, <1>8, <3>1, <3>4
      <4> QED
        BY <1>8, <2>2, <3>1, <3>2, <4>2, <4>3
    <3> QED
      BY <3>3, <3>4
  <2>3. CASE n # m
    <3>1. j \in Live(lo, hi, n) /\ pg2[n] = pg[n] /\ hi2[n] = hi[n]
      BY <1>8, <1>9, <2>3
    <3>2. /\ pg[n][j] \in allocated
          /\ next[pg[n][j]] = IF j + 1 < hi[n] THEN pg[n][j + 1] ELSE NoPage
      BY <3>1 DEF Lists, Chain
    <3>3. pg[n][j] # q
      BY <1>2, <1>7, <2>3, <3>1, <3>2, ThreadAssumption DEF Lists, Distinct
    <3> QED
      BY <1>10, <3>1, <3>2, <3>3
  <2> QED
    BY <2>1, <2>2, <2>3
<1>12. Distinct(lo, hi2, pg2)'
  <2> SUFFICES ASSUME NEW n \in MicroQueues, NEW k \in MicroQueues, NEW i \in Live(lo, hi2, n),
                      NEW j \in Live(lo, hi2, k), pg2[n][i] = pg2[k][j]
               PROVE  n = k /\ i = j
    BY DEF Distinct, Live
  <2>1. CASE i \in Live(lo, hi, n) /\ j \in Live(lo, hi, k)
    BY <1>9, <2>1 DEF Lists, Distinct
  <2>2. CASE i \in Live(lo, hi, n) /\ k = m /\ j = h
    BY <1>6, <1>8, <1>9, <2>2
  <2>3. CASE n = m /\ i = h /\ j \in Live(lo, hi, k)
    BY <1>6, <1>8, <1>9, <2>3
  <2> QED
    BY <1>9, <2>1, <2>2, <2>3
<1>13. /\ FirstPage(lo, hi2, pg2, m) = IF lo[m] = h THEN p ELSE pg[m][lo[m]]
       /\ LastPage(lo, hi2, pg2, m) = p
       /\ \A n \in MicroQueues : n # m => /\ FirstPage(lo, hi2, pg2, n) = FirstPage(lo, hi, pg, n)
                                          /\ LastPage(lo, hi2, pg2, n) = LastPage(lo, hi, pg, n)
  <2>1. lo[m] < hi2[m] /\ hi2[m] - 1 = h
    BY <1>1, <1>2, <1>8
  <2>2. lo[m] # h => pg2[m][lo[m]] = pg[m][lo[m]]
    BY <1>2, <1>8
  <2> QED
    BY <1>8, <2>1, <2>2 DEF FirstPage, LastPage
<1>14. Ends(lo, hi2, pg2)'
  <2> SUFFICES ASSUME NEW n \in MicroQueues
               PROVE  /\ head_page'[n] = FirstPage(lo, hi2, pg2, n)
                      /\ \/ \E u \in Threads : pc'[u] \in {"set_tail", "clear_tail"} /\ At(u)' = n
                         \/ tail_page'[n] = LastPage(lo, hi2, pg2, n)
    BY DEF Ends, FirstPage, LastPage
  <2>1. CASE n = m
    <3>1. head_page[m] = FirstPage(lo, hi, pg, m)
      BY <1>2 DEF Lists, Ends
    <3>2. head_page'[m] = FirstPage(lo, hi2, pg2, m)
      BY <1>1, <1>2, <1>7, <1>13, <3>1 DEF FirstPage, Over
    <3> QED
      BY <1>4, <2>1, <3>2
  <2>2. CASE n # m
    <3>1. head_page'[n] = head_page[n]
      BY <1>2, <1>7, <2>2 DEF Over
    <3>2. /\ head_page[n] = FirstPage(lo, hi, pg, n)
          /\ \/ \E u \in Threads : pc[u] \in {"set_tail", "clear_tail"} /\ At(u) = n
             \/ tail_page[n] = LastPage(lo, hi, pg, n)
      BY DEF Lists, Ends
    <3> QED
      BY <1>3, <1>4, <1>13, <2>2, <3>1, <3>2
  <2> QED
    BY <2>1, <2>2
<1>15. Owned(lo, hi2, pg2)'
  <2> SUFFICES ASSUME NEW u \in Threads, Private(u)'
               PROVE  /\ mine'[u] \in allocated
                      /\ \A n \in MicroQueues : \A j \in Live(lo, hi2, n) : pg2[n][j] # mine'[u]
                      /\ \A v \in Threads : Private(v)' /\ mine'[v] = mine'[u] => v = u
    BY <1>4 DEF Owned, Live
  <2>1. u # t /\ Private(u) /\ mine'[u] = mine[u]
    BY <1>3, <1>5
  <2>2. /\ mine[u] \in allocated
        /\ \A n \in MicroQueues : \A j \in Live(lo, hi, n) : pg[n][j] # mine[u]
        /\ \A v \in Threads : Private(v) /\ mine[v] = mine[u] => v = u
    BY <2>1 DEF Lists, Owned
  <2>3. mine[u] # p
    BY <1>6, <2>1
  <2> QED
    BY <1>3, <1>5, <1>8, <1>9, <2>1, <2>2, <2>3
<1>16. NoneLost(lo, hi2, pg2)'
  <2> SUFFICES ASSUME NEW r \in allocated
               PROVE  \/ \E n \in MicroQueues : \E j \in Live(lo, hi2, n) : pg2[n][j] = r
                      \/ \E u \in Threads : Private(u)' /\ mine'[u] = r
    BY <1>4 DEF NoneLost, Live
  <2>1. CASE r = p
    BY <1>2, <1>8, <1>9, <2>1
  <2>2. CASE r # p
    <3>1. \/ \E n \in MicroQueues : \E j \in Live(lo, hi, n) : pg[n][j] = r
          \/ \E u \in Threads : Private(u) /\ mine[u] = r
      BY DEF Lists, NoneLost
    <3> QED
      BY <1>1, <1>3, <1>9, <2>2, <3>1
  <2> QED
    BY <2>1, <2>2
<1>17. Knows(lo, hi2, pg2, t)'
  BY <1>1, <1>4, <1>5, <1>13 DEF Knows, LastPage
<1>18. ASSUME NEW u \in Threads, u # t PROVE Knows(lo, hi2, pg2, u)'
  <2>1. /\ Knows(lo, hi, pg, u) /\ At(u) \in MicroQueues
    BY TurnFacts DEF Lists, TurnInv, Ordered, At
  <2>2. At(u) = m => pc[u] \notin Locking
    BY <1>1, <1>2, <1>4, <1>18, LockedAlone DEF Locking
  <2>3. At(u) = m => pc[u] \notin {"set_tail", "fill", "push_release"}
    <3> SUFFICES ASSUME At(u) = At(t), pc[u] \in {"set_tail", "fill", "push_release"} PROVE FALSE
      BY <1>1
    <3>1. u \in PushInside /\ t \in PushInside
      BY <1>4 DEF PushInside, PushSections
    <3> QED
      BY <1>18, <3>1, OrderedApart DEF TurnInv, At
  \* Where the list is not empty its first page stays.
  <2>4. lo[At(u)] < hi[At(u)] => FirstPage(lo, hi2, pg2, At(u)) = FirstPage(lo, hi, pg, At(u))
    BY <1>1, <1>2, <1>13, <2>1 DEF FirstPage
  <2>5. Private(u) => next'[mine[u]] = next[mine[u]]
    <3> SUFFICES ASSUME Private(u) PROVE next'[mine[u]] = next[mine[u]]
      OBVIOUS
    <3>1. mine[u] \in allocated /\ \A n \in MicroQueues : \A j \in Live(lo, hi, n) : pg[n][j] # mine[u]
      BY DEF Lists, Owned
    <3>2. mine[u] # q
      BY <1>2, <1>7, <3>1, ThreadAssumption
    <3> QED
      BY <1>10, <3>1, <3>2
  <2>6. pc[u] = "unlink" => next'[mine[u]] = next[mine[u]]
    <3> SUFFICES ASSUME pc[u] = "unlink" PROVE next'[mine[u]] = next[mine[u]]
      OBVIOUS
    <3>1. lo[At(u)] < hi[At(u)] /\ At(u) # m
      BY <2>2 DEF Bounded, OnHead, Locking
    <3>2. /\ lo[At(u)] \in Live(lo, hi, At(u)) /\ mine[u] = pg[At(u)][lo[At(u)]]
          /\ mine[u] \in allocated
      BY <2>1, <3>1, LiveEnds DEF Knows
    <3>3. mine[u] # q
      BY <1>2, <1>7, <2>1, <3>1, <3>2, ThreadAssumption DEF Lists, Distinct
    <3> QED
      BY <1>10, <3>2, <3>3
  <2>7. pc[u] \in {"take", "pop_lock", "unlink"} => lo[At(u)] < hi[At(u)]
    BY DEF Bounded, OnHead
  <2>8. lo[At(u)] < hi[At(u)] \/ FirstPage(lo, hi, pg, At(u)) = NoPage
    BY DEF FirstPage
  <2>9. /\ PushPrivate(u)' => next'[mine'[u]] = NoPage
        /\ pc'[u] = "link" => seen'[u] = LastPage(lo, hi2, pg2, At(u))
        /\ pc'[u] \in {"set_tail", "fill", "push_release"} =>
              mine'[u] = LastPage(lo, hi2, pg2, At(u))
    BY <1>3, <1>13, <1>18, <2>1, <2>2, <2>3, <2>5 DEF Knows, Private, Locking
  <2>10. /\ pc'[u] \in {"take", "pop_lock", "unlink"} => mine'[u] = FirstPage(lo, hi2, pg2, At(u))
         /\ pc'[u] = "unlink" => seen'[u] = next'[mine'[u]]
    BY <1>3, <1>18, <2>1, <2>4, <2>6, <2>7 DEF Knows
  <2>11. pc'[u] = "clear_tail" => lo[At(u)] = hi2[At(u)]
    BY <1>3, <1>8, <1>18, <2>1, <2>2 DEF Knows, Locking
  <2>12. Passed(u)' => next'[mine'[u]] = NoPage \/ next'[mine'[u]] = FirstPage(lo, hi2, pg2, At(u))
    BY <1>3, <1>18, <2>1, <2>4, <2>5, <2>8 DEF Knows, Private
  <2> QED
    BY <1>3, <1>18, <2>9, <2>10, <2>11, <2>12 DEF Knows, FirstPage, LastPage
<1>19. Lists(lo, hi2, pg2)'
  BY <1>11, <1>12, <1>14, <1>15, <1>16, <1>17, <1>18 DEF Lists
<1>20. /\ hi2 = [hi EXCEPT ![m] = @ + 1]
       /\ pg2 = [pg EXCEPT ![m] = [@ EXCEPT ![hi[m]] = p]]
  BY <1>1 DEF hi2, pg2
<1> QED
  BY <1>19, <1>20

LEMMA SetTailPages ==
    ASSUME NEW lo, NEW hi, NEW pg, Lists(lo, hi, pg), Bounded(lo, hi), TurnInv, WayInv,
           NEW t \in Threads, Step(t), SetTailPage(t) \/ ClearTailPage(t)
    PROVE  Lists(lo, hi, pg)'
<1>1. /\ pc \in [Threads -> {"idle"} \cup PushSteps \cup PopSteps \cup EmptySteps]
      /\ ticket \in [Threads -> Nat] /\ Over(tail_page, MicroQueues)
      /\ WayOf(t) /\ At(t) \in MicroQueues /\ Knows(lo, hi, pg, t)
  BY TurnFacts DEF TurnInv, Ordered, WayInv, TypeOK, At, Lists
<1>2. \A u \in Threads : u # t =>
         /\ pc'[u] = pc[u] /\ mine'[u] = mine[u] /\ seen'[u] = seen[u] /\ ticket'[u] = ticket[u]
         /\ At(u)' = At(u)
         /\ PushPrivate(u)' <=> PushPrivate(u)
         /\ Passed(u)' <=> Passed(u)
         /\ Private(u)' <=> Private(u)
  BY OthersStay DEF WayInv, Stays, At, PushPrivate, Passed, Private
<1>3. /\ UNCHANGED <<head_page, allocated, next, mine, seen, ticket>>
      /\ At(t)' = At(t) /\ (Private(t)' <=> Private(t))
      /\ pc[t] \in {"set_tail", "clear_tail"}
  BY <1>1 DEF SetTailPage, ClearTailPage, Goto, local_vars, page_vars, At, Private, PushPrivate,
              Passed, WayOf
<1>4. Knows(lo, hi, pg, t)'
  BY <1>1 DEF SetTailPage, ClearTailPage, Goto, Knows, PushPrivate, Passed, WayOf, At, FirstPage,
              LastPage, local_vars, page_vars
<1>5. Chain(lo, hi, pg)' /\ Distinct(lo, hi, pg)'
  BY <1>3 DEF Lists, Chain, Distinct
<1>6. /\ tail_page'[At(t)] = LastPage(lo, hi, pg, At(t))
      /\ \A n \in MicroQueues : n # At(t) => tail_page'[n] = tail_page[n]
  BY <1>1 DEF SetTailPage, ClearTailPage, Knows, LastPage, Over, Bounded, Numbers
<1>7. Ends(lo, hi, pg)'
  <2> SUFFICES ASSUME NEW n \in MicroQueues
               PROVE  /\ head_page'[n] = FirstPage(lo, hi, pg, n)
                      /\ \/ \E u \in Threads : pc'[u] \in {"set_tail", "clear_tail"} /\ At(u)' = n
                         \/ tail_page'[n] = LastPage(lo, hi, pg, n)
    BY DEF Ends, FirstPage, LastPage
  <2>1. /\ head_page[n] = FirstPage(lo, hi, pg, n)
        /\ \/ \E u \in Threads : pc[u] \in {"set_tail", "clear_tail"} /\ At(u) = n
           \/ tail_page[n] = LastPage(lo, hi, pg, n)
    BY DEF Lists, Ends
  <2>2. CASE n = At(t)
    BY <1>3, <1>6, <2>1, <2>2
  <2>3. CASE n # At(t)
    BY <1>2, <1>3, <1>6, <2>1, <2>3
  <2> QED
    BY <2>2, <2>3
<1>8. Owned(lo, hi, pg)'
  BY <1>2, <1>3 DEF Lists, Owned
<1>9. NoneLost(lo, hi, pg)'
  BY <1>2, <1>3 DEF Lists, NoneLost
<1>10. ASSUME NEW u \in Threads, u # t PROVE Knows(lo, hi, pg, u)'
  <2>1. Knows(lo, hi, pg, u)
    BY DEF Lists
  <2> QED
    BY <1>2, <1>3, <1>10, <2>1 DEF Knows, FirstPage, LastPage
<1> QED
  BY <1>4, <1>5, <1>7, <1>8, <1>9, <1>10 DEF Lists

LEMMA UnlinkPages ==
    ASSUME NEW lo, NEW hi, NEW pg, Lists(lo, hi, pg), Bounded(lo, hi),
           TurnInv, WayInv, NEW t \in Threads, Step(t), UnlinkPage(t), NEW m, m = At(t),
           Bounded([lo EXCEPT ![m] = @ + 1], hi)'
    PROVE  Lists([lo EXCEPT ![m] = @ + 1], hi, pg)'
<1>1. PICK p, l : p = mine[t] /\ l = lo[m]
  OBVIOUS
<1>2. /\ pc \in [Threads -> {"idle"} \cup PushSteps \cup PopSteps \cup EmptySteps]
      /\ ticket \in [Threads -> Nat] /\ Over(head_page, MicroQueues)
      /\ WayOf(t) /\ allocated \subseteq Pages /\ Knows(lo, hi, pg, t)
      /\ m \in MicroQueues /\ At(t) \in MicroQueues
      /\ l \in Nat /\ hi[m] \in Nat
  BY <1>1, TurnFacts DEF TurnInv, Ordered, WayInv, TypeOK, At, Bounded, Numbers, Lists
<1>3. \A u \in Threads : u # t =>
         /\ pc'[u] = pc[u] /\ mine'[u] = mine[u] /\ seen'[u] = seen[u] /\ ticket'[u] = ticket[u]
         /\ At(u)' = At(u)
         /\ PushPrivate(u)' <=> PushPrivate(u)
         /\ Passed(u)' <=> Passed(u)
         /\ Private(u)' <=> Private(u)
  BY OthersStay DEF WayInv, Stays, At, PushPrivate, Passed, Private
<1>4. /\ UNCHANGED <<tail_page, allocated, next, mine, seen, ticket>>
      /\ pc[t] = "unlink" /\ At(t)' = m
      /\ pc'[t] = IF seen[t] = NoPage THEN "clear_tail" ELSE "pop_release"
      /\ head_page' = [head_page EXCEPT ![m] = seen[t]]
      /\ Last(ticket[t])
  BY <1>1, <1>2 DEF UnlinkPage, Goto, local_vars, page_vars, WayOf, At
<1>5. Passed(t)' /\ Private(t)' /\ ~Private(t) /\ ~PushPrivate(t)'
  BY <1>4 DEF Private, PushPrivate, Passed
<1>6. /\ l < hi[m] /\ l \in Live(lo, hi, m) /\ p = pg[m][l] /\ p \in allocated
  <2>1. l < hi[m]
    BY <1>1, <1>4 DEF Bounded, OnHead
  <2> QED
    BY <1>1, <1>2, <1>4, <2>1, LiveEnds DEF Knows
<1>7. /\ seen[t] = next[p]
      /\ next[p] = IF l + 1 < hi[m] THEN pg[m][l + 1] ELSE NoPage
  BY <1>1, <1>2, <1>4, <1>6 DEF Knows, Lists, Chain
<1> DEFINE lo2 == [lo EXCEPT ![m] = @ + 1]
<1>8. /\ lo2[m] = l + 1 /\ \A n \in MicroQueues : n # m => lo2[n] = lo[n]
  BY <1>1, <1>2 DEF Bounded, Numbers
<1> HIDE DEF lo2
\* The live pages are those there were, but for this one.
<1>9. /\ \A n \in MicroQueues : \A j \in Live(lo2, hi, n) : j \in Live(lo, hi, n) /\ ~(n = m /\ j = l)
      /\ \A n \in MicroQueues : \A j \in Live(lo, hi, n) : j \in Live(lo2, hi, n) \/ (n = m /\ j = l)
  BY <1>1, <1>2, <1>8 DEF Live, Bounded, Numbers
<1>10. Chain(lo2, hi, pg)' /\ Distinct(lo2, hi, pg)'
  BY <1>4, <1>9 DEF Lists, Chain, Distinct, Live
<1>11. /\ FirstPage(lo2, hi, pg, m) = next[p]
       /\ l + 1 < hi[m] => LastPage(lo2, hi, pg, m) = LastPage(lo, hi, pg, m)
       /\ \A n \in MicroQueues : n # m => /\ FirstPage(lo2, hi, pg, n) = FirstPage(lo, hi, pg, n)
                                          /\ LastPage(lo2, hi, pg, n) = LastPage(lo, hi, pg, n)
  BY <1>1, <1>6, <1>7, <1>8 DEF FirstPage, LastPage
<1>12. next[p] = NoPage <=> l + 1 = hi[m]
  <2>1. l + 1 < hi[m] => l + 1 \in Live(lo, hi, m)
    BY <1>1, <1>2 DEF Live
  <2>2. l + 1 < hi[m] => pg[m][l + 1] \in allocated
    BY <1>2, <2>1 DEF Lists, Chain
  <2>3. l + 1 < hi[m] => pg[m][l + 1] # NoPage
    BY <1>2, <2>2, ThreadAssumption
  <2> QED
    BY <1>2, <1>6, <1>7, <2>3
<1>13. Ends(lo2, hi, pg)'
  <2> SUFFICES ASSUME NEW n \in MicroQueues
               PROVE  /\ head_page'[n] = FirstPage(lo2, hi, pg, n)
                      /\ \/ \E u \in Threads : pc'[u] \in {"set_tail", "clear_tail"} /\ At(u)' = n
                         \/ tail_page'[n] = LastPage(lo2, hi, pg, n)
    BY DEF Ends, FirstPage, LastPage
  <2>1. /\ head_page[n] = FirstPage(lo, hi, pg, n)
        /\ \/ \E u \in Threads : pc[u] \in {"set_tail", "clear_tail"} /\ At(u) = n
           \/ tail_page[n] = LastPage(lo, hi, pg, n)
    BY DEF Lists, Ends
  <2>2. head_page'[n] = FirstPage(lo2, hi, pg, n)
    BY <1>2, <1>4, <1>7, <1>11, <2>1 DEF Over
  <2>3. \/ \E u \in Threads : pc'[u] \in {"set_tail", "clear_tail"} /\ At(u)' = n
        \/ tail_page'[n] = LastPage(lo2, hi, pg, n)
    <3>1. CASE n = m /\ l + 1 = hi[m]
      <4>1. pc'[t] = "clear_tail"
        BY <1>4, <1>7, <1>12, <3>1
      <4> QED
        BY <1>4, <3>1, <4>1
    <3>2. CASE ~(n = m /\ l + 1 = hi[m])
      <4>1. LastPage(lo2, hi, pg, n) = LastPage(lo, hi, pg, n)
        BY <1>2, <1>6, <1>11, <3>2
      <4> QED
        BY <1>3, <1>4, <2>1, <4>1
    <3> QED
      BY <3>1, <3>2
  <2> QED
    BY <2>2, <2>3
<1>14. Owned(lo2, hi, pg)'
  <2> SUFFICES ASSUME NEW u \in Threads, Private(u)'
               PROVE  /\ mine'[u] \in allocated
                      /\ \A n \in MicroQueues : \A j \in Live(lo2, hi, n) : pg[n][j] # mine'[u]
                      /\ \A v \in Threads : Private(v)' /\ mine'[v] = mine'[u] => v = u
    BY <1>4 DEF Owned, Live
  <2>1. \A v \in Threads : Private(v) => mine[v] # p
    BY <1>2, <1>6 DEF Lists, Owned
  <2>2. CASE u = t
    <3>1. \A n \in MicroQueues : \A j \in Live(lo2, hi, n) : pg[n][j] # p
      BY <1>2, <1>6, <1>9 DEF Lists, Distinct
    <3>2. \A v \in Threads : v # t /\ Private(v)' => mine'[v] # p
      BY <1>3, <2>1
    <3> QED
      BY <1>1, <1>4, <1>6, <2>2, <3>1, <3>2
  <2>3. CASE u # t
    <3>1. Private(u) /\ mine'[u] = mine[u] /\ mine[u] # p
      BY <1>3, <2>1, <2>3
    <3>2. /\ mine[u] \in allocated
          /\ \A n \in MicroQueues : \A j \in Live(lo, hi, n) : pg[n][j] # mine[u]
          /\ \A v \in Threads : Private(v) /\ mine[v] = mine[u] => v = u
      BY <3>1 DEF Lists, Owned
    <3>3. \A v \in Threads : Private(v)' /\ mine'[v] = mine[u] => v = u
      BY <1>1, <1>3, <1>4, <3>1, <3>2
    <3> QED
      BY <1>9, <3>1, <3>2, <3>3
  <2> QED
    BY <2>2, <2>3
<1>15. NoneLost(lo2, hi, pg)'
  <2> SUFFICES ASSUME NEW r \in allocated
               PROVE  \/ \E n \in MicroQueues : \E j \in Live(lo2, hi, n) : pg[n][j] = r
                      \/ \E u \in Threads : Private(u)' /\ mine'[u] = r
    BY <1>4 DEF NoneLost, Live
  <2>1. \/ \E n \in MicroQueues : \E j \in Live(lo, hi, n) : pg[n][j] = r
        \/ \E u \in Threads : Private(u) /\ mine[u] = r
    BY DEF Lists, NoneLost
  <2>2. CASE r = p
    BY <1>1, <1>4, <1>5, <2>2
  <2>3. CASE r # p
    <3>1. ASSUME NEW n \in MicroQueues, NEW j \in Live(lo, hi, n), pg[n][j] = r
          PROVE  j \in Live(lo2, hi, n)
      BY <1>6, <1>9, <2>3, <3>1
    <3>2. ASSUME NEW u \in Threads, Private(u), mine[u] = r PROVE Private(u)' /\ mine'[u] = r
      BY <1>3, <1>5, <3>2
    <3> QED
      BY <2>1, <3>1, <3>2
  <2> QED
    BY <2>2, <2>3
<1>16. Knows(lo2, hi, pg, t)'
  <2>1. Passed(t)' => next'[mine'[t]] = FirstPage(lo2, hi, pg, m)
    BY <1>1, <1>4, <1>11
  <2>2. pc'[t] = "clear_tail" => lo2[m] = hi[m]
    BY <1>4, <1>7, <1>8, <1>12
  <2> QED
    BY <1>4, <1>5, <2>1, <2>2 DEF Knows, FirstPage
<1>17. ASSUME NEW u \in Threads, u # t PROVE Knows(lo2, hi, pg, u)'
  <2>1. /\ Knows(lo, hi, pg, u) /\ At(u) \in MicroQueues
    BY TurnFacts DEF Lists, TurnInv, Ordered, At
  <2>2. At(u) = m => pc[u] \notin Locking
    BY <1>1, <1>2, <1>4, <1>17, LockedAlone DEF Locking
  <2>3. At(u) = m => u \notin PopInside
    <3> SUFFICES ASSUME At(u) = At(t), u \in PopInside PROVE FALSE
      BY <1>1
    <3>1. t \in PopInside
      BY <1>4 DEF PopInside, PopSections
    <3> QED
      BY <1>17, <3>1, OrderedApart DEF TurnInv, At
  \* A push at the last page keeps the list from becoming empty.
  <2>4. pc[u] \in {"set_tail", "fill", "push_release"} =>
           LastPage(lo2, hi, pg, At(u)) = LastPage(lo, hi, pg, At(u))
    <3> SUFFICES ASSUME pc[u] \in {"set_tail", "fill", "push_release"}, At(u) = m
                 PROVE  LastPage(lo2, hi, pg, m) = LastPage(lo, hi, pg, m)
      BY <1>11, <2>1
    <3>1. lo2[m] < hi[m]
      BY <1>3, <1>17 DEF Bounded, OnTail, lo2
    <3> QED
      BY <1>8, <1>11, <3>1
  <2>5. /\ PushPrivate(u)' => next'[mine'[u]] = NoPage
        /\ pc'[u] = "link" => seen'[u] = LastPage(lo2, hi, pg, At(u))
        /\ pc'[u] \in {"set_tail", "fill", "push_release"} =>
              mine'[u] = LastPage(lo2, hi, pg, At(u))
    BY <1>3, <1>4, <1>11, <1>17, <2>1, <2>2, <2>4 DEF Knows, Locking
  <2>6. /\ pc'[u] \in {"take", "pop_lock", "unlink"} => mine'[u] = FirstPage(lo2, hi, pg, At(u))
        /\ pc'[u] = "unlink" => seen'[u] = next'[mine'[u]]
    BY <1>3, <1>4, <1>11, <1>17, <2>1, <2>3 DEF Knows, PopInside, PopSections
  <2>7. /\ pc'[u] = "clear_tail" => lo2[At(u)] = hi[At(u)]
        /\ Passed(u)' => next'[mine'[u]] = NoPage \/ next'[mine'[u]] = FirstPage(lo2, hi, pg, At(u))
    BY <1>3, <1>4, <1>8, <1>11, <1>17, <2>1, <2>3 DEF Knows, PopInside, PopSections, Passed
  <2> QED
    BY <1>3, <1>17, <2>5, <2>6, <2>7 DEF Knows, FirstPage, LastPage
<1>18. Lists(lo2, hi, pg)'
  BY <1>10, <1>13, <1>14, <1>15, <1>16, <1>17 DEF Lists
<1> QED
  BY <1>18 DEF lo2

LEMMA FreePages ==
    ASSUME NEW lo, NEW hi, NEW pg, Lists(lo, hi, pg), Bounded(lo, hi), TurnInv, WayInv,
           NEW t \in Threads, Step(t), FreePage(t)
    PROVE  Lists(lo, hi, pg)'
<1>1. PICK p : p = mine[t]
  OBVIOUS
<1>2. /\ pc \in [Threads -> {"idle"} \cup PushSteps \cup PopSteps \cup EmptySteps]
      /\ ticket \in [Threads -> Nat] /\ Over(next, Pages)
      /\ allocated \subseteq Pages
  BY DEF TurnInv, Ordered, WayInv, TypeOK
<1>3. \A u \in Threads : u # t =>
         /\ pc'[u] = pc[u] /\ mine'[u] = mine[u] /\ seen'[u] = seen[u] /\ ticket'[u] = ticket[u]
         /\ At(u)' = At(u)
         /\ PushPrivate(u)' <=> PushPrivate(u)
         /\ Passed(u)' <=> Passed(u)
         /\ Private(u)' <=> Private(u)
  BY OthersStay DEF WayInv, Stays, At, PushPrivate, Passed, Private
<1>4. /\ UNCHANGED <<head_page, tail_page>>
      /\ pc[t] = "free" /\ pc'[t] = "idle"
      /\ allocated' = allocated \ {p}
      /\ \A q \in allocated : q # p => next'[q] = next[q]
  BY <1>1, <1>2 DEF FreePage, Return, Goto, list_vars, Over
<1>5. /\ Private(t) /\ ~Private(t)' /\ ~PushPrivate(t)' /\ ~Passed(t)'
  BY <1>4 DEF Private, PushPrivate, Passed
<1>6. /\ \A n \in MicroQueues : \A j \in Live(lo, hi, n) : pg[n][j] # p
      /\ \A u \in Threads : Private(u) /\ mine[u] = p => u = t
  BY <1>1, <1>5 DEF Lists, Owned
<1>7. Chain(lo, hi, pg)' /\ Distinct(lo, hi, pg)'
  BY <1>4, <1>6 DEF Lists, Chain, Distinct
<1>8. Ends(lo, hi, pg)'
  BY <1>3, <1>4 DEF Lists, Ends, FirstPage, LastPage
<1>9. Owned(lo, hi, pg)'
  BY <1>3, <1>4, <1>5, <1>6 DEF Lists, Owned
<1>10. NoneLost(lo, hi, pg)'
  BY <1>1, <1>3, <1>4 DEF Lists, NoneLost
<1>11. Knows(lo, hi, pg, t)'
  BY <1>4, <1>5 DEF Knows
<1>12. ASSUME NEW u \in Threads, u # t PROVE Knows(lo, hi, pg, u)'
  <2>1. /\ Knows(lo, hi, pg, u) /\ At(u) \in MicroQueues
    BY TurnFacts DEF Lists, TurnInv, Ordered, At
  <2>2. Private(u) => next'[mine[u]] = next[mine[u]]
    BY <1>4, <1>6, <1>12 DEF Lists, Owned
  <2>3. pc[u] = "unlink" => next'[mine[u]] = next[mine[u]]
    <3> SUFFICES ASSUME pc[u] = "unlink" PROVE next'[mine[u]] = next[mine[u]]
      OBVIOUS
    <3>1. lo[At(u)] < hi[At(u)]
      BY DEF Bounded, OnHead
    <3>2. /\ lo[At(u)] \in Live(lo, hi, At(u)) /\ mine[u] = pg[At(u)][lo[At(u)]]
          /\ mine[u] \in allocated
      BY <2>1, <3>1, LiveEnds DEF Knows
    <3> QED
      BY <1>4, <1>6, <2>1, <3>2
  <2> QED
    BY <1>3, <1>12, <2>1, <2>2, <2>3 DEF Knows, FirstPage, LastPage, Private
<1> QED
  BY <1>7, <1>8, <1>9, <1>10, <1>11, <1>12 DEF Lists

-----------------------------------------------------------------------------
\* How a step changes the lists: a link adds a page behind, an unlink takes the
\* first one, any other step leaves the pages that are linked.
NextLists(t, lo, hi, pg, m, p, lo2, hi2, pg2) ==
    \/ /\ LinkPage(t)
       /\ lo2 = lo
       /\ hi2 = [hi EXCEPT ![m] = @ + 1]
       /\ pg2 = [pg EXCEPT ![m] = [@ EXCEPT ![hi[m]] = p]]
    \/ /\ UnlinkPage(t)
       /\ lo2 = [lo EXCEPT ![m] = @ + 1]
       /\ hi2 = hi
       /\ pg2 = pg
    \/ /\ ~LinkPage(t) /\ ~UnlinkPage(t)
       /\ lo2 = lo /\ hi2 = hi /\ pg2 = pg

LEMMA BoundedHolds ==
    ASSUME TurnInv, WayInv
    PROVE  Bounded(Los, His)
<1>1. Bounds
  BY BoundsHold
<1>2. \A t \in Threads : At(t) \in MicroQueues
  BY PlaceFacts
<1> QED
  BY <1>1, <1>2 DEF Bounds, Bounded, Los, His, Numbers

LEMMA StepLists ==
    ASSUME TurnInv, TurnInv', WayInv, WayInv', NEW t \in Threads, Step(t),
           NEW lo, NEW hi, NEW pg \in Placements, lo = Los, hi = His, Lists(lo, hi, pg)
    PROVE  \E m, p, lo2, hi2 : \E pg2 \in Placements :
              /\ m = At(t) /\ p = mine[t]
              /\ NextLists(t, lo, hi, pg, m, p, lo2, hi2, pg2)
              /\ lo2 = Los' /\ hi2 = His'
              /\ Lists(lo2, hi2, pg2)'
<1>1. Bounded(Los, His) /\ Bounded(Los, His)'
  <2>1. Bounded(Los, His)
    BY BoundedHolds
  <2>2. TurnInv' /\ WayInv' => Bounded(Los, His)'
    BY BoundedHolds, PTL
  <2> QED
    BY <2>1, <2>2
<1>2. Bounded(lo, hi) /\ lo \in Numbers /\ hi \in Numbers
  BY <1>1 DEF Bounded
<1>3. PICK m, p : m = At(t) /\ p = mine[t]
  OBVIOUS
<1>4. m \in MicroQueues
  BY <1>3, PlaceFacts
<1>5. PICK lo2, hi2 : lo2 = Los' /\ hi2 = His'
  OBVIOUS
<1>6. /\ lo2 = IF UnlinkPage(t) THEN [lo EXCEPT ![m] = @ + 1] ELSE lo
      /\ hi2 = IF LinkPage(t) THEN [hi EXCEPT ![m] = @ + 1] ELSE hi
  <2>1. \A n \in MicroQueues :
           /\ Lo(n)' = IF UnlinkPage(t) /\ n = m THEN Lo(n) + 1 ELSE Lo(n)
           /\ Hi(n)' = IF LinkPage(t) /\ n = m THEN Hi(n) + 1 ELSE Hi(n)
    BY <1>3, EndsMove
  <2> QED
    BY <1>4, <1>5, <2>1 DEF Los, His
<1>7. Bounded(lo2, hi2)'
  BY <1>1, <1>5 DEF Bounded
<1>8. CASE LinkPage(t)
  <2>1. ~UnlinkPage(t)
    BY <1>8 DEF LinkPage, UnlinkPage
  <2> DEFINE pg2 == [pg EXCEPT ![m] = [@ EXCEPT ![hi[m]] = p]]
  <2>2. Lists(lo2, hi2, pg2)'
    BY <1>2, <1>3, <1>6, <1>8, <2>1, LinkPages
  <2>3. p \in AnyPage
    <3>1. PushPrivate(t)
      BY <1>8 DEF LinkPage, PushPrivate, WayInv, WayOf
    <3> QED
      BY <1>3, <3>1 DEF Lists, Owned, Private, WayInv, TypeOK, AnyPage
  <2>4. pg2 \in Placements
    BY <1>2, <1>4, <2>3 DEF Placements, Numbers
  <2>5. NextLists(t, lo, hi, pg, m, p, lo2, hi2, pg2)
    BY <1>6, <1>8, <2>1 DEF NextLists
  <2> QED
    BY <1>3, <1>4, <1>5, <2>2, <2>4, <2>5
<1>9. CASE UnlinkPage(t)
  <2>1. ~LinkPage(t)
    BY <1>9 DEF LinkPage, UnlinkPage
  <2>2. Lists(lo2, hi2, pg)'
    BY <1>2, <1>3, <1>6, <1>7, <1>9, <2>1, UnlinkPages
  <2>3. NextLists(t, lo, hi, pg, m, p, lo2, hi2, pg)
    BY <1>6, <1>9, <2>1 DEF NextLists
  <2> QED
    BY <1>3, <1>4, <1>5, <2>2, <2>3
<1>10. CASE ~LinkPage(t) /\ ~UnlinkPage(t)
  <2>1. Lists(lo, hi, pg)'
    BY <1>2, <1>10, PushLocal, PopLocal, AllocatePages, SetTailPages, FreePages
       DEF Step, InPush, InPop
  <2>2. lo2 = lo /\ hi2 = hi /\ NextLists(t, lo, hi, pg, m, p, lo2, hi2, pg)
    BY <1>6, <1>10 DEF NextLists
  <2> QED
    BY <1>3, <1>4, <1>5, <2>1, <2>2
<1> QED
  BY <1>8, <1>9, <1>10

LEMMA NextPages == TurnInv /\ TurnInv' /\ WayInv /\ WayInv' /\ PagesInv /\ [Next]_vars => PagesInv'
<1> SUFFICES ASSUME TurnInv, TurnInv', WayInv, WayInv', PagesInv, [Next]_vars PROVE PagesInv'
  OBVIOUS
<1>1. PICK lo, hi : lo = Los /\ hi = His
  OBVIOUS
<1>2. PICK pg \in Placements : Lists(lo, hi, pg)
  BY <1>1 DEF PagesInv
<1>3. CASE Next
  <2>1. PICK t \in Threads : Step(t)
    BY <1>3, NextIsStep
  <2>2. PICK lo2, hi2 : \E pg2 \in Placements : lo2 = Los' /\ hi2 = His' /\ Lists(lo2, hi2, pg2)'
    BY <1>1, <1>2, <2>1, StepLists
  <2> QED
    BY <2>2 DEF PagesInv
<1>4. CASE UNCHANGED vars
  <2>1. Lists(lo, hi, pg)'
    BY <1>2, <1>4 DEF vars, list_vars, page_vars, local_vars, Lists, Chain, Distinct, Ends, Owned,
          NoneLost, Knows, Live, FirstPage, LastPage, Private, PushPrivate, Passed, At
  <2>2. Los' = Los /\ His' = His
    BY <1>4 DEF vars, counter_vars, local_vars, Los, His, Lo, Hi, PassedAt, LinkedAt, Passed, Linked, At
  <2> QED
    BY <1>1, <1>2, <2>1, <2>2 DEF PagesInv
<1> QED
  BY <1>3, <1>4

-----------------------------------------------------------------------------
LEMMA NoPageDangles ==
    ASSUME TurnInv, WayInv, PagesInv
    PROVE  NoDanglingPage
<1>1. PICK lo, hi : lo = Los /\ hi = His
  OBVIOUS
<1>2. PICK pg \in Placements : Lists(lo, hi, pg)
  BY <1>1 DEF PagesInv
<1>3. Bounded(lo, hi) /\ lo \in Numbers /\ hi \in Numbers
  BY <1>1, BoundedHolds DEF Bounded
<1>4. \A t \in Threads : At(t) \in MicroQueues
  BY PlaceFacts
<1>5. ASSUME NEW m \in MicroQueues
      PROVE  /\ FirstPage(lo, hi, pg, m) \in allocated \cup {NoPage}
             /\ LastPage(lo, hi, pg, m) \in allocated \cup {NoPage}
  <2>1. CASE lo[m] < hi[m]
    BY <1>2, <1>3, <2>1, LiveEnds
  <2>2. CASE ~(lo[m] < hi[m])
    BY <2>2 DEF FirstPage, LastPage
  <2> QED
    BY <2>1, <2>2
<1>6. ASSUME NEW m \in MicroQueues, NEW j \in Live(lo, hi, m)
      PROVE  next[pg[m][j]] \in allocated \cup {NoPage}
  <2>1. lo[m] \in Nat /\ hi[m] \in Nat
    BY <1>3 DEF Numbers
  <2>2. j + 1 < hi[m] => j + 1 \in Live(lo, hi, m)
    BY <2>1 DEF Live
  <2> QED
    BY <1>2, <2>2 DEF Lists, Chain
<1>7. ASSUME NEW t \in Threads,
             pc[t] \in {"link", "set_tail", "fill", "take", "pop_lock", "unlink", "free"}
      PROVE  mine[t] \in allocated
  <2>1. CASE pc[t] \in {"link", "free"}
    <3>1. Private(t)
      BY <2>1 DEF Private, PushPrivate, WayInv, WayOf
    <3> QED
      BY <1>2, <3>1 DEF Lists, Owned
  <2>2. CASE pc[t] \in {"set_tail", "fill", "take", "pop_lock", "unlink"}
    <3>1. lo[At(t)] < hi[At(t)]
      BY <1>3, <2>2 DEF Bounded, OnHead, OnTail
    <3>2. mine[t] = FirstPage(lo, hi, pg, At(t)) \/ mine[t] = LastPage(lo, hi, pg, At(t))
      BY <1>2, <2>2 DEF Lists, Knows
    <3> QED
      BY <1>2, <1>3, <1>4, <3>1, <3>2, LiveEnds
  <2> QED
    BY <1>7, <2>1, <2>2
<1>8. ASSUME NEW t \in Threads, pc[t] \in {"link", "unlink"}
      PROVE  seen[t] \in allocated \cup {NoPage}
  <2>1. CASE pc[t] = "link"
    <3>1. seen[t] = LastPage(lo, hi, pg, At(t))
      BY <1>2, <2>1 DEF Lists, Knows
    <3> QED
      BY <1>4, <1>5, <3>1
  <2>2. CASE pc[t] = "unlink"
    <3>1. lo[At(t)] < hi[At(t)]
      BY <1>3, <2>2 DEF Bounded, OnHead
    <3>2. seen[t] = next[mine[t]] /\ mine[t] = FirstPage(lo, hi, pg, At(t))
      BY <1>2, <2>2 DEF Lists, Knows
    <3>3. mine[t] = pg[At(t)][lo[At(t)]] /\ lo[At(t)] \in Live(lo, hi, At(t))
      BY <1>2, <1>3, <1>4, <3>1, <3>2, LiveEnds
    <3> QED
      BY <1>4, <1>6, <3>2, <3>3
  <2> QED
    BY <1>8, <2>1, <2>2
<1>9. ASSUME NEW m \in MicroQueues
      PROVE  /\ head_page[m] \in allocated \cup {NoPage}
             /\ page_mutex[m] = Nobody => tail_page[m] \in allocated \cup {NoPage}
  <2>1. head_page[m] = FirstPage(lo, hi, pg, m)
    BY <1>2 DEF Lists, Ends
  <2>2. page_mutex[m] = Nobody => tail_page[m] = LastPage(lo, hi, pg, m)
    <3>1. ASSUME page_mutex[m] = Nobody, NEW t \in Threads, pc[t] \in {"set_tail", "clear_tail"}, At(t) = m
          PROVE  FALSE
      BY <3>1, ThreadAssumption DEF WayInv, MutexInv, Locking
    <3> QED
      BY <1>2, <3>1 DEF Lists, Ends
  <2> QED
    BY <1>5, <2>1, <2>2
<1>10. ASSUME NEW p \in allocated
       PROVE  \/ next[p] \in allocated \cup {NoPage}
              \/ \E t \in Threads : mine[t] = p /\ pc[t] = "free"
  <2>1. CASE \E m \in MicroQueues : \E j \in Live(lo, hi, m) : pg[m][j] = p
    BY <1>6, <2>1
  <2>2. CASE \E t \in Threads : Private(t) /\ mine[t] = p
    <3>1. PICK t \in Threads : Private(t) /\ mine[t] = p
      BY <2>2
    <3>2. CASE PushPrivate(t)
      BY <1>2, <3>1, <3>2 DEF Lists, Knows
    <3>3. CASE Passed(t)
      BY <1>2, <1>4, <1>5, <3>1, <3>3 DEF Lists, Knows
    <3>4. CASE pc[t] = "free"
      BY <3>1, <3>4
    <3> QED
      BY <3>1, <3>2, <3>3, <3>4 DEF Private
  <2> QED
    BY <1>2, <2>1, <2>2 DEF Lists, NoneLost
<1> QED
  BY <1>7, <1>8, <1>9, <1>10 DEF NoDanglingPage

\* A round of tickets goes to every micro queue: SpreadAssumption says that it
\* meets none twice.
LEMMA EveryMicroQueue ==
    ASSUME NEW m \in MicroQueues
    PROVE  \E i \in MicroQueues : (i * Phi) % NQueue = m
<1> DEFINE f == [i \in MicroQueues |-> (i * Phi) % NQueue]
<1>1. ASSUME NEW i \in MicroQueues PROVE (i * Phi) % NQueue \in MicroQueues
  <2>1. i * Phi \in Nat
    BY LayoutAssumption DEF MicroQueues
  <2> QED
    BY <2>1, Division, LayoutAssumption DEF MicroQueues
<1>2. f \in [MicroQueues -> MicroQueues]
  BY <1>1
<1>3. f \in Injection(MicroQueues, MicroQueues)
  BY <1>2, SpreadAssumption DEF Injection, IsInjective
<1>4. IsFiniteSet(MicroQueues)
  BY FS_Interval, LayoutAssumption DEF MicroQueues
<1>5. f \in Surjection(MicroQueues, MicroQueues)
  BY <1>3, <1>4, FS_Injection
<1> QED
  BY <1>5 DEF Surjection

LEMMA EveryTurn ==
    ASSUME NEW m \in MicroQueues, NEW q \in Nat
    PROVE  \E j \in Nat : Micro(j) = m /\ Turn(j) = NQueue * q
<1>1. PICK i \in MicroQueues : (i * Phi) % NQueue = m
  BY EveryMicroQueue
<1>2. NQueue * q \in Nat /\ i \in 0 .. NQueue - 1 /\ i \in Nat
  BY LayoutAssumption DEF MicroQueues
<1> DEFINE j == NQueue * q + i
<1>3. j \in Nat
  BY <1>2
<1>4. j % NQueue = i
  BY <1>2, Remainder, LayoutAssumption
<1>5. Micro(j) = m
  BY <1>1, <1>3, <1>4, MicroOfPlace
<1>6. Turn(j) = NQueue * q
  BY <1>2, <1>4 DEF Turn
<1> QED
  BY <1>3, <1>5, <1>6

\* With no call open and as many pops as pushes, the two counters of a micro
\* queue are equal: no ticket is left over in either.
LEMMA Drained ==
    ASSUME TurnInv, AtRest, rep_head = rep_tail, NEW m \in MicroQueues
    PROVE  \E j \in Nat :
              Micro(j) = m /\ head_counter[m] = Turn(j) /\ tail_counter[m] = Turn(j)
<1>1. Pushing = {} /\ Claimed = {}
  BY DEF AtRest, Pushing, Claimed, PushSteps, ClaimedSteps, PopSteps
<1>2. /\ head_counter[m] \in Nat /\ tail_counter[m] \in Nat
      /\ head_counter[m] <= tail_counter[m] /\ rep_head \in Nat
  BY PlaceFacts DEF TurnInv, Ordered
<1>3. PICK q \in Nat : head_counter[m] = NQueue * q
  BY DEF TurnInv, Ordered, Rounds
<1>4. PICK j \in Nat : Micro(j) = m /\ Turn(j) = NQueue * q
  BY EveryTurn
<1>5. ~(Turn(j) < head_counter[m])
  BY <1>2, <1>3, <1>4
<1>6. j >= rep_head
  BY <1>1, <1>2, <1>4, <1>5 DEF TurnInv, Ordered
<1>7. tail_counter[m] <= Turn(j)
  BY <1>4, <1>6 DEF TurnInv, Ordered
<1>8. head_counter[m] = Turn(j) /\ Turn(j) \in Nat
  BY <1>3, <1>4, TurnFacts
<1>9. tail_counter[m] = Turn(j)
  BY <1>2, <1>7, <1>8
<1> QED
  BY <1>4, <1>8, <1>9

LEMMA DestructorFinds ==
    ASSUME TurnInv, WayInv, PagesInv
    PROVE  DestructorFreesAll
<1> SUFFICES ASSUME AtRest, rep_head = rep_tail
             PROVE  /\ FinishClear = {}
                    /\ \A m \in MicroQueues : head_page[m] = tail_page[m]
  BY DEF DestructorFreesAll
<1>1. PICK lo, hi : lo = Los /\ hi = His
  OBVIOUS
<1>2. PICK pg \in Placements : Lists(lo, hi, pg)
  BY <1>1 DEF PagesInv
<1>3. \A t \in Threads : ~Passed(t) /\ ~Linked(t) /\ ~Private(t)
  BY DEF AtRest, Passed, Linked, Private, PushPrivate
<1>4. ASSUME NEW m \in MicroQueues
      PROVE  /\ lo[m] \in Nat
             /\ hi[m] = lo[m] \/ hi[m] = lo[m] + 1
  <2>1. PICK j \in Nat : Micro(j) = m /\ head_counter[m] = Turn(j) /\ tail_counter[m] = Turn(j)
    BY Drained
  <2>2. /\ PageNo(j) \in Nat /\ PageOf(Turn(j)) = PageNo(j)
        /\ PageUp(Turn(j)) = PageNo(j) \/ PageUp(Turn(j)) = PageNo(j) + 1
    BY PageFacts
  <2>3. lo[m] = PageNo(j) /\ hi[m] = PageUp(Turn(j))
    BY <1>1, <1>3, <2>1, <2>2 DEF Los, His, Lo, Hi, PassedAt, LinkedAt
  <2> QED
    BY <2>2, <2>3
<1>5. \A m \in MicroQueues : tail_page[m] = LastPage(lo, hi, pg, m)
  BY <1>2 DEF AtRest, Lists, Ends
<1>6. ASSUME NEW m \in MicroQueues PROVE head_page[m] = tail_page[m]
  <2>1. head_page[m] = FirstPage(lo, hi, pg, m)
    BY <1>2 DEF Lists, Ends
  <2> QED
    BY <1>4, <1>5, <2>1 DEF FirstPage, LastPage
<1>7. ASSUME NEW p \in allocated PROVE \E m \in MicroQueues : tail_page[m] = p
  <2>1. PICK m \in MicroQueues : \E j \in Live(lo, hi, m) : pg[m][j] = p
    BY <1>2, <1>3 DEF Lists, NoneLost
  <2>2. PICK j \in Live(lo, hi, m) : pg[m][j] = p
    BY <2>1
  <2>3. j = hi[m] - 1 /\ lo[m] < hi[m]
    BY <1>4 DEF Live
  <2> QED
    BY <1>5, <2>2, <2>3 DEF LastPage
<1> QED
  BY <1>6, <1>7 DEF FinishClear

(***************************************************************************)
(* No page pointer of the queue that is followed leads to a freed page or  *)
(* to none, and a queue that is drained and at rest has no page but those  *)
(* its destructor frees (lines 374 to 387 and 574 to 590): each micro      *)
(* queue's list is the pages from Lo to Hi in order, and a page off the    *)
(* lists is in the hands of one thread.                                    *)
(***************************************************************************)
THEOREM PagesAccountedHolds == Spec => []PagesAccounted
<1>1. Init => TurnInv /\ WayInv /\ PagesInv
  BY InitTurnInv, InitWayInv, InitPages
<1>2. TurnInv /\ WayInv /\ PagesInv /\ [Next]_vars => (TurnInv /\ WayInv /\ PagesInv)'
  BY NextTurnInv, NextWayInv, NextPages
<1>3. TurnInv /\ WayInv /\ PagesInv => PagesAccounted
  BY NoPageDangles, DestructorFinds DEF PagesAccounted
<1> QED
  BY <1>1, <1>2, <1>3, PTL DEF Spec

-----------------------------------------------------------------------------
(* The queue as a FIFO: what the tickets, the items and the open calls of  *)
(* empty() amount to.                                                      *)

Roles ==
    /\ \A t \in Pushers : pc[t] \in {"idle"} \cup PushSteps
    /\ \A t \in Poppers : pc[t] \in {"idle"} \cup PopSteps
    /\ \A t \in Observers : pc[t] \in {"idle"} \cup EmptySteps

Values ==
    /\ Over(task, Threads)
    /\ Over(answer, Observers)
    /\ Over(slot, Pages)
    /\ Over(mask, Pages)
    /\ \A p \in Pages : Over(slot[p], 0 .. ItemsPerPage - 1)
    /\ left \in [Threads -> Nat]
    /\ \E quota \in Quotas : \A t \in Threads : left[t] <= quota[t]

\* A pop never gets ahead of the pushes.
Chase ==
    /\ rep_head <= rep_tail
    /\ \A t \in Threads : pc[t] \in {"look", "claim"} => ticket[t] <= rep_head
    /\ \A t \in Threads : pc[t] = "claim" => ticket[t] < rep_tail

LEMMA InitCalls == Init => Roles /\ Values /\ Chase
<1> SUFFICES ASSUME Init PROVE Roles /\ Values /\ Chase
  OBVIOUS
<1>1. Roles
  BY DEF Init, Roles, Threads
<1>2. left \in [Threads -> Nat]
  BY ThreadAssumption DEF Init
<1>3. Values
  <2>1. \A t \in Threads : left[t] <= left[t]
    BY <1>2
  <2> QED
    BY <1>2, <2>1 DEF Init, Values, Over
<1>4. Chase
  BY DEF Init, Chase
<1> QED
  BY <1>1, <1>3, <1>4

LEMMA StepRoles ==
    ASSUME TurnInv, Roles, Next
    PROVE  Roles'
<1>1. pc \in [Threads -> {"idle"} \cup PushSteps \cup PopSteps \cup EmptySteps]
  BY DEF TurnInv
<1>2. CASE \E t \in Pushers : PushTicket(t) \/ InPush(t)
  <2>1. PICK t \in Pushers : PushTicket(t) \/ InPush(t)
    BY <1>2
  <2>2. \E l \in {"idle"} \cup PushSteps : pc' = [pc EXCEPT ![t] = l]
    BY <2>1 DEF PushTicket, InPush, AllocatePage, PushTurn, PushLock, LinkPage, SetTailPage,
                PushPage, FillSlot, PushRelease, Goto, Return, PushSteps
  <2> QED
    BY <1>1, <2>2, ThreadAssumption DEF Roles, Threads
<1>3. CASE \E t \in Poppers : ReadHead(t) \/ InPop(t)
  <2>1. PICK t \in Poppers : ReadHead(t) \/ InPop(t)
    BY <1>3
  <2>2. \E l \in {"idle"} \cup PopSteps : pc' = [pc EXCEPT ![t] = l]
    BY <2>1 DEF ReadHead, InPop, LookEmpty, LookFull, ClaimWins, ClaimLoses, PopTurn, AwaitItem,
                PopPage, TakeItem, PopLock, UnlinkPage, ClearTailPage, PopRelease, FreePage,
                Goto, Return, PopSteps
  <2> QED
    BY <1>1, <2>2, ThreadAssumption DEF Roles, Threads
<1>4. CASE \E t \in Observers : EmptyReadTail(t) \/ InEmpty(t)
  <2>1. PICK t \in Observers : EmptyReadTail(t) \/ InEmpty(t)
    BY <1>4
  <2>2. \E l \in {"idle"} \cup EmptySteps : pc' = [pc EXCEPT ![t] = l]
    BY <2>1 DEF EmptyReadTail, InEmpty, EmptyReadHead, EmptyAgain, Goto, Return, EmptySteps
  <2> QED
    BY <1>1, <2>2, ThreadAssumption DEF Roles, Threads
<1> QED
  BY <1>2, <1>3, <1>4 DEF Next

LEMMA StepValues ==
    ASSUME TurnInv, WayInv, Values, NEW t \in Threads, Step(t)
    PROVE  Values'
<1> USE DEF Over
<1>1. ticket[t] \in Nat /\ Index(ticket[t]) \in 0 .. ItemsPerPage - 1
  BY PlaceFacts, PageFacts
<1>2. ASSUME NEW n \in 0 .. left[t], left' = [left EXCEPT ![t] = n]
      PROVE  /\ left' \in [Threads -> Nat]
             /\ \E quota \in Quotas : \A u \in Threads : left'[u] <= quota[u]
  <2>1. left \in [Threads -> Nat]
    BY DEF Values
  <2>2. PICK quota \in Quotas : \A u \in Threads : left[u] <= quota[u]
    BY DEF Values
  <2>3. \A u \in Threads : quota[u] \in Nat
    BY ThreadAssumption
  <2>4. n \in Nat /\ n <= left[t] /\ left[t] \in Nat
    BY <2>1
  <2>5. left'[t] = n /\ \A u \in Threads : u # t => left'[u] = left[u]
    BY <1>2, <2>1
  <2>6. \A u \in Threads : left'[u] <= quota[u]
    BY <2>1, <2>2, <2>3, <2>4, <2>5
  <2> QED
    BY <1>2, <2>1, <2>4, <2>6
<1>3. CASE FillSlot(t)
  <2>1. slot' = [slot EXCEPT ![mine[t]][Index(ticket[t])] = task[t]]
    BY <1>3 DEF FillSlot
  <2>2. Over(slot', Pages) /\ \A p \in Pages : Over(slot'[p], 0 .. ItemsPerPage - 1)
    BY <2>1 DEF Values
  <2> QED
    BY <1>3, <2>2 DEF FillSlot, Values, local_vars
<1>4. CASE FreePage(t)
  <2>1. slot' = [slot EXCEPT ![mine[t]] = [i \in 0 .. ItemsPerPage - 1 |-> Nothing]]
    BY <1>4 DEF FreePage
  <2>2. Over(slot', Pages) /\ \A p \in Pages : Over(slot'[p], 0 .. ItemsPerPage - 1)
    BY <2>1 DEF Values
  <2> QED
    BY <1>4, <2>2 DEF FreePage, Values
<1>5. CASE PushTicket(t)
  <2>1. left[t] \in Nat /\ left[t] > 0
    BY <1>5 DEF PushTicket, Values
  <2>2. left' = [left EXCEPT ![t] = left[t] - 1] /\ left[t] - 1 \in 0 .. left[t]
    BY <1>5, <2>1 DEF PushTicket
  <2>3. UNCHANGED <<slot, mask, answer>> /\ Over(task', Threads)
    BY <1>5 DEF PushTicket, page_vars, Values
  <2> QED
    BY <1>2, <2>2, <2>3 DEF Values
<1>6. CASE EmptyReadTail(t)
  <2>1. left[t] \in Nat /\ left[t] > 0
    BY <1>6 DEF EmptyReadTail, Values
  <2>2. left' = [left EXCEPT ![t] = left[t] - 1] /\ left[t] - 1 \in 0 .. left[t]
    BY <1>6, <2>1 DEF EmptyReadTail
  <2>3. UNCHANGED <<slot, mask, answer, task>>
    BY <1>6 DEF EmptyReadTail, page_vars
  <2> QED
    BY <1>2, <2>2, <2>3 DEF Values
<1>7. CASE PushTurn(t) \/ PushLock(t) \/ LinkPage(t) \/ SetTailPage(t) \/ PushPage(t)
           \/ PushRelease(t)
  <2>1. UNCHANGED <<slot, mask, answer, left, task>>
    BY <1>7 DEF PushTurn, PushLock, LinkPage, SetTailPage, PushPage, PushRelease,
          page_vars, local_vars
  <2> QED
    BY <2>1 DEF Values
<1>8. CASE ReadHead(t) \/ LookEmpty(t) \/ LookFull(t) \/ ClaimWins(t) \/ ClaimLoses(t)
           \/ PopTurn(t) \/ AwaitItem(t) \/ PopPage(t) \/ TakeItem(t) \/ PopLock(t)
           \/ UnlinkPage(t) \/ ClearTailPage(t) \/ PopRelease(t)
  <2>1. UNCHANGED <<slot, mask, answer, left>> /\ (task' = task \/ \E x : task' = [task EXCEPT ![t] = x])
    BY <1>8 DEF ReadHead, LookEmpty, LookFull, ClaimWins, ClaimLoses, PopTurn, AwaitItem, PopPage,
          TakeItem, PopLock, UnlinkPage, ClearTailPage, PopRelease, page_vars, local_vars
  <2> QED
    BY <2>1 DEF Values
<1>9. CASE InEmpty(t)
  <2>1. UNCHANGED <<slot, mask, left, task>> /\ (answer' = answer \/ \E x : answer' = [answer EXCEPT ![t] = x])
    BY <1>9 DEF InEmpty, EmptyReadHead, EmptyAgain, page_vars, local_vars
  <2> QED
    BY <2>1 DEF Values
<1>10. CASE AllocatePage(t)
  <2>1. UNCHANGED <<slot, answer, left, task>>
    BY <1>10 DEF AllocatePage
  <2>2. Over(mask', Pages)
    BY <1>10 DEF AllocatePage, Values
  <2> QED
    BY <2>1, <2>2 DEF Values
<1> QED
  BY <1>3, <1>4, <1>5, <1>6, <1>7, <1>8, <1>9, <1>10 DEF Step, InPush, InPop

LEMMA StepChase ==
    ASSUME TurnInv, WayInv, Chase, NEW t \in Threads, Step(t)
    PROVE  Chase'
<1>1. /\ pc \in [Threads -> {"idle"} \cup PushSteps \cup PopSteps \cup EmptySteps]
      /\ ticket \in [Threads -> Nat] /\ rep_head \in Nat /\ rep_tail \in Nat
  BY DEF TurnInv, Ordered
<1>2. \A u \in Threads : u # t => pc'[u] = pc[u] /\ ticket'[u] = ticket[u]
  BY OthersStay DEF WayInv, Stays
<1>3. ASSUME UNCHANGED rep_vars,
             pc'[t] \in {"look", "claim"} => ticket'[t] <= rep_head,
             pc'[t] = "claim" => ticket'[t] < rep_tail
      PROVE  Chase'
  BY <1>2, <1>3 DEF Chase, rep_vars
<1>4. CASE PushTicket(t)
  <2>1. rep_head' = rep_head /\ rep_tail' = rep_tail + 1 /\ pc'[t] \notin {"look", "claim"}
    BY <1>1, <1>4 DEF PushTicket, Goto
  <2> QED
    BY <1>1, <1>2, <2>1 DEF Chase
<1>5. CASE ClaimWins(t)
  <2>1. /\ rep_head' = rep_head + 1 /\ rep_tail' = rep_tail /\ pc'[t] \notin {"look", "claim"}
        /\ rep_head < rep_tail
    BY <1>1, <1>5 DEF ClaimWins, Goto, Chase
  <2> QED
    BY <1>1, <1>2, <2>1 DEF Chase
<1>6. CASE InPush(t)
  BY <1>1, <1>3, <1>6 DEF InPush, AllocatePage, PushTurn, PushLock, LinkPage, SetTailPage,
        PushPage, FillSlot, PushRelease, Goto, Return, rep_vars
<1>7. CASE ReadHead(t) \/ LookEmpty(t) \/ LookFull(t) \/ ClaimLoses(t)
  BY <1>1, <1>3, <1>7 DEF ReadHead, LookEmpty, LookFull, ClaimLoses, Goto, Return, rep_vars,
        local_vars, Chase
<1>8. CASE PopTurn(t) \/ AwaitItem(t) \/ PopPage(t) \/ TakeItem(t) \/ PopLock(t)
           \/ UnlinkPage(t) \/ ClearTailPage(t) \/ PopRelease(t) \/ FreePage(t)
  BY <1>1, <1>3, <1>8 DEF PopTurn, AwaitItem, PopPage, TakeItem, PopLock, UnlinkPage,
        ClearTailPage, PopRelease, FreePage, Goto, Return, rep_vars, local_vars
<1>9. CASE EmptyReadTail(t) \/ InEmpty(t)
  BY <1>1, <1>3, <1>9 DEF EmptyReadTail, InEmpty, EmptyReadHead, EmptyAgain, Goto, Return, rep_vars
<1> QED
  BY <1>4, <1>5, <1>6, <1>7, <1>8, <1>9 DEF Step, InPop

\* The tickets that are given out, and the items that have them.
History ==
    /\ pushed \in Seq(Tasks)
    /\ Len(pushed) = rep_tail
    /\ \A t \in Threads : pc[t] \in PushSteps => task[t] = pushed[ticket[t] + 1]

LEMMA CountersMove ==
    ASSUME NEW t \in Threads, Step(t)
    PROVE  \/ PushTicket(t) /\ rep_head' = rep_head /\ rep_tail' = rep_tail + 1
           \/ ClaimWins(t) /\ rep_head' = rep_head + 1 /\ rep_tail' = rep_tail
           \/ ~PushTicket(t) /\ ~ClaimWins(t) /\ rep_head' = rep_head /\ rep_tail' = rep_tail
<1>1. CASE PushTicket(t)
  BY <1>1 DEF PushTicket
<1>2. CASE ClaimWins(t)
  BY <1>2 DEF ClaimWins
<1>3. CASE ~PushTicket(t) /\ ~ClaimWins(t)
  <2>1. CASE InPush(t)
    BY <1>3, <2>1 DEF InPush, AllocatePage, PushTurn, PushLock, LinkPage, SetTailPage, PushPage,
          FillSlot, PushRelease, rep_vars
  <2>2. CASE ReadHead(t) \/ InPop(t)
    BY <1>3, <2>2 DEF ReadHead, InPop, LookEmpty, LookFull, ClaimLoses, PopTurn, AwaitItem,
          PopPage, TakeItem, PopLock, UnlinkPage, ClearTailPage, PopRelease, FreePage, rep_vars
  <2>3. CASE EmptyReadTail(t) \/ InEmpty(t)
    BY <1>3, <2>3 DEF EmptyReadTail, InEmpty, EmptyReadHead, EmptyAgain, rep_vars
  <2> QED
    BY <1>3, <2>1, <2>2, <2>3 DEF Step
<1> QED
  BY <1>1, <1>2, <1>3

LEMMA PushObserved ==
    ASSUME TurnInv, Values, Observe, NEW t \in Pushers, PushTicket(t)
    PROVE  pushed' = Append(pushed, <<t, left[t]>>) /\ <<t, left[t]>> \in Tasks
<1>1. /\ left \in [Threads -> Nat] /\ t \in Threads /\ left[t] \in Nat /\ left[t] > 0
      /\ rep_tail \in Nat
  BY DEF PushTicket, Values, Threads, TurnInv, Ordered
<1>2. \A u \in Pushers : left'[u] # left[u] <=> u = t
  <2>1. left'[t] = left[t] - 1 /\ left[t] - 1 # left[t]
    BY <1>1 DEF PushTicket
  <2>2. \A u \in Pushers : u # t => left'[u] = left[u]
    BY <1>1 DEF PushTicket, Threads
  <2> QED
    BY <2>1, <2>2
<1>3. (CHOOSE u \in Pushers : left'[u] # left[u]) = t
  BY <1>2
<1>4. task'[t] = <<t, left[t]>>
  BY <1>1 DEF PushTicket, Values, Over
<1>5. rep_tail' # rep_tail
  BY <1>1 DEF PushTicket
<1>6. <<t, left[t]>> \in Tasks
  <2>1. PICK quota \in Quotas : \A u \in Threads : left[u] <= quota[u]
    BY DEF Values
  <2>2. left[t] \in 1 .. quota[t]
    BY <1>1, <2>1, ThreadAssumption
  <2> DEFINE of == {t} \X (1 .. quota[t])
  <2>3. <<t, left[t]>> \in of
    BY <2>2
  <2>4. of \in {{u} \X (1 .. q[u]) : u \in Pushers, q \in Quotas}
    OBVIOUS
  <2> HIDE DEF of
  <2>5. <<t, left[t]>> \in UNION {{u} \X (1 .. q[u]) : u \in Pushers, q \in Quotas}
    BY <2>3, <2>4
  <2> QED
    BY <2>5 DEF Tasks
<1> QED
  BY <1>3, <1>4, <1>5, <1>6 DEF Observe

LEMMA OtherObserved ==
    ASSUME Observe, NEW t \in Threads, Step(t), ~PushTicket(t)
    PROVE  pushed' = pushed
  BY CountersMove DEF Observe

\* Only push writes the item of a push.
LEMMA TasksStay ==
    ASSUME TurnInv, Values, NEW t \in Threads, Step(t)
    PROVE  /\ \A u \in Threads : u # t => task'[u] = task[u]
           /\ pc'[t] \in PushSteps /\ ~PushTicket(t) =>
                 pc[t] \in PushSteps /\ task'[t] = task[t] /\ ticket'[t] = ticket[t]
<1> USE DEF Over
<1>1. /\ pc \in [Threads -> {"idle"} \cup PushSteps \cup PopSteps \cup EmptySteps]
      /\ Over(task, Threads)
  BY DEF TurnInv, Values
<1>2. CASE PushTicket(t)
  BY <1>1, <1>2 DEF PushTicket
<1>3. CASE InPush(t)
  BY <1>1, <1>3 DEF InPush, AllocatePage, PushTurn, PushLock, LinkPage, SetTailPage, PushPage,
        FillSlot, PushRelease, Goto, Return, local_vars, PushSteps
<1>4. CASE ReadHead(t) \/ InPop(t)
  BY <1>1, <1>4 DEF ReadHead, InPop, LookEmpty, LookFull, ClaimWins, ClaimLoses, PopTurn,
        AwaitItem, PopPage, TakeItem, PopLock, UnlinkPage, ClearTailPage, PopRelease, FreePage,
        Goto, Return, local_vars, PushSteps
<1>5. CASE EmptyReadTail(t) \/ InEmpty(t)
  BY <1>1, <1>5 DEF EmptyReadTail, InEmpty, EmptyReadHead, EmptyAgain, Goto, Return, local_vars,
        PushSteps
<1> QED
  BY <1>2, <1>3, <1>4, <1>5 DEF Step

LEMMA StepHistory ==
    ASSUME TurnInv, WayInv, Values, History, Observe, NEW t \in Threads, Step(t),
           PushTicket(t) => t \in Pushers
    PROVE  History'
<1>1. /\ ticket \in [Threads -> Nat] /\ rep_tail \in Nat
      /\ \A u \in Threads : pc[u] \in PushSteps => ticket[u] < rep_tail
  BY DEF TurnInv, Ordered, Pushing
<1>2. \A u \in Threads : u # t => pc'[u] = pc[u] /\ ticket'[u] = ticket[u] /\ task'[u] = task[u]
  BY OthersStay, TasksStay DEF WayInv, Stays
<1>3. CASE PushTicket(t)
  <2>1. /\ pushed' = Append(pushed, <<t, left[t]>>) /\ <<t, left[t]>> \in Tasks
        /\ rep_tail' = rep_tail + 1
    BY <1>3, PushObserved DEF PushTicket
  <2>2. /\ pushed' \in Seq(Tasks) /\ Len(pushed') = rep_tail'
        /\ pushed'[rep_tail + 1] = <<t, left[t]>>
        /\ \A i \in 1 .. rep_tail : pushed'[i] = pushed[i]
    BY <1>1, <2>1 DEF History
  <2>3. task'[t] = <<t, left[t]>> /\ ticket'[t] = rep_tail
    BY <1>1, <1>3 DEF PushTicket, Values, Over
  <2>4. ASSUME NEW u \in Threads, pc'[u] \in PushSteps PROVE task'[u] = pushed'[ticket'[u] + 1]
    <3>1. CASE u = t
      BY <2>2, <2>3, <3>1
    <3>2. CASE u # t
      <4>1. ticket[u] \in Nat /\ ticket[u] < rep_tail /\ task[u] = pushed[ticket[u] + 1]
        BY <1>1, <1>2, <2>4, <3>2 DEF History
      <4>2. ticket[u] + 1 \in 1 .. rep_tail
        BY <1>1, <4>1
      <4> QED
        BY <1>2, <2>2, <3>2, <4>1, <4>2
    <3> QED
      BY <3>1, <3>2
  <2> QED
    BY <2>2, <2>4 DEF History
<1>4. CASE ~PushTicket(t)
  <2>1. pushed' = pushed /\ rep_tail' = rep_tail
    BY <1>4, OtherObserved, CountersMove
  <2>2. pc'[t] \in PushSteps => pc[t] \in PushSteps /\ task'[t] = task[t] /\ ticket'[t] = ticket[t]
    BY <1>4, TasksStay
  <2> QED
    BY <1>2, <2>1, <2>2 DEF History
<1> QED
  BY <1>3, <1>4

\* A step of a thread is a step of its role.
LEMMA NextIsRoleStep ==
    ASSUME Next
    PROVE  \E t \in Threads :
              \/ t \in Pushers /\ (PushTicket(t) \/ InPush(t))
              \/ t \in Poppers /\ (ReadHead(t) \/ InPop(t))
              \/ t \in Observers /\ (EmptyReadTail(t) \/ InEmpty(t))
  BY DEF Next, Threads

\* What a thread in empty() has missed nothing of: the queue as it is now, a
\* push since it read tail_counter, and what its read of head_counter showed.
WatchOf(t) ==
    IF pc[t] = "idle" THEN moments[t] = {}
    ELSE /\ moments[t] \subseteq BOOLEAN
         /\ (rep_head = rep_tail) \in moments[t]
         /\ ticket[t] <= rep_tail
         /\ ticket[t] < rep_tail => FALSE \in moments[t]
         /\ pc[t] = "empty_differs" => FALSE \in moments[t]
         /\ pc[t] = "empty_same" /\ ticket[t] = rep_tail => TRUE \in moments[t]

Watch == Over(moments, Observers) /\ \A t \in Observers : WatchOf(t)

LEMMA StepWatch ==
    ASSUME TurnInv, TurnInv', WayInv, Chase, Chase', Watch, Observe, NEW t \in Threads, Step(t),
           t \in Observers => EmptyReadTail(t) \/ InEmpty(t)
    PROVE  Watch'
<1>1. PICK e : e = (rep_head' = rep_tail')
  OBVIOUS
<1>2. /\ e \in BOOLEAN
      /\ rep_head' = rep_tail' => e = TRUE
      /\ rep_head' # rep_tail' => e = FALSE
  BY <1>1, Zenon
<1>3. moments' = [u \in Observers |-> IF pc'[u] # "idle" THEN moments[u] \cup {e} ELSE {}]
  BY <1>1 DEF Observe, InEmptyCall
<1>4. /\ rep_head \in Nat /\ rep_tail \in Nat /\ rep_head' \in Nat /\ rep_tail' \in Nat
      /\ ticket \in [Threads -> Nat] /\ rep_head <= rep_tail /\ rep_head' <= rep_tail'
      /\ pc \in [Threads -> {"idle"} \cup PushSteps \cup PopSteps \cup EmptySteps]
  BY DEF TurnInv, Ordered, Chase
<1>5. rep_tail' = rep_tail \/ (rep_tail' = rep_tail + 1 /\ rep_head' = rep_head)
  BY CountersMove
<1>6. ASSUME NEW u \in Observers, u # t PROVE WatchOf(u)'
  <2>1. u \in Threads /\ pc'[u] = pc[u] /\ ticket'[u] = ticket[u]
    BY <1>6, OthersStay DEF WayInv, Stays, Threads
  <2>2. CASE pc[u] = "idle"
    BY <1>3, <2>1, <2>2 DEF WatchOf
  <2>3. CASE pc[u] # "idle"
    <3>1. WatchOf(u)
      BY DEF Watch
    <3>2. /\ ticket[u] <= rep_tail'
          /\ ticket[u] < rep_tail' => ticket[u] < rep_tail \/ rep_head' # rep_tail'
          /\ ticket[u] = rep_tail' => ticket[u] = rep_tail
      <4>1. ticket[u] \in Nat /\ ticket[u] <= rep_tail
        BY <1>4, <2>1, <2>3, <3>1 DEF WatchOf
      <4> QED
        BY <1>4, <1>5, <4>1
    <3>3. moments'[u] = moments[u] \cup {e}
      BY <1>3, <2>1, <2>3
    <3>4. ticket[u] < rep_tail' => FALSE \in moments'[u]
      BY <1>2, <2>3, <3>1, <3>2, <3>3, Zenon DEF WatchOf
    <3>5. /\ moments'[u] \subseteq BOOLEAN /\ e \in moments'[u]
          /\ pc[u] = "empty_differs" => FALSE \in moments'[u]
          /\ pc[u] = "empty_same" /\ ticket[u] = rep_tail' => TRUE \in moments'[u]
      BY <1>2, <2>3, <3>1, <3>2, <3>3, Zenon DEF WatchOf
    <3> QED
      BY <1>1, <2>1, <2>3, <3>2, <3>4, <3>5, Zenon DEF WatchOf
  <2> QED
    BY <2>2, <2>3
<1>7. ASSUME t \in Observers, EmptyReadTail(t) PROVE WatchOf(t)'
  <2>1. /\ moments[t] = {} /\ pc'[t] = "empty_head" /\ ticket'[t] = rep_tail /\ rep_tail' = rep_tail
    BY <1>4, <1>7 DEF EmptyReadTail, Goto, Watch, WatchOf, rep_vars
  <2>2. moments'[t] = {e}
    BY <1>3, <1>7, <2>1
  <2>3. ticket'[t] <= rep_tail' /\ ~(ticket'[t] < rep_tail')
    BY <1>4, <2>1
  <2> QED
    BY <1>1, <1>2, <2>1, <2>2, <2>3 DEF WatchOf
<1>8. ASSUME t \in Observers, EmptyReadHead(t) PROVE WatchOf(t)'
  <2>1. /\ pc[t] = "empty_head" /\ ticket' = ticket /\ UNCHANGED rep_vars
        /\ pc'[t] = IF ticket[t] = rep_head THEN "empty_same" ELSE "empty_differs"
    BY <1>4, <1>8 DEF EmptyReadHead, Goto, local_vars
  <2>2. moments'[t] = moments[t] \cup {e} /\ WatchOf(t)
    BY <1>3, <1>8, <2>1 DEF Watch
  <2>3. /\ ticket[t] \in Nat /\ ticket[t] <= rep_tail
        /\ ticket[t] = rep_head /\ ticket[t] = rep_tail => rep_head' = rep_tail'
        /\ ticket[t] # rep_head /\ ~(ticket[t] < rep_tail) => rep_head' # rep_tail'
    BY <1>4, <2>1, <2>2 DEF WatchOf, rep_vars
  <2>4. /\ moments'[t] \subseteq BOOLEAN /\ e \in moments'[t]
        /\ ticket[t] < rep_tail => FALSE \in moments'[t]
        /\ ticket[t] # rep_head => FALSE \in moments'[t]
        /\ ticket[t] = rep_head /\ ticket[t] = rep_tail => TRUE \in moments'[t]
    <3>1. /\ moments[t] \subseteq BOOLEAN
          /\ ticket[t] < rep_tail => FALSE \in moments[t]
      BY <2>1, <2>2 DEF WatchOf
    <3> QED
      BY <1>2, <2>2, <2>3, <3>1, Zenon
  <2>5. CASE ticket[t] = rep_head
    BY <1>1, <2>1, <2>3, <2>4, <2>5 DEF WatchOf, rep_vars
  <2>6. CASE ticket[t] # rep_head
    BY <1>1, <2>1, <2>3, <2>4, <2>6 DEF WatchOf, rep_vars
  <2> QED
    BY <2>5, <2>6
<1>9. ASSUME t \in Observers, EmptyAgain(t) PROVE WatchOf(t)'
  <2>1. pc'[t] = "idle"
    BY <1>4, <1>9 DEF EmptyAgain, Return, Goto
  <2> QED
    BY <1>3, <1>9, <2>1 DEF WatchOf
<1> QED
  BY <1>3, <1>6, <1>7, <1>8, <1>9 DEF Watch, Over, InEmpty

-----------------------------------------------------------------------------
(* The items: a ticket whose push is done, or will have nothing left to do *)
(* but to move the counter, has its item in its slot.                      *)

Filled(j) ==
    \/ Turn(j) < tail_counter[Micro(j)]
    \/ \E t \in Threads : pc[t] = "push_release" /\ ticket[t] = j

Stored(lo, hi, pg) ==
    \A j \in Nat : Filled(j) /\ PageNo(j) \in Live(lo, hi, Micro(j)) =>
        /\ slot[pg[Micro(j)][PageNo(j)]][Index(j)] = pushed[j + 1]
        /\ Index(j) \in mask[pg[Micro(j)][PageNo(j)]]

LEMMA SamePlace ==
    ASSUME NEW j \in Nat, NEW k \in Nat, Micro(j) = Micro(k), PageNo(j) = PageNo(k),
           Index(j) = Index(k)
    PROVE  j = k
<1>1. j \div NQueue = k \div NQueue
  BY PageFacts
<1>2. /\ j \div NQueue \in Nat /\ k \div NQueue \in Nat
      /\ j % NQueue \in 0 .. NQueue - 1 /\ k % NQueue \in 0 .. NQueue - 1
      /\ j = NQueue * (j \div NQueue) + (j % NQueue)
      /\ k = NQueue * (k \div NQueue) + (k % NQueue)
  BY Division, LayoutAssumption
<1>3. NQueue * (j \div NQueue) \in Nat
  BY <1>2, LayoutAssumption
<1>4. Turn(j) = Turn(k)
  BY <1>1, <1>2, <1>3 DEF Turn
<1> QED
  BY <1>4, OneTicketPerTurn

LEMMA FilledGiven ==
    ASSUME TurnInv, NEW j \in Nat, Filled(j)
    PROVE  j < rep_tail
<1>1. rep_tail \in Nat /\ Turn(j) \in Nat /\ tail_counter[Micro(j)] \in Nat
  BY TurnFacts DEF TurnInv, Ordered
<1>2. CASE Turn(j) < tail_counter[Micro(j)]
  BY <1>1, <1>2 DEF TurnInv, Ordered
<1>3. CASE \E t \in Threads : pc[t] = "push_release" /\ ticket[t] = j
  BY <1>3 DEF TurnInv, Ordered, Pushing, PushSteps
<1> QED
  BY <1>2, <1>3 DEF Filled

LEMMA FilledMoves ==
    ASSUME TurnInv, WayInv, NEW t \in Threads, Step(t), NEW j \in Nat, Filled(j)'
    PROVE  Filled(j) \/ (FillSlot(t) /\ j = ticket[t])
<1>1. /\ pc \in [Threads -> {"idle"} \cup PushSteps \cup PopSteps \cup EmptySteps]
      /\ ticket \in [Threads -> Nat] /\ ticket[t] \in Nat /\ At(t) \in MicroQueues
      /\ tail_counter \in [MicroQueues -> Nat]
      /\ Micro(j) \in MicroQueues /\ Turn(j) \in Nat
  BY TurnFacts DEF TurnInv, Ordered, At
<1>2. \A u \in Threads : u # t => pc'[u] = pc[u] /\ ticket'[u] = ticket[u]
  BY OthersStay DEF WayInv, Stays
<1>3. ASSUME UNCHANGED tail_counter, pc'[t] # "push_release" PROVE Filled(j)
  BY <1>2, <1>3 DEF Filled
<1>4. CASE FillSlot(t)
  <2>1. UNCHANGED tail_counter /\ ticket' = ticket
    BY <1>4 DEF FillSlot, counter_vars, local_vars
  <2> QED
    BY <1>2, <1>4, <2>1 DEF Filled
<1>5. CASE PushRelease(t)
  <2>1. /\ pc[t] = "push_release" /\ pc'[t] = "idle" /\ t \in PushInside
        /\ tail_counter' = [tail_counter EXCEPT ![At(t)] = @ + NQueue]
    BY <1>1, <1>5 DEF PushRelease, Return, Goto, PushInside, PushSections
  <2>2. tail_counter[At(t)] = Turn(ticket[t])
    BY <2>1, PlaceFacts
  <2>3. CASE \E u \in Threads : pc'[u] = "push_release" /\ ticket'[u] = j
    BY <1>2, <2>1, <2>3 DEF Filled
  <2>4. CASE Turn(j) < tail_counter'[Micro(j)] /\ Micro(j) # At(t)
    BY <1>1, <2>1, <2>4 DEF Filled
  <2>5. CASE Turn(j) < tail_counter'[Micro(j)] /\ Micro(j) = At(t)
    <3>1. tail_counter'[Micro(j)] = Turn(ticket[t]) + NQueue
      BY <1>1, <2>1, <2>2, <2>5
    <3>2. Turn(ticket[t]) \in Nat /\ NQueue \in Nat
      BY <1>1, TurnFacts, LayoutAssumption
    <3>3. ~(Turn(ticket[t]) < Turn(j))
      <4>1. Turn(ticket[t]) < Turn(j) => Turn(ticket[t]) + NQueue <= Turn(j)
        BY <1>1, TurnGap
      <4> QED
        BY <1>1, <2>5, <3>1, <3>2, <4>1
    <3>4. CASE Turn(j) = Turn(ticket[t])
      <4>1. j = ticket[t]
        BY <1>1, <2>5, <3>4, OneTicketPerTurn DEF At
      <4> QED
        BY <2>1, <4>1 DEF Filled
    <3>5. CASE Turn(j) < Turn(ticket[t])
      BY <2>2, <2>5, <3>5 DEF Filled
    <3> QED
      BY <1>1, <3>2, <3>3, <3>4, <3>5
  <2> QED
    BY <2>3, <2>4, <2>5 DEF Filled
<1>6. CASE PushTicket(t) \/ AllocatePage(t) \/ PushTurn(t) \/ PushLock(t) \/ LinkPage(t)
           \/ SetTailPage(t) \/ PushPage(t)
  BY <1>1, <1>3, <1>6 DEF PushTicket, AllocatePage, PushTurn, PushLock, LinkPage, SetTailPage,
        PushPage, Goto, counter_vars
<1>7. CASE ReadHead(t) \/ InPop(t)
  BY <1>1, <1>3, <1>7 DEF ReadHead, InPop, LookEmpty, LookFull, ClaimWins, ClaimLoses, PopTurn,
        AwaitItem, PopPage, TakeItem, PopLock, UnlinkPage, ClearTailPage, PopRelease, FreePage,
        Goto, Return, counter_vars
<1>8. CASE EmptyReadTail(t) \/ InEmpty(t)
  BY <1>1, <1>3, <1>8 DEF EmptyReadTail, InEmpty, EmptyReadHead, EmptyAgain, Goto, Return,
        counter_vars
<1> QED
  BY <1>4, <1>5, <1>6, <1>7, <1>8 DEF Step, InPush

\* The page that a push fills, links, or a pop reads, by its number.
LEMMA PageAtHand ==
    ASSUME TurnInv, WayInv, NEW t \in Threads, NEW lo, NEW hi, lo = Los, hi = His,
           NEW m, m = At(t)
    PROVE  /\ pc[t] = "fill" => hi[m] = PageNo(ticket[t]) + 1
           /\ pc[t] = "link" => hi[m] = PageNo(ticket[t])
           /\ pc[t] = "take" => lo[m] = PageNo(ticket[t])
<1>1. ticket[t] \in Nat /\ At(t) \in MicroQueues /\ WayOf(t)
  BY PlaceFacts DEF WayInv
<1>2. lo[m] = Lo(m) /\ hi[m] = Hi(m)
  BY <1>1 DEF Los, His
<1>3. /\ PageNo(ticket[t]) \in Nat
      /\ PageOf(Turn(ticket[t])) = PageNo(ticket[t])
      /\ PageUp(Turn(ticket[t])) =
            IF Index(ticket[t]) = 0 THEN PageNo(ticket[t]) ELSE PageNo(ticket[t]) + 1
  BY <1>1, PageFacts
<1>4. ASSUME pc[t] \in {"fill", "link"}
      PROVE  /\ tail_counter[m] = Turn(ticket[t])
             /\ LinkedAt(m) <=> Linked(t)
  <2>1. t \in PushInside
    BY <1>4 DEF PushInside, PushSections
  <2>2. ASSUME NEW u \in Threads, Linked(u), At(u) = m PROVE u = t
    <3>1. u \in PushInside
      BY <2>2 DEF Linked, PushInside, PushSections
    <3> QED
      BY <2>1, <2>2, <3>1, OrderedApart DEF TurnInv, At
  <2> QED
    BY <2>1, <2>2, PlaceFacts DEF LinkedAt
<1>5. ASSUME pc[t] = "take"
      PROVE  /\ head_counter[m] = Turn(ticket[t])
             /\ ~PassedAt(m)
  <2>1. t \in PopInside
    BY <1>5 DEF PopInside, PopSections
  <2>2. ASSUME NEW u \in Threads, Passed(u), At(u) = m PROVE FALSE
    <3>1. u \in PopInside /\ u # t
      BY <1>5, <2>2 DEF Passed, PopInside, PopSections
    <3> QED
      BY <2>1, <2>2, <3>1, OrderedApart DEF TurnInv, At
  <2> QED
    BY <2>1, <2>2, PlaceFacts DEF PassedAt
<1>6. CASE pc[t] = "fill"
  BY <1>2, <1>3, <1>4, <1>6 DEF Hi, Linked
<1>7. CASE pc[t] = "link"
  BY <1>1, <1>2, <1>3, <1>4, <1>7 DEF Hi, Linked, WayOf
<1>8. CASE pc[t] = "take"
  BY <1>2, <1>3, <1>5, <1>8 DEF Lo
<1> QED
  BY <1>6, <1>7, <1>8

LEMMA PushedStays ==
    ASSUME TurnInv, Values, History, Observe, NEW t \in Threads, Step(t),
           PushTicket(t) => t \in Pushers, NEW j \in Nat, j < rep_tail
    PROVE  pushed'[j + 1] = pushed[j + 1]
<1>1. rep_tail \in Nat
  BY DEF TurnInv, Ordered
<1>2. CASE PushTicket(t)
  <2>1. pushed' = Append(pushed, <<t, left[t]>>)
    BY <1>2, PushObserved
  <2>2. j + 1 \in 1 .. Len(pushed)
    BY <1>1 DEF History
  <2> QED
    BY <2>1, <2>2 DEF History
<1>3. CASE ~PushTicket(t)
  BY <1>3, OtherObserved
<1> QED
  BY <1>2, <1>3

\* A step that leaves alone the slots of the tickets that are filled.
LEMMA SlotsStay ==
    ASSUME TurnInv, WayInv, Values, NEW t \in Threads, Step(t), ~FillSlot(t),
           NEW p, p \in allocated, FreePage(t) => p # mine[t]
    PROVE  slot'[p] = slot[p] /\ mask'[p] = mask[p]
<1>1. p \in Pages
  BY DEF WayInv, TypeOK
<1>2. CASE FreePage(t)
  BY <1>1, <1>2 DEF FreePage, Values, Over
<1>3. CASE AllocatePage(t)
  BY <1>1, <1>3 DEF AllocatePage, Values, Over
<1>4. CASE ~FreePage(t) /\ ~AllocatePage(t)
  BY <1>4 DEF Step, InPush, PushTicket, PushTurn, PushLock, LinkPage, SetTailPage,
        PushPage, PushRelease, ReadHead, InPop, LookEmpty, LookFull, ClaimWins, ClaimLoses,
        PopTurn, AwaitItem, PopPage, TakeItem, PopLock, UnlinkPage, ClearTailPage, PopRelease,
        EmptyReadTail, InEmpty, EmptyReadHead, EmptyAgain, page_vars
<1> QED
  BY <1>2, <1>3, <1>4

LEMMA FillStored ==
    ASSUME TurnInv, WayInv, Values, History, Observe, NEW t \in Threads, Step(t), FillSlot(t),
           NEW lo, NEW hi, lo = Los, hi = His, NEW pg \in Placements, Lists(lo, hi, pg),
           Stored(lo, hi, pg)
    PROVE  Stored(lo, hi, pg)'
<1>1. PICK m, k, p : m = At(t) /\ k = ticket[t] /\ p = mine[t]
  OBVIOUS
<1>2. k \in Nat /\ m = Micro(k) /\ m \in MicroQueues /\ pc[t] = "fill"
  BY <1>1, PlaceFacts DEF At, FillSlot
<1>3. Bounded(lo, hi) /\ lo \in Numbers /\ hi \in Numbers
  BY BoundedHolds DEF Bounded
<1>4. hi[m] = PageNo(k) + 1 /\ lo[m] < hi[m]
  <2>1. pc[t] = "fill" => hi[m] = PageNo(ticket[t]) + 1
    BY <1>1, PageAtHand
  <2>2. lo[m] < hi[m]
    BY <1>1, <1>2, <1>3 DEF Bounded, OnTail
  <2> QED
    BY <1>1, <1>2, <2>1, <2>2
<1>5. PageNo(k) \in Nat /\ Index(k) \in 0 .. ItemsPerPage - 1
  BY <1>2, PageFacts
<1>6. hi[m] - 1 = PageNo(k)
  BY <1>4, <1>5
<1>7. /\ PageNo(k) \in Live(lo, hi, m)
      /\ p = pg[m][PageNo(k)] /\ p \in allocated
  <2>1. p = LastPage(lo, hi, pg, m)
    BY <1>1, <1>2 DEF Lists, Knows
  <2> QED
    BY <1>2, <1>3, <1>4, <1>6, <2>1, LiveEnds
<1>8. p \in Pages /\ allocated \subseteq Pages
  BY <1>7 DEF WayInv, TypeOK
<1>9. /\ slot' = [slot EXCEPT ![p][Index(k)] = task[t]] /\ pushed' = pushed
      /\ mask' = [mask EXCEPT ![p] = @ \cup {Index(k)}]
  <2>1. ~PushTicket(t)
    BY DEF FillSlot, PushTicket
  <2> QED
    BY <1>1, <2>1, OtherObserved DEF FillSlot
<1>10. task[t] = pushed[k + 1]
  BY <1>1, <1>2 DEF History, PushSteps
<1>11. ASSUME NEW j \in Nat, Filled(j)', PageNo(j) \in Live(lo, hi, Micro(j))
       PROVE  /\ slot'[pg[Micro(j)][PageNo(j)]][Index(j)] = pushed[j + 1]
              /\ Index(j) \in mask'[pg[Micro(j)][PageNo(j)]]
  <2>1. Micro(j) \in MicroQueues /\ Index(j) \in 0 .. ItemsPerPage - 1
    BY TurnFacts, PageFacts
  <2>2. CASE j = k
    BY <1>2, <1>5, <1>7, <1>8, <1>9, <1>10, <2>2 DEF Values, Over
  <2>3. CASE j # k
    <3>1. Filled(j)
      BY <1>1, <1>11, <2>3, FilledMoves
    <3>2. PICK q : q = pg[Micro(j)][PageNo(j)]
      OBVIOUS
    <3>3. q \in Pages /\ slot[q][Index(j)] = pushed[j + 1] /\ Index(j) \in mask[q]
      BY <1>8, <1>11, <2>1, <3>1, <3>2 DEF Stored, Lists, Chain
    <3>4. ~(q = p /\ Index(j) = Index(k))
      <4>1. q = p => Micro(j) = m /\ PageNo(j) = PageNo(k)
        <5>1. PICK n, i, h : n = Micro(j) /\ i = PageNo(j) /\ h = PageNo(k)
          OBVIOUS
        <5>2. i \in Live(lo, hi, n) /\ h \in Live(lo, hi, m) /\ q = pg[n][i] /\ p = pg[m][h]
          BY <1>7, <1>11, <3>2, <5>1
        <5>3. Distinct(lo, hi, pg) /\ n \in MicroQueues
          BY <2>1, <5>1 DEF Lists
        <5>4. \A i2 \in Live(lo, hi, n), h2 \in Live(lo, hi, m) :
                 pg[n][i2] = pg[m][h2] => n = m /\ i2 = h2
          BY <1>2, <5>3 DEF Distinct
        <5>5. q = p => n = m /\ i = h
          BY <5>2, <5>4
        <5> QED
          BY <5>1, <5>5
      <4> QED
        BY <1>2, <2>3, <4>1, SamePlace
    <3>5. slot'[q][Index(j)] = slot[q][Index(j)]
      BY <1>5, <1>8, <1>9, <2>1, <3>3, <3>4 DEF Values, Over
    <3>6. Index(j) \in mask'[q]
      BY <1>8, <1>9, <3>3 DEF Values, Over
    <3> QED
      BY <3>2, <3>3, <3>5, <3>6
  <2> QED
    BY <2>2, <2>3
<1> QED
  BY <1>9, <1>11 DEF Stored

LEMMA StepStored ==
    ASSUME TurnInv, WayInv, Values, History, Observe, NEW t \in Threads, Step(t),
           PushTicket(t) => t \in Pushers,
           NEW lo, NEW hi, lo = Los, hi = His, NEW pg \in Placements, Lists(lo, hi, pg),
           Stored(lo, hi, pg),
           NEW m, NEW p, NEW lo2, NEW hi2, NEW pg2, m = At(t), p = mine[t],
           NextLists(t, lo, hi, pg, m, p, lo2, hi2, pg2)
    PROVE  Stored(lo2, hi2, pg2)'
<1>1. Bounded(lo, hi) /\ lo \in Numbers /\ hi \in Numbers /\ m \in MicroQueues
  BY BoundedHolds, PlaceFacts DEF Bounded
<1>2. CASE FillSlot(t)
  <2>1. lo2 = lo /\ hi2 = hi /\ pg2 = pg
    BY <1>2 DEF NextLists, LinkPage, UnlinkPage, FillSlot
  <2> QED
    BY <1>2, <2>1, FillStored
<1>3. CASE ~FillSlot(t)
  <2> SUFFICES ASSUME NEW j \in Nat, Filled(j)', PageNo(j) \in Live(lo2, hi2, Micro(j))
               PROVE  /\ slot'[pg2[Micro(j)][PageNo(j)]][Index(j)] = pushed'[j + 1]
                      /\ Index(j) \in mask'[pg2[Micro(j)][PageNo(j)]]
    BY DEF Stored
  <2>1. Filled(j)
    BY <1>3, FilledMoves
  <2>2. Micro(j) \in MicroQueues /\ PageNo(j) \in Nat
    BY TurnFacts, PageFacts
  <2>3. /\ PageNo(j) \in Live(lo, hi, Micro(j))
        /\ pg2[Micro(j)][PageNo(j)] = pg[Micro(j)][PageNo(j)]
    <3>1. CASE LinkPage(t)
      <4>1. /\ pc[t] = "link" /\ t \in PushInside
            /\ lo2 = lo /\ hi2 = [hi EXCEPT ![m] = @ + 1]
            /\ pg2 = [pg EXCEPT ![m] = [@ EXCEPT ![hi[m]] = p]]
        BY <3>1 DEF NextLists, LinkPage, UnlinkPage, PushInside, PushSections
      <4>2. CASE Micro(j) # m
        BY <1>1, <2>2, <4>1, <4>2 DEF Live, Numbers, Placements
      <4>3. CASE Micro(j) = m
        <5>1. PICK k : k = ticket[t] /\ k \in Nat /\ Micro(k) = m
          BY PlaceFacts DEF At
        <5>2. hi[m] = PageNo(k) /\ Index(k) = 0
          BY <4>1, <5>1, PageAtHand DEF WayInv, WayOf
        <5>3. tail_counter[m] = Turn(k)
          BY <4>1, <5>1, PlaceFacts
        <5>4. Turn(j) < Turn(k)
          <6>1. ASSUME NEW u \in Threads, pc[u] = "push_release", ticket[u] = j PROVE FALSE
            <7>1. u \in PushInside /\ u # t
              BY <4>1, <6>1 DEF PushInside, PushSections
            <7> QED
              BY <4>1, <4>3, <6>1, <7>1, OrderedApart DEF TurnInv, At
          <6> QED
            BY <2>1, <4>3, <5>3, <6>1 DEF Filled
        <5>5. PageNo(j) + 1 <= PageNo(k)
          <6>1. Turn(j) + NQueue <= Turn(k)
            BY <5>1, <5>4, TurnGap
          <6>2. Turn(j) + NQueue \in Nat /\ Turn(k) \in Nat
            <7>1. Turn(j) \in Nat /\ Turn(k) \in Nat
              BY <5>1, TurnFacts
            <7> QED
              BY <7>1, LayoutAssumption
          <6>3. PageUp(Turn(j) + NQueue) <= PageUp(Turn(k))
            BY <6>1, <6>2, PagesGrow
          <6> QED
            BY <5>1, <5>2, <6>3, PageFacts
        <5>6. PageNo(j) < hi[m] /\ hi[m] \in Nat /\ lo[m] \in Nat
          BY <1>1, <2>2, <5>2, <5>5 DEF Numbers
        <5>7. PageNo(j) \in Live(lo, hi, m)
          BY <2>2, <4>1, <4>3, <5>6 DEF Live
        <5>8. pg2[m][PageNo(j)] = pg[m][PageNo(j)]
          <6>1. pg[m] \in [Nat -> AnyPage] /\ pg \in [MicroQueues -> [Nat -> AnyPage]]
            BY <1>1 DEF Placements
          <6>2. pg2[m] = [pg[m] EXCEPT ![hi[m]] = p]
            BY <1>1, <4>1, <6>1
          <6> QED
            BY <2>2, <5>6, <6>1, <6>2
        <5> QED
          BY <4>3, <5>7, <5>8
      <4> QED
        BY <4>2, <4>3
    <3>2. CASE UnlinkPage(t)
      BY <1>1, <2>2, <3>2 DEF NextLists, LinkPage, UnlinkPage, Live, Numbers
    <3>3. CASE ~LinkPage(t) /\ ~UnlinkPage(t)
      BY <3>3 DEF NextLists
    <3> QED
      BY <3>1, <3>2, <3>3
  <2>4. PICK q : q = pg[Micro(j)][PageNo(j)]
    OBVIOUS
  <2>5. q \in allocated /\ slot[q][Index(j)] = pushed[j + 1] /\ Index(j) \in mask[q]
    BY <2>1, <2>2, <2>3, <2>4 DEF Stored, Lists, Chain
  <2>6. FreePage(t) => q # mine[t]
    BY <2>2, <2>3, <2>4 DEF FreePage, Lists, Owned, Private
  <2>7. slot'[q] = slot[q] /\ mask'[q] = mask[q]
    BY <1>3, <2>5, <2>6, SlotsStay
  <2>8. pushed'[j + 1] = pushed[j + 1]
    BY <2>1, FilledGiven, PushedStays
  <2> QED
    BY <2>3, <2>4, <2>5, <2>7, <2>8
<1> QED
  BY <1>2, <1>3

\* The item that a pop copies is the one that was pushed with its ticket.
LEMMA TakesItsItem ==
    ASSUME TurnInv, WayInv, NEW lo, NEW hi, lo = Los, hi = His, NEW pg \in Placements,
           Lists(lo, hi, pg), Stored(lo, hi, pg), NEW t \in Threads, pc[t] = "take"
    PROVE  slot[mine[t]][Index(ticket[t])] = pushed[ticket[t] + 1]
<1>1. PICK m, k : m = At(t) /\ k = ticket[t]
  OBVIOUS
<1>2. k \in Nat /\ m = Micro(k) /\ m \in MicroQueues
  BY <1>1, PlaceFacts DEF At
<1>3. Bounded(lo, hi)
  BY BoundedHolds
<1>4. lo[m] = PageNo(k) /\ lo[m] < hi[m]
  BY <1>1, <1>3, PageAtHand DEF Bounded, OnHead
<1>5. PageNo(k) \in Live(lo, hi, m) /\ mine[t] = pg[m][PageNo(k)]
  <2>1. mine[t] = FirstPage(lo, hi, pg, m)
    BY <1>1 DEF Lists, Knows
  <2> QED
    BY <1>2, <1>3, <1>4, <2>1, LiveEnds
<1>6. Filled(k)
  BY <1>1, <1>2 DEF TurnInv, ItemDone, PopSections, Filled, At
<1> QED
  BY <1>1, <1>2, <1>5, <1>6 DEF Stored

-----------------------------------------------------------------------------
(* The refinement *)

\* The sequence from index i + 1 on: what an Append adds and a Tail takes.
LEMMA Suffix ==
    ASSUME NEW S, NEW s \in Seq(S), NEW i \in Nat, i <= Len(s)
    PROVE  /\ SubSeq(s, i + 1, Len(s)) \in Seq(S)
           /\ Len(SubSeq(s, i + 1, Len(s))) = Len(s) - i
           /\ \A j \in 1 .. Len(s) - i : SubSeq(s, i + 1, Len(s))[j] = s[i + j]
           /\ SubSeq(s, i + 1, Len(s)) = <<>> <=> i = Len(s)
<1>1. /\ i + 1 \in Int /\ Len(s) \in Nat /\ \A j \in i + 1 .. Len(s) : s[j] \in S
  OBVIOUS
<1>2. /\ SubSeq(s, i + 1, Len(s)) \in Seq(S)
      /\ Len(SubSeq(s, i + 1, Len(s))) = IF i + 1 <= Len(s) THEN Len(s) - (i + 1) + 1 ELSE 0
      /\ \A j \in 1 .. Len(s) - (i + 1) + 1 : SubSeq(s, i + 1, Len(s))[j] = s[(i + 1) + j - 1]
  BY <1>1, SubSeqProperties
<1>3. /\ Len(SubSeq(s, i + 1, Len(s))) = Len(s) - i
      /\ \A j \in 1 .. Len(s) - i : SubSeq(s, i + 1, Len(s))[j] = s[i + j]
  <2> DEFINE b == SubSeq(s, i + 1, Len(s))
  <2>1. /\ Len(b) = IF i + 1 <= Len(s) THEN Len(s) - (i + 1) + 1 ELSE 0
        /\ \A j \in 1 .. Len(s) - (i + 1) + 1 : b[j] = s[(i + 1) + j - 1]
    BY <1>2
  <2> HIDE DEF b
  <2>2. ASSUME NEW j \in 1 .. Len(s) - i PROVE b[j] = s[i + j]
    <3>1. j \in 1 .. Len(s) - (i + 1) + 1 /\ (i + 1) + j - 1 = i + j
      BY <1>1
    <3> QED
      BY <2>1, <3>1
  <2>3. Len(b) = Len(s) - i
    BY <1>1, <2>1
  <2> QED
    BY <2>2, <2>3 DEF b
<1>4. SubSeq(s, i + 1, Len(s)) = <<>> <=> Len(SubSeq(s, i + 1, Len(s))) = 0
  BY <1>2, EmptySeq
<1> QED
  BY <1>1, <1>2, <1>3, <1>4

LEMMA SuffixAppend ==
    ASSUME NEW S, NEW s \in Seq(S), NEW x \in S, NEW i \in Nat, i <= Len(s)
    PROVE  SubSeq(Append(s, x), i + 1, Len(s) + 1) = Append(SubSeq(s, i + 1, Len(s)), x)
<1> DEFINE q == Append(s, x)
           a == SubSeq(q, i + 1, Len(q))
           b == SubSeq(s, i + 1, Len(s))
<1>1. q \in Seq(S) /\ Len(q) = Len(s) + 1 /\ Len(s) \in Nat /\ i <= Len(q)
      /\ q[Len(s) + 1] = x /\ \A j \in 1 .. Len(s) : q[j] = s[j]
  OBVIOUS
<1>2. /\ a \in Seq(S) /\ Len(a) = Len(q) - i
      /\ \A j \in 1 .. Len(q) - i : a[j] = q[i + j]
  BY <1>1, Suffix
<1>3. /\ b \in Seq(S) /\ Len(b) = Len(s) - i
      /\ \A j \in 1 .. Len(s) - i : b[j] = s[i + j]
  BY Suffix
<1> HIDE DEF a, b, q
<1>4. /\ Append(b, x) \in Seq(S) /\ Len(Append(b, x)) = Len(s) - i + 1
      /\ Append(b, x)[Len(s) - i + 1] = x
      /\ \A j \in 1 .. Len(s) - i : Append(b, x)[j] = b[j]
  BY <1>1, <1>3
<1>5. ASSUME NEW j \in 1 .. Len(a) PROVE a[j] = Append(b, x)[j]
  <2>1. CASE j = Len(s) - i + 1
    BY <1>1, <1>2, <1>4, <2>1
  <2>2. CASE j # Len(s) - i + 1
    <3>1. j \in 1 .. Len(s) - i /\ j \in 1 .. Len(q) - i /\ i + j \in 1 .. Len(s)
      BY <1>1, <1>2, <2>2
    <3> QED
      BY <1>1, <1>2, <1>3, <1>4, <3>1
  <2> QED
    BY <2>1, <2>2
<1>6. a = Append(b, x)
  <2>1. Len(a) = Len(Append(b, x))
    BY <1>1, <1>2, <1>4
  <2> DEFINE c == Append(b, x)
  <2>2. a \in Seq(S) /\ c \in Seq(S) /\ Len(a) = Len(c) /\ \A j \in 1 .. Len(a) : a[j] = c[j]
    BY <1>2, <1>4, <1>5, <2>1
  <2> HIDE DEF c
  <2>3. a = c
    BY <2>2, SeqEqual
  <2> QED
    BY <2>3 DEF c
<1> QED
  BY <1>1, <1>6 DEF a, b, q

LEMMA SuffixTail ==
    ASSUME NEW S, NEW s \in Seq(S), NEW i \in Nat, i < Len(s)
    PROVE  /\ SubSeq(s, i + 1, Len(s)) # <<>>
           /\ Head(SubSeq(s, i + 1, Len(s))) = s[i + 1]
           /\ SubSeq(s, (i + 1) + 1, Len(s)) = Tail(SubSeq(s, i + 1, Len(s)))
<1>1. i + 1 \in 1 .. Len(s) /\ Len(s) \in i + 1 .. Len(s) /\ Len(s) \in Nat
  OBVIOUS
<1>2. /\ Head(SubSeq(s, i + 1, Len(s))) = s[i + 1]
      /\ Tail(SubSeq(s, i + 1, Len(s))) = SubSeq(s, (i + 1) + 1, Len(s))
  BY <1>1, HeadTailOfSubSeq
<1>3. SubSeq(s, i + 1, Len(s)) # <<>>
  <2> DEFINE b == SubSeq(s, i + 1, Len(s))
  <2>1. i <= Len(s)
    BY <1>1
  <2>2. Len(b) = Len(s) - i
    BY <2>1, Suffix
  <2> HIDE DEF b
  <2>3. Len(b) # 0
    BY <1>1, <2>2
  <2>4. b # <<>>
    BY <2>3
  <2> QED
    BY <2>4 DEF b
<1> QED
  BY <1>2, <1>3

ItemsInv == \E pg \in Placements : Lists(Los, His, pg) /\ Stored(Los, His, pg)

FifoInv ==
    TurnInv /\ WayInv /\ Roles /\ Values /\ Chase /\ History /\ Watch /\ ItemsInv

LEMMA InitFifoInv == HInit => FifoInv
<1> SUFFICES ASSUME HInit PROVE FifoInv
  OBVIOUS
<1>1. Init /\ TurnInv /\ WayInv /\ PagesInv /\ Roles /\ Values /\ Chase
  BY InitTurnInv, InitWayInv, InitPages, InitCalls DEF HInit
<1>2. History
  <2>1. pushed = <<>> /\ rep_tail = 0
    BY DEF HInit, Init
  <2>2. \A t \in Threads : pc[t] \notin PushSteps
    BY <1>1 DEF Init, PushSteps
  <2> QED
    BY <2>1, <2>2, EmptySeq DEF History
<1>3. Watch
  BY <1>1 DEF HInit, Init, Watch, WatchOf, Over, Threads
<1>4. ASSUME NEW lo, NEW hi, NEW pg PROVE Stored(lo, hi, pg)
  <2>1. ASSUME NEW j \in Nat, Filled(j) PROVE FALSE
    <3>1. j < rep_tail
      BY <1>1, <2>1, FilledGiven
    <3> QED
      BY <1>1, <3>1 DEF Init
  <2> QED
    BY <2>1 DEF Stored
<1>5. ItemsInv
  BY <1>1, <1>4 DEF PagesInv, ItemsInv
<1> QED
  BY <1>1, <1>2, <1>3, <1>5 DEF FifoInv

LEMMA StepFifoInv ==
    ASSUME FifoInv, HNext
    PROVE  FifoInv'
<1>1. PICK t \in Threads :
          \/ t \in Pushers /\ (PushTicket(t) \/ InPush(t))
          \/ t \in Poppers /\ (ReadHead(t) \/ InPop(t))
          \/ t \in Observers /\ (EmptyReadTail(t) \/ InEmpty(t))
  BY NextIsRoleStep DEF HNext
<1>2. /\ Step(t) /\ Next /\ Observe
      /\ t \in Observers => EmptyReadTail(t) \/ InEmpty(t)
  BY <1>1, ThreadAssumption DEF Step, HNext
<1>3. PushTicket(t) => t \in Pushers
  <2>1. CASE t \in Poppers /\ (ReadHead(t) \/ InPop(t))
    <3>1. rep_tail' = rep_tail
      BY <2>1 DEF ReadHead, InPop, LookEmpty, LookFull, ClaimWins, ClaimLoses, PopTurn, AwaitItem,
            PopPage, TakeItem, PopLock, UnlinkPage, ClearTailPage, PopRelease, FreePage, rep_vars
    <3> QED
      BY <3>1 DEF PushTicket, FifoInv, TurnInv, Ordered
  <2>2. CASE t \in Observers /\ (EmptyReadTail(t) \/ InEmpty(t))
    <3>1. rep_tail' = rep_tail
      BY <2>2 DEF EmptyReadTail, InEmpty, EmptyReadHead, EmptyAgain, rep_vars
    <3> QED
      BY <3>1 DEF PushTicket, FifoInv, TurnInv, Ordered
  <2> QED
    BY <1>1, <2>1, <2>2
<1>4. TurnInv' /\ WayInv' /\ Roles' /\ Values' /\ Chase'
  BY <1>2, NextTurnInv, NextWayInv, StepRoles, StepValues, StepChase DEF FifoInv
<1>5. History'
  BY <1>2, <1>3, StepHistory DEF FifoInv
<1>6. Watch'
  BY <1>2, <1>4, StepWatch DEF FifoInv
<1>7. ItemsInv'
  <2>1. PICK lo, hi : lo = Los /\ hi = His
    OBVIOUS
  <2>2. PICK pg \in Placements : Lists(lo, hi, pg) /\ Stored(lo, hi, pg)
    BY <2>1 DEF FifoInv, ItemsInv
  <2>3. PICK m, p, lo2, hi2 : \E pg2 \in Placements :
              /\ m = At(t) /\ p = mine[t]
              /\ NextLists(t, lo, hi, pg, m, p, lo2, hi2, pg2)
              /\ lo2 = Los' /\ hi2 = His'
              /\ Lists(lo2, hi2, pg2)'
    BY <1>2, <1>4, <2>1, <2>2, StepLists DEF FifoInv
  <2>4. PICK pg2 \in Placements :
              /\ m = At(t) /\ p = mine[t]
              /\ NextLists(t, lo, hi, pg, m, p, lo2, hi2, pg2)
              /\ lo2 = Los' /\ hi2 = His'
              /\ Lists(lo2, hi2, pg2)'
    BY <2>3
  <2>5. Stored(lo2, hi2, pg2)'
    BY <1>2, <1>3, <2>1, <2>2, <2>4, StepStored DEF FifoInv
  <2> QED
    BY <2>4, <2>5 DEF ItemsInv
<1> QED
  BY <1>4, <1>5, <1>6, <1>7 DEF FifoInv

LEMMA StayFifoInv ==
    ASSUME FifoInv, UNCHANGED hvars
    PROVE  FifoInv'
<1>1. UNCHANGED vars /\ pushed' = pushed /\ moments' = moments
  BY DEF hvars
<1>2. UNCHANGED <<rep_head, rep_tail, tail_counter, slot, mask, pc, left, ticket, mine, task, answer>>
  BY <1>1 DEF vars, rep_vars, counter_vars, page_vars, local_vars
<1>3. TurnInv' /\ WayInv'
  BY <1>1, NextTurnInv, NextWayInv DEF FifoInv
<1>4. Roles' /\ Values' /\ Chase' /\ History' /\ Watch'
  BY <1>1, <1>2 DEF FifoInv, Roles, Values, Over, Chase, History, Watch, WatchOf
<1>5. ItemsInv'
  <2>1. PICK lo, hi : lo = Los /\ hi = His
    OBVIOUS
  <2>2. PICK pg \in Placements : Lists(lo, hi, pg) /\ Stored(lo, hi, pg)
    BY <2>1 DEF FifoInv, ItemsInv
  <2>3. Los' = Los /\ His' = His
    BY <1>1 DEF vars, counter_vars, local_vars, Los, His, Lo, Hi, PassedAt, LinkedAt, Passed, Linked, At
  <2>4. Lists(lo, hi, pg)'
    BY <1>1, <2>2 DEF vars, list_vars, page_vars, local_vars, Lists, Chain, Distinct, Ends, Owned,
          NoneLost, Knows, Live, FirstPage, LastPage, Private, PushPrivate, Passed, At
  <2>5. Stored(lo, hi, pg)'
    BY <1>1, <1>2, <2>2 DEF Stored, Filled
  <2> QED
    BY <2>1, <2>3, <2>4, <2>5 DEF ItemsInv
<1> QED
  BY <1>3, <1>4, <1>5 DEF FifoInv

-----------------------------------------------------------------------------
\* What the abstract queue sees of the threads.
CallMap == [t \in Pushers \cup Poppers |-> CallOf(t)]
ValueMap == [t \in Poppers |-> ValueOf(t)]

Sees(t, c, v) ==
    /\ CallMap' = IF t \in Pushers \cup Poppers THEN [CallMap EXCEPT ![t] = c] ELSE CallMap
    /\ ValueMap' = IF t \in Poppers THEN [ValueMap EXCEPT ![t] = v] ELSE ValueMap

LEMMA ContentsFacts ==
    ASSUME TurnInv, Chase, History
    PROVE  Contents = <<>> <=> rep_head = rep_tail
<1>1. rep_head \in Nat /\ rep_tail \in Nat /\ rep_head <= rep_tail
  BY DEF TurnInv, Ordered, Chase
<1>2. pushed \in Seq(Tasks) /\ Len(pushed) = rep_tail
  BY DEF History
<1>3. SubSeq(pushed, rep_head + 1, Len(pushed)) = <<>> <=> rep_head = Len(pushed)
  BY <1>1, <1>2, Suffix
<1> QED
  BY <1>2, <1>3 DEF Contents

LEMMA StepSees ==
    ASSUME FifoInv, Observe, NEW t \in Threads, Step(t), PushTicket(t) => t \in Pushers,
           NEW c, NEW v, c = CallOf(t)', v = ValueOf(t)'
    PROVE  Sees(t, c, v)
<1>1. \A u \in Threads : u # t => pc'[u] = pc[u] /\ ticket'[u] = ticket[u] /\ task'[u] = task[u]
  BY OthersStay, TasksStay DEF FifoInv, WayInv, Stays
<1>2. ASSUME NEW u \in Threads, u # t PROVE CallOf(u)' = CallOf(u)
  BY <1>1, <1>2 DEF CallOf
<1>3. ASSUME NEW u \in Threads, u # t PROVE ValueOf(u)' = ValueOf(u)
  <2>1. CASE pc[u] \in HasTicket
    <3>1. u \in Claimed
      BY <2>1 DEF HasTicket, Claimed, ClaimedSteps, PopSteps
    <3>2. ticket[u] \in Nat /\ ticket[u] < rep_head /\ rep_head <= rep_tail
          /\ rep_head \in Nat /\ rep_tail \in Nat
      BY <3>1 DEF FifoInv, TurnInv, Ordered, Chase
    <3>3. ticket[u] < rep_tail
      BY <3>2
    <3>4. pushed'[ticket[u] + 1] = pushed[ticket[u] + 1]
      BY <3>2, <3>3, PushedStays DEF FifoInv
    <3> QED
      BY <1>1, <1>3, <2>1, <3>4 DEF ValueOf
  <2>2. CASE pc[u] \notin HasTicket
    BY <1>1, <1>3, <2>2 DEF ValueOf
  <2> QED
    BY <2>1, <2>2
<1>4. CallMap' = [u \in Pushers \cup Poppers |-> IF u = t THEN c ELSE CallOf(u)]
  BY <1>2 DEF CallMap, Threads
<1>5. ValueMap' = [u \in Poppers |-> IF u = t THEN v ELSE ValueOf(u)]
  BY <1>3 DEF ValueMap, Threads
<1>6. CallMap' = IF t \in Pushers \cup Poppers THEN [CallMap EXCEPT ![t] = c] ELSE CallMap
  BY <1>4 DEF CallMap
<1>7. ValueMap' = IF t \in Poppers THEN [ValueMap EXCEPT ![t] = v] ELSE ValueMap
  BY <1>5 DEF ValueMap
<1> QED
  BY <1>6, <1>7 DEF Sees

\* Nobody comes to an empty() or leaves one.
LEMMA MomentsGrow ==
    ASSUME FifoInv, FifoInv', Observe, NEW t \in Threads, Step(t), t \notin Observers \/ EmptyReadHead(t)
    PROVE  /\ moments' = [u \in Observers |->
                              IF moments[u] = {} THEN {} ELSE moments[u] \cup {(Contents = <<>>)'}]
           /\ rep_head' = rep_head /\ rep_tail' = rep_tail => moments' = moments
<1>1. PICK e : e = (rep_head' = rep_tail')
  OBVIOUS
<1>2. e = ((Contents = <<>>)')
  <2>1. (Contents = <<>>)' <=> rep_head' = rep_tail'
    <3>1. FifoInv' => (Contents = <<>> <=> rep_head = rep_tail)'
      BY ContentsFacts, PTL DEF FifoInv
    <3> QED
      BY <3>1
  <2> QED
    BY <1>1, <2>1
<1>3. moments' = [u \in Observers |-> IF pc'[u] # "idle" THEN moments[u] \cup {e} ELSE {}]
  BY <1>1 DEF Observe, InEmptyCall
<1>4. \A u \in Observers : pc'[u] = "idle" <=> pc[u] = "idle"
  <2>1. \A u \in Threads : u # t => pc'[u] = pc[u]
    BY OthersStay DEF FifoInv, WayInv, Stays
  <2>2. EmptyReadHead(t) => pc[t] # "idle" /\ pc'[t] # "idle"
    BY DEF EmptyReadHead, Goto, FifoInv, TurnInv
  <2> QED
    BY <2>1, <2>2 DEF Threads
<1>5. \A u \in Observers : pc[u] = "idle" <=> moments[u] = {}
  BY Zenon DEF FifoInv, Watch, WatchOf
<1>6. moments' = [u \in Observers |-> IF moments[u] = {} THEN {} ELSE moments[u] \cup {e}]
  BY <1>3, <1>4, <1>5
<1>7. ASSUME rep_head' = rep_head, rep_tail' = rep_tail PROVE moments' = moments
  <2>1. e = (rep_head = rep_tail)
    BY <1>1, <1>7
  <2>2. \A u \in Observers : pc[u] # "idle" => e \in moments[u]
    BY <2>1, Zenon DEF FifoInv, Watch, WatchOf
  <2>3. \A u \in Observers : (IF moments[u] = {} THEN {} ELSE moments[u] \cup {e}) = moments[u]
    BY <1>5, <2>2
  <2> QED
    BY <1>6, <2>3 DEF FifoInv, Watch, Over
<1> QED
  BY <1>2, <1>6, <1>7

LEMMA ContentsStay ==
    ASSUME rep_head' = rep_head, rep_tail' = rep_tail, pushed' = pushed
    PROVE  Contents' = Contents
  BY DEF Contents

\* A step that the abstract queue does not see.
LEMMA Unseen ==
    ASSUME FifoInv, FifoInv', Observe, NEW t \in Threads, Step(t), ~PushTicket(t), ~ClaimWins(t),
           t \notin Observers \/ EmptyReadHead(t),
           t \in Pushers \cup Poppers => CallOf(t)' = CallOf(t),
           t \in Poppers => ValueOf(t)' = ValueOf(t),
           answer' = answer
    PROVE  UNCHANGED Fifo!vars
<1>1. rep_head' = rep_head /\ rep_tail' = rep_tail /\ pushed' = pushed
  BY CountersMove, OtherObserved
<1>2. Contents' = Contents /\ moments' = moments
  BY <1>1, ContentsStay, MomentsGrow
<1>3. PICK c, v : c = CallOf(t)' /\ v = ValueOf(t)'
  OBVIOUS
<1>4. Sees(t, c, v)
  BY <1>3, StepSees
<1>5. CallMap' = CallMap /\ ValueMap' = ValueMap
  BY <1>3, <1>4 DEF Sees, CallMap, ValueMap
<1> QED
  BY <1>2, <1>5 DEF Fifo!vars, CallMap, ValueMap

LEMMA PushImplements ==
    ASSUME FifoInv, FifoInv', Observe, NEW t \in Pushers, PushTicket(t) \/ InPush(t)
    PROVE  [Fifo!Next]_(Fifo!vars)
<1>1. t \in Threads /\ t \notin Poppers /\ t \notin Observers /\ Step(t)
  BY ThreadAssumption DEF Threads, Step
<1>2. /\ pc \in [Threads -> {"idle"} \cup PushSteps \cup PopSteps \cup EmptySteps]
      /\ rep_head \in Nat /\ rep_tail \in Nat /\ rep_head <= rep_tail
      /\ pushed \in Seq(Tasks) /\ Len(pushed) = rep_tail
  BY DEF FifoInv, TurnInv, Ordered, Chase, History
<1>3. PICK c, v : c = CallOf(t)' /\ v = ValueOf(t)'
  OBVIOUS
<1>4. CallMap' = [CallMap EXCEPT ![t] = c] /\ ValueMap' = ValueMap
  <2>1. Sees(t, c, v)
    BY <1>1, <1>3, StepSees
  <2> QED
    BY <1>1, <2>1 DEF Sees
<1>5. CallMap[t] = CallOf(t)
  BY DEF CallMap
<1>6. CASE PushTicket(t)
  <2>1. PICK i : i = <<t, left[t]>>
    OBVIOUS
  <2>2. pushed' = Append(pushed, i) /\ i \in Tasks
    BY <1>6, <2>1, PushObserved DEF FifoInv
  <2>3. /\ rep_head' = rep_head /\ rep_tail' = rep_tail + 1 /\ answer' = answer
        /\ pc[t] = "idle" /\ pc'[t] \in {"allocate", "push_turn"}
    BY <1>1, <1>2, <1>6 DEF PushTicket, Goto
  <2>4. Contents' = Append(Contents, i)
    <3>1. SubSeq(Append(pushed, i), rep_head + 1, Len(pushed) + 1)
             = Append(SubSeq(pushed, rep_head + 1, Len(pushed)), i)
      BY <1>2, <2>2, SuffixAppend
    <3> QED
      BY <1>2, <2>2, <2>3, <3>1 DEF Contents
  <2>5. CallOf(t) = "none" /\ c = "pushing"
    BY <1>3, <2>3 DEF CallOf, HasTicket, HasItem
  <2>6. moments' = [u \in Observers |->
                       IF moments[u] = {} THEN {} ELSE moments[u] \cup {(Contents = <<>>)'}]
    BY <1>1, MomentsGrow
  <2>7. Fifo!Changes(Append(Contents, i))
    BY <2>4, <2>6 DEF Fifo!Changes
  <2>8. Fifo!Push(t)
    BY <1>4, <1>5, <2>2, <2>3, <2>5, <2>7 DEF Fifo!Push, Fifo!Becomes, CallMap, ValueMap
  <2> QED
    BY <2>8 DEF Fifo!Next
<1>7. CASE PushRelease(t)
  <2>1. pc[t] = "push_release" /\ pc'[t] = "idle" /\ answer' = answer /\ UNCHANGED rep_vars
    BY <1>1, <1>2, <1>7 DEF PushRelease, Return, Goto
  <2>2. CallOf(t) = "pushing" /\ c = "none"
    BY <1>3, <2>1 DEF CallOf, HasTicket, HasItem
  <2>3. ~PushTicket(t)
    BY <2>1 DEF PushTicket
  <2>4. pushed' = pushed /\ rep_head' = rep_head /\ rep_tail' = rep_tail
    BY <1>1, <2>1, <2>3, OtherObserved DEF rep_vars
  <2>5. Contents' = Contents /\ moments' = moments
    BY <1>1, <2>4, ContentsStay, MomentsGrow
  <2>6. Fifo!PushReturn(t)
    BY <1>4, <1>5, <2>1, <2>2, <2>5 DEF Fifo!PushReturn, Fifo!Becomes, CallMap, ValueMap
  <2> QED
    BY <2>6 DEF Fifo!Next
<1>8. CASE AllocatePage(t) \/ PushTurn(t) \/ PushLock(t) \/ LinkPage(t) \/ SetTailPage(t)
           \/ PushPage(t) \/ FillSlot(t)
  <2>1. /\ pc[t] \in PushSteps /\ pc'[t] \in PushSteps /\ answer' = answer
        /\ ~PushTicket(t) /\ ~ClaimWins(t)
    BY <1>1, <1>2, <1>8 DEF AllocatePage, PushTurn, PushLock, LinkPage, SetTailPage, PushPage,
          FillSlot, Goto, PushSteps, local_vars, PushTicket, ClaimWins
  <2>2. CallOf(t)' = CallOf(t)
    BY <2>1 DEF CallOf, PushSteps, HasTicket, HasItem
  <2> QED
    BY <1>1, <2>1, <2>2, Unseen
<1> QED
  BY <1>6, <1>7, <1>8 DEF InPush

LEMMA PopImplements ==
    ASSUME FifoInv, FifoInv', Observe, NEW t \in Poppers, ReadHead(t) \/ InPop(t), ~PushTicket(t)
    PROVE  [Fifo!Next]_(Fifo!vars)
<1>1. t \in Threads /\ t \notin Pushers /\ t \notin Observers /\ Step(t)
  BY ThreadAssumption DEF Threads, Step
<1>2. /\ pc \in [Threads -> {"idle"} \cup PushSteps \cup PopSteps \cup EmptySteps]
      /\ ticket \in [Threads -> Nat]
      /\ rep_head \in Nat /\ rep_tail \in Nat /\ rep_head <= rep_tail
      /\ pushed \in Seq(Tasks) /\ Len(pushed) = rep_tail
  BY DEF FifoInv, TurnInv, Ordered, Chase, History
<1>3. PICK c, v : c = CallOf(t)' /\ v = ValueOf(t)'
  OBVIOUS
<1>4. CallMap' = [CallMap EXCEPT ![t] = c] /\ ValueMap' = [ValueMap EXCEPT ![t] = v]
  <2>1. Sees(t, c, v)
    BY <1>1, <1>3, StepSees
  <2> QED
    BY <1>1, <2>1 DEF Sees
<1>5. CallMap[t] = CallOf(t) /\ ValueMap = [ValueMap EXCEPT ![t] = ValueOf(t)]
  BY DEF CallMap, ValueMap
<1>6. pushed' = pushed
  BY <1>1, OtherObserved
<1>7. /\ task' = [task EXCEPT ![t] = Nothing] => task'[t] = Nothing
      /\ ReadHead(t) \/ LookFull(t) \/ ClaimLoses(t) \/ PopTurn(t) \/ AwaitItem(t) \/ PopPage(t)
         \/ PopLock(t) \/ UnlinkPage(t) \/ ClearTailPage(t) \/ PopRelease(t) \/ FreePage(t)
         => task' = task
  BY <1>1 DEF FifoInv, Values, Over, ReadHead, LookFull, ClaimLoses, PopTurn, AwaitItem, PopPage,
        PopLock, UnlinkPage, ClearTailPage, PopRelease, FreePage, local_vars
<1>8. ASSUME rep_head' = rep_head, rep_tail' = rep_tail
      PROVE  Contents' = Contents /\ moments' = moments
  BY <1>1, <1>6, <1>8, ContentsStay, MomentsGrow
<1>9. CASE ReadHead(t)
  <2>1. pc[t] = "idle" /\ pc'[t] = "look" /\ answer' = answer /\ UNCHANGED rep_vars
    BY <1>1, <1>2, <1>9 DEF ReadHead, Goto
  <2>2. CallOf(t) = "none" /\ c = "popping" /\ v = ValueOf(t)
    BY <1>3, <1>7, <1>9, <2>1 DEF CallOf, ValueOf, HasTicket, HasItem
  <2>3. Fifo!PopCall(t)
    BY <1>4, <1>5, <1>8, <2>1, <2>2 DEF Fifo!PopCall, Fifo!Becomes, CallMap, ValueMap, rep_vars
  <2> QED
    BY <2>3 DEF Fifo!Next
<1>10. CASE LookEmpty(t)
  <2>1. /\ pc[t] = "look" /\ pc'[t] = "idle" /\ answer' = answer /\ UNCHANGED rep_vars
        /\ task'[t] = Nothing /\ rep_tail - ticket[t] <= 0
    BY <1>1, <1>2, <1>7, <1>10 DEF LookEmpty, Return, Goto
  <2>2. Contents = <<>>
    <3>1. ticket[t] <= rep_head /\ ticket[t] \in Nat
      BY <1>1, <1>2, <2>1 DEF FifoInv, Chase
    <3>2. rep_head = rep_tail
      BY <1>2, <2>1, <3>1
    <3> QED
      BY <3>2, ContentsFacts DEF FifoInv
  <2>3. CallOf(t) = "popping" /\ c = "none" /\ v = Nothing
    BY <1>3, <2>1 DEF CallOf, ValueOf, HasTicket, HasItem
  <2>4. Fifo!PopEmpty(t)
    BY <1>4, <1>5, <1>8, <2>1, <2>2, <2>3 DEF Fifo!PopEmpty, Fifo!Becomes, CallMap, ValueMap, rep_vars
  <2> QED
    BY <2>4 DEF Fifo!Next
<1>11. CASE ClaimWins(t)
  <2>1. /\ pc[t] = "claim" /\ pc'[t] = "pop_turn" /\ answer' = answer
        /\ rep_head' = rep_head + 1 /\ rep_tail' = rep_tail
        /\ rep_head = ticket[t] /\ ticket' = ticket
    BY <1>1, <1>2, <1>11 DEF ClaimWins, Goto, local_vars
  <2>2. rep_head < rep_tail
    BY <1>1, <2>1 DEF FifoInv, Chase
  <2>3. /\ SubSeq(pushed, rep_head + 1, Len(pushed)) # <<>>
        /\ Head(SubSeq(pushed, rep_head + 1, Len(pushed))) = pushed[rep_head + 1]
        /\ SubSeq(pushed, (rep_head + 1) + 1, Len(pushed))
              = Tail(SubSeq(pushed, rep_head + 1, Len(pushed)))
    BY <1>2, <2>2, SuffixTail
  <2>4. Contents # <<>> /\ Head(Contents) = pushed[rep_head + 1] /\ Contents' = Tail(Contents)
    BY <1>2, <1>6, <2>1, <2>3 DEF Contents
  <2>5. CallOf(t) = "popping" /\ c = "popped" /\ v = Head(Contents)
    BY <1>3, <1>6, <2>1, <2>4 DEF CallOf, ValueOf, HasTicket, HasItem
  <2>6. moments' = [u \in Observers |->
                       IF moments[u] = {} THEN {} ELSE moments[u] \cup {(Contents = <<>>)'}]
    BY <1>1, MomentsGrow
  <2>7. Fifo!Changes(Tail(Contents))
    BY <2>4, <2>6 DEF Fifo!Changes
  <2>8. Fifo!Pop(t)
    BY <1>4, <1>5, <2>1, <2>4, <2>5, <2>7 DEF Fifo!Pop, Fifo!Becomes, CallMap, ValueMap
  <2> QED
    BY <2>8 DEF Fifo!Next
<1>12. CASE TakeItem(t)
  <2>1. /\ pc[t] = "take" /\ pc'[t] \in {"pop_lock", "pop_release"} /\ answer' = answer
        /\ task'[t] = slot[mine[t]][Index(ticket[t])]
    BY <1>1, <1>2, <1>12 DEF TakeItem, Goto, FifoInv, Values, Over
  <2>2. slot[mine[t]][Index(ticket[t])] = pushed[ticket[t] + 1]
    <3>1. PICK lo, hi : lo = Los /\ hi = His
      OBVIOUS
    <3>2. PICK pg \in Placements : Lists(lo, hi, pg) /\ Stored(lo, hi, pg)
      BY <3>1 DEF FifoInv, ItemsInv
    <3> QED
      BY <1>1, <2>1, <3>1, <3>2, TakesItsItem DEF FifoInv
  <2>3. CallOf(t)' = CallOf(t) /\ ValueOf(t)' = ValueOf(t)
    BY <2>1, <2>2 DEF CallOf, ValueOf, HasTicket, HasItem
  <2>4. ~PushTicket(t) /\ ~ClaimWins(t)
    BY <2>1 DEF PushTicket, ClaimWins
  <2> QED
    BY <1>1, <2>1, <2>3, <2>4, Unseen
<1>13. CASE PopRelease(t) /\ ~Last(ticket[t])
  <2>1. pc[t] = "pop_release" /\ pc'[t] = "idle" /\ answer' = answer /\ UNCHANGED rep_vars
    BY <1>1, <1>2, <1>13 DEF PopRelease, Return, Goto
  <2>2. CallOf(t) = "popped" /\ c = "none" /\ v = ValueOf(t)
    BY <1>3, <1>7, <1>13, <2>1 DEF CallOf, ValueOf, HasTicket, HasItem
  <2>3. Fifo!PopReturn(t)
    BY <1>4, <1>5, <1>8, <2>1, <2>2 DEF Fifo!PopReturn, Fifo!Becomes, CallMap, ValueMap, rep_vars
  <2> QED
    BY <2>3 DEF Fifo!Next
<1>14. CASE FreePage(t)
  <2>1. pc[t] = "free" /\ pc'[t] = "idle" /\ answer' = answer /\ UNCHANGED rep_vars
    BY <1>1, <1>2, <1>14 DEF FreePage, Return, Goto
  <2>2. CallOf(t) = "popped" /\ c = "none" /\ v = ValueOf(t)
    BY <1>3, <1>7, <1>14, <2>1 DEF CallOf, ValueOf, HasTicket, HasItem
  <2>3. Fifo!PopReturn(t)
    BY <1>4, <1>5, <1>8, <2>1, <2>2 DEF Fifo!PopReturn, Fifo!Becomes, CallMap, ValueMap, rep_vars
  <2> QED
    BY <2>3 DEF Fifo!Next
<1>15. CASE \/ LookFull(t) \/ ClaimLoses(t)
            \/ PopTurn(t) \/ AwaitItem(t) \/ PopPage(t)
            \/ PopLock(t) \/ UnlinkPage(t) \/ ClearTailPage(t) \/ (PopRelease(t) /\ Last(ticket[t]))
  <2>1. /\ \/ pc[t] \in {"look", "claim"} /\ pc'[t] \in {"look", "claim"}
           \/ pc[t] \in HasTicket /\ pc'[t] \in HasTicket /\ ticket' = ticket
           \/ pc[t] \in HasItem /\ pc'[t] \in HasItem
        /\ answer' = answer /\ ~ClaimWins(t)
    BY <1>1, <1>2, <1>15 DEF LookFull, ClaimLoses, PopTurn, AwaitItem, PopPage, PopLock, UnlinkPage,
          ClearTailPage, PopRelease, Goto, local_vars, HasTicket, HasItem, ClaimWins
  <2>2. task' = task
    BY <1>7, <1>15
  <2>3. CallOf(t)' = CallOf(t) /\ ValueOf(t)' = ValueOf(t)
    BY <1>6, <2>1, <2>2 DEF CallOf, ValueOf, HasTicket, HasItem
  <2> QED
    BY <1>1, <2>1, <2>3, Unseen
<1> QED
  BY <1>9, <1>10, <1>11, <1>12, <1>13, <1>14, <1>15 DEF InPop

LEMMA EmptyImplements ==
    ASSUME FifoInv, FifoInv', Observe, NEW t \in Observers, EmptyReadTail(t) \/ InEmpty(t),
           ~PushTicket(t), ~ClaimWins(t)
    PROVE  [Fifo!Next]_(Fifo!vars)
<1>1. t \in Threads /\ t \notin Pushers /\ t \notin Poppers /\ Step(t)
  BY ThreadAssumption DEF Threads, Step
<1>2. pc \in [Threads -> {"idle"} \cup PushSteps \cup PopSteps \cup EmptySteps]
  BY DEF FifoInv, TurnInv
<1>3. pushed' = pushed /\ rep_head' = rep_head /\ rep_tail' = rep_tail
  BY <1>1, OtherObserved, CountersMove
<1>4. Contents' = Contents
  BY <1>3, ContentsStay
<1>5. CallMap' = CallMap /\ ValueMap' = ValueMap
  <2>1. PICK c, v : c = CallOf(t)' /\ v = ValueOf(t)'
    OBVIOUS
  <2>2. Sees(t, c, v)
    BY <1>1, <2>1, StepSees
  <2> QED
    BY <1>1, <2>2 DEF Sees
<1>6. PICK e : e = (rep_head = rep_tail)
  OBVIOUS
<1>7. e = (Contents = <<>>)
  <2>1. Contents = <<>> <=> rep_head = rep_tail
    BY ContentsFacts DEF FifoInv
  <2> QED
    BY <1>6, <2>1
<1>8. moments' = [u \in Observers |-> IF pc'[u] # "idle" THEN moments[u] \cup {e} ELSE {}]
  BY <1>3, <1>6 DEF Observe, InEmptyCall
<1>9. \A u \in Observers : u # t => moments'[u] = moments[u]
  <2> SUFFICES ASSUME NEW u \in Observers, u # t PROVE moments'[u] = moments[u]
    OBVIOUS
  <2>1. pc'[u] = pc[u]
    BY <1>1, OthersStay DEF FifoInv, WayInv, Stays, Threads
  <2>2. WatchOf(u)
    BY DEF FifoInv, Watch
  <2>3. CASE pc[u] = "idle"
    BY <1>8, <2>1, <2>2, <2>3 DEF WatchOf
  <2>4. CASE pc[u] # "idle"
    <3>1. e \in moments[u]
      BY <1>6, <2>2, <2>4, Zenon DEF WatchOf
    <3> QED
      BY <1>8, <2>1, <2>4, <3>1
  <2> QED
    BY <2>3, <2>4
<1>10. PICK M : M = moments'[t]
  OBVIOUS
<1>11. moments' = [moments EXCEPT ![t] = M]
  <2>1. Over(moments, Observers) /\ Over(moments', Observers)
    BY DEF FifoInv, Watch
  <2> QED
    BY <1>9, <1>10, <2>1 DEF Over
<1>12. WatchOf(t)
  BY DEF FifoInv, Watch
<1>13. CASE EmptyReadTail(t)
  <2>1. pc[t] = "idle" /\ pc'[t] = "empty_head" /\ answer' = answer
    BY <1>1, <1>2, <1>13 DEF EmptyReadTail, Goto
  <2>2. moments[t] = {} /\ M = {e}
    BY <1>8, <1>10, <1>12, <2>1 DEF WatchOf
  <2>3. moments' = [moments EXCEPT ![t] = {Contents = <<>>}]
    BY <1>7, <1>11, <2>2
  <2>4. Fifo!EmptyCall(t)
    BY <1>4, <1>5, <2>1, <2>2, <2>3 DEF Fifo!EmptyCall, CallMap, ValueMap
  <2> QED
    BY <2>4 DEF Fifo!Next
<1>14. CASE EmptyReadHead(t)
  <2>1. answer' = answer
    BY <1>14 DEF EmptyReadHead, local_vars
  <2> QED
    BY <1>1, <1>14, <2>1, Unseen
<1>15. CASE EmptyAgain(t)
  <2>1. PICK a : a = (ticket[t] = rep_tail /\ pc[t] = "empty_same")
    OBVIOUS
  <2>2. /\ pc[t] \in {"empty_same", "empty_differs"} /\ pc'[t] = "idle"
        /\ answer' = [answer EXCEPT ![t] = a]
    BY <1>1, <1>2, <1>15, <2>1 DEF EmptyAgain, Return, Goto
  <2>3. M = {}
    BY <1>8, <1>10, <2>2
  <2>4. a \in moments[t]
    <3>1. /\ ticket[t] \in Nat /\ rep_tail \in Nat /\ ticket[t] <= rep_tail
          /\ ticket[t] < rep_tail => FALSE \in moments[t]
          /\ pc[t] = "empty_differs" => FALSE \in moments[t]
          /\ pc[t] = "empty_same" /\ ticket[t] = rep_tail => TRUE \in moments[t]
      BY <1>1, <1>12, <2>2 DEF WatchOf, FifoInv, TurnInv, Ordered
    <3>2. ticket[t] # rep_tail => FALSE \in moments[t]
      <4>1. ticket[t] # rep_tail => ticket[t] < rep_tail
        BY <3>1
      <4> QED
        BY <3>1, <4>1, Zenon
    <3>3. CASE ticket[t] = rep_tail /\ pc[t] = "empty_same"
      <4>1. a = TRUE
        BY <2>1, <3>3, Zenon
      <4> QED
        BY <3>1, <3>3, <4>1, Zenon
    <3>4. CASE ~(ticket[t] = rep_tail /\ pc[t] = "empty_same")
      <4>1. a = FALSE
        BY <2>1, <3>4, Zenon
      <4>2. FALSE \in moments[t]
        BY <2>2, <3>1, <3>2, <3>4
      <4> QED
        BY <4>1, <4>2, Zenon
    <3> QED
      BY <3>3, <3>4
  <2>5. Fifo!EmptyReturn(t)
    BY <1>4, <1>5, <1>11, <2>2, <2>3, <2>4 DEF Fifo!EmptyReturn, CallMap, ValueMap
  <2> QED
    BY <2>5 DEF Fifo!Next
<1> QED
  BY <1>13, <1>14, <1>15 DEF InEmpty

LEMMA InitImplementsFifo == HInit => Fifo!Init
<1> SUFFICES ASSUME HInit PROVE Fifo!Init
  OBVIOUS
<1>1. Init /\ pushed = <<>> /\ moments = [t \in Observers |-> {}]
  BY DEF HInit
<1>2. FifoInv
  BY InitFifoInv
<1>3. Contents = <<>>
  BY <1>1, <1>2, ContentsFacts DEF FifoInv, Init
<1>4. [t \in Pushers \cup Poppers |-> CallOf(t)] = [t \in Pushers \cup Poppers |-> "none"]
  <2>1. \A t \in Pushers \cup Poppers : CallOf(t) = "none"
    BY <1>1 DEF Init, CallOf, Threads, HasTicket, HasItem
  <2> QED
    BY <2>1
<1>5. [t \in Poppers |-> ValueOf(t)] = [t \in Poppers |-> Nothing]
  <2>1. \A t \in Poppers : ValueOf(t) = Nothing
    BY <1>1 DEF Init, ValueOf, HasTicket, Threads
  <2> QED
    BY <2>1
<1> QED
  BY <1>1, <1>3, <1>4, <1>5 DEF Fifo!Init, Init

LEMMA StepImplementsFifo == FifoInv /\ FifoInv' /\ HNext => [Fifo!Next]_(Fifo!vars)
<1> SUFFICES ASSUME FifoInv, FifoInv', HNext PROVE [Fifo!Next]_(Fifo!vars)
  OBVIOUS
<1>1. Observe /\ Next /\ rep_head \in Nat /\ rep_tail \in Nat
  BY DEF HNext, FifoInv, TurnInv, Ordered
<1>2. CASE \E t \in Pushers : PushTicket(t) \/ InPush(t)
  BY <1>1, <1>2, PushImplements
<1>3. CASE \E t \in Poppers : ReadHead(t) \/ InPop(t)
  <2>1. PICK t \in Poppers : ReadHead(t) \/ InPop(t)
    BY <1>3
  <2>2. rep_tail' = rep_tail
    BY <2>1 DEF ReadHead, InPop, LookEmpty, LookFull, ClaimWins, ClaimLoses, PopTurn, AwaitItem,
          PopPage, TakeItem, PopLock, UnlinkPage, ClearTailPage, PopRelease, FreePage, rep_vars
  <2>3. ~PushTicket(t)
    BY <1>1, <2>2 DEF PushTicket
  <2> QED
    BY <1>1, <2>1, <2>3, PopImplements
<1>4. CASE \E t \in Observers : EmptyReadTail(t) \/ InEmpty(t)
  <2>1. PICK t \in Observers : EmptyReadTail(t) \/ InEmpty(t)
    BY <1>4
  <2>2. rep_tail' = rep_tail /\ rep_head' = rep_head
    BY <2>1 DEF EmptyReadTail, InEmpty, EmptyReadHead, EmptyAgain, rep_vars
  <2>3. ~PushTicket(t) /\ ~ClaimWins(t)
    BY <1>1, <2>2 DEF PushTicket, ClaimWins
  <2> QED
    BY <1>1, <2>1, <2>3, EmptyImplements
<1> QED
  BY <1>1, <1>2, <1>3, <1>4 DEF Next

(***************************************************************************)
(* push and try_pop are linearizable (hikv.cc:24 and 68), for any number   *)
(* of threads, micro queues, pages and items: every item comes out once,   *)
(* in the order of the tickets, a try_pop that returns false found the     *)
(* queue empty, and empty() answers what was so at some moment of its call.*)
(* The page a pop reads is page PageNo of its ticket, and the slot there   *)
(* has the item of that ticket since the push moved on.                    *)
(***************************************************************************)
THEOREM LinearizableQueueHolds == HSpec => LinearizableQueue
<1>1. HInit => FifoInv /\ Fifo!Init
  BY InitFifoInv, InitImplementsFifo
<1>2. FifoInv /\ [HNext]_hvars => FifoInv'
  <2>1. FifoInv /\ HNext => FifoInv'
    BY StepFifoInv
  <2>2. FifoInv /\ UNCHANGED hvars => FifoInv'
    BY StayFifoInv
  <2> QED
    BY <2>1, <2>2
<1>3. FifoInv /\ FifoInv' /\ [HNext]_hvars => [Fifo!Next]_(Fifo!vars)
  <2>1. CASE HNext
    BY <2>1, StepImplementsFifo
  <2>2. CASE UNCHANGED hvars
    BY <2>2 DEF hvars, vars, rep_vars, counter_vars, list_vars, page_vars, local_vars, Fifo!vars,
          Contents, CallOf, ValueOf
  <2> QED
    BY <2>1, <2>2
<1> QED
  BY <1>1, <1>2, <1>3, PTL DEF HSpec, LinearizableQueue, Fifo!Spec

-----------------------------------------------------------------------------
(* The queue at rest: what the iterator and the copy meet.  The counters   *)
(* of a micro queue are then the rounds of the next ticket it gets.        *)

Place(m) == CHOOSE i \in MicroQueues : (i * Phi) % NQueue = m

\* The round of the next ticket of micro queue m, from ticket k on.
NextRound(k, m) == IF k % NQueue <= Place(m) THEN k \div NQueue ELSE k \div NQueue + 1

LEMMA PlaceIs ==
    ASSUME NEW m \in MicroQueues
    PROVE  /\ Place(m) \in MicroQueues
           /\ (Place(m) * Phi) % NQueue = m
           /\ \A k \in Nat : Micro(k) = m <=> k % NQueue = Place(m)
<1>1. Place(m) \in MicroQueues /\ (Place(m) * Phi) % NQueue = m
  BY EveryMicroQueue DEF Place
<1>2. ASSUME NEW k \in Nat PROVE Micro(k) = m <=> k % NQueue = Place(m)
  <2>1. Micro(k) = ((k % NQueue) * Phi) % NQueue /\ k % NQueue \in MicroQueues
    BY MicroOfPlace, TurnFacts
  <2> QED
    BY <1>1, <2>1, SpreadAssumption
<1> QED
  BY <1>1, <1>2

\* One ticket further.
LEMMA Further ==
    ASSUME NEW n \in Nat \ {0}, NEW k \in Nat
    PROVE  \/ k % n < n - 1 /\ (k + 1) % n = (k % n) + 1 /\ (k + 1) \div n = k \div n
           \/ k % n = n - 1 /\ (k + 1) % n = 0 /\ (k + 1) \div n = k \div n + 1
<1> DEFINE q == k \div n
           r == k % n
<1>1. q \in Nat /\ r \in 0 .. n - 1 /\ k = n * q + r /\ n * q \in Nat /\ q + 1 \in Nat
      /\ n * (q + 1) = n * q + n
  <2>1. q \in Nat /\ r \in 0 .. n - 1 /\ k = n * q + r
    BY Division
  <2> HIDE DEF q, r
  <2> QED
    BY <2>1, Z3
<1> HIDE DEF q, r
<1>2. CASE r < n - 1
  <2>1. k + 1 = n * q + (r + 1) /\ r + 1 \in 0 .. n - 1
    BY <1>1, <1>2
  <2>2. (k + 1) % n = r + 1 /\ (k + 1) \div n = q
    BY <1>1, <2>1, Remainder, Quotient
  <2> QED
    BY <1>2, <2>2 DEF q, r
<1>3. CASE r = n - 1
  <2>1. k + 1 = n * (q + 1) + 0 /\ 0 \in 0 .. n - 1
    BY <1>1, <1>3
  <2>2. (k + 1) % n = 0 /\ (k + 1) \div n = q + 1
    BY <1>1, <2>1, Remainder, Quotient
  <2> QED
    BY <1>3, <2>2 DEF q, r
<1> QED
  BY <1>1, <1>2, <1>3

LEMMA NextRoundMoves ==
    ASSUME NEW m \in MicroQueues, NEW k \in Nat
    PROVE  /\ NextRound(k, m) \in Nat
           /\ Micro(k) = m => NextRound(k, m) = k \div NQueue
           /\ NextRound(k + 1, m) = IF Micro(k) = m THEN NextRound(k, m) + 1
                                                   ELSE NextRound(k, m)
<1>1. Place(m) \in 0 .. NQueue - 1 /\ (Micro(k) = m <=> k % NQueue = Place(m))
  BY PlaceIs DEF MicroQueues
<1>2. k \div NQueue \in Nat /\ k % NQueue \in 0 .. NQueue - 1
  BY Division, LayoutAssumption
<1>3. \/ /\ k % NQueue < NQueue - 1 /\ (k + 1) % NQueue = (k % NQueue) + 1
         /\ (k + 1) \div NQueue = k \div NQueue
      \/ /\ k % NQueue = NQueue - 1 /\ (k + 1) % NQueue = 0
         /\ (k + 1) \div NQueue = k \div NQueue + 1
  BY Further, LayoutAssumption
<1> DEFINE n == NQueue
           r == k % NQueue
           q == k \div NQueue
           r2 == (k + 1) % NQueue
           q2 == (k + 1) \div NQueue
           p == Place(m)
<1>4. /\ p \in 0 .. n - 1 /\ (Micro(k) = m <=> r = p) /\ q \in Nat /\ r \in 0 .. n - 1
      /\ \/ r < n - 1 /\ r2 = r + 1 /\ q2 = q
         \/ r = n - 1 /\ r2 = 0 /\ q2 = q + 1
  BY <1>1, <1>2, <1>3
<1>5. /\ NextRound(k, m) = IF r <= p THEN q ELSE q + 1
      /\ NextRound(k + 1, m) = IF r2 <= p THEN q2 ELSE q2 + 1
  BY DEF NextRound
<1>6. n \in Nat \ {0}
  BY LayoutAssumption
<1> HIDE DEF n, r, q, r2, q2, p
<1>7. /\ NextRound(k, m) \in Nat
      /\ Micro(k) = m => NextRound(k, m) = q
  BY <1>4, <1>5, <1>6
<1>8. NextRound(k + 1, m) = IF Micro(k) = m THEN NextRound(k, m) + 1 ELSE NextRound(k, m)
  BY <1>4, <1>5, <1>6
<1> QED
  BY <1>7, <1>8 DEF q

\* Before the next round are the tickets before k.
LEMMA NextRoundIs ==
    ASSUME NEW m \in MicroQueues, NEW k \in Nat, NEW q \in Nat,
           NEW j \in Nat, Micro(j) = m, Turn(j) = NQueue * q
    PROVE  j < k <=> q < NextRound(k, m)
<1>1. /\ Place(m) \in 0 .. NQueue - 1 /\ j % NQueue = Place(m)
      /\ k \div NQueue \in Nat /\ k % NQueue \in 0 .. NQueue - 1
      /\ k = NQueue * (k \div NQueue) + (k % NQueue)
      /\ j = NQueue * q + (j % NQueue)
  <2>1. j = Turn(j) + (j % NQueue)
    BY TurnFacts
  <2> QED
    BY <2>1, PlaceIs, Division, LayoutAssumption DEF MicroQueues
<1> DEFINE n == NQueue
           s == k % NQueue
           r == k \div NQueue
           p == Place(m)
<1>2. /\ p \in 0 .. n - 1 /\ r \in Nat /\ s \in 0 .. n - 1 /\ k = n * r + s /\ j = n * q + p
      /\ n \in Nat \ {0} /\ n * r \in Nat /\ n * q \in Nat
  <2>1. n * r \in Nat /\ n * q \in Nat
    BY <1>1, LayoutAssumption
  <2> QED
    BY <1>1, <2>1, LayoutAssumption
<1>3. NextRound(k, m) = IF s <= p THEN r ELSE r + 1
  BY DEF NextRound
<1> HIDE DEF n, s, r, p
<1>4. CASE q < r
  <2>1. n * q < n * r
    BY <1>2, <1>4, Z3
  <2>2. n * q + n <= n * r
    BY <1>2, <2>1, Multiples
  <2>3. j < k
    BY <1>2, <2>2
  <2>4. q < NextRound(k, m)
    BY <1>2, <1>3, <1>4
  <2> QED
    BY <2>3, <2>4
<1>5. CASE q = r
  <2>1. j < k <=> p < s
    BY <1>2, <1>5
  <2>2. q < NextRound(k, m) <=> ~(s <= p)
    BY <1>2, <1>3, <1>5
  <2> QED
    BY <1>2, <2>1, <2>2
<1>6. CASE r < q
  <2>1. n * r < n * q
    BY <1>2, <1>6, Z3
  <2>2. n * r + n <= n * q
    BY <1>2, <2>1, Multiples
  <2>3. ~(j < k)
    BY <1>2, <2>2
  <2>4. ~(q < NextRound(k, m))
    BY <1>2, <1>3, <1>6
  <2> QED
    BY <2>3, <2>4
<1> QED
  BY <1>2, <1>4, <1>5, <1>6

\* The tickets that are to be popped have their items, in the pages of the lists.
Due(lo, hi, pg) ==
    \A k \in rep_head .. rep_tail - 1 :
        /\ PageNo(k) \in Live(lo, hi, Micro(k))
        /\ slot[pg[Micro(k)][PageNo(k)]][Index(k)] = pushed[k + 1]
        /\ Index(k) \in mask[pg[Micro(k)][PageNo(k)]]

Resting(lo, hi, pg) ==
    /\ rep_head \in Nat /\ rep_tail \in Nat /\ rep_head <= rep_tail
    /\ pushed \in Seq(Tasks) /\ Len(pushed) = rep_tail
    /\ lo \in Numbers /\ hi \in Numbers /\ pg \in Placements
    /\ Over(head_page, MicroQueues)
    /\ Chain(lo, hi, pg)
    /\ Distinct(lo, hi, pg)
    /\ allocated \subseteq Pages
    /\ \A m \in MicroQueues :
          /\ lo[m] <= hi[m]
          /\ head_counter[m] = NQueue * NextRound(rep_head, m)
          /\ tail_counter[m] = NQueue * NextRound(rep_tail, m)
          /\ head_counter[m] <= tail_counter[m]
          /\ lo[m] = PageOf(head_counter[m])
          /\ hi[m] = PageUp(tail_counter[m])
          /\ head_page[m] = FirstPage(lo, hi, pg, m)
          /\ tail_page[m] = LastPage(lo, hi, pg, m)
    /\ Due(lo, hi, pg)

\* Nobody holds a ticket: the counter of a micro queue tells which are taken.
LEMMA CounterAtRest ==
    ASSUME NEW c, NEW n, NEW sect, Ordered(c, n, {}, sect, ticket), NEW m \in MicroQueues
    PROVE  c[m] = NQueue * NextRound(n, m)
<1>1. n \in Nat /\ c[m] \in Nat
  BY DEF Ordered
<1>2. PICK q \in Nat : c[m] = NQueue * q
  BY DEF Ordered, Rounds
<1>3. NextRound(n, m) \in Nat
  BY <1>1, NextRoundMoves
<1>4. PICK r : r = NextRound(n, m)
  OBVIOUS
<1>5. PICK i \in Nat : Micro(i) = m /\ Turn(i) = NQueue * q
  BY EveryTurn
<1>6. PICK j \in Nat : Micro(j) = m /\ Turn(j) = NQueue * r
  BY <1>3, <1>4, EveryTurn
<1>7. ~(q < r)
  <2>1. q < r => i < n
    BY <1>1, <1>4, <1>5, NextRoundIs
  <2>2. i < n => Turn(i) < c[m]
    BY <1>5 DEF Ordered
  <2> QED
    BY <1>1, <1>2, <1>5, <2>1, <2>2
<1>8. ~(r < q)
  <2>1. ~(j < n)
    <3>1. j < n <=> r < r
      BY <1>1, <1>3, <1>4, <1>6, NextRoundIs
    <3> QED
      BY <1>3, <1>4, <3>1
  <2>2. c[m] <= Turn(j)
    BY <1>1, <1>6, <2>1 DEF Ordered
  <2>3. NQueue * q <= NQueue * r
    BY <1>2, <1>6, <2>2
  <2> QED
    BY <1>3, <1>4, <2>3, LayoutAssumption, Z3
<1> QED
  BY <1>2, <1>3, <1>4, <1>7, <1>8

LEMMA Rests ==
    ASSUME FifoInv, AtRest
    PROVE  \E lo, hi, pg : Resting(lo, hi, pg)
<1>1. PICK lo, hi : lo = Los /\ hi = His
  OBVIOUS
<1>2. PICK pg \in Placements : Lists(lo, hi, pg) /\ Stored(lo, hi, pg)
  BY <1>1 DEF FifoInv, ItemsInv
<1>3. /\ \A t \in Threads : ~Passed(t) /\ ~Linked(t)
      /\ \A t \in Threads : pc[t] \notin {"set_tail", "clear_tail"}
      /\ Pushing = {} /\ Claimed = {}
  BY DEF AtRest, Passed, Linked, Pushing, Claimed, PushSteps, ClaimedSteps, PopSteps
<1>4. Bounded(lo, hi)
  BY <1>1, BoundedHolds DEF FifoInv
<1>5. /\ Ordered(tail_counter, rep_tail, {}, PushInside, ticket)
      /\ Ordered(head_counter, rep_head, {}, PopInside, ticket)
      /\ rep_head \in Nat /\ rep_tail \in Nat /\ rep_head <= rep_tail
      /\ \A m \in MicroQueues :
            /\ head_counter[m] \in Nat /\ tail_counter[m] \in Nat
            /\ head_counter[m] <= tail_counter[m]
  BY <1>3 DEF FifoInv, TurnInv, Chase, Ordered
<1>6. ASSUME NEW m \in MicroQueues
      PROVE  lo[m] = PageOf(head_counter[m]) /\ hi[m] = PageUp(tail_counter[m])
  <2>1. PageOf(head_counter[m]) \in Nat /\ PageUp(tail_counter[m]) \in Nat
    BY <1>5, PagesGrow
  <2>2. ~PassedAt(m) /\ ~LinkedAt(m)
    BY <1>3 DEF PassedAt, LinkedAt
  <2>3. Lo(m) = PageOf(head_counter[m]) /\ Hi(m) = PageUp(tail_counter[m])
    BY <2>1, <2>2 DEF Lo, Hi
  <2> QED
    BY <1>1, <2>3 DEF Los, His
<1>7. ASSUME NEW k \in rep_head .. rep_tail - 1
      PROVE  /\ PageNo(k) \in Live(lo, hi, Micro(k))
             /\ Filled(k)
  <2>1. k \in Nat /\ k >= rep_head /\ k < rep_tail
    BY <1>5
  <2>2. PICK m : m = Micro(k)
    OBVIOUS
  <2>3. m \in MicroQueues /\ Turn(k) \in Nat
    BY <2>1, <2>2, TurnFacts
  <2>4. head_counter[m] <= Turn(k) /\ Turn(k) < tail_counter[m]
    BY <1>5, <2>1, <2>2 DEF Ordered
  <2>5. Turn(k) + NQueue <= tail_counter[m]
    <3>1. PICK a \in Nat : Turn(k) = NQueue * a
      BY <2>1, TurnFacts
    <3>2. PICK b \in Nat : tail_counter[m] = NQueue * b
      BY <1>5, <2>3 DEF Ordered, Rounds
    <3> QED
      BY <2>4, <3>1, <3>2, Multiples, LayoutAssumption
  <2>6. Turn(k) + NQueue \in Nat
    BY <2>3, LayoutAssumption
  <2>7. PageOf(head_counter[m]) <= PageOf(Turn(k))
        /\ PageUp(Turn(k) + NQueue) <= PageUp(tail_counter[m])
    BY <1>5, <2>3, <2>4, <2>5, <2>6, PagesGrow
  <2>8. lo[m] <= PageNo(k) /\ PageNo(k) + 1 <= hi[m] /\ PageNo(k) \in Nat
    BY <1>6, <2>1, <2>3, <2>7, PageFacts
  <2>9. lo[m] \in Nat /\ hi[m] \in Nat
    BY <1>4, <2>3 DEF Bounded, Numbers
  <2> QED
    BY <2>2, <2>4, <2>8, <2>9 DEF Live, Filled
<1>8. Due(lo, hi, pg)
  BY <1>2, <1>5, <1>7 DEF Due, Stored
<1>9. ASSUME NEW m \in MicroQueues
      PROVE  /\ lo[m] <= hi[m]
             /\ head_counter[m] = NQueue * NextRound(rep_head, m)
             /\ tail_counter[m] = NQueue * NextRound(rep_tail, m)
             /\ head_page[m] = FirstPage(lo, hi, pg, m)
             /\ tail_page[m] = LastPage(lo, hi, pg, m)
  BY <1>2, <1>3, <1>4, <1>5, CounterAtRest DEF Bounded, Lists, Ends
<1>10. lo \in Numbers /\ hi \in Numbers /\ Chain(lo, hi, pg) /\ Distinct(lo, hi, pg)
       /\ Over(head_page, MicroQueues) /\ allocated \subseteq Pages /\ pushed \in Seq(Tasks) /\ Len(pushed) = rep_tail
  BY <1>2, <1>4 DEF Bounded, Lists, FifoInv, WayInv, TypeOK, History
<1>11. Resting(lo, hi, pg)
  BY <1>2, <1>5, <1>6, <1>8, <1>9, <1>10 DEF Resting
<1> QED
  BY <1>11

LEMMA Induction ==
    ASSUME NEW S, NEW a \in Nat, NEW b \in Nat, a \in S,
           \A k \in a .. b - 1 : k \in S => k + 1 \in S
    PROVE  a .. b \subseteq S
<1> DEFINE Bad == {k \in a .. b : k \notin S}
<1>1. SUFFICES ASSUME Bad # {} PROVE FALSE
  OBVIOUS
<1>2. Bad \in SUBSET Nat
  OBVIOUS
<1>3. PICK x \in Bad : \A y \in Bad : ~ (<<y, x>> \in OpToRel(<, Nat))
  <2> HIDE DEF Bad
  <2> QED
    BY <1>1, <1>2, NatLessThanWellFounded, WFMin
<1>4. x \in Nat /\ x \in a .. b /\ x \notin S
  OBVIOUS
<1>5. x - 1 \in Nat /\ x - 1 \in a .. b - 1 /\ (x - 1) + 1 = x
  BY <1>4
<1>6. x - 1 \in S
  <2>1. <<x - 1, x>> \in OpToRel(<, Nat)
    BY <1>4, <1>5 DEF OpToRel
  <2>2. x - 1 \notin Bad
    BY <1>3, <2>1
  <2>3. x - 1 \in a .. b
    BY <1>4, <1>5
  <2> QED
    BY <2>2, <2>3
<1> QED
  BY <1>4, <1>5, <1>6

\* The pages of the next tickets from k on.
PagesFrom(lo, hi, pg, k) ==
    [m \in MicroQueues |->
        IF NextRound(k, m) \div ItemsPerPage < hi[m]
        THEN pg[m][NextRound(k, m) \div ItemsPerPage] ELSE NoPage]

LEMMA IteratorStarts ==
    ASSUME NEW lo, NEW hi, NEW pg, Resting(lo, hi, pg)
    PROVE  PagesFrom(lo, hi, pg, rep_head) = head_page
<1>1. ASSUME NEW m \in MicroQueues
      PROVE  /\ NextRound(rep_head, m) \div ItemsPerPage = lo[m]
             /\ head_page[m] = FirstPage(lo, hi, pg, m)
  <2>1. PICK r : r = NextRound(rep_head, m)
    OBVIOUS
  <2>2. r \in Nat
    BY <2>1, NextRoundMoves DEF Resting
  <2>3. (NQueue * r) \div NQueue = r
    BY <2>2, LayoutAssumption, Z3
  <2>4. lo[m] = PageOf(NQueue * r) /\ head_page[m] = FirstPage(lo, hi, pg, m)
    BY <2>1 DEF Resting
  <2> QED
    BY <2>1, <2>3, <2>4 DEF PageOf
<1>2. Over(head_page, MicroQueues)
  BY DEF Resting
<1> QED
  BY <1>1, <1>2 DEF PagesFrom, FirstPage, Over

LEMMA IteratorMoves ==
    ASSUME NEW lo, NEW hi, NEW pg, Resting(lo, hi, pg), NEW k \in rep_head .. rep_tail - 1
    PROVE  /\ PagesFrom(lo, hi, pg, k)[Micro(k)] = pg[Micro(k)][PageNo(k)]
           /\ Advance(PagesFrom(lo, hi, pg, k), k) = PagesFrom(lo, hi, pg, k + 1)
<1>1. k \in Nat /\ k + 1 \in Nat
  BY DEF Resting
<1>2. PICK n : n = Micro(k)
  OBVIOUS
<1>3. PICK r, p : r = k \div NQueue /\ p = PageNo(k)
  OBVIOUS
<1>4. /\ n \in MicroQueues /\ r \in Nat /\ NextRound(k, n) = r /\ p = r \div ItemsPerPage
      /\ Last(k) <=> r % ItemsPerPage = ItemsPerPage - 1
  BY <1>1, <1>2, <1>3, TurnFacts, NextRoundMoves DEF PageNo, PageOf, Last, Index
<1>5. p \in Live(lo, hi, n)
  BY <1>2, <1>3 DEF Resting, Due
<1>6. lo[n] \in Nat /\ hi[n] \in Nat /\ p \in Nat /\ p < hi[n]
  <2>1. lo[n] \in Nat /\ hi[n] \in Nat
    BY <1>4 DEF Resting, Numbers
  <2>2. p \in Nat
    BY <1>1, <1>3, PageFacts
  <2> QED
    BY <1>5, <2>1, <2>2 DEF Live
<1>7. next[pg[n][p]] = IF p + 1 < hi[n] THEN pg[n][p + 1] ELSE NoPage
  BY <1>4, <1>5 DEF Resting, Chain
<1>8. PICK A, B : A = PagesFrom(lo, hi, pg, k) /\ B = PagesFrom(lo, hi, pg, k + 1)
  OBVIOUS
<1>9. A[n] = pg[n][p]
  BY <1>4, <1>6, <1>8 DEF PagesFrom
<1>10. (r + 1) \div ItemsPerPage = IF Last(k) THEN p + 1 ELSE p
  <2>1. ItemsPerPage \in Nat \ {0}
    BY LayoutAssumption
  <2>2. \/ r % ItemsPerPage < ItemsPerPage - 1 /\ (r + 1) \div ItemsPerPage = r \div ItemsPerPage
        \/ /\ r % ItemsPerPage = ItemsPerPage - 1
           /\ (r + 1) \div ItemsPerPage = r \div ItemsPerPage + 1
    BY <1>4, <2>1, Further
  <2>3. CASE r % ItemsPerPage = ItemsPerPage - 1
    BY <1>4, <2>1, <2>2, <2>3
  <2>4. CASE r % ItemsPerPage # ItemsPerPage - 1
    BY <1>4, <2>2, <2>4
  <2> QED
    BY <2>3, <2>4
<1>11. B[n] = IF Last(k) THEN next[A[n]] ELSE A[n]
  <2>1. NextRound(k + 1, n) = r + 1
    BY <1>1, <1>2, <1>4, NextRoundMoves
  <2>2. B[n] = IF (r + 1) \div ItemsPerPage < hi[n] THEN pg[n][(r + 1) \div ItemsPerPage] ELSE NoPage
    BY <1>4, <1>8, <2>1 DEF PagesFrom
  <2> QED
    BY <1>6, <1>7, <1>9, <1>10, <2>2
<1>12. ASSUME NEW m \in MicroQueues, m # n PROVE B[m] = A[m]
  <2>1. NextRound(k + 1, m) = NextRound(k, m)
    BY <1>1, <1>2, <1>12, NextRoundMoves
  <2> QED
    BY <1>8, <1>12, <2>1 DEF PagesFrom
<1>13. Advance(A, k) = [m \in MicroQueues |-> B[m]]
  BY <1>2, <1>11, <1>12 DEF Advance
<1>14. B = [m \in MicroQueues |-> B[m]]
  BY <1>8 DEF PagesFrom
<1> QED
  BY <1>2, <1>3, <1>8, <1>9, <1>13, <1>14

LEMMA ArrayAtIs ==
    ASSUME NEW lo, NEW hi, NEW pg, Resting(lo, hi, pg)
    PROVE  \A k \in rep_head .. rep_tail : ArrayAt[k] = PagesFrom(lo, hi, pg, k)
<1>1. rep_head \in Nat /\ rep_tail \in Nat
  BY DEF Resting
<1>2. PICK w : w = [k \in rep_head .. rep_tail |-> PagesFrom(lo, hi, pg, k)]
  OBVIOUS
<1>3. ASSUME NEW k \in rep_head .. rep_tail
      PROVE  w[k] = IF k = rep_head THEN head_page ELSE Advance(w[k - 1], k - 1)
  <2>1. CASE k = rep_head
    BY <1>2, <2>1, IteratorStarts
  <2>2. CASE k # rep_head
    <3>1. k - 1 \in rep_head .. rep_tail - 1 /\ k - 1 \in rep_head .. rep_tail /\ (k - 1) + 1 = k
      BY <1>1, <2>2
    <3>2. Advance(PagesFrom(lo, hi, pg, k - 1), k - 1) = PagesFrom(lo, hi, pg, (k - 1) + 1)
      BY <3>1, IteratorMoves
    <3> QED
      BY <1>2, <2>2, <3>1, <3>2
  <2> QED
    BY <2>1, <2>2
<1>4. w = [k \in rep_head .. rep_tail |->
              IF k = rep_head THEN head_page ELSE Advance(w[k - 1], k - 1)]
  BY <1>2, <1>3
<1> DEFINE f == CHOOSE g : g = [k \in rep_head .. rep_tail |->
                                  IF k = rep_head THEN head_page ELSE Advance(g[k - 1], k - 1)]
<1>5. f = [k \in rep_head .. rep_tail |->
              IF k = rep_head THEN head_page ELSE Advance(f[k - 1], k - 1)]
  BY <1>4, Zenon
<1>6. ArrayAt = f
  BY Zenon DEF ArrayAt
<1> HIDE DEF f
<1>7. \A k \in rep_head .. rep_tail :
         f[k] = IF k = rep_head THEN head_page ELSE Advance(f[k - 1], k - 1)
  BY <1>5, Zenon
<1> DEFINE S == {k \in rep_head .. rep_tail : f[k] = w[k]}
<1>8. CASE rep_head \in rep_head .. rep_tail
  <2>1. rep_head \in S
    BY <1>3, <1>7, <1>8
  <2>2. ASSUME NEW k \in rep_head .. rep_tail - 1, k \in S PROVE k + 1 \in S
    <3>1. k + 1 \in rep_head .. rep_tail /\ k + 1 # rep_head /\ (k + 1) - 1 = k
      BY <1>1
    <3>2. f[k] = w[k]
      BY <2>2
    <3>3. f[k + 1] = Advance(f[k], k) /\ w[k + 1] = Advance(w[k], k)
      BY <1>3, <1>7, <3>1
    <3> QED
      BY <3>1, <3>2, <3>3
  <2> HIDE DEF S
  <2>3. rep_head .. rep_tail \subseteq S
    BY <1>1, <2>1, <2>2, Induction
  <2> QED
    BY <1>2, <1>6, <2>3 DEF S
<1> QED
  BY <1>1, <1>8

LEMMA SubSeqGrows ==
    ASSUME NEW S, NEW s \in Seq(S), NEW a \in Nat, NEW k \in Nat, a <= k, k < Len(s)
    PROVE  SubSeq(s, a + 1, k + 1) = Append(SubSeq(s, a + 1, k), s[k + 1])
<1>1. a + 1 \in 1 .. Len(s) /\ k + 1 \in a + 1 .. Len(s) /\ (k + 1) - 1 = k /\ s[k + 1] \in S
      /\ \A j \in a + 1 .. k : s[j] \in S
  OBVIOUS
<1>2. SubSeq(s, a + 1, k + 1) = SubSeq(s, a + 1, k) \o << s[k + 1] >>
  <2>1. SubSeq(s, a + 1, k + 1) = SubSeq(s, a + 1, (k + 1) - 1) \o << s[k + 1] >>
    BY <1>1, SubSeqRecursiveSecond
  <2> QED
    BY <1>1, <2>1
<1>3. SubSeq(s, a + 1, k) \in Seq(S)
  BY <1>1, SubSeqProperties
<1> QED
  BY <1>1, <1>2, <1>3, AppendIsConcat

LEMMA VisitedInOrder ==
    ASSUME NEW lo, NEW hi, NEW pg, Resting(lo, hi, pg)
    PROVE  IteratorInOrder
<1>1. rep_head \in Nat /\ rep_tail \in Nat /\ rep_head <= rep_tail
      /\ pushed \in Seq(Tasks) /\ Len(pushed) = rep_tail
  BY DEF Resting
<1>2. PICK w : w = [k \in rep_head .. rep_tail |-> SubSeq(pushed, rep_head + 1, k)]
  OBVIOUS
<1>3. rep_head \in rep_head .. rep_tail /\ rep_tail \in rep_head .. rep_tail
  BY <1>1
<1>4. w[rep_head] = <<>>
  <2>1. SubSeq(pushed, rep_head + 1, rep_head) = <<>>
    BY <1>1, SubSeqEmpty
  <2> QED
    BY <1>2, <1>3, <2>1
<1>5. ASSUME NEW k \in rep_head .. rep_tail - 1
      PROVE  /\ Valid(ArrayAt[k], k)
             /\ w[k + 1] = Append(w[k], GetItem(ArrayAt[k], k))
  <2>1. k \in Nat /\ k \in rep_head .. rep_tail /\ k + 1 \in rep_head .. rep_tail
        /\ rep_head <= k /\ k < Len(pushed)
    BY <1>1
  <2>2. ArrayAt[k] = PagesFrom(lo, hi, pg, k)
    BY <2>1, ArrayAtIs
  <2>3. ArrayAt[k][Micro(k)] = pg[Micro(k)][PageNo(k)]
    BY <2>2, IteratorMoves
  <2>4. Valid(ArrayAt[k], k) /\ GetItem(ArrayAt[k], k) = pushed[k + 1]
    BY <2>3 DEF Resting, Due, Valid, GetItem
  <2>5. SubSeq(pushed, rep_head + 1, k + 1) = Append(SubSeq(pushed, rep_head + 1, k), pushed[k + 1])
    BY <1>1, <2>1, SubSeqGrows
  <2> QED
    BY <1>2, <2>1, <2>4, <2>5
<1>6. ASSUME NEW k \in rep_head .. rep_tail
      PROVE  w[k] = IF k = rep_head THEN <<>>
                    ELSE IF Valid(ArrayAt[k - 1], k - 1)
                    THEN Append(w[k - 1], GetItem(ArrayAt[k - 1], k - 1)) ELSE w[k - 1]
  <2>1. CASE k = rep_head
    BY <1>4, <2>1
  <2>2. CASE k # rep_head
    <3>1. k - 1 \in rep_head .. rep_tail - 1 /\ (k - 1) + 1 = k
      BY <1>1, <2>2
    <3> QED
      BY <1>5, <2>2, <3>1
  <2> QED
    BY <2>1, <2>2
<1>7. w = [k \in rep_head .. rep_tail |->
              IF k = rep_head THEN <<>>
              ELSE IF Valid(ArrayAt[k - 1], k - 1)
              THEN Append(w[k - 1], GetItem(ArrayAt[k - 1], k - 1)) ELSE w[k - 1]]
  BY <1>2, <1>6
<1> DEFINE f == CHOOSE g : g = [k \in rep_head .. rep_tail |->
              IF k = rep_head THEN <<>>
              ELSE IF Valid(ArrayAt[k - 1], k - 1)
              THEN Append(g[k - 1], GetItem(ArrayAt[k - 1], k - 1)) ELSE g[k - 1]]
<1>8. f = [k \in rep_head .. rep_tail |->
              IF k = rep_head THEN <<>>
              ELSE IF Valid(ArrayAt[k - 1], k - 1)
              THEN Append(f[k - 1], GetItem(ArrayAt[k - 1], k - 1)) ELSE f[k - 1]]
  BY <1>7, Zenon
<1>9. Visited = f[rep_tail]
  BY Zenon DEF Visited
<1> HIDE DEF f
<1>10. \A k \in rep_head .. rep_tail :
          f[k] = IF k = rep_head THEN <<>>
                 ELSE IF Valid(ArrayAt[k - 1], k - 1)
                 THEN Append(f[k - 1], GetItem(ArrayAt[k - 1], k - 1)) ELSE f[k - 1]
  BY <1>8, Zenon
<1> DEFINE S == {k \in rep_head .. rep_tail : f[k] = w[k]}
<1>11. rep_head \in S
  BY <1>3, <1>4, <1>10
<1>12. ASSUME NEW k \in rep_head .. rep_tail - 1, k \in S PROVE k + 1 \in S
  <2>1. k + 1 \in rep_head .. rep_tail /\ k + 1 # rep_head /\ (k + 1) - 1 = k
    BY <1>1
  <2>2. f[k] = w[k]
    BY <1>12
  <2>3. Valid(ArrayAt[k], k) /\ w[k + 1] = Append(w[k], GetItem(ArrayAt[k], k))
    BY <1>5
  <2>4. f[k + 1] = Append(f[k], GetItem(ArrayAt[k], k))
    BY <1>10, <2>1, <2>3
  <2> QED
    BY <2>1, <2>2, <2>3, <2>4
<1> HIDE DEF S
<1>13. rep_head .. rep_tail \subseteq S
  BY <1>1, <1>11, <1>12, Induction
<1>14. f[rep_tail] = w[rep_tail]
  BY <1>3, <1>13 DEF S
<1> QED
  BY <1>2, <1>3, <1>9, <1>14 DEF IteratorInOrder, Contents

\* No more pages than rounds, and no more rounds than the counter says.
LEMMA FewPages ==
    ASSUME NEW n \in Nat \ {0}, NEW t \in Nat
    PROVE  (t + n - 1) \div n <= t
<1> DEFINE q == (t + n - 1) \div n
           r == (t + n - 1) % n
<1>1. t + n - 1 \in Nat
  OBVIOUS
<1>2. q \in Nat /\ r \in 0 .. n - 1 /\ t + n - 1 = n * q + r
  BY <1>1, Division
<1> HIDE DEF q, r
<1>3. ~(t < q)
  <2> SUFFICES ASSUME t < q PROVE FALSE
    OBVIOUS
  <2>1. PICK d \in Nat : q = t + 1 + d
    <3>1. q - t - 1 \in Nat /\ q = t + 1 + (q - t - 1)
      BY <1>2
    <3> QED
      BY <3>1
  <2>2. n * q = n + n * t + n * d /\ n * t \in Nat /\ n * d \in Nat
    BY <2>1, Z3
  <2>3. n * t >= t
    BY Z3
  <2> QED
    BY <1>2, <2>2, <2>3
<1> QED
  BY <1>2, <1>3 DEF q

LEMMA RoundsAtRest ==
    ASSUME NEW lo, NEW hi, NEW pg, Resting(lo, hi, pg), NEW m \in MicroQueues,
           NEW h, NEW t, h = NextRound(rep_head, m), t = NextRound(rep_tail, m)
    PROVE  /\ h \in Nat /\ t \in Nat /\ h <= t
           /\ head_counter[m] = NQueue * h /\ tail_counter[m] = NQueue * t
           /\ head_counter[m] \div NQueue = h /\ tail_counter[m] \div NQueue = t
           /\ (tail_counter[m] - head_counter[m]) \div NQueue = t - h
           /\ lo[m] = h \div ItemsPerPage
           /\ hi[m] = (t + ItemsPerPage - 1) \div ItemsPerPage
           /\ tail_counter[m] \in Nat /\ t <= tail_counter[m]
<1>1. h \in Nat /\ t \in Nat
  BY NextRoundMoves DEF Resting
<1>2. /\ head_counter[m] = NQueue * h /\ tail_counter[m] = NQueue * t
      /\ head_counter[m] <= tail_counter[m]
      /\ lo[m] = PageOf(head_counter[m]) /\ hi[m] = PageUp(tail_counter[m])
  BY DEF Resting
<1> DEFINE n == NQueue
<1>3. n \in Nat \ {0}
  BY LayoutAssumption
<1>4. n * h <= n * t
  BY <1>2
<1> HIDE DEF n
<1>5. h <= t
  BY <1>1, <1>3, <1>4, Z3
<1>6. (n * h) \div n = h /\ (n * t) \div n = t
  BY <1>1, <1>3, Z3
<1>7. (n * t - n * h) \div n = t - h
  <2>1. n * t - n * h = n * (t - h) + 0 /\ t - h \in Nat /\ 0 \in 0 .. n - 1
    BY <1>1, <1>3, <1>5, Z3
  <2> QED
    BY <1>3, <2>1, Quotient
<1>8. n * t \in Nat /\ t <= n * t
  BY <1>1, <1>3, Z3
<1> QED
  BY <1>1, <1>2, <1>5, <1>6, <1>7, <1>8 DEF n, PageOf, PageUp

\* The number of the page that the walk has come to, which stays at the last.
WalkNo(lo, hi, m, j) == IF j <= hi[m] - lo[m] THEN lo[m] + j - 1 ELSE hi[m] - 1

LEMMA PageAtIs ==
    ASSUME NEW lo, NEW hi, NEW pg, Resting(lo, hi, pg), NEW m \in MicroQueues, lo[m] < hi[m]
    PROVE  /\ DOMAIN PageAt(m) = 1 .. tail_counter[m]
           /\ \A j \in 1 .. tail_counter[m] : PageAt(m)[j] = pg[m][WalkNo(lo, hi, m, j)]
<1>1. lo[m] \in Nat /\ hi[m] \in Nat /\ tail_counter[m] \in Nat
  BY RoundsAtRest DEF Resting, Numbers
<1>2. /\ head_page[m] = pg[m][lo[m]] /\ tail_page[m] = pg[m][hi[m] - 1]
  BY DEF Resting, FirstPage, LastPage
<1>3. PICK N : N = tail_counter[m]
  OBVIOUS
<1>4. PICK w : w = [j \in 1 .. N |-> pg[m][WalkNo(lo, hi, m, j)]]
  OBVIOUS
<1>5. ASSUME NEW j \in 1 .. N
      PROVE  w[j] = IF j = 1 THEN head_page[m]
                    ELSE IF w[j - 1] = tail_page[m] THEN w[j - 1] ELSE next[w[j - 1]]
  <2>1. CASE j = 1
    BY <1>1, <1>2, <1>4, <2>1 DEF WalkNo
  <2>2. CASE j # 1
    <3>1. j - 1 \in 1 .. N
      BY <1>1, <1>3, <2>2
    <3>2. PICK i : i = WalkNo(lo, hi, m, j - 1)
      OBVIOUS
    <3>3. /\ i \in Live(lo, hi, m) /\ hi[m] - 1 \in Live(lo, hi, m) /\ i \in Nat
          /\ WalkNo(lo, hi, m, j) = IF i = hi[m] - 1 THEN i ELSE i + 1
          /\ i # hi[m] - 1 => i + 1 < hi[m]
      BY <1>1, <1>3, <2>2, <3>2 DEF WalkNo, Live
    <3>4. w[j - 1] = pg[m][i]
      BY <1>4, <3>1, <3>2
    <3>5. w[j - 1] = tail_page[m] => i = hi[m] - 1
      <4>1. Distinct(lo, hi, pg)
        BY DEF Resting
      <4>2. \A a, b \in Live(lo, hi, m) : pg[m][a] = pg[m][b] => a = b
        BY <4>1 DEF Distinct
      <4> QED
        BY <1>2, <3>3, <3>4, <4>2
    <3>6. next[pg[m][i]] = IF i + 1 < hi[m] THEN pg[m][i + 1] ELSE NoPage
      BY <3>3 DEF Resting, Chain
    <3>7. w[j] = pg[m][IF i = hi[m] - 1 THEN i ELSE i + 1]
      BY <1>4, <3>3
    <3> QED
      BY <1>2, <2>2, <3>3, <3>4, <3>5, <3>6, <3>7
  <2> QED
    BY <2>1, <2>2
<1>6. w = [j \in 1 .. N |->
              IF j = 1 THEN head_page[m]
              ELSE IF w[j - 1] = tail_page[m] THEN w[j - 1] ELSE next[w[j - 1]]]
  BY <1>4, <1>5
<1> DEFINE f == CHOOSE g : g = [j \in 1 .. tail_counter[m] |->
              IF j = 1 THEN head_page[m]
              ELSE IF g[j - 1] = tail_page[m] THEN g[j - 1] ELSE next[g[j - 1]]]
<1>7. w = [j \in 1 .. tail_counter[m] |->
              IF j = 1 THEN head_page[m]
              ELSE IF w[j - 1] = tail_page[m] THEN w[j - 1] ELSE next[w[j - 1]]]
  BY <1>3, <1>6, Zenon
<1>8. f = [j \in 1 .. tail_counter[m] |->
              IF j = 1 THEN head_page[m]
              ELSE IF f[j - 1] = tail_page[m] THEN f[j - 1] ELSE next[f[j - 1]]]
  BY <1>7, Zenon
<1>9. PageAt(m) = f
  BY Zenon DEF PageAt
<1> HIDE DEF f
<1>10. /\ DOMAIN f = 1 .. tail_counter[m]
       /\ \A j \in 1 .. tail_counter[m] :
             f[j] = IF j = 1 THEN head_page[m]
                    ELSE IF f[j - 1] = tail_page[m] THEN f[j - 1] ELSE next[f[j - 1]]
  BY <1>8, Zenon
<1> DEFINE S == {j \in 1 .. N : f[j] = w[j]}
<1>11. CASE N # 0
  <2>1. 1 \in S
    BY <1>1, <1>3, <1>5, <1>10, <1>11
  <2>2. ASSUME NEW j \in 1 .. N - 1, j \in S PROVE j + 1 \in S
    <3>1. j + 1 \in 1 .. N /\ j + 1 # 1 /\ (j + 1) - 1 = j
      BY <1>1, <1>3
    <3>2. f[j] = w[j]
      BY <2>2
    <3>3. /\ f[j + 1] = IF f[j] = tail_page[m] THEN f[j] ELSE next[f[j]]
          /\ w[j + 1] = IF w[j] = tail_page[m] THEN w[j] ELSE next[w[j]]
      BY <1>3, <1>5, <1>10, <3>1
    <3> QED
      BY <3>1, <3>2, <3>3
  <2> HIDE DEF S
  <2>3. 1 .. N \subseteq S
    BY <1>1, <1>3, <2>1, <2>2, Induction
  <2> QED
    BY <1>3, <1>4, <1>9, <1>10, <2>3 DEF S
<1>12. CASE N = 0
  BY <1>3, <1>9, <1>10, <1>12
<1> QED
  BY <1>11, <1>12

\* The pages of the copy are those of the list, in order.
LEMMA AssignIs ==
    ASSUME NEW lo, NEW hi, NEW pg, Resting(lo, hi, pg), NEW m \in MicroQueues, lo[m] < hi[m],
           NEW h, NEW t, h = NextRound(rep_head, m), t = NextRound(rep_tail, m),
           NEW d, d = hi[m] - lo[m]
    PROVE  /\ DOMAIN Assign(m) = 1 .. d
           /\ \A j \in 1 .. d :
                 Assign(m)[j] =
                    MakeCopy(pg[m][lo[m] + j - 1], IF j = 1 THEN h % ItemsPerPage ELSE 0,
                             IF j = 1
                             THEN IF (h % ItemsPerPage) + (t - h) < ItemsPerPage
                                  THEN (h % ItemsPerPage) + (t - h) ELSE ItemsPerPage
                             ELSE IF j = d THEN LastIndex(m) ELSE ItemsPerPage)
<1>1. lo[m] \in Nat /\ hi[m] \in Nat /\ tail_counter[m] \in Nat /\ t <= tail_counter[m] /\ t \in Nat
      /\ hi[m] = (t + ItemsPerPage - 1) \div ItemsPerPage
  <2>1. lo[m] \in Nat /\ hi[m] \in Nat
    BY DEF Resting, Numbers
  <2> QED
    BY <2>1, RoundsAtRest
<1>2. d \in Nat /\ d >= 1 /\ d <= tail_counter[m]
  <2>1. hi[m] <= t
    BY <1>1, FewPages, LayoutAssumption
  <2> QED
    BY <1>1, <2>1
<1>3. /\ DOMAIN PageAt(m) = 1 .. tail_counter[m]
      /\ \A j \in 1 .. tail_counter[m] : PageAt(m)[j] = pg[m][WalkNo(lo, hi, m, j)]
  BY PageAtIs
<1>4. tail_page[m] = pg[m][hi[m] - 1] /\ head_page[m] # NoPage
  <2>1. lo[m] \in Live(lo, hi, m)
    BY <1>1 DEF Live
  <2>2. head_page[m] = pg[m][lo[m]] /\ pg[m][lo[m]] \in allocated
    BY <2>1 DEF Resting, Chain, FirstPage
  <2>3. allocated \subseteq Pages
    BY DEF Resting
  <2> QED
    BY <2>2, <2>3, ThreadAssumption DEF Resting, LastPage
<1> DEFINE IsLast(j) == PageAt(m)[j] = tail_page[m]
           last == CHOOSE j \in DOMAIN PageAt(m) : IsLast(j) /\ \A i \in 1 .. j - 1 : ~IsLast(i)
           index == (head_counter[m] \div NQueue) % ItemsPerPage
           n_items == (tail_counter[m] - head_counter[m]) \div NQueue
           end_in_first_page ==
              IF index + n_items < ItemsPerPage THEN index + n_items ELSE ItemsPerPage
           End(j) == IF j = 1 THEN end_in_first_page
                     ELSE IF j = last THEN LastIndex(m) ELSE ItemsPerPage
<1>5. Assign(m) = [j \in 1 .. last |-> MakeCopy(PageAt(m)[j], IF j = 1 THEN index ELSE 0, End(j))]
  BY <1>4, Zenon DEF Assign
<1>6. ASSUME NEW j \in 1 .. tail_counter[m] PROVE IsLast(j) <=> j >= d
  <2>1. PICK i : i = WalkNo(lo, hi, m, j)
    OBVIOUS
  <2>2. i \in Live(lo, hi, m) /\ hi[m] - 1 \in Live(lo, hi, m) /\ (i = hi[m] - 1 <=> j >= d)
    BY <1>1, <1>2, <2>1 DEF WalkNo, Live
  <2>3. Distinct(lo, hi, pg)
    BY DEF Resting
  <2>4. \A a, b \in Live(lo, hi, m) : pg[m][a] = pg[m][b] => a = b
    BY <2>3 DEF Distinct
  <2> QED
    BY <1>3, <1>4, <2>1, <2>2, <2>4
<1>7. last = d
  <2>1. d \in DOMAIN PageAt(m) /\ IsLast(d) /\ \A i \in 1 .. d - 1 : ~IsLast(i)
    <3>1. \A i \in 1 .. d - 1 : i \in 1 .. tail_counter[m] /\ ~(i >= d)
      BY <1>1, <1>2
    <3>2. d \in 1 .. tail_counter[m] /\ d >= d
      BY <1>1, <1>2
    <3> HIDE DEF IsLast
    <3> QED
      BY <1>3, <1>6, <3>1, <3>2
  <2>2. ASSUME NEW e \in DOMAIN PageAt(m), IsLast(e), \A i \in 1 .. e - 1 : ~IsLast(i)
        PROVE  e = d
    <3>1. e \in 1 .. tail_counter[m]
      BY <1>3, <2>2
    <3>2. e >= d
      BY <1>6, <2>2, <3>1
    <3>3. ~(e > d)
      <4>1. e > d => d \in 1 .. e - 1
        BY <1>1, <1>2, <3>1
      <4> QED
        BY <2>1, <2>2, <4>1
    <3> QED
      BY <1>1, <1>2, <3>1, <3>2, <3>3
  <2> HIDE DEF IsLast
  <2> QED
    BY <2>1, <2>2
<1>8. index = h % ItemsPerPage /\ n_items = t - h
  BY RoundsAtRest
<1> HIDE DEF IsLast, last, index, n_items
<1>9. \A j \in 1 .. d : PageAt(m)[j] = pg[m][lo[m] + j - 1]
  BY <1>1, <1>2, <1>3 DEF WalkNo
<1> QED
  BY <1>5, <1>7, <1>8, <1>9

\* Round r is in a list from round h up to, not with, t: what its place in the
\* first and the last page of the list, with n rounds in a page, can be.
LEMMA PlaceInList ==
    ASSUME NEW n \in Nat \ {0}, NEW h \in Nat, NEW t \in Nat, NEW r \in Nat, h <= r, r < t
    PROVE  /\ h \div n <= r \div n /\ r \div n < (t + n - 1) \div n
           /\ r \div n = h \div n => h % n <= r % n /\ r % n < (h % n) + (t - h)
           /\ r \div n = (t + n - 1) \div n - 1 => t % n = 0 \/ r % n < t % n
<1> DEFINE a == h \div n
           i == h % n
           b == r \div n
           j == r % n
           c == t \div n
           s == t % n
<1>1. /\ a \in Nat /\ i \in 0 .. n - 1 /\ h = n * a + i
      /\ b \in Nat /\ j \in 0 .. n - 1 /\ r = n * b + j
      /\ c \in Nat /\ s \in 0 .. n - 1 /\ t = n * c + s
  BY Division
<1>2. a <= b /\ b <= c
  BY Quotients
<1> HIDE DEF a, i, b, j, c, s
<1>3. n * a \in Nat /\ n * b \in Nat /\ n * c \in Nat /\ c + 1 \in Nat /\ n * (c + 1) = n * c + n
  BY <1>1, Z3
<1>4. (t + n - 1) \div n = IF s = 0 THEN c ELSE c + 1
  <2>1. CASE s = 0
    <3>1. t + n - 1 = n * c + (n - 1) /\ n - 1 \in 0 .. n - 1
      BY <1>1, <1>3, <2>1
    <3> QED
      BY <1>1, <2>1, <3>1, Quotient
  <2>2. CASE s # 0
    <3>1. t + n - 1 = n * (c + 1) + (s - 1) /\ s - 1 \in 0 .. n - 1
      BY <1>1, <1>3, <2>2
    <3> QED
      BY <1>3, <2>2, <3>1, Quotient
  <2> QED
    BY <2>1, <2>2
<1>5. s = 0 => b < c
  <2>1. b = c => j < s
    BY <1>1, <1>3
  <2> QED
    BY <1>1, <1>2, <2>1
<1>6. b = a => i <= j /\ j < i + (t - h)
  BY <1>1, <1>3
<1>7. b = c => s = 0 \/ j < s
  BY <1>1, <1>3
<1>8. b < (t + n - 1) \div n
  BY <1>1, <1>2, <1>4, <1>5
<1>9. b = (t + n - 1) \div n - 1 => s = 0 \/ j < s
  BY <1>1, <1>4, <1>7
<1> QED
  BY <1>2, <1>6, <1>8, <1>9 DEF a, b, i, j, s

LEMMA RoundOfTicket ==
    ASSUME NEW lo, NEW hi, NEW pg, Resting(lo, hi, pg), NEW m \in MicroQueues,
           NEW h, NEW t, h = NextRound(rep_head, m), t = NextRound(rep_tail, m),
           NEW k \in Nat, Micro(k) = m, NEW r, r = k \div NQueue
    PROVE  /\ r \in Nat
           /\ k \in rep_head .. rep_tail - 1 <=> h <= r /\ r < t
           /\ PageNo(k) = r \div ItemsPerPage /\ Index(k) = r % ItemsPerPage
           /\ PageNumber(m, k) = PageNo(k) - lo[m] + 1
<1>1. r \in Nat /\ k % NQueue \in 0 .. NQueue - 1 /\ k = NQueue * r + (k % NQueue)
  BY Division, LayoutAssumption
<1>2. Turn(k) = NQueue * r
  <2>1. NQueue * r \in Nat
    BY <1>1, LayoutAssumption
  <2> QED
    BY <1>1, <2>1 DEF Turn
<1>3. rep_head \in Nat /\ rep_tail \in Nat
  BY DEF Resting
<1>4. (k < rep_head <=> r < h) /\ (k < rep_tail <=> r < t)
  BY <1>1, <1>2, <1>3, NextRoundIs
<1>5. h \in Nat /\ t \in Nat /\ head_counter[m] \div NQueue = h /\ lo[m] = h \div ItemsPerPage
  BY RoundsAtRest
<1>6. k \in rep_head .. rep_tail - 1 <=> h <= r /\ r < t
  BY <1>1, <1>3, <1>4, <1>5
<1> QED
  BY <1>1, <1>5, <1>6 DEF PageNo, PageOf, Index, PageNumber

\* A ticket finds its item in the copy.
LEMMA CopyHasItem ==
    ASSUME NEW lo, NEW hi, NEW pg, Resting(lo, hi, pg),
           NEW k \in rep_head .. rep_tail - 1, NEW m, m = Micro(k)
    PROVE  /\ PageNumber(m, k) \in DOMAIN Assign(m)
           /\ Assign(m)[PageNumber(m, k)][Index(k)] = pushed[k + 1]
<1>1. k \in Nat /\ m \in MicroQueues
  BY TurnFacts DEF Resting
<1>2. PICK h, t, r, d, j :
         h = NextRound(rep_head, m) /\ t = NextRound(rep_tail, m) /\ r = k \div NQueue
         /\ d = hi[m] - lo[m] /\ j = PageNumber(m, k)
  OBVIOUS
<1>3. /\ r \in Nat /\ h <= r /\ r < t
      /\ PageNo(k) = r \div ItemsPerPage /\ Index(k) = r % ItemsPerPage
      /\ j = PageNo(k) - lo[m] + 1
  BY <1>1, <1>2, RoundOfTicket
<1>4. /\ h \in Nat /\ t \in Nat /\ lo[m] = h \div ItemsPerPage
      /\ hi[m] = (t + ItemsPerPage - 1) \div ItemsPerPage
      /\ tail_counter[m] \div NQueue = t
  BY <1>1, <1>2, RoundsAtRest
<1>5. PICK p, i : p = PageNo(k) /\ i = Index(k)
  OBVIOUS
<1>6. p \in Live(lo, hi, m) /\ slot[pg[m][p]][i] = pushed[k + 1] /\ i \in mask[pg[m][p]]
  BY <1>5 DEF Resting, Due
<1>7. lo[m] \in Nat /\ hi[m] \in Nat /\ p \in Nat /\ i \in 0 .. ItemsPerPage - 1
  <2>1. lo[m] \in Nat /\ hi[m] \in Nat
    BY <1>1 DEF Resting, Numbers
  <2> QED
    BY <1>1, <1>5, <2>1, PageFacts
<1>8. d \in Nat /\ lo[m] < hi[m] /\ j \in 1 .. d /\ lo[m] + j - 1 = p
  BY <1>2, <1>3, <1>5, <1>6, <1>7 DEF Live
<1>9. /\ p = h \div ItemsPerPage => h % ItemsPerPage <= i /\ i < (h % ItemsPerPage) + (t - h)
      /\ p = hi[m] - 1 => t % ItemsPerPage = 0 \/ i < t % ItemsPerPage
  BY <1>3, <1>4, <1>5, PlaceInList, LayoutAssumption
<1>10. PICK begin, end :
         /\ begin = IF j = 1 THEN h % ItemsPerPage ELSE 0
         /\ end = IF j = 1
                  THEN IF (h % ItemsPerPage) + (t - h) < ItemsPerPage
                       THEN (h % ItemsPerPage) + (t - h) ELSE ItemsPerPage
                  ELSE IF j = d THEN LastIndex(m) ELSE ItemsPerPage
  OBVIOUS
<1>11. DOMAIN Assign(m) = 1 .. d /\ Assign(m)[j] = MakeCopy(pg[m][p], begin, end)
  BY <1>1, <1>2, <1>8, <1>10, AssignIs
<1>12. i \in begin .. end - 1
  <2>1. h % ItemsPerPage \in 0 .. ItemsPerPage - 1 /\ ItemsPerPage \in Nat \ {0}
        /\ t % ItemsPerPage \in 0 .. ItemsPerPage - 1
    BY <1>4, Division, LayoutAssumption
  <2>2. CASE j = 1
    <3>1. p = h \div ItemsPerPage
      BY <1>4, <1>7, <1>8, <2>2
    <3> QED
      BY <1>4, <1>7, <1>9, <1>10, <2>1, <2>2, <3>1
  <2>3. CASE j # 1 /\ j = d
    <3>1. p = hi[m] - 1
      BY <1>2, <1>7, <1>8, <2>3
    <3>2. LastIndex(m) = IF t % ItemsPerPage = 0 THEN ItemsPerPage ELSE t % ItemsPerPage
      BY <1>4 DEF LastIndex
    <3> QED
      BY <1>7, <1>9, <1>10, <2>1, <2>3, <3>1, <3>2
  <2>4. CASE j # 1 /\ j # d
    BY <1>7, <1>10, <2>1, <2>4
  <2> QED
    BY <2>2, <2>3, <2>4
<1>13. MakeCopy(pg[m][p], begin, end)[i] = slot[pg[m][p]][i]
  BY <1>6, <1>7, <1>12 DEF MakeCopy
<1> QED
  BY <1>2, <1>5, <1>6, <1>8, <1>11, <1>13

\* A page of the copy, but for the first, has the item of a ticket.
LEMMA CopyHasNoMore ==
    ASSUME NEW lo, NEW hi, NEW pg, Resting(lo, hi, pg), NEW m \in MicroQueues,
           NEW j \in DOMAIN Assign(m), j # 1
    PROVE  \E k \in rep_head .. rep_tail - 1 : Micro(k) = m /\ PageNumber(m, k) = j
<1>1. lo[m] \in Nat /\ hi[m] \in Nat /\ lo[m] <= hi[m] /\ head_page[m] = FirstPage(lo, hi, pg, m)
  BY DEF Resting, Numbers
<1>2. CASE lo[m] = hi[m]
  <2>1. head_page[m] = NoPage
    BY <1>1, <1>2 DEF FirstPage
  <2>2. Assign(m) = <<>>
    BY <2>1 DEF Assign
  <2>3. DOMAIN <<>> = {}
    OBVIOUS
  <2> QED
    BY <2>2, <2>3
<1>3. CASE lo[m] < hi[m]
  <2>1. PICK h, t, d :
           h = NextRound(rep_head, m) /\ t = NextRound(rep_tail, m) /\ d = hi[m] - lo[m]
    OBVIOUS
  <2>2. /\ h \in Nat /\ t \in Nat /\ lo[m] = h \div ItemsPerPage
        /\ hi[m] = (t + ItemsPerPage - 1) \div ItemsPerPage
    BY <2>1, RoundsAtRest
  <2>3. j \in 1 .. d
    BY <1>3, <2>1, AssignIs
  <2> DEFINE n == ItemsPerPage
             a == lo[m]
             b == hi[m]
             p == a + j - 1
             q == n * p
  <2>4. n \in Nat \ {0} /\ a \in Nat /\ b \in Nat /\ p \in Nat /\ a < p /\ p < b
    BY <1>1, <2>1, <2>3, LayoutAssumption
  <2>5. /\ h % n \in 0 .. n - 1 /\ h = n * a + (h % n)
        /\ (t + n - 1) % n \in 0 .. n - 1 /\ t + n - 1 = n * b + ((t + n - 1) % n)
    <3>1. t + n - 1 \in Nat
      BY <2>2, <2>4
    <3> QED
      BY <2>2, <2>4, <3>1, Division
  <2>6. (n * p) \div n = p
    BY <2>4, Z3
  <2> HIDE DEF n, a, b, p
  <2>7. q \in Nat /\ h <= q /\ q < t
    <3>1. n * a \in Nat /\ n * p \in Nat /\ n * b \in Nat /\ n * a < n * p /\ n * p < n * b
      BY <2>4, Z3
    <3>2. n * a + n <= n * p /\ n * p + n <= n * b
      BY <2>4, <3>1, Multiples
    <3> QED
      BY <2>2, <2>4, <2>5, <3>1, <3>2
  <2> HIDE DEF q
  <2>8. PICK k \in Nat : Micro(k) = m /\ Turn(k) = NQueue * q
    BY <2>7, EveryTurn
  <2>9. k \div NQueue = q
    <3>1. k = NQueue * q + (k % NQueue) /\ k % NQueue \in 0 .. NQueue - 1
      BY <2>8, TurnFacts DEF MicroQueues
    <3> QED
      BY <2>7, <3>1, Quotient, LayoutAssumption
  <2>10. /\ k \in rep_head .. rep_tail - 1
         /\ PageNumber(m, k) = (q \div ItemsPerPage) - lo[m] + 1
    BY <2>1, <2>7, <2>8, <2>9, RoundOfTicket
  <2>11. PageNumber(m, k) = j
    <3>1. q \div ItemsPerPage = p
      BY <2>6 DEF q, n
    <3>2. p = lo[m] + j - 1 /\ j \in Int
      BY <2>3 DEF p, a
    <3> QED
      BY <1>1, <2>10, <3>1, <3>2
  <2> QED
    BY <2>8, <2>10, <2>11
<1> QED
  BY <1>1, <1>2, <1>3

LEMMA WalksMeet == ASSUME FifoInv PROVE WalksMeetItems
<1> SUFFICES ASSUME AtRest PROVE IteratorInOrder /\ CopyHasItems
  BY DEF WalksMeetItems
<1>1. PICK lo, hi, pg : Resting(lo, hi, pg)
  BY Rests
<1>2. IteratorInOrder
  BY <1>1, VisitedInOrder
<1>3. ASSUME NEW m \in MicroQueues, NEW k \in {i \in rep_head .. rep_tail - 1 : Micro(i) = m}
      PROVE  /\ PageNumber(m, k) \in DOMAIN Assign(m)
             /\ Assign(m)[PageNumber(m, k)][Index(k)] = pushed[k + 1]
  <2>1. k \in rep_head .. rep_tail - 1 /\ m = Micro(k)
    BY <1>3
  <2> QED
    BY <1>1, <2>1, CopyHasItem
<1>4. ASSUME NEW m \in MicroQueues, NEW j \in DOMAIN Assign(m), j # 1
      PROVE  \E k \in {i \in rep_head .. rep_tail - 1 : Micro(i) = m} : PageNumber(m, k) = j
  BY <1>1, <1>4, CopyHasNoMore
<1>5. CopyHasItems
  BY <1>3, <1>4, Zenon DEF CopyHasItems
<1> QED
  BY <1>2, <1>5

(***************************************************************************)
(* The walks over a queue at rest (lines 616 to 730 and 286 to 335) meet   *)
(* the items of the tickets that are pushed and not popped, each in its    *)
(* place: the iterator in the order of the tickets, the copy in the page   *)
(* and at the index where a pop looks for it, for any number of micro      *)
(* queues, pages and items in a page, and wherever in a page the first and *)
(* the last item are.                                                      *)
(***************************************************************************)
THEOREM WalksMeetItemsHolds == HSpec => []WalksMeetItems
<1>1. HInit => FifoInv
  BY InitFifoInv
<1>2. FifoInv /\ [HNext]_hvars => FifoInv'
  <2>1. FifoInv /\ HNext => FifoInv'
    BY StepFifoInv
  <2>2. FifoInv /\ UNCHANGED hvars => FifoInv'
    BY StayFifoInv
  <2> QED
    BY <2>1, <2>2
<1>3. FifoInv => WalksMeetItems
  BY WalksMeet
<1> QED
  BY <1>1, <1>2, <1>3, PTL DEF HSpec

=============================================================================
