-------------------------- MODULE ClientServerProofs --------------------------
(***************************************************************************)
(* Proofs about the benchmark over RPC, for any number of clients, servers *)
(* and keys, any batch size that divides the range of a client, any hash   *)
(* buckets, and whatever the fresh request buffers hold.                   *)
(***************************************************************************)
EXTENDS ClientServer, TLAPS, FiniteSetTheorems, SequenceTheorems

(***************************************************************************)
(* The inductive invariant.  A client has sent whole batches, hence the    *)
(* next one ends within its range.  A server thread works on a request     *)
(* that is still on the wire, from a client of its own, and prepares a     *)
(* reply of the same type.                                                 *)
(***************************************************************************)
Kinds == {"insert", "search"}

TypeInv ==
    /\ phase \in [Clients -> Kinds \cup {"unborn", "done"}]
    /\ sent \in [Clients -> Nat]
    /\ complete \in [Clients -> BOOLEAN]
    /\ type \in [Clients -> Kinds \cup {"none"}]
    /\ buf \in [Clients -> [BufWords -> Int]]
    /\ wire = [c \in Clients |-> wire[c]]
    /\ reply = [c \in Clients |-> reply[c]]
    /\ handling \in [Servers -> Clients \cup {Idle}]
    /\ batch = [s \in Servers |-> batch[s]]

SentWhole == \A c \in Clients : sent[c] % NumBatch = 0

IsReply(r) == r = [type |-> r.type, count |-> r.count, found |-> r.found]

AtWork ==
    \A s \in Servers : handling[s] # Idle =>
        /\ ServerOf(handling[s]) = s
        /\ wire[handling[s]] # NoRequest
        /\ batch[s].type = wire[handling[s]].type
        /\ IsReply(batch[s])

Inv == TypeInv /\ SentWhole /\ OneClientPerKey /\ ReplyAnswersRequest /\ AtWork

-----------------------------------------------------------------------------
(***************************************************************************)
(* A batch that starts at a multiple of its size below the size of the     *)
(* range ends within the range.                                            *)
(***************************************************************************)
LEMMA BatchFits ==
    ASSUME NEW n \in Nat, NEW m \in Nat, NEW b \in Nat \ {0},
           n % b = 0, m % b = 0, n < m
    PROVE  n + b <= m /\ (n + b) % b = 0
<1>1. n = b * (n \div b) /\ m = b * (m \div b)
  BY Z3
<1>2. n \div b \in Int /\ m \div b \in Int
  BY Z3
<1>3. n + b <= m
  <2>1. ASSUME NEW p \in Int, NEW q \in Int, b * p < b * q PROVE b * p + b <= b * q
    <3>1. p + 1 <= q
      BY <2>1, Z3
    <3>2. b * (p + 1) <= b * q
      BY <3>1, Z3
    <3>3. b * (p + 1) = b * p + b
      BY Z3
    <3> QED
      BY <3>2, <3>3
  <2> QED
    BY <1>1, <1>2, <2>1
<1>4. (n + b) % b = 0
  <2> DEFINE p == (n + b) \div b
             q == n \div b
             d == (n + b) % b
  <2>1. p \in Int /\ d \in 0 .. b - 1 /\ n + b = b * p + d
    BY Z3
  <2>2. b * q + b = b * p + d /\ q \in Int
    BY <1>1, <1>2, <2>1
  <2> HIDE DEF p, q, d
  <2>3. b * (q + 1 - p) = d
    <3>1. b * (q + 1 - p) = b * q + b - b * p
      BY <2>1, <2>2, Z3
    <3>2. b * q \in Int /\ b * p \in Int
      BY <2>1, <2>2, Z3
    <3> QED
      BY <2>1, <2>2, <3>1, <3>2
  <2>4. d = 0
    <3>1. CASE q + 1 - p <= 0
      <4>1. b * (q + 1 - p) <= 0
        BY <2>1, <2>2, <3>1, Z3
      <4> QED
        BY <2>1, <2>3, <4>1
    <3>2. CASE q + 1 - p >= 1
      <4>1. b * (q + 1 - p) >= b
        BY <2>1, <2>2, <3>2, Z3
      <4> QED
        BY <2>1, <2>3, <4>1
    <3> QED
      BY <2>1, <2>2, <3>1, <3>2
  <2> QED
    BY <2>4 DEF d
<1> QED
  BY <1>3, <1>4

(***************************************************************************)
(* Every number that a request writes into the buffer is one of the batch; *)
(* in particular what stands where a key starts.                           *)
(***************************************************************************)
LEMMA KeyNumbers ==
    ASSUME NEW b \in [BufWords -> Int], NEW kind \in Kinds,
           NEW c \in Clients, NEW i \in Nat,
           NEW keys, keys = KeysIn(Filled(b, kind, Numbers(c, i)), kind)
    PROVE  \A j \in DOMAIN keys :
              \E m \in 1 .. NumBatch : keys[j][1] = Base(c) + i + m - 1
<1> DEFINE f == Filled(b, kind, Numbers(c, i))
<1>1. DOMAIN keys = 1 .. NumBatch
  BY DEF KeysIn
<1>2. ASSUME NEW j \in 1 .. NumBatch
      PROVE  \E m \in 1 .. NumBatch : keys[j][1] = Base(c) + i + m - 1
  <2>1. keys[j][1] = f[KeyAt(kind, j)]
    BY DEF KeysIn
  <2>2. KeyAt(kind, j) \in BufWords
    <3>1. NumBatch \in Nat \ {0} /\ j - 1 \in 0 .. NumBatch - 1
      BY BenchmarkAssumption
    <3>2. KeyAt(kind, j) = (j - 1) * 10 \/ KeyAt(kind, j) = (j - 1) * 2
      BY DEF KeyAt, Kinds, KeyWords, ValueWords
    <3> QED
      BY <3>1, <3>2 DEF BufWords, KeyWords, ValueWords
  <2>3. KeyAt(kind, j) \in WordsOf(kind, j)
    BY DEF WordsOf
  <2> DEFINE m == CHOOSE n \in 1 .. NumBatch : KeyAt(kind, j) \in WordsOf(kind, n)
  <2>4. m \in 1 .. NumBatch
    BY <2>3
  <2>5. f[KeyAt(kind, j)] = Numbers(c, i)[m]
    BY <2>2, <2>3 DEF Filled
  <2> HIDE DEF m
  <2>6. Numbers(c, i)[m] = Base(c) + i + m - 1
    BY <2>4 DEF Numbers
  <2> QED
    BY <2>1, <2>4, <2>5, <2>6
<1> QED
  BY <1>1, <1>2

LEMMA FilledType ==
    ASSUME NEW b \in [BufWords -> Int], NEW kind, NEW c \in Clients, NEW i \in Nat
    PROVE  Filled(b, kind, Numbers(c, i)) \in [BufWords -> Int]
<1>1. \A j \in 1 .. NumBatch : Numbers(c, i)[j] \in Int
  BY BenchmarkAssumption DEF Numbers, Base, Clients
<1>2. ASSUME NEW w \in BufWords, \E j \in 1 .. NumBatch : w \in WordsOf(kind, j)
      PROVE  (CHOOSE j \in 1 .. NumBatch : w \in WordsOf(kind, j)) \in 1 .. NumBatch
  BY <1>2
<1> QED
  BY <1>1, <1>2 DEF Filled

-----------------------------------------------------------------------------
LEMMA InitInv == Init => Inv
<1> SUFFICES ASSUME Init PROVE Inv
  OBVIOUS
<1>1. TypeInv
  BY ResidueAssumption DEF Init, TypeInv, Kinds, Servers, Clients, Idle
<1>2. SentWhole
  BY BenchmarkAssumption, Z3 DEF Init, SentWhole
<1>3. OneClientPerKey /\ ReplyAnswersRequest /\ AtWork
  BY DEF Init, OneClientPerKey, ReplyAnswersRequest, AtWork
<1> QED
  BY <1>1, <1>2, <1>3 DEF Inv

(***************************************************************************)
(* A client sends when its last request is complete: nothing of it is on   *)
(* the wire or in the hands of a server thread.                            *)
(***************************************************************************)
LEMMA SendBatchInv ==
    ASSUME Inv, NEW c \in Clients, SendBatch(c)
    PROVE  Inv'
<1>1. /\ phase[c] \in Kinds /\ complete[c] /\ sent[c] < NumKv
      /\ type' = [type EXCEPT ![c] = phase[c]]
      /\ complete' = [complete EXCEPT ![c] = FALSE]
      /\ buf' = [buf EXCEPT ![c] = Filled(buf[c], phase[c], Numbers(c, sent[c]))]
      /\ wire' = [wire EXCEPT ![c] = [type |-> phase[c], keys |-> KeysIn(buf'[c], phase[c])]]
      /\ sent' = [sent EXCEPT ![c] = sent[c] + NumBatch]
      /\ phase' = phase /\ reply' = reply /\ handling' = handling /\ batch' = batch
  BY DEF SendBatch, Waiting, Kinds, server_vars
<1>2. /\ wire[c] = NoRequest /\ reply[c] = NoReply
      /\ \A s \in Servers : handling[s] # c
  <2>1. c # Idle
    BY BenchmarkAssumption DEF Clients, Idle
  <2> QED
    BY <1>1, <2>1 DEF Inv, ReplyAnswersRequest, AtWork
<1>3. /\ sent[c] \in Nat /\ sent[c] % NumBatch = 0
      /\ sent[c] + NumBatch <= NumKv
      /\ (sent[c] + NumBatch) % NumBatch = 0
  BY <1>1, BatchFits, BenchmarkAssumption, BatchAssumption DEF Inv, TypeInv, SentWhole
<1>4. buf'[c] = Filled(buf[c], phase[c], Numbers(c, sent[c])) /\ buf'[c] \in [BufWords -> Int]
  BY <1>1, <1>3, FilledType DEF Inv, TypeInv
<1>5. TypeInv'
  <2>1. sent' \in [Clients -> Nat]
    BY <1>1, <1>3, BenchmarkAssumption DEF Inv, TypeInv
  <2>2. buf' \in [Clients -> [BufWords -> Int]]
    BY <1>1, <1>4 DEF Inv, TypeInv
  <2>3. type' \in [Clients -> Kinds \cup {"none"}] /\ complete' \in [Clients -> BOOLEAN]
    BY <1>1 DEF Inv, TypeInv
  <2>4. wire' = [d \in Clients |-> wire'[d]]
    BY <1>1 DEF Inv, TypeInv
  <2> QED
    BY <1>1, <2>1, <2>2, <2>3, <2>4 DEF Inv, TypeInv
<1>6. SentWhole'
  BY <1>1, <1>3 DEF Inv, TypeInv, SentWhole
<1>7. /\ wire'[c] = [type |-> phase[c], keys |-> KeysIn(buf'[c], phase[c])]
      /\ \A d \in Clients \ {c} : wire'[d] = wire[d]
  BY <1>1 DEF Inv, TypeInv
<1>8. OneClientPerKey'
  <2>1. ASSUME NEW j \in DOMAIN wire'[c].keys PROVE wire'[c].keys[j][1] \in RangeOf(c)
    <3>1. PICK m \in 1 .. NumBatch : wire'[c].keys[j][1] = Base(c) + sent[c] + m - 1
      <4>1. wire'[c].keys =
                  KeysIn(Filled(buf[c], phase[c], Numbers(c, sent[c])), phase[c])
        BY <1>4, <1>7
      <4>2. buf[c] \in [BufWords -> Int] /\ phase[c] \in Kinds /\ sent[c] \in Nat
        BY <1>1, <1>3 DEF Inv, TypeInv
      <4>3. \A i \in DOMAIN wire'[c].keys :
               \E m \in 1 .. NumBatch : wire'[c].keys[i][1] = Base(c) + sent[c] + m - 1
        BY <4>1, <4>2, KeyNumbers
      <4> QED
        BY <2>1, <4>3
    <3>2. Base(c) \in Nat
      BY BenchmarkAssumption DEF Base, Clients
    <3> QED
      BY <1>3, <3>1, <3>2, BenchmarkAssumption DEF RangeOf
  <2> QED
    BY <1>7, <2>1 DEF Inv, OneClientPerKey
<1>9. ReplyAnswersRequest'
  BY <1>1, <1>2, <1>7 DEF Inv, TypeInv, ReplyAnswersRequest
<1>10. AtWork'
  BY <1>1, <1>2, <1>7 DEF Inv, TypeInv, AtWork
<1> QED
  BY <1>5, <1>6, <1>8, <1>9, <1>10 DEF Inv

\* The end of a phase: nothing is under way.
LEMMA EndPhaseInv ==
    ASSUME Inv, NEW c \in Clients, EndInsert(c) \/ EndSearch(c)
    PROVE  Inv'
<1>1. /\ phase' \in [Clients -> Kinds \cup {"unborn", "done"}]
      /\ sent' = sent \/ sent' = [sent EXCEPT ![c] = 0]
      /\ UNCHANGED <<complete, type, buf, wire, reply, handling, batch>>
  BY DEF Inv, TypeInv, EndInsert, EndSearch, server_vars, Kinds
<1>2. TypeInv'
  BY <1>1 DEF Inv, TypeInv
<1>3. 0 % NumBatch = 0
  BY BenchmarkAssumption, Z3
<1>4. SentWhole'
  BY <1>1, <1>3 DEF Inv, TypeInv, SentWhole
<1>5. OneClientPerKey' /\ ReplyAnswersRequest' /\ AtWork'
  BY <1>1 DEF Inv, OneClientPerKey, ReplyAnswersRequest, AtWork
<1> QED
  BY <1>2, <1>4, <1>5 DEF Inv

\* A reply arrives: the request is complete, and no longer on the wire.
LEMMA ContinueInv ==
    ASSUME Inv, NEW c \in Clients, Continue(c)
    PROVE  Inv'
<1>1. /\ reply[c] # NoReply
      /\ complete' = [complete EXCEPT ![c] = TRUE]
      /\ reply' = [reply EXCEPT ![c] = NoReply]
      /\ UNCHANGED <<phase, sent, type, buf, wire, handling, batch>>
  BY DEF Continue, ContInsert, ContSearch, server_vars
<1>2. wire[c] = NoRequest
  BY <1>1 DEF Inv, ReplyAnswersRequest
<1>3. TypeInv' /\ SentWhole'
  BY <1>1 DEF Inv, TypeInv, SentWhole
<1>4. OneClientPerKey' /\ AtWork'
  BY <1>1 DEF Inv, OneClientPerKey, AtWork
<1>5. ReplyAnswersRequest'
  BY <1>1, <1>2 DEF Inv, TypeInv, ReplyAnswersRequest
<1> QED
  BY <1>3, <1>4, <1>5 DEF Inv

-----------------------------------------------------------------------------
LEMMA TakeRequestInv ==
    ASSUME Inv, NEW s \in Servers, NEW c \in Clients, TakeRequest(s, c)
    PROVE  Inv'
<1>1. /\ ServerOf(c) = s /\ wire[c] # NoRequest
      /\ handling' = [handling EXCEPT ![s] = c]
      /\ batch' = [batch EXCEPT ![s] = [type |-> wire[c].type, count |-> 0, found |-> <<>>]]
      /\ UNCHANGED <<phase, sent, complete, type, buf, wire, reply>>
  BY DEF TakeRequest, client_vars
<1>2. TypeInv' /\ SentWhole' /\ OneClientPerKey' /\ ReplyAnswersRequest'
  BY <1>1 DEF Inv, TypeInv, SentWhole, OneClientPerKey, ReplyAnswersRequest
<1>3. AtWork'
  BY <1>1 DEF Inv, TypeInv, AtWork, IsReply
<1> QED
  BY <1>2, <1>3 DEF Inv

\* A handler goes on with its reply, whose type stays.
LEMMA HandleInv ==
    ASSUME Inv, NEW s \in Servers, HandlePut(s) \/ HandleGet(s)
    PROVE  Inv'
<1>1. /\ handling[s] # Idle
      /\ UNCHANGED <<phase, sent, complete, type, buf, wire, reply, handling>>
  BY DEF HandlePut, HandleGet, Busy, client_vars
<1>2. IsReply(batch[s]) /\ batch = [u \in Servers |-> batch[u]]
  BY <1>1 DEF Inv, TypeInv, AtWork
<1>3. /\ batch' = [u \in Servers |-> batch'[u]]
      /\ batch'[s].type = batch[s].type /\ IsReply(batch'[s])
      /\ \A u \in Servers \ {s} : batch'[u] = batch[u]
  <2>1. CASE HandlePut(s)
    BY <1>2, <2>1 DEF HandlePut, IsReply
  <2>2. CASE HandleGet(s)
    <3>1. \/ batch' = batch
          \/ \E n, f : batch' = [batch EXCEPT ![s] = [batch[s] EXCEPT !.count = n, !.found = f]]
      BY <2>2 DEF HandleGet
    <3> QED
      BY <1>2, <3>1 DEF IsReply
  <2> QED
    BY <2>1, <2>2
<1>4. TypeInv' /\ SentWhole' /\ OneClientPerKey' /\ ReplyAnswersRequest'
  BY <1>1, <1>3 DEF Inv, TypeInv, SentWhole, OneClientPerKey, ReplyAnswersRequest
<1>5. AtWork'
  BY <1>1, <1>3 DEF Inv, AtWork
<1> QED
  BY <1>4, <1>5 DEF Inv

(***************************************************************************)
(* The reply goes to the client whose request it is; no other server       *)
(* thread works on that request, which leaves the wire.                    *)
(***************************************************************************)
LEMMA RespondInv ==
    ASSUME Inv, NEW s \in Servers, Respond(s)
    PROVE  Inv'
<1> DEFINE c == handling[s]
<1>1. /\ c # Idle
      /\ reply' = [reply EXCEPT ![c] = batch[s]]
      /\ wire' = [wire EXCEPT ![c] = NoRequest]
      /\ handling' = [handling EXCEPT ![s] = Idle]
      /\ batch' = [batch EXCEPT ![s] = NoReply]
      /\ UNCHANGED <<phase, sent, complete, type, buf>>
  BY DEF Respond, client_vars
<1>2. /\ c \in Clients /\ ServerOf(c) = s
      /\ batch[s].type = type[c] /\ ~complete[c]
  <2>1. c \in Clients
    BY <1>1 DEF Inv, TypeInv
  <2>2. ServerOf(c) = s /\ wire[c] # NoRequest /\ batch[s].type = wire[c].type
    BY <1>1 DEF Inv, AtWork
  <2>3. wire[c].type = type[c] /\ ~complete[c]
    BY <2>1, <2>2 DEF Inv, ReplyAnswersRequest
  <2> QED
    BY <2>1, <2>2, <2>3
<1>3. TypeInv' /\ SentWhole'
  BY <1>1, <1>2 DEF Inv, TypeInv, SentWhole
<1>4. OneClientPerKey'
  BY <1>1, <1>2 DEF Inv, TypeInv, OneClientPerKey
<1>5. ReplyAnswersRequest'
  BY <1>1, <1>2 DEF Inv, TypeInv, ReplyAnswersRequest
<1>6. AtWork'
  <2>1. ASSUME NEW u \in Servers, u # s, handling[u] # Idle
        PROVE  handling[u] # c
    BY <1>2, <2>1 DEF Inv, AtWork
  <2> QED
    BY <1>1, <1>2, <2>1 DEF Inv, TypeInv, AtWork
<1> QED
  BY <1>3, <1>4, <1>5, <1>6 DEF Inv

LEMMA MainInv ==
    ASSUME Inv, MainStep
    PROVE  Inv'
<1>1. /\ phase' \in [Clients -> Kinds \cup {"unborn", "done"}]
      /\ UNCHANGED <<sent, complete, type, buf, wire, reply, handling, batch>>
  BY DEF Inv, TypeInv, MainStep, Spawn, SumNext, JoinNext, client_vars, server_vars, Kinds
<1> QED
  BY <1>1 DEF Inv, TypeInv, SentWhole, OneClientPerKey, ReplyAnswersRequest, AtWork

LEMMA NextInv == Inv /\ [Next]_vars => Inv'
<1> SUFFICES ASSUME Inv, [Next]_vars PROVE Inv'
  OBVIOUS
<1>1. ASSUME NEW c \in Clients, ClientStep(c) PROVE Inv'
  BY <1>1, SendBatchInv, EndPhaseInv, ContinueInv DEF ClientStep
<1>2. ASSUME NEW s \in Servers, ServerStep(s) PROVE Inv'
  BY <1>2, HandleInv, RespondInv, TakeRequestInv DEF ServerStep
<1>3. CASE UNCHANGED vars
  BY <1>3 DEF vars, client_vars, server_vars, main_vars,
              Inv, TypeInv, SentWhole, OneClientPerKey, ReplyAnswersRequest, AtWork
<1> QED
  BY <1>1, <1>2, <1>3, MainInv DEF Next

(***************************************************************************)
(* The arithmetic of the clients' ranges and batches (client.cc:93 and     *)
(* 123-131) gives every key one client, hence one server thread, which is  *)
(* what the agreement of the index and the tree rests on (TreeAgreesHolds  *)
(* of HiKVProofs).                                                         *)
(***************************************************************************)
THEOREM OneClientPerKeyHolds == Spec => []OneClientPerKey
<1>1. Inv => OneClientPerKey
  BY DEF Inv
<1> QED
  BY InitInv, NextInv, <1>1, PTL DEF Spec

(***************************************************************************)
(* The one flag request.complete keeps kv_cont_func (client.cc:69) from    *)
(* ever taking a reply for one to a request of the other type, with any    *)
(* number of clients on a server thread.                                   *)
(***************************************************************************)
THEOREM ReplyAnswersRequestHolds == Spec => []ReplyAnswersRequest
<1>1. Inv => ReplyAnswersRequest
  BY DEF Inv
<1> QED
  BY InitInv, NextInv, <1>1, PTL DEF Spec

-----------------------------------------------------------------------------
(***************************************************************************)
(* What is counted.  A batch is followed from the request through the      *)
(* handler and the reply to the client's counters; what each of them says  *)
(* is about the keys of the numbers that the client sent last.             *)
(***************************************************************************)

\* The key that client c sends for number Base(c) + n: its second half is what the buffer holds.
KeyOf(kind, c, n) == <<Base(c) + n, buf[c][KeyAt(kind, (n % NumBatch) + 1) + 1]>>

\* Of m numbers of client c, those that a search finds.
FoundIn(c, i, m) == {n \in i .. i + m - 1 : KeyOf("search", c, n) \in DOMAIN store}

\* The numbers of the current phase whose replies are counted.
Answered(c) == IF complete[c] THEN sent[c] ELSE sent[c] - NumBatch

Founds == {[key |-> k, value |-> CopiedValue(Record(k))] : k \in Int \X Int}

\* What a reply says that answers m numbers of client c from i on.
Answers(r, c, i, m) ==
    /\ r.type = "insert" => r.count = m
    /\ r.type = "search" => r.found \in Seq(Founds) /\ Len(r.found) = Cardinality(FoundIn(c, i, m))

Counted(c) ==
    /\ sent[c] \in 0 .. NumKv
    /\ ~complete[c] => NumBatch <= sent[c] /\ type[c] = phase[c] /\ phase[c] \in Kinds
    /\ phase[c] = "unborn" => sent[c] = 0
    /\ phase[c] = "done" => sent[c] = NumKv
    /\ num_search_error[c] = 0
    /\ phase[c] \in {"unborn", "insert"} => num_insert_ok[c] = Answered(c) /\ num_search_ok[c] = 0
    /\ phase[c] \in {"search", "done"} =>
          /\ num_insert_ok[c] = NumKv
          /\ \A m : m = Answered(c) => num_search_ok[c] = Cardinality(FoundIn(c, 0, m))

\* The request of c asks for the numbers it sent last.
Asking(c) ==
    wire[c] # NoRequest =>
        /\ wire[c].keys \in [1 .. NumBatch -> Int \X Int]
        /\ \A j \in 1 .. NumBatch : \A kind, n :
              kind = wire[c].type /\ n = sent[c] - NumBatch + j - 1
                => wire[c].keys[j] = KeyOf(kind, c, n)

Working(s, c) ==
    handling[s] = c =>
        /\ at[s] \in 1 .. NumBatch + 1
        /\ \A r, i, m : r = batch[s] /\ i = sent[c] - NumBatch /\ m = at[s] - 1
              => Answers(r, c, i, m)

Replied(c) ==
    reply[c] # NoReply =>
        \A r, i : r = reply[c] /\ i = sent[c] - NumBatch => Answers(r, c, i, NumBatch)

\* The store has no key of c that c has not put.
Owns(c) ==
    \A k \in DOMAIN store : k[1] \in RangeOf(c) => \E n \in 0 .. NumKv - 1 : k = KeyOf("insert", c, n)

ClientInv(c) ==
    Counted(c) /\ Asking(c) /\ (\A s \in Servers : Working(s, c)) /\ Replied(c) /\ Owns(c)

StoreInv ==
    /\ IsFiniteSet(DOMAIN store)
    /\ \A k \in DOMAIN store : store[k] = Record(k)

CountTypes ==
    /\ at \in [Servers -> Int]
    /\ num_insert_ok \in [Clients -> Int]
    /\ num_search_ok \in [Clients -> Int]
    /\ num_search_error \in [Clients -> Int]

Spawning ==
    main = "spawn" =>
        /\ next_thread \in Clients
        /\ \A c \in Clients : next_thread <= c => phase[c] = "unborn"

CountInv ==
    CountTypes /\ Spawning /\ StoreInv /\ \A c \in Clients : ClientInv(c)

-----------------------------------------------------------------------------
\* Behind whole batches, the place in the batch is the remainder.
LEMMA PlaceInBatch ==
    ASSUME NEW i \in Nat, NEW b \in Nat \ {0}, i % b = 0, NEW j \in 1 .. b
    PROVE  i + j - 1 \in Nat /\ (i + j - 1) % b = j - 1
<1>1. PICK n \in Nat : n = i + j - 1
  OBVIOUS
<1>2. PICK q \in Int : i = b * q
  <2>1. i \div b \in Int /\ i = b * (i \div b)
    BY Z3
  <2> QED
    BY <2>1
<1>3. PICK p \in Int, d \in 0 .. b - 1 : d = n % b /\ n = b * p + d
  <2>1. n \div b \in Int /\ n % b \in 0 .. b - 1 /\ n = b * (n \div b) + (n % b)
    BY <1>1, Z3
  <2> QED
    BY <2>1
<1>4. b * q + (j - 1) = b * p + d
  BY <1>1, <1>2, <1>3
<1>5. b * (q - p) = d - (j - 1)
  <2>1. b * (q - p) = b * q - b * p /\ b * q \in Int /\ b * p \in Int
    BY Z3
  <2> QED
    BY <1>4, <2>1
<1>6. d = j - 1
  <2>1. CASE q - p <= -1
    <3>1. b * (q - p) <= -b
      BY <2>1, Z3
    <3> QED
      BY <1>5, <3>1
  <2>2. CASE q - p = 0
    <3>1. b * (q - p) = 0
      BY <2>2
    <3> QED
      BY <1>5, <3>1
  <2>3. CASE q - p >= 1
    <3>1. b * (q - p) >= b
      BY <2>3, Z3
    <3> QED
      BY <1>5, <3>1
  <2> QED
    BY <2>1, <2>2, <2>3
<1> QED
  BY <1>1, <1>3, <1>6

LEMMA Remainder ==
    ASSUME NEW n \in Nat
    PROVE  (n % NumBatch) + 1 \in 1 .. NumBatch
<1>1. NumBatch \in Nat \ {0}
  BY BenchmarkAssumption
<1>2. n % NumBatch \in 0 .. NumBatch - 1
  BY <1>1, Z3
<1> QED
  BY <1>1, <1>2

(***************************************************************************)
(* A request writes the first word of each key, the number it is to have,  *)
(* and no request ever writes the second.                                  *)
(***************************************************************************)
LEMMA WordsWritten ==
    ASSUME NEW b \in [BufWords -> Int], NEW kind \in Kinds, NEW numbers,
           NEW other \in Kinds, NEW j \in 1 .. NumBatch
    PROVE  /\ KeyAt(other, j) \in BufWords /\ KeyAt(other, j) + 1 \in BufWords
           /\ Filled(b, kind, numbers)[KeyAt(kind, j)] = numbers[j]
           /\ Filled(b, kind, numbers)[KeyAt(other, j) + 1] = b[KeyAt(other, j) + 1]
           /\ \A i \in 1 .. NumBatch : KeyAt(other, j) + 1 \notin WordsOf(kind, i)
<1>1. NumBatch \in Int /\ 1 <= NumBatch /\ \A i \in 1 .. NumBatch : i \in Int /\ 1 <= i /\ i <= NumBatch
  BY BenchmarkAssumption
<1>2. /\ \A i : KeyAt("insert", i) = (i - 1) * 10
      /\ \A i : KeyAt("search", i) = (i - 1) * 2
      /\ BufWords = 0 .. NumBatch * 10 - 1
  BY DEF KeyAt, KeyWords, ValueWords, BufWords
<1>3. \A i \in 1 .. NumBatch :
         /\ WordsOf("insert", i) = {(i - 1) * 10, (i - 1) * 10 + 2}
         /\ WordsOf("search", i) = {(i - 1) * 2}
  BY <1>2 DEF WordsOf, ValueAt, KeyWords
<1>4. /\ KeyAt(kind, j) \in BufWords
      /\ KeyAt(other, j) \in BufWords /\ KeyAt(other, j) + 1 \in BufWords
  <2>1. ASSUME NEW x \in Kinds PROVE KeyAt(x, j) \in BufWords /\ KeyAt(x, j) + 1 \in BufWords
    <3>1. (j - 1) * 10 + 1 <= NumBatch * 10 - 1 /\ 0 <= (j - 1) * 2 /\ (j - 1) * 2 <= (j - 1) * 10
      BY <1>1
    <3>2. CASE x = "insert"
      BY <1>1, <1>2, <3>1, <3>2
    <3>3. CASE x = "search"
      BY <1>1, <1>2, <3>1, <3>3
    <3> QED
      BY <2>1, <3>2, <3>3 DEF Kinds
  <2> QED
    BY <2>1
<1>5. ASSUME NEW i \in 1 .. NumBatch
      PROVE  /\ KeyAt(other, j) + 1 \notin WordsOf(kind, i)
             /\ KeyAt(kind, j) \in WordsOf(kind, i) <=> i = j
  <2>1. i \in Int /\ j \in Int
    BY <1>1
  <2>2. PICK y : y = KeyAt(other, j) + 1
    OBVIOUS
  <2>3. y = (j - 1) * 10 + 1 \/ y = (j - 1) * 2 + 1
    BY <1>2, <2>2 DEF Kinds
  <2>4. CASE kind = "insert"
    <3>1. /\ WordsOf(kind, i) = {(i - 1) * 10, (i - 1) * 10 + 2}
          /\ KeyAt(kind, j) = (j - 1) * 10
      BY <1>2, <1>3, <2>4
    <3> QED
      BY <2>1, <2>2, <2>3, <3>1
  <2>5. CASE kind = "search"
    <3>1. WordsOf(kind, i) = {(i - 1) * 2} /\ KeyAt(kind, j) = (j - 1) * 2
      BY <1>2, <1>3, <2>5
    <3> QED
      BY <2>1, <2>2, <2>3, <3>1
  <2> QED
    BY <2>4, <2>5 DEF Kinds
<1>6. Filled(b, kind, numbers)[KeyAt(kind, j)] = numbers[j]
  <2>1. (CHOOSE i \in 1 .. NumBatch : KeyAt(kind, j) \in WordsOf(kind, i)) = j
    BY <1>5
  <2> QED
    BY <1>4, <1>5, <2>1 DEF Filled
<1>7. Filled(b, kind, numbers)[KeyAt(other, j) + 1] = b[KeyAt(other, j) + 1]
  BY <1>4, <1>5 DEF Filled
<1> QED
  BY <1>4, <1>5, <1>6, <1>7

LEMMA KeyOfType ==
    ASSUME TypeInv, NEW kind \in Kinds, NEW c \in Clients, NEW n \in Nat
    PROVE  KeyOf(kind, c, n) \in Int \X Int /\ KeyOf(kind, c, n)[1] = Base(c) + n
<1>1. KeyAt(kind, (n % NumBatch) + 1) + 1 \in BufWords
  BY Remainder, ResidueAssumption, WordsWritten DEF TypeInv
<1>2. Base(c) \in Int
  BY BenchmarkAssumption DEF Base, Clients
<1> QED
  BY <1>1, <1>2 DEF KeyOf, TypeInv

LEMMA RangesApart ==
    ASSUME NEW c \in Clients, NEW d \in Clients, c # d, NEW x, x \in RangeOf(c)
    PROVE  x \notin RangeOf(d)
<1>1. /\ NumKv \in Nat \ {0} /\ c \in Int /\ d \in Int
      /\ c * NumKv \in Int /\ d * NumKv \in Int
      /\ RangeOf(c) = c * NumKv .. c * NumKv + NumKv - 1
      /\ RangeOf(d) = d * NumKv .. d * NumKv + NumKv - 1
  BY BenchmarkAssumption DEF RangeOf, Base, Clients
<1>2. ASSUME NEW a \in Int, NEW b \in Int, a < b PROVE a * NumKv + NumKv <= b * NumKv
  <2>1. (a + 1) * NumKv <= b * NumKv
    BY <1>1, <1>2, Z3
  <2>2. (a + 1) * NumKv = a * NumKv + NumKv
    BY <1>1, Z3
  <2> QED
    BY <2>1, <2>2
<1>3. CASE c < d
  BY <1>1, <1>2, <1>3
<1>4. CASE d < c
  BY <1>1, <1>2, <1>4
<1> QED
  BY <1>1, <1>3, <1>4

-----------------------------------------------------------------------------
(* Counting what is found *)

LEMMA FoundInSize ==
    ASSUME NEW c \in Clients, NEW i \in Int, NEW m \in Int
    PROVE  IsFiniteSet(FoundIn(c, i, m)) /\ Cardinality(FoundIn(c, i, m)) \in Nat
<1>1. IsFiniteSet(i .. i + m - 1) /\ FoundIn(c, i, m) \in SUBSET (i .. i + m - 1)
  BY FS_Interval DEF FoundIn
<1> QED
  BY <1>1, FS_Subset, FS_CardinalityType

LEMMA FoundInNone ==
    ASSUME NEW c \in Clients, NEW i \in Int
    PROVE  Cardinality(FoundIn(c, i, 0)) = 0
<1>1. FoundIn(c, i, 0) = {}
  BY DEF FoundIn
<1> QED
  BY <1>1, FS_EmptySet

\* One answer more.
LEMMA FoundInNext ==
    ASSUME NEW c \in Clients, NEW i \in Nat, NEW m \in Nat, NEW l, l = m + 1, NEW n, n = i + m
    PROVE  Cardinality(FoundIn(c, i, l)) =
              IF KeyOf("search", c, n) \in DOMAIN store
              THEN Cardinality(FoundIn(c, i, m)) + 1
              ELSE Cardinality(FoundIn(c, i, m))
<1>1. \A x : x \in i .. i + l - 1 <=> x \in i .. i + m - 1 \/ x = n
  OBVIOUS
<1>2. n \notin i .. i + m - 1
  OBVIOUS
<1>3. CASE KeyOf("search", c, n) \in DOMAIN store
  <2>1. FoundIn(c, i, l) = FoundIn(c, i, m) \cup {n}
    BY <1>1, <1>3 DEF FoundIn
  <2>2. n \notin FoundIn(c, i, m)
    BY <1>2 DEF FoundIn
  <2> QED
    BY <1>3, <2>1, <2>2, FoundInSize, FS_AddElement
<1>4. CASE KeyOf("search", c, n) \notin DOMAIN store
  <2>1. FoundIn(c, i, l) = FoundIn(c, i, m)
    BY <1>1, <1>4 DEF FoundIn
  <2> QED
    BY <1>4, <2>1
<1> QED
  BY <1>3, <1>4

\* One reply more.
LEMMA FoundInJoin ==
    ASSUME NEW c \in Clients, NEW i \in Nat, NEW m \in Nat, NEW l, l = i + m
    PROVE  Cardinality(FoundIn(c, 0, l)) = Cardinality(FoundIn(c, 0, i)) + Cardinality(FoundIn(c, i, m))
<1>1. /\ \A x : x \in 0 .. 0 + l - 1 <=> x \in 0 .. 0 + i - 1 \/ x \in i .. i + m - 1
      /\ \A x : ~ (x \in 0 .. 0 + i - 1 /\ x \in i .. i + m - 1)
  OBVIOUS
<1>2. /\ FoundIn(c, 0, l) = FoundIn(c, 0, i) \cup FoundIn(c, i, m)
      /\ FoundIn(c, 0, i) \cap FoundIn(c, i, m) = {}
  BY <1>1 DEF FoundIn
<1>3. PICK S, T : S = FoundIn(c, 0, i) /\ T = FoundIn(c, i, m)
  OBVIOUS
<1>4. IsFiniteSet(S) /\ IsFiniteSet(T) /\ Cardinality(S) \in Nat /\ Cardinality(T) \in Nat
  BY <1>3, FoundInSize
<1>5. Cardinality(S \cup T) = Cardinality(S) + Cardinality(T) - Cardinality(S \cap T)
  BY <1>4, FS_Union
<1>6. Cardinality(S \cap T) = 0
  BY <1>2, <1>3, FS_EmptySet
<1>7. Cardinality(S \cup T) = Cardinality(S) + Cardinality(T)
  BY <1>4, <1>5, <1>6
<1>8. FoundIn(c, 0, l) = S \cup T
  BY <1>2, <1>3
<1> QED
  BY <1>3, <1>7, <1>8

\* Every value that comes with a found key starts with its number.
LEMMA AllMatch ==
    ASSUME NEW found \in Seq(Founds)
    PROVE  Cardinality(Matching(found)) = Len(found) /\ Len(found) \in Nat
<1>1. ASSUME NEW k \in Int \X Int PROVE CopiedValue(Record(k))[1] = k
  <2>1. PICK r : r = Record(k)
    OBVIOUS
  <2>2. r[1] = k
    <3>1. PICK v, S : v = ValueOf(k) /\ S = {k, v[1], v[2], v[3], v[4]}
      OBVIOUS
    <3>2. v \in Seq(S) /\ <<k>> \in Seq(S) /\ Len(<<k>>) = 1 /\ Len(v) = 4 /\ <<k>>[1] = k
      BY <3>1 DEF ValueOf
    <3>3. r = <<k>> \o v
      BY <2>1, <3>1 DEF Record
    <3>4. (<<k>> \o v)[1] = IF 1 <= 1 THEN <<k>>[1] ELSE v[1 - 1]
      BY <3>2, ConcatProperties
    <3> QED
      BY <3>2, <3>3, <3>4
  <2>3. SubSeq(r, 1, 4)[1] = k
    <3>1. PICK S : S = {r[i] : i \in 1 .. 4}
      OBVIOUS
    <3>2. \A i \in 1 .. 4 : r[i] \in S
      BY <3>1
    <3>3. \A i \in 1 .. 4 - 1 + 1 : SubSeq(r, 1, 4)[i] = r[1 + i - 1]
      BY <3>2, SubSeqProperties
    <3>4. 1 \in 1 .. 4 - 1 + 1 /\ 1 + 1 - 1 = 1
      OBVIOUS
    <3> QED
      BY <2>2, <3>3, <3>4
  <2> QED
    BY <2>1, <2>3 DEF CopiedValue
<1>2. ASSUME NEW e \in Founds PROVE e.key[1] = e.value[1][1]
  BY <1>1 DEF Founds
<1>3. DOMAIN found = 1 .. Len(found) /\ Len(found) \in Nat /\ \A j \in DOMAIN found : found[j] \in Founds
  BY LenProperties
<1>4. Matching(found) = 1 .. Len(found)
  BY <1>2, <1>3 DEF Matching
<1>5. Cardinality(1 .. Len(found)) = Len(found)
  BY <1>3, FS_Interval
<1> QED
  BY <1>3, <1>4, <1>5

-----------------------------------------------------------------------------
(* A step of one client, or of the server for it, leaves the others alone *)

SameKeysOf(c) == \A kind \in Kinds, n \in Nat : KeyOf(kind, c, n)' = KeyOf(kind, c, n)

\* As far as the numbers of c go, the store stays.
SameStoreOf(c) == \A k : k[1] \in RangeOf(c) => (k \in DOMAIN store' <=> k \in DOMAIN store)

LEMMA SameFoundIn ==
    ASSUME TypeInv, NEW c \in Clients, SameKeysOf(c), SameStoreOf(c),
           NEW i \in Nat, NEW m \in Nat, i + m <= NumKv
    PROVE  FoundIn(c, i, m)' = FoundIn(c, i, m)
<1>1. ASSUME NEW n \in i .. i + m - 1
      PROVE  KeyOf("search", c, n)' \in DOMAIN store' <=> KeyOf("search", c, n) \in DOMAIN store
  <2>1. n \in Nat /\ n < NumKv /\ NumKv \in Nat
    BY BenchmarkAssumption
  <2>2. KeyOf("search", c, n)' = KeyOf("search", c, n)
    BY <2>1 DEF SameKeysOf, Kinds
  <2>3. KeyOf("search", c, n)[1] = Base(c) + n /\ Base(c) \in Nat
    BY <2>1, KeyOfType, BenchmarkAssumption DEF Kinds, Base, Clients
  <2>4. KeyOf("search", c, n)[1] \in RangeOf(c)
    BY <2>1, <2>3 DEF RangeOf
  <2> QED
    BY <2>2, <2>4 DEF SameStoreOf
<1> QED
  BY <1>1 DEF FoundIn

LEMMA SameAnswers ==
    ASSUME TypeInv, NEW c \in Clients, SameKeysOf(c), SameStoreOf(c),
           NEW r, NEW i \in Nat, NEW m \in Nat, i + m <= NumKv, Answers(r, c, i, m)
    PROVE  Answers(r, c, i, m)'
  BY SameFoundIn DEF Answers

SameClient(c) ==
    /\ phase'[c] = phase[c] /\ sent'[c] = sent[c] /\ complete'[c] = complete[c]
    /\ type'[c] = type[c] /\ wire'[c] = wire[c] /\ reply'[c] = reply[c]
    /\ num_insert_ok'[c] = num_insert_ok[c] /\ num_search_ok'[c] = num_search_ok[c]
    /\ num_search_error'[c] = num_search_error[c]

SameWorkOf(c) ==
    \A s \in Servers : handling'[s] = c =>
        handling[s] = c /\ at'[s] = at[s] /\ batch'[s] = batch[s]

\* What a client waits for is a batch that it has sent, in the phase it is in.
LEMMA Outstanding ==
    ASSUME Inv, NEW c \in Clients, ClientInv(c),
           ~ complete[c] \/ reply[c] # NoReply \/ wire[c] # NoRequest \/ \E s \in Servers : handling[s] = c
    PROVE  /\ ~ complete[c] /\ type[c] = phase[c] /\ phase[c] \in Kinds
           /\ NumBatch \in Nat /\ NumKv \in Nat /\ sent[c] \in Nat
           /\ sent[c] - NumBatch \in Nat /\ sent[c] <= NumKv
<1>1. ~ complete[c]
  <2>1. c # Idle
    BY BenchmarkAssumption DEF Clients, Idle
  <2> QED
    BY <2>1 DEF Inv, ReplyAnswersRequest, AtWork
<1> QED
  BY <1>1, BenchmarkAssumption DEF ClientInv, Counted

LEMMA UnaffectedAsking ==
    ASSUME Inv, NEW c \in Clients, ClientInv(c), SameClient(c), SameKeysOf(c)
    PROVE  Asking(c)'
<1>1. NumBatch \in Nat \ {0}
  BY BenchmarkAssumption
<1>2. ASSUME wire'[c] # NoRequest, NEW j \in 1 .. NumBatch, NEW kind, NEW n,
             kind = wire'[c].type, n = sent'[c] - NumBatch + j - 1
      PROVE  wire'[c].keys[j] = KeyOf(kind, c, n)'
  <2>1. wire[c] # NoRequest /\ kind = wire[c].type /\ n = sent[c] - NumBatch + j - 1
    BY <1>2 DEF SameClient
  <2>2. wire[c].keys[j] = KeyOf(kind, c, n)
    BY <1>2, <2>1 DEF ClientInv, Asking
  <2>3. kind \in Kinds /\ n \in Nat
    BY <1>1, <2>1, Outstanding DEF Inv, ReplyAnswersRequest
  <2> QED
    BY <2>2, <2>3 DEF SameClient, SameKeysOf
<1>3. wire'[c] # NoRequest => wire'[c].keys \in [1 .. NumBatch -> Int \X Int]
  BY DEF SameClient, ClientInv, Asking
<1> QED
  BY <1>2, <1>3 DEF Asking

LEMMA UnaffectedClient ==
    ASSUME Inv, NEW c \in Clients, ClientInv(c),
           SameClient(c), SameKeysOf(c), SameStoreOf(c)
    PROVE  Counted(c)' /\ Asking(c)' /\ Replied(c)' /\ Owns(c)'
<1>1. TypeInv /\ NumKv \in Nat /\ NumBatch \in Nat \ {0}
  BY BenchmarkAssumption DEF Inv
<1>2. Counted(c)'
  <2>1. sent[c] \in 0 .. NumKv /\ (~complete[c] => NumBatch <= sent[c])
    BY DEF ClientInv, Counted
  <2>2. Answered(c)' = Answered(c)
    BY DEF SameClient, Answered
  <2>3. ASSUME NEW m, m = Answered(c) PROVE FoundIn(c, 0, m)' = FoundIn(c, 0, m)
    <3>1. m \in Nat /\ m <= NumKv
      BY <1>1, <2>1, <2>3 DEF Answered
    <3> QED
      BY <1>1, <3>1, SameFoundIn
  <2> QED
    BY <2>2, <2>3 DEF ClientInv, Counted, SameClient
<1>3. Asking(c)'
  BY UnaffectedAsking
<1>4. Replied(c)'
  <2>1. ASSUME reply[c] # NoReply, NEW r, NEW i, r = reply[c], i = sent[c] - NumBatch
        PROVE  Answers(r, c, i, NumBatch)'
    <3>1. Answers(r, c, i, NumBatch)
      BY <2>1 DEF ClientInv, Replied
    <3>2. i \in Nat /\ i + NumBatch <= NumKv
      BY <1>1, <2>1, Outstanding
    <3> QED
      BY <1>1, <3>1, <3>2, SameAnswers
  <2> QED
    BY <2>1 DEF Replied, SameClient
<1>5. Owns(c)'
  <2>1. ASSUME NEW k \in DOMAIN store', k[1] \in RangeOf(c)
        PROVE  \E n \in 0 .. NumKv - 1 : k = KeyOf("insert", c, n)'
    <3>1. PICK n \in 0 .. NumKv - 1 : k = KeyOf("insert", c, n)
      BY <2>1 DEF SameStoreOf, ClientInv, Owns
    <3>2. k = KeyOf("insert", c, n)'
      BY <1>1, <3>1 DEF SameKeysOf, Kinds
    <3> QED
      BY <3>2
  <2>2. RangeOf(c)' = RangeOf(c)
    BY DEF RangeOf, Base
  <2> QED
    BY <2>1, <2>2 DEF Owns
<1> QED
  BY <1>2, <1>3, <1>4, <1>5

LEMMA Unaffected ==
    ASSUME Inv, NEW c \in Clients, ClientInv(c),
           SameClient(c), SameWorkOf(c), SameKeysOf(c), SameStoreOf(c)
    PROVE  ClientInv(c)'
<1>1. TypeInv /\ NumKv \in Nat /\ NumBatch \in Nat \ {0}
  BY BenchmarkAssumption DEF Inv
<1>2. ASSUME NEW s \in Servers PROVE Working(s, c)'
  <2>1. SUFFICES ASSUME handling'[s] = c
                 PROVE  /\ at'[s] \in 1 .. NumBatch + 1
                        /\ \A r, i, m : r = batch'[s] /\ i = sent'[c] - NumBatch /\ m = at'[s] - 1
                              => Answers(r, c, i, m)'
    BY DEF Working
  <2>2. /\ handling[s] = c /\ at'[s] = at[s] /\ batch'[s] = batch[s] /\ sent'[c] = sent[c]
        /\ at[s] \in 1 .. NumBatch + 1
    BY <2>1 DEF SameWorkOf, SameClient, ClientInv, Working
  <2>3. ASSUME NEW r, NEW i, NEW m, r = batch[s], i = sent[c] - NumBatch, m = at[s] - 1
        PROVE  Answers(r, c, i, m)'
    <3>1. Answers(r, c, i, m)
      BY <2>2, <2>3 DEF ClientInv, Working
    <3>2. sent[c] \in Nat /\ sent[c] - NumBatch \in Nat /\ sent[c] <= NumKv
      BY <2>2, Outstanding
    <3>3. i \in Nat /\ m \in Nat /\ i + m <= NumKv
      BY <1>1, <2>2, <2>3, <3>2
    <3> QED
      BY <1>1, <3>1, <3>3, SameAnswers
  <2> QED
    BY <2>2, <2>3
<1> QED
  BY <1>2, UnaffectedClient DEF ClientInv

\* With the buffers and the store as they are, keys and what is found of them stay.
LEMMA Untouched ==
    ASSUME NEW c \in Clients, buf'[c] = buf[c], store' = store
    PROVE  SameKeysOf(c) /\ SameStoreOf(c)
  BY DEF SameKeysOf, SameStoreOf, KeyOf

-----------------------------------------------------------------------------
(* Every step keeps the count *)

LEMMA InitCount == Init => CountInv
<1> SUFFICES ASSUME Init PROVE CountInv
  OBVIOUS
<1>1. CountTypes /\ Spawning
  BY BenchmarkAssumption DEF Init, CountTypes, Spawning, Clients
<1>2. StoreInv /\ DOMAIN store = {}
  BY FS_EmptySet DEF Init, StoreInv
<1>3. ASSUME NEW c \in Clients PROVE ClientInv(c)
  <2>1. c # Idle
    BY BenchmarkAssumption DEF Clients, Idle
  <2>2. Counted(c)
    BY BenchmarkAssumption DEF Init, Counted, Answered
  <2>3. Asking(c) /\ (\A s \in Servers : Working(s, c)) /\ Replied(c) /\ Owns(c)
    BY <1>2, <2>1 DEF Init, Asking, Working, Replied, Owns
  <2> QED
    BY <2>2, <2>3 DEF ClientInv
<1> QED
  BY <1>1, <1>2, <1>3 DEF CountInv

\* Steps that neither main nor the store are part of.
LEMMA QuietCount ==
    ASSUME CountInv, UNCHANGED <<main, next_thread, phase, store>>
    PROVE  Spawning' /\ StoreInv'
  BY DEF CountInv, Spawning, StoreInv

\* The words that a batch writes are not the second half of a key.
LEMMA SentKeys ==
    ASSUME Inv, NEW c \in Clients, NEW kind \in Kinds, NEW numbers,
           buf'[c] = Filled(buf[c], kind, numbers), store' = store
    PROVE  SameKeysOf(c) /\ SameStoreOf(c)
<1>1. ASSUME NEW other \in Kinds, NEW n \in Nat PROVE KeyOf(other, c, n)' = KeyOf(other, c, n)
  <2>1. PICK j \in 1 .. NumBatch : j = (n % NumBatch) + 1
    BY Remainder
  <2>2. Filled(buf[c], kind, numbers)[KeyAt(other, j) + 1] = buf[c][KeyAt(other, j) + 1]
    BY WordsWritten DEF Inv, TypeInv
  <2>3. PICK w : w = KeyAt(other, (n % NumBatch) + 1) + 1
    OBVIOUS
  <2>4. buf'[c][w] = buf[c][w]
    BY <2>1, <2>2, <2>3
  <2>5. KeyOf(other, c, n) = <<Base(c) + n, buf[c][w]>> /\ KeyOf(other, c, n)' = <<Base(c) + n, buf'[c][w]>>
    BY <2>3 DEF KeyOf, Base, KeyAt
  <2> QED
    BY <2>4, <2>5
<1> QED
  BY <1>1 DEF SameKeysOf, SameStoreOf

\* What the request asks for is what the client counts as under way.
LEMMA SendBatchCount ==
    ASSUME Inv, CountInv, NEW c \in Clients, SendBatch(c)
    PROVE  CountInv'
<1>0. PICK kind, numbers : kind = phase[c] /\ numbers = Numbers(c, sent[c])
  OBVIOUS
<1>1. /\ kind \in Kinds /\ phase[c] = kind /\ complete[c] /\ sent[c] < NumKv
      /\ type' = [type EXCEPT ![c] = kind]
      /\ complete' = [complete EXCEPT ![c] = FALSE]
      /\ buf' = [buf EXCEPT ![c] = Filled(buf[c], kind, numbers)]
      /\ wire' = [wire EXCEPT ![c] = [type |-> kind, keys |-> KeysIn(buf'[c], kind)]]
      /\ sent' = [sent EXCEPT ![c] = sent[c] + NumBatch]
      /\ UNCHANGED <<phase, num_insert_ok, num_search_ok, num_search_error, main, next_thread>>
      /\ UNCHANGED <<reply, handling, at, batch, store>>
  BY <1>0 DEF SendBatch, Waiting, Kinds, server_vars, main_vars
<1>2. /\ wire[c] = NoRequest /\ reply[c] = NoReply
      /\ \A s \in Servers : handling[s] # c
  <2>1. c # Idle
    BY BenchmarkAssumption DEF Clients, Idle
  <2> QED
    BY <1>1, <2>1 DEF Inv, ReplyAnswersRequest, AtWork
<1>3. /\ sent[c] \in Nat /\ sent[c] % NumBatch = 0
      /\ sent[c] + NumBatch <= NumKv
      /\ NumBatch \in Nat \ {0} /\ NumKv \in Nat
  BY <1>1, BatchFits, BenchmarkAssumption, BatchAssumption DEF Inv, TypeInv, SentWhole
<1>4. /\ sent'[c] = sent[c] + NumBatch /\ ~complete'[c] /\ type'[c] = kind
      /\ buf'[c] = Filled(buf[c], kind, numbers)
      /\ wire'[c] = [type |-> kind, keys |-> KeysIn(buf'[c], kind)]
  BY <1>1 DEF Inv, TypeInv
<1>5. SameKeysOf(c) /\ SameStoreOf(c)
  BY <1>1, <1>4, SentKeys
<1>6. TypeInv /\ TypeInv' /\ Inv'
  BY SendBatchInv DEF Inv
<1>7. ClientInv(c)
  BY DEF CountInv
<1>8. Counted(c)'
  <2>1. Answered(c)' = sent[c] /\ Answered(c) = sent[c]
    BY <1>1, <1>3, <1>4 DEF Answered
  <2>2. ASSUME NEW m, m = sent[c] PROVE FoundIn(c, 0, m)' = FoundIn(c, 0, m)
    <3>1. m \in Nat /\ 0 + m <= NumKv
      BY <1>3, <2>2
    <3> QED
      BY <1>5, <1>6, <3>1, SameFoundIn
  <2>3. /\ phase'[c] \in {"insert"} \/ phase'[c] \in {"search"}
        /\ num_search_error'[c] = 0 /\ sent'[c] \in 0 .. NumKv /\ NumBatch <= sent'[c]
    BY <1>1, <1>3, <1>4, <1>7 DEF ClientInv, Counted, Kinds
  <2>4. phase[c] = "insert" => num_insert_ok'[c] = Answered(c)' /\ num_search_ok'[c] = 0
    BY <1>1, <1>7, <2>1 DEF ClientInv, Counted
  <2>5. phase[c] = "search" =>
           /\ num_insert_ok'[c] = NumKv
           /\ \A m : m = Answered(c)' => num_search_ok'[c] = Cardinality(FoundIn(c, 0, m)')
    BY <1>1, <1>7, <2>1, <2>2 DEF ClientInv, Counted
  <2> QED
    BY <1>1, <1>4, <2>3, <2>4, <2>5 DEF Counted, Kinds
<1>9. Asking(c)'
  <2>1. ASSUME NEW j \in 1 .. NumBatch, NEW n, n = sent'[c] - NumBatch + j - 1
        PROVE  KeysIn(buf'[c], kind)[j] = KeyOf(kind, c, n)'
    <3>1. n = sent[c] + j - 1 /\ n \in Nat /\ n % NumBatch = j - 1 /\ (n % NumBatch) + 1 = j
      <4>1. n = sent[c] + j - 1 /\ j \in Int
        BY <1>3, <1>4, <2>1
      <4>2. PICK i \in Nat : i = sent[c] /\ i % NumBatch = 0
        BY <1>3
      <4>3. i + j - 1 \in Nat /\ (i + j - 1) % NumBatch = j - 1
        BY <1>3, <4>2, PlaceInBatch
      <4>4. i + j - 1 = n
        BY <4>1, <4>2
      <4>5. n \in Nat /\ n % NumBatch = j - 1
        BY <4>3, <4>4
      <4> QED
        BY <4>1, <4>5
    <3>2. KeysIn(buf'[c], kind)[j] = <<buf'[c][KeyAt(kind, j)], buf'[c][KeyAt(kind, j) + 1]>>
      BY DEF KeysIn
    <3>3. buf'[c][KeyAt(kind, j)] = Base(c) + n
      <4>1. buf'[c][KeyAt(kind, j)] = numbers[j]
        BY <1>1, <1>4, WordsWritten DEF Inv, TypeInv
      <4>2. numbers[j] = Base(c) + sent[c] + j - 1 /\ Base(c) \in Int
        BY <1>0, BenchmarkAssumption DEF Numbers, Base, Clients
      <4> QED
        BY <1>3, <3>1, <4>1, <4>2
    <3>4. KeyOf(kind, c, n)' = <<Base(c) + n, buf'[c][KeyAt(kind, (n % NumBatch) + 1) + 1]>>
      BY <1>1 DEF KeyOf, Base, KeyAt, KeyWords, ValueWords
    <3> QED
      BY <3>1, <3>2, <3>3, <3>4
  <2>2. KeysIn(buf'[c], kind) \in [1 .. NumBatch -> Int \X Int]
    <3>1. ASSUME NEW j \in 1 .. NumBatch
          PROVE  KeyAt(kind, j) \in BufWords /\ KeyAt(kind, j) + 1 \in BufWords
      BY <1>1, <1>6, WordsWritten DEF Inv, TypeInv
    <3> QED
      BY <1>6, <3>1 DEF TypeInv, KeysIn
  <2> QED
    BY <1>4, <2>1, <2>2 DEF Asking
<1>10. (\A s \in Servers : Working(s, c)') /\ Replied(c)'
  BY <1>1, <1>2 DEF Working, Replied
<1>11. Owns(c)'
  BY <1>1, <1>5, <1>7, BenchmarkAssumption DEF ClientInv, Owns, SameKeysOf, Kinds, RangeOf, Base
<1>12. ASSUME NEW d \in Clients, d # c PROVE ClientInv(d)'
  <2>1. SameClient(d) /\ SameWorkOf(d) /\ buf'[d] = buf[d] /\ store' = store
    BY <1>1, <1>12 DEF Inv, TypeInv, SameClient, SameWorkOf
  <2> QED
    BY <2>1, Untouched, Unaffected DEF CountInv
<1>13. CountTypes' /\ Spawning' /\ StoreInv'
  BY <1>1, QuietCount DEF CountInv, CountTypes
<1> QED
  BY <1>8, <1>9, <1>10, <1>11, <1>12, <1>13 DEF CountInv, ClientInv

\* The end of a phase: all numbers are answered, and nothing is under way.
LEMMA EndPhaseCount ==
    ASSUME Inv, CountInv, NEW c \in Clients, EndInsert(c) \/ EndSearch(c)
    PROVE  CountInv'
<1>1. /\ complete[c] /\ sent[c] >= NumKv
      /\ UNCHANGED <<complete, type, buf, wire, reply, num_insert_ok, num_search_ok, num_search_error>>
      /\ UNCHANGED <<handling, at, batch, store, main, next_thread>>
      /\ \/ phase[c] = "insert" /\ phase'[c] = "search" /\ sent'[c] = 0
         \/ phase[c] = "search" /\ phase'[c] = "done" /\ sent'[c] = sent[c]
      /\ \A d \in Clients \ {c} : phase'[d] = phase[d] /\ sent'[d] = sent[d]
  BY DEF Inv, TypeInv, EndInsert, EndSearch, Waiting, server_vars, main_vars
<1>2. /\ wire[c] = NoRequest /\ reply[c] = NoReply
      /\ \A s \in Servers : handling[s] # c
  <2>1. c # Idle
    BY BenchmarkAssumption DEF Clients, Idle
  <2> QED
    BY <1>1, <2>1 DEF Inv, ReplyAnswersRequest, AtWork
<1>3. ClientInv(c) /\ TypeInv /\ NumKv \in Nat
  BY BenchmarkAssumption DEF CountInv, Inv
<1>4. sent[c] = NumKv /\ Answered(c) = NumKv
  BY <1>1, <1>3 DEF ClientInv, Counted, Answered
<1>5. SameKeysOf(c) /\ SameStoreOf(c)
  BY <1>1, Untouched
<1>6. Counted(c)'
  <2>1. num_insert_ok'[c] = NumKv /\ num_search_error'[c] = 0 /\ complete'[c]
    BY <1>1, <1>3, <1>4 DEF ClientInv, Counted
  <2>2. CASE phase[c] = "insert"
    <3>1. Answered(c)' = 0
      BY <1>1, <2>1, <2>2 DEF Answered
    <3>2. FoundIn(c, 0, 0)' = {}
      BY DEF FoundIn
    <3>3. num_search_ok'[c] = 0 /\ Cardinality({}) = 0
      BY <1>1, <1>3, <2>2, FS_EmptySet DEF ClientInv, Counted
    <3>4. \A m : m = Answered(c)' => num_search_ok'[c] = Cardinality(FoundIn(c, 0, m)')
      BY <3>1, <3>2, <3>3
    <3>5. phase'[c] = "search" /\ sent'[c] \in 0 .. NumKv
      BY <1>1, <1>3, <2>2
    <3> QED
      BY <2>1, <3>4, <3>5 DEF Counted
  <2>3. CASE phase[c] = "search"
    <3>1. Answered(c)' = NumKv
      BY <1>1, <1>4, <2>1, <2>3 DEF Answered
    <3>2. FoundIn(c, 0, NumKv)' = FoundIn(c, 0, NumKv)
      BY <1>3, <1>5, SameFoundIn
    <3>3. num_search_ok'[c] = Cardinality(FoundIn(c, 0, NumKv))
      BY <1>1, <1>3, <1>4, <2>3 DEF ClientInv, Counted
    <3>4. \A m : m = Answered(c)' => num_search_ok'[c] = Cardinality(FoundIn(c, 0, m)')
      BY <3>1, <3>2, <3>3
    <3>5. phase'[c] = "done" /\ sent'[c] = NumKv /\ sent'[c] \in 0 .. NumKv
      BY <1>1, <1>3, <1>4, <2>3
    <3> QED
      BY <2>1, <3>4, <3>5 DEF Counted
  <2> QED
    BY <1>1, <2>2, <2>3
<1>7. Asking(c)' /\ (\A s \in Servers : Working(s, c)') /\ Replied(c)'
  BY <1>1, <1>2 DEF Asking, Working, Replied
<1>8. Owns(c)'
  BY <1>1, <1>3, <1>5, BenchmarkAssumption DEF ClientInv, Owns, SameKeysOf, Kinds, RangeOf, Base
<1>9. ASSUME NEW d \in Clients, d # c PROVE ClientInv(d)'
  <2>1. SameClient(d) /\ SameWorkOf(d) /\ buf'[d] = buf[d] /\ store' = store
    BY <1>1, <1>9 DEF SameClient, SameWorkOf
  <2> QED
    BY <2>1, Untouched, Unaffected DEF CountInv
<1>10. CountTypes' /\ Spawning' /\ StoreInv'
  BY <1>1 DEF CountInv, CountTypes, Spawning, StoreInv
<1> QED
  BY <1>6, <1>7, <1>8, <1>9, <1>10 DEF CountInv, ClientInv

\* A reply adds what it answers.
LEMMA ContinueCount ==
    ASSUME Inv, CountInv, NEW c \in Clients, Continue(c)
    PROVE  CountInv'
<1>1. /\ reply[c] # NoReply /\ type[c] \in Kinds
      /\ complete' = [complete EXCEPT ![c] = TRUE]
      /\ reply' = [reply EXCEPT ![c] = NoReply]
      /\ UNCHANGED <<phase, sent, type, buf, wire, handling, at, batch, store, main, next_thread>>
  BY DEF Continue, ContInsert, ContSearch, server_vars, main_vars, Kinds
<1>2. /\ ~ complete[c] /\ type[c] = phase[c] /\ reply[c].type = type[c]
      /\ NumBatch \in Nat /\ NumKv \in Nat /\ sent[c] \in Nat
      /\ sent[c] - NumBatch \in Nat /\ sent[c] <= NumKv
      /\ wire[c] = NoRequest
  BY <1>1, Outstanding DEF CountInv, Inv, ReplyAnswersRequest
<1>3. complete'[c] /\ reply'[c] = NoReply
  BY <1>1 DEF Inv, TypeInv
<1>4. ClientInv(c) /\ TypeInv /\ CountTypes
  BY DEF CountInv, Inv
<1>5. SameKeysOf(c) /\ SameStoreOf(c)
  BY <1>1, Untouched
<1>6. PICK i \in Nat, l \in Nat, r \in {reply[c]} :
         i = sent[c] - NumBatch /\ l = sent[c] /\ l = i + NumBatch /\ 0 + l <= NumKv /\ r = reply[c]
  BY <1>2
<1>7. Answers(r, c, i, NumBatch) /\ Answered(c) = i /\ Answered(c)' = l
  BY <1>1, <1>2, <1>3, <1>4, <1>6 DEF ClientInv, Replied, Answered
<1>8. Counted(c)'
  <2>1. CASE phase[c] = "insert"
    <3>1. /\ num_insert_ok' = [num_insert_ok EXCEPT ![c] = num_insert_ok[c] + r.count]
          /\ num_search_ok' = num_search_ok /\ num_search_error' = num_search_error
      BY <1>2, <1>6, <2>1 DEF Continue, ContInsert, ContSearch
    <3>2. num_insert_ok'[c] = l /\ num_search_ok'[c] = 0 /\ num_search_error'[c] = 0
      BY <1>2, <1>4, <1>6, <1>7, <2>1, <3>1 DEF ClientInv, Counted, CountTypes, Answers
    <3> QED
      BY <1>1, <1>2, <1>3, <1>7, <2>1, <3>2 DEF Counted
  <2>2. CASE phase[c] = "search"
    <3>1. PICK n : n = Cardinality(Matching(r.found))
      OBVIOUS
    <3>2. /\ num_search_ok' = [num_search_ok EXCEPT ![c] = num_search_ok[c] + n]
          /\ num_search_error' =
                [num_search_error EXCEPT ![c] = num_search_error[c] + Len(r.found) - n]
          /\ num_insert_ok' = num_insert_ok
      BY <1>2, <1>6, <2>2, <3>1 DEF Continue, ContInsert, ContSearch
    <3>3. r.found \in Seq(Founds) /\ Len(r.found) = Cardinality(FoundIn(c, i, NumBatch))
      BY <1>2, <1>6, <1>7, <2>2 DEF Answers
    <3>4. n = Len(r.found) /\ n \in Nat
      BY <3>1, <3>3, AllMatch
    <3>5. /\ num_search_ok[c] = Cardinality(FoundIn(c, 0, i)) /\ num_insert_ok[c] = NumKv
          /\ num_search_error[c] = 0
      BY <1>4, <1>7, <2>2 DEF ClientInv, Counted
    <3>6. num_search_ok'[c] = Cardinality(FoundIn(c, 0, l))
      <4>1. num_search_ok'[c] = num_search_ok[c] + n
        BY <1>4, <3>2 DEF CountTypes
      <4>2. Cardinality(FoundIn(c, 0, l)) =
               Cardinality(FoundIn(c, 0, i)) + Cardinality(FoundIn(c, i, NumBatch))
        BY <1>2, <1>6, FoundInJoin
      <4> QED
        BY <3>3, <3>4, <3>5, <4>1, <4>2
    <3>7. num_search_error'[c] = 0 /\ num_insert_ok'[c] = NumKv
      BY <1>4, <3>2, <3>3, <3>4, <3>5 DEF CountTypes
    <3>8. FoundIn(c, 0, l)' = FoundIn(c, 0, l)
      BY <1>4, <1>5, <1>6, SameFoundIn
    <3>9. sent'[c] \in 0 .. NumKv /\ phase'[c] = "search" /\ complete'[c]
      BY <1>1, <1>2, <1>3, <2>2
    <3>10. \A m : m = Answered(c)' => num_search_ok'[c] = Cardinality(FoundIn(c, 0, m)')
      BY <1>7, <3>6, <3>8
    <3> QED
      BY <3>7, <3>9, <3>10 DEF Counted
  <2> QED
    BY <1>1, <1>2, <2>1, <2>2 DEF Kinds
<1>9. Asking(c)' /\ Replied(c)'
  BY <1>1, <1>2, <1>3 DEF Asking, Replied
<1>10. ASSUME NEW s \in Servers PROVE Working(s, c)'
  <2>1. handling[s] # c
    <3>1. c # Idle
      BY BenchmarkAssumption DEF Clients, Idle
    <3> QED
      BY <1>2, <3>1 DEF Inv, AtWork
  <2> QED
    BY <1>1, <2>1 DEF Working
<1>11. Owns(c)'
  BY <1>1, <1>4, <1>5, BenchmarkAssumption DEF ClientInv, Owns, SameKeysOf, Kinds, RangeOf, Base
<1>12. /\ CountTypes'
       /\ \A d \in Clients \ {c} :
             /\ num_insert_ok'[d] = num_insert_ok[d] /\ num_search_ok'[d] = num_search_ok[d]
             /\ num_search_error'[d] = num_search_error[d]
  <2>1. CASE ContInsert(c)
    <3>1. r.count \in Int
      BY <1>1, <1>2, <1>6, <1>7, <2>1 DEF ContInsert, Answers
    <3> QED
      BY <1>1, <1>4, <1>6, <2>1, <3>1 DEF ContInsert, CountTypes
  <2>2. CASE ContSearch(c)
    <3>1. Cardinality(Matching(r.found)) \in Int /\ Len(r.found) \in Int
      BY <1>1, <1>2, <1>6, <1>7, <2>2, AllMatch DEF ContSearch, Answers
    <3> QED
      BY <1>1, <1>4, <1>6, <2>2, <3>1 DEF ContSearch, CountTypes
  <2> QED
    BY <2>1, <2>2 DEF Continue
<1>13. ASSUME NEW d \in Clients, d # c PROVE ClientInv(d)'
  <2>1. SameClient(d) /\ SameWorkOf(d) /\ buf'[d] = buf[d] /\ store' = store
    BY <1>1, <1>12, <1>13 DEF Inv, TypeInv, SameClient, SameWorkOf
  <2> QED
    BY <2>1, Untouched, Unaffected DEF CountInv
<1>14. Spawning' /\ StoreInv'
  BY <1>1, QuietCount
<1> QED
  BY <1>8, <1>9, <1>10, <1>11, <1>12, <1>13, <1>14 DEF CountInv, ClientInv

-----------------------------------------------------------------------------
LEMMA TakeRequestCount ==
    ASSUME Inv, CountInv, NEW s \in Servers, NEW c \in Clients, TakeRequest(s, c)
    PROVE  CountInv'
<1>1. /\ handling[s] = Idle /\ wire[c] # NoRequest
      /\ handling' = [handling EXCEPT ![s] = c]
      /\ at' = [at EXCEPT ![s] = 1]
      /\ batch' = [batch EXCEPT ![s] = [type |-> wire[c].type, count |-> 0, found |-> <<>>]]
      /\ UNCHANGED <<phase, sent, complete, type, buf, wire, reply>>
      /\ UNCHANGED <<num_insert_ok, num_search_ok, num_search_error, store, main, next_thread>>
  BY DEF TakeRequest, client_vars, main_vars
<1>2. /\ NumBatch \in Nat \ {0} /\ NumKv \in Nat /\ sent[c] - NumBatch \in Nat /\ sent[c] <= NumKv
  BY <1>1, Outstanding, BenchmarkAssumption DEF CountInv
<1>3. ClientInv(c) /\ TypeInv /\ CountTypes
  BY DEF CountInv, Inv
<1>4. ASSUME NEW d \in Clients PROVE SameClient(d) /\ SameKeysOf(d) /\ SameStoreOf(d)
  BY <1>1, Untouched DEF SameClient
<1>5. ASSUME NEW d \in Clients, d # c PROVE SameWorkOf(d)
  BY <1>1, <1>3, <1>5 DEF TypeInv, CountTypes, SameWorkOf
<1>6. Working(s, c)'
  <2>1. at'[s] = 1 /\ batch'[s] = [type |-> wire[c].type, count |-> 0, found |-> <<>>]
    BY <1>1, <1>3 DEF CountTypes, TypeInv
  <2>2. ASSUME NEW r, NEW i, NEW m, r = batch'[s], i = sent'[c] - NumBatch, m = at'[s] - 1
        PROVE  Answers(r, c, i, m)'
    <3>1. m = 0 /\ i \in Nat /\ r.count = 0 /\ r.found = <<>>
      BY <1>1, <1>2, <2>1, <2>2
    <3>2. i + 0 <= NumKv
      <4>1. i = sent[c] - NumBatch /\ sent[c] \in Int
        BY <1>1, <1>3, <2>2 DEF TypeInv
      <4> QED
        BY <1>2, <4>1
    <3>3. FoundIn(c, i, 0)' = FoundIn(c, i, 0) /\ Cardinality(FoundIn(c, i, 0)) = 0
      BY <1>3, <1>4, <3>1, <3>2, SameFoundIn, FoundInNone
    <3>4. <<>> \in Seq(Founds) /\ Len(<<>>) = 0
      BY EmptySeq
    <3> QED
      BY <3>1, <3>3, <3>4 DEF Answers
  <2> QED
    BY <1>2, <2>1, <2>2 DEF Working
<1>7. ASSUME NEW u \in Servers, u # s PROVE Working(u, c)'
  <2>1. handling[u] # c
    <3>1. c # Idle
      BY BenchmarkAssumption DEF Clients, Idle
    <3> QED
      BY <1>1, <1>7, <3>1 DEF Inv, AtWork, TakeRequest
  <2> QED
    BY <1>1, <1>3, <1>7, <2>1 DEF Working, TypeInv
<1>8. ClientInv(c)'
  BY <1>3, <1>4, <1>6, <1>7, UnaffectedClient DEF ClientInv
<1>9. ASSUME NEW d \in Clients, d # c PROVE ClientInv(d)'
  BY <1>4, <1>5, <1>9, Unaffected DEF CountInv
<1>10. CountTypes' /\ Spawning' /\ StoreInv'
  BY <1>1, QuietCount DEF CountInv, CountTypes
<1> QED
  BY <1>8, <1>9, <1>10 DEF CountInv

\* A request has one server thread at work on it, and no reply yet.
Handles(s, c) ==
    /\ c \in Clients /\ ClientInv(c) /\ wire[c] # NoRequest /\ reply[c] = NoReply
    /\ batch[s].type = phase[c] /\ wire[c].type = phase[c] /\ type[c] = phase[c]
    /\ \A u \in Servers : u # s => handling[u] # c
    /\ NumBatch \in Nat \ {0} /\ NumKv \in Nat /\ phase[c] \in Kinds /\ ~ complete[c]
    /\ sent[c] \in Nat /\ sent[c] - NumBatch \in Nat /\ sent[c] <= NumKv
    /\ at[s] \in 1 .. NumBatch + 1 /\ Len(wire[c].keys) = NumBatch

LEMMA AloneAtWork ==
    ASSUME Inv, CountInv, NEW s \in Servers, NEW c, c = handling[s], c # Idle
    PROVE  Handles(s, c)
<1>1. c \in Clients /\ ServerOf(c) = s /\ wire[c] # NoRequest /\ batch[s].type = wire[c].type
  BY DEF Inv, TypeInv, AtWork
<1>2. ClientInv(c)
  BY <1>1 DEF CountInv
<1>3. /\ NumBatch \in Nat \ {0} /\ NumKv \in Nat /\ phase[c] \in Kinds /\ ~ complete[c]
      /\ sent[c] \in Nat /\ sent[c] - NumBatch \in Nat /\ sent[c] <= NumKv /\ type[c] = phase[c]
  BY <1>1, <1>2, Outstanding, BenchmarkAssumption
<1>4. wire[c].type = type[c] /\ reply[c] = NoReply
  BY <1>1 DEF Inv, ReplyAnswersRequest
<1>5. \A u \in Servers : u # s => handling[u] # c
  BY <1>1 DEF Inv, AtWork
<1>6. at[s] \in 1 .. NumBatch + 1
  BY <1>2 DEF ClientInv, Working
<1>7. wire[c].keys \in [1 .. NumBatch -> Int \X Int]
  BY <1>1, <1>2 DEF ClientInv, Asking
<1>8. Len(wire[c].keys) = NumBatch
  BY <1>3, <1>7, LenProperties
<1> QED
  BY <1>1, <1>2, <1>3, <1>4, <1>5, <1>6, <1>8 DEF Handles

\* The key it comes to is the one the client has sent for that place.
LEMMA AtKey ==
    ASSUME Inv, CountInv, NEW s \in Servers, NEW c, c = handling[s], c # Idle,
           at[s] <= Len(wire[c].keys),
           NEW n, n = sent[c] - NumBatch + at[s] - 1
    PROVE  /\ at[s] \in 1 .. NumBatch /\ n \in Nat /\ n < NumKv
           /\ CurrentKey(s) = KeyOf(phase[c], c, n)
           /\ CurrentKey(s) \in Int \X Int /\ CurrentKey(s)[1] \in RangeOf(c)
<1>1. /\ c \in Clients /\ ClientInv(c) /\ wire[c] # NoRequest /\ wire[c].type = phase[c]
      /\ NumBatch \in Nat \ {0} /\ NumKv \in Nat /\ phase[c] \in Kinds
      /\ sent[c] \in Nat /\ sent[c] - NumBatch \in Nat /\ sent[c] <= NumKv
      /\ at[s] \in 1 .. NumBatch + 1 /\ Len(wire[c].keys) = NumBatch
  <2>1. Handles(s, c)
    BY AloneAtWork
  <2> QED
    BY <2>1 DEF Handles
<1>2. at[s] \in 1 .. NumBatch /\ n \in Nat /\ n < NumKv
  <2>1. at[s] <= NumBatch /\ at[s] \in Int /\ 1 <= at[s]
    BY <1>1
  <2> QED
    BY <1>1, <2>1
<1>3. wire[c].keys[at[s]] = KeyOf(phase[c], c, n)
  <2>1. PICK j \in 1 .. NumBatch : j = at[s]
    BY <1>2
  <2>2. \A kind, m : kind = wire[c].type /\ m = sent[c] - NumBatch + j - 1
                     => wire[c].keys[j] = KeyOf(kind, c, m)
    BY <1>1 DEF ClientInv, Asking
  <2>3. n = sent[c] - NumBatch + j - 1
    BY <2>1
  <2>4. wire[c].keys[j] = KeyOf(phase[c], c, n)
    BY <1>1, <2>2, <2>3
  <2> QED
    BY <2>1, <2>4
<1>4. CurrentKey(s) = KeyOf(phase[c], c, n)
  BY <1>3 DEF CurrentKey, Request
<1>5. KeyOf(phase[c], c, n) \in Int \X Int /\ KeyOf(phase[c], c, n)[1] = Base(c) + n
  BY <1>1, <1>2, KeyOfType DEF Inv
<1>6. Base(c) \in Int
  BY <1>1, BenchmarkAssumption DEF Base, Clients
<1>7. Base(c) + n \in RangeOf(c)
  BY <1>1, <1>2, <1>6 DEF RangeOf
<1> QED
  BY <1>2, <1>4, <1>5, <1>7

(***************************************************************************)
(* A put stores a key of the client's own, under a number that no other    *)
(* client has; it counts whether the bucket has room or not.               *)
(***************************************************************************)
LEMMA HandlePutCount ==
    ASSUME Inv, CountInv, NEW s \in Servers, HandlePut(s)
    PROVE  CountInv'
<1>0. PICK c, k, n : c = handling[s] /\ k = CurrentKey(s) /\ n = sent[c] - NumBatch + at[s] - 1
  OBVIOUS
<1>1. /\ c # Idle /\ wire[c].type = "insert" /\ at[s] <= Len(wire[c].keys)
      /\ \/ store' = store
         \/ store' = [j \in DOMAIN store \cup {k} |-> IF j = k THEN Record(k) ELSE store[j]]
      /\ at' = [at EXCEPT ![s] = at[s] + 1]
      /\ batch' = [batch EXCEPT ![s] = [batch[s] EXCEPT !.count = batch[s].count + 1]]
      /\ UNCHANGED <<phase, sent, complete, type, buf, wire, reply, handling>>
      /\ UNCHANGED <<num_insert_ok, num_search_ok, num_search_error, main, next_thread>>
  BY <1>0 DEF HandlePut, Busy, Request, client_vars, main_vars
<1>2. Handles(s, c)
  BY <1>0, <1>1, AloneAtWork
<1>3. /\ at[s] \in 1 .. NumBatch /\ n \in Nat /\ n < NumKv
      /\ k = KeyOf(phase[c], c, n) /\ k[1] \in RangeOf(c)
  BY <1>0, <1>1, AtKey
<1>4. /\ c \in Clients /\ phase[c] = "insert" /\ ClientInv(c) /\ reply[c] = NoReply
      /\ NumBatch \in Nat /\ NumKv \in Nat /\ TypeInv /\ CountTypes
  BY <1>1, <1>2 DEF Handles, Inv, CountInv
<1>5. DOMAIN store' = DOMAIN store \/ DOMAIN store' = DOMAIN store \cup {k}
  BY <1>1
<1>6. StoreInv'
  <2>1. StoreInv
    BY DEF CountInv
  <2>2. IsFiniteSet(DOMAIN store')
    BY <1>5, <2>1, FS_AddElement DEF StoreInv
  <2>3. \A j \in DOMAIN store' : store'[j] = Record(j)
    BY <1>1, <2>1 DEF StoreInv
  <2> QED
    BY <2>2, <2>3 DEF StoreInv, Record, ValueOf, Padding
<1>7. ASSUME NEW d \in Clients PROVE SameClient(d) /\ SameKeysOf(d)
  BY <1>1 DEF SameClient, SameKeysOf, KeyOf, Base
<1>8. ASSUME NEW d \in Clients, d # c PROVE ClientInv(d)'
  <2>1. k[1] \notin RangeOf(d)
    BY <1>3, <1>4, <1>8, RangesApart
  <2>2. SameStoreOf(d)
    BY <1>5, <2>1 DEF SameStoreOf
  <2>3. SameWorkOf(d)
    BY <1>0, <1>1, <1>4, <1>8 DEF SameWorkOf, TypeInv, CountTypes
  <2> QED
    BY <1>7, <1>8, <2>2, <2>3, Unaffected DEF CountInv
<1>9. Counted(c)'
  <2>1. Answered(c)' = Answered(c)
    BY <1>1 DEF Answered
  <2> QED
    BY <1>1, <1>4, <2>1 DEF ClientInv, Counted
<1>10. Asking(c)'
  BY <1>4, <1>7, UnaffectedAsking
<1>11. Working(s, c)'
  <2>1. at'[s] = at[s] + 1 /\ at'[s] \in 1 .. NumBatch + 1
    BY <1>1, <1>3, <1>4 DEF CountTypes
  <2>2. batch'[s].type = "insert" /\ batch'[s].count = batch[s].count + 1
    <3>1. IsReply(batch[s]) /\ batch[s].type = "insert"
      BY <1>0, <1>1, <1>2, <1>4 DEF Handles, Inv, AtWork
    <3>2. batch'[s] = [batch[s] EXCEPT !.count = batch[s].count + 1]
      BY <1>1, <1>4 DEF TypeInv
    <3> QED
      BY <3>1, <3>2 DEF IsReply
  <2>3. batch[s].count = at[s] - 1
    <3>1. PICK r, i, m : r = batch[s] /\ i = sent[c] - NumBatch /\ m = at[s] - 1
      OBVIOUS
    <3>2. Answers(r, c, i, m) /\ r.type = "insert"
      BY <1>0, <1>2, <1>4, <3>1 DEF ClientInv, Working, Handles
    <3> QED
      BY <3>1, <3>2 DEF Answers
  <2>4. batch'[s].count = at'[s] - 1
    BY <1>3, <1>4, <2>1, <2>2, <2>3
  <2> QED
    BY <2>1, <2>2, <2>4 DEF Working, Answers
<1>12. ASSUME NEW u \in Servers, u # s PROVE Working(u, c)'
  BY <1>1, <1>2, <1>12 DEF Working, Handles
<1>13. Replied(c)'
  BY <1>1, <1>4 DEF Replied
<1>14. Owns(c)'
  <2>1. ASSUME NEW x \in DOMAIN store', x[1] \in RangeOf(c)
        PROVE  \E m \in 0 .. NumKv - 1 : x = KeyOf("insert", c, m)'
    <3>1. PICK m \in 0 .. NumKv - 1 : x = KeyOf("insert", c, m)
      BY <1>3, <1>4, <1>5, <2>1 DEF ClientInv, Owns
    <3>2. x = KeyOf("insert", c, m)'
      BY <1>4, <1>7, <3>1 DEF SameKeysOf, Kinds
    <3> QED
      BY <3>2
  <2> QED
    BY <2>1 DEF Owns, RangeOf, Base
<1>15. ClientInv(c)'
  BY <1>9, <1>10, <1>11, <1>12, <1>13, <1>14 DEF ClientInv
<1>16. CountTypes' /\ Spawning'
  BY <1>1 DEF CountInv, CountTypes, Spawning
<1> QED
  BY <1>6, <1>8, <1>15, <1>16 DEF CountInv

\* A get adds the key, if it is found, with the record that was put for it.
LEMMA HandleGetCount ==
    ASSUME Inv, CountInv, NEW s \in Servers, HandleGet(s)
    PROVE  CountInv'
<1>0. PICK c, k, n : c = handling[s] /\ k = CurrentKey(s) /\ n = sent[c] - NumBatch + at[s] - 1
  OBVIOUS
<1>1. /\ c # Idle /\ wire[c].type = "search" /\ at[s] <= Len(wire[c].keys)
      /\ at' = [at EXCEPT ![s] = at[s] + 1]
      /\ \/ k \notin DOMAIN store /\ batch' = batch
         \/ /\ k \in DOMAIN store
            /\ \E e : /\ e = [key |-> k, value |-> CopiedValue(store[k])]
                      /\ batch' = [batch EXCEPT ![s] =
                            [batch[s] EXCEPT !.count = batch[s].count + 1,
                                             !.found = Append(batch[s].found, e)]]
      /\ UNCHANGED <<phase, sent, complete, type, buf, wire, reply, handling, store>>
      /\ UNCHANGED <<num_insert_ok, num_search_ok, num_search_error, main, next_thread>>
  BY <1>0 DEF HandleGet, Busy, Request, client_vars, main_vars
<1>2. Handles(s, c)
  BY <1>0, <1>1, AloneAtWork
<1>3. /\ at[s] \in 1 .. NumBatch /\ n \in Nat /\ n < NumKv
      /\ k = KeyOf(phase[c], c, n) /\ k \in Int \X Int
  BY <1>0, <1>1, AtKey
<1>4. /\ c \in Clients /\ phase[c] = "search" /\ batch[s].type = "search" /\ ClientInv(c)
      /\ NumBatch \in Nat /\ NumKv \in Nat /\ TypeInv /\ CountTypes /\ IsReply(batch[s])
      /\ sent[c] - NumBatch \in Nat /\ sent[c] \in Nat /\ sent[c] <= NumKv
  BY <1>0, <1>1, <1>2 DEF Handles, Inv, CountInv, AtWork
<1>5. ASSUME NEW d \in Clients PROVE SameClient(d) /\ SameKeysOf(d) /\ SameStoreOf(d)
  BY <1>1, Untouched DEF SameClient
<1>6. ASSUME NEW d \in Clients, d # c PROVE ClientInv(d)'
  <2>1. SameWorkOf(d)
    BY <1>0, <1>1, <1>4, <1>6 DEF SameWorkOf, TypeInv, CountTypes
  <2> QED
    BY <1>5, <1>6, <2>1, Unaffected DEF CountInv
<1>7. PICK i \in Nat, m \in Nat, l \in Nat :
         i = sent[c] - NumBatch /\ m = at[s] - 1 /\ l = m + 1 /\ n = i + m /\ i + l <= NumKv
  <2>1. PICK i \in Nat, m \in Nat, l \in Nat : i = sent[c] - NumBatch /\ m = at[s] - 1 /\ l = m + 1
    BY <1>3, <1>4
  <2>2. n = i + m /\ i + l <= NumKv
    BY <1>0, <1>3, <1>4, <2>1
  <2> QED
    BY <2>1, <2>2
<1>8. batch[s].found \in Seq(Founds) /\ Len(batch[s].found) = Cardinality(FoundIn(c, i, m))
  <2>1. PICK r : r = batch[s]
    OBVIOUS
  <2>2. Answers(r, c, i, m) /\ r.type = "search"
    BY <1>0, <1>4, <1>7, <2>1 DEF ClientInv, Working
  <2> QED
    BY <2>1, <2>2 DEF Answers
<1>9. /\ batch'[s].type = "search"
      /\ batch'[s].found \in Seq(Founds)
      /\ Len(batch'[s].found) = Cardinality(FoundIn(c, i, l))
  <2> DEFINE before == Cardinality(FoundIn(c, i, m))
             after == Cardinality(FoundIn(c, i, l))
  <2>0. after = IF k \in DOMAIN store THEN before + 1 ELSE before
    <3>1. c \in Clients /\ l = m + 1 /\ n = i + m
      BY <1>4, <1>7
    <3>2. after = IF KeyOf("search", c, n) \in DOMAIN store THEN before + 1 ELSE before
      BY <3>1, FoundInNext
    <3> QED
      BY <1>3, <1>4, <3>2
  <2>1. CASE k \notin DOMAIN store
    <3>1. Cardinality(FoundIn(c, i, l)) = Cardinality(FoundIn(c, i, m))
      BY <2>0, <2>1
    <3> QED
      BY <1>1, <1>4, <1>8, <2>1, <3>1
  <2>2. CASE k \in DOMAIN store
    <3>1. Cardinality(FoundIn(c, i, l)) = Cardinality(FoundIn(c, i, m)) + 1
      BY <2>0, <2>2
    <3>2. PICK e : /\ e = [key |-> k, value |-> CopiedValue(store[k])]
                   /\ batch' = [batch EXCEPT ![s] =
                         [batch[s] EXCEPT !.count = batch[s].count + 1,
                                          !.found = Append(batch[s].found, e)]]
      BY <1>1, <2>2
    <3>3. batch'[s] = [batch[s] EXCEPT !.count = batch[s].count + 1,
                                       !.found = Append(batch[s].found, e)]
      BY <1>4, <3>2 DEF TypeInv
    <3>4. batch'[s].type = "search" /\ batch'[s].found = Append(batch[s].found, e)
      BY <1>4, <3>3 DEF IsReply
    <3>5. e \in Founds
      BY <1>3, <2>2, <3>2 DEF Founds, CountInv, StoreInv
    <3>6. Append(batch[s].found, e) \in Seq(Founds) /\ Len(Append(batch[s].found, e)) = Len(batch[s].found) + 1
      BY <1>8, <3>5, AppendProperties
    <3> QED
      BY <1>8, <3>1, <3>4, <3>6
  <2> QED
    BY <2>1, <2>2
<1>10. Working(s, c)'
  <2>0. at'[s] = at[s] + 1
    <3>1. at' = [at EXCEPT ![s] = at[s] + 1] /\ at \in [Servers -> Int]
      BY <1>1, <1>4 DEF CountTypes
    <3> QED
      BY <3>1
  <2>1. at'[s] \in 1 .. NumBatch + 1 /\ l = at'[s] - 1
    BY <1>3, <1>4, <1>7, <2>0
  <2>2. FoundIn(c, i, l)' = FoundIn(c, i, l)
    BY <1>4, <1>5, <1>7, SameFoundIn
  <2>3. i = sent'[c] - NumBatch
    BY <1>1, <1>7
  <2>4. ASSUME NEW r, r = batch'[s] PROVE Answers(r, c, i, l)'
    BY <1>9, <2>2, <2>4 DEF Answers
  <2> QED
    BY <2>1, <2>3, <2>4 DEF Working
<1>11. ASSUME NEW u \in Servers, u # s PROVE Working(u, c)'
  BY <1>1, <1>2, <1>11 DEF Working, Handles
<1>12. ClientInv(c)'
  BY <1>4, <1>5, <1>10, <1>11, UnaffectedClient DEF ClientInv
<1>13. CountTypes'
  <2>1. at' = [at EXCEPT ![s] = at[s] + 1] /\ at \in [Servers -> Int]
    BY <1>1, <1>4 DEF CountTypes
  <2>2. UNCHANGED <<num_insert_ok, num_search_ok, num_search_error>>
    BY <1>1
  <2> QED
    BY <1>4, <2>1, <2>2 DEF CountTypes
<1>14. Spawning' /\ StoreInv'
  BY <1>1, QuietCount
<1> QED
  BY <1>6, <1>12, <1>13, <1>14 DEF CountInv

\* The reply answers the whole batch.
LEMMA RespondCount ==
    ASSUME Inv, CountInv, NEW s \in Servers, Respond(s)
    PROVE  CountInv'
<1>0. PICK c : c = handling[s]
  OBVIOUS
<1>1. /\ c # Idle /\ at[s] > Len(wire[c].keys)
      /\ reply' = [reply EXCEPT ![c] = batch[s]]
      /\ wire' = [wire EXCEPT ![c] = NoRequest]
      /\ handling' = [handling EXCEPT ![s] = Idle]
      /\ at' = [at EXCEPT ![s] = 0]
      /\ batch' = [batch EXCEPT ![s] = NoReply]
      /\ UNCHANGED <<phase, sent, complete, type, buf, store>>
      /\ UNCHANGED <<num_insert_ok, num_search_ok, num_search_error, main, next_thread>>
  BY <1>0 DEF Respond, Request, client_vars, main_vars
<1>2. Handles(s, c)
  BY <1>0, <1>1, AloneAtWork
<1>3. /\ c \in Clients /\ ClientInv(c) /\ TypeInv /\ CountTypes
      /\ NumBatch \in Nat /\ NumKv \in Nat /\ sent[c] \in Nat
      /\ sent[c] - NumBatch \in Nat /\ sent[c] <= NumKv
  BY <1>2 DEF Handles, Inv, CountInv
<1>4. at[s] - 1 = NumBatch
  <2>1. at[s] \in 1 .. NumBatch + 1 /\ NumBatch \in Nat /\ at[s] > NumBatch
    BY <1>1, <1>2 DEF Handles
  <2> QED
    BY <2>1
<1>5. /\ \A d \in Clients : SameKeysOf(d) /\ SameStoreOf(d)
      /\ reply'[c] = batch[s] /\ wire'[c] = NoRequest
  BY <1>1, <1>3, Untouched DEF TypeInv
<1>6. ASSUME NEW d \in Clients, d # c PROVE ClientInv(d)'
  <2>1. d # Idle
    BY BenchmarkAssumption DEF Clients, Idle
  <2>2. SameWorkOf(d) /\ SameClient(d)
    BY <1>1, <1>3, <1>6, <2>1 DEF SameWorkOf, SameClient, TypeInv, CountTypes
  <2> QED
    BY <1>5, <1>6, <2>2, Unaffected DEF CountInv
<1>7. Replied(c)'
  <2>1. PICK i \in Nat, r \in {batch[s]} :
           i = sent[c] - NumBatch /\ r = batch[s] /\ i + NumBatch <= NumKv
    BY <1>3
  <2>2. Answers(r, c, i, NumBatch)
    BY <1>0, <1>3, <1>4, <2>1 DEF ClientInv, Working
  <2>3. Answers(r, c, i, NumBatch)'
    BY <1>3, <1>5, <2>1, <2>2, SameAnswers
  <2> QED
    BY <1>1, <1>5, <2>1, <2>3 DEF Replied
<1>8. Counted(c)'
  <2>1. Answered(c)' = Answered(c)
    BY <1>1 DEF Answered
  <2>2. ASSUME NEW m, m = Answered(c) PROVE FoundIn(c, 0, m)' = FoundIn(c, 0, m)
    <3>1. m \in Nat /\ 0 + m <= NumKv
      BY <1>3, <2>2 DEF Answered
    <3> QED
      BY <1>3, <1>5, <3>1, SameFoundIn
  <2> QED
    BY <1>1, <1>3, <2>1, <2>2 DEF ClientInv, Counted
<1>9. Asking(c)'
  BY <1>5 DEF Asking
<1>10. ASSUME NEW u \in Servers PROVE Working(u, c)'
  <2>1. c # Idle
    BY <1>1
  <2> QED
    BY <1>1, <1>2, <1>3, <2>1 DEF Working, Handles, TypeInv
<1>11. Owns(c)'
  BY <1>1, <1>3, <1>5, BenchmarkAssumption DEF ClientInv, Owns, SameKeysOf, Kinds, RangeOf, Base
<1>12. CountTypes' /\ Spawning' /\ StoreInv'
  BY <1>1, QuietCount DEF CountInv, CountTypes
<1> QED
  BY <1>6, <1>7, <1>8, <1>9, <1>10, <1>11, <1>12 DEF CountInv, ClientInv

-----------------------------------------------------------------------------
\* A thread is spawned once: it was not born, and has sent nothing.
LEMMA SpawnCount ==
    ASSUME Inv, CountInv, Spawn
    PROVE  CountInv'
<1>1. /\ main = "spawn"
      /\ phase' = [phase EXCEPT ![next_thread] = "insert"]
      /\ \/ next_thread + 1 < NumClient /\ next_thread' = next_thread + 1
         \/ main' = "sum"
      /\ UNCHANGED <<sent, complete, type, buf, wire, reply, num_insert_ok, num_search_ok, num_search_error>>
      /\ UNCHANGED <<handling, at, batch, store>>
  BY DEF Spawn, server_vars
<1>2. PICK c \in Clients : c = next_thread /\ phase[c] = "unborn"
  BY <1>1, BenchmarkAssumption DEF CountInv, Spawning, Clients
<1>3. /\ phase'[c] = "insert" /\ \A d \in Clients \ {c} : phase'[d] = phase[d]
      /\ ClientInv(c) /\ TypeInv
  BY <1>1, <1>2 DEF CountInv, Inv, TypeInv
<1>4. complete[c]
  BY <1>2, <1>3 DEF ClientInv, Counted, Kinds
<1>5. Counted(c)'
  <2>1. Answered(c)' = Answered(c)
    BY <1>1 DEF Answered
  <2> QED
    BY <1>1, <1>2, <1>3, <1>4, <2>1 DEF ClientInv, Counted
<1>6. SameKeysOf(c) /\ SameStoreOf(c)
  BY <1>1, Untouched
<1>7. /\ wire[c] = NoRequest /\ reply[c] = NoReply
      /\ \A s \in Servers : handling[s] # c
  <2>1. c # Idle
    BY BenchmarkAssumption DEF Clients, Idle
  <2> QED
    BY <1>4, <2>1 DEF Inv, ReplyAnswersRequest, AtWork
<1>8. Asking(c)' /\ (\A s \in Servers : Working(s, c)') /\ Replied(c)'
  BY <1>1, <1>7 DEF Asking, Working, Replied
<1>9. Owns(c)'
  BY <1>1, <1>3, <1>6, BenchmarkAssumption DEF ClientInv, Owns, SameKeysOf, Kinds, RangeOf, Base
<1>10. ASSUME NEW d \in Clients, d # c PROVE ClientInv(d)'
  <2>1. SameClient(d) /\ SameWorkOf(d) /\ buf'[d] = buf[d] /\ store' = store
    BY <1>1, <1>3, <1>10 DEF SameClient, SameWorkOf
  <2> QED
    BY <2>1, Untouched, Unaffected DEF CountInv
<1>11. Spawning'
  BY <1>1, <1>2, <1>3, BenchmarkAssumption DEF CountInv, Spawning, Clients
<1>12. CountTypes' /\ StoreInv'
  BY <1>1 DEF CountInv, CountTypes, StoreInv
<1> QED
  BY <1>5, <1>8, <1>9, <1>10, <1>11, <1>12 DEF CountInv, ClientInv

\* The main thread sums and joins, and the steps that change nothing.
LEMMA RestCount ==
    ASSUME Inv, CountInv, UNCHANGED <<client_vars, server_vars, wire, reply>>,
           main' # "spawn" \/ UNCHANGED <<main, next_thread>>
    PROVE  CountInv'
<1>1. /\ UNCHANGED <<phase, sent, complete, type, buf, wire, reply>>
      /\ UNCHANGED <<num_insert_ok, num_search_ok, num_search_error, handling, at, batch, store>>
  BY DEF client_vars, server_vars
<1>2. ASSUME NEW d \in Clients PROVE ClientInv(d)'
  <2>1. SameClient(d) /\ SameWorkOf(d) /\ buf'[d] = buf[d] /\ store' = store
    BY <1>1 DEF SameClient, SameWorkOf
  <2> QED
    BY <2>1, Untouched, Unaffected DEF CountInv
<1>3. CountTypes' /\ StoreInv'
  BY <1>1 DEF CountInv, CountTypes, StoreInv
<1>4. Spawning'
  BY <1>1 DEF CountInv, Spawning
<1> QED
  BY <1>2, <1>3, <1>4 DEF CountInv

LEMMA NextCount == Inv /\ CountInv /\ [Next]_vars => CountInv'
<1> SUFFICES ASSUME Inv, CountInv, [Next]_vars PROVE CountInv'
  OBVIOUS
<1>1. ASSUME NEW c \in Clients, ClientStep(c) PROVE CountInv'
  BY <1>1, SendBatchCount, EndPhaseCount, ContinueCount DEF ClientStep
<1>2. ASSUME NEW s \in Servers, ServerStep(s) PROVE CountInv'
  BY <1>2, HandlePutCount, HandleGetCount, RespondCount, TakeRequestCount DEF ServerStep
<1>3. ASSUME SumNext \/ JoinNext PROVE CountInv'
  BY <1>3, RestCount DEF SumNext, JoinNext
<1>4. CASE UNCHANGED vars
  BY <1>4, RestCount DEF vars, main_vars
<1> QED
  BY <1>1, <1>2, <1>3, <1>4, SpawnCount DEF Next, MainStep

-----------------------------------------------------------------------------
\* The second half of every key is one of the words that no request writes.
LEMMA SecondHalf ==
    ASSUME TypeInv, NEW c \in Clients, NEW kind \in Kinds, NEW n \in Nat
    PROVE  KeyOf(kind, c, n)[2] \in Unwritten(c)
<1>1. PICK j \in 1 .. NumBatch : j = (n % NumBatch) + 1
  BY Remainder
<1>2. PICK w : w = KeyAt(kind, j) + 1
  OBVIOUS
<1>3. /\ w \in BufWords
      /\ \A other \in Kinds, i \in 1 .. NumBatch : w \notin WordsOf(other, i)
  BY <1>2, WordsWritten DEF TypeInv
<1>4. w \notin UNION {WordsOf(other, i) : other \in {"insert", "search"}, i \in 1 .. NumBatch}
  BY <1>3 DEF Kinds
<1>5. buf[c][w] \in Unwritten(c)
  BY <1>3, <1>4 DEF Unwritten
<1>6. KeyOf(kind, c, n) = <<Base(c) + n, buf[c][w]>>
  BY <1>1, <1>2 DEF KeyOf
<1> QED
  BY <1>5, <1>6

LEMMA UnwrittenFinite ==
    ASSUME NEW c \in Clients
    PROVE  IsFiniteSet(Unwritten(c))
<1> DEFINE W == UNION {WordsOf(kind, j) : kind \in {"insert", "search"}, j \in 1 .. NumBatch}
           D == BufWords \ W
           g == [w \in D |-> buf[c][w]]
<1>1. IsFiniteSet(BufWords)
  BY BenchmarkAssumption, FS_Interval DEF BufWords, KeyWords, ValueWords
<1>2. IsFiniteSet(D)
  BY <1>1, FS_Subset
<1>3. Unwritten(c) = {buf[c][w] : w \in D}
  BY DEF Unwritten
<1> HIDE DEF D
<1>4. g \in Surjection(D, Unwritten(c))
  BY <1>3 DEF Surjection
<1> QED
  BY <1>2, <1>4, FS_Surjection

\* Every key found is one of those taken, and a key of its own.
LEMMA FoundAreTaken ==
    ASSUME Inv, CountInv, NEW c \in Clients, NEW F, F = FoundIn(c, 0, NumKv)
    PROVE  /\ IsFiniteSet(F) /\ IsFiniteSet(Taken(c))
           /\ Cardinality(F) \in Nat /\ Cardinality(Taken(c)) \in Nat
           /\ Cardinality(F) <= Cardinality(Taken(c))
           /\ Cardinality(Unwritten(c)) = 1 => Cardinality(F) = Cardinality(Taken(c))
<1> DEFINE f == [n \in F |-> KeyOf("search", c, n)]
<1>1. NumKv \in Nat /\ Base(c) \in Int /\ RangeOf(c) = Base(c) .. Base(c) + NumKv - 1
  BY BenchmarkAssumption DEF Base, Clients, RangeOf
<1>2. IsFiniteSet(F) /\ Cardinality(F) \in Nat
  BY <1>1, FoundInSize
<1>3. IsFiniteSet(Taken(c)) /\ Cardinality(Taken(c)) \in Nat
  <2>1. Taken(c) \in SUBSET DOMAIN store
    BY DEF Taken
  <2> QED
    BY <2>1, FS_Subset, FS_CardinalityType DEF CountInv, StoreInv
<1>4. ASSUME NEW n \in F
      PROVE  /\ n \in 0 .. NumKv - 1 /\ KeyOf("search", c, n) \in Taken(c)
             /\ KeyOf("search", c, n)[1] = Base(c) + n
  <2>1. n \in 0 .. NumKv - 1 /\ KeyOf("search", c, n) \in DOMAIN store
    BY <1>1 DEF FoundIn
  <2>2. n \in Nat
    BY <2>1
  <2>3. KeyOf("search", c, n)[1] = Base(c) + n
    BY <2>2, KeyOfType DEF Inv, Kinds
  <2>4. Base(c) + n \in RangeOf(c)
    BY <1>1, <2>1
  <2> QED
    BY <2>1, <2>3, <2>4 DEF Taken
<1>5. f \in Injection(F, Taken(c))
  <2>1. f \in [F -> Taken(c)]
    BY <1>4
  <2>2. ASSUME NEW m \in F, NEW n \in F, f[m] = f[n] PROVE m = n
    <3>1. Base(c) + m = Base(c) + n /\ m \in Int /\ n \in Int
      BY <1>4, <2>2
    <3> QED
      BY <1>1, <3>1
  <2> QED
    BY <2>1, <2>2 DEF Injection, IsInjective
<1>6. Cardinality(F) <= Cardinality(Taken(c))
  BY <1>3, <1>5, FS_Injection
<1>7. ASSUME Cardinality(Unwritten(c)) = 1 PROVE Cardinality(F) = Cardinality(Taken(c))
  <2>1. PICK x : Unwritten(c) = {x}
    BY <1>7, UnwrittenFinite, FS_Singleton
  <2>2. ASSUME NEW n \in Nat PROVE KeyOf("insert", c, n) = KeyOf("search", c, n)
    <3>1. ASSUME NEW kind \in Kinds PROVE KeyOf(kind, c, n) = <<Base(c) + n, x>>
      <4>1. KeyOf(kind, c, n)[2] = x
        BY <2>1, SecondHalf DEF Inv
      <4> QED
        BY <4>1 DEF KeyOf
    <3> QED
      BY <3>1 DEF Kinds
  <2>3. ASSUME NEW k \in Taken(c) PROVE \E n \in F : f[n] = k
    <3>1. k \in DOMAIN store /\ k[1] \in RangeOf(c)
      BY DEF Taken
    <3>2. PICK n \in 0 .. NumKv - 1 : k = KeyOf("insert", c, n)
      BY <3>1 DEF CountInv, ClientInv, Owns
    <3>3. k = KeyOf("search", c, n)
      BY <1>1, <2>2, <3>2
    <3>4. n \in F
      BY <1>1, <3>1, <3>2, <3>3 DEF FoundIn
    <3> QED
      BY <3>3, <3>4
  <2>4. f \in Surjection(F, Taken(c))
    <3>1. f \in [F -> Taken(c)]
      BY <1>4
    <3> QED
      BY <2>3, <3>1 DEF Surjection
  <2>5. Cardinality(Taken(c)) <= Cardinality(F)
    BY <1>2, <2>4, FS_Surjection
  <2> QED
    BY <1>2, <1>3, <1>6, <2>5
<1> QED
  BY <1>2, <1>3, <1>6, <1>7

(***************************************************************************)
(* When a client is done it has counted what it sent and what it found     *)
(* (client.cc:65-91 and 123-176; server.cc:57-104), whatever the buckets   *)
(* refuse and in whatever order the server threads get to the requests.    *)
(* It finds all that the store took from it if its fresh buffer was even,  *)
(* for then the half of a key it never writes is the same in the insert    *)
(* request and in the search request, which lay out the buffer otherwise.  *)
(***************************************************************************)
THEOREM CountsAddUpHolds == Spec => []CountsAddUp
<1>1. Inv /\ CountInv => CountsAddUp
  <2> SUFFICES ASSUME Inv, CountInv, NEW c \in Clients, phase[c] = "done"
               PROVE  /\ num_insert_ok[c] = NumKv
                      /\ num_search_error[c] = 0
                      /\ num_search_ok[c] <= Cardinality(Taken(c))
                      /\ Cardinality(Unwritten(c)) = 1 => num_search_ok[c] = Cardinality(Taken(c))
    BY DEF CountsAddUp
  <2>1. Counted(c)
    BY DEF CountInv, ClientInv
  <2>2. Answered(c) = NumKv
    BY <2>1 DEF Counted, Answered, Kinds
  <2>3. PICK F : F = FoundIn(c, 0, NumKv)
    OBVIOUS
  <2>4. /\ num_insert_ok[c] = NumKv /\ num_search_error[c] = 0
        /\ num_search_ok[c] = Cardinality(F)
    BY <2>1, <2>2, <2>3 DEF Counted
  <2> QED
    BY <2>3, <2>4, FoundAreTaken
<1> QED
  BY InitInv, NextInv, InitCount, NextCount, <1>1, PTL DEF Spec

=============================================================================
