----------------------------- MODULE ClientServer -----------------------------
(***************************************************************************)
(* The benchmark over RPC (cs/client.cc, cs/server.cc).                    *)
(*                                                                         *)
(* Each client thread inserts its range of keys batch by batch, then       *)
(* searches it, with one request outstanding.  A server thread runs one    *)
(* request handler at a time: a Put or a Get of the store for each key of  *)
(* the batch, then the reply.  The client's event loop runs kv_cont_func   *)
(* on the reply.  The main thread of the client spawns the threads, adds   *)
(* up their throughput and joins them.                                     *)
(*                                                                         *)
(* eRPC is external: a request reaches its server thread once, and so does *)
(* its reply the client.  Throughput stands for the operation count it is  *)
(* computed from.  A request buffer is kept in words of 8 bytes, for half  *)
(* of a key is never written; values and records in words of 16 bytes.     *)
(***************************************************************************)
EXTENDS Integers, Sequences, FiniteSets

CONSTANTS
    NumClient,      \* kNumClientThread
    NumServer,      \* kNumServerThread
    NumKv,          \* kNumOpt / kNumClientThread
    NumBatch,       \* kNumBatch
    BucketOf(_),    \* the hash bucket of a key
    NumSlot,        \* NUM_HASH_SLOT
    Residues        \* what the clients' fresh request buffers may hold

ASSUME BenchmarkAssumption ==
    /\ NumClient \in Nat \ {0}
    /\ NumServer \in Nat \ {0}
    /\ NumKv \in Nat \ {0}
    /\ NumBatch \in Nat \ {0}
    /\ NumSlot \in Nat \ {0}

\* As 20000000 / 16 and 10 are: the last batch is no longer than the range.
ASSUME BatchAssumption == NumKv % NumBatch = 0

Clients == 0 .. NumClient - 1
Servers == 0 .. NumServer - 1
ServerOf(c) == c % NumServer

Base(c) == c * NumKv

\* kKeySize and kValueSize in words of 8 bytes.
KeyWords == 2
ValueWords == 8
BufWords == 0 .. NumBatch * (KeyWords + ValueWords) - 1

ASSUME ResidueAssumption == Residues \subseteq [Clients -> [BufWords -> Int]]

\* The word, behind the header, where key j of a request starts.
KeyAt(kind, j) ==
    (j - 1) * IF kind = "insert" THEN KeyWords + ValueWords ELSE KeyWords

\* Mutant of ValueAt: the value is written half a key too early.
ValueAtHalf(j) == KeyAt("insert", j) + 1

ValueAt(j) == KeyAt("insert", j) + KeyWords

\* Mutant of Numbers: each batch starts a key late.
NumbersLate(c, i) == [j \in 1 .. NumBatch |-> Base(c) + i + j]

\* The key numbers of the batch that starts after i keys of client c.
Numbers(c, i) == [j \in 1 .. NumBatch |-> Base(c) + i + j - 1]

\* A key and the value to it are written as a number of 8 bytes each.
WordsOf(kind, j) == {KeyAt(kind, j)} \cup IF kind = "insert" THEN {ValueAt(j)} ELSE {}

Filled(buf, kind, numbers) ==
    [w \in BufWords |->
        IF \E j \in 1 .. NumBatch : w \in WordsOf(kind, j)
        THEN numbers[CHOOSE j \in 1 .. NumBatch : w \in WordsOf(kind, j)]
        ELSE buf[w]]

\* All bytes of a key count for the server.
KeysIn(buf, kind) ==
    [j \in 1 .. NumBatch |-> <<buf[KeyAt(kind, j)], buf[KeyAt(kind, j) + 1]>>]

\* A value is the number and padding; kValueSize is four words of 16 bytes.
Padding == <<0, 0>>
ValueOf(k) == <<<<k[1], 0>>, Padding, Padding, Padding>>
Record(k) == <<k>> \o ValueOf(k)

\* HashTable::Get copies kValueSize bytes from the start of the record.
CopiedValue(record) == SubSeq(record, 1, 4)

NoRequest == [type |-> "none", keys |-> <<>>]
NoReply == [type |-> "none", count |-> 0, found |-> <<>>]

VARIABLES
    phase,              \* where a client thread is
    sent,               \* keys of the current phase it has put into requests
    complete,           \* request.complete
    type,               \* request.type
    buf,                \* request.req
    wire,               \* the request under way to the server
    reply,              \* the reply under way to the client
    handling,           \* the client whose request a server thread handles
    at,                 \* the loop counter of the handler
    batch,              \* the reply it is preparing
    store,              \* the keys the store has, each with its record
    num_insert_ok, num_search_ok, num_search_error,
    insert_iops, search_iops,
    main,               \* what the main thread does next
    next_thread,        \* its loop counter
    sum_insert,         \* _sum_insert_iops
    sum_search          \* _sum_search_iops

client_vars == <<phase, sent, complete, type, buf, num_insert_ok, num_search_ok,
                 num_search_error, insert_iops, search_iops>>
server_vars == <<handling, at, batch, store>>
main_vars == <<main, next_thread, sum_insert, sum_search>>
vars == <<client_vars, server_vars, main_vars, wire, reply>>

Idle == NumClient       \* no client

Init ==
    /\ phase = [c \in Clients |-> "unborn"]
    /\ sent = [c \in Clients |-> 0]
    /\ complete = [c \in Clients |-> TRUE]
    /\ type = [c \in Clients |-> "none"]
    /\ buf \in Residues
    /\ wire = [c \in Clients |-> NoRequest]
    /\ reply = [c \in Clients |-> NoReply]
    /\ handling = [s \in Servers |-> Idle]
    /\ at = [s \in Servers |-> 0]
    /\ batch = [s \in Servers |-> NoReply]
    /\ store = [k \in {} |-> <<>>]
    /\ num_insert_ok = [c \in Clients |-> 0]
    /\ num_search_ok = [c \in Clients |-> 0]
    /\ num_search_error = [c \in Clients |-> 0]
    /\ insert_iops = [c \in Clients |-> 0]
    /\ search_iops = [c \in Clients |-> 0]
    /\ main = "spawn"
    /\ next_thread = 0
    /\ sum_insert = 0
    /\ sum_search = 0

-----------------------------------------------------------------------------
(* run_client_thread *)

\* Mutant of Waiting: the client does not wait for its reply.
WaitingNever(c) == FALSE

Waiting(c) == ~complete[c]

SendBatch(c) ==
    /\ phase[c] \in {"insert", "search"}
    /\ ~Waiting(c)
    /\ sent[c] < NumKv
    /\ type' = [type EXCEPT ![c] = phase[c]]
    /\ complete' = [complete EXCEPT ![c] = FALSE]
    /\ buf' = [buf EXCEPT ![c] = Filled(@, phase[c], Numbers(c, sent[c]))]
    /\ wire' = [wire EXCEPT ![c] = [type |-> phase[c], keys |-> KeysIn(buf'[c], phase[c])]]
    /\ sent' = [sent EXCEPT ![c] = @ + NumBatch]
    /\ UNCHANGED <<phase, num_insert_ok, num_search_ok, num_search_error,
                   insert_iops, search_iops, server_vars, main_vars, reply>>

EndInsert(c) ==
    /\ phase[c] = "insert"
    /\ ~Waiting(c)
    /\ sent[c] >= NumKv
    /\ insert_iops' = [insert_iops EXCEPT ![c] = num_insert_ok[c]]
    /\ phase' = [phase EXCEPT ![c] = "search"]
    /\ sent' = [sent EXCEPT ![c] = 0]
    /\ UNCHANGED <<complete, type, buf, num_insert_ok, num_search_ok, num_search_error,
                   search_iops, server_vars, main_vars, wire, reply>>

EndSearch(c) ==
    /\ phase[c] = "search"
    /\ ~Waiting(c)
    /\ sent[c] >= NumKv
    /\ search_iops' = [search_iops EXCEPT ![c] = num_search_ok[c]]
    /\ phase' = [phase EXCEPT ![c] = "done"]
    /\ UNCHANGED <<sent, complete, type, buf, num_insert_ok, num_search_ok,
                   num_search_error, insert_iops, server_vars, main_vars, wire, reply>>

(***************************************************************************)
(* kv_cont_func: what the reply means is decided by request.type.          *)
(***************************************************************************)
Matching(found) == {j \in DOMAIN found : found[j].key[1] = found[j].value[1][1]}

ContInsert(c) ==
    /\ reply[c] # NoReply
    /\ type[c] = "insert"
    /\ num_insert_ok' = [num_insert_ok EXCEPT ![c] = @ + reply[c].count]
    /\ UNCHANGED <<num_search_ok, num_search_error>>

ContSearch(c) ==
    /\ reply[c] # NoReply
    /\ type[c] = "search"
    /\ LET found == reply[c].found
           matching == Cardinality(Matching(found))
       IN  /\ num_search_ok' = [num_search_ok EXCEPT ![c] = @ + matching]
           /\ num_search_error' = [num_search_error EXCEPT ![c] = @ + Len(found) - matching]
    /\ UNCHANGED num_insert_ok

Continue(c) ==
    /\ ContInsert(c) \/ ContSearch(c)
    /\ complete' = [complete EXCEPT ![c] = TRUE]
    /\ reply' = [reply EXCEPT ![c] = NoReply]
    /\ UNCHANGED <<phase, sent, type, buf, insert_iops, search_iops,
                   server_vars, main_vars, wire>>

-----------------------------------------------------------------------------
(* The request handlers of a server thread *)

TakeRequest(s, c) ==
    /\ handling[s] = Idle
    /\ ServerOf(c) = s
    /\ wire[c] # NoRequest
    /\ handling' = [handling EXCEPT ![s] = c]
    /\ at' = [at EXCEPT ![s] = 1]
    /\ batch' = [batch EXCEPT ![s] = [type |-> wire[c].type, count |-> 0, found |-> <<>>]]
    /\ UNCHANGED <<client_vars, main_vars, store, wire, reply>>

Request(s) == wire[handling[s]]
CurrentKey(s) == Request(s).keys[at[s]]

Busy(s, kind) ==
    /\ handling[s] # Idle
    /\ Request(s).type = kind
    /\ at[s] <= Len(Request(s).keys)

BucketFull(k) ==
    /\ k \notin DOMAIN store
    /\ Cardinality({j \in DOMAIN store : BucketOf(j) = BucketOf(k)}) >= NumSlot

\* HiKV::Put may return false; the handler goes on and counts it all the same.
HandlePut(s) ==
    /\ Busy(s, "insert")
    /\ LET k == CurrentKey(s) IN
       store' = IF BucketFull(k) THEN store
                ELSE [j \in DOMAIN store \cup {k} |-> IF j = k THEN Record(k) ELSE store[j]]
    /\ at' = [at EXCEPT ![s] = @ + 1]
    /\ batch' = [batch EXCEPT ![s].count = @ + 1]
    /\ UNCHANGED <<client_vars, main_vars, handling, wire, reply>>

\* A key that is not found is left out of the reply.
HandleGet(s) ==
    /\ Busy(s, "search")
    /\ LET k == CurrentKey(s) IN
       batch' = IF k \notin DOMAIN store THEN batch
                ELSE [batch EXCEPT
                        ![s].count = @ + 1,
                        ![s].found = Append(@, [key |-> k, value |-> CopiedValue(store[k])])]
    /\ at' = [at EXCEPT ![s] = @ + 1]
    /\ UNCHANGED <<client_vars, main_vars, handling, store, wire, reply>>

\* Mutant of Respond: an empty reply is not sent.
RespondNonEmpty(s) ==
    /\ handling[s] # Idle
    /\ at[s] > Len(Request(s).keys)
    /\ reply' = IF batch[s].count = 0 THEN reply
                ELSE [reply EXCEPT ![handling[s]] = batch[s]]
    /\ wire' = [wire EXCEPT ![handling[s]] = NoRequest]
    /\ handling' = [handling EXCEPT ![s] = Idle]
    /\ at' = [at EXCEPT ![s] = 0]
    /\ batch' = [batch EXCEPT ![s] = NoReply]
    /\ UNCHANGED <<client_vars, main_vars, store>>

Respond(s) ==
    /\ handling[s] # Idle
    /\ at[s] > Len(Request(s).keys)
    /\ reply' = [reply EXCEPT ![handling[s]] = batch[s]]
    /\ wire' = [wire EXCEPT ![handling[s]] = NoRequest]
    /\ handling' = [handling EXCEPT ![s] = Idle]
    /\ at' = [at EXCEPT ![s] = 0]
    /\ batch' = [batch EXCEPT ![s] = NoReply]
    /\ UNCHANGED <<client_vars, main_vars, store>>

-----------------------------------------------------------------------------
(* main of the client *)

Spawn ==
    /\ main = "spawn"
    /\ phase' = [phase EXCEPT ![next_thread] = "insert"]
    /\ IF next_thread + 1 < NumClient
       THEN next_thread' = next_thread + 1 /\ UNCHANGED main
       ELSE next_thread' = 0 /\ main' = "sum"
    /\ UNCHANGED <<sent, complete, type, buf, num_insert_ok, num_search_ok, num_search_error,
                   insert_iops, search_iops, server_vars, sum_insert, sum_search,
                   wire, reply>>

\* insert_iops and search_iops of the next thread are read ...
SumNext ==
    /\ main = "sum"
    /\ sum_insert' = sum_insert + insert_iops[next_thread]
    /\ sum_search' = sum_search + search_iops[next_thread]
    /\ main' = "join"
    /\ UNCHANGED <<client_vars, server_vars, next_thread, wire, reply>>

\* ... and then the thread is joined.
JoinNext ==
    /\ main = "join"
    /\ phase[next_thread] = "done"
    /\ IF next_thread + 1 < NumClient
       THEN next_thread' = next_thread + 1 /\ main' = "sum"
       ELSE main' = "printed" /\ UNCHANGED next_thread
    /\ UNCHANGED <<client_vars, server_vars, sum_insert, sum_search,
                   wire, reply>>

-----------------------------------------------------------------------------
ClientStep(c) == SendBatch(c) \/ EndInsert(c) \/ EndSearch(c) \/ Continue(c)

ServerStep(s) ==
    \/ HandlePut(s) \/ HandleGet(s) \/ Respond(s)
    \/ \E c \in Clients : TakeRequest(s, c)

MainStep == Spawn \/ SumNext \/ JoinNext

Next ==
    \/ \E c \in Clients : ClientStep(c)
    \/ \E s \in Servers : ServerStep(s)
    \/ MainStep

Spec == Init /\ [][Next]_vars

(***************************************************************************)
(* The threads run; run_event_loop polls every session of its server.      *)
(***************************************************************************)
FairSpec ==
    /\ Spec
    /\ \A c \in Clients : WF_vars(ClientStep(c))
    /\ \A s \in Servers : WF_vars(ServerStep(s))
    /\ WF_vars(MainStep)

-----------------------------------------------------------------------------
(* Properties *)

RangeOf(c) == Base(c) .. Base(c) + NumKv - 1

(***************************************************************************)
(* A reply is read as what it is: kv_cont_func tells an insert reply from  *)
(* a search reply by the type of the client's last request alone, and the  *)
(* request and reply buffers are reused for every batch.                   *)
(***************************************************************************)
ReplyAnswersRequest ==
    \A c \in Clients :
        /\ reply[c] # NoReply => reply[c].type = type[c] /\ ~complete[c] /\ wire[c] = NoRequest
        /\ wire[c] # NoRequest => wire[c].type = type[c] /\ ~complete[c]

(***************************************************************************)
(* A key comes from one client, hence from one server thread: the batches  *)
(* of a client stay within its range.  The index and the tree agree on a   *)
(* key only then (TreeAgrees of HiKV).                                     *)
(***************************************************************************)
OneClientPerKey ==
    \A c \in Clients : wire[c] # NoRequest =>
        \A j \in DOMAIN wire[c].keys : wire[c].keys[j][1] \in RangeOf(c)

(***************************************************************************)
(* When a client is done it has counted every key it sent as inserted, the *)
(* refused ones too, and has met no key with another value.  It has found  *)
(* no more than what the store took, and all of that if its fresh buffer   *)
(* held the same in all words: the second half of a key is never written   *)
(* (lines 131 and 165), insert and search requests lay out the one buffer  *)
(* differently, and nothing an insert request leaves behind gets into a    *)
(* key of a search request.                                                *)
(***************************************************************************)
Taken(c) == {k \in DOMAIN store : k[1] \in RangeOf(c)}

Unwritten(c) == {buf[c][w] : w \in BufWords \
                    UNION {WordsOf(kind, j) : kind \in {"insert", "search"}, j \in 1 .. NumBatch}}

CountsAddUp ==
    \A c \in Clients : phase[c] = "done" =>
        /\ num_insert_ok[c] = NumKv
        /\ num_search_error[c] = 0
        /\ num_search_ok[c] <= Cardinality(Taken(c))
        /\ Cardinality(Unwritten(c)) = 1 => num_search_ok[c] = Cardinality(Taken(c))

(***************************************************************************)
(* The benchmark ends: every request is answered, every thread joined.     *)
(***************************************************************************)
BenchmarkEnds == <>(main = "printed")

(***************************************************************************)
(* A found key comes with the value that was put, as the packet format     *)
(* says (common.h:13, "num_kv | key1 | value1 | ...").                     *)
(***************************************************************************)
ReplyHasValue ==
    \A c \in Clients : \A j \in DOMAIN reply[c].found :
        reply[c].found[j].value = ValueOf(reply[c].found[j].key)

(***************************************************************************)
(* The total that main prints is the sum of what the threads reported      *)
(* (client.cc:147 and 216; benchmark/example/example.cc:110-117 joins all  *)
(* threads before it adds up the same figures).                            *)
(***************************************************************************)
SumOf(iops) ==
    LET sum[n \in 0 .. NumClient] == IF n = 0 THEN 0 ELSE sum[n - 1] + iops[n - 1]
    IN  sum[NumClient]

PrintedSum ==
    main = "printed" => sum_insert = SumOf(insert_iops) /\ sum_search = SumOf(search_iops)

=============================================================================
