-------------------------------- MODULE Storage --------------------------------
(***************************************************************************)
(* The persistent memory of HiKV: the allocator (hikv/allocator.hpp), the  *)
(* regions that the constructor of the store takes from it (hikv/hikv.cc,  *)
(* hikv/hashtable.cc) and the logs in them (hikv/pstore.hpp).              *)
(*                                                                         *)
(* A start of the program maps the file, at an address that may differ     *)
(* from start to start, allocates a log per server thread and a partition  *)
(* of the index per server thread, and then appends records.  The program  *)
(* may stop at any moment; the file keeps its contents.  Memory is counted *)
(* in words; a record is RecordWords of them, and a word of the file holds *)
(* the record that wrote it.                                               *)
(*                                                                         *)
(* Only one thread allocates (the constructor runs before any server       *)
(* thread), so that a call of the allocator is one step.                   *)
(***************************************************************************)
EXTENDS Integers, Sequences

CONSTANTS
    NumServer,      \* options.num_server_threads
    AllOptions,     \* the values of Options the program is started with
    Bases,          \* the addresses pmem_map_file may return
    Align,          \* 256
    KeyWords,       \* kKeySize
    ValueWords,     \* kValueSize
    MaxRecord,      \* bound on the records put in all
    Free            \* a word that holds no record

Options == [store_size : Nat, index_size : Nat, pmem_file_size : Nat]

ASSUME StorageAssumption ==
    /\ NumServer \in Nat \ {0}
    /\ AllOptions \subseteq Options
    /\ Bases \subseteq Nat
    /\ Align \in Nat \ {0}
    /\ KeyWords \in Nat
    /\ ValueWords \in Nat
    /\ MaxRecord \in Nat

Servers == 1 .. NumServer
Records == 1 .. MaxRecord
RecordWords == KeyWords + ValueWords

VARIABLES
    options,        \* Options
    base,           \* base_ of the allocator
    stage,          \* what main does: "logs", "index", "serve", "exit"
    usage,          \* usage_ of the allocator
    region,         \* what it returned: the logs, then the partitions
    log_usage,      \* usage_ of the PStore of a server
    file,           \* the words of the file
    put,            \* records put so far, in all lives of the program
    at              \* the address AppendKV persisted a record at, in this life

vars == <<options, base, stage, usage, region, log_usage, file, put, at>>

Nowhere == [r \in {} |-> 0]

Init ==
    /\ options \in AllOptions
    /\ base \in Bases
    /\ stage = "logs"
    /\ usage = 0
    /\ region = <<>>
    /\ log_usage = [i \in Servers |-> 0]
    /\ file = [o \in 0 .. options.pmem_file_size - 1 |-> Free]
    /\ put = 0
    /\ at = Nowhere

-----------------------------------------------------------------------------
(* Allocator *)

Region(start, size) == [start |-> start, size |-> size]

\* Mutant of Fits: the last word is not used.
FitsBelow(size, used) == used + size < options.pmem_file_size

Fits(size, used) == used + size <= options.pmem_file_size

\* Mutant of AlignedUsage: the address is rounded down.
AlignedUsageDown == ((usage + base) \div Align) * Align - base

\* The usage_ at which the next address is a multiple of Align.
AlignedUsage == ((usage + base + Align - 1) \div Align) * Align - base

\* A region of the given size is returned, used words into the file.
Returned(size, used) ==
    /\ Fits(size, used)
    /\ region' = Append(region, Region(base + used, size))
    /\ usage' = used + size

\* "No enough space!": the process exits.
Exits(size, used) ==
    /\ ~Fits(size, used)
    /\ stage' = "exit"
    /\ UNCHANGED <<options, base, usage, region, log_usage, file, put, at>>

-----------------------------------------------------------------------------
(* The constructor of HiKV *)

LogSize == options.store_size \div NumServer
PartitionSize == options.index_size \div NumServer

AllocateLog ==
    /\ stage = "logs"
    /\ \/ /\ Returned(LogSize, usage)
          /\ stage' = IF Len(region) + 1 = NumServer THEN "index" ELSE stage
          /\ UNCHANGED <<options, base, log_usage, file, put, at>>
       \/ Exits(LogSize, usage)

Cleared(start, size) ==
    [o \in DOMAIN file |-> IF start <= o /\ o < start + size THEN Free ELSE file[o]]

\* A partition is aligned and zeroed.
AllocatePartition ==
    /\ stage = "index"
    /\ \/ /\ Returned(PartitionSize, AlignedUsage)
          /\ file' = Cleared(AlignedUsage, PartitionSize)
          /\ stage' = IF Len(region) + 1 = 2 * NumServer THEN "serve" ELSE stage
          /\ UNCHANGED <<options, base, log_usage, put, at>>
       \/ Exits(PartitionSize, AlignedUsage)

-----------------------------------------------------------------------------
(* PStore *)

\* Mutant of Advanced: the key is forgotten.
AdvancedByValue(used) == used + ValueWords

Advanced(used) == used + RecordWords

Log(i) == region[i]
Dest(i) == Log(i).start + log_usage[i]

(***************************************************************************)
(* AppendKV persists a record at the end of the log.  It does not compare  *)
(* usage_ with size_: the last condition is only that of the file, beyond  *)
(* which nothing is mapped.                                                *)
(***************************************************************************)
AppendKV(i) ==
    LET r == put + 1 IN
    /\ stage = "serve"
    /\ r \in Records
    /\ Dest(i) + RecordWords <= base + options.pmem_file_size
    /\ put' = r
    /\ file' = [o \in DOMAIN file |->
                  IF Dest(i) <= base + o /\ base + o < Dest(i) + RecordWords
                  THEN r ELSE file[o]]
    /\ at' = [q \in DOMAIN at \cup {r} |->
                IF q = r THEN [server |-> i, dest |-> Dest(i)] ELSE at[q]]
    /\ log_usage' = [log_usage EXCEPT ![i] = Advanced(@)]
    /\ UNCHANGED <<options, base, stage, usage, region>>

(***************************************************************************)
(* The process ends, in whatever way, and is started again with the same   *)
(* options: the constructors set every usage_ to 0 and look at nothing     *)
(* that the file holds.                                                    *)
(***************************************************************************)
Restart ==
    /\ base' \in Bases
    /\ stage' = "logs"
    /\ usage' = 0
    /\ region' = <<>>
    /\ log_usage' = [i \in Servers |-> 0]
    /\ at' = Nowhere
    /\ UNCHANGED <<options, file, put>>

Next ==
    \/ AllocateLog
    \/ AllocatePartition
    \/ \E i \in Servers : AppendKV(i)
    \/ Restart

Spec == Init /\ [][Next]_vars

-----------------------------------------------------------------------------
(* Properties *)

Regions == [start : Nat, size : Nat]

End(r) == r.start + r.size

(***************************************************************************)
(* The regions lie in the file, in the order of their allocation, and no   *)
(* two overlap, wherever the file is mapped; the partitions are aligned    *)
(* (allocator.hpp:60).                                                     *)
(***************************************************************************)
RegionsApart ==
    /\ \A i \in DOMAIN region :
          /\ base <= region[i].start
          /\ End(region[i]) <= base + options.pmem_file_size
    /\ \A i, j \in DOMAIN region : i < j => End(region[i]) <= region[j].start
    /\ \A i \in DOMAIN region : i > NumServer => region[i].start % Align = 0

(***************************************************************************)
(* The program gives up only if the file is really too small for what the  *)
(* options ask for, with a gap in front of each partition at most.         *)
(***************************************************************************)
EnoughSpace ==
    options.store_size + options.index_size + NumServer * (Align - 1)
        <= options.pmem_file_size

ExitsOnlyIfTooSmall == EnoughSpace => stage # "exit"

(***************************************************************************)
(* As long as no log is longer than its region, every record persisted in  *)
(* this life is in the file as it was written, within its server's log,    *)
(* and the partitions hold no record, whatever earlier lives have left in  *)
(* the file.                                                               *)
(***************************************************************************)
WithinLogs == \A i \in Servers : log_usage[i] <= LogSize

RecordsIntact ==
    stage = "serve" /\ WithinLogs =>
        /\ \A r \in DOMAIN at :
              /\ Log(at[r].server).start <= at[r].dest
              /\ at[r].dest + RecordWords <= End(Log(at[r].server))
              /\ \A o \in 0 .. RecordWords - 1 : file[at[r].dest + o - base] = r
        /\ \A p \in NumServer + 1 .. 2 * NumServer : \A o \in 0 .. region[p].size - 1 :
              file[region[p].start + o - base] = Free

=============================================================================
