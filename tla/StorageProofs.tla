----------------------------- MODULE StorageProofs -----------------------------
(***************************************************************************)
(* The regions that the allocator hands out lie in the file, do not        *)
(* overlap and are aligned where they must be, for all sizes, alignments   *)
(* and addresses, and for any number of servers and restarts.              *)
(***************************************************************************)
EXTENDS Storage, TLAPS

-----------------------------------------------------------------------------
(* Arithmetic *)

\* What AlignAllocate computes is not below the address it starts from.
LEMMA RoundUp ==
    ASSUME NEW x \in Nat, NEW a \in Nat \ {0}
    PROVE  /\ (x + a - 1) \div a \in Nat
           /\ ((x + a - 1) \div a) * a \in Nat
           /\ ((x + a - 1) \div a) * a >= x
<1> DEFINE y == x + a - 1
           q == y \div a
<1>1. y \in Nat /\ a \in Nat /\ a > 0
  OBVIOUS
<1>2. q \in Int /\ y >= q * a /\ y < q * a + a
  BY <1>1, SMTT(30)
<1> QED
  BY <1>2, SMTT(30)

LEMMA MultipleOf ==
    ASSUME NEW q \in Nat, NEW a \in Nat \ {0}
    PROVE  (q * a) % a = 0
  BY SMTT(30)

LEMMA Share ==
    ASSUME NEW x \in Nat, NEW n \in Nat \ {0}
    PROVE  x \div n \in Nat
  BY SMT

-----------------------------------------------------------------------------
(***************************************************************************)
(* The inductive invariant: everything handed out lies below usage_, where *)
(* the next region begins, and the logs come first.                        *)
(***************************************************************************)
SpaceInv ==
    /\ options \in Options
    /\ base \in Nat
    /\ usage \in Nat
    /\ usage <= options.pmem_file_size
    /\ region \in Seq(Regions)
    /\ stage = "logs" => Len(region) < NumServer
    /\ \A i \in DOMAIN region : End(region[i]) <= base + usage
    /\ RegionsApart

LEMMA InitSpaceInv == Init => SpaceInv
<1> SUFFICES ASSUME Init PROVE SpaceInv
  OBVIOUS
<1>1. options \in Options /\ base \in Nat /\ NumServer \in Nat \ {0}
  BY StorageAssumption DEF Init
<1>2. region \in Seq(Regions) /\ Len(region) = 0 /\ DOMAIN region = {}
  BY DEF Init
<1> QED
  BY <1>1, <1>2 DEF Init, SpaceInv, RegionsApart, Options

(***************************************************************************)
(* One more region, behind all the others.                                 *)
(***************************************************************************)
LEMMA ReturnedSpaceInv ==
    ASSUME SpaceInv, NEW size \in Nat, NEW used \in Nat, used >= usage,
           Returned(size, used), UNCHANGED <<options, base>>,
           stage' = "logs" => Len(region) + 1 < NumServer,
           Len(region) + 1 > NumServer => (base + used) % Align = 0
    PROVE  SpaceInv'
<1> DEFINE n == Len(region) + 1
<1>1. /\ options \in Options /\ base \in Nat /\ usage \in Nat
      /\ region \in Seq(Regions) /\ n \in Nat
      /\ used + size <= options.pmem_file_size /\ options.pmem_file_size \in Nat
  BY DEF SpaceInv, Returned, Fits, Options
<1>2. Region(base + used, size) \in Regions
  BY <1>1 DEF Region, Regions
<1>3. /\ region' \in Seq(Regions) /\ Len(region') = n /\ DOMAIN region' = 1 .. n
      /\ \A i \in DOMAIN region : region'[i] = region[i]
      /\ region'[n] = Region(base + used, size)
      /\ DOMAIN region = 1 .. n - 1
  BY <1>1, <1>2 DEF Returned
<1>4. /\ region'[n].start = base + used
      /\ End(region'[n]) = base + used + size
  BY <1>3 DEF Region, End
<1>5. \A i \in DOMAIN region : region[i].start \in Nat /\ region[i].size \in Nat
  <2>1. \A i \in DOMAIN region : region[i] \in Regions
    BY <1>1
  <2> QED
    BY <2>1 DEF Regions
<1> HIDE DEF n
<1>6. \A i \in DOMAIN region' : i \in DOMAIN region \/ i = n
  BY <1>1, <1>3
<1>7. \A i \in DOMAIN region' : End(region'[i]) <= base + (used + size)
  <2> TAKE i \in DOMAIN region'
  <2>1. CASE i \in DOMAIN region
    <3>1. region'[i] = region[i] /\ End(region[i]) <= base + usage
      BY <1>3, <2>1 DEF SpaceInv
    <3>2. End(region[i]) \in Int
      BY <1>5, <2>1 DEF End
    <3>3. size \in Nat /\ used \in Nat /\ used >= usage
      OBVIOUS
    <3> QED
      BY <1>1, <3>1, <3>2, <3>3 DEF End
  <2>2. CASE i = n
    BY <1>1, <1>4, <2>2
  <2> QED
    BY <1>6, <2>1, <2>2
<1>8. \A i \in DOMAIN region' : base <= region'[i].start
  <2> TAKE i \in DOMAIN region'
  <2>1. CASE i \in DOMAIN region
    BY <1>3, <2>1 DEF SpaceInv, RegionsApart
  <2>2. CASE i = n
    BY <1>1, <1>4, <2>2
  <2> QED
    BY <1>6, <2>1, <2>2
<1>9. ASSUME NEW i \in DOMAIN region', NEW j \in DOMAIN region', i < j
      PROVE  End(region'[i]) <= region'[j].start
  <2>1. i \in DOMAIN region /\ i \in Nat /\ j \in Nat
    BY <1>1, <1>3, <1>6, <1>9
  <2>2. CASE j \in DOMAIN region
    BY <1>3, <1>9, <2>1, <2>2 DEF SpaceInv, RegionsApart, End
  <2>3. CASE j = n
    BY <1>1, <1>3, <1>4, <1>5, <2>1, <2>3 DEF SpaceInv, End
  <2> QED
    BY <1>6, <2>2, <2>3
<1>10. \A i \in DOMAIN region' : i > NumServer => region'[i].start % Align = 0
  <2> TAKE i \in DOMAIN region'
  <2>1. CASE i \in DOMAIN region
    BY <1>3, <2>1 DEF SpaceInv, RegionsApart
  <2>2. CASE i = n
    BY <1>4, <2>2 DEF n
  <2> QED
    BY <1>6, <2>1, <2>2
<1>11. \A i \in DOMAIN region' : End(region'[i]) <= base + options.pmem_file_size
  <2> TAKE i \in DOMAIN region'
  <2>1. region'[i] \in Regions
    BY <1>3
  <2>2. End(region'[i]) \in Int
    BY <2>1 DEF End, Regions
  <2>3. End(region'[i]) <= base + (used + size)
    BY <1>7
  <2> QED
    BY <1>1, <2>2, <2>3
<1>12. RegionsApart'
  BY <1>8, <1>9, <1>10, <1>11 DEF RegionsApart, End
<1>13. usage' = used + size
  BY DEF Returned
<1> QED
  BY <1>1, <1>3, <1>7, <1>12, <1>13 DEF SpaceInv, End, n

LEMMA AllocateLogSpaceInv == SpaceInv /\ AllocateLog => SpaceInv'
<1> SUFFICES ASSUME SpaceInv, AllocateLog PROVE SpaceInv'
  OBVIOUS
<1>1. LogSize \in Nat /\ usage \in Nat /\ Len(region) + 1 <= NumServer /\ NumServer \in Nat
  BY Share, StorageAssumption DEF SpaceInv, LogSize, Options, AllocateLog
<1>2. CASE Returned(LogSize, usage) /\ UNCHANGED <<options, base>>
           /\ stage' = IF Len(region) + 1 = NumServer THEN "index" ELSE stage
  <2>1. stage' = "logs" => Len(region) + 1 < NumServer
    BY <1>1, <1>2 DEF SpaceInv
  <2> QED
    BY <1>1, <1>2, <2>1, ReturnedSpaceInv DEF SpaceInv
<1>3. CASE Exits(LogSize, usage)
  BY <1>3 DEF Exits, SpaceInv, RegionsApart
<1> QED
  BY <1>2, <1>3 DEF AllocateLog

LEMMA AllocatePartitionSpaceInv == SpaceInv /\ AllocatePartition => SpaceInv'
<1> SUFFICES ASSUME SpaceInv, AllocatePartition PROVE SpaceInv'
  OBVIOUS
<1>1. PartitionSize \in Nat /\ usage \in Nat /\ base \in Nat /\ Align \in Nat \ {0}
  BY Share, StorageAssumption DEF SpaceInv, PartitionSize, Options
<1> DEFINE q == (usage + base + Align - 1) \div Align
<1>2. q \in Nat /\ q * Align \in Nat /\ q * Align >= usage + base
  BY <1>1, RoundUp
<1>3. AlignedUsage = q * Align - base
  BY DEF AlignedUsage
<1>4. (q * Align) % Align = 0
  BY <1>1, <1>2, MultipleOf
<1> HIDE DEF q
<1>5. AlignedUsage \in Nat /\ AlignedUsage >= usage /\ base + AlignedUsage = q * Align
  BY <1>1, <1>2, <1>3
<1>6. CASE Returned(PartitionSize, AlignedUsage) /\ UNCHANGED <<options, base>>
           /\ stage' # "logs"
  BY <1>1, <1>4, <1>5, <1>6, ReturnedSpaceInv
<1>7. CASE Exits(PartitionSize, AlignedUsage)
  BY <1>7 DEF Exits, SpaceInv, RegionsApart
<1> QED
  BY <1>6, <1>7 DEF AllocatePartition

LEMMA NextSpaceInv == SpaceInv /\ [Next]_vars => SpaceInv'
<1> SUFFICES ASSUME SpaceInv, [Next]_vars PROVE SpaceInv'
  OBVIOUS
<1>1. CASE AllocateLog
  BY <1>1, AllocateLogSpaceInv
<1>2. CASE AllocatePartition
  BY <1>2, AllocatePartitionSpaceInv
<1>3. ASSUME NEW i \in Servers, AppendKV(i) PROVE SpaceInv'
  BY <1>3 DEF AppendKV, SpaceInv, RegionsApart
<1>4. CASE Restart
  <2>1. options' \in Options /\ base' \in Nat /\ NumServer \in Nat \ {0}
    BY <1>4, StorageAssumption DEF Restart, SpaceInv
  <2>2. region' \in Seq(Regions) /\ Len(region') = 0 /\ DOMAIN region' = {}
    BY <1>4 DEF Restart
  <2> QED
    BY <1>4, <2>1, <2>2 DEF Restart, SpaceInv, RegionsApart, Options
<1>5. CASE UNCHANGED vars
  BY <1>5 DEF vars, SpaceInv, RegionsApart
<1> QED
  BY <1>1, <1>2, <1>3, <1>4, <1>5 DEF Next

(***************************************************************************)
(* Logs and partitions lie in the file without overlap, and partitions are *)
(* aligned, in every life of the program.                                  *)
(***************************************************************************)
THEOREM RegionsApartHolds == Spec => []RegionsApart
<1>1. SpaceInv => RegionsApart
  BY DEF SpaceInv
<1> QED
  BY <1>1, InitSpaceInv, NextSpaceInv, PTL DEF Spec

-----------------------------------------------------------------------------
(***************************************************************************)
(* The second inductive invariant: how far the regions so far can have     *)
(* moved usage_, with a gap of at most Align - 1 before each partition.    *)
(***************************************************************************)
LEMMA ShareAtMost ==
    ASSUME NEW x \in Nat, NEW n \in Nat \ {0}
    PROVE  n * (x \div n) <= x /\ x \div n \in Nat /\ n * (x \div n) \in Nat
<1>1. x \div n \in Nat
  BY SMT
<1>2. n * (x \div n) <= x
  BY Z3
<1>3. n * (x \div n) \in Nat
  BY <1>1, Z3
<1> QED
  BY <1>1, <1>2, <1>3

LEMMA OneMore ==
    ASSUME NEW m \in Nat, NEW n \in Nat, m + 1 <= n, NEW size \in Nat
    PROVE  /\ m * size \in Nat /\ n * size \in Nat
           /\ (m + 1) * size = m * size + size
           /\ m * size + size <= n * size
<1>1. m * size \in Nat /\ n * size \in Nat
  BY Z3
<1>2. (m + 1) * size = m * size + size
  BY Z3
<1>3. (m + 1) * size <= n * size
  BY Z3
<1> QED
  BY <1>1, <1>2, <1>3

LEMMA GapBelowAlign ==
    ASSUME NEW x \in Nat, NEW a \in Nat \ {0}
    PROVE  ((x + a - 1) \div a) * a <= x + a - 1
<1> DEFINE y == x + a - 1
<1>1. y \in Nat
  OBVIOUS
<1> HIDE DEF y
<1>2. (y \div a) * a <= y
  BY <1>1, SMTT(30)
<1> QED
  BY <1>2 DEF y

Logs == NumServer * LogSize
Step == PartitionSize + Align - 1
Partitions == Len(region) - NumServer

SizeInv ==
    /\ stage = "logs" => usage <= Len(region) * LogSize
    /\ stage = "index" => /\ Partitions \in 0 .. NumServer - 1
                          /\ usage <= Logs + Partitions * Step
    /\ ExitsOnlyIfTooSmall

\* All sizes are numbers, and the shares add up to no more than the options say.
LEMMA Sizes ==
    ASSUME SpaceInv
    PROVE  /\ LogSize \in Nat /\ PartitionSize \in Nat /\ Step \in Nat
           /\ usage \in Nat /\ Len(region) \in Nat /\ NumServer \in Nat \ {0}
           /\ Align \in Nat \ {0} /\ Logs \in Nat
           /\ options.store_size \in Nat /\ options.index_size \in Nat
           /\ options.pmem_file_size \in Nat
           /\ Logs <= options.store_size
           /\ EnoughSpace => Logs <= options.pmem_file_size
           /\ EnoughSpace => Logs + NumServer * Step <= options.pmem_file_size
           /\ NumServer * Step \in Nat
<1>1. /\ options.store_size \in Nat /\ options.index_size \in Nat
      /\ options.pmem_file_size \in Nat /\ usage \in Nat /\ Len(region) \in Nat
      /\ NumServer \in Nat \ {0} /\ Align \in Nat \ {0}
  BY StorageAssumption DEF SpaceInv, Options
<1>2. /\ LogSize \in Nat /\ Logs <= options.store_size /\ Logs \in Nat
      /\ PartitionSize \in Nat /\ NumServer * PartitionSize <= options.index_size
      /\ NumServer * PartitionSize \in Nat
  BY <1>1, ShareAtMost DEF LogSize, PartitionSize, Logs
<1>3. NumServer * (Align - 1) \in Nat
  BY <1>1, Z3
<1>4. NumServer * Step = NumServer * PartitionSize + NumServer * (Align - 1)
  BY <1>1, <1>2, Z3 DEF Step
<1>5. EnoughSpace => Logs + NumServer * Step <= options.pmem_file_size
  BY <1>1, <1>2, <1>3, <1>4 DEF EnoughSpace
<1>6. EnoughSpace => Logs <= options.pmem_file_size
  BY <1>1, <1>2, <1>3 DEF EnoughSpace
<1>7. Step \in Nat
  BY <1>1, <1>2 DEF Step
<1> QED
  BY <1>1, <1>2, <1>3, <1>4, <1>5, <1>6, <1>7

LEMMA InitSizeInv == Init => SizeInv
<1> SUFFICES ASSUME Init PROVE SizeInv
  OBVIOUS
<1>1. SpaceInv
  BY InitSpaceInv
<1>2. Len(region) = 0 /\ usage = 0 /\ stage = "logs"
  BY DEF Init
<1>3. 0 * LogSize = 0
  BY <1>1, Sizes
<1> QED
  BY <1>2, <1>3 DEF SizeInv, ExitsOnlyIfTooSmall

LEMMA AllocateLogSizeInv == SpaceInv /\ SizeInv /\ AllocateLog => SizeInv'
<1> SUFFICES ASSUME SpaceInv, SizeInv, AllocateLog PROVE SizeInv'
  OBVIOUS
<1> DEFINE n == Len(region)
<1>1. stage = "logs" /\ n \in Nat /\ n + 1 <= NumServer /\ usage <= n * LogSize
  BY Sizes DEF AllocateLog, SpaceInv, SizeInv
<1>2. /\ n * LogSize \in Nat /\ (n + 1) * LogSize = n * LogSize + LogSize
      /\ n * LogSize + LogSize <= Logs
  BY <1>1, Sizes, OneMore DEF Logs
<1>3. CASE /\ Returned(LogSize, usage) /\ UNCHANGED options
           /\ stage' = IF n + 1 = NumServer THEN "index" ELSE stage
  <2>1. usage' = usage + LogSize /\ Len(region') = n + 1
    BY <1>3 DEF Returned, SpaceInv
  <2>2. LogSize' = LogSize /\ Logs' = Logs /\ Step' = Step
    BY <1>3 DEF LogSize, Logs, Step, PartitionSize
  <2>3. usage' <= (n + 1) * LogSize
    BY <1>1, <1>2, <2>1, Sizes
  <2>4. CASE n + 1 = NumServer
    <3>1. stage' = "index" /\ Partitions' = 0 /\ 0 * Step = 0
      BY <1>1, <1>3, <2>1, <2>4, Sizes DEF Partitions
    <3>2. usage' <= Logs
      BY <1>1, <1>2, <2>1, Sizes
    <3> QED
      BY <2>2, <3>1, <3>2, Sizes DEF SizeInv, ExitsOnlyIfTooSmall
  <2>5. CASE n + 1 # NumServer
    BY <1>1, <1>3, <2>1, <2>2, <2>3, <2>5 DEF SizeInv, ExitsOnlyIfTooSmall
  <2> QED
    BY <2>4, <2>5
<1>4. CASE Exits(LogSize, usage)
  <2>1. ~EnoughSpace
    BY <1>1, <1>2, <1>4, Sizes DEF Exits, Fits
  <2> QED
    BY <1>4, <2>1 DEF Exits, SizeInv, ExitsOnlyIfTooSmall, EnoughSpace
<1> QED
  BY <1>3, <1>4 DEF AllocateLog

LEMMA AllocatePartitionSizeInv == SpaceInv /\ SizeInv /\ AllocatePartition => SizeInv'
<1> SUFFICES ASSUME SpaceInv, SizeInv, AllocatePartition PROVE SizeInv'
  OBVIOUS
<1> DEFINE m == Partitions
<1>1. /\ stage = "index" /\ m \in Nat /\ m + 1 <= NumServer /\ m = Len(region) - NumServer
      /\ usage <= Logs + m * Step
  BY Sizes DEF AllocatePartition, SizeInv, Partitions
<1>2. /\ m * Step \in Nat /\ (m + 1) * Step = m * Step + Step
      /\ m * Step + Step <= NumServer * Step
  BY <1>1, Sizes, OneMore
<1>3. AlignedUsage \in Int /\ AlignedUsage <= usage + Align - 1
  <2>1. base \in Nat /\ usage + base \in Nat
    BY Sizes DEF SpaceInv
  <2>2. /\ ((usage + base + Align - 1) \div Align) * Align <= usage + base + Align - 1
        /\ ((usage + base + Align - 1) \div Align) * Align \in Nat
    BY <2>1, Sizes, GapBelowAlign, RoundUp
  <2> QED
    BY <2>1, <2>2, Sizes DEF AlignedUsage
<1>4. AlignedUsage + PartitionSize <= Logs + (m + 1) * Step
  <2>1. AlignedUsage + PartitionSize <= usage + Step
    BY <1>3, Sizes DEF Step
  <2>2. usage + Step <= Logs + (m * Step + Step)
    <3>1. usage \in Nat /\ Logs \in Nat /\ Step \in Nat
      BY Sizes
    <3>2. \A p, d \in Nat : usage <= Logs + p => usage + d <= Logs + (p + d)
      BY <3>1
    <3> QED
      BY <1>1, <1>2, <3>1, <3>2
  <2>3. m * Step + Step \in Nat
    BY <1>2, Sizes
  <2> HIDE DEF m
  <2> QED
    BY <1>2, <1>3, <2>1, <2>2, <2>3, Sizes
<1>5. CASE /\ Returned(PartitionSize, AlignedUsage) /\ UNCHANGED options
           /\ stage' = IF Len(region) + 1 = 2 * NumServer THEN "serve" ELSE stage
  <2>1. usage' = AlignedUsage + PartitionSize /\ Len(region') = Len(region) + 1
    BY <1>5 DEF Returned, SpaceInv
  <2>2. Logs' = Logs /\ Step' = Step /\ Partitions' = m + 1
    BY <1>1, <1>5, <2>1, Sizes DEF LogSize, Logs, Step, PartitionSize, Partitions
  <2>3. CASE Len(region) + 1 = 2 * NumServer
    BY <1>5, <2>3 DEF SizeInv, ExitsOnlyIfTooSmall
  <2>4. CASE Len(region) + 1 # 2 * NumServer
    <3>1. m + 1 \in 0 .. NumServer - 1 /\ stage' = "index"
      <4>1. stage' = "index"
        BY <1>1, <1>5, <2>4
      <4>2. NumServer \in Nat /\ Len(region) \in Nat
        BY Sizes
      <4>3. m + 1 # NumServer
        BY <1>1, <2>4, <4>2
      <4> HIDE DEF m
      <4>4. m + 1 \in 0 .. NumServer - 1
        BY <1>1, <4>2, <4>3
      <4> QED
        BY <4>1, <4>4
    <3> QED
      BY <1>4, <2>1, <2>2, <3>1 DEF SizeInv, ExitsOnlyIfTooSmall
  <2> QED
    BY <2>3, <2>4
<1>6. CASE Exits(PartitionSize, AlignedUsage)
  <2>1. ~EnoughSpace
    <3>1. ~(AlignedUsage + PartitionSize <= options.pmem_file_size)
      BY <1>6 DEF Exits, Fits
    <3>2. (m + 1) * Step \in Nat /\ (m + 1) * Step <= NumServer * Step
      BY <1>2, Sizes
    <3> HIDE DEF m
    <3> QED
      BY <1>3, <1>4, <3>1, <3>2, Sizes
  <2> QED
    BY <1>6, <2>1 DEF Exits, SizeInv, ExitsOnlyIfTooSmall, EnoughSpace
<1> QED
  BY <1>5, <1>6 DEF AllocatePartition

LEMMA NextSizeInv == SpaceInv /\ SizeInv /\ [Next]_vars => SizeInv'
<1> SUFFICES ASSUME SpaceInv, SizeInv, [Next]_vars PROVE SizeInv'
  OBVIOUS
<1>1. CASE AllocateLog
  BY <1>1, AllocateLogSizeInv
<1>2. CASE AllocatePartition
  BY <1>2, AllocatePartitionSizeInv
<1>3. ASSUME NEW i \in Servers, AppendKV(i) PROVE SizeInv'
  BY <1>3 DEF AppendKV, SizeInv, Logs, Step, Partitions, LogSize, PartitionSize,
              ExitsOnlyIfTooSmall, EnoughSpace
<1>4. CASE Restart
  <2>1. Len(region') = 0 /\ usage' = 0 /\ stage' = "logs" /\ LogSize' = LogSize
    BY <1>4 DEF Restart, LogSize
  <2>2. 0 * LogSize = 0
    BY Sizes
  <2> QED
    BY <2>1, <2>2 DEF SizeInv, ExitsOnlyIfTooSmall
<1>5. CASE UNCHANGED vars
  BY <1>5 DEF vars, SizeInv, Logs, Step, Partitions, LogSize, PartitionSize,
              ExitsOnlyIfTooSmall, EnoughSpace
<1> QED
  BY <1>1, <1>2, <1>3, <1>4, <1>5 DEF Next

(***************************************************************************)
(* The allocator ends the program (allocator.hpp:43 and 63) only if the    *)
(* file does not hold both shares of every server and a gap of Align - 1   *)
(* before each partition: what is left over by the divisions, and the      *)
(* alignment on absolute addresses, never make it fail earlier.            *)
(***************************************************************************)
THEOREM ExitsOnlyIfTooSmallHolds == Spec => []ExitsOnlyIfTooSmall
<1>1. SizeInv => ExitsOnlyIfTooSmall
  BY DEF SizeInv
<1> QED
  BY <1>1, InitSpaceInv, NextSpaceInv, InitSizeInv, NextSizeInv, PTL DEF Spec

-----------------------------------------------------------------------------
(***************************************************************************)
(* The third inductive invariant: a log is filled from its start, by       *)
(* records that end where the next begins, and nothing is written before   *)
(* all regions are there.                                                  *)
(***************************************************************************)
Sized(i) == region[i].size = IF i <= NumServer THEN LogSize ELSE PartitionSize

InLog(r) ==
    /\ at[r].server \in Servers
    /\ at[r].dest \in Nat
    /\ Log(at[r].server).start <= at[r].dest
    /\ at[r].dest + RecordWords <= Log(at[r].server).start + log_usage[at[r].server]

ShapeInv ==
    /\ put \in Nat
    /\ DOMAIN file = 0 .. options.pmem_file_size - 1
    /\ log_usage \in [Servers -> Nat]
    /\ stage = "serve" => Len(region) = 2 * NumServer
    /\ stage # "serve" => DOMAIN at = {}
    /\ \A i \in DOMAIN region : Sized(i)
    /\ \A r \in DOMAIN at : InLog(r)

\* What the file holds, while no log has run over its end.
RecordWhole(r) == \A o \in 0 .. RecordWords - 1 : file[at[r].dest + o - base] = r
PartitionFree(p) == \A o \in 0 .. region[p].size - 1 : file[region[p].start + o - base] = Free

FileInv ==
    WithinLogs =>
        /\ \A r \in DOMAIN at : RecordWhole(r)
        /\ \A p \in DOMAIN region : p > NumServer => PartitionFree(p)

LEMMA InitShape == Init => ShapeInv /\ FileInv
<1> SUFFICES ASSUME Init PROVE ShapeInv /\ FileInv
  OBVIOUS
<1>1. DOMAIN region = {} /\ DOMAIN at = {} /\ put = 0 /\ stage = "logs"
  BY DEF Init, Nowhere
<1>2. log_usage \in [Servers -> Nat] /\ DOMAIN file = 0 .. options.pmem_file_size - 1
  BY DEF Init
<1> QED
  BY <1>1, <1>2 DEF ShapeInv, FileInv

\* The numbers that the proofs below compute with.
LEMMA Words ==
    ASSUME SpaceInv, ShapeInv
    PROVE  /\ base \in Nat /\ options.pmem_file_size \in Nat /\ NumServer \in Nat \ {0}
           /\ RecordWords \in Nat /\ LogSize \in Nat /\ PartitionSize \in Nat
           /\ Len(region) \in Nat /\ DOMAIN region = 1 .. Len(region)
           /\ \A i \in DOMAIN region : region[i].start \in Nat /\ region[i].size \in Nat
           /\ \A i \in DOMAIN region : i <= NumServer => End(region[i]) = region[i].start + LogSize
           /\ \A i \in Servers : log_usage[i] \in Nat
<1>1. base \in Nat /\ options.pmem_file_size \in Nat /\ NumServer \in Nat \ {0}
      /\ LogSize \in Nat /\ PartitionSize \in Nat /\ Len(region) \in Nat
  BY Sizes DEF SpaceInv
<1>2. RecordWords \in Nat
  BY StorageAssumption DEF RecordWords
<1>3. DOMAIN region = 1 .. Len(region) /\ \A i \in DOMAIN region : region[i] \in Regions
  BY DEF SpaceInv
<1>4. \A i \in DOMAIN region : region[i].start \in Nat /\ region[i].size \in Nat
  BY <1>3 DEF Regions
<1>5. \A i \in DOMAIN region : i <= NumServer => End(region[i]) = region[i].start + LogSize
  BY DEF ShapeInv, Sized, End
<1>6. \A i \in Servers : log_usage[i] \in Nat
  BY DEF ShapeInv
<1> QED
  BY <1>1, <1>2, <1>3, <1>4, <1>5, <1>6

\* The region that is handed out has the size that was asked for.
LEMMA ReturnedShape ==
    ASSUME SpaceInv, ShapeInv, stage # "serve",
           NEW size, NEW used, Returned(size, used), NEW n, n = Len(region) + 1,
           size = IF n <= NumServer THEN LogSize ELSE PartitionSize,
           UNCHANGED <<options, log_usage, put, at>>,
           DOMAIN file' = DOMAIN file,
           stage' = "serve" => n = 2 * NumServer
    PROVE  /\ ShapeInv'
           /\ DOMAIN region' = DOMAIN region \cup {n}
           /\ \A i \in DOMAIN region : region'[i] = region[i] /\ i # n
           /\ region'[n] = Region(base + used, size)
<1>1. region \in Seq(Regions) /\ Len(region) \in Nat /\ NumServer \in Nat
  BY Words DEF SpaceInv
<1>2. /\ Len(region') = n
      /\ DOMAIN region' = DOMAIN region \cup {n}
      /\ \A i \in DOMAIN region : region'[i] = region[i] /\ i # n /\ i \in Nat
      /\ region'[n] = Region(base + used, size)
  BY <1>1 DEF Returned
<1>3. LogSize' = LogSize /\ PartitionSize' = PartitionSize
  BY DEF LogSize, PartitionSize
<1>4. Sized(n)'
  <2>1. region'[n].size = size
    BY <1>2 DEF Region
  <2> QED
    BY <1>3, <2>1 DEF Sized
<1>5. \A i \in DOMAIN region : Sized(i)'
  <2> SUFFICES ASSUME NEW i \in DOMAIN region PROVE Sized(i)'
    OBVIOUS
  <2>1. Sized(i) /\ region'[i] = region[i]
    BY <1>2 DEF ShapeInv
  <2> QED
    BY <1>3, <2>1 DEF Sized
<1>6. DOMAIN at' = {}
  BY DEF ShapeInv
<1> QED
  BY <1>2, <1>4, <1>5, <1>6 DEF ShapeInv

LEMMA AllocateLogShape == SpaceInv /\ ShapeInv /\ FileInv /\ AllocateLog => ShapeInv' /\ FileInv'
<1> SUFFICES ASSUME SpaceInv, ShapeInv, FileInv, AllocateLog PROVE ShapeInv' /\ FileInv'
  OBVIOUS
<1> PICK n : n = Len(region) + 1
  OBVIOUS
<1>1. /\ stage = "logs" /\ Len(region) < NumServer /\ NumServer \in Nat \ {0}
      /\ Len(region) \in Nat /\ n <= NumServer
  BY Words DEF AllocateLog, SpaceInv
<1>2. CASE /\ Returned(LogSize, usage)
           /\ stage' = IF Len(region) + 1 = NumServer THEN "index" ELSE stage
           /\ UNCHANGED <<options, base, log_usage, file, put, at>>
  <2>1. ShapeInv' /\ DOMAIN region' = DOMAIN region \cup {n}
    <3>1. stage' # "serve"
      BY <1>1, <1>2
    <3> QED
      BY <1>1, <1>2, <3>1, ReturnedShape
  <2>2. \A p \in DOMAIN region' : ~(p > NumServer)
    BY <1>1, <2>1, Words
  <2>3. DOMAIN at' = {}
    BY <1>1, <1>2 DEF ShapeInv
  <2> QED
    BY <2>1, <2>2, <2>3 DEF FileInv
<1>3. CASE Exits(LogSize, usage)
  BY <1>1, <1>3 DEF Exits, ShapeInv, FileInv, Sized, InLog, LogSize, PartitionSize, WithinLogs, Log,
                    RecordWhole, PartitionFree
<1> QED
  BY <1>2, <1>3 DEF AllocateLog

LEMMA AllocatePartitionShape ==
    SpaceInv /\ SizeInv /\ ShapeInv /\ FileInv /\ AllocatePartition => ShapeInv' /\ FileInv'
<1> SUFFICES ASSUME SpaceInv, SizeInv, ShapeInv, FileInv, AllocatePartition
             PROVE  ShapeInv' /\ FileInv'
  OBVIOUS
<1> PICK n : n = Len(region) + 1
  OBVIOUS
<1>1. /\ stage = "index" /\ ~(n <= NumServer) /\ NumServer \in Nat \ {0}
      /\ Len(region) \in Nat /\ DOMAIN at = {}
  BY Words DEF AllocatePartition, SizeInv, Partitions, ShapeInv
<1>2. CASE /\ Returned(PartitionSize, AlignedUsage)
           /\ file' = Cleared(AlignedUsage, PartitionSize)
           /\ stage' = IF Len(region) + 1 = 2 * NumServer THEN "serve" ELSE stage
           /\ UNCHANGED <<options, base, log_usage, put, at>>
  <2>1. /\ DOMAIN file' = DOMAIN file
        /\ \A w \in DOMAIN file : file'[w] = IF AlignedUsage <= w /\ w < AlignedUsage + PartitionSize
                                             THEN Free ELSE file[w]
    BY <1>2 DEF Cleared
  <2>2. /\ ShapeInv'
        /\ DOMAIN region' = DOMAIN region \cup {n}
        /\ \A i \in DOMAIN region : region'[i] = region[i] /\ i # n
        /\ region'[n] = Region(base + AlignedUsage, PartitionSize)
    BY <1>1, <1>2, <2>1, ReturnedShape
  <2>3. AlignedUsage \in Nat /\ AlignedUsage + PartitionSize <= options.pmem_file_size
    <3>1. usage \in Nat /\ base \in Nat /\ Align \in Nat \ {0} /\ usage + base \in Nat
      BY Sizes DEF SpaceInv
    <3>2. /\ ((usage + base + Align - 1) \div Align) * Align \in Nat
          /\ ((usage + base + Align - 1) \div Align) * Align >= usage + base
      BY <3>1, RoundUp
    <3> QED
      BY <1>2, <3>1, <3>2 DEF AlignedUsage, Returned, Fits
  <2>4. PartitionFree(n)'
    <3> PICK u : u = AlignedUsage
      OBVIOUS
    <3>5. region'[n].start = base + u /\ region'[n].size = PartitionSize
      BY <2>2 DEF Region
    <3> SUFFICES ASSUME NEW o \in 0 .. PartitionSize - 1
                 PROVE  file'[base + u + o - base] = Free
      BY <1>2, <3>5 DEF PartitionFree
    <3>1. base \in Nat /\ PartitionSize \in Nat /\ options.pmem_file_size \in Nat
      BY Words
    <3>2. base + u + o - base = AlignedUsage + o
      BY <2>3, <3>1
    <3>3. AlignedUsage + o \in 0 .. options.pmem_file_size - 1
      BY <2>3, <3>1
    <3>4. AlignedUsage <= AlignedUsage + o /\ AlignedUsage + o < AlignedUsage + PartitionSize
      BY <2>3, <3>1
    <3> QED
      BY <2>1, <3>2, <3>3, <3>4 DEF ShapeInv
  <2>5. WithinLogs' => WithinLogs
    BY <1>2 DEF WithinLogs, LogSize
  <2>6. ASSUME WithinLogs, NEW p \in DOMAIN region, p > NumServer PROVE PartitionFree(p)'
    <3>1. PartitionFree(p) /\ region'[p] = region[p]
      BY <2>2, <2>6 DEF FileInv
    <3> SUFFICES ASSUME NEW o \in 0 .. region[p].size - 1
                 PROVE  file'[region[p].start + o - base] = Free
      BY <1>2, <3>1 DEF PartitionFree
    <3>2. region[p].start + o - base \in 0 .. options.pmem_file_size - 1
      <4>1. region[p].start \in Nat /\ region[p].size \in Nat /\ base \in Nat
            /\ options.pmem_file_size \in Nat
        BY Words
      <4>2. base <= region[p].start /\ region[p].start + region[p].size <= base + options.pmem_file_size
        BY DEF SpaceInv, RegionsApart, End
      <4> QED
        BY <4>1, <4>2
    <3> QED
      BY <2>1, <3>1, <3>2 DEF PartitionFree, ShapeInv
  <2>7. FileInv'
    <3>1. \A r \in DOMAIN at' : RecordWhole(r)'
      BY <1>1, <1>2
    <3>2. WithinLogs' => \A p \in DOMAIN region' : p > NumServer => PartitionFree(p)'
      BY <2>2, <2>4, <2>5, <2>6
    <3> QED
      BY <3>1, <3>2 DEF FileInv
  <2> QED
    BY <2>2, <2>7
<1>3. CASE Exits(PartitionSize, AlignedUsage)
  BY <1>1, <1>3 DEF Exits, ShapeInv, FileInv, Sized, InLog, LogSize, PartitionSize, WithinLogs, Log,
                    RecordWhole, PartitionFree
<1> QED
  BY <1>2, <1>3 DEF AllocatePartition

\* A record in a log that is not over its end is below what comes after it.
LEMMA LogsApart ==
    ASSUME SpaceInv, ShapeInv, stage = "serve", NEW i \in Servers, NEW p \in DOMAIN region, i < p
    PROVE  Log(i).start + LogSize <= region[p].start
<1>1. i \in DOMAIN region /\ i <= NumServer
  BY Words DEF Servers, ShapeInv
<1>2. End(region[i]) <= region[p].start
  BY <1>1 DEF SpaceInv, RegionsApart
<1> QED
  BY <1>1, <1>2, Words DEF Log

LEMMA AppendKVShape ==
    ASSUME SpaceInv, ShapeInv, FileInv, NEW i \in Servers, AppendKV(i)
    PROVE  ShapeInv' /\ FileInv'
<1> PICK d, n : d = Dest(i) /\ n = put + 1
  OBVIOUS
<1>1. /\ stage = "serve" /\ put' = n /\ put \in Nat
      /\ d = Log(i).start + log_usage[i]
      /\ d + RecordWords <= base + options.pmem_file_size
      /\ DOMAIN file' = DOMAIN file
      /\ \A w \in DOMAIN file : file'[w] = IF d <= base + w /\ base + w < d + RecordWords
                                           THEN n ELSE file[w]
      /\ DOMAIN at' = DOMAIN at \cup {n}
      /\ \A r \in DOMAIN at : r # n => at'[r] = at[r]
      /\ at'[n] = [server |-> i, dest |-> d]
      /\ UNCHANGED <<options, base, stage, usage, region>>
  BY DEF AppendKV, Dest, ShapeInv
<1>2. /\ log_usage' \in [Servers -> Nat]
      /\ log_usage'[i] = log_usage[i] + RecordWords
      /\ \A j \in Servers \ {i} : log_usage'[j] = log_usage[j]
  <2>1. log_usage[i] + RecordWords \in Nat
    BY Words
  <2> QED
    BY <2>1 DEF AppendKV, Advanced, ShapeInv
<1>3. /\ base \in Nat /\ options.pmem_file_size \in Nat /\ RecordWords \in Nat /\ LogSize \in Nat
       /\ \A j \in Servers : log_usage[j] \in Nat
  BY Words
<1>4. /\ Servers \subseteq DOMAIN region
      /\ \A j \in Servers : /\ j <= NumServer /\ j \in Nat
                            /\ Log(j).start \in Nat /\ base <= Log(j).start
                            /\ Log(j).start + LogSize <= base + options.pmem_file_size
      /\ d \in Nat /\ base <= d
  <2>1. \A j \in Servers : j \in DOMAIN region /\ j <= NumServer /\ j \in Nat
    BY <1>1, Words DEF Servers, ShapeInv
  <2>2. \A j \in Servers : /\ Log(j).start \in Nat /\ base <= Log(j).start
                          /\ Log(j).start + LogSize <= base + options.pmem_file_size
    BY <2>1, Words DEF SpaceInv, RegionsApart, Log
  <2> QED
    BY <1>1, <1>3, <2>1, <2>2
<1>5. LogSize' = LogSize /\ PartitionSize' = PartitionSize /\ \A j \in Servers : Log(j)' = Log(j)
  BY <1>1 DEF LogSize, PartitionSize, Log
<1>6. ASSUME NEW r \in DOMAIN at' PROVE InLog(r)'
  <2>1. CASE r = n
    <3>1. d + RecordWords <= Log(i).start + (log_usage[i] + RecordWords)
      BY <1>1, <1>4, <1>3
    <3>2. at'[r].server = i /\ at'[r].dest = d
      BY <1>1, <2>1
    <3>3. d >= Log(i).start
      BY <1>1, <1>3, <1>4
    <3> QED
      BY <1>1, <1>2, <1>4, <3>1, <3>2, <3>3 DEF InLog, Log
  <2>2. CASE r # n
    <3>1. InLog(r) /\ at'[r] = at[r]
      BY <1>1, <2>2 DEF ShapeInv
    <3> PICK s : s = at[r].server
      OBVIOUS
    <3>2. s \in Servers /\ log_usage[s] <= log_usage'[s] /\ log_usage'[s] \in Nat /\ log_usage[s] \in Nat
      <4>1. s \in Servers
        BY <3>1 DEF InLog
      <4>2. CASE s = i
        BY <1>2, <1>3, <4>1, <4>2
      <4>3. CASE s # i
        BY <1>2, <1>3, <4>1, <4>3
      <4> QED
        BY <4>2, <4>3
    <3>3. Log(s).start \in Nat /\ at[r].dest \in Nat
      BY <1>4, <3>1, <3>2 DEF InLog
    <3>4. at[r].dest + RecordWords <= Log(s).start + log_usage'[s]
      BY <1>3, <3>1, <3>2, <3>3 DEF InLog
    <3> QED
      BY <1>5, <3>1, <3>2, <3>4 DEF InLog
  <2> QED
    BY <2>1, <2>2
<1>7. ShapeInv'
  <2>1. \A p \in DOMAIN region' : Sized(p)'
    BY <1>1, <1>5 DEF ShapeInv, Sized
  <2> QED
    BY <1>1, <1>2, <1>6, <2>1 DEF ShapeInv
<1>8. ASSUME WithinLogs'
      PROVE  WithinLogs /\ d + RecordWords <= Log(i).start + LogSize
  <2>1. \A j \in Servers : log_usage'[j] <= LogSize
    BY <1>5, <1>8 DEF WithinLogs
  <2>2. log_usage[i] <= LogSize /\ d + RecordWords <= Log(i).start + LogSize
    BY <1>1, <1>2, <1>4, <1>3, <2>1
  <2> QED
    BY <1>2, <2>1, <2>2 DEF WithinLogs
<1>9. ASSUME WithinLogs', NEW r \in DOMAIN at' PROVE RecordWhole(r)'
  <2>1. CASE r = n
    <3> SUFFICES ASSUME NEW o \in 0 .. RecordWords - 1 PROVE file'[d + o - base] = n
      BY <1>1, <2>1 DEF RecordWhole
    <3>1. d + o - base \in 0 .. options.pmem_file_size - 1
      BY <1>1, <1>4, <1>3
    <3>2. d <= base + (d + o - base) /\ base + (d + o - base) < d + RecordWords
      BY <1>1, <1>4, <1>3
    <3> QED
      BY <1>1, <3>1, <3>2 DEF ShapeInv
  <2>2. CASE r # n
    <3>1. r \in DOMAIN at /\ at'[r] = at[r] /\ InLog(r) /\ RecordWhole(r)
      BY <1>1, <1>8, <1>9, <2>2 DEF ShapeInv, FileInv
    <3> PICK s, e : s = at[r].server /\ e = at[r].dest
      OBVIOUS
    <3>2. /\ s \in Servers /\ e \in Nat /\ Log(s).start <= e
          /\ e + RecordWords <= Log(s).start + log_usage[s]
          /\ log_usage[s] <= LogSize /\ log_usage[s] \in Nat /\ Log(s).start \in Nat
          /\ base <= Log(s).start
      BY <1>4, <1>8, <1>9, <1>3, <3>1 DEF InLog, WithinLogs
    <3>3. e + RecordWords <= d \/ d + RecordWords <= e
      <4>1. CASE s = i
        BY <1>1, <3>2, <4>1
      <4>2. CASE s < i
        <5>1. Log(s).start + LogSize <= Log(i).start
          BY <1>1, <1>4, <3>2, <4>2, LogsApart DEF Log
        <5> QED
          BY <1>1, <1>4, <1>3, <3>2, <5>1
      <4>3. CASE i < s
        <5>1. Log(i).start + LogSize <= Log(s).start
          BY <1>1, <1>4, <3>2, <4>3, LogsApart DEF Log
        <5> QED
          BY <1>4, <1>8, <1>9, <1>3, <3>2, <5>1
      <4> QED
        BY <1>4, <3>2, <4>1, <4>2, <4>3
    <3> SUFFICES ASSUME NEW o \in 0 .. RecordWords - 1 PROVE file'[e + o - base] = r
      BY <1>1, <3>1 DEF RecordWhole
    <3>4. file[e + o - base] = r
      BY <3>1 DEF RecordWhole
    <3>5. e + o - base \in 0 .. options.pmem_file_size - 1
      <4>1. e + RecordWords <= base + options.pmem_file_size
        BY <1>4, <1>3, <3>2
      <4> QED
        BY <1>3, <3>2, <4>1
    <3>6. ~(d <= base + (e + o - base) /\ base + (e + o - base) < d + RecordWords)
      BY <1>4, <1>3, <3>2, <3>3
    <3> QED
      BY <1>1, <3>4, <3>5, <3>6 DEF ShapeInv
  <2> QED
    BY <2>1, <2>2
<1>10. ASSUME WithinLogs', NEW p \in DOMAIN region, p > NumServer PROVE PartitionFree(p)'
  <2>1. PartitionFree(p)
    BY <1>8, <1>10 DEF FileInv
  <2> PICK e, size : e = region[p].start /\ size = region[p].size
    OBVIOUS
  <2>2. e \in Nat /\ size \in Nat /\ base <= e /\ e + size <= base + options.pmem_file_size
    BY Words DEF SpaceInv, RegionsApart, End
  <2>3. d + RecordWords <= e
    <3>1. i < p
      BY <1>4, <1>10, Words DEF Servers
    <3>2. Log(i).start + LogSize <= e
      BY <1>1, <3>1, LogsApart
    <3> QED
      BY <1>4, <1>8, <1>10, <1>3, <2>2, <3>2
  <2> SUFFICES ASSUME NEW o \in 0 .. size - 1 PROVE file'[e + o - base] = Free
    BY <1>1 DEF PartitionFree
  <2>4. file[e + o - base] = Free
    BY <2>1 DEF PartitionFree
  <2>5. e + o - base \in 0 .. options.pmem_file_size - 1
    BY <1>4, <1>3, <2>2
  <2>6. ~(base + (e + o - base) < d + RecordWords)
    BY <1>4, <1>3, <2>2, <2>3
  <2> QED
    BY <1>1, <2>4, <2>5, <2>6 DEF ShapeInv
<1>11. FileInv'
  BY <1>1, <1>9, <1>10 DEF FileInv
<1> QED
  BY <1>7, <1>11

LEMMA NextShape ==
    SpaceInv /\ SizeInv /\ ShapeInv /\ FileInv /\ [Next]_vars => ShapeInv' /\ FileInv'
<1> SUFFICES ASSUME SpaceInv, SizeInv, ShapeInv, FileInv, [Next]_vars PROVE ShapeInv' /\ FileInv'
  OBVIOUS
<1>1. CASE Restart
  <2>1. /\ DOMAIN region' = {} /\ DOMAIN at' = {} /\ stage' = "logs"
        /\ log_usage' \in [Servers -> Nat]
        /\ UNCHANGED <<options, file, put>>
    BY <1>1 DEF Restart, Nowhere
  <2> QED
    BY <2>1 DEF ShapeInv, FileInv
<1>2. CASE UNCHANGED vars
  BY <1>2 DEF vars, ShapeInv, FileInv, Sized, InLog, LogSize, PartitionSize, WithinLogs, Log,
              RecordWhole, PartitionFree
<1> QED
  BY <1>1, <1>2, AllocateLogShape, AllocatePartitionShape, AppendKVShape DEF Next

(***************************************************************************)
(* As long as no server appends more than its log holds (AppendKV does not *)
(* look, pstore.hpp:31-37), every record of this life stays in the file as *)
(* it was written, in its server's log, and the partitions of the index    *)
(* begin empty, wherever the file is mapped and whatever it held before.   *)
(***************************************************************************)
THEOREM RecordsIntactHolds == Spec => []RecordsIntact
<1>1. SpaceInv /\ ShapeInv /\ FileInv => RecordsIntact
  <2> SUFFICES ASSUME SpaceInv, ShapeInv, FileInv, stage = "serve", WithinLogs PROVE
          /\ \A r \in DOMAIN at :
                /\ Log(at[r].server).start <= at[r].dest
                /\ at[r].dest + RecordWords <= End(Log(at[r].server))
                /\ \A o \in 0 .. RecordWords - 1 : file[at[r].dest + o - base] = r
          /\ \A p \in NumServer + 1 .. 2 * NumServer : \A o \in 0 .. region[p].size - 1 :
                file[region[p].start + o - base] = Free
    BY DEF RecordsIntact
  <2>1. ASSUME NEW r \in DOMAIN at
        PROVE  /\ Log(at[r].server).start <= at[r].dest
               /\ at[r].dest + RecordWords <= End(Log(at[r].server))
               /\ \A o \in 0 .. RecordWords - 1 : file[at[r].dest + o - base] = r
    <3> PICK s : s = at[r].server
      OBVIOUS
    <3>1. InLog(r) /\ RecordWhole(r) /\ s \in Servers
      BY DEF ShapeInv, FileInv, InLog
    <3>2. s \in DOMAIN region /\ s <= NumServer /\ log_usage[s] <= LogSize
      BY <3>1, Words DEF Servers, ShapeInv, WithinLogs
    <3>3. /\ End(Log(s)) = Log(s).start + LogSize /\ Log(s).start \in Nat /\ LogSize \in Nat
          /\ log_usage[s] \in Nat /\ RecordWords \in Nat /\ at[r].dest \in Nat
      BY <3>1, <3>2, Words DEF Log, InLog
    <3>4. at[r].dest + RecordWords <= End(Log(s))
      BY <3>1, <3>2, <3>3 DEF InLog
    <3> QED
      BY <3>1, <3>4 DEF InLog, RecordWhole
  <2>2. ASSUME NEW p \in NumServer + 1 .. 2 * NumServer PROVE PartitionFree(p)
    BY Words DEF ShapeInv, FileInv
  <2> QED
    BY <2>1, <2>2 DEF PartitionFree
<1> QED
  BY <1>1, InitSpaceInv, NextSpaceInv, InitSizeInv, NextSizeInv, InitShape, NextShape, PTL DEF Spec

=============================================================================
