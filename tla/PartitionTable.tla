--------------------------- MODULE PartitionTable ---------------------------
(***************************************************************************)
(* parse_mbr of src/partition.rs: which of a master boot record's entries  *)
(* become partitions, and what is said of the others.                      *)
(*                                                                         *)
(* An entry is evidence: any type, any start and any length.  The numbers  *)
(* are below Word as stored and are added in twice that width, which the   *)
(* sum does not leave, so LengthOverflow is an error no input reaches.     *)
(***************************************************************************)
EXTENDS Integers, FiniteSets

CONSTANTS
  EntryCount,   \* entries of a table, 4 in the code
  SectorSize,   \* bytes of a sector, 512 in the code
  Word          \* stored numbers are below it, 2^32 in the code

ASSUME TableAssumption ==
  /\ EntryCount \in Nat
  /\ SectorSize \in Nat \ {0}
  /\ Word \in Nat \ {0}

Index == 1 .. EntryCount

\* Type 0, type 0xEE and every other type; `zero' is of an unused entry's rest.
TableEntry == [type : {"unused", "gpt_protective", "other"},
               boot_indicator : {"inactive", "active", "neither"},
               start_lba : 0 .. Word - 1, sector_count : 0 .. Word - 1, zero : BOOLEAN]

Anomaly == [kind : {"InvalidBootIndicator", "MultipleBootablePartitions",
                    "OverlappingPartitions", "NonZeroUnusedEntry", "EntriesOutOfOrder",
                    "PartitionBeyondEnd", "ZeroLengthPartition"},
            of : SUBSET Index]

\* A trailing part of a sector is no sector.
Sectors(length) == length \div SectorSize

\* Seeded fault: added in the width of the fields.
EndInWord(p) == (p.start_lba + p.sector_count) % Word

\* One past the last sector, in 64 bits.
EndLba(p) == p.start_lba + p.sector_count

ZeroLength(p) == p.type = "other" /\ p.sector_count = 0

BeyondEnd(p, length) ==
  p.type = "other" /\ p.sector_count # 0 /\ EndLba(p) > Sectors(length)

Kept(p, length) ==
  p.type = "other" /\ p.sector_count # 0 /\ EndLba(p) <= Sectors(length)

\* The entries before the first protective one, at which the parser stops.
Examined(table) ==
  {i \in Index : \A g \in Index : table[g].type = "gpt_protective" => i < g}

IsGpt(table) == \E i \in Index : table[i].type = "gpt_protective"

\* The partitions of a conventional table; they are taken in table order.
Partitions(table, length) == {i \in Index : Kept(table[i], length)}

\* Seeded fault: partitions that touch overlap.
OverlapOrTouch(p, q) == p.start_lba <= EndLba(q) /\ q.start_lba <= EndLba(p)

Overlap(p, q) == p.start_lba < EndLba(q) /\ q.start_lba < EndLba(p)

\* Seeded fault: the position, which counts from zero.
Position(i) == i - 1

\* The number an anomaly gives an entry: the position plus one.
Number(i) == i

\* What is said of one entry while the entries are gone through.
Said(p, length) ==
  {kind \in {"NonZeroUnusedEntry", "ZeroLengthPartition", "PartitionBeyondEnd",
             "InvalidBootIndicator"} :
     \/ kind = "NonZeroUnusedEntry" /\ p.type = "unused" /\ ~p.zero
     \/ kind = "ZeroLengthPartition" /\ ZeroLength(p)
     \/ kind = "PartitionBeyondEnd" /\ BeyondEnd(p, length)
     \/ kind = "InvalidBootIndicator" /\ Kept(p, length) /\ p.boot_indicator = "neither"}

EntryAnomalies(table, length) ==
  UNION {{[kind |-> kind, of |-> {Number(i)}] : kind \in Said(table[i], length)} :
           i \in Examined(table)}

\* Said of the partitions together.
Overlaps(table, length) ==
  LET kept == Partitions(table, length)
      over(i) == {j \in kept : i < j /\ Overlap(table[i], table[j])}
  IN  UNION {{[kind |-> "OverlappingPartitions", of |-> {Number(i), Number(j)}] : j \in over(i)} :
               i \in kept}

TableAnomalies(table, length) ==
  LET kept == Partitions(table, length)
      bootable == {i \in kept : table[i].boot_indicator = "active"}
      follows(i, j) == i < j /\ \A k \in kept : ~(i < k /\ k < j)
  IN  Overlaps(table, length)
      \cup (IF Cardinality(bootable) > 1
              THEN {[kind |-> "MultipleBootablePartitions", of |-> {}]} ELSE {})
      \cup (IF \E i, j \in kept : follows(i, j) /\ table[i].start_lba > table[j].start_lba
              THEN {[kind |-> "EntriesOutOfOrder", of |-> {}]} ELSE {})

Anomalies(table, length) ==
  EntryAnomalies(table, length)
    \cup (IF IsGpt(table) THEN {} ELSE TableAnomalies(table, length))
=============================================================================
