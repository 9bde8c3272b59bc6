---------------------------- MODULE ExFatGeometry ----------------------------
(***************************************************************************)
(* The rules one exFAT boot region must meet (src/exfat_boot.rs), as pure  *)
(* operators over the fields of a region.                                  *)
(*                                                                         *)
(* The boot sector stores two shifts.  Here a region holds what they stand *)
(* for: `sector' is the bytes of a sector (0 where BytesPerSectorShift is  *)
(* outside its range) and `cluster' the sectors of a cluster, so that a    *)
(* left shift is a multiplication and a right shift a division.            *)
(***************************************************************************)
EXTENDS Integers

CONSTANTS SectorSizes,      \* the sector sizes the format has: 512 to 4096
          ClusterSizes,     \* the sectors a cluster may have: powers of two
          TableSector,      \* the sector of the partition table, in bytes
          MaxClusterBytes,  \* 2^25: the two shifts sum to at most 25
          MinVolumeBytes,   \* the smallest volume
          U32Max            \* the largest value a 32-bit field holds

ASSUME ExFatGeometryAssumption ==
  /\ TableSector \in Nat \ {0}
  /\ SectorSizes \subseteq Nat \ {0}
  /\ \A s \in SectorSizes : s % TableSector = 0
  /\ ClusterSizes \subseteq Nat \ {0}
  /\ MaxClusterBytes \in Nat
  /\ MinVolumeBytes \in Nat
  /\ U32Max \in Nat /\ U32Max >= 24

RegionSectors == 12             \* REGION_SECTORS
MinFatOffset == 24              \* MIN_FAT_OFFSET: past both boot regions
FatEntryBytes == 4
BaseClusters == 2               \* the root directory and the up-case table
MaxClusterCount == U32Max - 10
MaxRevisionByte == 99
SupportedMajorRevision == 1
PercentNotAvailable == 255

U32 == 0..U32Max

(* What a boot region holds where it is read: its fields, and two facts    *)
(* about the bytes no field shows.  `sealed': the checksum over its first  *)
(* eleven sectors is the one its checksum sector repeats from end to end.  *)
(* `branded': jump instruction, file system name, must-be-zero bytes and   *)
(* signature are the format's.                                             *)
BootRegions ==
  [sector : SectorSizes \cup {0}, sealed : BOOLEAN, branded : BOOLEAN,
   cluster : ClusterSizes, fats : Nat, length : Nat,
   fatOffset : U32, fatLength : U32, heapOffset : U32, count : U32,
   root : U32, major : Nat, minor : Nat,
   activeFat : 0..1, percent : Nat]

(* Why a region gave no geometry.  Everything that is wrong with what was  *)
(* read is "Malformed", except the two failures that say where to look     *)
(* next and the one that is not a fault of the region.                     *)
Refusals == {"Outside", "SectorSize", "Malformed", "NotLocated", "TexFat"}

AtMost(a, b) == IF a <= b THEN a ELSE b

(* u64::saturating_sub *)
SaturatingSub(a, b) == IF a >= b THEN a - b ELSE 0

(* Seeded fault: the last part of a sector is not counted.                 *)
DivFloor(a, b) == a \div b

(* u64::div_ceil *)
DivCeil(a, b) == IF a % b = 0 THEN a \div b ELSE (a \div b) + 1

MinimumFatLength(r) == DivCeil((r.count + 2) * FatEntryBytes, r.sector)

FatEnd(r) == r.fatOffset + r.fatLength * r.fats

HeapLimit(r) ==
  AtMost(SaturatingSub(r.length, r.count * r.cluster), U32Max)

(* The clusters the volume's length implies.                               *)
ExpectedCount(r) ==
  AtMost((r.length - r.heapOffset) \div r.cluster, MaxClusterCount)

GeometryHolds(r) ==
  /\ r.length >= MinVolumeBytes \div r.sector
  /\ r.fatOffset >= MinFatOffset
  /\ r.fatLength >= MinimumFatLength(r)
  /\ r.heapOffset >= FatEnd(r)
  /\ r.heapOffset <= HeapLimit(r)
  /\ r.count <= MaxClusterCount
  /\ r.count >= BaseClusters + r.fats
  /\ r.count = ExpectedCount(r)
  /\ r.root >= 2
  /\ r.root <= r.count + 1

RevisionHolds(r) ==
  /\ r.major <= MaxRevisionByte
  /\ r.minor <= MaxRevisionByte
  /\ r.major = SupportedMajorRevision

(* VolumeFlags and PercentInUse are outside the checksum and stale in the  *)
(* backup, so only the main region's are checked.                          *)
MainOnlyFieldsHold(r) ==
  /\ r.activeFat = 1 => r.fats # 1
  /\ r.percent > 100 => r.percent = PercentNotAvailable

VolumeBytes(r) == r.length * r.sector

PartitionBytes(sectors) == sectors * TableSector

WellFormed(r, which, sectors) ==
  /\ r.sealed
  /\ r.branded
  /\ r.sector * r.cluster <= MaxClusterBytes
  /\ r.fats \in {1, 2}
  /\ GeometryHolds(r)
  /\ RevisionHolds(r)
  /\ which = "Main" => MainOnlyFieldsHold(r)
  /\ VolumeBytes(r) <= PartitionBytes(sectors)

(* validate_region, of `read' bytes at the region's start: "Ok" or the     *)
(* reason it is refused.  The region's own sector size says how much of it *)
(* there has to be.  TexFat is last: a malformed volume with two FATs is   *)
(* malformed.                                                              *)
ValidateRegion(r, read, which, sectors) ==
  CASE read < TableSector -> "Outside"
    [] read >= TableSector /\ r.sector \notin SectorSizes -> "SectorSize"
    [] read >= TableSector /\ r.sector \in SectorSizes ->
         IF read < RegionSectors * r.sector THEN "Outside"
         ELSE IF ~WellFormed(r, which, sectors) THEN "Malformed"
         ELSE IF r.fats = 2 THEN "TexFat" ELSE "Ok"

=============================================================================
