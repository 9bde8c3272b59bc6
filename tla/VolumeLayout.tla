---------------------------- MODULE VolumeLayout ----------------------------
(***************************************************************************)
(* What a boot record says of where a FAT32 volume's parts lie, and what   *)
(* is read there: identify_fat of src/fat.rs, parse_boot_sector of         *)
(* src/fat32.rs, and the offsets of src/fat_directory.rs.                  *)
(*                                                                         *)
(* Every field is evidence and may hold any number its width allows, so    *)
(* products and sums leave the width they are computed in unless a check   *)
(* stops them.  Sector and field widths are parameters; arithmetic the     *)
(* code does in 64 bits stays below 2^64 and is unbounded here.            *)
(***************************************************************************)
EXTENDS Integers

CONSTANTS
  Word,             \* stored numbers are below it, 2^32 in the code
  SectorSize,       \* VBR_SIZE and the sector the tool supports, 512
  SectorSizes,      \* what the specification permits: 512, 1024, 2048, 4096
  ClusterSectors,   \* sectors of a cluster: the powers of two of a byte
  MaxClusterBytes,  \* MAX_CLUSTER_BYTES, 32768
  Fat32Clusters,    \* FAT16_MAX_CLUSTERS, 65525: FAT32 from here on
  EntryBytes,       \* FAT32_ENTRY_BYTES, 4
  SlotBytes         \* bytes of a directory entry, 32

ASSUME LayoutAssumption ==
  /\ Word \in Nat \ {0}
  /\ SectorSizes \subseteq Nat \ {0} /\ SectorSize \in SectorSizes
  /\ ClusterSectors \subseteq Nat \ {0}
  /\ MaxClusterBytes \in Nat /\ Fat32Clusters \in Nat
  /\ EntryBytes \in Nat \ {0} /\ SlotBytes \in Nat \ {0}

FirstDataCluster == 2
Number == 0 .. Word - 1

\* The fields the geometry is made of; some are narrower than Word.  No offset
\* is made of the others, and a flag says whether they pass: signature and jump
\* are `sound', the media descriptor is `media', the version and the two
\* optional sectors `sound_32'.
Boot == [bytes_per_sector : Number, sectors_per_cluster : Number, reserved_sectors : Number,
         fat_count : Number, root_entry_count : Number, total_sectors_16 : Number,
         total_sectors_32 : Number, fat_size_16 : Number, fat_size_32 : Number,
         root_cluster : Number, mirroring : BOOLEAN, active : Number,
         oem : {"other", "exfat", "ntfs"}, sound : BOOLEAN, media : BOOLEAN, sound_32 : BOOLEAN]

Extent == [start_lba : Number, sector_count : Number]

NotRead == [region |-> "none", fat |-> 0, cluster |-> FirstDataCluster, offset |-> 0, bytes |-> 0]

Read == [region : {"none", "fat", "data"}, fat : Number, cluster : Nat,
         offset : Nat, bytes : Nat]

VARIABLES
  boot,      \* the volume's first sector
  extent,    \* the partition that holds it
  step,      \* "record", "unidentified", "unsupported", "refused", "fat32"
  last,      \* the latest read
  previous   \* the one before

vars == <<boot, extent, step, last, previous>>

----------------------------------------------------------------------------
(***************************************************************************)
(* identify and identify_fat.                                              *)
(***************************************************************************)

TotalSectors(b) == IF b.total_sectors_16 # 0 THEN b.total_sectors_16 ELSE b.total_sectors_32

FatSize(b) == IF b.fat_size_16 # 0 THEN b.fat_size_16 ELSE b.fat_size_32

\* saturating_mul and saturating_add.
Saturated(n) == IF n < Word THEN n ELSE Word - 1

\* Seeded fault: wrapping multiplication.
FatsWrapped(b) == (b.fat_count * FatSize(b)) % Word

Fats(b) == Saturated(b.fat_count * FatSize(b))

RootDirSectors(b) ==
  Saturated(Saturated(b.root_entry_count * SlotBytes) + b.bytes_per_sector - 1)
    \div b.bytes_per_sector

MetadataSectors(b) == b.reserved_sectors + Fats(b) + RootDirSectors(b)

DataSectors(b) == TotalSectors(b) - MetadataSectors(b)

ClusterCount(b) == DataSectors(b) \div b.sectors_per_cluster

\* Each condition is a rejection of its own; the sums are checked, so one that
\* leaves the word is rejected, too.
FieldsPermitted(b) ==
  /\ b.media
  /\ b.bytes_per_sector \in SectorSizes
  /\ b.sectors_per_cluster \in ClusterSectors
  /\ b.bytes_per_sector * b.sectors_per_cluster <= MaxClusterBytes
  /\ b.reserved_sectors # 0 /\ b.fat_count # 0
  /\ TotalSectors(b) # 0 /\ FatSize(b) # 0
  /\ MetadataSectors(b) < Word
  /\ MetadataSectors(b) < TotalSectors(b)

Identified(b) ==
  IF ~b.sound THEN "unidentified"
  ELSE IF b.oem # "other" THEN "unsupported"
  ELSE IF ~FieldsPermitted(b) THEN "unidentified"
  ELSE IF ClusterCount(b) < Fat32Clusters THEN "unsupported"
  ELSE "fat32"

----------------------------------------------------------------------------
(***************************************************************************)
(* parse_boot_sector, for a volume identified as FAT32.                    *)
(***************************************************************************)

\* Seeded fault: the two reserved entries are forgotten.
RequiredForClusters(b) == ClusterCount(b) * EntryBytes

RequiredBytes(b) == (ClusterCount(b) + FirstDataCluster) * EntryBytes

\* Seeded fault: the index of the active FAT is taken as it is.
ActiveFatAny(b) == TRUE

ActiveFatExists(b) == b.mirroring \/ b.active < b.fat_count

\* Seeded fault: cluster_count + 2 taken for a data cluster.
InRangeLate(b, c) == FirstDataCluster <= c /\ c <= ClusterCount(b) + FirstDataCluster

InRange(b, c) == FirstDataCluster <= c /\ c < ClusterCount(b) + FirstDataCluster

Usable(b, x) ==
  /\ b.bytes_per_sector = SectorSize
  /\ b.root_entry_count = 0 /\ b.fat_size_16 = 0
  /\ b.sound_32
  /\ TotalSectors(b) <= x.sector_count
  /\ InRange(b, b.root_cluster)
  /\ FatSize(b) * b.bytes_per_sector >= RequiredBytes(b)
  /\ ActiveFatExists(b)

----------------------------------------------------------------------------
(***************************************************************************)
(* Where things are, relative to the evidence.                             *)
(***************************************************************************)

\* In 32 bits, without a check of its own.
FirstDataSector(b) ==
  (b.reserved_sectors + ((b.fat_count * FatSize(b)) % Word) + RootDirSectors(b)) % Word

ClusterBytes(b) == b.bytes_per_sector * b.sectors_per_cluster

ClusterOffset(b, x, c) ==
  ((c - FirstDataCluster) * b.sectors_per_cluster + x.start_lba + FirstDataSector(b))
    * b.bytes_per_sector

FatIndex(b) == IF b.mirroring THEN 0 ELSE b.active

FatEntryOffset(b, x, c) ==
  (FatIndex(b) * FatSize(b) + b.reserved_sectors + x.start_lba) * b.bytes_per_sector
    + c * EntryBytes

DataRead(b, x, c) ==
  [region |-> "data", fat |-> 0, cluster |-> c,
   offset |-> ClusterOffset(b, x, c), bytes |-> ClusterBytes(b)]

FatRead(b, x, c) ==
  [region |-> "fat", fat |-> FatIndex(b), cluster |-> c,
   offset |-> FatEntryOffset(b, x, c), bytes |-> EntryBytes]

----------------------------------------------------------------------------

Examine(result) ==
  /\ step = "record"
  /\ step' = result
  /\ UNCHANGED <<boot, extent, last, previous>>

NotFat32 ==
  /\ Identified(boot) # "fat32"
  /\ Examine(Identified(boot))

Refuse ==
  /\ Identified(boot) = "fat32"
  /\ ~Usable(boot, extent)
  /\ Examine("refused")

Validated ==
  /\ Identified(boot) = "fat32"
  /\ Usable(boot, extent)
  /\ Examine("fat32")

Reads(r) ==
  /\ last' = r
  /\ previous' = last
  /\ UNCHANGED <<boot, extent, step>>

\* Every caller checks the cluster's range first.
ReadCluster ==
  /\ step = "fat32"
  /\ \E c \in FirstDataCluster .. Word :
       InRange(boot, c) /\ Reads(DataRead(boot, extent, c))

ReadFatEntry ==
  /\ step = "fat32"
  /\ \E c \in FirstDataCluster .. Word :
       InRange(boot, c) /\ Reads(FatRead(boot, extent, c))

Done == step \in {"unidentified", "unsupported", "refused"} /\ UNCHANGED vars

Start == step = "record" /\ last = NotRead /\ previous = NotRead

Init ==
  /\ boot \in Boot
  /\ extent \in Extent
  /\ Start

Next ==
  \/ NotFat32
  \/ Refuse
  \/ Validated
  \/ ReadCluster
  \/ ReadFatEntry
  \/ Done

Spec == Init /\ [][Next]_vars

----------------------------------------------------------------------------
(***************************************************************************)
(* Properties.                                                             *)
(***************************************************************************)

\* Besides the types: a read is for one of the volume's data clusters.
TypeOK ==
  /\ boot \in Boot
  /\ extent \in Extent
  /\ step \in {"record", "unidentified", "unsupported", "refused", "fat32"}
  /\ last \in Read /\ previous \in Read
  /\ last.region # "none" => last.cluster - FirstDataCluster < ClusterCount(boot)

\* Whatever the fields say, nothing outside the volume's own partition is read.
ReadsInsideVolume ==
  last.region # "none" =>
    /\ extent.start_lba * SectorSize <= last.offset
    /\ last.offset + last.bytes <= (extent.start_lba + extent.sector_count) * SectorSize

\* The first sector of a FAT, of the data, and of what follows the data, in
\* numbers that do not wrap.
FatAt(f) == extent.start_lba + boot.reserved_sectors + f * FatSize(boot)
DataAt == FatAt(boot.fat_count)

\* An allocation entry is read in the FAT that is meant, and that exists, and
\* content behind the last FAT.
ReadsInItsRegion ==
  /\ last.region = "fat" =>
       /\ last.fat < boot.fat_count
       /\ FatAt(last.fat) * SectorSize <= last.offset
       /\ last.offset + last.bytes <= FatAt(last.fat + 1) * SectorSize
  /\ last.region = "data" => DataAt * SectorSize <= last.offset

\* Two reads share bytes only if they are of one thing: no cluster's content
\* is part of another's, nor an allocation entry part of any content.
ReadsApart ==
  previous.region # "none" =>
    \/ last = previous
    \/ last.offset + last.bytes <= previous.offset
    \/ previous.offset + previous.bytes <= last.offset
=============================================================================
