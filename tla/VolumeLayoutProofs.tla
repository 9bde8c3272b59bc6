------------------------- MODULE VolumeLayoutProofs -------------------------
(***************************************************************************)
(* Theorems about VolumeLayout: for every boot record, every extent and    *)
(* every width of the numbers, what is read of an accepted volume lies     *)
(* where it should.                                                        *)
(***************************************************************************)
EXTENDS VolumeLayout, TLAPS

----------------------------------------------------------------------------
(***************************************************************************)
(* Arithmetic.                                                             *)
(***************************************************************************)

\* Whole clusters fit in the sectors they are counted from.
LEMMA DivFits ==
  ASSUME NEW a \in Nat, NEW b \in Nat \ {0}
  PROVE  a \div b \in Nat /\ (a \div b) * b <= a
BY SMT

\* A quotient of less than the divisor is zero.
LEMMA DivSmall ==
  ASSUME NEW b \in Nat \ {0}
  PROVE  (b - 1) \div b = 0
BY SMT

\* A number below the divisor is its own remainder.
LEMMA ModSmall ==
  ASSUME NEW a \in Nat, NEW b \in Nat \ {0}, a < b
  PROVE  a % b = a
BY SMT

\* The n-th of equal parts ends where the next begins, or before.
LEMMA PartsFit ==
  ASSUME NEW i \in Nat, NEW n \in Nat, NEW w \in Nat, i < n
  PROVE  i * w \in Nat /\ n * w \in Nat /\ i * w + w <= n * w
<1>1. PICK k \in Nat : n = i + 1 + k
  <2>1. n - i - 1 \in Nat /\ n = i + 1 + (n - i - 1)
    OBVIOUS
  <2> QED
    BY <2>1
<1>2. n * w = i * w + w + k * w
  BY <1>1, SMT
<1>3. k * w \in Nat /\ i * w \in Nat
  BY <1>1, SMT
<1> QED
  BY <1>2, <1>3, SMT

\* A larger count of sectors has more bytes.
LEMMA BytesMonotone ==
  ASSUME NEW a \in Nat, NEW b \in Nat, NEW s \in Nat, a <= b
  PROVE  a * s \in Nat /\ b * s \in Nat /\ a * s <= b * s
BY SMT

\* A sum of sectors, in bytes.
LEMMA BytesOfSum ==
  ASSUME NEW a \in Nat, NEW b \in Nat, NEW s \in Nat
  PROVE  (a + b) * s = a * s + b * s
BY SMT

----------------------------------------------------------------------------
(***************************************************************************)
(* What the checks establish of an accepted volume.                        *)
(***************************************************************************)

Accepted(b, x) == Identified(b) = "fat32" /\ Usable(b, x)

\* The numbers of an accepted volume: nothing wrapped or was saturated, the
\* metadata and the clusters fit the extent, and each FAT has its entries.
LEMMA Sound ==
  ASSUME NEW b \in Boot, NEW x \in Extent, Accepted(b, x)
  PROVE  /\ b.bytes_per_sector = SectorSize /\ SectorSize \in Nat \ {0}
         /\ b.sectors_per_cluster \in Nat \ {0}
         /\ b.reserved_sectors \in Nat /\ b.fat_count \in Nat /\ FatSize(b) \in Nat
         /\ x.start_lba \in Nat /\ x.sector_count \in Nat
         /\ ClusterCount(b) \in Nat
         /\ b.fat_count * FatSize(b) \in Nat
         /\ FirstDataSector(b) = b.reserved_sectors + b.fat_count * FatSize(b)
         /\ FirstDataSector(b) + ClusterCount(b) * b.sectors_per_cluster <= x.sector_count
         /\ (ClusterCount(b) + FirstDataCluster) * EntryBytes <= FatSize(b) * SectorSize
         /\ FatIndex(b) \in Nat /\ FatIndex(b) < b.fat_count
<1> DEFINE F == b.fat_count
           Z == FatSize(b)
           R == b.reserved_sectors
           T == TotalSectors(b)
<1>1. /\ FieldsPermitted(b) /\ Usable(b, x)
      /\ b.bytes_per_sector = SectorSize /\ SectorSize \in Nat \ {0}
      /\ b.sectors_per_cluster \in Nat \ {0}
  BY LayoutAssumption DEF Accepted, Identified, Usable, FieldsPermitted
<1>2. /\ F \in Nat \ {0} /\ Z \in Nat /\ R \in Nat \ {0} /\ T \in Nat
      /\ R < Word /\ SectorSize - 1 < Word /\ Word \in Nat \ {0}
      /\ x.start_lba \in Nat /\ x.sector_count \in Nat
      /\ b.active \in Nat
  BY <1>1, LayoutAssumption
     DEF Boot, Extent, Number, FatSize, TotalSectors, FieldsPermitted
<1>3. F * Z \in Nat
  BY <1>2, SMT
<1>4. RootDirSectors(b) = 0
  <2>1. b.root_entry_count * SlotBytes = 0
    BY <1>1, LayoutAssumption DEF Usable
  <2>2. Saturated(0) = 0 /\ Saturated(0 + SectorSize - 1) = SectorSize - 1
    BY <1>1, <1>2 DEF Saturated
  <2> QED
    BY <1>1, <2>1, <2>2, DivSmall DEF RootDirSectors
<1>5. F * Z < Word /\ Fats(b) = F * Z /\ MetadataSectors(b) = R + F * Z
  <2>1. R + Fats(b) + 0 < Word
    BY <1>1, <1>4 DEF FieldsPermitted, MetadataSectors
  <2>2. CASE F * Z < Word
    BY <1>2, <1>3, <1>4, <2>2 DEF Fats, Saturated, MetadataSectors
  <2>3. CASE ~(F * Z < Word)
    <3>1. Fats(b) = Word - 1
      BY <2>3 DEF Fats, Saturated
    <3> QED
      BY <1>2, <2>1, <3>1
  <2> QED
    BY <2>2, <2>3
<1>6. R + F * Z < Word /\ R + F * Z < T /\ T <= x.sector_count
  BY <1>1, <1>5 DEF FieldsPermitted, Usable
<1>7. FirstDataSector(b) = R + F * Z
  <2>1. (F * Z) % Word = F * Z
    BY <1>2, <1>3, <1>5, ModSmall
  <2>2. (R + F * Z) % Word = R + F * Z
    <3>1. R + F * Z \in Nat
      BY <1>2, <1>3
    <3> QED
      BY <1>2, <1>6, <3>1, ModSmall
  <2>3. FirstDataSector(b) = (R + F * Z + 0) % Word
    BY <1>4, <2>1 DEF FirstDataSector
  <2>4. R + F * Z + 0 = R + F * Z
    BY <1>2, <1>3
  <2> QED
    BY <2>2, <2>3, <2>4
<1>8. /\ ClusterCount(b) \in Nat
      /\ R + F * Z + ClusterCount(b) * b.sectors_per_cluster <= x.sector_count
  <2>1. DataSectors(b) = T - (R + F * Z) /\ DataSectors(b) \in Nat
    BY <1>2, <1>3, <1>5, <1>6 DEF DataSectors
  <2>2. ClusterCount(b) \in Nat
        /\ ClusterCount(b) * b.sectors_per_cluster <= DataSectors(b)
    BY <1>1, <2>1, DivFits DEF ClusterCount
  <2>3. ClusterCount(b) * b.sectors_per_cluster \in Nat
    BY <1>1, <2>2, SMT
  <2> QED
    BY <1>2, <1>3, <1>6, <2>1, <2>2, <2>3
<1>9. (ClusterCount(b) + FirstDataCluster) * EntryBytes <= Z * SectorSize
  <2>1. Z * SectorSize >= (ClusterCount(b) + FirstDataCluster) * EntryBytes
    BY <1>1 DEF Usable, RequiredBytes
  <2>2. Z * SectorSize \in Nat /\ (ClusterCount(b) + FirstDataCluster) * EntryBytes \in Nat
    BY <1>1, <1>2, <1>8, LayoutAssumption, SMT DEF FirstDataCluster
  <2> QED
    BY <2>1, <2>2
<1>10. FatIndex(b) \in Nat /\ FatIndex(b) < F
  BY <1>1, <1>2 DEF FatIndex, Usable, ActiveFatExists
<1> QED
  BY <1>1, <1>2, <1>3, <1>7, <1>8, <1>9, <1>10

\* FatAt, of a record and an extent.
At(b, x, f) == x.start_lba + b.reserved_sectors + f * FatSize(b)

\* An allocation entry lies in its FAT, which lies in the extent.
LEMMA FatReadBounds ==
  ASSUME NEW b \in Boot, NEW x \in Extent, Accepted(b, x), NEW c \in Nat, InRange(b, c)
  PROVE  LET r == FatRead(b, x, c) IN
         /\ r.offset \in Nat /\ r.bytes \in Nat
         /\ r.offset = At(b, x, FatIndex(b)) * SectorSize + c * EntryBytes
         /\ r.offset + r.bytes <= At(b, x, FatIndex(b) + 1) * SectorSize
         /\ At(b, x, FatIndex(b) + 1) <= At(b, x, b.fat_count)
         /\ At(b, x, b.fat_count) <= x.start_lba + x.sector_count
<1> DEFINE f == FatIndex(b)
           Z == FatSize(b)
           S == SectorSize
           base == At(b, x, f)
           N == ClusterCount(b)
<1>1. /\ b.bytes_per_sector = S /\ S \in Nat \ {0}
      /\ b.reserved_sectors \in Nat /\ b.fat_count \in Nat /\ Z \in Nat
      /\ x.start_lba \in Nat /\ x.sector_count \in Nat /\ N \in Nat
      /\ (N + FirstDataCluster) * EntryBytes <= Z * S
      /\ f \in Nat /\ f < b.fat_count /\ EntryBytes \in Nat
      /\ b.sectors_per_cluster \in Nat
      /\ FirstDataSector(b) = b.reserved_sectors + b.fat_count * Z
      /\ FirstDataSector(b) + N * b.sectors_per_cluster <= x.sector_count
  BY Sound, LayoutAssumption
<1>2. f * Z \in Nat /\ b.fat_count * Z \in Nat /\ f * Z + Z <= b.fat_count * Z
  BY <1>1, PartsFit
<1>3. base \in Nat /\ At(b, x, f + 1) = base + Z
  <2>1. (f + 1) * Z = f * Z + Z
    BY <1>1, SMT
  <2> QED
    BY <1>1, <1>2, <2>1 DEF At
<1>4. c * EntryBytes \in Nat /\ c * EntryBytes + EntryBytes <= Z * S /\ Z * S \in Nat
  <2>1. c < N + FirstDataCluster /\ N + FirstDataCluster \in Nat
    BY <1>1 DEF InRange, FirstDataCluster
  <2>2. c * EntryBytes \in Nat /\ (N + FirstDataCluster) * EntryBytes \in Nat
        /\ c * EntryBytes + EntryBytes <= (N + FirstDataCluster) * EntryBytes
    BY <1>1, <2>1, PartsFit
  <2>3. Z * S \in Nat
    BY <1>1, SMT
  <2> QED
    BY <1>1, <2>2, <2>3
<1>5. FatRead(b, x, c).offset = base * S + c * EntryBytes /\ FatRead(b, x, c).bytes = EntryBytes
  <2>1. f * Z + b.reserved_sectors + x.start_lba = base
    BY <1>1, <1>2 DEF At
  <2> QED
    BY <1>1, <2>1 DEF FatRead, FatEntryOffset
<1>6. (base + Z) * S = base * S + Z * S /\ base * S \in Nat
  <2>1. base * S \in Nat
    BY <1>1, <1>3, BytesMonotone
  <2> QED
    BY <1>1, <1>3, <2>1, BytesOfSum
<1>7. base + Z <= At(b, x, b.fat_count)
  BY <1>1, <1>2 DEF At
<1>8. At(b, x, b.fat_count) <= x.start_lba + x.sector_count
  <2>1. N * b.sectors_per_cluster \in Nat
    BY <1>1, SMT
  <2> QED
    BY <1>1, <1>2, <2>1 DEF At
<1> HIDE DEF base, S, Z, f
<1>9. FatRead(b, x, c).offset + FatRead(b, x, c).bytes <= At(b, x, f + 1) * S
  BY <1>1, <1>3, <1>4, <1>5, <1>6
<1>10. FatRead(b, x, c).offset \in Nat /\ FatRead(b, x, c).bytes \in Nat
  BY <1>1, <1>4, <1>5, <1>6
<1> QED
  BY <1>3, <1>5, <1>7, <1>8, <1>9, <1>10 DEF base, S, Z, f

\* A cluster lies behind the last FAT and in the extent.
LEMMA DataReadBounds ==
  ASSUME NEW b \in Boot, NEW x \in Extent, Accepted(b, x), NEW c \in Nat, InRange(b, c)
  PROVE  LET r == DataRead(b, x, c) IN
         /\ r.offset \in Nat /\ r.bytes \in Nat
         /\ r.bytes = ClusterBytes(b)
         /\ r.offset = At(b, x, b.fat_count) * SectorSize
                         + (c - FirstDataCluster) * ClusterBytes(b)
         /\ At(b, x, b.fat_count) * SectorSize <= r.offset
         /\ r.offset + r.bytes <= (x.start_lba + x.sector_count) * SectorSize
<1> DEFINE P == b.sectors_per_cluster
           S == SectorSize
           base == At(b, x, b.fat_count)
           N == ClusterCount(b)
           k == c - FirstDataCluster
<1>1. /\ b.bytes_per_sector = S /\ S \in Nat \ {0} /\ P \in Nat \ {0}
      /\ b.reserved_sectors \in Nat /\ b.fat_count \in Nat /\ FatSize(b) \in Nat
      /\ b.fat_count * FatSize(b) \in Nat
      /\ x.start_lba \in Nat /\ x.sector_count \in Nat /\ N \in Nat
      /\ FirstDataSector(b) = b.reserved_sectors + b.fat_count * FatSize(b)
      /\ FirstDataSector(b) + N * P <= x.sector_count
  BY Sound
<1>2. k \in Nat /\ k < N
  BY <1>1 DEF InRange, FirstDataCluster
<1>3. k * P \in Nat /\ N * P \in Nat /\ k * P + P <= N * P
  BY <1>1, <1>2, PartsFit
<1>4. base \in Nat /\ base = x.start_lba + FirstDataSector(b)
  BY <1>1 DEF At
<1>5. k * P + x.start_lba + FirstDataSector(b) = base + k * P
  BY <1>1, <1>3, <1>4
<1>6. DataRead(b, x, c).offset = (base + k * P) * S /\ DataRead(b, x, c).bytes = S * P
  BY <1>1, <1>5 DEF DataRead, ClusterOffset, ClusterBytes
<1>7. ClusterBytes(b) = S * P
  BY <1>1 DEF ClusterBytes
<1>8. base + k * P + P <= x.start_lba + x.sector_count
  <2> HIDE DEF base, k
  <2>1. FirstDataSector(b) \in Nat
    BY <1>1
  <2> QED
    BY <1>1, <1>3, <1>4, <2>1
<1> HIDE DEF base, S, P, N, k
<1>9. /\ (base + k * P) * S = base * S + (k * P) * S
      /\ (base + k * P + P) * S = (base + k * P) * S + P * S
      /\ base * S \in Nat /\ (k * P) * S \in Nat /\ P * S = S * P /\ P * S \in Nat
      /\ (k * P) * S = k * (S * P)
  <2>1. base + k * P \in Nat
    BY <1>3, <1>4
  <2>2. base * S \in Nat /\ (k * P) * S \in Nat /\ P * S \in Nat
    BY <1>1, <1>3, <1>4, BytesMonotone
  <2>3. P * S = S * P /\ (k * P) * S = k * (S * P)
    BY <1>1, <1>2, SMT
  <2> QED
    BY <1>1, <1>3, <1>4, <2>1, <2>2, <2>3, BytesOfSum
<1>10. (base + k * P + P) * S <= (x.start_lba + x.sector_count) * S
  BY <1>1, <1>3, <1>4, <1>8, BytesMonotone
<1>11. (x.start_lba + x.sector_count) * S \in Nat
  BY <1>1, BytesMonotone
<1> QED
  BY <1>6, <1>7, <1>9, <1>10, <1>11 DEF base, S, P, N, k

----------------------------------------------------------------------------
(***************************************************************************)
(* The invariant: a read is of a cluster in range of an accepted volume.   *)
(***************************************************************************)

Made(r, b, x, st) ==
  \/ r = NotRead
  \/ /\ st = "fat32"
     /\ \E c \in Nat : InRange(b, c) /\ r \in {DataRead(b, x, c), FatRead(b, x, c)}

LayoutInv ==
  /\ boot \in Boot /\ extent \in Extent
  /\ step \in {"record", "unidentified", "unsupported", "refused", "fat32"}
  /\ step = "fat32" => Accepted(boot, extent)
  /\ Made(last, boot, extent, step)
  /\ Made(previous, boot, extent, step)
  /\ last = NotRead => previous = NotRead

\* Only the checks lead to reads, and nothing of the volume changes after them.
LEMMA LayoutCorrect == Spec => []LayoutInv
<1>1. Init => LayoutInv
  BY DEF Init, Start, LayoutInv, Made
<1>2. LayoutInv /\ [Next]_vars => LayoutInv'
  <2> SUFFICES ASSUME LayoutInv, [Next]_vars PROVE LayoutInv'
    OBVIOUS
  <2>1. CASE NotFat32 \/ Refuse \/ Validated
    <3>1. step = "record" /\ UNCHANGED <<boot, extent, last, previous>>
      BY <2>1 DEF NotFat32, Refuse, Validated, Examine
    <3>2. last = NotRead /\ previous = NotRead
      BY <3>1 DEF LayoutInv, Made
    <3>3. step' \in {"unidentified", "unsupported", "refused", "fat32"}
      BY <2>1 DEF NotFat32, Refuse, Validated, Examine, Identified
    <3>4. step' = "fat32" => Accepted(boot, extent)
      BY <2>1 DEF NotFat32, Refuse, Validated, Examine, Accepted
    <3> QED
      BY <3>1, <3>2, <3>3, <3>4 DEF LayoutInv, Made
  <2>2. CASE ReadCluster \/ ReadFatEntry
    <3>1. PICK c \in FirstDataCluster .. Word :
            /\ InRange(boot, c)
            /\ Reads(DataRead(boot, extent, c)) \/ Reads(FatRead(boot, extent, c))
      BY <2>2 DEF ReadCluster, ReadFatEntry
    <3>2. c \in Nat /\ step = "fat32"
      BY <2>2, LayoutAssumption DEF FirstDataCluster, ReadCluster, ReadFatEntry
    <3>3. UNCHANGED <<boot, extent, step>> /\ previous' = last
          /\ last' \in {DataRead(boot, extent, c), FatRead(boot, extent, c)}
      BY <3>1 DEF Reads
    <3>4. last' # NotRead
      BY <3>3 DEF DataRead, FatRead, NotRead
    <3> QED
      BY <3>1, <3>2, <3>3, <3>4 DEF LayoutInv, Made
  <2>3. CASE UNCHANGED vars
    BY <2>3 DEF vars, LayoutInv
  <2> QED
    BY <2>1, <2>2, <2>3 DEF Next, Done
<1> QED
  BY <1>1, <1>2, PTL DEF Spec

----------------------------------------------------------------------------
(***************************************************************************)
(* The theorems.                                                           *)
(***************************************************************************)

\* What is read is well typed, of one of the volume's clusters.
LEMMA ReadType ==
  ASSUME NEW r, NEW b \in Boot, NEW x \in Extent, NEW st,
         st = "fat32" => Accepted(b, x), Made(r, b, x, st)
  PROVE  /\ r \in Read
         /\ r.region # "none" => r.cluster - FirstDataCluster < ClusterCount(b)
<1>1. CASE r = NotRead
  BY <1>1, LayoutAssumption DEF NotRead, Read, Number, FirstDataCluster
<1>2. CASE r # NotRead
  <2>1. PICK c \in Nat : InRange(b, c) /\ r \in {DataRead(b, x, c), FatRead(b, x, c)}
    BY <1>2 DEF Made
  <2>2. Accepted(b, x)
    BY <1>2 DEF Made
  <2>3. c - FirstDataCluster < ClusterCount(b) /\ ClusterCount(b) \in Nat
    BY <2>1, <2>2, Sound DEF InRange, FirstDataCluster
  <2>4. FatIndex(b) \in Number /\ 0 \in Number
    BY <2>2, Sound, LayoutAssumption DEF Boot, Number
  <2>5. CASE r = DataRead(b, x, c)
    <3>1. r.offset \in Nat /\ r.bytes \in Nat
      BY <2>1, <2>2, <2>5, DataReadBounds
    <3> QED
      BY <2>3, <2>4, <2>5, <3>1 DEF DataRead, Read
  <2>6. CASE r = FatRead(b, x, c)
    <3>1. r.offset \in Nat /\ r.bytes \in Nat
      BY <2>1, <2>2, <2>6, FatReadBounds
    <3> QED
      BY <2>3, <2>4, <2>6, <3>1 DEF FatRead, Read
  <2> QED
    BY <2>1, <2>5, <2>6
<1> QED
  BY <1>1, <1>2

\* Whatever the boot record says, every read is of one of its data clusters.
THEOREM LayoutTypeCorrect == Spec => []TypeOK
<1>1. LayoutInv => TypeOK
  BY ReadType DEF LayoutInv, TypeOK
<1> QED
  BY <1>1, LayoutCorrect, PTL

\* Whatever the boot record says, nothing outside the partition is read.
THEOREM ReadsInsideCorrect == Spec => []ReadsInsideVolume
<1>1. LayoutInv => ReadsInsideVolume
  <2> SUFFICES ASSUME LayoutInv, last.region # "none"
               PROVE  /\ extent.start_lba * SectorSize <= last.offset
                      /\ last.offset + last.bytes
                           <= (extent.start_lba + extent.sector_count) * SectorSize
    BY DEF ReadsInsideVolume
  <2> DEFINE b == boot
             x == extent
             S == SectorSize
  <2>1. b \in Boot /\ x \in Extent
    BY DEF LayoutInv
  <2>2. PICK c \in Nat : InRange(b, c) /\ last \in {DataRead(b, x, c), FatRead(b, x, c)}
    BY DEF LayoutInv, Made, NotRead
  <2>3. Accepted(b, x)
    BY DEF LayoutInv, Made, NotRead
  <2>4. /\ S \in Nat /\ x.start_lba \in Nat /\ x.sector_count \in Nat
        /\ b.reserved_sectors \in Nat /\ FatSize(b) \in Nat
        /\ b.fat_count \in Nat /\ FatIndex(b) \in Nat /\ EntryBytes \in Nat
    BY <2>1, <2>3, Sound, LayoutAssumption
  <2>5. \A f \in Nat : /\ At(b, x, f) \in Nat /\ x.start_lba <= At(b, x, f)
                       /\ At(b, x, f) * S \in Nat /\ x.start_lba * S <= At(b, x, f) * S
    <3> TAKE f \in Nat
    <3>1. f * FatSize(b) \in Nat
      BY <2>4, BytesMonotone
    <3>2. At(b, x, f) \in Nat /\ x.start_lba <= At(b, x, f)
      BY <2>4, <3>1 DEF At
    <3> QED
      BY <2>4, <3>2, BytesMonotone
  <2>6. CASE last = DataRead(b, x, c)
    <3>1. /\ At(b, x, b.fat_count) * S <= last.offset /\ last.offset \in Nat
          /\ last.offset + last.bytes <= (x.start_lba + x.sector_count) * S
      BY <2>1, <2>2, <2>3, <2>6, DataReadBounds
    <3>2. x.start_lba * S <= At(b, x, b.fat_count) * S /\ At(b, x, b.fat_count) * S \in Nat
          /\ x.start_lba * S \in Nat
      BY <2>4, <2>5, BytesMonotone
    <3> QED
      BY <3>1, <3>2
  <2>7. CASE last = FatRead(b, x, c)
    <3> DEFINE f == FatIndex(b)
    <3>1. /\ last.offset = At(b, x, f) * S + c * EntryBytes
          /\ last.offset \in Nat /\ last.bytes \in Nat
          /\ last.offset + last.bytes <= At(b, x, f + 1) * S
          /\ At(b, x, f + 1) <= At(b, x, b.fat_count)
          /\ At(b, x, b.fat_count) <= x.start_lba + x.sector_count
      BY <2>1, <2>2, <2>3, <2>7, FatReadBounds
    <3>2. /\ x.start_lba * S <= At(b, x, f) * S /\ At(b, x, f) * S \in Nat
          /\ x.start_lba * S \in Nat /\ c * EntryBytes \in Nat
      BY <2>4, <2>5, BytesMonotone
    <3>3. At(b, x, f + 1) <= x.start_lba + x.sector_count /\ At(b, x, f + 1) \in Nat
      <4>1. f + 1 \in Nat
        BY <2>4
      <4>2. At(b, x, f + 1) \in Nat /\ At(b, x, b.fat_count) \in Nat
        BY <2>4, <2>5, <4>1
      <4> QED
        BY <2>4, <3>1, <4>2
    <3>4. At(b, x, f + 1) * S <= (x.start_lba + x.sector_count) * S
          /\ At(b, x, f + 1) * S \in Nat /\ (x.start_lba + x.sector_count) * S \in Nat
      BY <2>4, <3>3, BytesMonotone
    <3> QED
      BY <3>1, <3>2, <3>4
  <2> QED
    BY <2>2, <2>6, <2>7
<1> QED
  BY <1>1, LayoutCorrect, PTL

\* Whatever the boot record says, an allocation entry comes from the FAT that
\* is meant and content from behind the FATs.
THEOREM RegionCorrect == Spec => []ReadsInItsRegion
<1>1. LayoutInv => ReadsInItsRegion
  <2> SUFFICES ASSUME LayoutInv, last # NotRead PROVE ReadsInItsRegion
    BY DEF ReadsInItsRegion, NotRead
  <2> DEFINE b == boot
             x == extent
             S == SectorSize
  <2>1. b \in Boot /\ x \in Extent
    BY DEF LayoutInv
  <2>2. PICK c \in Nat : InRange(b, c) /\ last \in {DataRead(b, x, c), FatRead(b, x, c)}
    BY DEF LayoutInv, Made
  <2>3. Accepted(b, x)
    BY DEF LayoutInv, Made
  <2>4. \A f \in Nat : FatAt(f) = At(b, x, f)
    BY DEF FatAt, At
  <2>5. b.fat_count \in Nat /\ FatIndex(b) \in Nat /\ FatIndex(b) + 1 \in Nat
        /\ FatIndex(b) < b.fat_count
    BY <2>1, <2>3, Sound
  <2>6. CASE last = DataRead(b, x, c)
    <3>1. At(b, x, b.fat_count) * S <= last.offset
      BY <2>1, <2>2, <2>3, <2>6, DataReadBounds
    <3>2. last.region = "data"
      BY <2>6 DEF DataRead
    <3> QED
      BY <2>4, <2>5, <3>1, <3>2 DEF ReadsInItsRegion, DataAt
  <2>7. CASE last = FatRead(b, x, c)
    <3> DEFINE f == FatIndex(b)
    <3>1. /\ last.offset = At(b, x, f) * S + c * EntryBytes
          /\ last.offset \in Nat
          /\ last.offset + last.bytes <= At(b, x, f + 1) * S
      BY <2>1, <2>2, <2>3, <2>7, FatReadBounds
    <3>2. last.region = "fat" /\ last.fat = f
      BY <2>7 DEF FatRead
    <3>3. At(b, x, f) * S <= last.offset
      <4>1. At(b, x, f) \in Nat
        <5>1. f * FatSize(b) \in Nat /\ x.start_lba \in Nat /\ b.reserved_sectors \in Nat
          BY <2>1, <2>3, Sound, BytesMonotone
        <5> QED
          BY <5>1 DEF At
      <4>2. At(b, x, f) * S \in Nat /\ c * EntryBytes \in Nat
        BY <2>1, <2>3, <4>1, Sound, LayoutAssumption, BytesMonotone
      <4> QED
        BY <3>1, <4>2
    <3>4. FatAt(f) = At(b, x, f) /\ FatAt(f + 1) = At(b, x, f + 1)
      BY <2>4, <2>5
    <3> QED
      BY <2>5, <3>1, <3>2, <3>3, <3>4 DEF ReadsInItsRegion
  <2> QED
    BY <2>2, <2>6, <2>7
<1> QED
  BY <1>1, LayoutCorrect, PTL

\* Two entries of a FAT are apart.
LEMMA FatReadsApart ==
  ASSUME NEW b \in Boot, NEW x \in Extent, Accepted(b, x),
         NEW c \in Nat, NEW d \in Nat, InRange(b, c), InRange(b, d), c < d
  PROVE  FatRead(b, x, c).offset + FatRead(b, x, c).bytes <= FatRead(b, x, d).offset
<1> DEFINE base == At(b, x, FatIndex(b)) * SectorSize
<1>1. base \in Nat
  <2>1. FatIndex(b) * FatSize(b) \in Nat /\ SectorSize \in Nat
        /\ x.start_lba \in Nat /\ b.reserved_sectors \in Nat
    BY Sound, BytesMonotone
  <2>2. At(b, x, FatIndex(b)) \in Nat
    BY <2>1 DEF At
  <2> QED
    BY <2>1, <2>2, BytesMonotone
<1>2. c * EntryBytes \in Nat /\ d * EntryBytes \in Nat
      /\ c * EntryBytes + EntryBytes <= d * EntryBytes /\ EntryBytes \in Nat
  BY PartsFit, LayoutAssumption
<1>3. FatRead(b, x, c).offset = base + c * EntryBytes
      /\ FatRead(b, x, d).offset = base + d * EntryBytes
      /\ FatRead(b, x, c).bytes = EntryBytes
  BY FatReadBounds DEF FatRead
<1> QED
  BY <1>1, <1>2, <1>3

\* Two clusters are apart.
LEMMA DataReadsApart ==
  ASSUME NEW b \in Boot, NEW x \in Extent, Accepted(b, x),
         NEW c \in Nat, NEW d \in Nat, InRange(b, c), InRange(b, d), c < d
  PROVE  DataRead(b, x, c).offset + DataRead(b, x, c).bytes <= DataRead(b, x, d).offset
<1> DEFINE base == At(b, x, b.fat_count) * SectorSize
           w == ClusterBytes(b)
           i == c - FirstDataCluster
           j == d - FirstDataCluster
<1>1. base \in Nat
  <2>1. b.fat_count * FatSize(b) \in Nat /\ SectorSize \in Nat
        /\ x.start_lba \in Nat /\ b.reserved_sectors \in Nat
    BY Sound
  <2>2. At(b, x, b.fat_count) \in Nat
    BY <2>1 DEF At
  <2> QED
    BY <2>1, <2>2, BytesMonotone
<1>2. w \in Nat
  BY Sound, BytesMonotone DEF ClusterBytes
<1>3. i \in Nat /\ j \in Nat /\ i < j
  BY DEF InRange, FirstDataCluster
<1>4. i * w \in Nat /\ j * w \in Nat /\ i * w + w <= j * w
  BY <1>2, <1>3, PartsFit
<1>5. DataRead(b, x, c).offset = base + i * w
      /\ DataRead(b, x, d).offset = base + j * w
      /\ DataRead(b, x, c).bytes = w
  BY DataReadBounds
<1> QED
  BY <1>1, <1>2, <1>4, <1>5

\* An allocation entry lies before every cluster.
LEMMA FatBeforeData ==
  ASSUME NEW b \in Boot, NEW x \in Extent, Accepted(b, x),
         NEW c \in Nat, NEW d \in Nat, InRange(b, c), InRange(b, d)
  PROVE  FatRead(b, x, c).offset + FatRead(b, x, c).bytes <= DataRead(b, x, d).offset
<1> DEFINE f == FatIndex(b)
<1>1. /\ SectorSize \in Nat /\ FatSize(b) \in Nat /\ f \in Nat /\ f + 1 \in Nat
      /\ b.fat_count \in Nat /\ x.start_lba \in Nat /\ b.reserved_sectors \in Nat
  BY Sound
<1>2. (f + 1) * FatSize(b) \in Nat /\ b.fat_count * FatSize(b) \in Nat
  BY <1>1, BytesMonotone
<1>3. At(b, x, f + 1) \in Nat /\ At(b, x, b.fat_count) \in Nat
  BY <1>1, <1>2 DEF At
<1>4. At(b, x, f + 1) * SectorSize <= At(b, x, b.fat_count) * SectorSize
      /\ At(b, x, f + 1) * SectorSize \in Nat /\ At(b, x, b.fat_count) * SectorSize \in Nat
  BY <1>1, <1>3, FatReadBounds, BytesMonotone
<1>5. /\ FatRead(b, x, c).offset + FatRead(b, x, c).bytes <= At(b, x, f + 1) * SectorSize
      /\ FatRead(b, x, c).offset \in Nat /\ FatRead(b, x, c).bytes \in Nat
  BY FatReadBounds
<1>6. At(b, x, b.fat_count) * SectorSize <= DataRead(b, x, d).offset
      /\ DataRead(b, x, d).offset \in Nat
  BY DataReadBounds
<1> QED
  BY <1>4, <1>5, <1>6

\* Whatever the boot record says, no byte is read as part of two things.
THEOREM ApartCorrect == Spec => []ReadsApart
<1>1. LayoutInv => ReadsApart
  <2> SUFFICES ASSUME LayoutInv, previous.region # "none", last # previous
               PROVE  \/ last.offset + last.bytes <= previous.offset
                      \/ previous.offset + previous.bytes <= last.offset
    BY DEF ReadsApart
  <2> DEFINE b == boot
             x == extent
  <2>1. b \in Boot /\ x \in Extent /\ Accepted(b, x)
    BY DEF LayoutInv, Made, NotRead
  <2>2. previous # NotRead /\ last # NotRead
    BY DEF LayoutInv, NotRead
  <2>3. PICK c \in Nat : InRange(b, c) /\ last \in {DataRead(b, x, c), FatRead(b, x, c)}
    BY <2>2 DEF LayoutInv, Made
  <2>4. PICK d \in Nat : InRange(b, d) /\ previous \in {DataRead(b, x, d), FatRead(b, x, d)}
    BY <2>2 DEF LayoutInv, Made
  <2>5. CASE last = DataRead(b, x, c) /\ previous = DataRead(b, x, d)
    <3>1. c < d \/ d < c
      BY <2>5
    <3> QED
      BY <2>1, <2>3, <2>4, <2>5, <3>1, DataReadsApart
  <2>6. CASE last = FatRead(b, x, c) /\ previous = FatRead(b, x, d)
    <3>1. c < d \/ d < c
      BY <2>6
    <3> QED
      BY <2>1, <2>3, <2>4, <2>6, <3>1, FatReadsApart
  <2>7. CASE last = FatRead(b, x, c) /\ previous = DataRead(b, x, d)
    BY <2>1, <2>3, <2>4, <2>7, FatBeforeData
  <2>8. CASE last = DataRead(b, x, c) /\ previous = FatRead(b, x, d)
    BY <2>1, <2>3, <2>4, <2>8, FatBeforeData
  <2> QED
    BY <2>3, <2>4, <2>5, <2>6, <2>7, <2>8
<1> QED
  BY <1>1, LayoutCorrect, PTL
=============================================================================
