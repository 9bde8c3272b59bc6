----------------------------- MODULE ExFatProofs -----------------------------
(***************************************************************************)
(* Theorems about ExFatBootRegion: whatever the bytes at each offset say   *)
(* and whichever read fails, for every set of sector and cluster sizes.    *)
(***************************************************************************)
EXTENDS ExFatBootRegion, TLAPS

----------------------------------------------------------------------------
(***************************************************************************)
(* Arithmetic.                                                             *)
(***************************************************************************)

\* A quotient is the number of whole divisors, no more and no fewer.
LEMMA Division ==
  ASSUME NEW a \in Nat, NEW b \in Nat \ {0}
  PROVE  /\ a \div b \in Nat
         /\ (a \div b) * b <= a
         /\ a < (a \div b) * b + b
         /\ a % b = 0 => a = (a \div b) * b
BY SMT

\* A rounded quotient of sectors has room for all of it.
LEMMA CeilCovers ==
  ASSUME NEW a \in Nat, NEW b \in Nat \ {0}
  PROVE  a <= DivCeil(a, b) * b /\ DivCeil(a, b) \in Nat
<1> DEFINE q == a \div b
<1>1. q \in Nat /\ a < q * b + b /\ (a % b = 0 => a = q * b)
  BY Division
<1>2. (q + 1) * b = q * b + b
  BY <1>1, SMT
<1>3. CASE a % b = 0
  <2>1. DivCeil(a, b) = q
    BY <1>3 DEF DivCeil
  <2>2. q * b \in Nat
    BY <1>1, SMT
  <2> QED
    BY <1>1, <1>3, <2>1, <2>2
<1>4. CASE a % b # 0
  <2>1. DivCeil(a, b) = q + 1
    BY <1>4 DEF DivCeil
  <2>2. q * b \in Nat
    BY <1>1, SMT
  <2> HIDE DEF q
  <2> QED
    BY <1>1, <1>2, <2>1, <2>2
<1> QED
  BY <1>3, <1>4

\* A multiple is at least what it is a multiple of.
LEMMA MultipleAtLeast ==
  ASSUME NEW s \in Nat \ {0}, NEW t \in Nat \ {0}, s % t = 0
  PROVE  s >= t
BY SMT

\* More sectors have more bytes.
LEMMA BytesMonotone ==
  ASSUME NEW a \in Nat, NEW b \in Nat, NEW s \in Nat, a <= b
  PROVE  a * s \in Nat /\ b * s \in Nat /\ a * s <= b * s
BY SMT

----------------------------------------------------------------------------
(***************************************************************************)
(* One region.                                                             *)
(***************************************************************************)

\* The fields of a region of a usable sector size are numbers.
LEMMA FieldTypes ==
  ASSUME NEW r \in BootRegions, r.sector \in SectorSizes
  PROVE  /\ r.sector \in Nat \ {0} /\ r.cluster \in Nat \ {0}
         /\ r.fats \in Nat /\ r.length \in Nat /\ r.fatOffset \in Nat /\ r.fatLength \in Nat
         /\ r.heapOffset \in Nat /\ r.count \in Nat /\ r.root \in Nat
         /\ r.heapOffset <= U32Max /\ U32Max \in Nat
         /\ r.sector >= TableSector /\ TableSector \in Nat \ {0}
<1>1. /\ r.cluster \in ClusterSizes
      /\ r.fats \in Nat /\ r.length \in Nat /\ r.fatOffset \in U32 /\ r.fatLength \in U32
      /\ r.heapOffset \in U32 /\ r.count \in U32 /\ r.root \in U32
  BY DEF BootRegions
<1>2. U32Max \in Nat /\ TableSector \in Nat \ {0}
      /\ r.sector \in Nat \ {0} /\ r.cluster \in Nat \ {0}
  BY <1>1, ExFatGeometryAssumption
<1>3. \A x \in U32 : x \in Nat /\ x <= U32Max
  BY <1>2 DEF U32
<1>4. r.sector % TableSector = 0
  BY ExFatGeometryAssumption
<1>5. r.sector >= TableSector
  BY <1>2, <1>4, MultipleAtLeast
<1> QED
  BY <1>1, <1>2, <1>3, <1>5

\* What validate_region answers, and what an answer says of the region.
LEMMA Validity ==
  ASSUME NEW r \in BootRegions, NEW read \in Nat, NEW which \in {"Main", "Backup"},
         NEW n \in Nat
  PROVE  LET v == ValidateRegion(r, read, which, n) IN
         /\ v \in Refusals \cup {"Ok"}
         /\ v \in {"Ok", "TexFat"} => r.sector \in SectorSizes /\ WellFormed(r, which, n)
         /\ v = "Ok" => r.fats = 1
         /\ r.sector \in SectorSizes /\ read >= RegionSectors * r.sector
              /\ WellFormed(r, which, n) => v \in {"Ok", "TexFat"}
<1> DEFINE v == ValidateRegion(r, read, which, n)
<1>1. CASE read < TableSector
  <2>1. v = "Outside"
    <3>1. ~(read >= TableSector)
      BY <1>1, ExFatGeometryAssumption
    <3> QED
      BY <1>1, <3>1 DEF ValidateRegion
  <2>2. r.sector \in SectorSizes => ~(read >= RegionSectors * r.sector)
    BY <1>1, FieldTypes DEF RegionSectors
  <2> QED
    BY <2>1, <2>2 DEF Refusals
<1>2. CASE read >= TableSector /\ r.sector \notin SectorSizes
  <2>1. ~(read < TableSector)
    BY <1>2, ExFatGeometryAssumption
  <2>2. v = "SectorSize"
    BY <1>2, <2>1 DEF ValidateRegion
  <2> QED
    BY <1>2, <2>2 DEF Refusals
<1>3. CASE read >= TableSector /\ r.sector \in SectorSizes
  <2>1. ~(read < TableSector)
    BY <1>3, ExFatGeometryAssumption
  <2>2. v = IF read < RegionSectors * r.sector THEN "Outside"
            ELSE IF ~WellFormed(r, which, n) THEN "Malformed"
            ELSE IF r.fats = 2 THEN "TexFat" ELSE "Ok"
    BY <1>3, <2>1 DEF ValidateRegion
  <2>3. WellFormed(r, which, n) => r.fats \in {1, 2}
    BY DEF WellFormed
  <2>4. RegionSectors * r.sector \in Nat
    BY <1>3, FieldTypes DEF RegionSectors
  <2> QED
    BY <1>3, <2>2, <2>3, <2>4 DEF Refusals
<1>4. read < TableSector \/ read >= TableSector
  BY ExFatGeometryAssumption
<1> QED
  BY <1>1, <1>2, <1>3, <1>4

\* A region that meets every rule as the main one does so as a backup.
LEMMA AlsoAsBackup ==
  ASSUME NEW r, NEW which, NEW n, WellFormed(r, which, n)
  PROVE  WellFormed(r, "Backup", n)
BY DEF WellFormed

\* The geometry of a region that meets every rule and has one FAT.
LEMMA WellFormedSound ==
  ASSUME NEW r \in BootRegions, r.sector \in SectorSizes, NEW n \in Nat,
         WellFormed(r, "Backup", n)
  PROVE  /\ 2 * RegionSectors <= r.fatOffset
         /\ FatEnd(r) <= r.heapOffset
         /\ HeapEnd(r) <= r.length
         /\ r.length * r.sector <= n * TableSector
         /\ (r.count + 2) * FatEntryBytes <= r.fatLength * r.sector
         /\ r.count # MaxClusterCount => HeapEnd(r) + r.cluster > r.length
         /\ r.root \in 2..(r.count + 1)
<1> DEFINE used == r.count * r.cluster
<1>1. /\ r.sector \in Nat \ {0} /\ r.cluster \in Nat \ {0}
      /\ r.fats \in Nat /\ r.length \in Nat /\ r.fatOffset \in Nat /\ r.fatLength \in Nat
      /\ r.heapOffset \in Nat /\ r.count \in Nat /\ r.root \in Nat /\ U32Max \in Nat
  BY FieldTypes
<1>2. GeometryHolds(r) /\ VolumeBytes(r) <= PartitionBytes(n)
  BY DEF WellFormed
<1>3. 2 * RegionSectors <= r.fatOffset /\ FatEnd(r) <= r.heapOffset
      /\ r.root \in 2..(r.count + 1)
  <2>1. FatEnd(r) \in Nat
    <3>1. r.fatLength * r.fats \in Nat
      BY <1>1, SMT
    <3> QED
      BY <1>1, <3>1 DEF FatEnd
  <2>2. /\ r.fatOffset >= 24 /\ r.heapOffset >= FatEnd(r)
        /\ r.root >= 2 /\ r.root <= r.count + 1
    BY <1>2 DEF GeometryHolds, MinFatOffset
  <2> QED
    BY <1>1, <2>1, <2>2 DEF RegionSectors
<1>4. used \in Nat
  BY <1>1, SMT
<1>5. r.heapOffset > 0
  <2>1. r.fatLength * r.fats \in Nat
    BY <1>1, SMT
  <2>2. r.fatOffset >= 24
    BY <1>2 DEF GeometryHolds, MinFatOffset
  <2>3. r.fatOffset + r.fatLength * r.fats <= r.heapOffset
    BY <1>3 DEF FatEnd
  <2> QED
    BY <1>1, <2>1, <2>2, <2>3
<1>6. used <= r.length /\ r.heapOffset + used <= r.length
  <2>1. r.heapOffset <= HeapLimit(r)
    BY <1>2 DEF GeometryHolds
  <2>2. HeapLimit(r) = AtMost(SaturatingSub(r.length, used), U32Max)
    BY DEF HeapLimit
  <2> HIDE DEF used
  <2>3. SaturatingSub(r.length, used) \in Nat
    BY <1>1, <1>4 DEF SaturatingSub
  <2>4. r.heapOffset <= SaturatingSub(r.length, used)
    BY <1>1, <2>1, <2>2, <2>3 DEF AtMost
  <2> QED
    BY <1>1, <1>4, <1>5, <2>4 DEF SaturatingSub
<1>7. r.count # MaxClusterCount => HeapEnd(r) + r.cluster > r.length
  <2> SUFFICES ASSUME r.count # MaxClusterCount
               PROVE  HeapEnd(r) + r.cluster > r.length
    OBVIOUS
  <2> DEFINE rest == r.length - r.heapOffset
  <2>1. rest \in Nat
    BY <1>1, <1>4, <1>6
  <2>2. r.count = rest \div r.cluster
    BY <1>2 DEF GeometryHolds, ExpectedCount, AtMost
  <2>3. rest < (rest \div r.cluster) * r.cluster + r.cluster
    BY <1>1, <2>1, Division
  <2>4. rest < used + r.cluster
    BY <2>2, <2>3
  <2> HIDE DEF used
  <2>5. HeapEnd(r) = r.heapOffset + used
    BY DEF HeapEnd, used
  <2> QED
    BY <1>1, <1>4, <2>4, <2>5
<1>8. (r.count + 2) * FatEntryBytes <= r.fatLength * r.sector
  <2> DEFINE bytes == (r.count + 2) * FatEntryBytes
             least == DivCeil(bytes, r.sector)
  <2>1. bytes \in Nat
    BY <1>1 DEF FatEntryBytes
  <2>2. bytes <= least * r.sector /\ least \in Nat
    BY <1>1, <2>1, CeilCovers
  <2>3. least <= r.fatLength
    <3>1. r.fatLength >= MinimumFatLength(r)
      BY <1>2 DEF GeometryHolds
    <3>2. MinimumFatLength(r) = least
      BY DEF MinimumFatLength
    <3> HIDE DEF least
    <3> QED
      BY <1>1, <2>2, <3>1, <3>2
  <2> HIDE DEF bytes, least
  <2>4. least * r.sector \in Nat /\ r.fatLength * r.sector \in Nat
        /\ least * r.sector <= r.fatLength * r.sector
    BY <1>1, <2>2, <2>3, BytesMonotone
  <2>5. bytes <= r.fatLength * r.sector
    BY <2>1, <2>2, <2>4
  <2> QED
    BY <2>5 DEF bytes
<1>9. r.length * r.sector <= n * TableSector
  BY <1>2 DEF VolumeBytes, PartitionBytes
<1> QED
  BY <1>3, <1>6, <1>7, <1>8, <1>9 DEF HeapEnd

----------------------------------------------------------------------------
(***************************************************************************)
(* The inductive invariant.                                                *)
(***************************************************************************)

\* The sector size is usable once a region is read by it, and there is no answer
\* and nothing found before there may be.
Phases ==
  /\ phase \in {"main", "backup"} => HeadSize \in SectorSizes
  /\ phase # "done" => result = NotYet
  /\ phase \in {"head", "main", "backup"} => passed = {}

\* Of the sizes the search is done with, those found are the acceptable ones.
Searched ==
  phase = "search" =>
    /\ \A s \in SectorSizes \ untried : Acceptable(s) => s \in PassedSizes
    /\ \A p \in passed : Acceptable(p[1])

\* Every region that was found answered to all rules.
FoundOnes ==
  \A p \in passed : p[2] = "Ok" => disk[RegionBytes(p[1])].fats = 1

\* What holds of an answer.
SoundAnswer(x) ==
  x.kind = "BootSector" =>
    /\ x.fields \in BootRegions
    /\ x.fields.sector \in SectorSizes
    /\ WellFormed(x.fields, "Backup", sectors)
    /\ x.fields.fats = 1
    /\ x.shorter <=> VolumeBytes(x.fields) < Available

CompleteAnswer(x) ==
  /\ x.kind = "BootSector" => (x.located_by_search =>
       {s \in SectorSizes : Acceptable(s)} = {x.fields.sector})
  /\ x.kind = "Rejected" => \A s \in SectorSizes : ~Acceptable(s)
  /\ x.kind = "AmbiguousBackup" =>
       /\ x.sizes = {s \in SectorSizes : Acceptable(s)}
       /\ \E s, t \in x.sizes : s # t

IInv ==
  /\ TypeOK
  /\ Phases /\ Searched /\ FoundOnes
  /\ SoundAnswer(result) /\ CompleteAnswer(result)
  /\ ReadsInsidePartition
  /\ FailureIsTheAnswer

----------------------------------------------------------------------------

LEMMA SizeTypes ==
  /\ TableSector \in Nat \ {0}
  /\ \A s \in SectorSizes : /\ s \in Nat \ {0} /\ RegionBytes(s) \in Nat \ {0}
                            /\ RegionBytes(s) \in Offsets /\ RegionBytes(s) >= TableSector
                            /\ RegionBytes(s) = RegionSectors * s
  /\ 0 \in Offsets /\ Offsets \subseteq Nat
  /\ \A n \in Nat : n * TableSector \in Nat
<1>1. TableSector \in Nat \ {0} /\ SectorSizes \subseteq Nat \ {0}
  BY ExFatGeometryAssumption
<1>2. ASSUME NEW s \in SectorSizes
      PROVE  /\ s \in Nat \ {0} /\ RegionBytes(s) \in Nat \ {0}
             /\ RegionBytes(s) \in Offsets /\ RegionBytes(s) >= TableSector
             /\ RegionBytes(s) = RegionSectors * s
  <2>1. s \in Nat \ {0} /\ s % TableSector = 0
    BY <1>1, ExFatGeometryAssumption
  <2>2. s >= TableSector
    BY <1>1, <2>1, MultipleAtLeast
  <2> QED
    BY <1>1, <2>1, <2>2 DEF RegionBytes, RegionSectors, Offsets
<1>3. 0 \in Offsets /\ Offsets \subseteq Nat
  BY <1>2 DEF Offsets
<1>4. \A n \in Nat : n * TableSector \in Nat
  BY <1>1, SMT
<1> QED
  BY <1>1, <1>2, <1>3, <1>4

\* An accepted region as an answer.
LEMMA BootSectorAnswer ==
  ASSUME TypeOK, NEW w \in {"Main", "Backup"}, NEW at \in Offsets, NEW b \in BOOLEAN,
         disk[at].sector \in SectorSizes, WellFormed(disk[at], w, sectors), disk[at].fats = 1
  PROVE  /\ BootSector(w, at, b) \in Results
         /\ SoundAnswer(BootSector(w, at, b))
         /\ BootSector(w, at, b).kind = "BootSector"
         /\ BootSector(w, at, b).located_by_search = b
         /\ BootSector(w, at, b).fields = disk[at]
<1> DEFINE x == BootSector(w, at, b)
<1>1. disk[at] \in BootRegions
  BY DEF TypeOK
<1>2. (VolumeBytes(disk[at]) < Available) \in BOOLEAN /\ (w = "Main") \in BOOLEAN
  OBVIOUS
<1>3. x \in [kind : {"BootSector"}, region : {"Main", "Backup"}, at : Offsets,
              fields : BootRegions, main_only : BOOLEAN, shorter : BOOLEAN,
              located_by_search : BOOLEAN]
  BY <1>1, <1>2 DEF BootSector
<1>4. x \in Results
  BY <1>3 DEF Results
<1>5. /\ x.kind = "BootSector" /\ x.located_by_search = b /\ x.fields = disk[at]
      /\ x.shorter = (VolumeBytes(disk[at]) < Available)
  BY DEF BootSector
<1>6. WellFormed(disk[at], "Backup", sectors)
  BY AlsoAsBackup
<1> HIDE DEF x
<1>7. SoundAnswer(x)
  BY <1>1, <1>5, <1>6 DEF SoundAnswer
<1> QED
  BY <1>4, <1>5, <1>7 DEF x

\* The verdict on the region at an offset.
LEMMA VerdictAt ==
  ASSUME TypeOK, NEW at \in Offsets, NEW bytes \in Nat, NEW w \in {"Main", "Backup"}
  PROVE  /\ Validated(at, bytes, w) \in Refusals \cup {"Ok"}
         /\ Validated(at, bytes, w) \in {"Ok", "TexFat"} =>
              disk[at].sector \in SectorSizes /\ WellFormed(disk[at], w, sectors)
         /\ Validated(at, bytes, w) = "Ok" => disk[at].fats = 1
         /\ disk[at].sector \in SectorSizes /\ bytes >= RegionSectors * disk[at].sector
              /\ WellFormed(disk[at], w, sectors) => Validated(at, bytes, w) \in {"Ok", "TexFat"}
<1>1. disk[at] \in BootRegions /\ sectors \in Nat
  BY DEF TypeOK
<1> QED
  BY <1>1, Validity DEF Validated

\* The reads a step adds.
LookedInside == reads' \subseteq Offsets \X Nat /\ ReadsInsidePartition'

\* A read of a region that ends inside the partition is one of those.
LEMMA ReadInside ==
  ASSUME TypeOK, ReadsInsidePartition, NEW at \in Offsets, NEW bytes \in Nat,
         EndOfRegion(at, bytes) <= Available, UNCHANGED evidence,
         reads' = reads \cup {<<at, bytes>>}
  PROVE  LookedInside
<1>1. reads \subseteq Offsets \X Nat
  BY DEF TypeOK
<1>2. at + bytes <= sectors * TableSector
  BY DEF EndOfRegion, Available, PartitionBytes
<1>3. sectors' = sectors
  BY DEF evidence
<1>4. \A x \in reads' : x[1] + x[2] <= sectors' * TableSector
  BY <1>2, <1>3 DEF ReadsInsidePartition
<1>5. reads' \subseteq Offsets \X Nat
  BY <1>1
<1> QED
  BY <1>4, <1>5 DEF LookedInside, ReadsInsidePartition

LEMMA NoReadInside ==
  ASSUME TypeOK, ReadsInsidePartition, NoRead
  PROVE  LookedInside
BY DEF TypeOK, ReadsInsidePartition, NoRead, evidence, LookedInside

\* Where nothing was returned yet, nothing failed.
LEMMA NothingFailed ==
  ASSUME IInv, phase # "done"
  PROVE  result = NotYet /\ failed = FALSE
BY DEF IInv, Phases, FailureIsTheAnswer, TypeOK, NotYet, Unreadable

\* An answer that is right leaves the invariant.
LEMMA Answered ==
  ASSUME IInv, NEW x \in Results, Return(x), SoundAnswer(x), CompleteAnswer(x),
         UNCHANGED evidence, LookedInside, failed' \in BOOLEAN, failed' <=> x = Unreadable
  PROVE  IInv'
<1>1. /\ phase' = "done" /\ result' = x /\ disk' = disk /\ sectors' = sectors
      /\ errors' = errors /\ untried' = untried /\ passed' = passed
  BY DEF Return, evidence
<1>2. TypeOK'
  BY <1>1 DEF IInv, TypeOK, LookedInside
<1>3. Phases' /\ Searched'
  BY <1>1 DEF Phases, Searched
<1>4. FoundOnes'
  BY <1>1 DEF IInv, FoundOnes
<1>5. SoundAnswer(result)'
  BY <1>1 DEF SoundAnswer, Available
<1>6. CompleteAnswer(result)'
  BY <1>1 DEF CompleteAnswer, Acceptable, Available
<1>7. FailureIsTheAnswer'
  BY <1>1 DEF FailureIsTheAnswer, Unreadable
<1> QED
  BY <1>2, <1>3, <1>4, <1>5, <1>6, <1>7 DEF IInv, LookedInside

\* So does a step to another phase.
LEMMA Moved ==
  ASSUME IInv, phase # "done", UNCHANGED <<evidence, result, failed>>, LookedInside,
         phase' \in {"main", "backup", "search"},
         errors' \in [main : Refusals, backup : Refusals],
         untried' \subseteq SectorSizes, passed' \subseteq SectorSizes \X {"Ok", "TexFat"},
         Phases', Searched', FoundOnes'
  PROVE  IInv'
<1>1. /\ result' = result /\ disk' = disk /\ sectors' = sectors /\ failed' = failed
      /\ result = NotYet /\ failed = FALSE
  BY NothingFailed DEF evidence
<1>2. TypeOK'
  BY <1>1 DEF IInv, TypeOK, LookedInside
<1>3. SoundAnswer(result)' /\ CompleteAnswer(result)'
  BY <1>1 DEF SoundAnswer, CompleteAnswer, NotYet
<1>4. FailureIsTheAnswer'
  BY <1>1 DEF FailureIsTheAnswer, NotYet, Unreadable
<1> QED
  BY <1>2, <1>3, <1>4 DEF IInv, LookedInside

\* A failing read of a region inside the partition is such an answer.
LEMMA Failing ==
  ASSUME IInv, NEW at \in Offsets, NEW bytes \in Nat, EndOfRegion(at, bytes) <= Available,
         ReadFails(at, bytes)
  PROVE  IInv'
<1>1. /\ UNCHANGED evidence /\ reads' = reads \cup {<<at, bytes>>} /\ failed' = TRUE
      /\ Return(Unreadable)
  BY DEF ReadFails
<1>2. LookedInside
  BY <1>1, ReadInside DEF IInv
<1>3. Unreadable \in Results
  BY DEF Results
<1>4. SoundAnswer(Unreadable) /\ CompleteAnswer(Unreadable)
  BY DEF SoundAnswer, CompleteAnswer, Unreadable
<1> QED
  BY <1>1, <1>2, <1>3, <1>4, Answered

\* Two FATs are an answer at once.
LEMMA TexFatAnswer ==
  ASSUME NEW w \in {"Main", "Backup"}
  PROVE  /\ TexFat(w) \in Results /\ TexFat(w) # Unreadable
         /\ SoundAnswer(TexFat(w)) /\ CompleteAnswer(TexFat(w))
<1>1. TexFat(w).kind = "TexFat" /\ Unreadable.kind = "Unreadable"
  BY DEF TexFat, Unreadable
<1>2. TexFat(w) \in Results
  BY DEF Results
<1> QED
  BY <1>1, <1>2 DEF SoundAnswer, CompleteAnswer

----------------------------------------------------------------------------
(***************************************************************************)
(* Every step preserves it.                                                *)
(***************************************************************************)

\* A region that starts where it should and passes is one to be accepted, and
\* the other way round.
LEMMA PassesIfAcceptable ==
  ASSUME TypeOK, NEW s \in SectorSizes, EndOfRegion(RegionBytes(s), RegionBytes(s)) <= Available
  PROVE  LET v == Validated(RegionBytes(s), RegionBytes(s), "Backup") IN
         Acceptable(s) <=> disk[RegionBytes(s)].sector = s /\ v \in {"Ok", "TexFat"}
<1> DEFINE at == RegionBytes(s)
<1>1. at \in Offsets /\ at \in Nat /\ at = RegionSectors * s
  BY SizeTypes
<1>2. 2 * at <= Available
  <2>1. Available \in Nat
    BY SizeTypes DEF TypeOK, Available, PartitionBytes
  <2> HIDE DEF at
  <2> QED
    BY <1>1, <2>1 DEF EndOfRegion, at
<1>3. CASE disk[at].sector = s
  <2>1. at >= RegionSectors * disk[at].sector
    BY <1>1, <1>3
  <2>2. WellFormed(disk[at], "Backup", sectors) <=> Validated(at, at, "Backup") \in {"Ok", "TexFat"}
    BY <1>1, <1>3, <2>1, VerdictAt
  <2> QED
    BY <1>2, <1>3, <2>2 DEF Acceptable
<1>4. CASE disk[at].sector # s
  BY <1>4 DEF Acceptable
<1> QED
  BY <1>3, <1>4

\* Past the partition's end there is nothing acceptable.
LEMMA OutsideIsNone ==
  ASSUME TypeOK, NEW s \in SectorSizes, EndOfRegion(RegionBytes(s), RegionBytes(s)) > Available
  PROVE  ~Acceptable(s)
<1>1. RegionBytes(s) \in Nat /\ Available \in Nat
  BY SizeTypes DEF TypeOK, Available, PartitionBytes
<1> QED
  BY <1>1 DEF EndOfRegion, Acceptable

LEMMA EmptyPartitionKeeps == ASSUME IInv, EmptyPartition PROVE IInv'
<1> DEFINE x == Rejected([main |-> "Outside", backup |-> "Outside"])
<1>1. x \in Results /\ x.kind = "Rejected"
  BY DEF Results, Rejected, Refusals
<1>2. \A s \in SectorSizes : ~Acceptable(s)
  <2>1. ASSUME NEW s \in SectorSizes
        PROVE  ~Acceptable(s)
    <3>1. Available < TableSector /\ Available \in Nat
      BY SizeTypes DEF IInv, TypeOK, EmptyPartition, Available, PartitionBytes
    <3>2. RegionBytes(s) \in Nat /\ RegionBytes(s) >= TableSector /\ TableSector \in Nat
      BY SizeTypes
    <3> QED
      BY <3>1, <3>2 DEF Acceptable
  <2> QED
    BY <2>1
<1>3. NoRead /\ Return(x) /\ phase = "head" /\ UNCHANGED <<evidence, failed>>
  BY DEF EmptyPartition, NoRead
<1> HIDE DEF x
<1>4. SoundAnswer(x) /\ CompleteAnswer(x) /\ x # Unreadable
  BY <1>1, <1>2 DEF SoundAnswer, CompleteAnswer, Unreadable
<1>5. LookedInside
  BY <1>3, NoReadInside DEF IInv
<1>6. failed' = FALSE
  BY <1>3, NothingFailed
<1> QED
  BY <1>1, <1>3, <1>4, <1>5, <1>6, Answered

LEMMA ReadHeadKeeps == ASSUME IInv, ReadHead PROVE IInv'
<1>1. phase = "head" /\ Available >= TableSector /\ passed = {} /\ 0 \in Offsets /\ TableSector \in Nat
  BY SizeTypes DEF IInv, ReadHead, Phases
<1>2. EndOfRegion(0, TableSector) <= Available
  BY <1>1, SizeTypes DEF IInv, TypeOK, EndOfRegion, Available, PartitionBytes
<1>3. CASE ReadFails(0, TableSector)
  BY <1>1, <1>2, <1>3, Failing
<1>4. ASSUME Read(0, TableSector)
      PROVE  LookedInside /\ UNCHANGED <<evidence, failed>>
  BY <1>1, <1>2, <1>4, ReadInside DEF IInv, Read
<1>5. CASE /\ Read(0, TableSector)
           /\ Search([main |-> "SectorSize", backup |-> "NotLocated"], SectorSizes)
  <2>1. /\ phase' = "search" /\ errors' = [main |-> "SectorSize", backup |-> "NotLocated"]
        /\ untried' = SectorSizes /\ passed' = {} /\ result' = result
    BY <1>1, <1>5 DEF Search
  <2>2. Phases' /\ Searched' /\ FoundOnes'
    BY <1>1, <2>1, NothingFailed DEF Phases, Searched, FoundOnes
  <2>3. errors' \in [main : Refusals, backup : Refusals]
    BY <2>1 DEF Refusals
  <2> QED
    BY <1>1, <1>4, <1>5, <2>1, <2>2, <2>3, Moved
<1>6. CASE Read(0, TableSector) /\ disk[0].sector \in SectorSizes /\ GoTo("main", errors)
  <2>1. /\ phase' = "main" /\ errors' = errors /\ untried' = untried /\ passed' = passed
        /\ result' = result /\ disk' = disk
    BY <1>4, <1>6 DEF GoTo, evidence
  <2>2. Phases' /\ Searched' /\ FoundOnes'
    BY <1>1, <1>6, <2>1, NothingFailed DEF Phases, Searched, FoundOnes, HeadSize
  <2> QED
    BY <1>1, <1>4, <1>6, <2>1, <2>2, Moved DEF IInv, TypeOK
<1> QED
  BY <1>3, <1>5, <1>6 DEF ReadHead

LEMMA ReadMainKeeps == ASSUME IInv, ReadMain PROVE IInv'
<1> DEFINE bytes == RegionBytes(HeadSize)
           verdict == Validated(0, bytes, "Main")
<1>1. phase = "main" /\ HeadSize \in SectorSizes /\ passed = {}
  BY DEF IInv, ReadMain, Phases
<1>2. bytes \in Nat /\ 0 \in Offsets /\ TypeOK
  BY <1>1, SizeTypes DEF IInv
<1>3. /\ verdict \in Refusals \cup {"Ok"}
      /\ verdict \in {"Ok", "TexFat"} =>
           disk[0].sector \in SectorSizes /\ WellFormed(disk[0], "Main", sectors)
      /\ verdict = "Ok" => disk[0].fats = 1
  BY <1>2, VerdictAt
<1> HIDE DEF bytes, verdict
<1>4. ASSUME NEW why \in Refusals, AfterMain(why), LookedInside, UNCHANGED <<evidence, failed>>
      PROVE  IInv'
  <2>1. /\ phase' = "backup" /\ errors' = [errors EXCEPT !.main = why]
        /\ untried' = untried /\ passed' = passed /\ result' = result /\ disk' = disk
    BY <1>4 DEF AfterMain, GoTo, evidence
  <2>2. errors' \in [main : Refusals, backup : Refusals]
    BY <1>2, <2>1 DEF TypeOK
  <2>3. Phases' /\ Searched' /\ FoundOnes'
    BY <1>1, <2>1, NothingFailed DEF Phases, Searched, FoundOnes, HeadSize
  <2> QED
    BY <1>1, <1>2, <1>4, <2>1, <2>2, <2>3, Moved DEF TypeOK
<1>5. CASE NoRead /\ AfterMain("Outside")
  <2>1. LookedInside /\ UNCHANGED <<evidence, failed>>
    BY <1>2, <1>5, NoReadInside DEF IInv, NoRead
  <2> QED
    BY <1>4, <1>5, <2>1 DEF Refusals
<1>6. CASE EndOfRegion(0, bytes) <= Available /\ ReadFails(0, bytes)
  BY <1>2, <1>6, Failing
<1>7. CASE /\ EndOfRegion(0, bytes) <= Available
           /\ Read(0, bytes)
           /\ \/ verdict = "Ok" /\ Return(BootSector("Main", 0, FALSE))
              \/ verdict = "TexFat" /\ Return(TexFat("Main"))
              \/ verdict \notin {"Ok", "TexFat"} /\ AfterMain(verdict)
  <2>1. LookedInside /\ UNCHANGED <<evidence, failed>> /\ failed = FALSE
    BY <1>1, <1>2, <1>7, ReadInside, NothingFailed DEF IInv, Read
  <2>2. CASE verdict = "Ok" /\ Return(BootSector("Main", 0, FALSE))
    <3> DEFINE x == BootSector("Main", 0, FALSE)
    <3>1. /\ x \in Results /\ SoundAnswer(x) /\ x.kind = "BootSector"
          /\ x.located_by_search = FALSE
      BY <1>2, <1>3, <2>2, BootSectorAnswer
    <3>2. Return(x)
      BY <2>2
    <3> HIDE DEF x
    <3>3. CompleteAnswer(x) /\ x # Unreadable
      BY <3>1 DEF CompleteAnswer, Unreadable
    <3> QED
      BY <2>1, <3>1, <3>2, <3>3, Answered
  <2>3. CASE verdict = "TexFat" /\ Return(TexFat("Main"))
    BY <2>1, <2>3, TexFatAnswer, Answered
  <2>4. CASE verdict \notin {"Ok", "TexFat"} /\ AfterMain(verdict)
    BY <1>3, <1>4, <2>1, <2>4
  <2> QED
    BY <1>7, <2>2, <2>3, <2>4
<1> QED
  BY <1>5, <1>6, <1>7 DEF ReadMain, bytes, verdict

LEMMA ReadBackupKeeps == ASSUME IInv, ReadBackup PROVE IInv'
<1> DEFINE bytes == RegionBytes(HeadSize)
           verdict == Validated(bytes, bytes, "Backup")
<1>1. phase = "backup" /\ HeadSize \in SectorSizes /\ passed = {}
  BY DEF IInv, ReadBackup, Phases
<1>2. bytes \in Nat /\ bytes \in Offsets /\ TypeOK
  BY <1>1, SizeTypes DEF IInv
<1>3. /\ verdict \in Refusals \cup {"Ok"}
      /\ verdict \in {"Ok", "TexFat"} =>
           disk[bytes].sector \in SectorSizes /\ WellFormed(disk[bytes], "Backup", sectors)
      /\ verdict = "Ok" => disk[bytes].fats = 1
  BY <1>2, VerdictAt
<1>4. EndOfRegion(bytes, bytes) <= Available /\ verdict \notin {"Ok", "TexFat"}
        => ~Acceptable(HeadSize)
  BY <1>1, <1>2, PassesIfAcceptable
<1>5. EndOfRegion(bytes, bytes) > Available => ~Acceptable(HeadSize)
  BY <1>1, <1>2, OutsideIsNone
<1> HIDE DEF bytes, verdict
<1>6. ASSUME NEW why \in Refusals, AfterBackup(why), LookedInside, UNCHANGED <<evidence, failed>>,
             ~Acceptable(HeadSize)
      PROVE  IInv'
  <2>1. /\ phase' = "search" /\ errors' = [errors EXCEPT !.backup = why]
        /\ untried' = SectorSizes \ {HeadSize} /\ passed' = {} /\ result' = result
        /\ disk' = disk /\ sectors' = sectors
    BY <1>1, <1>6 DEF AfterBackup, Search, evidence
  <2>2. errors' \in [main : Refusals, backup : Refusals]
    BY <1>2, <2>1 DEF TypeOK
  <2>3. Phases' /\ FoundOnes'
    BY <1>1, <2>1, NothingFailed DEF Phases, FoundOnes
  <2>4. Searched'
    <3>1. ~Acceptable(HeadSize)'
      BY <1>6, <2>1 DEF Acceptable, HeadSize, Available
    <3>2. SectorSizes \ untried' = {HeadSize}
      BY <1>1, <2>1
    <3>3. HeadSize' = HeadSize
      BY <2>1 DEF HeadSize
    <3> QED
      BY <2>1, <3>1, <3>2, <3>3 DEF Searched
  <2> QED
    BY <1>1, <1>6, <2>1, <2>2, <2>3, <2>4, Moved
<1>7. CASE EndOfRegion(bytes, bytes) > Available /\ NoRead /\ AfterBackup("Outside")
  <2>1. LookedInside /\ UNCHANGED <<evidence, failed>>
    BY <1>2, <1>7, NoReadInside DEF IInv, NoRead
  <2> QED
    BY <1>5, <1>6, <1>7, <2>1 DEF Refusals
<1>8. CASE EndOfRegion(bytes, bytes) <= Available /\ ReadFails(bytes, bytes)
  BY <1>2, <1>8, Failing
<1>9. CASE /\ EndOfRegion(bytes, bytes) <= Available
           /\ Read(bytes, bytes)
           /\ \/ verdict = "Ok" /\ Return(BootSector("Backup", bytes, FALSE))
              \/ verdict = "TexFat" /\ Return(TexFat("Backup"))
              \/ verdict \notin {"Ok", "TexFat"} /\ AfterBackup(verdict)
  <2>1. LookedInside /\ UNCHANGED <<evidence, failed>> /\ failed = FALSE
    BY <1>1, <1>2, <1>9, ReadInside, NothingFailed DEF IInv, Read
  <2>2. CASE verdict = "Ok" /\ Return(BootSector("Backup", bytes, FALSE))
    <3> DEFINE x == BootSector("Backup", bytes, FALSE)
    <3>1. /\ x \in Results /\ SoundAnswer(x) /\ x.kind = "BootSector"
          /\ x.located_by_search = FALSE
      BY <1>2, <1>3, <2>2, BootSectorAnswer
    <3>2. Return(x)
      BY <2>2
    <3> HIDE DEF x
    <3>3. CompleteAnswer(x) /\ x # Unreadable
      BY <3>1 DEF CompleteAnswer, Unreadable
    <3> QED
      BY <2>1, <3>1, <3>2, <3>3, Answered
  <2>3. CASE verdict = "TexFat" /\ Return(TexFat("Backup"))
    BY <2>1, <2>3, TexFatAnswer, Answered
  <2>4. CASE verdict \notin {"Ok", "TexFat"} /\ AfterBackup(verdict)
    BY <1>3, <1>4, <1>6, <1>9, <2>1, <2>4
  <2> QED
    BY <1>9, <2>2, <2>3, <2>4
<1> QED
  BY <1>7, <1>8, <1>9 DEF ReadBackup, bytes, verdict

\* A size that was tried is found exactly if it is acceptable.
LEMMA TriedKeeps ==
  ASSUME IInv, phase = "search", NEW s \in untried, NEW found, Tried(s, found),
         LookedInside, UNCHANGED <<evidence, failed>>,
         found \subseteq {s} \X {"Ok", "TexFat"},
         Acceptable(s) <=> found # {},
         \A p \in found : p[2] = "Ok" => disk[RegionBytes(s)].fats = 1
  PROVE  IInv'
<1>1. /\ phase' = phase /\ errors' = errors /\ result' = result
      /\ untried' = untried \ {s} /\ passed' = passed \cup found
      /\ disk' = disk /\ sectors' = sectors
  BY DEF Tried, evidence
<1>2. TypeOK /\ untried \subseteq SectorSizes /\ s \in SectorSizes
  BY DEF IInv, TypeOK
<1>3. passed' \subseteq SectorSizes \X {"Ok", "TexFat"}
  BY <1>1, <1>2 DEF TypeOK
<1>4. Phases'
  BY <1>1, NothingFailed DEF Phases
<1>5. \A p \in found : p[1] = s
  OBVIOUS
<1>6. FoundOnes'
  BY <1>1, <1>5 DEF IInv, FoundOnes
<1>7. Searched'
  <2>1. \A t \in SectorSizes : Acceptable(t)' <=> Acceptable(t)
    BY <1>1 DEF Acceptable, Available
  <2>2. \A t \in SectorSizes \ untried' : Acceptable(t)' => t \in PassedSizes'
    <3> SUFFICES ASSUME NEW t \in SectorSizes \ untried', Acceptable(t)
                 PROVE  t \in PassedSizes'
      BY <2>1
    <3>1. CASE t = s
      BY <1>1, <1>5, <3>1 DEF PassedSizes
    <3>2. CASE t # s
      BY <1>1, <3>2 DEF IInv, Searched, PassedSizes
    <3> QED
      BY <3>1, <3>2
  <2>3. \A p \in passed' : Acceptable(p[1])'
    <3> SUFFICES ASSUME NEW p \in passed' PROVE Acceptable(p[1])
      BY <1>3, <2>1
    <3>1. CASE p \in passed
      BY <3>1 DEF IInv, Searched
    <3>2. CASE p \in found
      BY <1>5, <3>2
    <3> QED
      BY <1>1, <3>1, <3>2
  <2> QED
    BY <2>2, <2>3 DEF Searched
<1> QED
  BY <1>1, <1>2, <1>3, <1>4, <1>6, <1>7, Moved DEF TypeOK

LEMMA TryCandidateKeeps == ASSUME IInv, TryCandidate PROVE IInv'
<1>1. PICK s \in untried : Candidate(s)
  BY DEF TryCandidate
<1>2. phase = "search" /\ TypeOK /\ s \in SectorSizes /\ ReadsInsidePartition
  BY DEF TryCandidate, IInv, TypeOK
<1> DEFINE bytes == RegionBytes(s)
           verdict == Validated(bytes, bytes, "Backup")
           found == IF StartsHere(s) /\ Passes(verdict) THEN {<<s, verdict>>} ELSE {}
<1>3. bytes \in Nat /\ bytes \in Offsets
  BY <1>2, SizeTypes
<1>4. CASE EndOfRegion(bytes, bytes) > Available /\ NoRead /\ Tried(s, {})
  <2>1. ~Acceptable(s)
    BY <1>2, <1>4, OutsideIsNone
  <2>2. LookedInside /\ UNCHANGED <<evidence, failed>>
    BY <1>2, <1>4, NoReadInside DEF NoRead
  <2> QED
    BY <1>1, <1>2, <1>4, <2>1, <2>2, TriedKeeps
<1>5. CASE EndOfRegion(bytes, bytes) <= Available /\ CandidateFails(s)
  BY <1>3, <1>5, Failing DEF CandidateFails
<1>6. CASE EndOfRegion(bytes, bytes) <= Available /\ Read(bytes, bytes) /\ Tried(s, found)
  <2>1. LookedInside /\ UNCHANGED <<evidence, failed>>
    BY <1>2, <1>3, <1>6, ReadInside DEF Read
  <2>2. Acceptable(s) <=> StartsHere(s) /\ Passes(verdict)
    BY <1>2, <1>6, PassesIfAcceptable DEF StartsHere, Passes
  <2>3. verdict = "Ok" => disk[bytes].fats = 1
    BY <1>2, <1>3, VerdictAt
  <2>4. /\ found \subseteq {s} \X {"Ok", "TexFat"}
        /\ Acceptable(s) <=> found # {}
        /\ \A p \in found : p[2] = "Ok" => disk[RegionBytes(s)].fats = 1
    <3>1. CASE StartsHere(s) /\ Passes(verdict)
      <4>1. verdict \in {"Ok", "TexFat"}
        BY <3>1 DEF Passes
      <4> HIDE DEF verdict
      <4>2. found = {<<s, verdict>>}
        BY <3>1
      <4> HIDE DEF found
      <4> QED
        BY <2>2, <2>3, <3>1, <4>1, <4>2
    <3>2. CASE ~(StartsHere(s) /\ Passes(verdict))
      <4> HIDE DEF verdict
      <4>1. found = {}
        BY <3>2
      <4> HIDE DEF found
      <4> QED
        BY <2>2, <3>2, <4>1
    <3> QED
      BY <3>1, <3>2
  <2> HIDE DEF found
  <2> QED
    BY <1>1, <1>2, <1>6, <2>1, <2>4, TriedKeeps
<1> QED
  BY <1>1, <1>4, <1>5, <1>6 DEF Candidate

LEMMA SearchEndsKeeps == ASSUME IInv, SearchEnds PROVE IInv'
<1>1. /\ phase = "search" /\ untried = {} /\ NoRead /\ TypeOK
      /\ UNCHANGED <<evidence, failed>> /\ failed = FALSE
  BY NothingFailed DEF SearchEnds, IInv, NoRead
<1>2. LookedInside
  BY <1>1, NoReadInside DEF IInv
<1>3. PassedSizes = {s \in SectorSizes : Acceptable(s)}
  <2>1. PassedSizes \subseteq SectorSizes
    BY <1>1 DEF TypeOK, PassedSizes
  <2>2. \A s \in PassedSizes : Acceptable(s)
    BY <1>1 DEF IInv, Searched, PassedSizes
  <2>3. \A s \in SectorSizes : Acceptable(s) => s \in PassedSizes
    BY <1>1 DEF IInv, Searched
  <2> QED
    BY <2>1, <2>2, <2>3
<1>4. ASSUME NEW x \in Results, Return(x), SoundAnswer(x), CompleteAnswer(x), x # Unreadable
      PROVE  IInv'
  BY <1>1, <1>2, <1>4, Answered
<1>5. CASE passed = {} /\ Return(Rejected(errors))
  <2> DEFINE x == Rejected(errors)
  <2>1. x \in Results /\ x.kind = "Rejected"
    BY <1>1 DEF TypeOK, Rejected, Results
  <2>2. \A s \in SectorSizes : ~Acceptable(s)
    BY <1>3, <1>5 DEF PassedSizes
  <2>3. Return(x)
    BY <1>5
  <2> HIDE DEF x
  <2>4. SoundAnswer(x) /\ CompleteAnswer(x) /\ x # Unreadable
    BY <2>1, <2>2 DEF SoundAnswer, CompleteAnswer, Unreadable
  <2> QED
    BY <1>4, <2>1, <2>3, <2>4
<1>6. ASSUME NEW s \in SectorSizes, PassedSizes = {s}, Return(Found(s))
      PROVE  IInv'
  <2>1. Acceptable(s)
    BY <1>3, <1>6
  <2>2. CASE <<s, "Ok">> \in passed
    <3> DEFINE x == BootSector("Backup", RegionBytes(s), TRUE)
    <3>1. disk[RegionBytes(s)].fats = 1
      BY <2>2 DEF IInv, FoundOnes
    <3>2. disk[RegionBytes(s)].sector = s /\ WellFormed(disk[RegionBytes(s)], "Backup", sectors)
      BY <2>1 DEF Acceptable
    <3>3. /\ x \in Results /\ SoundAnswer(x) /\ x.kind = "BootSector"
          /\ x.fields = disk[RegionBytes(s)]
      BY <1>1, <3>1, <3>2, SizeTypes, BootSectorAnswer
    <3>4. Return(x)
      BY <1>6, <2>2 DEF Found
    <3> HIDE DEF x
    <3>5. CompleteAnswer(x) /\ x # Unreadable
      BY <1>3, <1>6, <3>2, <3>3 DEF CompleteAnswer, Unreadable
    <3> QED
      BY <1>4, <3>3, <3>4, <3>5
  <2>3. CASE <<s, "Ok">> \notin passed
    BY <1>4, <1>6, <2>3, TexFatAnswer DEF Found
  <2> QED
    BY <2>2, <2>3
<1>7. CASE (\E s, t \in PassedSizes : s # t) /\ Return(AmbiguousBackup(PassedSizes))
  <2> DEFINE x == AmbiguousBackup(PassedSizes)
  <2>1. x.kind = "AmbiguousBackup" /\ x.sizes = PassedSizes
    BY DEF AmbiguousBackup
  <2>2. x \in Results
    BY <1>3 DEF AmbiguousBackup, Results
  <2>3. Return(x)
    BY <1>7
  <2> HIDE DEF x
  <2>4. SoundAnswer(x) /\ CompleteAnswer(x) /\ x # Unreadable
    BY <1>3, <1>7, <2>1 DEF SoundAnswer, CompleteAnswer, Unreadable
  <2> QED
    BY <1>4, <2>2, <2>3, <2>4
<1> QED
  BY <1>5, <1>6, <1>7 DEF SearchEnds

LEMMA Stutter == ASSUME IInv, UNCHANGED vars PROVE IInv'
<1>1. /\ disk' = disk /\ sectors' = sectors /\ phase' = phase /\ errors' = errors
      /\ untried' = untried /\ passed' = passed /\ result' = result /\ reads' = reads
      /\ failed' = failed
  BY DEF vars
<1>2. TypeOK' /\ Phases' /\ FoundOnes' /\ ReadsInsidePartition' /\ FailureIsTheAnswer'
  BY <1>1 DEF IInv, TypeOK, Phases, HeadSize, FoundOnes, ReadsInsidePartition,
              FailureIsTheAnswer
<1>3. Searched'
  BY <1>1 DEF IInv, Searched, Acceptable, Available, PassedSizes
<1>4. SoundAnswer(result)' /\ CompleteAnswer(result)'
  BY <1>1 DEF IInv, SoundAnswer, CompleteAnswer, Acceptable, Available
<1> QED
  BY <1>2, <1>3, <1>4 DEF IInv

LEMMA Initially == Init => IInv
<1> SUFFICES ASSUME Init PROVE IInv
  OBVIOUS
<1>1. /\ phase = "head" /\ result = NotYet /\ passed = {} /\ reads = {} /\ failed = FALSE
      /\ untried = {} /\ errors = [main |-> "NotLocated", backup |-> "NotLocated"]
      /\ disk \in [Offsets -> BootRegions] /\ sectors \in Nat
  BY DEF Init, Start
<1>2. TypeOK
  BY <1>1 DEF TypeOK, Refusals, Results
<1>3. Phases /\ Searched /\ FoundOnes /\ ReadsInsidePartition
  BY <1>1 DEF Phases, Searched, FoundOnes, ReadsInsidePartition
<1>4. SoundAnswer(result) /\ CompleteAnswer(result) /\ FailureIsTheAnswer
  BY <1>1 DEF SoundAnswer, CompleteAnswer, FailureIsTheAnswer, NotYet, Unreadable
<1> QED
  BY <1>2, <1>3, <1>4 DEF IInv

\* The invariant holds in every state parse_boot_region reaches.
LEMMA Invariance == Spec => []IInv
<1>1. IInv /\ [Next]_vars => IInv'
  <2> SUFFICES ASSUME IInv, [Next]_vars PROVE IInv'
    OBVIOUS
  <2> QED
    BY EmptyPartitionKeeps, ReadHeadKeeps, ReadMainKeeps, ReadBackupKeeps, TryCandidateKeeps,
       SearchEndsKeeps, Stutter DEF Next, Done
<1> QED
  BY <1>1, Initially, PTL DEF Spec

----------------------------------------------------------------------------
(***************************************************************************)
(* The theorems.                                                           *)
(***************************************************************************)

\* Every state of parse_boot_region is well typed: among the rest, what it
\* answers is one of the answers there are and names regions that exist.
THEOREM TypeCorrect == Spec => []TypeOK
<1>1. IInv => TypeOK
  BY DEF IInv
<1> QED
  BY <1>1, Invariance, PTL

\* A boot sector that is handed on has a geometry that can be followed without
\* another check: regions, FAT and heap one after the other inside the volume and
\* the volume inside the partition, however check_geometry's fields are chosen.
THEOREM GeometryCorrect == Spec => []GeometryIsSound
<1>1. IInv => GeometryIsSound
  <2> SUFFICES ASSUME IInv, Accepted PROVE GeometryIsSound
    BY DEF GeometryIsSound
  <2> DEFINE r == result.fields
  <2>1. /\ r \in BootRegions /\ r.sector \in SectorSizes /\ WellFormed(r, "Backup", sectors)
        /\ r.fats = 1 /\ (result.shorter <=> VolumeBytes(r) < Available) /\ sectors \in Nat
    BY DEF IInv, SoundAnswer, Accepted, TypeOK
  <2>2. /\ 2 * RegionSectors <= r.fatOffset
        /\ FatEnd(r) <= r.heapOffset
        /\ HeapEnd(r) <= r.length
        /\ r.length * r.sector <= sectors * TableSector
        /\ (r.count + 2) * FatEntryBytes <= r.fatLength * r.sector
        /\ r.count # MaxClusterCount => HeapEnd(r) + r.cluster > r.length
        /\ r.root \in 2..(r.count + 1)
    BY <2>1, WellFormedSound
  <2>3. result.shorter <=> r.length * r.sector # sectors * TableSector
    <3>1. r.length \in Nat /\ r.sector \in Nat
      BY <2>1, FieldTypes
    <3>2. r.length * r.sector \in Nat /\ sectors * TableSector \in Nat
      BY <2>1, <3>1, SizeTypes, SMT
    <3> HIDE DEF r
    <3> QED
      BY <2>1, <2>2, <3>2 DEF VolumeBytes, Available, PartitionBytes
  <2> QED
    BY <2>1, <2>2, <2>3 DEF GeometryIsSound
<1> QED
  BY <1>1, Invariance, PTL

\* No read of parse_boot_region or search_backup leaves the partition.
THEOREM ReadsInsideCorrect == Spec => []ReadsInsidePartition
<1>1. IInv => ReadsInsidePartition
  BY DEF IInv
<1> QED
  BY <1>1, Invariance, PTL

\* What search_backup answers is said of every size: the one backup there is, all
\* of several, or none anywhere; and a read failure is the whole answer, and the
\* last read.
THEOREM SearchCorrect == Spec => []SearchIsExhaustive
<1>1. IInv => SearchIsExhaustive
  BY DEF IInv, CompleteAnswer, SearchIsExhaustive, Accepted
<1> QED
  BY <1>1, Invariance, PTL
=============================================================================
