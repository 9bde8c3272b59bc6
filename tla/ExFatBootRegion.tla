--------------------------- MODULE ExFatBootRegion ---------------------------
(***************************************************************************)
(* Finding an exFAT volume's boot region: parse_boot_region and            *)
(* search_backup in src/exfat_boot.rs.  Sector 0 gives the sector size,    *)
(* the sector size gives the main region and the backup after it, and      *)
(* where both are refused the backup is looked for at the other sizes.     *)
(*                                                                         *)
(* The regions on the evidence are what the bytes at each offset say when  *)
(* they are read as a region, so two of them may share bytes, and one may  *)
(* lie past the partition's end, where other data is.                      *)
(***************************************************************************)
EXTENDS ExFatGeometry

VARIABLES
  disk,       \* the region found at each offset a backup or the main one may have
  sectors,    \* extent.sector_count: the partition, in sectors of its table
  phase,      \* "head", "main", "backup", "search", "done"
  errors,     \* why the main region and the backup were refused, so far
  untried,    \* the sector sizes search_backup has not come to
  passed,     \* the sizes whose candidate was accepted, with its verdict
  result,     \* what parse_boot_region returned
  reads,      \* observed: <<offset, bytes>> of every read
  failed      \* observed: a read failed

evidence == <<disk, sectors>>
vars == <<disk, sectors, phase, errors, untried, passed, result, reads, failed>>

\* Where the backup starts on a volume of this sector size: after twelve sectors.
RegionBytes(s) == RegionSectors * s

Offsets == {0} \cup {RegionBytes(s) : s \in SectorSizes}

Available == PartitionBytes(sectors)

Sizes == SectorSizes \cup {0}

NotYet == [kind |-> "NotYet"]
Unreadable == [kind |-> "Unreadable"]
TexFat(which) == [kind |-> "TexFat", region |-> which]
Rejected(e) == [kind |-> "Rejected", main |-> e.main, backup |-> e.backup]
AmbiguousBackup(found) == [kind |-> "AmbiguousBackup", sizes |-> found]

\* An ExFatBootSector: which region's fields, where they were read, whether
\* VolumeFlags and PercentInUse are kept, whether the volume is shorter than its
\* partition, and whether a search found it.
BootSector(which, at, searched) ==
  [kind |-> "BootSector", region |-> which, at |-> at, fields |-> disk[at],
   main_only |-> which = "Main",
   shorter |-> VolumeBytes(disk[at]) < Available,
   located_by_search |-> searched]

Results ==
  {NotYet, Unreadable} \cup {TexFat(w) : w \in {"Main", "Backup"}}
    \cup [kind : {"Rejected"}, main : Refusals, backup : Refusals]
    \cup [kind : {"AmbiguousBackup"}, sizes : SUBSET SectorSizes]
    \cup [kind : {"BootSector"}, region : {"Main", "Backup"}, at : Offsets,
          fields : BootRegions, main_only : BOOLEAN, shorter : BOOLEAN,
          located_by_search : BOOLEAN]

TypeOK ==
  /\ disk \in [Offsets -> BootRegions]
  /\ sectors \in Nat
  /\ phase \in {"head", "main", "backup", "search", "done"}
  /\ errors \in [main : Refusals, backup : Refusals]
  /\ untried \subseteq SectorSizes
  /\ passed \subseteq SectorSizes \X {"Ok", "TexFat"}
  /\ result \in Results
  /\ reads \subseteq Offsets \X Nat
  /\ failed \in BOOLEAN

----------------------------------------------------------------------------

Return(r) ==
  /\ phase' = "done"
  /\ result' = r
  /\ UNCHANGED <<errors, untried, passed>>

GoTo(next, e) ==
  /\ phase' = next
  /\ errors' = e
  /\ UNCHANGED <<untried, passed, result>>

Search(e, sizes) ==
  /\ phase' = "search"
  /\ errors' = e
  /\ untried' = sizes
  /\ UNCHANGED <<passed, result>>

\* read_exact_at, and what is done with what it read.
Read(offset, bytes) ==
  /\ reads' = reads \cup {<<offset, bytes>>}
  /\ UNCHANGED <<evidence, failed>>

NoRead == UNCHANGED <<evidence, reads, failed>>

\* The evidence fails: that is the answer, and no other region is tried.
ReadFails(offset, bytes) ==
  /\ reads' = reads \cup {<<offset, bytes>>}
  /\ failed' = TRUE
  /\ UNCHANGED evidence
  /\ Return(Unreadable)

----------------------------------------------------------------------------
(***************************************************************************)
(* parse_boot_region.                                                      *)
(***************************************************************************)

\* refused_everywhere: there is no sector to read.
EmptyPartition ==
  /\ phase = "head"
  /\ Available < TableSector
  /\ NoRead
  /\ Return(Rejected([main |-> "Outside", backup |-> "Outside"]))

ReadHead ==
  /\ phase = "head"
  /\ Available >= TableSector
  /\ \/ ReadFails(0, TableSector)
     \/ /\ Read(0, TableSector)
        /\ \/ /\ disk[0].sector \notin SectorSizes
              /\ Search([main |-> "SectorSize", backup |-> "NotLocated"], SectorSizes)
           \/ /\ disk[0].sector \in SectorSizes
              /\ GoTo("main", errors)

\* The sector size sector 0 gives.
HeadSize == disk[0].sector

\* Seeded fault: the length of the region is compared, not where it ends.
EndOfRegionLength(offset, bytes) == bytes

EndOfRegion(offset, bytes) == offset + bytes

\* read_and_validate, of a region that is inside the partition.
Validated(offset, bytes, which) == ValidateRegion(disk[offset], bytes, which, sectors)

\* The main region is refused for `why'.
AfterMain(why) == GoTo("backup", [errors EXCEPT !.main = why])

ReadMain ==
  /\ phase = "main"
  /\ LET bytes == RegionBytes(HeadSize) IN
     \/ EndOfRegion(0, bytes) > Available /\ NoRead /\ AfterMain("Outside")
     \/ EndOfRegion(0, bytes) <= Available /\ ReadFails(0, bytes)
     \/ /\ EndOfRegion(0, bytes) <= Available
        /\ Read(0, bytes)
        /\ LET verdict == Validated(0, bytes, "Main") IN
           \/ verdict = "Ok" /\ Return(BootSector("Main", 0, FALSE))
           \/ verdict = "TexFat" /\ Return(TexFat("Main"))
           \/ verdict \notin {"Ok", "TexFat"} /\ AfterMain(verdict)

\* The other sizes are tried: the head's may be the damaged field.
AfterBackup(why) ==
  Search([errors EXCEPT !.backup = why], SectorSizes \ {HeadSize})

\* The backup at the offset the main region's sector size gives.
ReadBackup ==
  /\ phase = "backup"
  /\ LET bytes == RegionBytes(HeadSize) IN
     \/ EndOfRegion(bytes, bytes) > Available /\ NoRead /\ AfterBackup("Outside")
     \/ EndOfRegion(bytes, bytes) <= Available /\ ReadFails(bytes, bytes)
     \/ /\ EndOfRegion(bytes, bytes) <= Available
        /\ Read(bytes, bytes)
        /\ LET verdict == Validated(bytes, bytes, "Backup") IN
           \/ verdict = "Ok" /\ Return(BootSector("Backup", bytes, FALSE))
           \/ verdict = "TexFat" /\ Return(TexFat("Backup"))
           \/ verdict \notin {"Ok", "TexFat"} /\ AfterBackup(verdict)

----------------------------------------------------------------------------
(***************************************************************************)
(* search_backup, from the smallest size to the largest.                   *)
(***************************************************************************)

\* Seeded fault: a region that merely validates is taken for one that starts here.
StartsAnywhere(s) == TRUE

\* Its own sector size is the one it was tried at.
StartsHere(s) == disk[RegionBytes(s)].sector = s

\* Seeded fault: a candidate is kept whatever it was refused for.
KeptAnyway(verdict) == TRUE

\* A valid region with two FATs is as good a candidate as one with one.
Passes(verdict) == verdict \in {"Ok", "TexFat"}

\* The search goes on to the next size.
Tried(s, found) ==
  /\ untried' = untried \ {s}
  /\ passed' = passed \cup found
  /\ UNCHANGED <<phase, errors, result>>

CandidateFails(s) == ReadFails(RegionBytes(s), RegionBytes(s))

Candidate(s) ==
  LET bytes == RegionBytes(s) IN
  \/ EndOfRegion(bytes, bytes) > Available /\ NoRead /\ Tried(s, {})
  \/ EndOfRegion(bytes, bytes) <= Available /\ CandidateFails(s)
  \/ /\ EndOfRegion(bytes, bytes) <= Available
     /\ Read(bytes, bytes)
     /\ LET verdict == Validated(bytes, bytes, "Backup")
        IN Tried(s, IF StartsHere(s) /\ Passes(verdict) THEN {<<s, verdict>>} ELSE {})

TryCandidate ==
  /\ phase = "search"
  /\ \E s \in untried :
       /\ \A t \in untried : s <= t
       /\ Candidate(s)

Found(s) ==
  IF <<s, "Ok">> \in passed THEN BootSector("Backup", RegionBytes(s), TRUE)
                            ELSE TexFat("Backup")

PassedSizes == {p[1] : p \in passed}

SearchEnds ==
  /\ phase = "search"
  /\ untried = {}
  /\ NoRead
  /\ \/ passed = {} /\ Return(Rejected(errors))
     \/ \E s \in SectorSizes : PassedSizes = {s} /\ Return(Found(s))
     \/ /\ \E s, t \in PassedSizes : s # t
        /\ Return(AmbiguousBackup(PassedSizes))

Done == phase = "done" /\ UNCHANGED vars

----------------------------------------------------------------------------

Start ==
  /\ phase = "head"
  /\ errors = [main |-> "NotLocated", backup |-> "NotLocated"]
  /\ untried = {}
  /\ passed = {}
  /\ result = NotYet
  /\ reads = {}
  /\ failed = FALSE

Init ==
  /\ disk \in [Offsets -> BootRegions]
  /\ sectors \in Nat
  /\ Start

Next ==
  \/ EmptyPartition
  \/ ReadHead
  \/ ReadMain
  \/ ReadBackup
  \/ TryCandidate
  \/ SearchEnds
  \/ Done

Spec == Init /\ [][Next]_vars

----------------------------------------------------------------------------
(***************************************************************************)
(* Properties.                                                             *)
(***************************************************************************)

Accepted == result.kind = "BootSector"

\* Where the last cluster ends, in sectors of the volume.
HeapEnd(r) == r.heapOffset + r.count * r.cluster

\* The geometry that is handed on can be followed without another check: the
\* boot regions, the FAT and the heap come one after the other inside the volume,
\* the volume is inside the partition, the FAT has an entry for each cluster, the
\* heap has no room for one more cluster, and the root is one of them.
GeometryIsSound ==
  Accepted =>
    LET r == result.fields IN
    /\ r.fats = 1
    /\ 2 * RegionSectors <= r.fatOffset
    /\ FatEnd(r) <= r.heapOffset
    /\ HeapEnd(r) <= r.length
    /\ r.length * r.sector <= sectors * TableSector
    /\ (r.count + 2) * FatEntryBytes <= r.fatLength * r.sector
    /\ r.count # MaxClusterCount => HeapEnd(r) + r.cluster > r.length
    /\ r.root \in 2..(r.count + 1)
    /\ result.shorter <=> r.length * r.sector # sectors * TableSector

\* No byte of another partition is read: a region that would end past the
\* partition is refused without a look at it.
ReadsInsidePartition ==
  \A x \in reads : x[1] + x[2] <= sectors * TableSector

\* What a search might accept: a region inside the partition that starts where a
\* backup of its own sector size starts.
Acceptable(s) ==
  /\ 2 * RegionBytes(s) <= Available
  /\ disk[RegionBytes(s)].sector = s
  /\ WellFormed(disk[RegionBytes(s)], "Backup", sectors)

\* A read failure says nothing about the volume's structure, so it is the whole
\* answer: it is reported exactly when a read failed, and nothing is read after it.
FailureIsTheAnswer ==
  /\ failed <=> result = Unreadable
  /\ failed => phase = "done"

\* A region is never chosen among several and never overlooked.  A backup a
\* search found is the only one there is but at the size already refused, a
\* volume is rejected only if no acceptable backup is anywhere, an ambiguity
\* names every size that passed, and a candidate that cannot be read is passed
\* over by none of them.
SearchIsExhaustive ==
  /\ Accepted => (result.located_by_search =>
       {s \in SectorSizes : Acceptable(s)} = {result.fields.sector})
  /\ result.kind = "Rejected" => \A s \in SectorSizes : ~Acceptable(s)
  /\ result.kind = "AmbiguousBackup" =>
       /\ result.sizes = {s \in SectorSizes : Acceptable(s)}
       /\ \E s, t \in result.sizes : s # t
  /\ FailureIsTheAnswer

\* A backup starts at its twelfth sector, of its own size: the reason
\* search_backup gives for comparing the two sizes.
BackupStartsAtItsTwelve ==
  Accepted /\ result.region = "Backup" =>
    result.at = RegionBytes(result.fields.sector)

=============================================================================
