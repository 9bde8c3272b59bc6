# A TLA+ model of taphonomy

taphonomy reads a disk image, read-only, and reports what a damaged or
formatted FAT32 volume still holds: its directories, deleted and orphaned ones
included, and the files whose clusters are free. It writes recovered files to a
directory when asked. It is one thread; what makes it hard is that everything
it reads is evidence. The tables are damaged or stale, every read may fail,
and the run must never report more than the evidence says, nor less without
saying so.

The modules here are translated from `src/` of the repository. File names
below are relative to its root.

## Inventory

| part | code | state it keeps | operations | what makes it correct |
|---|---|---|---|---|
| Volume walk and orphan search | `src/analysis.rs` `report_root_directory`, `queue_subdirectories`, `report_subdirectory`, `search_orphaned_directories` | `seen`, `named`, the queue, the cursor of the search, the counters | list the root, take a directory off the queue, search each data cluster | no cluster listed twice, refusals stand, every name one finding, ends |
| Directory enumeration | `src/fat_directory.rs` `enumerate`, `enumerate_deleted_directory`, `begins_directory` | the chain so far, the terminator | follow a chain; read one cluster of a deleted directory | the listing agrees with the FAT |
| Directory entry decoding | `src/fat_directory.rs` `classify`, `associate`, `recover_first_byte`, the slot loop of `enumerate` | none | classify 32 bytes; list the slots before the terminator and those after it; give a deleted entry its first character back | the listing is the directory; a first byte is stated only where a checksum determines it, and is the right one |
| File recovery | `src/fat_recovery.rs` `eligibility`, `assess_listed`; `src/analysis.rs` `report_recovery` | the counters | ask about each entry, check its run against the FAT, extract | only free runs are read; every lost file is accounted for |
| Artifact writer | `src/extraction.rs`; `extract` and `stream` of `src/fat_recovery.rs` | hasher, sink, destination file | begin, push, finish, abort | what is said of a file agrees with the file |
| Partition table | `src/partition.rs` | none | `parse_mbr` | nothing past the evidence is listed; anomalies are true |
| Analysis run | `src/analysis.rs` `run`, `report_partition`, `RunCounts`; `src/main.rs` | the counters, the exit status | read the table, report each partition, derive the coverage | coverage and exit status say what was analysed |
| Filesystem identification, FAT geometry, FAT32 boot sector | `src/filesystem.rs`, `src/fat.rs`, `src/fat32.rs` | none | `identify`, `identify_fat`, `parse_boot_sector`, the offsets | reads stay in the volume and in their region |
| exFAT boot region | `src/exfat_boot.rs` | the refusals so far, the candidates that passed | main region, backup region, search for the backup by sector size | sound geometry; one unambiguous region or a refusal; a read failure is the whole answer |
| Evidence reader | `src/evidence.rs` | the file's cursor, the size at open | open, digest, `read_exact_at` | read-only; a short read is a failure; the digest is of what was there |
| Hashing, validation, confidence, errors | `src/hash.rs`, `src/validation.rs`, `src/confidence.rs`, `src/error.rs` | the hasher | digest, compare | published test vectors |
| Command line | `src/main.rs` `main`, `inspect` | the options, the exit status | parse flags, check the destination, open and hash | the run does what was asked for and nothing else |
| Rendering | `src/main.rs` `StdoutSink`, `print_summary`, `print_caveats` | which headings were printed | print each event, print the summary | a line is under its heading; the summary says what the lines said |

How they interact: `main` checks its arguments and the destination, opens and
hashes the evidence, and calls `run`. `run` reads the table and calls
`report_partition` for each entry that `parse_mbr` kept; that identifies the
volume, validates its boot sector and calls `report_root_directory`. The walk
calls the enumeration for each directory and `report_recovery` for each
listing, which assesses the entries and calls `extract`, which streams the run
through the artifact writer. Results travel as events to a `Sink` and as
counts in one `RunCounts` that every function is given; coverage and the exit
status are derived from the counts at the end. There are no threads, locks or
messages. The hard behaviours are

- failure: each read is a place where the evidence may fail, and each failure
  has its own scope (an entry, a directory, the search, a volume, the run);
- order: `seen` and `named` grow during the walk, entries wait in a queue until
  they are taken up, and the search runs after the walk over the same clusters;
- other programs, kills and reruns, at the destination directory;
- numbers: every field of a boot record, a table or a directory entry may hold
  whatever its width allows;
- history: a directory holds what any order of writes, deletions, reuse and
  formats left in it, and a boot region may be a stale or a foreign one;
- sequences: arguments come in any order, and the lines of a report mean
  something only after the ones above them.

`PROJECT.json` lists the hazards line by line with the properties that would
catch each.

## Modules

| module | models | kind |
|---|---|---|
| `VolumeWalk` | the walk, the enumeration and the search, one read at a time | state machine, fairness |
| `ArtifactDelivery` | what the operator is promised of each file | abstract specification |
| `ArtifactWriter` | `report_recovery`'s extraction, `extract`, `stream`, `ArtifactWriter` | state machine, fairness, implements `ArtifactDelivery` |
| `FileRecovery` | `eligibility`, `assess_listed`, the rest of `report_recovery`, the derived figures | state machine |
| `PartitionTable` | `parse_mbr` | operators |
| `AnalysisRun` | the end of `main`, `inspect`, `run`, `report_partition`, coverage and exit status, over `PartitionTable` | state machine |
| `VolumeLayout` | `identify`, `identify_fat`, `parse_boot_sector`, cluster and FAT entry offsets | state machine over arithmetic |
| `ExFatGeometry` | `validate_region` and its rules | operators |
| `ExFatBootRegion` | `parse_boot_region`, `read_and_validate`, `search_backup`, one read at a time | state machine |
| `DirectorySlots` | `classify`, `chksum`, `recover_first_byte`, `associate`, the slot loop of `enumerate` | operators |
| `DirectoryHistory` | the FAT driver that writes the directory (not this program's) and what `DirectorySlots` makes of it at every moment | state machine |
| `Invocation` | the argument loop, the options' needs, the destination check, open and digest | state machine |
| `Report` | the events of `run` in the orders it may record them, `RunCounts`, `StdoutSink`, the summary and the caveats; extends `Invocation` | state machine |
| `MC*` | instances for TLC | |
| `*Proofs` | theorems and proofs | |

The modules meet where the functions do, and one abstracts the other by its
outcome:

- `AnalysisRun` sees a FAT32 volume as a verdict (its root was read or not)
  and a number of gaps; `VolumeWalk` and `FileRecovery` are what happens there.
- `VolumeWalk` lists directories; `FileRecovery` takes the entries of all
  listings as one sequence, each marked with how its listing was reached.
- `FileRecovery` sees an extraction as its outcome; `ArtifactWriter` is what
  happens there. `ArtifactWriter` gives each artifact a path of its own, which
  is `VolumeWalk`'s `ListedOnce`: the path is made of the partition, the
  cluster and the slot of the entry.
- `VolumeWalk` sees a cluster's slots as the directories they name;
  `DirectorySlots` is how slots become entries. `FileRecovery`'s entries are
  those entries with what their fields say.
- `Report` takes any order of events that `AnalysisRun`, `VolumeWalk` and
  `FileRecovery` may produce and more: what the evidence holds is a choice at
  each event. What is shown of the lines and the summary there holds of every
  analysis. `AnalysisRun` starts where `Invocation` has the options, and knows of
  the digest only that it was taken; `Report` has both ends of the program.
- `VolumeWalk` and `FileRecovery` take a range of clusters and a FAT for
  granted; `VolumeLayout` shows that for an accepted boot record they are
  where the offsets say, one thing to a byte.

### State and actions against the code

**VolumeWalk.** `fat` and `content` are the volume, which nothing writes. `phase`
is the loop of `report_root_directory` that runs, `step`, `job`, `cluster` and
`dir` the enumeration in progress (its local variables). `seen`, `named`,
`pending`, `listed` and `counts` carry the code's names; `cursor` is the
search's loop variable and `reported` the sequence of `Event::Directory`. One
iteration of `enumerate`'s loop is one action: `RefuseChain`, `EvidenceFails`
or `ReadCluster`. `TakeDeclined`, `TakeRefused` and `TakeOpened` are what
becomes of a directory when it is taken off the queue, `SubdirectoryUnread`,
`SubdirectoryWithheld` and `SubdirectoryListed` what becomes of it after the
read. `PassOver`, `OpenOrphan`, `StopSearch`, `OrphanUnread`, `OrphanListed` and
`SearchEnds` are the search. A cluster's slots are abstracted to what the
walk tells apart: the two dot entries, the directories named before and after
the terminator, and whether there is one. That a cluster holds whole slots
(so the bound on entries never fires before the bound on clusters) follows
from cluster sizes being powers of two.

**ArtifactWriter.** `disk` is the destination directory by path, `sink` the
`Sink` enumeration, `hashed` the hasher, `read` how far `stream` has come,
`told` the events of this run. `OpenSink` is `create_new`; `Push` is one
`write_all`, which may store the bytes, store others without an error, or
fail half way. `StreamFails` is `abort` with `discard` and `remove_partial`;
`SettleUnwritten`, `SettleFailed`, `Flushed`, `ReadBack` and `ReadBackFails` are the
arms of `settle`. `Kill`, `Rerun` and `OthersDelete` are the environment. An
artifact's content is the sequence of its clusters' numbers, 0 where damaged.

**FileRecovery.** `entries` are the listings' entries in order, `in_use` says of
each FAT which clusters it does not mark free, `mirroring` and `active` are
`BPB_ExtFlags`. One entry's path through the `match` arms of `report_recovery` is
a sequence of actions; `assess_listed`'s loop is `ClusterFree`, `RunBroken`
or `AssessFails` once for each cluster. `Artifacts`, `NotRead` and `Differed` are
the figures `RunCounts` derives by saturating subtraction.

**PartitionTable, AnalysisRun.** An entry is its type (unused, protective, any
other), boot indicator, start and length. `AnalysisRun` goes through the table
by entry; `NotListed` is an entry that `parse_mbr` did not keep, so the loop over
the kept ones is the rest. Each of `report_partition`'s ends is an action with its
counter. `in_volumes` stands for the six counters the volume's own report
adds to. `gaps` and `anomalies` are the events. `step` also takes `main`'s order:
destination check, open and digest, table, partitions, summary.

**VolumeLayout.** `boot` is the fields of a boot record, each any number below
`Word`, `extent` the partition. `Identified` and `Usable` are the refusals,
with the arithmetic where it is done: `Saturated` for the saturating product,
`MetadataSectors(b) < Word` for the checked sums, `FirstDataSector` modulo `Word`
for the unchecked ones. `last` and `previous` are the two latest reads.

**ExFatGeometry, ExFatBootRegion.** A region is a record of the fields that
`validate_region` reads; that its checksum and its names and signature are right
are two facts about its bytes (`sealed`, `branded`). `disk` says which region
the bytes at each offset are when read as one, so regions may overlap and one
may lie past the partition. `ReadHead`, `ReadMain` and `ReadBackup` are the three
reads of `parse_boot_region`, `TryCandidate` one turn of `search_backup`'s loop and
`SearchEnds` its decision; each read may fail. `errors`, `passed` and `result` are
the code's values, `reads` and `failed` observe.

**DirectorySlots, DirectoryHistory.** `Classify` is `classify`, with the first
byte looked at before the attribute; `Listing` and `Residue` are the entries
before and after the terminator, the second without the empty slots;
`Components` and `Associate` are `associate` and `RecoverFirstByte` tries every
byte. What a slot holds beside name, attribute and checksum is one value
`data`. `slots` in `DirectoryHistory` is the directory; `live` and `origin` are what
the driver knows and the program does not: the files there are, and the name
each slot was last written for.

**Invocation.** `args` and `next` are the arguments and the loop's index,
`recover`, `output` and `reference` the options; each branch of the loop is an
action. `step` is where `main` and `inspect` are. `size` is the evidence as it is
now, `reported` its size at open, `position` the file's cursor and `hashed` the
bytes the hasher was given. `Resize` is another program.

**Report.** `step` goes through `run`, `report_partition`, the walk, the search and
`report_recovery`; an action that records an event emits it with `Emit`, which is
the counter (`Counted`) and what `StdoutSink::record` prints (`Printed`) and
remembers (`headed`). `said` counts the lines of each kind. `reader` is what
the lines so far put the next one under: the directory printed last, the sections
under it, whether the entry printed last was a free run. A section has the title
as `head_content` prints it, which depends on the listing alone, and a history
of the parts whose findings stand in it, which nothing prints. `summary` is what
`print_summary` and `print_caveats` derive from `RunCounts`.

## Properties and runs

The `report` run takes about eighty seconds on two workers, every other one less than
a minute.

**volume_walk** (`MCVolumeWalk.cfg`, 340,611 states). A volume of four data
clusters, root at 2, depth bound 2, chains of at most 3 clusters. The FATs
and contents enumerated make chains that end, loop, cross, run into a free, a
bad or an impossible cluster, entries live and deleted naming each cluster,
one cluster named twice, reused clusters, clusters without a signature, names
past the terminator, and no terminator; each read of each may fail. Checked:

- `ListedOnce`: no cluster is part of two listings, so no deleted file is
  assessed twice and no two artifacts of a volume share a path;
- `RefusalStands`: what the walk declined never comes back as an orphan;
- `NoGapMeansAllRead`: without a counted gap each directory that a listing
  names was read;
- `NoOrphanMissed`: a search that was not stopped missed no free cluster with
  a directory's signature;
- `ListingAgreesWithFat`: live listings are chains to their end, deleted and
  orphaned ones a single free cluster;
- `OneFindingEach`: at each step of the walk each name is queued, being read,
  reported, or one gap;
- `Terminates`.

Three clusters besides the root are what a cross-link after different
beginnings needs (two first clusters and a shared tail), and a chain that
loops through two. Depth 2 lets a directory be declined for depth below a
listed one.

**volume_walk_read_once** (`MCVolumeWalkReadOnce.cfg`) shows `ReadAtMostOnce`
violated, see Findings.

**artifact_writer** (`MCArtifactWriter.cfg`, 19,968 states). Two artifacts of
two clusters and of one, two runs over one destination, either path free or
taken by a file from before that is whole or cut short. Every call may fail,
anyone may delete a file, the run may be killed between any two calls.

- `DigestCoversFile`: a reported digest is of every byte in order, whatever
  the destination did;
- `NoSilentPartial`: a file of this run that is not whole was reported as
  differing, unverified or left;
- `NoGapMeansDelivered`: a run that counts no gap handed over one file of its
  own for each artifact;
- `RunEnds`: a run that is not killed ends;
- `Delivers`: the writer implements `ArtifactDelivery`. A file is made only
  where none is, a delivered one is whole, a withheld one is gone, and a file
  from before is never changed.

Two clusters let the destination fail before or after something was written;
two artifacts and two runs let a counter or a file of one meet the other.

**artifact_writer_left** (`MCArtifactWriterLeft.cfg`) shows `LeftIsThere`
violated, see Findings.

**file_recovery** (`MCFileRecovery.cfg`, 326,616 states). Three data clusters of
four bytes, sizes of four bits, two FATs that may disagree, mirroring on or
off, all options, two entries of which the first is of every kind and size
at a cluster's or the field's edge.

- `EveryFileAccounted`: the derived figures, saturating subtractions all, are
  what happened, and the summary accounts for each lost file exactly once;
- `FreeRunsOnly`: a run is called free, and read, only if each byte the entry
  declares lies in a data cluster that the current FAT marks free;
- `NoGapMeansRecovered`: a run asked for files that counts no gap handed over
  every lost file whose clusters are all free.

**analysis_run** (`MCAnalysisRun.cfg`, 999,856 states). Tables of three entries,
each one of nine (unused, blank or not; protective; without sectors; inside,
touching, at the end, past the end by part of a sector, past the end by more
than the word), an image of no, part of one, four or four and a half sectors,
any boot record in the first partition, every read able to fail.

- `CompleteMeansAnalysed`: "complete" is said only of a conventional table
  whose declared partitions were each analysed without a gap;
- `StatusTellsNothing`: exit status 3 exactly when nothing was analysed and
  there was something to analyse or no way to tell;
- `EveryPartitionReported`: no partition's failure stops another;
- `ReadsInsideEvidence`: the boot record that is read lies in what was digested;
- `OverlapsReported`: an overlap is reported exactly of two partitions that
  share a sector.

Three entries give a middle one between two others; the code's four are the
same loop. The word of 8 is smaller than the sums the entries make.

**volume_layout** (`MCVolumeLayout.cfg`, 90,378 states). Numbers of five bits,
sectors of four bytes with two FAT entries each. The fields take the values at
which the checks turn: products exactly at the word and one more, a FAT that
is exactly large enough, a volume that fills its extent, active-FAT indices up
to and past the last.

- `ReadsInsideVolume`: nothing outside the partition is read;
- `ReadsInItsRegion`: an allocation entry is read in the FAT that is meant,
  and content behind the last FAT;
- `ReadsApart`: two different reads share no byte, so no cluster's content is
  another's and no FAT entry is file content.

**exfat_boot_region** (`MCExFatBootRegion.cfg`, 62,852 states). The format's own
sector sizes and rules. Either one region has each combination of lengths,
offsets, cluster counts and roots around a rule's edge and the others are
blank, or each of the five offsets has one of a few: its own backup, one of
another size, one with two FATs, a malformed one, none. Partitions end at, and
one sector before, the end of each region. Only the largest 32-bit number is
smaller than in the code (2110), so that a volume of a megabyte meets it.

- `GeometryIsSound`: what is accepted needs no other check: regions, FAT and
  heap in order inside the volume, the volume inside the partition, a FAT entry
  for each cluster, no room for one more, the root one of them;
- `ReadsInsidePartition`;
- `SearchIsExhaustive`: a search neither chooses between candidates nor
  overlooks one, and a read failure is the whole answer.

**exfat_backup_start** (`MCExFatBackupStart.cfg`) shows `BackupStartsAtItsTwelve`
violated, see Findings.

**directory_history** (`MCDirectoryHistory.cfg`, 35,156 states). Five slots in two
clusters, four creations of three names with up to two components each, any
deletions and formats. Bytes have three bits, so every checksum is reached;
one name begins with the byte that has to be escaped, and differs from another
in that byte alone, so that only the checksum tells them apart.

- `ListingIsTheDirectory`: the entries are the files the driver would list, with
  their components in order, and the observations are true;
- `FirstByteIsEvidence`: where the slot before a deleted entry is a deleted
  component of the same name, its first byte is stated, and right.

Five slots hold two files with long names, one of which can be overwritten in
part by a third; four creations are one more than the names.

**directory_gap** (`MCDirectoryGap.cfg`) shows `AssociatesByPosition` violated, see
Findings.

**report** (`MCReport.cfg`, 2,699,862 states). Up to five arguments after the
path, each a flag, a digest, a directory or some other text; an evidence of up
to three bytes that is resized at will while two are read at a time; two
partitions and three events inside their volumes.

- `AcceptedAsAsked`: an invocation is accepted exactly if its arguments can be
  read as flags with their values in one way that gives each value once and
  has what it needs, and the options are that reading's;
- `DigestCoversWhatWasRead`: each byte once from the first on, and without a
  warning all that there was at open;
- `LineIsUnderItsHeading`: each finding is printed under the directory that holds
  it, in the one section of its pass. A pass has one title, before its first
  finding, and no section mixes the two parts. The titles tell walked from
  orphaned directories and not one part from the other: a directory with
  findings in both prints the same title twice, and one with a single section
  does not say which part it is of. A reader has the entry's position for that;
- `SummaryAgreesWithLines`: every figure of the summary, derived ones included,
  is the number of lines that told of it, coverage is complete exactly if no
  line told of a gap, and each caveat is there exactly if a line needs it.

Five arguments hold all three flags with their values, or one twice. Three
bytes make reads that are full, short and repeated. Three events inside
volumes are a free run and what became of it in one part and an entry of the
next part or directory; the flags that are kept between events are two.

Each property of a passing run has a seeded fault, a bug one could make at the
code the definition stands for, that the run finds.

**Fairness.** `VolumeWalk` has `WF_vars(Next)`: the code is loops of one thread
that waits only for reads, and a read returns data or an error. `ArtifactWriter`
has `WF_vars(Step)`, the run's own calls, which return; nothing makes anybody
kill a run, start another or delete a file. The other modules state no
liveness and no fairness.

**Deadlock** is checked everywhere. Each module has a stuttering action for
the state in which the program has ended.

## Proofs

The `*Proofs` modules hold theorems for every value of the constants.

`VolumeWalkProofs`, from `VolumeAssumption` (the root is a data cluster, a chain
may have at least one cluster):

- `TypeCorrect`. Typing is inductive only with the cursor of the search on a
  data cluster while a directory is being read.
- `ChainCorrect`: the chain being followed has distinct clusters, each linked
  to the next by the FAT; a deleted directory's is one free cluster.
- `ListedOnceCorrect` by `ListedInv`: what is being read is apart from `seen`
  at the moment it is reported, and each report's clusters are in `seen`.
- `ListingAgrees` from the chain invariant, each report being made of a chain
  at its end.
- `RefusalStandsCorrect` by `RefusalInv`: each name of a walked listing is in
  `named` or in the queue, the queue is empty once the search runs, and the
  search opens nothing that is in `named`.
- `NoGapCorrect` by `GapInv`: while no gap is counted, each cluster in `seen` is
  part of a report, the first cluster of a report is in its chain, each name is
  queued, in hand or reported, and the names of orphans wait in `listed` until
  the search has settled them. It rests on `RefusalInv`.
- `NoOrphanMissedCorrect` by `MissInv`: each free cluster with a signature that
  the cursor has passed was listed, named, or cost the search its life; what is
  in `named` was named by a listing that was reported.
- `OneFindingCorrect` by `FindingInv`. The names of the walk's listings are
  counted as pairs of a report and a position in it, so a report adds as many
  as it names and every other step of the walk takes one from the queue and
  puts it elsewhere.
- `WalkDescends`: every step lowers `Left`, the five numbers of what is still to
  do, read in order of weight: loops to run, clusters in no report, directories
  waiting, clusters to search, steps of the directory in hand. By
  `NoEndlessDescent` no sequence of such steps is endless. A report may make the
  queue any length, and is paid for by a cluster that was in no report; that
  the chain of a live directory is not empty when it ends (`FirstInChain`) and
  shares no cluster with `seen` is what makes it so. With deadlock checked by
  TLC this is `Terminates`, for every volume, except for `ENABLED`.

`ArtifactWriterProofs`, from `ListingAssumption` (a run has at least one cluster):

- `WriterTypeCorrect`, with the stream inside the run.
- `DigestCorrect` and `WriterHonest` by `WriterInv`: the hasher holds the clusters read, in order,
  and an artifact not yet told of has a file of this run only while its
  writer is open or broken.
- `NoGapCorrect` by `AccountInv`: artifacts are told of in order, the counters
  are zero only if nothing withheld was told, and a file counted as delivered
  is this run's or was deleted.
- `WriterDelivers`: each step is a step of `ArtifactDelivery` or a stutter
  under `FileOf` and `WordOf`.

`FileRecoveryProofs`, from `GeometryAssumption`: `RecoveryTypeCorrect` with the
clusters already checked (`Assessing`), `FreeRunsCorrect` and
`NoGapRecoveredCorrect` by `AnswerInv`: each answer fits its entry and the FAT,
and an answer that is a gap has its counter above zero; `AccountedCorrect` by
`TallyInv`: each counter is the cardinality of the entries with its answer, so
the figures are those of disjoint sets and the subtractions never saturate. The step from "each
cluster of the run is free" to "each byte lies in a free cluster" is the
division lemma at the head of the module.

`VolumeLayoutProofs`, from `LayoutAssumption`: `LayoutTypeCorrect`,
`ReadsInsideCorrect`, `RegionCorrect` and `ApartCorrect` by `LayoutInv` (a read
happens only after the record was accepted) and the lemma `Sound`: for an
accepted record no product was saturated, no sum wrapped, the metadata and
the clusters fit the extent and each FAT has its entries. That is why the
unchecked 32-bit sum of `first_data_sector` is right.

`AnalysisRunProofs`, from `TableAssumption` and `RunAssumption`, for a table of
any number of entries: `RunTypeCorrect`; `ReadsInsideEvidenceCorrect`, from the
division that counts whole sectors; `PartitionsReportedCorrect`,
`CompleteCorrect`, `StatusCorrect` and `OverlapsCorrect` by `RunInv`: verdicts
are given in the order of the table and only to entries the parser kept, a
counter is above zero exactly if its verdict was given, and a summary follows a
table that was not seen, a protective one, or one every entry of which was
gone through. The lemmas about the table come first: `LeftOutEmpty` (the count
of entries left out is zero exactly if no entry is without sectors or past the
end) and `SharedSectors` (the half-open comparison is the meeting of ranges).
Without them a counter at zero says nothing of the table.

`ExFatProofs`, from `ExFatGeometryAssumption` (sector and cluster sizes are
positive, each sector size is a multiple of the table's), for any sector sizes,
regions and partition: `TypeCorrect`; `GeometryCorrect`, by the lemma
`WellFormedSound` that takes the rules with their rounded divisions to the
order of regions; `ReadsInsideCorrect`; `SearchCorrect` by an invariant that
says of the candidates already tried that exactly the acceptable ones are in
`passed` (`Searched`), of an answer that it is about all of them (`SoundAnswer`,
`CompleteAnswer`), and that the sizes tried before the search were refused.

`ReportProofs`, from `InvocationAssumption` and `ReportAssumption`:

- `TypeCorrect`, with a partition left while a volume is reported on.
- `DigestCorrect` by `CoverInv`: what was hashed are the bytes before the
  cursor.
- `HeadingCorrect` by `HeadingInv`, which says which sections the sink's two flags
  stand for and that what a title says of a directory is how it was reached,
  and `LineInv`. The parts a section holds are a history the proof needs; what
  is printed is the title alone.
- `SummaryCorrect` by `CountInv`: counters and lines agree gap by gap
  (`GapsAgree` goes through the events), and a free run is at each moment
  recovered, given up, or the one in hand, and a recovered file compared, if
  there is a digest to compare it with, as equal or different. Hence no
  subtraction of the summary saturates.
- `AskedCorrect` by `ArgumentsInv`: the flags taken so far fill the arguments up
  to the next one without a gap, every reading of the arguments begins with
  them, and the options are what they ask for. So when the arguments are used
  up there is one reading left, the loop's.

`DirectoryProofs`, from `SlotsAssumption` and `HistoryAssumption`, for any even
number of byte values, any length of names and directories and any history:

- `HistoryInvariant`: a slot is blank exactly if nothing was written for a name
  there; otherwise it holds a component or a short entry of that name, except
  for its first byte (`WrittenFor`); and there is one end, before which each
  slot is deleted or belongs to exactly one file, whole (`Filed`).
- `FirstByteCorrect`, from `HistoryInvariant` and `ChksumTellsFirst`: names
  that differ in their first byte alone have different checksums. That needs
  `RotateInjective` (a rotation loses no bit; it is where an even number of byte
  values comes in) and that a sum modulo the byte tells its first summand
  (`ByteSumTells`), carried from byte to byte.
- `ExactlyOneFirstByte`: whatever bytes survive and whatever the checksum, exactly
  one first byte reproduces it, as ADR-0007 (C.2) and the comment of
  `recover_first_byte` say. There is at most one by `ChksumTellsFirst`, and an
  injection of a finite set into itself leaves no value out. `NoByteIsProof`: if
  no byte is given, no live name that ends in those bytes has the checksum, and
  if one is, it is the only one that may begin such a name.
- `TypeCorrect` and `ListingCorrect`, from the same invariant and what
  `Classify` makes of a component and of a short entry (`ComponentWritten`,
  `ShortWritten`).

The checksum is a recursive function, so that it has values at all is a lemma
(`SumsExist`). The inductions over the bytes of a name go through the
least-number principle, itself from the library's `WFMin`, which takes a set
where its induction rules take an operator.

Model-checked only: the liveness properties `Terminates` and `RunEnds`, which
need fairness and `ENABLED`. What fairness is spent on in the walk, that no step
can be repeated for ever, is proved (`WalkDescends`). Every invariant and action
property of the passing runs is a theorem as well.

## Findings

1. ADR-0016 says that no directory cluster is read twice in one run (line 69) and
   that the walk reads each data cluster as a directory at most once (172-173);
   a comment in `src/analysis.rs` (783-784) says that no directory is read twice.
   What the code keeps is less: no cluster of a listing is listed twice. A live chain that joins one
   already listed is followed to its end before the clusters are compared, so
   the shared ones are read again. The second reading is withheld; nothing
   reported is wrong, and the walk ends for another reason (`WalkDescends`: each
   chain is bounded by itself, and each directory taken up by the names of the
   ones listed).
2. `settle` reports a partial file as left when `remove_file` fails because the
   file is gone; `discard` in the same file does not, and says why.
   `docs/development/KNOWN_ISSUES.md` records the difference.

3. `parse_boot_region` uses the backup at the offset that the main region's sector
   size gives whenever it validates (`src/exfat_boot.rs` 522), without asking
   that its own sector size is that one. The comment of `search_backup`
   (550-551) says why it should be: a 512-byte region found at the 4096-byte
   candidate's offset is valid and no backup that starts there. If the field
   of the main region is damaged but in range, a smaller region that lies in
   the sectors read is returned, where the search would have refused it.
4. ADR-0009 (lines 325-327) associates a deleted short entry at slot *n* with
   components at *n-1*, *n-2* and so on. Past the terminator `enumerate` leaves
   out empty slots (`src/fat_directory.rs` 1102) and `associate` walks back over
   the list that remains, so the components may be in slots further back. The
   checksum has still to determine one byte.

One more observation without a run: a search that is stopped does not look at
`listed`, so directories named by the orphans already reported are not counted
one by one. The stopped search is itself a gap, so coverage is not complete.

## Assumptions

- The evidence may be resized until it is digested (`Invocation`); that its bytes
  are rewritten in place meanwhile is not tracked. It does not change afterwards. The program checks its length against the digest once and
  says so; its content is read again without another check.
- A directory is written by a driver that follows the format: components before
  their entry, one after another, deleted with it (`DirectoryHistory`). No name
  begins with a zero or a space, and an ordinal with its last-component bit stays
  below 0xE5 (`HistoryAssumption`; in the format 20 components and 0x40). The
  `directory_gap` run takes a directory of any content instead, as an image with
  unreadable sectors may have it.
- SHA-256 is injective: a digest is the sequence it covers.
- Other programs may delete files of the destination. That one replaces a
  partial file by its own between the last write and the removal is listed as a
  hazard and not modelled.
- `usize` counters do not overflow; there is less evidence than that.

## Not modelled, and why

- The listing `print_directory` prints, columns, and the wording of lines, errors
  and observations: layout, or text that no later step reads.
- The disk signature, labels, serial numbers and timestamps: output only.
- SHA-256 and the checksum of an exFAT region: arithmetic on bits with
  published test vectors. A digest is what it covers, a checksum is right or not.
- The text of long names: the code counts and checks components and never joins
  them.
- A partial file replaced by another program's between the last write and the
  removal (`src/extraction.rs` 341): the removal is by path, so the other
  program's file would go. It is a hazard without a property, as no document
  promises otherwise.
- The block-device checks of ADR-0015 Appendix A.3: not in the code.

## Plan

The order is that of harm: first what decides which bytes are reported as
whose (the walk, the writer, recovery), then what says how much was covered,
then the arithmetic under both, then decoding, then what the operator types and
reads.

1. done: `VolumeWalk`, its proofs.
2. done: `ArtifactDelivery`, `ArtifactWriter`, the refinement and its proof.
3. done: `FileRecovery`, its proofs.
4. done: `PartitionTable`, `AnalysisRun`, its proofs.
5. done: `VolumeLayout`, its proofs.
6. done: `DirectorySlots`, `DirectoryHistory`, their proofs.
7. done: `ExFatGeometry`, `ExFatBootRegion`, their proofs.
8. done: `Invocation`, `Report`, their proofs.
9. Composition: `VolumeWalk` and `FileRecovery` under one volume, refining the
   verdict and gaps that `AnalysisRun` assumes.
10. Proofs: that `Report`'s orders of events include those of the detailed
    modules, and that the composition of 9 is a refinement.
