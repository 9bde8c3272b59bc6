----------------------------- MODULE AnalysisRun -----------------------------
(***************************************************************************)
(* One run of the program, from checked arguments to its exit status: the  *)
(* end of main and inspect in src/main.rs, run and report_partition in     *)
(* src/analysis.rs, over the table of PartitionTable.                      *)
(*                                                                         *)
(* The evidence is a file whose every read may fail.  A volume's boot      *)
(* record is abstracted to what it is found to be; what is done with a     *)
(* FAT32 volume is the subject of VolumeWalk and FileRecovery and is here  *)
(* its verdict: the root was read or not, and the gaps the volume left.    *)
(***************************************************************************)
EXTENDS PartitionTable

CONSTANTS
  MaxLength,    \* bound on the bytes of the evidence
  MaxGaps       \* bound on the gaps of one volume

ASSUME RunAssumption == MaxLength \in Nat /\ MaxGaps \in Nat

\* What identify and parse_boot_sector find in a boot record.
Record == {"unidentified", "unsupported", "refused", "fat32"}

\* What became of a partition.
Verdict == {"none", "unread", "unidentified", "unsupported", "boot_rejected",
            "root_unread", "analysed"}

VARIABLES
  destination,  \* what --output names, if it was given
  length,       \* bytes the digest covered
  signature,    \* whether sector 0 ends in 0x55AA
  table,        \* its four entries
  record,       \* the boot record each entry points at
  step,         \* "arguments", "evidence", "table", "partitions", "summary", "exited"
  index,        \* the entry report_partition is called for next
  verdict,      \* the events, by partition
  gaps,         \* of each partition, the gaps inside its volume
  anomalies,    \* Event::Anomalies
  counts,       \* the RunCounts fields run and report_partition touch
  exit          \* the exit status

input == <<destination, length, signature, table, record>>
vars == <<destination, length, signature, table, record, step, index, verdict, gaps,
          anomalies, counts, exit>>

Counts == [volumes_analysed : Nat, table_unread : Nat, table_rejected : Nat,
           partitions_anomalous : Nat, gpt : Nat, partition_unread : Nat,
           unidentified : Nat, unsupported : Nat, boot_rejected : Nat,
           root_unread : Nat, in_volumes : Nat]

TypeOK ==
  /\ destination \in {"not_asked", "unusable", "holds_evidence", "apart"}
  /\ length \in 0 .. MaxLength
  /\ signature \in BOOLEAN
  /\ table \in [Index -> TableEntry]
  /\ record \in [Index -> Record]
  /\ step \in {"arguments", "evidence", "table", "partitions", "summary", "exited"}
  /\ index \in 1 .. EntryCount + 1
  /\ verdict \in [Index -> Verdict]
  /\ gaps \in [Index -> 0 .. MaxGaps]
  /\ anomalies \subseteq Anomaly
  /\ counts \in Counts
  /\ exit \in {"none", "success", "failure", "usage", "nothing_analysed"}

----------------------------------------------------------------------------
(***************************************************************************)
(* Before the analysis.                                                    *)
(***************************************************************************)

ExitWith(status) ==
  /\ step' = "exited"
  /\ exit' = status
  /\ UNCHANGED <<input, index, verdict, gaps, anomalies, counts>>

RefuseDestination ==
  /\ step = "arguments"
  /\ destination \in {"unusable", "holds_evidence"}
  /\ ExitWith("usage")

Accept ==
  /\ step = "arguments"
  /\ destination \in {"not_asked", "apart"}
  /\ step' = "evidence"
  /\ UNCHANGED <<input, index, verdict, gaps, anomalies, counts, exit>>

\* It cannot be opened, or not be read to its end.
EvidenceFails ==
  /\ step = "evidence"
  /\ ExitWith("failure")

Digested ==
  /\ step = "evidence"
  /\ step' = "table"
  /\ UNCHANGED <<input, index, verdict, gaps, anomalies, counts, exit>>

----------------------------------------------------------------------------
(***************************************************************************)
(* run.                                                                    *)
(***************************************************************************)

AfterTable(next, c, said) ==
  /\ step' = next
  /\ counts' = c
  /\ anomalies' = said
  /\ UNCHANGED <<input, index, verdict, gaps, exit>>

TableUnread ==
  /\ step = "table"
  /\ AfterTable("summary", [counts EXCEPT !.table_unread = @ + 1], {})

\* Only a whole first sector can be read.
TableRead == step = "table" /\ length >= SectorSize

TableRejected ==
  /\ TableRead
  /\ ~signature
  /\ AfterTable("summary", [counts EXCEPT !.table_rejected = @ + 1], {})

\* Seeded fault: an entry without sectors is thought to declare nothing.
LeftOutBeyondEnd(said) == {a \in said : a.kind = "PartitionBeyondEnd"}

\* The entries an anomaly left out: partitions that were declared.
LeftOut(said) == {a \in said : a.kind \in {"PartitionBeyondEnd", "ZeroLengthPartition"}}

GptDetected ==
  /\ TableRead
  /\ signature /\ IsGpt(table)
  /\ LET said == Anomalies(table, length) IN
     AfterTable("summary",
                [counts EXCEPT !.gpt = @ + 1,
                               !.partitions_anomalous = @ + Cardinality(LeftOut(said))],
                said)

PartitionsListed ==
  /\ TableRead
  /\ signature /\ ~IsGpt(table)
  /\ AfterTable("partitions", counts, {})

----------------------------------------------------------------------------
(***************************************************************************)
(* report_partition, by entry of the table.                                *)
(***************************************************************************)

\* Seeded fault: what cannot be identified ends the loop.
AfterOrLast(v) == IF v = "unidentified" THEN EntryCount + 1 ELSE index + 1

\* Whatever became of a partition, the next one follows.
After(v) == index + 1

NotListed ==
  /\ step = "partitions" /\ index \in Index
  /\ ~Kept(table[index], length)
  /\ index' = index + 1
  /\ UNCHANGED <<input, step, verdict, gaps, anomalies, counts, exit>>

Report(v, g, c) ==
  /\ step = "partitions" /\ index \in Index
  /\ Kept(table[index], length)
  /\ verdict' = [verdict EXCEPT ![index] = v]
  /\ gaps' = [gaps EXCEPT ![index] = g]
  /\ counts' = c
  /\ index' = After(v)
  /\ UNCHANGED <<input, step, anomalies, exit>>

PartitionUnread ==
  Report("unread", 0, [counts EXCEPT !.partition_unread = @ + 1])

\* Its first sector was read.
Found(r) == index \in Index /\ record[index] = r

PartitionUnidentified ==
  /\ Found("unidentified")
  /\ Report("unidentified", 0, [counts EXCEPT !.unidentified = @ + 1])

PartitionUnsupported ==
  /\ Found("unsupported")
  /\ Report("unsupported", 0, [counts EXCEPT !.unsupported = @ + 1])

BootSectorRejected ==
  /\ Found("refused")
  /\ Report("boot_rejected", 0, [counts EXCEPT !.boot_rejected = @ + 1])

RootDirectoryUnread ==
  /\ Found("fat32")
  /\ Report("root_unread", 0, [counts EXCEPT !.root_unread = @ + 1])

\* report_root_directory with a root that was read, and all that follows it.
Analysed ==
  /\ Found("fat32")
  /\ \E g \in 0 .. MaxGaps :
       Report("analysed", g, [counts EXCEPT !.volumes_analysed = @ + 1,
                                            !.in_volumes = @ + g])

PartitionsReported ==
  /\ step = "partitions" /\ index = EntryCount + 1
  /\ LET said == Anomalies(table, length) IN
     AfterTable("summary",
                [counts EXCEPT !.partitions_anomalous = @ + Cardinality(LeftOut(said))],
                said)

----------------------------------------------------------------------------
(***************************************************************************)
(* The coverage, and main's exit status.                                   *)
(***************************************************************************)

\* Seeded fault: a protective table is an observation, not a gap.
GapsBesideGpt(c) ==
  c.table_unread + c.table_rejected + c.partitions_anomalous + c.partition_unread
    + c.unidentified + c.unsupported + c.boot_rejected + c.root_unread + c.in_volumes

\* RunCounts::gaps; in_volumes stands for the six kinds a volume's report adds.
Gaps(c) ==
  c.table_unread + c.table_rejected + c.partitions_anomalous + c.gpt + c.partition_unread
    + c.unidentified + c.unsupported + c.boot_rejected + c.root_unread + c.in_volumes

Coverage(c) ==
  IF Gaps(c) = 0 THEN "complete"
  ELSE IF c.volumes_analysed = 0 THEN "none"
  ELSE "incomplete"

Status(coverage) == IF coverage = "none" THEN "nothing_analysed" ELSE "success"

Summary ==
  /\ step = "summary"
  /\ ExitWith(Status(Coverage(counts)))

Exited == step = "exited" /\ UNCHANGED vars

----------------------------------------------------------------------------

Start ==
  /\ step = "arguments"
  /\ index = 1
  /\ verdict = [i \in Index |-> "none"]
  /\ gaps = [i \in Index |-> 0]
  /\ anomalies = {}
  /\ counts = [volumes_analysed |-> 0, table_unread |-> 0, table_rejected |-> 0,
               partitions_anomalous |-> 0, gpt |-> 0, partition_unread |-> 0,
               unidentified |-> 0, unsupported |-> 0, boot_rejected |-> 0,
               root_unread |-> 0, in_volumes |-> 0]
  /\ exit = "none"

Init ==
  /\ destination \in {"not_asked", "unusable", "holds_evidence", "apart"}
  /\ length \in 0 .. MaxLength
  /\ signature \in BOOLEAN
  /\ table \in [Index -> TableEntry]
  /\ record \in [Index -> Record]
  /\ Start

Next ==
  \/ RefuseDestination
  \/ Accept
  \/ EvidenceFails
  \/ Digested
  \/ TableUnread
  \/ TableRejected
  \/ GptDetected
  \/ PartitionsListed
  \/ NotListed
  \/ PartitionUnread
  \/ PartitionUnidentified
  \/ PartitionUnsupported
  \/ BootSectorRejected
  \/ RootDirectoryUnread
  \/ Analysed
  \/ PartitionsReported
  \/ Summary
  \/ Exited

Spec == Init /\ [][Next]_vars

----------------------------------------------------------------------------
(***************************************************************************)
(* Properties.                                                             *)
(***************************************************************************)

\* A partition some tool wrote into the table.
Declared(i) == table[i].type = "other"

TableSeen == counts.table_unread + counts.table_rejected = 0

Done(i) == verdict[i] = "analysed" /\ gaps[i] = 0

\* A run that says it covered everything did: it saw a conventional table, and
\* every entry with a type is a volume it analysed without a gap.
CompleteMeansAnalysed ==
  step = "exited" /\ exit \in {"success", "nothing_analysed"} /\ Coverage(counts) = "complete"
  => TableSeen /\ ~IsGpt(table) /\ \A i \in Index : Declared(i) => Done(i)

\* The exit status tells a run that analysed nothing from one that had nothing
\* to analyse: an unreadable, refused or protective table, or one that declares
\* partitions of which none was analysed.
StatusTellsNothing ==
  step = "exited" /\ exit \in {"success", "nothing_analysed"} =>
    (exit = "nothing_analysed" <=>
       /\ \A i \in Index : verdict[i] # "analysed"
       /\ ~TableSeen \/ \E i \in Index : table[i].type # "unused")

\* One partition's failure stops no other: at the end each listed one has a
\* verdict, and none that was left out has.
EveryPartitionReported ==
  step \in {"summary", "exited"} /\ exit \notin {"usage", "failure"} /\ TableSeen /\ ~IsGpt(table)
  => \A i \in Index : verdict[i] # "none" <=> Kept(table[i], length)

\* The sector report_partition reads is whole in what the digest covered.
ReadsInsideEvidence ==
  step = "partitions" /\ index \in Index /\ Kept(table[index], length) =>
    (table[index].start_lba + 1) * SectorSize <= length

SectorsOf(p) == p.start_lba .. p.start_lba + p.sector_count - 1

\* An overlap is reported of two partitions exactly if they share a sector.
OverlapsReported ==
  step = "summary" /\ TableSeen /\ ~IsGpt(table) =>
    \A i, j \in Partitions(table, length) :
      i < j => (SectorsOf(table[i]) \cap SectorsOf(table[j]) # {}
                  <=> [kind |-> "OverlappingPartitions", of |-> {i, j}] \in anomalies)
=============================================================================
