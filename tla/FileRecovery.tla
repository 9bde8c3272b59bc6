---------------------------- MODULE FileRecovery ----------------------------
(***************************************************************************)
(* What a run says of each entry of the listings: eligibility and          *)
(* assess_listed of src/fat_recovery.rs, and the loop of report_recovery   *)
(* in src/analysis.rs that counts the answers.                             *)
(*                                                                         *)
(* An entry is evidence and may say anything: a size near the width of its *)
(* field, a first cluster that is reserved or past the volume.  Which FAT  *)
(* answers depends on the boot sector, and reading it may fail.            *)
(*                                                                         *)
(* The entries of every listing are one sequence, each with the listing    *)
(* it is from.  A FAT is the set of clusters it does not mark free.  What  *)
(* extract does is ArtifactWriter; here it is its outcome.                 *)
(***************************************************************************)
EXTENDS Integers, Sequences, FiniteSets

CONSTANTS
  LastCluster,    \* the last data cluster; the first is 2
  ClusterBytes,   \* bytes of a cluster
  SizeLimit,      \* sizes are below it, 2^32 in the code
  FatCount        \* the volume's FATs

FirstDataCluster == 2
Cluster == FirstDataCluster .. LastCluster
FatIndex == 0 .. FatCount - 1

\* identify_fat and parse_boot_sector accept no other volume.
ASSUME GeometryAssumption ==
  /\ LastCluster \in Nat /\ LastCluster >= FirstDataCluster
  /\ ClusterBytes \in Nat \ {0}
  /\ SizeLimit \in Nat \ {0}
  /\ FatCount \in Nat \ {0}

\* EntryKind and DeletedKind; `invalid' has both attribute bits set.
Entry == [kind : {"file", "directory", "volume_label", "long_name", "invalid"},
          deleted : BOOLEAN, listing : {"walked", "orphaned"},
          first : Nat, size : 0 .. SizeLimit - 1]

Options == [recover : BOOLEAN, reference : BOOLEAN, output : BOOLEAN]

\* What became of an entry, and for an extracted one of its file and digest.
Handed == {"written", "unverified"}
Undelivered == {"exists", "not_created", "failed"}
Answer == [kind : {"none", "ineligible", "empty", "reserved", "out_of_range", "broken",
                   "not_assessed", "free", "extracted", "not_extracted"},
           output : Handed \cup Undelivered \cup {"none"},
           outcome : {"match", "differs", "not_attempted"}]

VARIABLES
  entries,    \* the listings, in the order report_recovery is given them
  in_use,     \* of each FAT, the clusters whose entry is not 0
  mirroring,  \* whether BPB_ExtFlags keeps the FATs in step
  active,     \* its active-FAT bits, which mean nothing under mirroring
  options,
  step,       \* "next" entry, "assessing", "extracting", or "done"
  current,    \* the entry taken up last
  cluster,    \* assess_listed's `cluster'
  answer,     \* the events, by entry
  counts      \* the RunCounts fields this loop touches

volume == <<entries, in_use, mirroring, active, options>>
vars == <<entries, in_use, mirroring, active, options, step, current, cluster, answer, counts>>

Counts == [empty : Nat, reserved_cluster : Nat, run_out_of_range : Nat, refused : Nat,
           not_assessed : Nat, free_runs : Nat, not_extracted : Nat,
           not_delivered : Nat, matched : Nat]

TypeOK ==
  /\ entries \in Seq(Entry)
  /\ in_use \in [FatIndex -> SUBSET Cluster]
  /\ mirroring \in BOOLEAN /\ active \in FatIndex
  /\ options \in Options
  /\ step \in {"next", "assessing", "extracting", "done"}
  /\ current \in 0 .. Len(entries)
  /\ step \in {"assessing", "extracting"} => current # 0
  /\ cluster \in FirstDataCluster .. LastCluster + 1
  /\ step = "extracting" => options.recover
  /\ answer \in [1 .. Len(entries) -> Answer]
  /\ counts \in Counts

----------------------------------------------------------------------------
(***************************************************************************)
(* eligibility.                                                            *)
(***************************************************************************)

\* Seeded fault: whatever the listing, only deleted entries.
AskedIfDeleted(e) == e.deleted

\* A live file of an orphaned listing is asked about as a deleted one is.
Asked(e) == e.deleted \/ (e.listing = "orphaned" /\ e.kind = "file")

\* In 64-bit arithmetic, which the sum does not leave.
ClustersNeeded(size) == (size + ClusterBytes - 1) \div ClusterBytes

LastInRun(e) == e.first + ClustersNeeded(e.size) - 1

Empty(e) == e.kind = "file" /\ e.size = 0

Reserved(e) == e.kind = "file" /\ e.size # 0 /\ e.first < FirstDataCluster

\* Seeded fault: cluster_count + 2 is taken for the last data cluster.
PastEndLate(c) == c > LastCluster + 1

PastEnd(c) == c > LastCluster

Locates(e) == e.kind = "file" /\ e.size # 0 /\ e.first >= FirstDataCluster

OutOfRange(e) == Locates(e) /\ PastEnd(LastInRun(e))

HasRun(e) == Locates(e) /\ ~PastEnd(LastInRun(e))

\* Seeded fault: the first FAT, whichever is maintained.
FirstFat == 0

\* active_fat().unwrap_or(0).
ActiveFat == IF mirroring THEN 0 ELSE active

----------------------------------------------------------------------------
(***************************************************************************)
(* report_recovery, one entry at a time.                                   *)
(***************************************************************************)

Plain(kind) == [kind |-> kind, output |-> "none", outcome |-> "not_attempted"]

entry == entries[current + 1]

Take ==
  /\ step = "next" /\ current < Len(entries)
  /\ current' = current + 1
  /\ UNCHANGED volume

PassOver ==
  /\ Take
  /\ ~Asked(entry)
  /\ UNCHANGED <<step, cluster, answer, counts>>

\* A directory is a finding where it is read, and the others describe no file:
\* none of them is counted.
DescribesNoFile ==
  /\ Take
  /\ Asked(entry) /\ entry.kind # "file"
  /\ answer' = [answer EXCEPT ![current + 1] = Plain("ineligible")]
  /\ UNCHANGED <<step, cluster, counts>>

LocatesNothing ==
  /\ Take
  /\ Asked(entry)
  /\ \/ /\ Empty(entry)
        /\ answer' = [answer EXCEPT ![current + 1] = Plain("empty")]
        /\ counts' = [counts EXCEPT !.empty = @ + 1]
     \/ /\ Reserved(entry)
        /\ answer' = [answer EXCEPT ![current + 1] = Plain("reserved")]
        /\ counts' = [counts EXCEPT !.reserved_cluster = @ + 1]
     \/ /\ OutOfRange(entry)
        /\ answer' = [answer EXCEPT ![current + 1] = Plain("out_of_range")]
        /\ counts' = [counts EXCEPT !.run_out_of_range = @ + 1]
  /\ UNCHANGED <<step, cluster>>

Assess ==
  /\ Take
  /\ Asked(entry) /\ HasRun(entry)
  /\ step' = "assessing"
  /\ cluster' = entry.first
  /\ UNCHANGED <<answer, counts>>

Settle(a, c) ==
  /\ answer' = [answer EXCEPT ![current] = a]
  /\ counts' = c
  /\ UNCHANGED <<volume, current>>

MoreToCheck == cluster <= LastInRun(entries[current])

\* Seeded fault: an entry whose FAT cannot be read is passed over.
PassedOver(c) == c

NotAssessed(c) == [c EXCEPT !.not_assessed = @ + 1]

AssessFails ==
  /\ step = "assessing" /\ MoreToCheck
  /\ Settle(Plain("not_assessed"), NotAssessed(counts))
  /\ step' = "next"
  /\ UNCHANGED cluster

RunBroken ==
  /\ step = "assessing" /\ MoreToCheck
  /\ cluster \in in_use[ActiveFat]
  /\ Settle(Plain("broken"), [counts EXCEPT !.refused = @ + 1])
  /\ step' = "next"
  /\ UNCHANGED cluster

ClusterFree ==
  /\ step = "assessing" /\ MoreToCheck
  /\ cluster \notin in_use[ActiveFat]
  /\ cluster' = cluster + 1
  /\ UNCHANGED <<volume, step, current, answer, counts>>

Recoverable ==
  /\ step = "assessing" /\ ~MoreToCheck
  /\ Settle(Plain("free"), [counts EXCEPT !.free_runs = @ + 1])
  /\ step' = IF options.recover THEN "extracting" ELSE "next"
  /\ UNCHANGED cluster

NotExtracted(c) == [c EXCEPT !.not_extracted = @ + 1]

ExtractFails ==
  /\ step = "extracting"
  /\ Settle(Plain("not_extracted"), NotExtracted(counts))
  /\ step' = "next"
  /\ UNCHANGED cluster

\* Whatever the file's fate, the digest stands and is compared.
Extract ==
  /\ step = "extracting"
  /\ \E output \in IF options.output THEN Handed \cup Undelivered ELSE {"none"},
       outcome \in IF options.reference THEN {"match", "differs"} ELSE {"not_attempted"} :
       Settle([kind |-> "extracted", output |-> output, outcome |-> outcome],
              [counts EXCEPT !.not_delivered = @ + (IF output \in Undelivered THEN 1 ELSE 0),
                             !.matched = @ + (IF outcome = "match" THEN 1 ELSE 0)])
  /\ step' = "next"
  /\ UNCHANGED cluster

End ==
  /\ step = "next" /\ current = Len(entries)
  /\ step' = "done"
  /\ UNCHANGED <<volume, current, cluster, answer, counts>>

Finished == step = "done" /\ UNCHANGED vars

----------------------------------------------------------------------------

Start ==
  /\ step = "next"
  /\ current = 0
  /\ cluster = FirstDataCluster
  /\ answer = [i \in 1 .. Len(entries) |-> Plain("none")]
  /\ counts = [empty |-> 0, reserved_cluster |-> 0, run_out_of_range |-> 0, refused |-> 0,
               not_assessed |-> 0, free_runs |-> 0, not_extracted |-> 0,
               not_delivered |-> 0, matched |-> 0]

Init ==
  /\ entries \in Seq(Entry)
  /\ in_use \in [FatIndex -> SUBSET Cluster]
  /\ mirroring \in BOOLEAN /\ active \in FatIndex
  /\ options \in Options
  /\ Start

Next ==
  \/ PassOver
  \/ DescribesNoFile
  \/ LocatesNothing
  \/ Assess
  \/ AssessFails
  \/ RunBroken
  \/ ClusterFree
  \/ Recoverable
  \/ ExtractFails
  \/ Extract
  \/ End
  \/ Finished

Spec == Init /\ [][Next]_vars

----------------------------------------------------------------------------
(***************************************************************************)
(* What the summary derives from the counters.                             *)
(***************************************************************************)

Less(m, n) == IF m >= n THEN m - n ELSE 0

Artifacts == IF options.recover THEN Less(counts.free_runs, counts.not_extracted) ELSE 0
NotRead == IF options.recover THEN 0 ELSE counts.free_runs
Differed == IF options.reference THEN Less(Artifacts, counts.matched) ELSE 0

(***************************************************************************)
(* Properties.                                                             *)
(***************************************************************************)

Answered(kind) == {i \in DOMAIN answer : answer[i].kind = kind}

\* Files whose content is lost: nothing names what an orphaned listing holds.
Lost(e) == e.kind = "file" /\ (e.deleted \/ e.listing = "orphaned")

\* The summary accounts for every lost file exactly once, as an artifact or in one
\* part of the `unrecovered' line, and the figures it derives are what happened:
\* Artifacts and Differed are differences of counters that were each added to
\* somewhere else.
EveryFileAccounted ==
  /\ step # "extracting" =>
       /\ Artifacts = Cardinality(Answered("extracted"))
       /\ NotRead = Cardinality(Answered("free"))
       /\ Differed = Cardinality({i \in Answered("extracted") : answer[i].outcome = "differs"})
  /\ step = "done" =>
       Artifacts + counts.refused + NotRead + counts.not_assessed + counts.not_extracted
         + counts.empty + counts.reserved_cluster + counts.run_out_of_range
       = Cardinality({i \in DOMAIN entries : Lost(entries[i])})

\* Where each byte an entry declares would lie, if the file was not fragmented.
HomeOf(e, byte) == e.first + byte \div ClusterBytes

Current(f) == IF mirroring THEN f = 0 ELSE f = active

\* Every byte the entry declares lies in a data cluster its volume's current
\* FAT marks free.
FreeThroughout(e) ==
  \A byte \in 0 .. e.size - 1 :
    /\ HomeOf(e, byte) \in Cluster
    /\ \A f \in FatIndex : Current(f) => HomeOf(e, byte) \notin in_use[f]

\* A run is called free, and read, only if all of it is.
FreeRunsOnly ==
  \A i \in DOMAIN answer :
    answer[i].kind \in {"free", "extracted", "not_extracted"} =>
      entries[i].size > 0 /\ FreeThroughout(entries[i])

\* A run asked for files that counts no gap handed over every lost file whose
\* clusters are all free.
NoGapMeansRecovered ==
  /\ step = "done" /\ options.recover /\ options.output
  /\ counts.not_assessed + counts.not_extracted + counts.not_delivered = 0
  => \A i \in DOMAIN entries :
       Lost(entries[i]) /\ entries[i].size > 0 /\ FreeThroughout(entries[i])
       => answer[i].kind = "extracted" /\ answer[i].output \in Handed
=============================================================================
