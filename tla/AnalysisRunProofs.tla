-------------------------- MODULE AnalysisRunProofs --------------------------
(***************************************************************************)
(* Theorems about AnalysisRun, for every table, every number of entries    *)
(* and every length of the evidence.                                       *)
(***************************************************************************)
EXTENDS AnalysisRun, FiniteSetTheorems, TLAPS

----------------------------------------------------------------------------
(***************************************************************************)
(* The table.                                                              *)
(***************************************************************************)

\* The whole sectors of a length fit in it.
LEMMA SectorsFit ==
  ASSUME NEW n \in Nat
  PROVE  Sectors(n) \in Nat /\ Sectors(n) * SectorSize <= n
<1>1. SectorSize \in Nat \ {0}
  BY TableAssumption
<1> DEFINE q == n \div SectorSize
<1>2. q \in Nat /\ SectorSize * q <= n
  BY <1>1, SMT
<1>3. SectorSize * q = q * SectorSize
  BY <1>1, <1>2, SMT
<1> QED
  BY <1>2, <1>3 DEF Sectors

\* What is said of the partitions together.
LEMMA TableAnomaliesAre ==
  ASSUME NEW t, NEW n, NEW a \in TableAnomalies(t, n)
  PROVE  \/ \E i, j \in Partitions(t, n) :
              /\ i < j /\ Overlap(t[i], t[j])
              /\ a = [kind |-> "OverlappingPartitions", of |-> {i, j}]
         \/ a = [kind |-> "MultipleBootablePartitions", of |-> {}]
         \/ a = [kind |-> "EntriesOutOfOrder", of |-> {}]
<1>1. \/ a \in Overlaps(t, n)
      \/ a = [kind |-> "MultipleBootablePartitions", of |-> {}]
      \/ a = [kind |-> "EntriesOutOfOrder", of |-> {}]
  BY Zenon DEF TableAnomalies
<1>2. ASSUME a \in Overlaps(t, n)
      PROVE  \E i, j \in Partitions(t, n) :
               /\ i < j /\ Overlap(t[i], t[j])
               /\ a = [kind |-> "OverlappingPartitions", of |-> {Number(i), Number(j)}]
  BY <1>2, Zenon DEF Overlaps
<1> QED
  BY <1>1, <1>2 DEF Number

\* What anomalies are made of.
LEMMA AnomaliesTyped ==
  ASSUME NEW t \in [Index -> TableEntry], NEW n \in Nat
  PROVE  Anomalies(t, n) \subseteq Anomaly
<1>1. EntryAnomalies(t, n) \subseteq Anomaly
  <2> SUFFICES ASSUME NEW i \in Examined(t), NEW kind \in Said(t[i], n)
               PROVE  [kind |-> kind, of |-> {Number(i)}] \in Anomaly
    BY DEF EntryAnomalies
  <2>1. i \in Index
    BY DEF Examined
  <2>2. kind \in {"NonZeroUnusedEntry", "ZeroLengthPartition", "PartitionBeyondEnd",
                  "InvalidBootIndicator"}
    BY DEF Said
  <2> QED
    BY <2>1, <2>2 DEF Anomaly, Number
<1>2. TableAnomalies(t, n) \subseteq Anomaly
  <2> SUFFICES ASSUME NEW a \in TableAnomalies(t, n)
               PROVE  a \in Anomaly
    OBVIOUS
  <2>1. \/ \E i, j \in Partitions(t, n) : a = [kind |-> "OverlappingPartitions", of |-> {i, j}]
        \/ a = [kind |-> "MultipleBootablePartitions", of |-> {}]
        \/ a = [kind |-> "EntriesOutOfOrder", of |-> {}]
    BY TableAnomaliesAre
  <2>2. Partitions(t, n) \subseteq Index
    BY DEF Partitions
  <2> QED
    BY <2>1, <2>2 DEF Anomaly
<1> QED
  BY <1>1, <1>2 DEF Anomalies

\* The entries left out are of two kinds, one anomaly each at most.
LEMMA LeftOutOf ==
  ASSUME NEW t \in [Index -> TableEntry], NEW n \in Nat,
         NEW a \in LeftOut(Anomalies(t, n))
  PROVE  \E i \in Index :
           \/ ZeroLength(t[i]) /\ a = [kind |-> "ZeroLengthPartition", of |-> {i}]
           \/ BeyondEnd(t[i], n) /\ a = [kind |-> "PartitionBeyondEnd", of |-> {i}]
<1>1. a \in EntryAnomalies(t, n) \cup TableAnomalies(t, n)
  BY DEF LeftOut, Anomalies
<1>2. a.kind \in {"PartitionBeyondEnd", "ZeroLengthPartition"}
  BY DEF LeftOut
<1>3. a \notin TableAnomalies(t, n)
  <2> SUFFICES ASSUME a \in TableAnomalies(t, n)
               PROVE  FALSE
    OBVIOUS
  <2>1. \/ \E i, j \in Partitions(t, n) : a = [kind |-> "OverlappingPartitions", of |-> {i, j}]
        \/ a = [kind |-> "MultipleBootablePartitions", of |-> {}]
        \/ a = [kind |-> "EntriesOutOfOrder", of |-> {}]
    BY TableAnomaliesAre
  <2> QED
    BY <2>1, <1>2
<1>4. PICK i \in Examined(t) : \E kind \in Said(t[i], n) : a = [kind |-> kind, of |-> {Number(i)}]
  BY <1>1, <1>3 DEF EntryAnomalies
<1>5. PICK kind \in Said(t[i], n) : a = [kind |-> kind, of |-> {Number(i)}]
  BY <1>4
<1>6. i \in Index /\ Number(i) = i
  BY DEF Examined, Number
<1>7. kind \in {"PartitionBeyondEnd", "ZeroLengthPartition"}
  BY <1>2, <1>5
<1>8. \/ kind = "ZeroLengthPartition" /\ ZeroLength(t[i])
      \/ kind = "PartitionBeyondEnd" /\ BeyondEnd(t[i], n)
  BY <1>7 DEF Said
<1> QED
  BY <1>5, <1>6, <1>8

\* One anomaly of a kind for each entry makes a finite set.
LEMMA OneEachFinite ==
  ASSUME NEW kind
  PROVE  IsFiniteSet({[kind |-> kind, of |-> {i}] : i \in Index})
<1> DEFINE T == {[kind |-> kind, of |-> {i}] : i \in Index}
           f == [i \in Index |-> [kind |-> kind, of |-> {i}]]
<1>1. IsFiniteSet(Index)
  BY TableAssumption, FS_Interval DEF Index
<1>2. f \in Surjection(Index, T)
  BY DEF Surjection
<1> HIDE DEF T, f
<1>3. IsFiniteSet(T)
  BY <1>1, <1>2, FS_Surjection
<1> QED
  BY <1>3 DEF T

\* They can be counted.
LEMMA LeftOutCounted ==
  ASSUME NEW t \in [Index -> TableEntry], NEW n \in Nat
  PROVE  /\ Cardinality(LeftOut(Anomalies(t, n))) \in Nat
         /\ Cardinality(LeftOut(Anomalies(t, n))) = 0 <=> LeftOut(Anomalies(t, n)) = {}
<1> DEFINE Z == {[kind |-> "ZeroLengthPartition", of |-> {i}] : i \in Index}
           B == {[kind |-> "PartitionBeyondEnd", of |-> {i}] : i \in Index}
           L == LeftOut(Anomalies(t, n))
<1>1. L \subseteq Z \cup B
  BY LeftOutOf
<1>2. IsFiniteSet(Z) /\ IsFiniteSet(B)
  BY OneEachFinite
<1> HIDE DEF Z, B, L
<1>3. IsFiniteSet(Z \cup B)
  BY <1>2, FS_Union
<1>4. IsFiniteSet(L)
  BY <1>1, <1>3, FS_Subset
<1>5. Cardinality(L) \in Nat /\ (Cardinality(L) = 0 <=> L = {})
  BY <1>4, FS_CardinalityType, FS_EmptySet
<1> QED
  BY <1>5 DEF L

\* On a conventional table an entry is left out exactly if there is a
\* partition without sectors or past the end.
LEMMA LeftOutEmpty ==
  ASSUME NEW t \in [Index -> TableEntry], NEW n \in Nat, ~IsGpt(t)
  PROVE  LeftOut(Anomalies(t, n)) = {}
           <=> \A i \in Index : ~ZeroLength(t[i]) /\ ~BeyondEnd(t[i], n)
<1>1. ASSUME LeftOut(Anomalies(t, n)) # {}
      PROVE  \E i \in Index : ZeroLength(t[i]) \/ BeyondEnd(t[i], n)
  BY <1>1, LeftOutOf
<1>2. ASSUME NEW i \in Index, ZeroLength(t[i]) \/ BeyondEnd(t[i], n)
      PROVE  LeftOut(Anomalies(t, n)) # {}
  <2>1. i \in Examined(t)
    BY DEF Examined, IsGpt
  <2>2. \E kind \in {"ZeroLengthPartition", "PartitionBeyondEnd"} : kind \in Said(t[i], n)
    BY <1>2 DEF Said
  <2>3. PICK kind \in {"ZeroLengthPartition", "PartitionBeyondEnd"} : kind \in Said(t[i], n)
    BY <2>2
  <2> DEFINE S(j) == {[kind |-> k, of |-> {Number(j)}] : k \in Said(t[j], n)}
  <2>4. [kind |-> kind, of |-> {Number(i)}] \in S(i)
    BY <2>3
  <2>5. EntryAnomalies(t, n) = UNION {S(j) : j \in Examined(t)}
    BY DEF EntryAnomalies
  <2> HIDE DEF S
  <2>6. [kind |-> kind, of |-> {Number(i)}] \in EntryAnomalies(t, n)
    BY <2>1, <2>4, <2>5, Zenon
  <2> QED
    BY <2>6 DEF LeftOut, Anomalies
<1> QED
  BY <1>1, <1>2

----------------------------------------------------------------------------
(***************************************************************************)
(* Types.                                                                  *)
(***************************************************************************)

\* Counters that grow are counters.
LEMMA CountsGrow ==
  ASSUME NEW c \in Counts, NEW n \in Nat
  PROVE  /\ [c EXCEPT !.gpt = @ + 1, !.partitions_anomalous = @ + n] \in Counts
         /\ [c EXCEPT !.partitions_anomalous = @ + n] \in Counts
         /\ [c EXCEPT !.volumes_analysed = @ + 1, !.in_volumes = @ + n] \in Counts
<1>1. /\ c.gpt + 1 \in Nat /\ c.partitions_anomalous + n \in Nat
      /\ c.volumes_analysed + 1 \in Nat /\ c.in_volumes + n \in Nat
  BY DEF Counts
<1>2. ASSUME NEW x \in Nat, NEW y \in Nat
      PROVE  /\ [[c EXCEPT !.gpt = x] EXCEPT !.partitions_anomalous = y] \in Counts
             /\ [[c EXCEPT !.volumes_analysed = x] EXCEPT !.in_volumes = y] \in Counts
             /\ [c EXCEPT !.partitions_anomalous = y] \in Counts
  BY DEF Counts
<1> QED
  BY <1>1, <1>2

\* A partition's report keeps the types.
LEMMA ReportTyped ==
  ASSUME TypeOK, NEW v \in Verdict, NEW g \in 0 .. MaxGaps, NEW c \in Counts,
         Report(v, g, c)
  PROVE  TypeOK'
BY TableAssumption DEF Report, TypeOK, After, Index, input

\* Every step keeps the types.
LEMMA TypeStep ==
  ASSUME TypeOK, [Next]_vars
  PROVE  TypeOK'
<1>0. counts \in Counts /\ length \in Nat /\ table \in [Index -> TableEntry]
  BY RunAssumption DEF TypeOK
<1>1. ASSUME NEW status \in {"success", "failure", "usage", "nothing_analysed"},
             ExitWith(status)
      PROVE  TypeOK'
  BY <1>1 DEF ExitWith, TypeOK, input
<1>2. ASSUME NEW next \in {"summary", "partitions"}, NEW c \in Counts,
             NEW said \in SUBSET Anomaly, AfterTable(next, c, said)
      PROVE  TypeOK'
  BY <1>2 DEF AfterTable, TypeOK, input
<1>3. CASE RefuseDestination
  BY <1>1, <1>3 DEF RefuseDestination
<1>4. CASE Accept
  BY <1>4 DEF Accept, TypeOK, input
<1>5. CASE EvidenceFails
  BY <1>1, <1>5 DEF EvidenceFails
<1>6. CASE Digested
  BY <1>6 DEF Digested, TypeOK, input
<1>7. CASE TableUnread
  <2>1. [counts EXCEPT !.table_unread = @ + 1] \in Counts
    BY <1>0 DEF Counts
  <2> QED
    BY <1>2, <1>7, <2>1 DEF TableUnread
<1>8. CASE TableRejected
  <2>1. [counts EXCEPT !.table_rejected = @ + 1] \in Counts
    BY <1>0 DEF Counts
  <2> QED
    BY <1>2, <1>8, <2>1 DEF TableRejected
<1>9. CASE GptDetected
  <2> DEFINE said == Anomalies(table, length)
             c == [counts EXCEPT !.gpt = @ + 1,
                                 !.partitions_anomalous = @ + Cardinality(LeftOut(said))]
  <2>1. said \subseteq Anomaly /\ Cardinality(LeftOut(said)) \in Nat
    BY <1>0, AnomaliesTyped, LeftOutCounted
  <2>2. AfterTable("summary", c, said)
    BY <1>9 DEF GptDetected
  <2> HIDE DEF said
  <2>3. c \in Counts
    BY <1>0, <2>1, CountsGrow
  <2> QED
    BY <1>2, <2>1, <2>2, <2>3
<1>10. CASE PartitionsListed
  BY <1>0, <1>2, <1>10 DEF PartitionsListed
<1>11. CASE NotListed
  BY <1>11, TableAssumption DEF NotListed, TypeOK, Index, input
<1>12. CASE PartitionUnread
  <2>1. [counts EXCEPT !.partition_unread = @ + 1] \in Counts
    BY <1>0 DEF Counts
  <2> QED
    BY <1>12, <2>1, RunAssumption, ReportTyped DEF PartitionUnread, Verdict
<1>13. CASE PartitionUnidentified
  <2>1. [counts EXCEPT !.unidentified = @ + 1] \in Counts
    BY <1>0 DEF Counts
  <2> QED
    BY <1>13, <2>1, RunAssumption, ReportTyped DEF PartitionUnidentified, Verdict
<1>14. CASE PartitionUnsupported
  <2>1. [counts EXCEPT !.unsupported = @ + 1] \in Counts
    BY <1>0 DEF Counts
  <2> QED
    BY <1>14, <2>1, RunAssumption, ReportTyped DEF PartitionUnsupported, Verdict
<1>15. CASE BootSectorRejected
  <2>1. [counts EXCEPT !.boot_rejected = @ + 1] \in Counts
    BY <1>0 DEF Counts
  <2> QED
    BY <1>15, <2>1, RunAssumption, ReportTyped DEF BootSectorRejected, Verdict
<1>16. CASE RootDirectoryUnread
  <2>1. [counts EXCEPT !.root_unread = @ + 1] \in Counts
    BY <1>0 DEF Counts
  <2> QED
    BY <1>16, <2>1, RunAssumption, ReportTyped DEF RootDirectoryUnread, Verdict
<1>17. CASE Analysed
  <2>1. PICK g \in 0 .. MaxGaps :
          Report("analysed", g, [counts EXCEPT !.volumes_analysed = @ + 1, !.in_volumes = @ + g])
    BY <1>17 DEF Analysed
  <2>2. g \in Nat
    BY RunAssumption
  <2>3. [counts EXCEPT !.volumes_analysed = @ + 1, !.in_volumes = @ + g] \in Counts
    BY <1>0, <2>2, CountsGrow, Zenon
  <2> QED
    BY <2>1, <2>3, ReportTyped DEF Verdict
<1>18. CASE PartitionsReported
  <2> DEFINE said == Anomalies(table, length)
             c == [counts EXCEPT !.partitions_anomalous = @ + Cardinality(LeftOut(said))]
  <2>1. said \subseteq Anomaly /\ Cardinality(LeftOut(said)) \in Nat
    BY <1>0, AnomaliesTyped, LeftOutCounted
  <2>2. AfterTable("summary", c, said)
    BY <1>18 DEF PartitionsReported
  <2> HIDE DEF said
  <2>3. c \in Counts
    BY <1>0, <2>1, CountsGrow
  <2> QED
    BY <1>2, <2>1, <2>2, <2>3
<1>19. CASE Summary
  BY <1>1, <1>19 DEF Summary, Status
<1>20. CASE UNCHANGED vars
  BY <1>20 DEF vars, TypeOK
<1> QED
  BY <1>3, <1>4, <1>5, <1>6, <1>7, <1>8, <1>9, <1>10, <1>11, <1>12, <1>13, <1>14,
     <1>15, <1>16, <1>17, <1>18, <1>19, <1>20 DEF Next, Exited

\* Whatever the evidence holds and whichever reads fail, every state of a run
\* is well typed.
THEOREM RunTypeCorrect == Spec => []TypeOK
<1>1. Init => TypeOK
  BY TableAssumption, RunAssumption DEF Init, Start, TypeOK, Verdict, Counts, Index
<1> QED
  BY <1>1, TypeStep, PTL DEF Spec

\* Every boot record a run reads lies in what the digest covered.
THEOREM ReadsInsideEvidenceCorrect == Spec => []ReadsInsideEvidence
<1>1. TypeOK => ReadsInsideEvidence
  <2> SUFFICES ASSUME TypeOK, index \in Index, Kept(table[index], length)
               PROVE  (table[index].start_lba + 1) * SectorSize <= length
    BY DEF ReadsInsideEvidence
  <2> DEFINE p == table[index]
  <2>1. p \in TableEntry /\ length \in Nat
    BY RunAssumption DEF TypeOK
  <2>2. p.start_lba \in Nat /\ p.sector_count \in Nat /\ p.sector_count # 0
    BY <2>1, TableAssumption DEF TableEntry, Kept
  <2>3. p.start_lba + 1 <= Sectors(length) /\ Sectors(length) \in Nat
    BY <2>1, <2>2, SectorsFit DEF Kept, EndLba
  <2> HIDE DEF p
  <2>4. (p.start_lba + 1) * SectorSize <= Sectors(length) * SectorSize
    <3> DEFINE a == p.start_lba + 1
               b == Sectors(length)
    <3>1. a \in Nat /\ b \in Nat /\ a <= b /\ SectorSize \in Nat
      BY <2>2, <2>3, TableAssumption
    <3> HIDE DEF a, b
    <3>2. a * SectorSize <= b * SectorSize
      BY <3>1, SMT
    <3> QED
      BY <3>2 DEF a, b
  <2>5. Sectors(length) * SectorSize <= length
    BY <2>1, SectorsFit
  <2>6. (p.start_lba + 1) * SectorSize <= length
    <3> DEFINE a == (p.start_lba + 1) * SectorSize
               b == Sectors(length) * SectorSize
    <3>1. a \in Int /\ b \in Int /\ length \in Int /\ a <= b /\ b <= length
      BY <2>1, <2>2, <2>3, <2>4, <2>5, TableAssumption
    <3> HIDE DEF a, b
    <3>2. a <= length
      BY <3>1
    <3> QED
      BY <3>2 DEF a
  <2> QED
    BY <2>6 DEF p
<1> QED
  BY <1>1, RunTypeCorrect, PTL

----------------------------------------------------------------------------
(***************************************************************************)
(* What the counters know of the table and of the partitions.              *)
(***************************************************************************)

Reported(v) == \E i \in Index : verdict[i] = v

\* Verdicts are given in order, to the entries the parser kept.
VerdictsInOrder ==
  \A i \in Index : verdict[i] # "none" <=> i < index /\ Kept(table[i], length)

\* A counter is above zero exactly if its verdict was given.
VerdictsCounted ==
  /\ counts.partition_unread # 0 <=> Reported("unread")
  /\ counts.unidentified # 0 <=> Reported("unidentified")
  /\ counts.unsupported # 0 <=> Reported("unsupported")
  /\ counts.boot_rejected # 0 <=> Reported("boot_rejected")
  /\ counts.root_unread # 0 <=> Reported("root_unread")
  /\ counts.volumes_analysed # 0 <=> Reported("analysed")

GapsCounted ==
  /\ counts.in_volumes # 0 => Reported("analysed")
  /\ \A i \in Index : gaps[i] <= counts.in_volumes

\* Until the partitions are done, nothing is counted of the table.
NothingYet ==
  /\ step \in {"arguments", "evidence", "table"} => index = 1
  /\ step = "partitions" => ~IsGpt(table)
  /\ step \in {"arguments", "evidence", "table", "partitions"} =>
       /\ counts.table_unread = 0 /\ counts.table_rejected = 0
       /\ counts.partitions_anomalous = 0 /\ counts.gpt = 0

\* A summary follows a table that was not seen, a protective one, or one whose
\* every entry was gone through.
TableSettled ==
  \/ ~TableSeen
  \/ TableSeen /\ IsGpt(table) /\ counts.gpt # 0
  \/ /\ TableSeen /\ ~IsGpt(table) /\ counts.gpt = 0 /\ index = EntryCount + 1
     /\ counts.partitions_anomalous = 0
          <=> \A i \in Index : ~ZeroLength(table[i]) /\ ~BeyondEnd(table[i], length)
     /\ anomalies = Anomalies(table, length)

Summarised == step = "exited" /\ exit \notin {"usage", "failure"}

ExitDerived ==
  /\ step = "summary" \/ Summarised => TableSettled
  /\ Summarised => exit = Status(Coverage(counts))

RunInv == VerdictsInOrder /\ VerdictsCounted /\ GapsCounted /\ NothingYet /\ ExitDerived

\* A partition's report gives the next entry its verdict, and counts it.
LEMMA ReportKeeps ==
  ASSUME TypeOK, RunInv,
         NEW v \in Verdict \ {"none"}, NEW g \in 0 .. MaxGaps, NEW c \in Counts,
         Report(v, g, c),
         /\ c.table_unread = counts.table_unread /\ c.table_rejected = counts.table_rejected
         /\ c.partitions_anomalous = counts.partitions_anomalous /\ c.gpt = counts.gpt,
         /\ c.partition_unread # 0 <=> counts.partition_unread # 0 \/ v = "unread"
         /\ c.unidentified # 0 <=> counts.unidentified # 0 \/ v = "unidentified"
         /\ c.unsupported # 0 <=> counts.unsupported # 0 \/ v = "unsupported"
         /\ c.boot_rejected # 0 <=> counts.boot_rejected # 0 \/ v = "boot_rejected"
         /\ c.root_unread # 0 <=> counts.root_unread # 0 \/ v = "root_unread"
         /\ c.volumes_analysed # 0 <=> counts.volumes_analysed # 0 \/ v = "analysed",
         c.in_volumes = counts.in_volumes + g,
         v # "analysed" => g = 0
  PROVE  RunInv'
<1>1. /\ step = "partitions" /\ step' = step /\ index \in Index /\ index' = index + 1
      /\ Kept(table[index], length)
      /\ table' = table /\ length' = length /\ exit' = exit /\ counts' = c
  BY DEF Report, After, input
<1>2. /\ index \in Nat
      /\ verdict \in [Index -> Verdict] /\ verdict' = [verdict EXCEPT ![index] = v]
      /\ gaps \in [Index -> 0 .. MaxGaps] /\ gaps' = [gaps EXCEPT ![index] = g]
  BY <1>1, TableAssumption DEF Report, TypeOK, Index
<1>3. verdict[index] = "none"
  BY <1>1, <1>2 DEF RunInv, VerdictsInOrder
<1>4. VerdictsInOrder'
  <2> SUFFICES ASSUME NEW i \in Index
               PROVE  verdict'[i] # "none" <=> i < index' /\ Kept(table'[i], length')
    BY DEF VerdictsInOrder
  <2>1. CASE i = index
    BY <1>1, <1>2, <2>1
  <2>2. CASE i # index
    <3>1. verdict'[i] = verdict[i] /\ (i < index <=> i < index')
      BY <1>1, <1>2, <2>2 DEF Index
    <3> QED
      BY <1>1, <3>1 DEF RunInv, VerdictsInOrder
  <2> QED
    BY <2>1, <2>2
<1>5. \A w \in Verdict \ {"none"} : Reported(w)' <=> Reported(w) \/ w = v
  BY <1>1, <1>2, <1>3 DEF Reported
<1>6. VerdictsCounted'
  BY <1>1, <1>5 DEF RunInv, VerdictsCounted, Verdict
<1>7. GapsCounted'
  <2>1. counts.in_volumes \in Nat /\ c.in_volumes \in Nat /\ g \in Nat
    BY RunAssumption DEF TypeOK, Counts
  <2>2. c.in_volumes # 0 => Reported("analysed")'
    <3>1. c.in_volumes # 0 => counts.in_volumes # 0 \/ v = "analysed"
      BY <2>1
    <3>2. counts.in_volumes # 0 => Reported("analysed")
      BY DEF RunInv, GapsCounted
    <3> QED
      BY <1>5, <3>1, <3>2 DEF Verdict
  <2>3. ASSUME NEW i \in Index
        PROVE  gaps'[i] <= c.in_volumes
    <3>1. gaps[i] <= counts.in_volumes /\ gaps[i] \in Nat
      BY <1>2, RunAssumption DEF RunInv, GapsCounted
    <3>2. gaps'[i] = IF i = index THEN g ELSE gaps[i]
      BY <1>2
    <3> QED
      BY <2>1, <3>1, <3>2
  <2> QED
    BY <1>1, <2>2, <2>3 DEF GapsCounted
<1>8. NothingYet'
  BY <1>1 DEF RunInv, NothingYet, IsGpt
<1>9. ExitDerived'
  BY <1>1 DEF ExitDerived, Summarised
<1> QED
  BY <1>4, <1>6, <1>7, <1>8, <1>9 DEF RunInv

\* The partitions and what is said of them do not change.
LEMMA Untouched ==
  ASSUME RunInv, UNCHANGED <<input, verdict, gaps>>, index' = index,
         /\ counts'.partition_unread = counts.partition_unread
         /\ counts'.unidentified = counts.unidentified
         /\ counts'.unsupported = counts.unsupported
         /\ counts'.boot_rejected = counts.boot_rejected
         /\ counts'.root_unread = counts.root_unread
         /\ counts'.volumes_analysed = counts.volumes_analysed
         /\ counts'.in_volumes = counts.in_volumes
  PROVE  VerdictsInOrder' /\ VerdictsCounted' /\ GapsCounted'
BY DEF RunInv, VerdictsInOrder, VerdictsCounted, GapsCounted, Reported, input

\* Every step keeps what the counters know.
LEMMA RunStep ==
  ASSUME TypeOK, TypeOK', RunInv, [Next]_vars
  PROVE  RunInv'
<1>0. counts \in Counts /\ length \in Nat /\ table \in [Index -> TableEntry]
  BY RunAssumption DEF TypeOK
<1>1. ASSUME NEW status, ExitWith(status), status \in {"usage", "failure"}
      PROVE  RunInv'
  <2>1. VerdictsInOrder' /\ VerdictsCounted' /\ GapsCounted'
    BY <1>1, Untouched DEF ExitWith
  <2>2. NothingYet' /\ ExitDerived'
    BY <1>1 DEF ExitWith, NothingYet, ExitDerived, Summarised
  <2> QED
    BY <2>1, <2>2 DEF RunInv
<1>2. CASE RefuseDestination
  BY <1>1, <1>2 DEF RefuseDestination
<1>3. CASE Accept
  <2>1. VerdictsInOrder' /\ VerdictsCounted' /\ GapsCounted'
    BY <1>3, Untouched DEF Accept
  <2>2. NothingYet' /\ ExitDerived'
    BY <1>3 DEF Accept, RunInv, NothingYet, ExitDerived, Summarised, input
  <2> QED
    BY <2>1, <2>2 DEF RunInv
<1>4. CASE EvidenceFails
  BY <1>1, <1>4 DEF EvidenceFails
<1>5. CASE Digested
  <2>1. VerdictsInOrder' /\ VerdictsCounted' /\ GapsCounted'
    BY <1>5, Untouched DEF Digested
  <2>2. NothingYet' /\ ExitDerived'
    BY <1>5 DEF Digested, RunInv, NothingYet, ExitDerived, Summarised, input
  <2> QED
    BY <2>1, <2>2 DEF RunInv
<1>6. CASE TableUnread
  <2>1. /\ step = "table" /\ step' = "summary" /\ UNCHANGED <<input, index, verdict, gaps>>
        /\ counts' = [counts EXCEPT !.table_unread = @ + 1]
    BY <1>6 DEF TableUnread, AfterTable
  <2>2. VerdictsInOrder' /\ VerdictsCounted' /\ GapsCounted'
    BY <1>0, <2>1, Untouched DEF Counts
  <2>3. counts'.table_unread = 1 /\ counts'.table_rejected = 0
    BY <1>0, <2>1 DEF RunInv, NothingYet, Counts
  <2>4. NothingYet' /\ ExitDerived'
    BY <2>1, <2>3 DEF NothingYet, ExitDerived, Summarised, TableSettled, TableSeen
  <2> QED
    BY <2>2, <2>4 DEF RunInv
<1>7. CASE TableRejected
  <2>1. /\ step = "table" /\ step' = "summary" /\ UNCHANGED <<input, index, verdict, gaps>>
        /\ counts' = [counts EXCEPT !.table_rejected = @ + 1]
    BY <1>7 DEF TableRejected, TableRead, AfterTable
  <2>2. VerdictsInOrder' /\ VerdictsCounted' /\ GapsCounted'
    BY <1>0, <2>1, Untouched DEF Counts
  <2>3. counts'.table_unread = 0 /\ counts'.table_rejected = 1
    BY <1>0, <2>1 DEF RunInv, NothingYet, Counts
  <2>4. NothingYet' /\ ExitDerived'
    BY <2>1, <2>3 DEF NothingYet, ExitDerived, Summarised, TableSettled, TableSeen
  <2> QED
    BY <2>2, <2>4 DEF RunInv
<1>8. CASE GptDetected
  <2> DEFINE more == Cardinality(LeftOut(Anomalies(table, length)))
  <2>1. /\ step = "table" /\ step' = "summary" /\ UNCHANGED <<input, index, verdict, gaps>>
        /\ counts' = [counts EXCEPT !.gpt = @ + 1, !.partitions_anomalous = @ + more]
        /\ IsGpt(table)
    BY <1>8 DEF GptDetected, TableRead, AfterTable
  <2> HIDE DEF more
  <2>2. VerdictsInOrder' /\ VerdictsCounted' /\ GapsCounted'
    BY <1>0, <2>1, Untouched DEF Counts
  <2>3. counts'.table_unread = 0 /\ counts'.table_rejected = 0 /\ counts'.gpt = 1
    BY <1>0, <2>1 DEF RunInv, NothingYet, Counts
  <2>4. IsGpt(table)'
    BY <2>1 DEF input, IsGpt
  <2>5. NothingYet' /\ ExitDerived'
    BY <2>1, <2>3, <2>4 DEF NothingYet, ExitDerived, Summarised, TableSettled, TableSeen
  <2> QED
    BY <2>2, <2>5 DEF RunInv
<1>9. CASE PartitionsListed
  <2>1. /\ step = "table" /\ step' = "partitions" /\ UNCHANGED <<input, index, verdict, gaps>>
        /\ counts' = counts /\ ~IsGpt(table)
    BY <1>9 DEF PartitionsListed, TableRead, AfterTable
  <2>2. VerdictsInOrder' /\ VerdictsCounted' /\ GapsCounted'
    BY <2>1, Untouched
  <2>3. ~IsGpt(table)'
    BY <2>1 DEF input, IsGpt
  <2>4. NothingYet' /\ ExitDerived'
    BY <2>1, <2>3 DEF RunInv, NothingYet, ExitDerived, Summarised
  <2> QED
    BY <2>2, <2>4 DEF RunInv
<1>10. CASE NotListed
  <2>1. /\ step = "partitions" /\ step' = step /\ index \in Index /\ index' = index + 1
        /\ ~Kept(table[index], length)
        /\ UNCHANGED <<table, length, verdict, gaps, counts, exit>>
    BY <1>10 DEF NotListed, input
  <2>2. VerdictsInOrder'
    <3> SUFFICES ASSUME NEW i \in Index
                 PROVE  verdict[i] # "none" <=> i < index + 1 /\ Kept(table[i], length)
      BY <2>1 DEF VerdictsInOrder
    <3>1. verdict[i] # "none" <=> i < index /\ Kept(table[i], length)
      BY DEF RunInv, VerdictsInOrder
    <3>2. i < index + 1 <=> i < index \/ i = index
      BY <2>1 DEF Index
    <3> QED
      BY <2>1, <3>1, <3>2
  <2>3. VerdictsCounted' /\ GapsCounted'
    BY <2>1 DEF RunInv, VerdictsCounted, GapsCounted, Reported
  <2>4. NothingYet' /\ ExitDerived'
    BY <2>1 DEF RunInv, NothingYet, ExitDerived, Summarised, IsGpt
  <2> QED
    BY <2>2, <2>3, <2>4 DEF RunInv
<1>11. CASE PartitionUnread
  <2> DEFINE c == [counts EXCEPT !.partition_unread = @ + 1]
  <2>1. Report("unread", 0, c)
    BY <1>11 DEF PartitionUnread
  <2>2. /\ c \in Counts /\ c.partition_unread # 0 /\ c.in_volumes = counts.in_volumes + 0
        /\ \A field \in DOMAIN counts \ {"partition_unread"} : c[field] = counts[field]
    BY <1>0 DEF Counts
  <2> HIDE DEF c
  <2> QED
    BY <1>0, <2>1, <2>2, RunAssumption, ReportKeeps DEF Verdict, Counts
<1>12. CASE PartitionUnidentified
  <2> DEFINE c == [counts EXCEPT !.unidentified = @ + 1]
  <2>1. Report("unidentified", 0, c)
    BY <1>12 DEF PartitionUnidentified
  <2>2. /\ c \in Counts /\ c.unidentified # 0 /\ c.in_volumes = counts.in_volumes + 0
        /\ \A field \in DOMAIN counts \ {"unidentified"} : c[field] = counts[field]
    BY <1>0 DEF Counts
  <2> HIDE DEF c
  <2> QED
    BY <1>0, <2>1, <2>2, RunAssumption, ReportKeeps DEF Verdict, Counts
<1>13. CASE PartitionUnsupported
  <2> DEFINE c == [counts EXCEPT !.unsupported = @ + 1]
  <2>1. Report("unsupported", 0, c)
    BY <1>13 DEF PartitionUnsupported
  <2>2. /\ c \in Counts /\ c.unsupported # 0 /\ c.in_volumes = counts.in_volumes + 0
        /\ \A field \in DOMAIN counts \ {"unsupported"} : c[field] = counts[field]
    BY <1>0 DEF Counts
  <2> HIDE DEF c
  <2> QED
    BY <1>0, <2>1, <2>2, RunAssumption, ReportKeeps DEF Verdict, Counts
<1>14. CASE BootSectorRejected
  <2> DEFINE c == [counts EXCEPT !.boot_rejected = @ + 1]
  <2>1. Report("boot_rejected", 0, c)
    BY <1>14 DEF BootSectorRejected
  <2>2. /\ c \in Counts /\ c.boot_rejected # 0 /\ c.in_volumes = counts.in_volumes + 0
        /\ \A field \in DOMAIN counts \ {"boot_rejected"} : c[field] = counts[field]
    BY <1>0 DEF Counts
  <2> HIDE DEF c
  <2> QED
    BY <1>0, <2>1, <2>2, RunAssumption, ReportKeeps DEF Verdict, Counts
<1>15. CASE RootDirectoryUnread
  <2> DEFINE c == [counts EXCEPT !.root_unread = @ + 1]
  <2>1. Report("root_unread", 0, c)
    BY <1>15 DEF RootDirectoryUnread
  <2>2. /\ c \in Counts /\ c.root_unread # 0 /\ c.in_volumes = counts.in_volumes + 0
        /\ \A field \in DOMAIN counts \ {"root_unread"} : c[field] = counts[field]
    BY <1>0 DEF Counts
  <2> HIDE DEF c
  <2> QED
    BY <1>0, <2>1, <2>2, RunAssumption, ReportKeeps DEF Verdict, Counts
<1>16. CASE Analysed
  <2>1. PICK g \in 0 .. MaxGaps :
          Report("analysed", g, [counts EXCEPT !.volumes_analysed = @ + 1, !.in_volumes = @ + g])
    BY <1>16 DEF Analysed
  <2> DEFINE c == [counts EXCEPT !.volumes_analysed = @ + 1, !.in_volumes = @ + g]
  <2>2. g \in Nat
    BY RunAssumption
  <2>3. c \in Counts
    BY <1>0, <2>2, CountsGrow, Zenon
  <2>4. /\ c.volumes_analysed # 0 /\ c.in_volumes = counts.in_volumes + g
        /\ \A field \in DOMAIN counts \ {"volumes_analysed", "in_volumes"} :
              c[field] = counts[field]
    <3>1. ASSUME NEW x \in Nat, NEW y \in Nat
          PROVE  LET d == [[counts EXCEPT !.volumes_analysed = x] EXCEPT !.in_volumes = y] IN
                 /\ d.volumes_analysed = x /\ d.in_volumes = y
                 /\ \A field \in DOMAIN counts \ {"volumes_analysed", "in_volumes"} :
                       d[field] = counts[field]
      BY <1>0 DEF Counts
    <3>2. /\ counts.volumes_analysed + 1 \in Nat /\ counts.volumes_analysed + 1 # 0
          /\ counts.in_volumes + g \in Nat
      BY <1>0, <2>2 DEF Counts
    <3> QED
      BY <3>1, <3>2
  <2>5. Report("analysed", g, c)
    BY <2>1
  <2> HIDE DEF c
  <2> QED
    BY <1>0, <2>3, <2>4, <2>5, ReportKeeps DEF Verdict, Counts
<1>17. CASE PartitionsReported
  <2> DEFINE more == Cardinality(LeftOut(Anomalies(table, length)))
  <2>1. /\ step = "partitions" /\ index = EntryCount + 1 /\ step' = "summary"
        /\ UNCHANGED <<input, index, verdict, gaps>>
        /\ counts' = [counts EXCEPT !.partitions_anomalous = @ + more]
        /\ anomalies' = Anomalies(table, length)
    BY <1>17 DEF PartitionsReported, AfterTable
  <2>2. ~IsGpt(table)
    BY <2>1 DEF RunInv, NothingYet
  <2>3. more \in Nat
        /\ (more = 0 <=> \A i \in Index : ~ZeroLength(table[i]) /\ ~BeyondEnd(table[i], length))
    BY <1>0, <2>2, LeftOutCounted, LeftOutEmpty
  <2> HIDE DEF more
  <2>4. VerdictsInOrder' /\ VerdictsCounted' /\ GapsCounted'
    BY <1>0, <2>1, Untouched DEF Counts
  <2>5. /\ counts'.table_unread = 0 /\ counts'.table_rejected = 0 /\ counts'.gpt = 0
        /\ counts'.partitions_anomalous = more
    BY <1>0, <2>1, <2>3 DEF RunInv, NothingYet, Counts
  <2>6. table' = table /\ length' = length /\ index' = index
    BY <2>1 DEF input
  <2>7. TableSettled'
    BY <2>1, <2>2, <2>3, <2>5, <2>6 DEF TableSettled, TableSeen
  <2>8. NothingYet' /\ ExitDerived'
    BY <2>1, <2>7 DEF NothingYet, ExitDerived, Summarised
  <2> QED
    BY <2>4, <2>8 DEF RunInv
<1>18. CASE Summary
  <2>1. /\ step = "summary" /\ step' = "exited" /\ exit' = Status(Coverage(counts))
        /\ UNCHANGED <<input, index, verdict, gaps, anomalies, counts>>
    BY <1>18 DEF Summary, ExitWith
  <2>2. VerdictsInOrder' /\ VerdictsCounted' /\ GapsCounted'
    BY <2>1, Untouched
  <2>3. TableSettled'
    BY <2>1 DEF RunInv, ExitDerived, TableSettled, TableSeen, input
  <2>4. NothingYet' /\ ExitDerived'
    BY <2>1, <2>3 DEF NothingYet, ExitDerived, Summarised
  <2> QED
    BY <2>2, <2>4 DEF RunInv
<1>19. CASE UNCHANGED vars
  <2>1. VerdictsInOrder' /\ VerdictsCounted' /\ GapsCounted'
    BY <1>19, Untouched DEF vars, input
  <2>2. TableSettled' <=> TableSettled
    BY <1>19 DEF TableSettled, TableSeen, vars, input
  <2>3. NothingYet' /\ ExitDerived'
    BY <1>19, <2>2 DEF RunInv, NothingYet, ExitDerived, Summarised, vars, input
  <2> QED
    BY <2>1, <2>3 DEF RunInv
<1> QED
  BY <1>2, <1>3, <1>4, <1>5, <1>6, <1>7, <1>8, <1>9, <1>10, <1>11, <1>12, <1>13, <1>14,
     <1>15, <1>16, <1>17, <1>18, <1>19 DEF Next, Exited

\* What the counters know holds in every state.
LEMMA RunInvariant == Spec => []RunInv
<1>1. Init => RunInv
  BY TableAssumption DEF Init, Start, RunInv, VerdictsInOrder, VerdictsCounted, GapsCounted,
     NothingYet, ExitDerived, Summarised, Reported, Index
<1>2. TypeOK /\ TypeOK' /\ RunInv /\ [Next]_vars => RunInv'
  BY RunStep
<1> QED
  BY <1>1, <1>2, RunTypeCorrect, PTL DEF Spec

----------------------------------------------------------------------------
(***************************************************************************)
(* What a finished run says.                                               *)
(***************************************************************************)

\* There is no gap exactly if every counter of gaps is zero.
LEMMA NoGaps ==
  ASSUME NEW c \in Counts
  PROVE  Gaps(c) = 0 <=>
           /\ c.table_unread = 0 /\ c.table_rejected = 0 /\ c.partitions_anomalous = 0
           /\ c.gpt = 0 /\ c.partition_unread = 0 /\ c.unidentified = 0 /\ c.unsupported = 0
           /\ c.boot_rejected = 0 /\ c.root_unread = 0 /\ c.in_volumes = 0
<1>1. ASSUME NEW a \in Nat, NEW b \in Nat
      PROVE  a + b \in Nat /\ (a + b = 0 <=> a = 0 /\ b = 0)
  OBVIOUS
<1> DEFINE early == c.table_unread + c.table_rejected + c.partitions_anomalous + c.gpt
           late == early + c.partition_unread + c.unidentified + c.unsupported
<1>2. /\ early \in Nat
      /\ early = 0 <=> /\ c.table_unread = 0 /\ c.table_rejected = 0
                       /\ c.partitions_anomalous = 0 /\ c.gpt = 0
  BY <1>1 DEF Counts
<1> HIDE DEF early
<1>3. /\ late \in Nat
      /\ late = 0 <=> /\ early = 0 /\ c.partition_unread = 0
                      /\ c.unidentified = 0 /\ c.unsupported = 0
  BY <1>1, <1>2 DEF Counts
<1> HIDE DEF late
<1>4. late + c.boot_rejected + c.root_unread + c.in_volumes = 0
        <=> late = 0 /\ c.boot_rejected = 0 /\ c.root_unread = 0 /\ c.in_volumes = 0
  BY <1>1, <1>3 DEF Counts
<1>5. Gaps(c) = late + c.boot_rejected + c.root_unread + c.in_volumes
  BY DEF Gaps, late, early
<1> QED
  BY <1>2, <1>3, <1>4, <1>5

\* A table was unread or refused exactly if a counter says so.
LEMMA SeenIsCounted ==
  ASSUME TypeOK
  PROVE  TableSeen <=> counts.table_unread = 0 /\ counts.table_rejected = 0
BY DEF TypeOK, Counts, TableSeen

\* An entry with a type other than the protective one is kept or left out.
LEMMA EntryPlaced ==
  ASSUME NEW p \in TableEntry, NEW n \in Nat, p.type = "other"
  PROVE  Kept(p, n) \/ ZeroLength(p) \/ BeyondEnd(p, n)
<1>1. EndLba(p) \in Nat /\ Sectors(n) \in Nat
  BY TableAssumption, SectorsFit DEF EndLba, TableEntry
<1> QED
  BY <1>1 DEF Kept, ZeroLength, BeyondEnd

\* One partition's failure stops no other, on any table: at the end each kept
\* entry has its verdict and no other entry has one.
THEOREM PartitionsReportedCorrect == Spec => []EveryPartitionReported
<1>1. TypeOK /\ RunInv => EveryPartitionReported
  <2> SUFFICES ASSUME TypeOK, RunInv, step \in {"summary", "exited"},
                      exit \notin {"usage", "failure"}, TableSeen, ~IsGpt(table),
                      NEW i \in Index
               PROVE  verdict[i] # "none" <=> Kept(table[i], length)
    BY DEF EveryPartitionReported
  <2>1. index = EntryCount + 1
    BY DEF RunInv, ExitDerived, Summarised, TableSettled
  <2>2. i < index
    BY <2>1, TableAssumption DEF Index
  <2> QED
    BY <2>2 DEF RunInv, VerdictsInOrder
<1> QED
  BY <1>1, RunTypeCorrect, RunInvariant, PTL

\* A run that says it covered everything analysed, without a gap, every entry
\* that has a type.
THEOREM CompleteCorrect == Spec => []CompleteMeansAnalysed
<1>1. TypeOK /\ RunInv => CompleteMeansAnalysed
  <2> SUFFICES ASSUME TypeOK, RunInv, Summarised, Coverage(counts) = "complete"
               PROVE  TableSeen /\ ~IsGpt(table) /\ \A i \in Index : Declared(i) => Done(i)
    BY DEF CompleteMeansAnalysed, Summarised
  <2>1. counts \in Counts /\ Gaps(counts) = 0
    BY DEF TypeOK, Coverage
  <2>2. TableSeen
    BY <2>1, NoGaps, SeenIsCounted
  <2>3. /\ ~IsGpt(table) /\ index = EntryCount + 1
        /\ \A i \in Index : ~ZeroLength(table[i]) /\ ~BeyondEnd(table[i], length)
    BY <2>1, <2>2, NoGaps DEF RunInv, ExitDerived, TableSettled
  <2>4. ASSUME NEW i \in Index, Declared(i)
        PROVE  Done(i)
    <3>1. table[i] \in TableEntry /\ length \in Nat
      BY RunAssumption DEF TypeOK
    <3>2. Kept(table[i], length)
      BY <2>3, <2>4, EntryPlaced, <3>1 DEF Declared
    <3>3. verdict[i] # "none" /\ verdict[i] \in Verdict
      BY <2>3, <3>2, TableAssumption DEF RunInv, VerdictsInOrder, Index, TypeOK
    <3>4. ~Reported("unread") /\ ~Reported("unidentified") /\ ~Reported("unsupported")
          /\ ~Reported("boot_rejected") /\ ~Reported("root_unread")
      BY <2>1, NoGaps DEF RunInv, VerdictsCounted
    <3>5. verdict[i] = "analysed"
      BY <3>3, <3>4 DEF Verdict, Reported
    <3>6. gaps[i] <= 0 /\ gaps[i] \in Nat
      BY <2>1, NoGaps, RunAssumption DEF RunInv, GapsCounted, TypeOK
    <3> QED
      BY <3>5, <3>6 DEF Done
  <2> QED
    BY <2>2, <2>3, <2>4
<1> QED
  BY <1>1, RunTypeCorrect, RunInvariant, PTL

\* The exit status tells a run that analysed nothing from one that had nothing
\* to analyse.
THEOREM StatusCorrect == Spec => []StatusTellsNothing
<1>1. TypeOK /\ RunInv => StatusTellsNothing
  <2> SUFFICES ASSUME TypeOK, RunInv, Summarised
               PROVE  exit = "nothing_analysed" <=>
                        /\ \A i \in Index : verdict[i] # "analysed"
                        /\ ~TableSeen \/ \E i \in Index : table[i].type # "unused"
    BY DEF StatusTellsNothing, Summarised
  <2>1. counts \in Counts /\ length \in Nat /\ table \in [Index -> TableEntry]
    BY RunAssumption DEF TypeOK
  <2>2. exit = "nothing_analysed" <=> Gaps(counts) # 0 /\ counts.volumes_analysed = 0
    BY DEF RunInv, ExitDerived, Status, Coverage
  <2>3. counts.volumes_analysed = 0 <=> \A i \in Index : verdict[i] # "analysed"
    BY DEF RunInv, VerdictsCounted, Reported
  <2>4. ASSUME counts.volumes_analysed = 0
        PROVE  Gaps(counts) # 0 <=> ~TableSeen \/ \E i \in Index : table[i].type # "unused"
    <3>1. CASE ~TableSeen
      BY <2>1, <3>1, NoGaps, SeenIsCounted
    <3>2. CASE TableSeen /\ IsGpt(table)
      <4>1. Gaps(counts) # 0
        BY <2>1, <3>2, NoGaps DEF RunInv, ExitDerived, TableSettled
      <4> QED
        BY <3>2, <4>1 DEF IsGpt
    <3>3. CASE TableSeen /\ ~IsGpt(table)
      <4>1. /\ counts.gpt = 0 /\ counts.table_unread = 0 /\ counts.table_rejected = 0
            /\ index = EntryCount + 1
            /\ counts.partitions_anomalous = 0
                 <=> \A i \in Index : ~ZeroLength(table[i]) /\ ~BeyondEnd(table[i], length)
        BY <3>3, SeenIsCounted DEF RunInv, ExitDerived, TableSettled
      <4>2. \A i \in Index : verdict[i] # "none" <=> Kept(table[i], length)
        BY <4>1, TableAssumption DEF RunInv, VerdictsInOrder, Index
      <4>3. ASSUME NEW i \in Index, table[i].type # "unused"
            PROVE  Gaps(counts) # 0
        <5>1. table[i].type = "other"
          BY <2>1, <3>3, <4>3 DEF IsGpt, TableEntry
        <5>2. CASE ~Kept(table[i], length)
          <6>1. ZeroLength(table[i]) \/ BeyondEnd(table[i], length)
            BY <2>1, <5>1, <5>2, EntryPlaced
          <6> QED
            BY <2>1, <4>1, <6>1, NoGaps
        <5>3. CASE Kept(table[i], length)
          <6>1. verdict[i] \in Verdict \ {"none", "analysed"}
            BY <2>3, <2>4, <4>2, <5>3 DEF TypeOK
          <6>2. \/ Reported("unread") \/ Reported("unidentified") \/ Reported("unsupported")
                \/ Reported("boot_rejected") \/ Reported("root_unread")
            BY <6>1 DEF Verdict, Reported
          <6> QED
            BY <2>1, <6>2, NoGaps DEF RunInv, VerdictsCounted
        <5> QED
          BY <5>2, <5>3
      <4>4. ASSUME \A i \in Index : table[i].type = "unused"
            PROVE  Gaps(counts) = 0
        <5>1. \A i \in Index :
                ~ZeroLength(table[i]) /\ ~BeyondEnd(table[i], length) /\ ~Kept(table[i], length)
          BY <4>4 DEF ZeroLength, BeyondEnd, Kept
        <5>2. \A i \in Index : verdict[i] = "none"
          BY <4>2, <5>1
        <5>3. /\ ~Reported("unread") /\ ~Reported("unidentified") /\ ~Reported("unsupported")
              /\ ~Reported("boot_rejected") /\ ~Reported("root_unread") /\ ~Reported("analysed")
          BY <5>2 DEF Reported
        <5> QED
          BY <2>1, <4>1, <5>1, <5>3, NoGaps DEF RunInv, VerdictsCounted, GapsCounted
      <4> QED
        BY <3>3, <4>3, <4>4
    <3> QED
      BY <3>1, <3>2, <3>3
  <2> QED
    BY <2>2, <2>3, <2>4
<1> QED
  BY <1>1, RunTypeCorrect, RunInvariant, PTL

\* Two ranges of sectors share one exactly if each starts before the other ends.
LEMMA SharedSectors ==
  ASSUME NEW p \in TableEntry, NEW q \in TableEntry,
         p.sector_count # 0, q.sector_count # 0
  PROVE  SectorsOf(p) \cap SectorsOf(q) # {} <=> Overlap(p, q)
<1>1. /\ p.start_lba \in Nat /\ p.sector_count \in Nat \ {0}
      /\ q.start_lba \in Nat /\ q.sector_count \in Nat \ {0}
  BY TableAssumption DEF TableEntry
<1>2. ASSUME NEW s \in SectorsOf(p) \cap SectorsOf(q)
      PROVE  Overlap(p, q)
  BY <1>1, <1>2 DEF SectorsOf, Overlap, EndLba
<1>3. ASSUME Overlap(p, q)
      PROVE  \E s : s \in SectorsOf(p) \cap SectorsOf(q)
  <2>1. CASE p.start_lba <= q.start_lba
    <3>1. q.start_lba \in SectorsOf(p) \cap SectorsOf(q)
      BY <1>1, <1>3, <2>1 DEF SectorsOf, Overlap, EndLba
    <3> QED
      BY <3>1
  <2>2. CASE q.start_lba < p.start_lba
    <3>1. p.start_lba \in SectorsOf(p) \cap SectorsOf(q)
      BY <1>1, <1>3, <2>2 DEF SectorsOf, Overlap, EndLba
    <3> QED
      BY <3>1
  <2> QED
    BY <1>1, <2>1, <2>2
<1> QED
  BY <1>2, <1>3

\* Every two partitions that share a sector are reported, and no others.
THEOREM OverlapsCorrect == Spec => []OverlapsReported
<1>1. TypeOK /\ RunInv => OverlapsReported
  <2> SUFFICES ASSUME TypeOK, RunInv, step = "summary", TableSeen, ~IsGpt(table),
                      NEW i \in Partitions(table, length), NEW j \in Partitions(table, length),
                      i < j
               PROVE  SectorsOf(table[i]) \cap SectorsOf(table[j]) # {}
                        <=> [kind |-> "OverlappingPartitions", of |-> {i, j}] \in anomalies
    BY DEF OverlapsReported
  <2> DEFINE a == [kind |-> "OverlappingPartitions", of |-> {i, j}]
  <2>1. /\ table[i] \in TableEntry /\ table[j] \in TableEntry
        /\ table[i].sector_count # 0 /\ table[j].sector_count # 0
        /\ i \in Nat /\ j \in Nat
    BY TableAssumption DEF TypeOK, Partitions, Kept, Index
  <2>2. anomalies = EntryAnomalies(table, length) \cup TableAnomalies(table, length)
    BY DEF RunInv, ExitDerived, TableSettled, Anomalies
  <2>3. a \notin EntryAnomalies(table, length)
    <3> SUFFICES ASSUME a \in EntryAnomalies(table, length)
                 PROVE  FALSE
      OBVIOUS
    <3>1. PICK k \in Examined(table) :
            \E kind \in Said(table[k], length) : a = [kind |-> kind, of |-> {Number(k)}]
      BY DEF EntryAnomalies
    <3>2. a.kind \in Said(table[k], length)
      BY <3>1
    <3> QED
      BY <3>2 DEF Said
  <2>4. ASSUME Overlap(table[i], table[j])
        PROVE  a \in TableAnomalies(table, length)
    <3> DEFINE kept == Partitions(table, length)
               S(k) == {[kind |-> "OverlappingPartitions", of |-> {Number(k), Number(l)}] :
                          l \in {l \in kept : k < l /\ Overlap(table[k], table[l])}}
    <3>1. a \in S(i)
      BY <2>4 DEF Number
    <3>2. Overlaps(table, length) = UNION {S(k) : k \in kept}
      BY DEF Overlaps
    <3> HIDE DEF S
    <3>3. a \in Overlaps(table, length)
      BY <3>1, <3>2, Zenon
    <3> QED
      BY <3>3, Zenon DEF TableAnomalies
  <2>5. ASSUME a \in TableAnomalies(table, length)
        PROVE  Overlap(table[i], table[j])
    <3>1. \E k, l \in Partitions(table, length) :
            /\ k < l /\ Overlap(table[k], table[l])
            /\ a = [kind |-> "OverlappingPartitions", of |-> {k, l}]
      <4>1. \/ \E k, l \in Partitions(table, length) :
                 /\ k < l /\ Overlap(table[k], table[l])
                 /\ a = [kind |-> "OverlappingPartitions", of |-> {k, l}]
            \/ a = [kind |-> "MultipleBootablePartitions", of |-> {}]
            \/ a = [kind |-> "EntriesOutOfOrder", of |-> {}]
        <5> HIDE DEF a
        <5> QED
          BY <2>5, TableAnomaliesAre
      <4>2. a.kind = "OverlappingPartitions"
        OBVIOUS
      <4> HIDE DEF a
      <4> QED
        BY <4>1, <4>2
    <3>2. PICK k, l \in Partitions(table, length) :
            /\ k < l /\ Overlap(table[k], table[l])
            /\ a = [kind |-> "OverlappingPartitions", of |-> {k, l}]
      BY <3>1
    <3>3. {i, j} = {k, l} /\ k \in Nat /\ l \in Nat
      BY <3>2, TableAssumption DEF Partitions, Index
    <3>4. i = k /\ j = l
      BY <2>1, <3>2, <3>3
    <3> QED
      BY <3>2, <3>4
  <2>6. SectorsOf(table[i]) \cap SectorsOf(table[j]) # {} <=> Overlap(table[i], table[j])
    BY <2>1, SharedSectors
  <2> QED
    BY <2>2, <2>3, <2>4, <2>5, <2>6
<1> QED
  BY <1>1, RunTypeCorrect, RunInvariant, PTL
=============================================================================
