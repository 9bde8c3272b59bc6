---------------------------- MODULE ReportProofs ----------------------------
(***************************************************************************)
(* Theorems about Report and the Invocation it goes on from, for every     *)
(* bound on the arguments, the evidence, the partitions and the events.    *)
(***************************************************************************)
EXTENDS Report, SequenceTheorems, TLAPS

----------------------------------------------------------------------------
(***************************************************************************)
(* The events.                                                             *)
(***************************************************************************)

PlainKind ==
  {"TableUnread", "TableRejected", "GptDetected", "PartitionUnread", "BootSectorRejected",
   "RootDirectoryUnread", "DirectoryNotRead", "OrphanedListingUnread", "ListingMayContinue",
   "OrphanSearchStopped", "NotAssessed", "RunBroken", "Recoverable", "NotExtracted"}

Event ==
  [kind : PlainKind]
    \cup [kind : {"PartitionIdentified"}, as : {"unidentified", "unsupported", "fat32"}]
    \cup [kind : {"Directory"}, reached : {"root", "subdirectory", "orphan"}]
    \cup [kind : {"Ineligible"},
          reason : {"empty", "reserved_cluster", "run_out_of_range", "no_file"}]
    \cup [kind : {"Extracted"},
          output : {"none", "Written", "Unverified", "Exists", "NotCreated", "Failed"},
          validation : {"NotAttempted", "Match", "Differs"}]
    \cup [kind : {"Anomalies"}, left_out : Nat]

\* Every event is counted and printed a number of times.
LEMMA TimesType ==
  ASSUME NEW e \in Event
  PROVE  Times(e) \in Nat
BY DEF Event, Times, PlainKind

Sink == <<counts, said, headed, reader, line, summary>>

\* A step of the analysis emits one event, says nothing, or prints the summary.
LEMMA OneEventEach ==
  ASSUME TypeOK, [Next]_vars
  PROVE  \/ UNCHANGED Sink
         \/ Silent
         \/ \E e \in Event : Emit(e)
         \/ Summarise
<1>1. \A k \in PlainKind : Plain(k) \in Event
  BY DEF Plain, Event
<1>2. \A r \in {"root", "subdirectory", "orphan"} : Directory(r) \in Event
  BY DEF Directory, Event
<1>3. \A as \in {"unidentified", "unsupported", "fat32"} : Identified(as) \in Event
  BY DEF Identified, Event
<1>4. CASE InvocationNext /\ UNCHANGED analysis
  BY <1>4 DEF analysis, Sink
<1>5. CASE Analyse \/ Exited \/ UNCHANGED vars
  BY <1>5 DEF Analyse, Exited, vars, analysis, Sink
<1>6. CASE \/ PartitionsListed \/ ListingEnds \/ WalkEnds \/ SearchEnds \/ VolumeEnds \/ PartEnds
           \/ PartitionsEnd \/ NoAnomalies
  BY <1>6 DEF PartitionsListed, ListingEnds, WalkEnds, SearchEnds, VolumeEnds, PartEnds,
     PartitionsEnd, NoAnomalies, MoveTo
<1>7. CASE \/ TableFails \/ GptDetected \/ PartitionUnread \/ VolumeFails \/ DirectoryNotRead
           \/ ListingMayContinue \/ SearchStops \/ OrphanedListingUnread \/ NotAssessed
           \/ RunBroken \/ Recoverable \/ NotExtracted
  <2>1. \E k \in PlainKind : Emit(Plain(k))
    BY <1>7 DEF TableFails, GptDetected, PartitionUnread, VolumeFails, DirectoryNotRead,
       ListingMayContinue, SearchStops, OrphanedListingUnread, NotAssessed, RunBroken,
       Recoverable, NotExtracted, OneEvent, NextPartition, OfAnEntry, PlainKind
  <2> QED
    BY <1>1, <2>1
<1>8. CASE NotFat32 \/ Fat32
  <2>1. \E as \in {"unidentified", "unsupported", "fat32"} : Emit(Identified(as))
    BY <1>8 DEF NotFat32, Fat32, OneEvent, NextPartition
  <2> QED
    BY <1>3, <2>1
<1>9. CASE RootDirectory \/ Subdirectory \/ OrphanedDirectory
  <2>1. \E r \in {"root", "subdirectory", "orphan"} : Emit(Directory(r))
    BY <1>9 DEF RootDirectory, Subdirectory, OrphanedDirectory, Enter
  <2> QED
    BY <1>2, <2>1
<1>10. CASE Ineligible
  <2>1. \A reason \in {"empty", "reserved_cluster", "run_out_of_range", "no_file"} :
          [kind |-> "Ineligible", reason |-> reason] \in Event
    BY DEF Event
  <2> QED
    BY <1>10, <2>1 DEF Ineligible, OfAnEntry
<1>11. CASE Extracted
  <2>1. \A o \in Outputs, v \in Validations :
          [kind |-> "Extracted", output |-> o, validation |-> v] \in Event
    BY DEF Event, Outputs, Validations
  <2> QED
    BY <1>11, <2>1 DEF Extracted, OneEvent
<1>12. CASE Anomalies
  <2>1. \A n \in 0 .. 2 : [kind |-> "Anomalies", left_out |-> n] \in Event
    BY DEF Event
  <2> QED
    BY <1>12, <2>1 DEF Anomalies, OneEvent
<1> QED
  BY <1>4, <1>5, <1>6, <1>7, <1>8, <1>9, <1>10, <1>11, <1>12 DEF Next

----------------------------------------------------------------------------
(***************************************************************************)
(* What is counted of an event is what is printed of it.                   *)
(***************************************************************************)

\* The gaps and what became of entries, by name.
LEMMA Names ==
  /\ Gap = {"table_unread", "table_rejected", "partitions_anomalous", "gpt",
            "partition_unread", "unidentified", "unsupported", "boot_rejected", "root_unread",
            "not_assessed", "not_extracted", "not_delivered", "directories_unread",
            "listings_may_continue", "orphan_search_stopped"}
  /\ DOMAIN EntryLine = {"free_runs", "refused", "matched", "empty", "reserved_cluster",
                         "run_out_of_range"}
BY DEF Gap, GapLine, EntryLine

\* The line that tells of each gap.
LEMMA GapLines ==
  /\ GapLine["table_unread"] = "error: table"
  /\ GapLine["table_rejected"] = "error: table refused"
  /\ GapLine["partitions_anomalous"] = "anomaly: left out"
  /\ GapLine["gpt"] = "GPT detected"
  /\ GapLine["partition_unread"] = "error: partition"
  /\ GapLine["unidentified"] = "filesystem unknown"
  /\ GapLine["unsupported"] = "filesystem, not FAT32"
  /\ GapLine["boot_rejected"] = "BOOT SECTOR REJECTED"
  /\ GapLine["root_unread"] = "NOT ENUMERATED"
  /\ GapLine["not_assessed"] = "NOT ASSESSED"
  /\ GapLine["not_extracted"] = "NOT EXTRACTED"
  /\ GapLine["not_delivered"] = "NOT WRITTEN"
  /\ GapLine["directories_unread"] = "NOT READ"
  /\ GapLine["listings_may_continue"] = "may continue"
  /\ GapLine["orphan_search_stopped"] = "ORPHAN SEARCH STOPPED"
BY DEF GapLine

\* What is counted and printed of the events of one finding each.
OfPlain(e) ==
  /\ e.kind = "TableUnread" =>
       Counted(e) = {"table_unread"} /\ Printed(e) = {"error: table"}
  /\ e.kind = "TableRejected" =>
       Counted(e) = {"table_rejected"} /\ Printed(e) = {"error: table refused"}
  /\ e.kind = "GptDetected" =>
       Counted(e) = {"gpt"} /\ Printed(e) = {"GPT detected"}
  /\ e.kind = "PartitionUnread" =>
       Counted(e) = {"partition_unread"} /\ Printed(e) = {"error: partition"}
  /\ e.kind = "BootSectorRejected" =>
       Counted(e) = {"boot_rejected"} /\ Printed(e) = {"BOOT SECTOR REJECTED"}
  /\ e.kind = "RootDirectoryUnread" =>
       Counted(e) = {"root_unread"} /\ Printed(e) = {"NOT ENUMERATED"}
  /\ e.kind = "DirectoryNotRead" =>
       Counted(e) = {"directories_unread"} /\ Printed(e) = {"NOT READ"}
  /\ e.kind = "OrphanedListingUnread" =>
       Counted(e) = {"directories_unread"} /\ Printed(e) = {"NOT READ"}
  /\ e.kind = "ListingMayContinue" =>
       Counted(e) = {"listings_may_continue"} /\ Printed(e) = {"may continue"}
  /\ e.kind = "OrphanSearchStopped" =>
       Counted(e) = {"orphan_search_stopped"} /\ Printed(e) = {"ORPHAN SEARCH STOPPED"}
  /\ e.kind = "NotAssessed" =>
       Counted(e) = {"not_assessed"} /\ Printed(e) = {"NOT ASSESSED"}
  /\ e.kind = "RunBroken" =>
       Counted(e) = {"refused"} /\ Printed(e) = {"REFUSED"}
  /\ e.kind = "Recoverable" =>
       Counted(e) = {"free_runs"} /\ Printed(e) = {"every cluster free"}
  /\ e.kind = "NotExtracted" =>
       Counted(e) = {"not_extracted"} /\ Printed(e) = {"NOT EXTRACTED"}
  /\ e.kind = "Anomalies" =>
       Counted(e) = {"partitions_anomalous"} /\ Printed(e) = {"anomaly: left out"}

LEMMA PlainTable ==
  ASSUME NEW e
  PROVE  OfPlain(e)
BY DEF OfPlain, Counted, Printed

\* And of the others.
OfOther(e) ==
  /\ e.kind = "PartitionIdentified" =>
       /\ e.as = "unidentified" =>
            Counted(e) = {"unidentified"} /\ Printed(e) = {"filesystem unknown"}
       /\ e.as = "unsupported" =>
            Counted(e) = {"unsupported"} /\ Printed(e) = {"filesystem, not FAT32"}
       /\ e.as = "fat32" => Counted(e) = {} /\ Printed(e) = {}
  /\ e.kind = "Directory" =>
       Counted(e) \subseteq {"volumes_analysed"} /\ Printed(e) \subseteq {"root directory"}
  /\ e.kind = "Ineligible" =>
       /\ Counted(e) \subseteq {"empty", "reserved_cluster", "run_out_of_range"}
       /\ Printed(e) \subseteq {"no content: empty", "no content: reserved",
                                "no content: out of range", "no content: no file"}
  /\ e.kind = "Extracted" =>
       /\ Counted(e) \subseteq {"not_delivered", "matched"}
       /\ Printed(e) \subseteq {"recovered", "written", "NOT VERIFIED", "NOT WRITTEN", "MATCHES",
                                "DIFFERS"}
       /\ "not_delivered" \in Counted(e) <=> "NOT WRITTEN" \in Printed(e)
       /\ "matched" \in Counted(e) <=> e.validation = "Match"
       /\ "MATCHES" \in Printed(e) <=> e.validation = "Match"
       /\ "DIFFERS" \in Printed(e) <=> e.validation = "Differs"
       /\ "recovered" \in Printed(e)

LEMMA OtherTable ==
  ASSUME NEW e \in Event
  PROVE  OfOther(e)
<1> USE DEF OfOther
<1>1. e.kind = "PartitionIdentified" => e.as \in {"unidentified", "unsupported", "fat32"}
  BY DEF Event, PlainKind
<1>2. CASE e.kind = "PartitionIdentified"
  <2>1. CASE e.as = "unidentified"
    BY <1>2, <2>1 DEF Counted, Printed
  <2>2. CASE e.as = "unsupported"
    BY <1>2, <2>2 DEF Counted, Printed
  <2>3. CASE e.as = "fat32"
    BY <1>2, <2>3 DEF Counted, Printed
  <2> QED
    BY <1>1, <1>2, <2>1, <2>2, <2>3
<1>3. CASE e.kind = "Directory"
  BY <1>3 DEF Counted, Printed
<1>4. CASE e.kind = "Ineligible"
  <2>1. e.reason \in {"empty", "reserved_cluster", "run_out_of_range", "no_file"}
    BY <1>4 DEF Event, PlainKind
  <2>2. CASE e.reason = "empty"
    BY <1>4, <2>2 DEF Counted, Printed
  <2>3. CASE e.reason = "reserved_cluster"
    BY <1>4, <2>3 DEF Counted, Printed
  <2>4. CASE e.reason = "run_out_of_range"
    BY <1>4, <2>4 DEF Counted, Printed
  <2>5. CASE e.reason = "no_file"
    BY <1>4, <2>5 DEF Counted, Printed
  <2> QED
    BY <1>4, <2>1, <2>2, <2>3, <2>4, <2>5
<1>5. CASE e.kind = "Extracted"
  BY <1>5 DEF Counted, Printed, Undelivered
<1> QED
  BY <1>2, <1>3, <1>4, <1>5

\* Every event is one of these.
LEMMA EventKinds ==
  ASSUME NEW e \in Event
  PROVE  \/ e.kind \in PlainKind \cup {"Anomalies", "Directory", "Ineligible", "Extracted"}
         \/ e.kind = "PartitionIdentified" /\ e.as \in {"unidentified", "unsupported", "fat32"}
BY DEF Event

\* A gap is counted of an event exactly if its line is printed.
LEMMA GapsAgree ==
  ASSUME NEW e \in Event, NEW g \in Gap
  PROVE  g \in Counted(e) <=> GapLine[g] \in Printed(e)
<1>1. OfPlain(e) /\ OfOther(e)
  BY PlainTable, OtherTable
<1>2. CASE e.kind \in {"TableUnread", "TableRejected", "GptDetected", "PartitionUnread"}
  BY ONLY <1>1, <1>2, Names, GapLines, g \in Gap DEF OfPlain
<1>3. CASE e.kind \in {"BootSectorRejected", "RootDirectoryUnread", "DirectoryNotRead",
                       "OrphanedListingUnread"}
  BY ONLY <1>1, <1>3, Names, GapLines, g \in Gap DEF OfPlain
<1>4. CASE e.kind \in {"ListingMayContinue", "OrphanSearchStopped", "NotAssessed", "NotExtracted"}
  BY ONLY <1>1, <1>4, Names, GapLines, g \in Gap DEF OfPlain
<1>5. CASE e.kind \in {"RunBroken", "Recoverable", "Anomalies"}
  BY ONLY <1>1, <1>5, Names, GapLines, g \in Gap DEF OfPlain
<1>6. CASE e.kind = "PartitionIdentified" /\ e.as \in {"unidentified", "unsupported", "fat32"}
  BY ONLY <1>1, <1>6, Names, GapLines, g \in Gap DEF OfOther
<1>7. CASE e.kind = "Directory"
  BY ONLY <1>1, <1>7, Names, GapLines, g \in Gap DEF OfOther
<1>8. CASE e.kind = "Ineligible"
  BY ONLY <1>1, <1>8, Names, GapLines, g \in Gap DEF OfOther
<1>9. CASE e.kind = "Extracted"
  BY ONLY <1>1, <1>9, Names, GapLines, g \in Gap DEF OfOther
<1> QED
  BY <1>2, <1>3, <1>4, <1>5, <1>6, <1>7, <1>8, <1>9, EventKinds DEF PlainKind

----------------------------------------------------------------------------
(***************************************************************************)
(* Types.                                                                  *)
(***************************************************************************)

Titled == [title : {"deleted content", "orphaned content"}, parts : SUBSET {"Entries", "Residue"}]

Reader == [heading : {"none", "root", "subdirectory", "orphan", "not read"},
           sections : Seq(Titled), free : BOOLEAN]

\* What the sequences hold beyond what TypeOK says of them.
Sequences == args \in Seq(Arg) /\ hashed \in Seq(Nat) /\ reader \in Reader

\* While a volume is reported on, its partition has not been counted off.
InVolume == {"boot", "listing", "entries", "extracting", "walk", "search", "listed"}

VolumeOpen == step \in InVolume => partitions > 0

TypeInv == TypeOK /\ Sequences /\ VolumeOpen

\* A new heading has no title and no entry under it.
LEMMA UnderType ==
  ASSUME NEW h \in {"none", "root", "subdirectory", "orphan", "not read"}
  PROVE  Under(h) \in Reader
<1>1. <<>> \in Seq(Titled)
  BY EmptySeq
<1> QED
  BY <1>1 DEF Under, Reader

\* A section has one of the two titles.
LEMMA SectionType ==
  ASSUME NEW l, NEW p \in {"Entries", "Residue"}
  PROVE  Section(l, p) \in Titled
BY DEF Section, TitleOf, Titled

\* A finding under the last title leaves sections what they are.
LEMMA StandingType ==
  ASSUME NEW ss \in Seq(Titled), NEW p \in {"Entries", "Residue"}
  PROVE  StandingLast(ss, p) \in Seq(Titled)
<1> DEFINE t == StandingLast(ss, p)
<1>1. Len(ss) \in Nat /\ DOMAIN ss = 1 .. Len(ss) /\ \A k \in 1 .. Len(ss) : ss[k] \in Titled
  OBVIOUS
<1>2. \A s \in Titled : [s EXCEPT !.parts = @ \cup {p}] \in Titled
  BY DEF Titled
<1>3. t = [k \in 1 .. Len(ss) |->
            IF k = Len(ss) THEN [ss[k] EXCEPT !.parts = @ \cup {p}] ELSE ss[k]]
  BY <1>1 DEF StandingLast
<1>4. \A k \in 1 .. Len(ss) :
        (IF k = Len(ss) THEN [ss[k] EXCEPT !.parts = @ \cup {p}] ELSE ss[k]) \in Titled
  BY ONLY <1>1, <1>2
<1> HIDE DEF t
<1>5. t \in [1 .. Len(ss) -> Titled]
  BY ONLY <1>3, <1>4
<1>6. t \in Seq(Titled)
  BY ONLY <1>1, <1>5, SeqDef
<1> QED
  BY <1>6 DEF t

\* Nobody has been given a title yet.
LEMMA FreshType == Fresh \in [{"Entries", "Residue"} -> BOOLEAN]
BY DEF Fresh

\* Emitting an event keeps the sink's types.
LEMMA EmitType ==
  ASSUME TypeInv, NEW e \in Event, Emit(e)
  PROVE  /\ counts' \in [Counter -> Nat] /\ said' \in [Line -> Nat]
         /\ headed' \in [{"Entries", "Residue"} -> BOOLEAN]
         /\ reader' \in Reader
         /\ line' \in {"none", "entry", "same entry"}
         /\ summary' = summary
<1> USE DEF TypeInv, TypeOK, Sequences
<1>1. Times(e) \in Nat
  BY TimesType
<1>2. counts' \in [Counter -> Nat]
  <2>1. counts' = [c \in Counter |-> counts[c] + (IF c \in Counted(e) THEN Times(e) ELSE 0)]
    BY DEF Emit
  <2>2. counts \in [Counter -> Nat]
    OBVIOUS
  <2> QED
    BY ONLY <1>1, <2>1, <2>2
<1>3. said' \in [Line -> Nat]
  <2>1. said' = [l \in Line |-> said[l] + (IF l \in Printed(e) THEN Times(e) ELSE 0)]
    BY DEF Emit
  <2>2. said \in [Line -> Nat]
    OBVIOUS
  <2> QED
    BY ONLY <1>1, <2>1, <2>2
<1>4. CASE OfEntry(e)
  <2> DEFINE known == \A p \in HeadingOf(part) : headed[p]
         sections == IF known THEN StandingLast(reader.sections, part)
                     ELSE Append(reader.sections, Section(listing, part))
  <2>1. part \in {"Entries", "Residue"} /\ Section(listing, part) \in Titled
    BY SectionType DEF TypeInv, TypeOK
  <2>2. sections \in Seq(Titled)
    <3>1. reader.sections \in Seq(Titled)
      BY DEF Reader
    <3>2. StandingLast(reader.sections, part) \in Seq(Titled)
      BY <2>1, <3>1, StandingType
    <3>3. Append(reader.sections, Section(listing, part)) \in Seq(Titled)
      BY ONLY <2>1, <3>1, AppendProperties
    <3> HIDE DEF known
    <3> QED
      BY <3>2, <3>3
  <2>3. SayEntry(e)
    BY <1>4 DEF Emit
  <2>4. reader' \in Reader
    <3>1. (e.kind = "Recoverable") \in BOOLEAN
      OBVIOUS
    <3>2. reader' = [reader EXCEPT !.sections = sections, !.free = (e.kind = "Recoverable")]
      BY <2>3 DEF SayEntry
    <3> HIDE DEF known, sections
    <3> QED
      BY <2>2, <3>1, <3>2 DEF Reader
  <2>5. headed' \in [{"Entries", "Residue"} -> BOOLEAN] /\ line' = "entry"
    BY <2>3 DEF SayEntry
  <2> QED
    BY <1>2, <1>3, <2>4, <2>5 DEF Emit
<1>5. CASE ~OfEntry(e)
  <2>1. SayOther(e)
    BY <1>5 DEF Emit
  <2>2. CASE e.kind = "Directory"
    <3>1. e.reached \in {"root", "subdirectory", "orphan"}
      BY <2>2 DEF Event, PlainKind
    <3>2. headed' = Fresh /\ reader' = Under(e.reached) /\ line' = "none"
      BY <2>1, <2>2 DEF SayOther, OfSameEntry
    <3>3. Fresh \in [{"Entries", "Residue"} -> BOOLEAN] /\ Under(e.reached) \in Reader
      BY <3>1, UnderType, FreshType
    <3> QED
      BY <1>2, <1>3, <3>2, <3>3 DEF Emit
  <2>3. CASE e.kind \in {"DirectoryNotRead", "OrphanedListingUnread"}
    <3>1. headed' = headed /\ reader' = Under("not read") /\ line' = "none"
      BY <2>1, <2>3 DEF SayOther, OfSameEntry
    <3>2. Under("not read") \in Reader
      BY UnderType
    <3> QED
      BY <1>2, <1>3, <3>1, <3>2 DEF Emit
  <2>4. CASE e.kind \notin {"Directory", "DirectoryNotRead", "OrphanedListingUnread"}
    <3>1. UNCHANGED <<headed, reader>> /\ line' \in {"none", "same entry"}
      BY <2>1, <2>4 DEF SayOther
    <3> QED
      BY <1>2, <1>3, <3>1 DEF Emit
  <2> QED
    BY <2>2, <2>3, <2>4
<1> QED
  BY <1>4, <1>5

\* So every step keeps them.
LEMMA SinkType ==
  ASSUME TypeInv, [Next]_vars
  PROVE  /\ counts' \in [Counter -> Nat] /\ said' \in [Line -> Nat]
         /\ headed' \in [{"Entries", "Residue"} -> BOOLEAN]
         /\ reader' \in Reader
         /\ line' \in {"none", "entry", "same entry"}
         /\ summary'.coverage \in {"", "complete", "incomplete", "none"}
<1>0. /\ counts \in [Counter -> Nat] /\ said \in [Line -> Nat]
      /\ headed \in [{"Entries", "Residue"} -> BOOLEAN]
      /\ reader \in Reader
      /\ line \in {"none", "entry", "same entry"}
      /\ summary.coverage \in {"", "complete", "incomplete", "none"}
  BY DEF TypeInv, TypeOK, Sequences
<1>1. CASE UNCHANGED Sink
  BY <1>0, <1>1 DEF Sink
<1>2. CASE Silent
  BY <1>0, <1>2 DEF Silent
<1>3. CASE \E e \in Event : Emit(e)
  BY <1>0, <1>3, EmitType
<1>4. CASE Summarise
  <2>1. summary'.coverage = Coverage(counts)
    BY <1>4 DEF Summarise
  <2>2. Coverage(counts) \in {"complete", "incomplete", "none"}
    <3>1. \A g \in Gap : counts[g] \in Nat
      BY <1>0 DEF Counter
    <3>2. counts["volumes_analysed"] \in Nat
      BY <1>0 DEF Counter
    <3> QED
      BY <3>1, <3>2 DEF Coverage
  <2> QED
    BY <1>0, <1>4, <2>1, <2>2 DEF Summarise
<1> QED
  BY <1>1, <1>2, <1>3, <1>4, OneEventEach DEF TypeInv

Steps == {"arguments", "destination", "evidence", "hashing", "hashed", "table",
          "partitions", "boot", "listing", "entries", "extracting", "walk", "search", "listed",
          "anomalies", "summary", "exited"}

\* The arguments are taken one flag at a time, and the evidence a read at a
\* time.
LEMMA InvocationType ==
  ASSUME TypeInv, InvocationNext
  PROVE  /\ InvocationTypeOK' /\ step' \in Steps
         /\ args' \in Seq(Arg) /\ hashed' \in Seq(Nat)
<1> USE InvocationAssumption
<1>0. InvocationTypeOK /\ step \in Steps /\ args \in Seq(Arg) /\ hashed \in Seq(Nat)
  BY DEF TypeInv, TypeOK, Sequences, Steps
<1>1. Len(args) \in Nat /\ next \in Nat /\ \A i \in 1 .. Len(args) : args[i] \in Arg
  BY <1>0 DEF InvocationTypeOK
<1>2. ASSUME NEW status \in {"usage", "failure"}, ExitWith(status)
      PROVE  /\ InvocationTypeOK' /\ step' \in Steps
             /\ args' \in Seq(Arg) /\ hashed' \in Seq(Nat)
  BY <1>0, <1>2 DEF ExitWith, Elsewhere, options, InvocationTypeOK, Steps
<1>3. CASE NoPath \/ RefuseArgument \/ RefuseOptions \/ RefuseDestination
           \/ EvidenceNotOpened \/ ReadFails
  BY <1>2, <1>3 DEF NoPath, RefuseArgument, RefuseOptions, RefuseDestination, EvidenceNotOpened,
     ReadFails
<1>4. CASE TakeRecover
  <2>1. next' \in 2 .. MaxArgs + 2
    BY <1>0, <1>1, <1>4 DEF TakeRecover, More, Take, InvocationTypeOK
  <2> QED
    BY <1>0, <1>4, <2>1 DEF TakeRecover, Take, Options, Elsewhere, InvocationTypeOK
<1>5. CASE TakeOutput \/ TakeReference
  <2>1. next' \in 2 .. MaxArgs + 2
    BY <1>0, <1>1, <1>5 DEF TakeOutput, TakeReference, HasValue, Take, InvocationTypeOK
  <2>2. Value \in Arg
    <3>1. next < Len(args)
      BY <1>5 DEF TakeOutput, TakeReference, HasValue
    <3>2. next + 1 \in 1 .. Len(args)
      BY <1>1, <3>1
    <3> QED
      BY <1>1, <3>2 DEF Value
  <2>3. recover' = recover /\ output' \in Arg \cup {Absent} /\ reference' \in {"digest", Absent}
    BY <1>0, <1>5, <2>2 DEF TakeOutput, TakeReference, Options, FromHex, InvocationTypeOK
  <2> QED
    BY <1>0, <1>5, <2>1, <2>3 DEF TakeOutput, TakeReference, Take, Elsewhere, InvocationTypeOK
<1>6. CASE AcceptOptions
  BY <1>0, <1>6 DEF AcceptOptions, GoTo, Elsewhere, options, InvocationTypeOK, Steps
<1>7. CASE AcceptDestination
  <2>1. <<>> \in Seq(Arg) /\ Len(<<>>) = 0 /\ Range(<<>>) \subseteq Arg
    BY EmptySeq DEF Range
  <2>2. output' \in Arg \cup {Absent}
    BY <1>7 DEF AcceptDestination, Arg
  <2>3. /\ args' = <<>> /\ next' = 2 /\ step' = "evidence"
        /\ UNCHANGED <<recover, reference, exit, size, reported, position, hashed, warned>>
    BY <1>7 DEF AcceptDestination
  <2> QED
    BY <1>0, <2>1, <2>2, <2>3 DEF InvocationTypeOK, Steps
<1>8. CASE Open \/ Resize
  BY <1>0, <1>8 DEF Open, Resize, options, InvocationTypeOK, Steps
<1>9. CASE ReadChunk
  <2>1. PICK n \in 1 .. BufferLen :
          position + n <= size /\ hashed' = hashed \o Filled(n) /\ position' = position + n
    BY <1>9 DEF ReadChunk
  <2>2. position \in Nat /\ size \in 0 .. MaxSize /\ n \in Nat
    BY <1>0, <2>1 DEF InvocationTypeOK
  <2>3. Filled(n) = [k \in 1 .. n |-> position + k - 1]
    BY DEF Filled
  <2>4. \A k \in 1 .. n : position + k - 1 \in 0 .. MaxSize - 1
    BY <2>1, <2>2
  <2>5. 0 .. MaxSize - 1 \subseteq Nat
    OBVIOUS
  <2>6. Filled(n) \in Seq(0 .. MaxSize - 1)
    BY <2>2, <2>3, <2>4
  <2>7. hashed \in Seq(0 .. MaxSize - 1)
    BY <1>0 DEF InvocationTypeOK
  <2>8. hashed' \in Seq(0 .. MaxSize - 1)
    BY <2>1, <2>6, <2>7
  <2>9. hashed' \in Seq(Nat) /\ \A k \in DOMAIN hashed' : hashed'[k] \in 0 .. MaxSize - 1
    BY <2>5, <2>8
  <2>10. position' \in 0 .. MaxSize
    BY <2>1, <2>2
  <2>11. UNCHANGED <<args, next, options, step, exit, size, reported, warned>>
    BY <1>9 DEF ReadChunk
  <2> QED
    BY <1>0, <2>9, <2>10, <2>11 DEF options, InvocationTypeOK
<1>10. CASE EndOfFile
  <2>1. warned' \in BOOLEAN
    BY <1>10 DEF EndOfFile, Mismatch
  <2> QED
    BY <1>0, <1>10, <2>1 DEF EndOfFile, options, InvocationTypeOK, Steps
<1> QED
  BY <1>3, <1>4, <1>5, <1>6, <1>7, <1>8, <1>9, <1>10 DEF InvocationNext
\* What a step of the analysis leaves alone, and where it may go.
Kept == /\ args' \in Seq(Arg) /\ hashed' \in Seq(Nat) /\ InvocationTypeOK' /\ step' \in Steps
        /\ partitions' \in 0 .. MaxPartitions
        /\ at' \in {"none", "root", "subdirectory", "orphan"}
        /\ listing' \in {"Walked", "Orphaned"} /\ part' \in {"Entries", "Residue"}
        /\ orphans' \in BOOLEAN
        /\ room' \in 0 .. MaxEvents

\* The same steps and counters, whatever comes next.
LEMMA AnalysisType ==
  ASSUME TypeInv, [Next]_vars
  PROVE  Kept
<1> USE ReportAssumption, InvocationAssumption
<1>0. /\ InvocationTypeOK /\ step \in Steps /\ args \in Seq(Arg) /\ hashed \in Seq(Nat)
      /\ partitions \in 0 .. MaxPartitions
      /\ at \in {"none", "root", "subdirectory", "orphan"}
      /\ listing \in {"Walked", "Orphaned"} /\ part \in {"Entries", "Residue"}
      /\ orphans \in BOOLEAN
      /\ room \in 0 .. MaxEvents
  BY DEF TypeInv, TypeOK, Sequences, Steps
<1>1. ASSUME NEW place \in Steps, Go(place)
      PROVE  /\ args' \in Seq(Arg) /\ hashed' \in Seq(Nat) /\ InvocationTypeOK'
             /\ step' \in Steps
  BY <1>0, <1>1 DEF Go, InvocationTypeOK
<1>2. ASSUME Spend PROVE room' \in 0 .. MaxEvents
  BY <1>0, <1>2 DEF Spend
<1>3. ASSUME Same
      PROVE  /\ at' \in {"none", "root", "subdirectory", "orphan"}
             /\ listing' \in {"Walked", "Orphaned"} /\ part' \in {"Entries", "Residue"}
             /\ orphans' \in BOOLEAN
  BY <1>0, <1>3 DEF Same
<1>4. ASSUME NEW place \in Steps, NEW e, OneEvent(place, e) PROVE Kept
  BY <1>0, <1>1, <1>3, <1>4 DEF OneEvent, Kept
<1>5. ASSUME NEW place \in Steps, MoveTo(place) PROVE Kept
  BY <1>0, <1>1, <1>3, <1>5 DEF MoveTo, Kept
<1>6. ASSUME NEW e, NextPartition(e), partitions > 0 PROVE Kept
  <2>1. Go("partitions") /\ Same /\ room' = room /\ partitions' = partitions - 1
    BY <1>6 DEF NextPartition
  <2> QED
    BY <1>0, <1>1, <1>3, <1>6, <2>1 DEF Kept, Steps
<1>7. ASSUME NEW place \in Steps, NEW e, OfAnEntry(e, place) PROVE Kept
  BY <1>0, <1>1, <1>2, <1>3, <1>7 DEF OfAnEntry, Kept
<1>8. CASE InvocationNext /\ UNCHANGED analysis
  BY <1>0, <1>8, InvocationType DEF analysis, Kept
<1>9. CASE Analyse
  <2>1. hashed' \in Seq(Nat) /\ DOMAIN hashed' = {}
    BY <1>9, EmptySeq DEF Analyse
  <2>2. /\ step' = "table" /\ size' = 0 /\ reported' = 0 /\ position' = 0 /\ warned' = FALSE
        /\ UNCHANGED <<args, next, recover, output, reference, exit, partitions, at, listing, part,
                       orphans, room>>
    BY <1>9 DEF Analyse, options, analysis
  <2>3. {size', reported', position'} \subseteq 0 .. MaxSize
    BY <2>2
  <2> QED
    BY <1>0, <2>1, <2>2, <2>3 DEF InvocationTypeOK, Kept, Steps
<1>10. CASE TableFails \/ GptDetected \/ Fat32 \/ ListingMayContinue \/ Extracted \/ NotExtracted
            \/ Anomalies
  <2>1. \E place \in Steps : \E e : OneEvent(place, e)
    BY <1>10 DEF TableFails, GptDetected, Fat32, ListingMayContinue, Extracted, NotExtracted,
       Anomalies, Steps
  <2> QED
    BY <1>4, <2>1
<1>11. CASE PartitionUnread \/ NotFat32
  <2>1. \E e : NextPartition(e) /\ partitions > 0
    BY <1>11 DEF PartitionUnread, NotFat32
  <2> QED
    BY <1>6, <2>1
<1>12. CASE ListingEnds \/ WalkEnds \/ SearchEnds \/ PartitionsEnd \/ NoAnomalies
  <2>1. \E place \in Steps : MoveTo(place)
    BY <1>12 DEF ListingEnds, WalkEnds, SearchEnds, PartitionsEnd, NoAnomalies, Steps
  <2> QED
    BY <1>5, <2>1
<1>13. CASE NotAssessed \/ Ineligible \/ RunBroken \/ Recoverable
  <2>1. \E place \in Steps : \E e : OfAnEntry(e, place)
    BY <1>13 DEF NotAssessed, Ineligible, RunBroken, Recoverable, Steps
  <2> QED
    BY <1>7, <2>1
<1>14. CASE PartitionsListed
  BY <1>0, <1>1, <1>3, <1>14 DEF PartitionsListed, Kept, Steps
<1>15. CASE DirectoryNotRead \/ OrphanedListingUnread
  BY <1>0, <1>1, <1>2, <1>3, <1>15 DEF DirectoryNotRead, OrphanedListingUnread, Kept, Steps
<1>16. CASE RootDirectory \/ Subdirectory \/ OrphanedDirectory
  <2>1. \E place \in Steps : Go(place)
    BY <1>16 DEF RootDirectory, Subdirectory, OrphanedDirectory, Enter, Steps
  <2>2. /\ at' \in {"root", "subdirectory", "orphan"} /\ listing' \in {"Walked", "Orphaned"}
        /\ part' = "Entries" /\ orphans' \in BOOLEAN /\ partitions' = partitions
        /\ room' = room \/ Spend
    BY <1>0, <1>16 DEF RootDirectory, Subdirectory, OrphanedDirectory, Enter
  <2> QED
    BY <1>0, <1>1, <1>2, <2>1, <2>2 DEF Kept
<1>17. CASE PartEnds
  BY <1>0, <1>17 DEF PartEnds, InvocationTypeOK, Kept, Steps
<1>18. CASE Summarise
  BY <1>0, <1>18 DEF Summarise, options, InvocationTypeOK, Kept, Steps
<1>19. CASE Exited \/ UNCHANGED vars
  BY <1>0, <1>19 DEF Exited, vars, invocation, analysis, InvocationTypeOK, Kept
<1>20. CASE VolumeFails \/ SearchStops
  <2>1. \E e : NextPartition(e) /\ partitions > 0
    BY <1>20 DEF VolumeFails, SearchStops, TypeInv, VolumeOpen, InVolume
  <2> QED
    BY <1>6, <2>1
<1>21. CASE VolumeEnds
  <2>1. partitions > 0
    BY <1>21 DEF VolumeEnds, TypeInv, VolumeOpen, InVolume
  <2> QED
    BY <1>0, <1>1, <1>3, <1>21, <2>1 DEF VolumeEnds, Kept, Steps
<1> QED
  BY <1>8, <1>9, <1>10, <1>11, <1>12, <1>13, <1>14, <1>15, <1>16, <1>17, <1>18, <1>19, <1>20,
     <1>21 DEF Next

\* Only a FAT32 partition opens a volume, and only its end counts it off.
LEMMA VolumeOpenStep ==
  ASSUME TypeInv, [Next]_vars
  PROVE  VolumeOpen'
<1> SUFFICES ASSUME step' \in InVolume PROVE partitions' > 0
  BY DEF VolumeOpen
<1>0. step \in InVolume => partitions > 0
  BY DEF TypeInv, VolumeOpen
<1>1. CASE InvocationNext /\ UNCHANGED analysis
  <2>1. \/ step' \notin InVolume
        \/ step' = step
    BY <1>1 DEF InvocationNext, NoPath, TakeRecover, TakeOutput, TakeReference, Take,
       RefuseArgument, RefuseOptions, AcceptOptions, GoTo, RefuseDestination, AcceptDestination,
       EvidenceNotOpened, Open, ReadChunk, ReadFails, EndOfFile, Resize, ExitWith, InVolume
  <2> QED
    BY <1>0, <1>1, <2>1 DEF analysis
<1>2. CASE Fat32
  BY <1>2 DEF Fat32, OneEvent
<1>3. CASE \/ RootDirectory \/ DirectoryNotRead \/ Subdirectory \/ ListingMayContinue
           \/ ListingEnds \/ WalkEnds \/ OrphanedDirectory \/ SearchEnds \/ OrphanedListingUnread
           \/ NotAssessed \/ Ineligible \/ RunBroken \/ Recoverable \/ Extracted \/ NotExtracted
           \/ PartEnds
  <2>1. step \in InVolume /\ partitions' = partitions
    BY <1>3 DEF RootDirectory, DirectoryNotRead, Subdirectory, ListingMayContinue,
       ListingEnds, WalkEnds, OrphanedDirectory, SearchEnds, OrphanedListingUnread, NotAssessed,
       Ineligible, RunBroken, Recoverable, Extracted, NotExtracted, PartEnds, OfAnEntry, OneEvent,
       MoveTo, InVolume
  <2> QED
    BY <1>0, <2>1
<1>4. CASE \/ Analyse \/ TableFails \/ GptDetected \/ PartitionsListed \/ PartitionUnread
           \/ NotFat32 \/ VolumeFails \/ SearchStops \/ VolumeEnds \/ PartitionsEnd \/ Anomalies
           \/ NoAnomalies \/ Summarise
  <2>1. step' \in {"table", "summary", "anomalies", "partitions", "exited"}
    BY <1>4 DEF Analyse, TableFails, GptDetected, PartitionsListed, PartitionUnread, NotFat32,
       VolumeFails, SearchStops, VolumeEnds, PartitionsEnd, Anomalies, NoAnomalies, Summarise,
       OneEvent, NextPartition, MoveTo, Go
  <2> QED
    BY <2>1 DEF InVolume
<1>5. CASE Exited \/ UNCHANGED vars
  BY <1>0, <1>5 DEF Exited, vars, invocation, analysis
<1> QED
  BY <1>1, <1>2, <1>3, <1>4, <1>5 DEF Next

\* For every bound, the state of a run is well typed from the first argument to
\* the summary.
THEOREM TypeCorrect == Spec => [](TypeOK /\ Sequences /\ VolumeOpen)
<1> USE DEF TypeInv
<1>1. Init => TypeInv
  <2> SUFFICES ASSUME Init PROVE TypeInv
    OBVIOUS
  <2> USE InvocationAssumption, ReportAssumption
  <2>1. args \in Seq(Arg) /\ Len(args) <= MaxArgs + 1
    <3>1. CASE args = <<>>
      BY <3>1, EmptySeq
    <3>2. CASE args # <<>>
      <4>1. PICK rest \in BoundedSeq(Arg, MaxArgs) : args = <<"text">> \o rest
        BY <3>2 DEF Init, InvocationInit
      <4>2. rest \in Seq(Arg) /\ Len(rest) <= MaxArgs
        BY <4>1 DEF BoundedSeq, SeqOf
      <4>3. <<"text">> \in Seq(Arg) /\ Len(<<"text">>) = 1
        BY DEF Arg
      <4> QED
        BY <4>1, <4>2, <4>3, ConcatProperties
    <3> QED
      BY <3>1, <3>2
  <2>2. hashed \in Seq(Nat) /\ DOMAIN hashed = {}
    BY EmptySeq DEF Init, InvocationInit, InvocationStart
  <2>3. InvocationTypeOK
    <3>1. Range(args) \subseteq Arg
      BY <2>1 DEF Range
    <3>2. {size, reported, position} \subseteq 0 .. MaxSize
      BY DEF Init, InvocationInit, InvocationStart
    <3>3. /\ next = 2 /\ recover = FALSE /\ output = Absent /\ reference = Absent
          /\ exit = "none" /\ warned = FALSE
      BY DEF Init, InvocationInit, InvocationStart
    <3>4. next \in 2 .. MaxArgs + 2
      BY <3>3
    <3> QED
      BY ONLY <2>1, <2>2, <3>1, <3>2, <3>3, <3>4 DEF InvocationTypeOK
  <2>4. counts \in [Counter -> Nat] /\ said \in [Line -> Nat]
    BY DEF Init
  <2>5. headed \in [{"Entries", "Residue"} -> BOOLEAN] /\ reader \in Reader
    BY UnderType, FreshType DEF Init
  <2>6. reader.heading \in {"none", "root", "subdirectory", "orphan", "not read"}
        /\ reader.free \in BOOLEAN
    BY <2>5 DEF Reader
  <2>7. summary.coverage = ""
    BY DEF Init, NoSummary
  <2>8. step = "arguments"
    BY DEF Init, InvocationInit, InvocationStart
  <2>9. /\ partitions = 0 /\ at = "none" /\ listing = "Walked" /\ part = "Entries"
        /\ orphans = FALSE /\ room = MaxEvents /\ line = "none"
    BY DEF Init
  <2>10. partitions \in 0 .. MaxPartitions /\ room \in 0 .. MaxEvents
    BY <2>9
  <2>11. TypeOK
    BY ONLY <2>3, <2>4, <2>5, <2>6, <2>7, <2>8, <2>9, <2>10 DEF TypeOK
  <2>12. Sequences
    BY <2>1, <2>2, <2>5 DEF Sequences
  <2> QED
    BY <2>8, <2>11, <2>12 DEF VolumeOpen, InVolume
<1>2. TypeInv /\ [Next]_vars => TypeInv'
  <2> SUFFICES ASSUME TypeInv, [Next]_vars PROVE TypeInv'
    OBVIOUS
  <2>1. Kept
    BY AnalysisType
  <2>2. /\ counts' \in [Counter -> Nat] /\ said' \in [Line -> Nat]
        /\ headed' \in [{"Entries", "Residue"} -> BOOLEAN]
        /\ reader' \in Reader
        /\ line' \in {"none", "entry", "same entry"}
        /\ summary'.coverage \in {"", "complete", "incomplete", "none"}
    BY SinkType
  <2>3. reader'.heading \in {"none", "root", "subdirectory", "orphan", "not read"}
        /\ reader'.free \in BOOLEAN
    BY <2>2 DEF Reader
  <2>4. VolumeOpen'
    BY VolumeOpenStep
  <2> HIDE DEF TypeInv
  <2>5. TypeOK'
    BY ONLY <2>1, <2>2, <2>3 DEF Kept, TypeOK, Steps
  <2>6. Sequences'
    BY ONLY <2>1, <2>2 DEF Kept, Sequences
  <2> QED
    BY <2>4, <2>5, <2>6 DEF TypeInv
<1> QED
  BY <1>1, <1>2, PTL DEF Spec

----------------------------------------------------------------------------
(***************************************************************************)
(* The digest.                                                             *)
(***************************************************************************)

\* The hasher has what lies before the position, in order; and a digest that is
\* printed without a warning is of as many bytes as there were at the open.
CoverInv ==
  /\ hashed = [k \in 1 .. Len(hashed) |-> k - 1]
  /\ position = Len(hashed)
  /\ step = "hashed" /\ ~warned => Len(hashed) = reported

\* A read continues where the last one ended.
LEMMA CoverRead ==
  ASSUME TypeInv, CoverInv, ReadChunk
  PROVE  CoverInv'
<1>1. PICK n \in 1 .. BufferLen : hashed' = hashed \o Filled(n) /\ position' = position + n
  BY DEF ReadChunk
<1>2. hashed \in Seq(Nat) /\ Len(hashed) \in Nat /\ position = Len(hashed) /\ n \in Nat
  BY <1>1, InvocationAssumption DEF TypeInv, Sequences, CoverInv
<1>3. \A k \in 1 .. Len(hashed) : hashed[k] = k - 1
  BY DEF CoverInv
<1>4. /\ Filled(n) = [k \in 1 .. n |-> position + k - 1]
      /\ \A k \in 1 .. n : position + k - 1 \in Nat
  BY <1>2 DEF Filled
<1>5. Filled(n) \in Seq(Nat) /\ Len(Filled(n)) = n
  BY <1>2, <1>4
<1>6. /\ hashed' \in Seq(Nat)
      /\ Len(hashed') = Len(hashed) + n
      /\ \A k \in 1 .. Len(hashed) + n :
           hashed'[k] = IF k <= Len(hashed) THEN hashed[k] ELSE Filled(n)[k - Len(hashed)]
  BY <1>1, <1>2, <1>5, ConcatProperties
<1>7. \A k \in 1 .. Len(hashed) + n : hashed'[k] = k - 1
  <2> SUFFICES ASSUME NEW k \in 1 .. Len(hashed) + n PROVE hashed'[k] = k - 1
    OBVIOUS
  <2>1. CASE k <= Len(hashed)
    <3>1. k \in 1 .. Len(hashed)
      BY <1>2, <2>1
    <3> QED
      BY <1>3, <1>6, <2>1, <3>1
  <2>2. CASE ~(k <= Len(hashed))
    <3>1. k - Len(hashed) \in 1 .. n /\ hashed'[k] = Filled(n)[k - Len(hashed)]
      BY <1>2, <1>6, <2>2
    <3> QED
      BY ONLY <1>2, <1>4, <3>1, k \in 1 .. Len(hashed) + n
  <2> QED
    BY <2>1, <2>2
<1>8. hashed' = [k \in 1 .. Len(hashed') |-> k - 1]
  BY <1>6, <1>7
<1>9. position' = Len(hashed')
  BY <1>1, <1>2, <1>6
<1>10. step' = "hashing"
  BY DEF ReadChunk
<1> QED
  BY <1>8, <1>9, <1>10 DEF CoverInv

\* However the reads are cut and the file resized, for any evidence and buffer.
THEOREM DigestCorrect == Spec => []DigestCoversWhatWasRead
<1>1. Init => CoverInv
  <2> SUFFICES ASSUME Init PROVE CoverInv
    OBVIOUS
  <2>1. hashed = <<>> /\ position = 0 /\ step = "arguments"
    BY DEF Init, InvocationInit, InvocationStart
  <2> QED
    BY <2>1 DEF CoverInv
<1>2. TypeInv /\ CoverInv /\ [Next]_vars => CoverInv'
  <2> SUFFICES ASSUME TypeInv, CoverInv, [Next]_vars PROVE CoverInv'
    OBVIOUS
  <2>1. CASE ReadChunk
    BY <2>1, CoverRead
  <2>2. CASE EndOfFile
    BY <2>2 DEF EndOfFile, Mismatch, CoverInv
  <2>3. CASE Analyse
    <3>1. hashed' = <<>> /\ position' = 0 /\ step' = "table"
      BY <2>3 DEF Analyse
    <3> QED
      BY <3>1 DEF CoverInv
  <2>4. CASE InvocationNext /\ ~ReadChunk /\ ~EndOfFile
    <3>1. UNCHANGED <<hashed, position>> /\ step' # "hashed"
      BY <2>4 DEF InvocationNext, NoPath, TakeRecover, TakeOutput, TakeReference, Take,
         RefuseArgument, RefuseOptions, AcceptOptions, GoTo, RefuseDestination, AcceptDestination,
         EvidenceNotOpened, Open, ReadFails, Resize, ExitWith, More, AllTaken, Elsewhere
    <3> QED
      BY <3>1 DEF CoverInv
  <2>5. CASE \/ TableFails \/ GptDetected \/ PartitionsListed \/ PartitionUnread
             \/ NotFat32 \/ Fat32 \/ VolumeFails \/ SearchStops \/ VolumeEnds \/ PartitionsEnd
             \/ Anomalies \/ NoAnomalies
             \/ RootDirectory \/ DirectoryNotRead \/ Subdirectory \/ ListingMayContinue
             \/ ListingEnds \/ WalkEnds \/ OrphanedDirectory \/ SearchEnds
             \/ OrphanedListingUnread \/ NotAssessed \/ Ineligible \/ RunBroken \/ Recoverable
             \/ Extracted \/ NotExtracted
    <3>1. \E place \in Steps \ {"hashed"} : Go(place)
      BY <2>5 DEF TableFails, GptDetected, PartitionsListed, PartitionUnread, NotFat32,
         Fat32, VolumeFails, SearchStops, VolumeEnds, PartitionsEnd, Anomalies, NoAnomalies,
         RootDirectory, DirectoryNotRead, Subdirectory, ListingMayContinue, ListingEnds, WalkEnds,
         OrphanedDirectory, SearchEnds, OrphanedListingUnread, NotAssessed, Ineligible, RunBroken,
         Recoverable, Extracted, NotExtracted, Enter, OneEvent, NextPartition, MoveTo, OfAnEntry,
         Steps
    <3> QED
      BY <3>1 DEF Go, CoverInv
  <2>6. CASE PartEnds
    <3>1. UNCHANGED <<hashed, position>> /\ step' # "hashed"
      BY <2>6 DEF PartEnds
    <3> QED
      BY <3>1 DEF CoverInv
  <2>7. CASE Summarise
    BY <2>7 DEF Summarise, CoverInv
  <2>8. CASE Exited \/ UNCHANGED vars
    BY <2>8 DEF Exited, vars, invocation, CoverInv
  <2> QED
    BY <2>1, <2>2, <2>3, <2>4, <2>5, <2>6, <2>7, <2>8 DEF Next
<1>3. CoverInv => DigestCoversWhatWasRead
  BY DEF CoverInv, DigestCoversWhatWasRead
<1> QED
  BY <1>1, <1>2, <1>3, TypeCorrect, PTL DEF Spec, TypeInv

----------------------------------------------------------------------------
(***************************************************************************)
(* The headings.                                                           *)
(***************************************************************************)

InDirectory == {"listing", "entries", "extracting"}

\* The sections printed under this directory are those the two flags stand for.
SectionsAre ==
  \/ ~headed["Entries"] /\ ~headed["Residue"] /\ reader.sections = <<>>
  \/ /\ headed["Entries"] /\ ~headed["Residue"]
     /\ reader.sections = <<Section(listing, "Entries")>>
  \/ /\ ~headed["Entries"] /\ headed["Residue"]
     /\ reader.sections = <<Section(listing, "Residue")>>
  \/ /\ headed["Entries"] /\ headed["Residue"]
     /\ reader.sections = <<Section(listing, "Entries"), Section(listing, "Residue")>>

\* While a directory is gone through, it is the last one printed, and its files
\* are called what the way it was reached makes them.
HeadingInv ==
  step \in InDirectory =>
    /\ reader.heading = at
    /\ listing = "Orphaned" <=> at = "orphan"
    /\ SectionsAre
    /\ part = "Entries" => ~headed["Residue"]
    /\ step = "extracting" => reader.free /\ headed[part]

\* A line about an entry stands under the title of its part.
LineInv ==
  /\ line # "none" => step \in {"entries", "extracting"} /\ headed[part]
  /\ line = "same entry" => reader.free

\* An event that is about no entry says nothing of one.
LEMMA NotOfEntry ==
  ASSUME NEW e, Emit(e), ~OfEntry(e), ~OfSameEntry(e)
  PROVE  line' = "none"
BY DEF Emit, SayOther

\* A first section, and a second one after it.
LEMMA SectionsAppended ==
  ASSUME NEW S, NEW u \in S, NEW t \in S
  PROVE  Append(<<>>, t) = <<t>> /\ Append(<<u>>, t) = <<u, t>>
<1> DEFINE a == Append(<<u>>, t)
           b == <<u, t>>
<1>1. <<u>> \in Seq(S) /\ Len(<<u>>) = 1 /\ <<u>>[1] = u
  OBVIOUS
<1>2. a \in Seq(S) /\ Len(a) = 2 /\ a[1] = u /\ a[2] = t
  BY <1>1, AppendProperties
<1>3. b \in Seq(S) /\ Len(b) = 2 /\ b[1] = u /\ b[2] = t
  OBVIOUS
<1>4. \A i \in 1 .. Len(a) : a[i] = b[i]
  BY <1>2, <1>3
<1> HIDE DEF a, b
<1>5. a = b
  BY ONLY <1>2, <1>3, <1>4, SeqEqual
<1>6. Append(<<>>, t) = <<t>>
  OBVIOUS
<1> QED
  BY <1>5, <1>6 DEF a, b

\* A finding of a part stands where its section is the last one.
LEMMA SectionsStand ==
  ASSUME NEW l, NEW p, NEW u
  PROVE  /\ StandingLast(<<Section(l, p)>>, p) = <<Section(l, p)>>
         /\ StandingLast(<<u, Section(l, p)>>, p) = <<u, Section(l, p)>>
<1> DEFINE s == Section(l, p)
<1>1. [s EXCEPT !.parts = @ \cup {p}] = s
  BY DEF Section
<1> HIDE DEF s
<1>2. /\ Len(<<s>>) = 1 /\ DOMAIN <<s>> = {1} /\ <<s>>[1] = s
      /\ Len(<<u, s>>) = 2 /\ DOMAIN <<u, s>> = {1, 2} /\ <<u, s>>[1] = u /\ <<u, s>>[2] = s
  OBVIOUS
<1>3. StandingLast(<<s>>, p) = <<s>>
  <2>1. StandingLast(<<s>>, p) = [k \in {1} |-> s]
    BY <1>1, <1>2 DEF StandingLast
  <2> QED
    BY <2>1
<1>4. StandingLast(<<u, s>>, p) = <<u, s>>
  <2>1. StandingLast(<<u, s>>, p) = [k \in {1, 2} |-> IF k = 2 THEN s ELSE u]
    BY <1>1, <1>2 DEF StandingLast
  <2> QED
    BY <2>1
<1> QED
  BY <1>3, <1>4 DEF s

\* The line of an entry comes with its title, unless that was printed.
LEMMA EntryLines ==
  ASSUME TypeInv, HeadingInv, step = "entries", NEW e, OfEntry(e), Emit(e),
         UNCHANGED <<at, listing, part>>, step' \in {"entries", "extracting"},
         step' = "extracting" => e.kind = "Recoverable"
  PROVE  HeadingInv' /\ LineInv'
<1> DEFINE section == Section(listing, part)
<1>1. SayEntry(e)
  BY DEF Emit
<1>2. headed \in [{"Entries", "Residue"} -> BOOLEAN] /\ part \in {"Entries", "Residue"}
  BY DEF TypeInv, TypeOK
<1>3. /\ reader.heading = at
      /\ listing = "Orphaned" <=> at = "orphan"
      /\ SectionsAre
      /\ part = "Entries" => ~headed["Residue"]
  BY DEF HeadingInv, InDirectory
<1>4. headed' = [p \in {"Entries", "Residue"} |-> headed[p] \/ p = part]
  BY <1>1, <1>2 DEF SayEntry, HeadingOf
<1>5. /\ reader'.heading = reader.heading
      /\ reader'.sections = IF headed[part] THEN StandingLast(reader.sections, part)
                           ELSE Append(reader.sections, section)
      /\ reader'.free = (e.kind = "Recoverable")
  <2>1. reader \in Reader
    BY DEF TypeInv, Sequences
  <2>2. (\A p \in HeadingOf(part) : headed[p]) <=> headed[part]
    BY DEF HeadingOf
  <2> QED
    BY <1>1, <2>1, <2>2 DEF SayEntry, Reader
<1>6. line' = "entry"
  BY <1>1 DEF SayEntry
<1>7. headed'[part] /\ (part = "Entries" => ~headed'["Residue"])
  BY <1>2, <1>3, <1>4
<1>8. /\ Append(<<>>, section) = <<section>>
      /\ Append(<<Section(listing, "Entries")>>, section)
           = <<Section(listing, "Entries"), section>>
  <2>1. section \in Titled /\ Section(listing, "Entries") \in Titled
    BY <1>2, SectionType
  <2> HIDE DEF section
  <2> QED
    BY ONLY <2>1, SectionsAppended
<1>9. /\ StandingLast(<<section>>, part) = <<section>>
      /\ StandingLast(<<Section(listing, "Entries"), section>>, part)
           = <<Section(listing, "Entries"), section>>
  BY SectionsStand
<1>10. SectionsAre'
  <2>0. listing' = listing
    OBVIOUS
  <2>1. CASE part = "Entries"
    <3>1. ~headed["Residue"] /\ headed'["Entries"] /\ ~headed'["Residue"]
      BY <1>2, <1>3, <1>4, <2>1
    <3>2. reader'.sections = <<Section(listing, "Entries")>>
      BY <1>3, <1>5, <1>8, <1>9, <2>1, <3>1 DEF SectionsAre
    <3> QED
      BY <2>0, <3>1, <3>2 DEF SectionsAre, Section, TitleOf
  <2>2. CASE part = "Residue"
    <3>1. headed'["Residue"] /\ (headed'["Entries"] <=> headed["Entries"])
      BY <1>2, <1>4, <2>2
    <3>2. reader'.sections = IF headed["Entries"]
                           THEN <<Section(listing, "Entries"), Section(listing, "Residue")>>
                           ELSE <<Section(listing, "Residue")>>
      BY <1>3, <1>5, <1>8, <1>9, <2>2 DEF SectionsAre
    <3> QED
      BY <2>0, <3>1, <3>2 DEF SectionsAre, Section, TitleOf
  <2> QED
    BY <1>2, <2>1, <2>2
<1> QED
  BY <1>3, <1>5, <1>6, <1>7, <1>10 DEF HeadingInv, LineInv

\* Every step of a run keeps lines under their headings.
LEMMA HeadingStep ==
  ASSUME TypeInv, HeadingInv, LineInv, [Next]_vars
  PROVE  HeadingInv' /\ LineInv'
<1>1. CASE InvocationNext /\ UNCHANGED analysis
  <2>1. step' \notin InDirectory /\ step \notin {"entries", "extracting"}
    BY <1>1 DEF InvocationNext, NoPath, TakeRecover, TakeOutput, TakeReference, Take,
       RefuseArgument, RefuseOptions, AcceptOptions, GoTo, RefuseDestination, AcceptDestination,
       EvidenceNotOpened, Open, ReadChunk, ReadFails, EndOfFile, Resize, ExitWith, More, AllTaken,
       InDirectory
  <2> QED
    BY <1>1, <2>1 DEF analysis, HeadingInv, LineInv
<1>2. CASE Analyse \/ Summarise
  <2>1. /\ step' \notin InDirectory /\ step \notin {"entries", "extracting"}
        /\ line' = line
    BY <1>2 DEF Analyse, Summarise, analysis, InDirectory
  <2> QED
    BY <2>1 DEF HeadingInv, LineInv
<1>3. CASE RootDirectory \/ Subdirectory \/ OrphanedDirectory
  <2>1. PICK r \in {"root", "subdirectory", "orphan"} :
          /\ at' = r /\ part' = "Entries" /\ Emit(Directory(r))
          /\ step' \in {"entries", "listing"} /\ (listing' = "Orphaned" <=> r = "orphan")
    BY <1>3 DEF RootDirectory, Subdirectory, OrphanedDirectory, Enter, Go
  <2>2. headed' = Fresh /\ reader' = Under(r) /\ line' = "none"
    <3>1. Directory(r).kind = "Directory" /\ Directory(r).reached = r
      BY DEF Directory
    <3> QED
      BY <2>1, <3>1 DEF Emit, OfEntry, OfSameEntry, SayOther
  <2>3. /\ reader'.heading = r /\ reader'.sections = <<>>
        /\ ~headed'["Entries"] /\ ~headed'["Residue"]
    BY <2>2 DEF Fresh, Under
  <2> QED
    BY <2>1, <2>2, <2>3 DEF HeadingInv, LineInv, SectionsAre
<1>4. CASE NotAssessed \/ Ineligible \/ RunBroken \/ Recoverable
  <2>0. \E place \in {"entries", "extracting"} : \E e :
          /\ OfAnEntry(e, place) /\ OfEntry(e)
          /\ place = "extracting" => e.kind = "Recoverable"
    <3>1. /\ OfEntry(Plain("NotAssessed")) /\ OfEntry(Plain("RunBroken"))
          /\ OfEntry(Plain("Recoverable")) /\ Plain("Recoverable").kind = "Recoverable"
          /\ \A reason : OfEntry([kind |-> "Ineligible", reason |-> reason])
      BY DEF OfEntry, Plain
    <3>2. CASE NotAssessed \/ RunBroken
      BY <3>1, <3>2 DEF NotAssessed, RunBroken
    <3>3. CASE Ineligible
      BY <3>1, <3>3 DEF Ineligible
    <3>4. CASE Recoverable
      BY <3>1, <3>4 DEF Recoverable
    <3> QED
      BY <1>4, <3>2, <3>3, <3>4
  <2>1. PICK place \in {"entries", "extracting"} : \E e :
          /\ OfAnEntry(e, place) /\ OfEntry(e)
          /\ place = "extracting" => e.kind = "Recoverable"
    BY <2>0
  <2>3. PICK e :
          /\ OfAnEntry(e, place) /\ OfEntry(e)
          /\ place = "extracting" => e.kind = "Recoverable"
    BY <2>1
  <2>2. /\ step = "entries" /\ Emit(e) /\ UNCHANGED <<at, listing, part>> /\ step' = place
    BY <2>3 DEF OfAnEntry, Same, Go
  <2> QED
    BY <2>1, <2>2, <2>3, EntryLines
<1>5. CASE Extracted \/ NotExtracted
  <2>1. PICK e : OneEvent("entries", e) /\ e.kind \in {"Extracted", "NotExtracted"}
    <3>1. Plain("NotExtracted").kind = "NotExtracted"
      BY DEF Plain
    <3>2. \A o, v : [kind |-> "Extracted", output |-> o, validation |-> v].kind = "Extracted"
      OBVIOUS
    <3>3. CASE NotExtracted
      BY <3>1, <3>3 DEF NotExtracted
    <3>4. CASE Extracted
      <4>1. PICK o \in Outputs, v \in Validations :
              OneEvent("entries", [kind |-> "Extracted", output |-> o, validation |-> v])
        BY <3>4 DEF Extracted
      <4> QED
        BY <3>2, <4>1
    <3> QED
      BY <1>5, <3>3, <3>4
  <2>2. /\ step' = "entries" /\ UNCHANGED <<at, listing, part>>
        /\ UNCHANGED <<headed, reader>> /\ line' = "same entry"
    BY <2>1 DEF OneEvent, Go, Same, Emit, OfEntry, OfSameEntry, SayOther
  <2>3. step = "extracting"
    BY <1>5 DEF Extracted, NotExtracted
  <2> QED
    BY <2>2, <2>3 DEF HeadingInv, LineInv, InDirectory, SectionsAre
<1>6. CASE ListingMayContinue \/ ListingEnds
  <2>1. UNCHANGED <<headed, reader>> /\ line' = "none"
    BY <1>6 DEF ListingMayContinue, ListingEnds, MoveTo, Silent, OneEvent, Plain, Emit, OfEntry,
       OfSameEntry, SayOther
  <2>2. step = "listing" /\ step' = "entries" /\ UNCHANGED <<at, listing, part>>
    BY <1>6 DEF ListingMayContinue, ListingEnds, MoveTo, OneEvent, Go, Same
  <2> QED
    BY <2>1, <2>2 DEF HeadingInv, LineInv, InDirectory, SectionsAre
<1>7. CASE PartEnds
  <2>1. UNCHANGED <<headed, reader, at, listing>> /\ line' = "none" /\ step = "entries"
    BY <1>7 DEF PartEnds, Silent
  <2>2. \/ step' = "entries" /\ part' = "Residue"
        \/ step' \in {"walk", "search"}
    BY <1>7 DEF PartEnds
  <2> QED
    BY <2>1, <2>2 DEF HeadingInv, LineInv, InDirectory, SectionsAre
<1>8. CASE \/ PartitionsListed \/ WalkEnds \/ SearchEnds \/ VolumeEnds \/ PartitionsEnd
           \/ NoAnomalies
  <2>1. line' = "none" /\ step' \notin InDirectory
    BY <1>8 DEF PartitionsListed, WalkEnds, SearchEnds, VolumeEnds, PartitionsEnd, NoAnomalies,
       MoveTo, Silent, Go, InDirectory
  <2> QED
    BY <2>1 DEF HeadingInv, LineInv
<1>9. CASE \/ TableFails \/ GptDetected \/ PartitionUnread \/ NotFat32 \/ Fat32 \/ VolumeFails
           \/ DirectoryNotRead \/ SearchStops \/ OrphanedListingUnread \/ Anomalies
  <2>1. /\ \E e : Emit(e) /\ ~OfEntry(e) /\ ~OfSameEntry(e)
        /\ step' \notin InDirectory
    BY <1>9 DEF TableFails, GptDetected, PartitionUnread, NotFat32, Fat32, VolumeFails,
       DirectoryNotRead, SearchStops, OrphanedListingUnread, Anomalies, OneEvent, NextPartition,
       Identified, Plain, Go, OfEntry, OfSameEntry, InDirectory
  <2> QED
    BY <2>1, NotOfEntry DEF HeadingInv, LineInv
<1>10. CASE Exited \/ UNCHANGED vars
  BY <1>10 DEF Exited, vars, invocation, analysis, HeadingInv, LineInv, SectionsAre
<1> QED
  BY <1>1, <1>2, <1>3, <1>4, <1>5, <1>6, <1>7, <1>8, <1>9, <1>10 DEF Next

\* Whatever a volume holds and in whatever order it is told of, for any number
\* of partitions and events.
THEOREM HeadingCorrect == Spec => []LineIsUnderItsHeading
<1>1. Init => HeadingInv /\ LineInv
  BY DEF Init, InvocationInit, InvocationStart, HeadingInv, LineInv, InDirectory
<1>2. TypeInv /\ HeadingInv /\ LineInv /\ [Next]_vars => HeadingInv' /\ LineInv'
  BY HeadingStep
<1>3. TypeInv /\ HeadingInv /\ LineInv => LineIsUnderItsHeading
  <2> SUFFICES ASSUME TypeInv, HeadingInv, LineInv, line # "none"
               PROVE  LineIsUnderItsHeading
    BY DEF LineIsUnderItsHeading
  <2>1. /\ reader.heading = at /\ SectionsAre /\ headed[part]
        /\ listing = "Orphaned" <=> at = "orphan"
        /\ part = "Entries" => ~headed["Residue"]
        /\ part \in {"Entries", "Residue"}
    BY DEF TypeInv, TypeOK, HeadingInv, LineInv, InDirectory
  <2> DEFINE first == Section(listing, "Entries")
             second == Section(listing, "Residue")
  <2>2. \/ part = "Entries" /\ reader.sections = <<first>>
        \/ part = "Residue" /\ reader.sections = <<second>>
        \/ part = "Residue" /\ reader.sections = <<first, second>>
    BY <2>1 DEF SectionsAre
  <2>3. /\ first.parts = {"Entries"} /\ second.parts = {"Residue"}
        /\ first.title = "orphaned content" <=> at = "orphan"
        /\ second.title = "orphaned content" <=> at = "orphan"
    BY <2>1 DEF Section, TitleOf
  <2> HIDE DEF first, second
  <2>4. reader.sections # <<>> /\ reader.sections[Len(reader.sections)].parts = {part}
    <3>1. \A a, b : /\ <<a>> # <<>> /\ <<a>>[Len(<<a>>)] = a
                   /\ <<a, b>> # <<>> /\ <<a, b>>[Len(<<a, b>>)] = b
      OBVIOUS
    <3>2. /\ reader.sections # <<>>
          /\ \/ part = "Entries" /\ reader.sections[Len(reader.sections)] = first
             \/ part = "Residue" /\ reader.sections[Len(reader.sections)] = second
      BY ONLY <2>2, <3>1
    <3> QED
      BY ONLY <2>3, <3>2
  <2>5. /\ \A k \in DOMAIN reader.sections : reader.sections[k] \in {first, second}
        /\ \A j, k \in DOMAIN reader.sections :
             reader.sections[j] = reader.sections[k] => j = k
    <3>1. first # second
      BY ONLY <2>3
    <3>2. \A a, b : /\ DOMAIN <<a>> = {1} /\ <<a>>[1] = a
                   /\ DOMAIN <<a, b>> = {1, 2} /\ <<a, b>>[1] = a /\ <<a, b>>[2] = b
      OBVIOUS
    <3>3. CASE reader.sections = <<first>>
      BY ONLY <3>2, <3>3
    <3>4. CASE reader.sections = <<second>>
      BY ONLY <3>2, <3>4
    <3>5. CASE reader.sections = <<first, second>>
      <4>1. /\ DOMAIN reader.sections = {1, 2}
            /\ reader.sections[1] = first /\ reader.sections[2] = second
        BY ONLY <3>2, <3>5
      <4> QED
        BY ONLY <3>1, <4>1
    <3> QED
      BY ONLY <2>2, <3>3, <3>4, <3>5
  <2>6. \A j, k \in DOMAIN reader.sections :
          reader.sections[j].parts \cap reader.sections[k].parts # {} => j = k
    <3>1. \A s, t \in {first, second} : s.parts \cap t.parts # {} => s = t
      <4>1. {"Entries"} \cap {"Residue"} = {} /\ {"Residue"} \cap {"Entries"} = {}
        OBVIOUS
      <4> QED
        BY ONLY <2>3, <4>1
    <3>2. SUFFICES ASSUME NEW j \in DOMAIN reader.sections, NEW k \in DOMAIN reader.sections,
                          reader.sections[j].parts \cap reader.sections[k].parts # {}
                   PROVE  j = k
      OBVIOUS
    <3>3. reader.sections[j] = reader.sections[k]
      BY ONLY <2>5, <3>1, <3>2
    <3> QED
      BY ONLY <2>5, <3>3
  <2>7. \A k \in DOMAIN reader.sections :
          /\ \E p \in {"Entries", "Residue"} : reader.sections[k].parts = {p}
          /\ reader.sections[k].title = "orphaned content" <=> at = "orphan"
    <3>1. \A s \in {first, second} :
            /\ \E p \in {"Entries", "Residue"} : s.parts = {p}
            /\ s.title = "orphaned content" <=> at = "orphan"
      BY ONLY <2>3
    <3> QED
      BY ONLY <2>5, <3>1
  <2>8. line = "same entry" => reader.free
    BY DEF LineInv
  <2> QED
    BY <2>1, <2>4, <2>6, <2>7, <2>8 DEF LineIsUnderItsHeading, Last
<1> QED
  BY <1>1, <1>2, <1>3, TypeCorrect, PTL DEF Spec, TypeInv

----------------------------------------------------------------------------
(***************************************************************************)
(* The summary.                                                            *)
(***************************************************************************)

\* Every gap counted was told of where it was met.
GapsSaid == \A g \in Gap : counts[g] = said[GapLine[g]]

\* The figures the summary derives its own from.
Figures == <<counts["free_runs"], counts["not_extracted"], counts["matched"],
             said["every cluster free"], said["recovered"], said["MATCHES"], said["DIFFERS"]>>

RunsSaid ==
  /\ counts["free_runs"] = said["every cluster free"]
  /\ counts["matched"] = said["MATCHES"]

\* A run whose content is read is recovered, given up, or the one in hand.
RunsRead ==
  /\ recover /\ step = "extracting" =>
       counts["free_runs"] = said["recovered"] + counts["not_extracted"] + 1
  /\ recover /\ step # "extracting" =>
       counts["free_runs"] = said["recovered"] + counts["not_extracted"]
  /\ ~recover =>
       said["recovered"] = 0 /\ counts["not_extracted"] = 0 /\ step # "extracting"

\* A recovered file is compared with the recorded digest, if there is one.
RunsCompared ==
  IF reference = Absent
  THEN said["MATCHES"] = 0 /\ said["DIFFERS"] = 0
  ELSE said["recovered"] = said["MATCHES"] + said["DIFFERS"]

\* The options are settled before anything is counted.
Settling == {"arguments", "destination", "evidence", "hashing", "hashed"}

NothingYet == step \in Settling => Figures = <<0, 0, 0, 0, 0, 0, 0>>

\* The summary is the last thing a run says.
SummaryLast == summary # NoSummary => step = "exited"

CountInv == GapsSaid /\ RunsSaid /\ RunsRead /\ RunsCompared /\ NothingYet /\ SummaryLast

\* A figure that one more of something raises by one.
Plus(now, if, before) == now = IF if THEN before + 1 ELSE before

\* What one event adds to each of the figures.
Adds(e) ==
  LET compared(v) == e.kind = "Extracted" /\ e.validation = v IN
  /\ Plus(counts'["free_runs"], e.kind = "Recoverable", counts["free_runs"])
  /\ Plus(said'["every cluster free"], e.kind = "Recoverable", said["every cluster free"])
  /\ Plus(counts'["not_extracted"], e.kind = "NotExtracted", counts["not_extracted"])
  /\ Plus(said'["recovered"], e.kind = "Extracted", said["recovered"])
  /\ Plus(counts'["matched"], compared("Match"), counts["matched"])
  /\ Plus(said'["MATCHES"], compared("Match"), said["MATCHES"])
  /\ Plus(said'["DIFFERS"], compared("Differs"), said["DIFFERS"])

LEMMA PlusZero == \A n \in Nat : n + 0 = n
OBVIOUS

\* Two figures of which one is raised.
LEMMA OneRaised ==
  ASSUME NEW a \in Nat, NEW b \in Nat, NEW x, NEW y,
         \/ x = a + 1 /\ y = b
         \/ x = a /\ y = b + 1
  PROVE  x + y = a + b + 1
OBVIOUS

LEMMA EmitFigures ==
  ASSUME TypeInv, NEW e \in Event, Emit(e)
  PROVE  Adds(e) /\ (GapsSaid => GapsSaid')
<1>1. /\ counts \in [Counter -> Nat] /\ said \in [Line -> Nat]
      /\ Times(e) \in Nat
  BY TimesType DEF TypeInv, TypeOK
<1>2. /\ counts' = [c \in Counter |-> counts[c] + (IF c \in Counted(e) THEN Times(e) ELSE 0)]
      /\ said' = [l \in Line |-> said[l] + (IF l \in Printed(e) THEN Times(e) ELSE 0)]
  BY DEF Emit
<1>3. \A g \in Gap : g \in Counter /\ GapLine[g] \in Line
  BY DEF Counter, Line
<1>4. GapsSaid => GapsSaid'
  <2> SUFFICES ASSUME GapsSaid, NEW g \in Gap PROVE counts'[g] = said'[GapLine[g]]
    BY DEF GapsSaid
  <2>1. g \in Counted(e) <=> GapLine[g] \in Printed(e)
    BY GapsAgree
  <2>2. counts[g] = said[GapLine[g]]
    BY DEF GapsSaid
  <2> QED
    BY ONLY <1>2, <1>3, <2>1, <2>2, g \in Gap
<1>5. /\ {"free_runs", "matched"} \subseteq Counter
      /\ {"every cluster free", "MATCHES", "recovered", "DIFFERS"} \subseteq Line
      /\ "not_extracted" \in Counter
  <2>1. /\ EntryLine["free_runs"] = "every cluster free" /\ EntryLine["matched"] = "MATCHES"
    BY DEF EntryLine
  <2> QED
    BY <2>1, Names DEF Counter, Line
<1>6. OfPlain(e) /\ OfOther(e)
  BY PlainTable, OtherTable
<1>7. /\ "free_runs" \in Counted(e) <=> e.kind = "Recoverable"
      /\ "every cluster free" \in Printed(e) <=> e.kind = "Recoverable"
      /\ "not_extracted" \in Counted(e) <=> e.kind = "NotExtracted"
      /\ "recovered" \in Printed(e) <=> e.kind = "Extracted"
      /\ "matched" \in Counted(e) <=> e.kind = "Extracted" /\ e.validation = "Match"
      /\ "MATCHES" \in Printed(e) <=> e.kind = "Extracted" /\ e.validation = "Match"
      /\ "DIFFERS" \in Printed(e) <=> e.kind = "Extracted" /\ e.validation = "Differs"
  <2>1. CASE e.kind \in PlainKind \cup {"Anomalies"}
    BY ONLY <1>6, <2>1 DEF OfPlain, PlainKind
  <2>2. CASE e.kind = "PartitionIdentified" /\ e.as \in {"unidentified", "unsupported", "fat32"}
    BY ONLY <1>6, <2>2 DEF OfOther
  <2>3. CASE e.kind \in {"Directory", "Ineligible", "Extracted"}
    BY ONLY <1>6, <2>3 DEF OfOther
  <2> QED
    BY <2>1, <2>2, <2>3, EventKinds
<1>8. e.kind # "Anomalies" => Times(e) = 1
  BY DEF Times
<1>9. \A c \in {"free_runs", "not_extracted", "matched"} :
        Plus(counts'[c], c \in Counted(e), counts[c])
  <2> SUFFICES ASSUME NEW c \in {"free_runs", "not_extracted", "matched"}
               PROVE Plus(counts'[c], c \in Counted(e), counts[c])
    OBVIOUS
  <2>1. c \in Counter /\ counts[c] \in Nat
    BY ONLY <1>1, <1>5, c \in {"free_runs", "not_extracted", "matched"}
  <2>2. c \in Counted(e) => Times(e) = 1
    BY ONLY <1>7, <1>8, c \in {"free_runs", "not_extracted", "matched"}
  <2>3. counts'[c] = counts[c] + (IF c \in Counted(e) THEN Times(e) ELSE 0)
    BY ONLY <1>2, <2>1
  <2>4. CASE c \in Counted(e)
    <3>1. counts'[c] = counts[c] + 1
      BY ONLY <2>2, <2>3, <2>4
    <3> QED
      BY ONLY <2>4, <3>1 DEF Plus
  <2>5. CASE c \notin Counted(e)
    <3>1. counts'[c] = counts[c] + 0
      BY ONLY <2>3, <2>5
    <3>2. counts'[c] = counts[c]
      BY ONLY <2>1, <3>1, PlusZero, Zenon
    <3> QED
      BY ONLY <2>5, <3>2 DEF Plus
  <2> QED
    BY ONLY <2>4, <2>5
<1>10. \A l \in {"every cluster free", "recovered", "MATCHES", "DIFFERS"} :
         Plus(said'[l], l \in Printed(e), said[l])
  <2> SUFFICES ASSUME NEW l \in {"every cluster free", "recovered", "MATCHES", "DIFFERS"}
               PROVE Plus(said'[l], l \in Printed(e), said[l])
    OBVIOUS
  <2>1. l \in Line /\ said[l] \in Nat
    BY ONLY <1>1, <1>5, l \in {"every cluster free", "recovered", "MATCHES", "DIFFERS"}
  <2>2. l \in Printed(e) => Times(e) = 1
    BY ONLY <1>7, <1>8, l \in {"every cluster free", "recovered", "MATCHES", "DIFFERS"}
  <2>3. said'[l] = said[l] + (IF l \in Printed(e) THEN Times(e) ELSE 0)
    BY ONLY <1>2, <2>1
  <2>4. CASE l \in Printed(e)
    <3>1. said'[l] = said[l] + 1
      BY ONLY <2>2, <2>3, <2>4
    <3> QED
      BY ONLY <2>4, <3>1 DEF Plus
  <2>5. CASE l \notin Printed(e)
    <3>1. said'[l] = said[l] + 0
      BY ONLY <2>3, <2>5
    <3>2. said'[l] = said[l]
      BY ONLY <2>1, <3>1, PlusZero, Zenon
    <3> QED
      BY ONLY <2>5, <3>2 DEF Plus
  <2> QED
    BY ONLY <2>4, <2>5
<1> QED
  BY ONLY <1>4, <1>7, <1>9, <1>10 DEF Adds, Plus

\* The figures are numbers.
FiguresTyped ==
  /\ counts["free_runs"] \in Nat /\ counts["not_extracted"] \in Nat /\ counts["matched"] \in Nat
  /\ said["every cluster free"] \in Nat /\ said["recovered"] \in Nat
  /\ said["MATCHES"] \in Nat /\ said["DIFFERS"] \in Nat

LEMMA FigureTypes == TypeInv => FiguresTyped
<1> SUFFICES ASSUME TypeInv PROVE FiguresTyped
  OBVIOUS
<1>1. counts \in [Counter -> Nat] /\ said \in [Line -> Nat]
  BY DEF TypeInv, TypeOK
<1>2. /\ EntryLine["free_runs"] = "every cluster free" /\ EntryLine["matched"] = "MATCHES"
  BY DEF EntryLine
<1>3. /\ {"free_runs", "matched", "not_extracted"} \subseteq Counter
      /\ {"every cluster free", "MATCHES", "recovered", "DIFFERS"} \subseteq Line
  BY <1>2, Names DEF Counter, Line
<1> QED
  BY ONLY <1>1, <1>3 DEF FiguresTyped

\* A step that counts nothing and reads nothing keeps the account.
LEMMA CountKept ==
  ASSUME CountInv, UNCHANGED <<counts, said, summary, recover, reference>>,
         step # "extracting", step' # "extracting", step' \notin Settling,
         summary = NoSummary \/ step' = "exited"
  PROVE  CountInv'
BY DEF CountInv, GapsSaid, RunsSaid, RunsRead, RunsCompared, NothingYet, SummaryLast

\* So does an event that is no free run and not what became of one.
LEMMA CountOther ==
  ASSUME TypeInv, CountInv, NEW e \in Event, Emit(e), UNCHANGED <<recover, reference>>,
         e.kind \notin {"Recoverable", "Extracted", "NotExtracted"},
         step \notin {"extracting", "exited"}, step' # "extracting", step' \notin Settling
  PROVE  CountInv'
<1>0. GapsSaid' /\ Adds(e)
  BY EmitFigures DEF CountInv
<1>1. GapsSaid' /\ UNCHANGED Figures
  <2>1. FiguresTyped
    BY FigureTypes
  <2>2. e.kind \notin {"Recoverable", "Extracted", "NotExtracted"}
    OBVIOUS
  <2> QED
    BY ONLY <1>0, <2>2 DEF Adds, Plus, Figures
<1>2. summary' = NoSummary
  BY DEF Emit, CountInv, SummaryLast
<1> QED
  BY <1>1, <1>2 DEF Figures, CountInv, RunsSaid, RunsRead, RunsCompared, NothingYet, SummaryLast

\* A free run is found, and read if the operator asked for content.
LEMMA CountRecoverable ==
  ASSUME TypeInv, CountInv, Recoverable
  PROVE  CountInv'
<1>1. PICK e \in Event : e = Plain("Recoverable")
  BY DEF Event, Plain, PlainKind
<1>2. /\ e.kind = "Recoverable" /\ Emit(e) /\ UNCHANGED <<recover, reference>>
      /\ step = "entries" /\ step' = IF recover THEN "extracting" ELSE "entries"
  BY <1>1 DEF Recoverable, OfAnEntry, Go, Plain
<1>3. /\ GapsSaid'
      /\ counts'["free_runs"] = counts["free_runs"] + 1
      /\ said'["every cluster free"] = said["every cluster free"] + 1
      /\ counts'["not_extracted"] = counts["not_extracted"]
      /\ said'["recovered"] = said["recovered"]
      /\ counts'["matched"] = counts["matched"]
      /\ said'["MATCHES"] = said["MATCHES"]
      /\ said'["DIFFERS"] = said["DIFFERS"]
  <2>1. GapsSaid' /\ Adds(e)
    BY <1>2, EmitFigures DEF CountInv
  <2>2. FiguresTyped
    BY FigureTypes
  <2> QED
    BY ONLY <1>2, <2>1, <2>2 DEF Adds, Plus, FiguresTyped
<1>4. RunsSaid' /\ RunsCompared' /\ NothingYet'
  BY <1>2, <1>3 DEF CountInv, RunsSaid, RunsCompared, NothingYet, Settling
<1>5. RunsRead'
  <2>1. RunsRead
    BY DEF CountInv
  <2>2. CASE recover
    <3>1. counts["free_runs"] = said["recovered"] + counts["not_extracted"]
      BY <1>2, <2>1, <2>2 DEF RunsRead
    <3>2. counts'["free_runs"] = said'["recovered"] + counts'["not_extracted"] + 1
      <4>1. FiguresTyped
        BY FigureTypes
      <4> QED
        BY ONLY <1>3, <3>1, <4>1 DEF FiguresTyped
    <3> QED
      BY <1>2, <2>2, <3>2 DEF RunsRead
  <2>3. CASE ~recover
    BY <1>2, <1>3, <2>1, <2>3 DEF RunsRead
  <2> QED
    BY <2>2, <2>3
<1>6. SummaryLast'
  BY <1>2 DEF Emit, CountInv, SummaryLast
<1> QED
  BY <1>3, <1>4, <1>5, <1>6 DEF CountInv

\* What became of the run in hand.
LEMMA CountExtracted ==
  ASSUME TypeInv, CountInv, Extracted \/ NotExtracted
  PROVE  CountInv'
<1>1. PICK e \in Event :
        /\ OneEvent("entries", e)
        /\ \/ e.kind = "NotExtracted"
           \/ e.kind = "Extracted" /\ e.validation \in Validations
  <2>1. CASE NotExtracted
    <3>1. Plain("NotExtracted") \in Event /\ Plain("NotExtracted").kind = "NotExtracted"
      BY DEF Event, Plain, PlainKind
    <3> QED
      BY <2>1, <3>1 DEF NotExtracted
  <2>2. CASE Extracted
    <3>1. PICK o \in Outputs, v \in Validations :
            OneEvent("entries", [kind |-> "Extracted", output |-> o, validation |-> v])
      BY <2>2 DEF Extracted
    <3> DEFINE e == [kind |-> "Extracted", output |-> o, validation |-> v]
    <3>2. e \in Event /\ e.kind = "Extracted" /\ e.validation = v
      BY DEF Event, Outputs, Validations
    <3> HIDE DEF e
    <3> QED
      BY <3>1, <3>2 DEF e
  <2> QED
    BY <2>1, <2>2
<1>2. /\ Emit(e) /\ UNCHANGED <<recover, reference>> /\ step' = "entries"
  BY <1>1 DEF OneEvent, Go
<1>3. step = "extracting" /\ Adds(e) /\ FiguresTyped
  BY <1>2, EmitFigures, FigureTypes DEF Extracted, NotExtracted
<1>4. recover /\ summary = NoSummary
  BY <1>3 DEF CountInv, RunsRead, SummaryLast
<1>5. RunsSaid' /\ GapsSaid' /\ NothingYet' /\ SummaryLast'
  <2>1. RunsSaid' /\ GapsSaid'
    BY <1>2, <1>3, EmitFigures DEF CountInv, RunsSaid, Adds, Plus
  <2>2. summary' = NoSummary
    BY <1>2, <1>4 DEF Emit
  <2> QED
    BY <1>2, <2>1, <2>2 DEF NothingYet, Settling, SummaryLast
<1>6. RunsRead'
  <2>1. counts["free_runs"] = said["recovered"] + counts["not_extracted"] + 1
    BY <1>3, <1>4 DEF CountInv, RunsRead
  <2>2. /\ counts'["free_runs"] = counts["free_runs"]
        /\ \/ /\ said'["recovered"] = said["recovered"] + 1
              /\ counts'["not_extracted"] = counts["not_extracted"]
           \/ /\ said'["recovered"] = said["recovered"]
              /\ counts'["not_extracted"] = counts["not_extracted"] + 1
    <3>1. CASE e.kind = "Extracted"
      BY ONLY <1>3, <3>1 DEF Adds, Plus
    <3>2. CASE e.kind = "NotExtracted"
      BY ONLY <1>3, <3>2 DEF Adds, Plus
    <3> QED
      BY <1>1, <3>1, <3>2
  <2>3. counts'["free_runs"] = said'["recovered"] + counts'["not_extracted"]
    <3>1. said["recovered"] \in Nat /\ counts["not_extracted"] \in Nat
      BY <1>3 DEF FiguresTyped
    <3>2. said'["recovered"] + counts'["not_extracted"]
            = said["recovered"] + counts["not_extracted"] + 1
      BY ONLY <2>2, <3>1, OneRaised
    <3> QED
      BY ONLY <2>1, <2>2, <3>2
  <2> QED
    BY <1>2, <1>4, <2>3 DEF RunsRead
<1>7. RunsCompared'
  <2>1. RunsCompared
    BY DEF CountInv
  <2>2. CASE e.kind = "NotExtracted"
    <3>1. UNCHANGED <<said["recovered"], said["MATCHES"], said["DIFFERS"]>>
      BY ONLY <1>3, <2>2 DEF Adds, Plus, FiguresTyped
    <3> QED
      BY <1>2, <2>1, <3>1 DEF RunsCompared
  <2>3. CASE e.kind = "Extracted" /\ reference = Absent
    <3>1. e.validation = "NotAttempted"
      BY <1>1, <2>3 DEF Validations
    <3>2. UNCHANGED <<said["MATCHES"], said["DIFFERS"]>>
      BY ONLY <1>3, <2>3, <3>1 DEF Adds, Plus, FiguresTyped
    <3> QED
      BY <1>2, <2>1, <2>3, <3>2 DEF RunsCompared
  <2>4. CASE e.kind = "Extracted" /\ reference # Absent
    <3>1. e.validation \in {"Match", "Differs"}
      BY <1>1, <2>4 DEF Validations
    <3>2. /\ said'["recovered"] = said["recovered"] + 1
          /\ \/ /\ said'["MATCHES"] = said["MATCHES"] + 1
                /\ said'["DIFFERS"] = said["DIFFERS"]
             \/ /\ said'["MATCHES"] = said["MATCHES"]
                /\ said'["DIFFERS"] = said["DIFFERS"] + 1
      BY ONLY <1>3, <2>4, <3>1 DEF Adds, Plus
    <3>3. said["recovered"] = said["MATCHES"] + said["DIFFERS"]
      BY <2>1, <2>4 DEF RunsCompared
    <3>4. said'["recovered"] = said'["MATCHES"] + said'["DIFFERS"]
      <4>1. said["MATCHES"] \in Nat /\ said["DIFFERS"] \in Nat
        BY <1>3 DEF FiguresTyped
      <4>2. said'["MATCHES"] + said'["DIFFERS"] = said["MATCHES"] + said["DIFFERS"] + 1
        BY ONLY <3>2, <4>1, OneRaised
      <4> QED
        BY ONLY <3>2, <3>3, <4>2
    <3> QED
      BY <1>2, <2>4, <3>4 DEF RunsCompared
  <2> QED
    BY <1>1, <2>2, <2>3, <2>4
<1> QED
  BY <1>5, <1>6, <1>7 DEF CountInv

\* Before the analysis there is nothing to account for, whatever the options are.
LEMMA CountSettling ==
  ASSUME CountInv, step \in Settling, UNCHANGED <<counts, said, summary>>,
         step' # "extracting"
  PROVE  CountInv'
<1>1. /\ counts["free_runs"] = 0 /\ counts["not_extracted"] = 0 /\ counts["matched"] = 0
      /\ said["every cluster free"] = 0 /\ said["recovered"] = 0
      /\ said["MATCHES"] = 0 /\ said["DIFFERS"] = 0
  BY DEF CountInv, NothingYet, Figures
<1>2. summary = NoSummary
  BY DEF CountInv, SummaryLast, Settling
<1>3. GapsSaid' /\ RunsSaid' /\ NothingYet' /\ SummaryLast'
  BY <1>1, <1>2 DEF CountInv, GapsSaid, RunsSaid, NothingYet, Figures, SummaryLast
<1>4. 0 + 0 = 0
  OBVIOUS
<1>5. RunsRead'
  BY <1>1, <1>4 DEF RunsRead
<1>6. RunsCompared'
  BY <1>1, <1>4 DEF RunsCompared
<1> QED
  BY <1>3, <1>5, <1>6 DEF CountInv

\* The events that are no free run and not what became of one.
LEMMA OtherEvents ==
  ASSUME \/ TableFails \/ GptDetected \/ PartitionUnread \/ NotFat32 \/ Fat32
         \/ VolumeFails \/ RootDirectory \/ DirectoryNotRead \/ Subdirectory
         \/ ListingMayContinue \/ OrphanedDirectory \/ SearchStops
         \/ OrphanedListingUnread \/ NotAssessed \/ Ineligible \/ RunBroken \/ Anomalies
  PROVE  \E e \in Event : Emit(e) /\ e.kind \notin {"Recoverable", "Extracted", "NotExtracted"}
<1>1. \A k \in PlainKind : Plain(k) \in Event /\ Plain(k).kind = k
  BY DEF Plain, Event
<1>2. CASE \/ TableFails \/ GptDetected \/ PartitionUnread \/ VolumeFails \/ DirectoryNotRead
           \/ ListingMayContinue \/ SearchStops \/ OrphanedListingUnread \/ NotAssessed
           \/ RunBroken
  <2>1. \E k \in PlainKind \ {"Recoverable", "NotExtracted"} : Emit(Plain(k))
    BY <1>2 DEF TableFails, GptDetected, PartitionUnread, VolumeFails, DirectoryNotRead,
       ListingMayContinue, SearchStops, OrphanedListingUnread, NotAssessed, RunBroken, OneEvent,
       NextPartition, OfAnEntry, PlainKind
  <2> QED
    BY <1>1, <2>1 DEF PlainKind
<1>3. CASE NotFat32 \/ Fat32
  <2>1. \A as \in {"unidentified", "unsupported", "fat32"} :
          Identified(as) \in Event /\ Identified(as).kind = "PartitionIdentified"
    BY DEF Identified, Event
  <2>2. \E as \in {"unidentified", "unsupported", "fat32"} : Emit(Identified(as))
    BY <1>3 DEF NotFat32, Fat32, OneEvent, NextPartition
  <2> QED
    BY <2>1, <2>2
<1>4. CASE RootDirectory \/ Subdirectory \/ OrphanedDirectory
  <2>1. \A r \in {"root", "subdirectory", "orphan"} :
          Directory(r) \in Event /\ Directory(r).kind = "Directory"
    BY DEF Directory, Event
  <2>2. \E r \in {"root", "subdirectory", "orphan"} : Emit(Directory(r))
    BY <1>4 DEF RootDirectory, Subdirectory, OrphanedDirectory, Enter
  <2> QED
    BY <2>1, <2>2
<1>5. CASE Ineligible
  <2>1. PICK r \in {"empty", "reserved_cluster", "run_out_of_range", "no_file"} :
          Emit([kind |-> "Ineligible", reason |-> r])
    BY <1>5 DEF Ineligible, OfAnEntry
  <2>2. [kind |-> "Ineligible", reason |-> r] \in Event
    BY <2>1 DEF Event
  <2> QED
    BY <2>1, <2>2
<1>6. CASE Anomalies
  <2>1. PICK n \in 0 .. 2 : Emit([kind |-> "Anomalies", left_out |-> n])
    BY <1>6 DEF Anomalies, OneEvent
  <2>2. [kind |-> "Anomalies", left_out |-> n] \in Event
    BY <2>1 DEF Event
  <2> QED
    BY <2>1, <2>2
<1> QED
  BY <1>2, <1>3, <1>4, <1>5, <1>6

LEMMA CountStep ==
  ASSUME TypeInv, CountInv, [Next]_vars
  PROVE  CountInv'
<1>1. CASE (InvocationNext /\ UNCHANGED analysis) \/ Analyse
  <2>1. UNCHANGED <<counts, said, summary>>
    BY <1>1 DEF Analyse, analysis
  <2>2. step \in Settling /\ step' # "extracting"
    BY <1>1 DEF InvocationNext, NoPath, TakeRecover, TakeOutput, TakeReference, RefuseArgument,
       RefuseOptions, AcceptOptions, RefuseDestination, AcceptDestination, EvidenceNotOpened,
       Open, ReadChunk, ReadFails, EndOfFile, Resize, Analyse, ExitWith, GoTo, More, Take,
       AllTaken, Settling
  <2> QED
    BY <2>1, <2>2, CountSettling
<1>2. CASE \/ PartitionsListed \/ ListingEnds \/ WalkEnds \/ SearchEnds \/ VolumeEnds
           \/ PartEnds \/ PartitionsEnd \/ NoAnomalies
  <2>1. /\ UNCHANGED <<counts, said, summary, recover, reference>>
        /\ step' \notin Settling
        /\ step \notin {"extracting", "exited"} /\ step' # "extracting"
    BY <1>2 DEF PartitionsListed, ListingEnds, WalkEnds, SearchEnds, VolumeEnds, PartEnds,
       PartitionsEnd, NoAnomalies, MoveTo, Go, Silent, Settling
  <2> QED
    BY <2>1, CountKept DEF CountInv, SummaryLast
<1>3. CASE Recoverable
  BY <1>3, CountRecoverable
<1>4. CASE Extracted \/ NotExtracted
  BY <1>4, CountExtracted
<1>5. CASE \/ TableFails \/ GptDetected \/ PartitionUnread \/ NotFat32 \/ Fat32
           \/ VolumeFails \/ RootDirectory \/ DirectoryNotRead \/ Subdirectory
           \/ ListingMayContinue \/ OrphanedDirectory \/ SearchStops
           \/ OrphanedListingUnread \/ NotAssessed \/ Ineligible \/ RunBroken \/ Anomalies
  <2>1. \E e \in Event : Emit(e) /\ e.kind \notin {"Recoverable", "Extracted", "NotExtracted"}
    BY <1>5, OtherEvents
  <2>2. /\ UNCHANGED <<recover, reference>>
        /\ step \notin {"extracting", "exited"}
        /\ step' # "extracting" /\ step' \notin Settling
    BY <1>5 DEF TableFails, GptDetected, PartitionUnread, NotFat32, Fat32, VolumeFails,
       RootDirectory, DirectoryNotRead, Subdirectory, ListingMayContinue, OrphanedDirectory,
       SearchStops, OrphanedListingUnread, NotAssessed, Ineligible, RunBroken, Anomalies,
       OneEvent, NextPartition, OfAnEntry, Enter, Go, Settling
  <2> QED
    BY <2>1, <2>2, CountOther
<1>6. CASE Summarise
  <2>1. /\ step = "summary" /\ step' = "exited"
        /\ UNCHANGED <<counts, said, recover, reference>>
    BY <1>6 DEF Summarise, options
  <2>2. RunsRead' /\ RunsCompared'
    BY <2>1 DEF CountInv, RunsRead, RunsCompared
  <2> QED
    BY <2>1, <2>2 DEF CountInv, GapsSaid, RunsSaid, NothingYet, Settling, SummaryLast
<1>7. CASE Exited \/ UNCHANGED vars
  <2>1. UNCHANGED <<counts, said, recover, reference, step, summary>>
    BY <1>7 DEF Exited, vars, invocation, analysis
  <2> QED
    BY <2>1 DEF CountInv, GapsSaid, RunsSaid, RunsRead, RunsCompared, NothingYet, Figures,
       SummaryLast
<1> QED
  BY <1>1, <1>2, <1>3, <1>4, <1>5, <1>6, <1>7 DEF Next

\* The figures when the summary is printed, which none of the derived ones misses.
Account ==
  /\ counts["free_runs"] = said["every cluster free"] /\ counts["matched"] = said["MATCHES"]
  /\ counts["not_extracted"] = said["NOT EXTRACTED"]
  /\ IF recover
     THEN counts["free_runs"] = said["recovered"] + counts["not_extracted"]
     ELSE said["recovered"] = 0 /\ counts["not_extracted"] = 0
  /\ IF reference = Absent
     THEN said["MATCHES"] = 0 /\ said["DIFFERS"] = 0
     ELSE said["recovered"] = said["MATCHES"] + said["DIFFERS"]

\* A sum and its parts.
LEMMA Sums ==
  ASSUME NEW a \in Nat, NEW b \in Nat, NEW c, c = a + b
  PROVE  /\ c >= a /\ c >= b /\ c - a = b /\ c - b = a
         /\ c = 0 => a = 0 /\ b = 0
OBVIOUS

LEMMA Positive == \A n \in Nat : n # 0 => n > 0
OBVIOUS

LEMMA DerivedFigures ==
  ASSUME FiguresTyped, Account
  PROVE  /\ Artifacts(counts) = said["recovered"]
         /\ Differed(counts) = said["DIFFERS"]
         /\ NotRead(counts) = said["every cluster free"] - said["recovered"] - said["NOT EXTRACTED"]
<1>1. Artifacts(counts) = said["recovered"]
  <2>1. CASE recover
    <3>1. counts["free_runs"] = said["recovered"] + counts["not_extracted"]
      BY <2>1 DEF Account
    <3>2. said["recovered"] \in Nat /\ counts["not_extracted"] \in Nat
      BY DEF FiguresTyped
    <3>3. /\ counts["free_runs"] >= counts["not_extracted"]
          /\ counts["free_runs"] - counts["not_extracted"] = said["recovered"]
      BY ONLY <3>1, <3>2, Sums
    <3> QED
      BY ONLY <2>1, <3>3 DEF Artifacts, Extractions
  <2>2. CASE ~recover
    BY <2>2 DEF Account, Artifacts
  <2> QED
    BY <2>1, <2>2
<1>2. Differed(counts) = said["DIFFERS"]
  <2>1. CASE reference = Absent
    BY <2>1 DEF Account, Differed
  <2>2. CASE reference # Absent
    <3>1. said["recovered"] = said["MATCHES"] + said["DIFFERS"]
      BY <2>2 DEF Account
    <3>2. said["MATCHES"] \in Nat /\ said["DIFFERS"] \in Nat
      BY DEF FiguresTyped
    <3>3. /\ said["recovered"] >= said["MATCHES"]
          /\ said["recovered"] - said["MATCHES"] = said["DIFFERS"]
      BY ONLY <3>1, <3>2, Sums
    <3>4. counts["matched"] = said["MATCHES"]
      BY DEF Account
    <3> QED
      BY ONLY <1>1, <2>2, <3>3, <3>4 DEF Differed
  <2> QED
    BY <2>1, <2>2
<1>3. NotRead(counts)
        = said["every cluster free"] - said["recovered"] - said["NOT EXTRACTED"]
  <2> DEFINE free == said["every cluster free"]
             read == said["recovered"]
             lost == said["NOT EXTRACTED"]
  <2>1. /\ free \in Nat /\ read \in Nat /\ lost \in Nat
        /\ recover => free = read + lost
        /\ ~recover => read = 0 /\ lost = 0
        /\ NotRead(counts) = IF recover THEN 0 ELSE free
    BY DEF Account, FiguresTyped, NotRead
  <2>2. NotRead(counts) = free - read - lost
    <3> HIDE DEF free, read, lost
    <3>1. CASE recover
      <4>1. 0 = free - read - lost
        BY ONLY <2>1, <3>1
      <4> QED
        BY <2>1, <3>1, <4>1
    <3>2. CASE ~recover
      <4>1. free = free - read - lost
        BY ONLY <2>1, <3>2
      <4> QED
        BY <2>1, <3>2, <4>1
    <3> QED
      BY <3>1, <3>2
  <2> QED
    BY <2>2
<1> QED
  BY <1>1, <1>2, <1>3

\* What is said of the gaps.
LEMMA CoverageSaid ==
  ASSUME TypeInv, GapsSaid
  PROVE  /\ Coverage(counts) = "complete" <=> \A g \in Gap : said[GapLine[g]] = 0
         /\ {<<g, counts[g]>> : g \in {g \in Gap : counts[g] > 0}}
              = {<<g, said[GapLine[g]]>> : g \in {g \in Gap : said[GapLine[g]] > 0}}
<1>1. \A g \in Gap : counts[g] \in Nat
  <2>1. counts \in [Counter -> Nat] /\ Gap \subseteq Counter
    BY DEF TypeInv, TypeOK, Counter
  <2> QED
    BY ONLY <2>1
<1>2. counts["volumes_analysed"] \in Nat
  <2>1. counts \in [Counter -> Nat] /\ "volumes_analysed" \in Counter
    BY DEF TypeInv, TypeOK, Counter
  <2> QED
    BY ONLY <2>1
<1>3. Coverage(counts) = "complete" <=> \A g \in Gap : counts[g] = 0
  <2>1. CASE \A g \in Gap : counts[g] = 0
    <3>1. ~\E g \in Gap : counts[g] > 0
      BY ONLY <2>1
    <3> QED
      BY ONLY <2>1, <3>1 DEF Coverage
  <2>2. CASE ~\A g \in Gap : counts[g] = 0
    <3>1. \E g \in Gap : counts[g] > 0
      BY ONLY <1>1, <2>2
    <3>2. \/ counts["volumes_analysed"] = 0 /\ ~(counts["volumes_analysed"] > 0)
          \/ counts["volumes_analysed"] > 0 /\ counts["volumes_analysed"] # 0
      BY ONLY <1>2
    <3> QED
      BY ONLY <2>2, <3>1, <3>2 DEF Coverage
  <2> QED
    BY <2>1, <2>2
<1> QED
  BY <1>3 DEF GapsSaid

\* What is told beside the figures.
LEMMA CaveatsSaid ==
  ASSUME FiguresTyped, Account
  PROVE  /\ "a free run" \in Caveats(counts) <=> said["every cluster free"] > 0
         /\ "a match" \in Caveats(counts) <=> said["MATCHES"] > 0
         /\ "a differing digest" \in Caveats(counts) <=> said["DIFFERS"] > 0
         /\ "no content read" \in Caveats(counts)
              => said["recovered"] + said["NOT EXTRACTED"] = 0
         /\ "nothing validated" \in Caveats(counts)
              => said["MATCHES"] + said["DIFFERS"] = 0
<1>1. 0 + 0 = 0 /\ ~(0 > 0)
  OBVIOUS
<1>2. Differed(counts) = said["DIFFERS"]
  BY DerivedFigures
<1>3. CASE counts["free_runs"] = 0
  <2>1. Caveats(counts) = {}
    BY ONLY <1>3 DEF Caveats
  <2>2. said["every cluster free"] = 0 /\ said["recovered"] = 0
    <3>1. CASE recover
      <4>1. 0 = said["recovered"] + counts["not_extracted"]
        BY <1>3, <3>1 DEF Account
      <4>2. said["recovered"] \in Nat /\ counts["not_extracted"] \in Nat
        BY DEF FiguresTyped
      <4>3. said["recovered"] = 0
        BY ONLY <4>1, <4>2, Sums
      <4> QED
        BY <1>3, <4>3 DEF Account
    <3>2. CASE ~recover
      BY <1>3, <3>2 DEF Account
    <3> QED
      BY <3>1, <3>2
  <2>3. said["MATCHES"] = 0 /\ said["DIFFERS"] = 0
    <3>1. CASE reference = Absent
      BY <3>1 DEF Account
    <3>2. CASE reference # Absent
      <4>1. 0 = said["MATCHES"] + said["DIFFERS"]
        BY <2>2, <3>2 DEF Account
      <4>2. said["MATCHES"] \in Nat /\ said["DIFFERS"] \in Nat
        BY DEF FiguresTyped
      <4> QED
        BY ONLY <4>1, <4>2, Sums
    <3> QED
      BY <3>1, <3>2
  <2> QED
    BY <1>1, <2>1, <2>2, <2>3
<1>4. CASE counts["free_runs"] # 0
  <2>1. said["every cluster free"] > 0
    <3>1. said["every cluster free"] \in Nat /\ said["every cluster free"] # 0
      BY <1>4 DEF Account, FiguresTyped
    <3> QED
      BY ONLY <3>1, Positive
  <2>2. /\ "a free run" \in Caveats(counts)
        /\ "a match" \in Caveats(counts) <=> counts["matched"] > 0
        /\ "a differing digest" \in Caveats(counts) <=> Differed(counts) > 0
        /\ "no content read" \in Caveats(counts) <=> ~recover
        /\ "nothing validated" \in Caveats(counts) <=> recover /\ reference = Absent
    BY ONLY <1>4 DEF Caveats
  <2>3. counts["matched"] = said["MATCHES"]
    BY DEF Account
  <2>4. ~recover => said["recovered"] + said["NOT EXTRACTED"] = 0
    BY <1>1 DEF Account
  <2>5. reference = Absent => said["MATCHES"] + said["DIFFERS"] = 0
    BY <1>1 DEF Account
  <2> QED
    BY ONLY <1>2, <2>1, <2>2, <2>3, <2>4, <2>5
<1> QED
  BY <1>3, <1>4

\* The summary, which is printed from the account.
LEMMA SummaryPrinted ==
  ASSUME TypeInv, CountInv, Summarise
  PROVE  SummaryAgreesWithLines'
<1>1. FiguresTyped /\ GapsSaid
  BY FigureTypes DEF CountInv
<1>2. Account
  <2>1. "not_extracted" \in Gap /\ GapLine["not_extracted"] = "NOT EXTRACTED"
    BY GapLines DEF GapLine, Gap
  <2>2. step # "extracting"
    BY DEF Summarise
  <2>3. counts["not_extracted"] = said["NOT EXTRACTED"]
    BY <2>1 DEF CountInv, GapsSaid
  <2>4. /\ recover => counts["free_runs"] = said["recovered"] + counts["not_extracted"]
        /\ ~recover => said["recovered"] = 0 /\ counts["not_extracted"] = 0
    BY <2>2 DEF CountInv, RunsRead
  <2>5. RunsCompared /\ RunsSaid
    BY DEF CountInv
  <2> QED
    BY ONLY <2>3, <2>4, <2>5 DEF Account, RunsCompared, RunsSaid
<1>3. /\ UNCHANGED said
      /\ summary'.gaps = {<<g, counts[g]>> : g \in {g \in Gap : counts[g] > 0}}
      /\ summary'.coverage = Coverage(counts)
      /\ summary'.artifacts = Artifacts(counts)
      /\ summary'.matched = counts["matched"]
      /\ summary'.differed = Differed(counts)
      /\ summary'.not_read = NotRead(counts)
      /\ summary'.caveats = Caveats(counts)
  BY DEF Summarise
<1>4. counts["matched"] = said["MATCHES"]
  BY <1>2 DEF Account
<1> QED
  BY <1>1, <1>2, <1>3, <1>4, DerivedFigures, CoverageSaid, CaveatsSaid DEF SummaryAgreesWithLines

\* A summary, once printed, is the last thing that happens.
LEMMA SummaryKept ==
  ASSUME TypeInv, CountInv, SummaryAgreesWithLines, [Next]_vars, ~Summarise
  PROVE  SummaryAgreesWithLines'
<1>1. ASSUME summary' = NoSummary PROVE SummaryAgreesWithLines'
  BY <1>1 DEF SummaryAgreesWithLines
<1>2. CASE UNCHANGED <<said, summary, step>>
  BY <1>2 DEF SummaryAgreesWithLines
<1>3. CASE step # "exited" /\ UNCHANGED summary
  BY <1>1, <1>3 DEF CountInv, SummaryLast
<1>4. CASE Exited \/ UNCHANGED vars
  BY <1>2, <1>4 DEF Exited, vars, invocation, analysis
<1>5. CASE InvocationNext /\ UNCHANGED analysis
  BY <1>3, <1>5 DEF InvocationNext, NoPath, TakeRecover, TakeOutput, TakeReference,
     RefuseArgument, RefuseOptions, AcceptOptions, RefuseDestination, AcceptDestination,
     EvidenceNotOpened, Open, ReadChunk, ReadFails, EndOfFile, Resize, More, AllTaken, analysis
<1>6. CASE ~(Exited \/ UNCHANGED vars \/ (InvocationNext /\ UNCHANGED analysis))
  <2>1. UNCHANGED Sink \/ Silent \/ \E e \in Event : Emit(e)
    BY ONLY OneEventEach, TypeInv, [Next]_vars, ~Summarise DEF TypeInv
  <2>2. UNCHANGED summary
    BY <2>1 DEF Sink, Silent, Emit
  <2>3. step # "exited"
    BY <1>6 DEF Next, Analyse, TableFails, GptDetected, PartitionsListed, PartitionUnread,
       NotFat32, Fat32, VolumeFails, RootDirectory, DirectoryNotRead, Subdirectory,
       ListingMayContinue, ListingEnds, WalkEnds, OrphanedDirectory, SearchStops, SearchEnds,
       OrphanedListingUnread, VolumeEnds, OfAnEntry, NotAssessed, Ineligible, RunBroken,
       Recoverable, Extracted, NotExtracted, PartEnds, PartitionsEnd, Anomalies, NoAnomalies
  <2> QED
    BY <1>3, <2>2, <2>3
<1> QED
  BY <1>4, <1>5, <1>6

\* Whatever the evidence holds, the figures of the summary are those of the lines.
THEOREM SummaryCorrect == Spec => []SummaryAgreesWithLines
<1>1. Init => CountInv /\ SummaryAgreesWithLines
  <2> SUFFICES ASSUME Init PROVE CountInv /\ SummaryAgreesWithLines
    OBVIOUS
  <2>1. /\ step = "arguments" /\ summary = NoSummary /\ recover = FALSE
        /\ reference = Absent
        /\ counts = [c \in Counter |-> 0] /\ said = [l \in Line |-> 0]
    BY DEF Init, InvocationInit, InvocationStart
  <2>2. /\ \A g \in Gap : g \in Counter /\ GapLine[g] \in Line
        /\ {"free_runs", "matched", "not_extracted"} \subseteq Counter
        /\ {"every cluster free", "recovered", "MATCHES", "DIFFERS"} \subseteq Line
    <3>1. /\ EntryLine["free_runs"] = "every cluster free" /\ EntryLine["matched"] = "MATCHES"
      BY DEF EntryLine
    <3> QED
      BY <3>1, Names DEF Counter, Line
  <2>3. /\ \A g \in Gap : counts[g] = 0 /\ said[GapLine[g]] = 0
        /\ counts["free_runs"] = 0 /\ counts["not_extracted"] = 0 /\ counts["matched"] = 0
        /\ said["every cluster free"] = 0 /\ said["recovered"] = 0
        /\ said["MATCHES"] = 0 /\ said["DIFFERS"] = 0
    BY ONLY <2>1, <2>2
  <2>4. GapsSaid /\ RunsSaid /\ RunsRead /\ RunsCompared
    BY <2>1, <2>3 DEF GapsSaid, RunsSaid, RunsRead, RunsCompared
  <2>5. NothingYet /\ SummaryLast /\ SummaryAgreesWithLines
    BY <2>1, <2>3 DEF NothingYet, Figures, SummaryLast, SummaryAgreesWithLines
  <2> QED
    BY <2>4, <2>5 DEF CountInv
<1>2. TypeInv /\ CountInv /\ SummaryAgreesWithLines /\ [Next]_vars
        => CountInv' /\ SummaryAgreesWithLines'
  BY CountStep, SummaryPrinted, SummaryKept
<1> QED
  BY <1>1, <1>2, TypeCorrect, PTL DEF Spec, TypeInv

----------------------------------------------------------------------------
(***************************************************************************)
(* The arguments.                                                          *)
(***************************************************************************)

\* Where the flag after the one at i is.
After(i) == IF TakesValue(args[i]) THEN i + 2 ELSE i + 1

Places(flags) == flags \cup {Len(args) + 1}

Readings == {flags \in SUBSET (2 .. Len(args)) : args # <<>> /\ IsReading(flags)}

\* The conditions on a reading that can be told of its beginning.
Flagged(flags) ==
  /\ \A i \in flags : args[i] \in {"--recover", "--output", "--reference-digest"}
  /\ \A i, j \in flags : args[i] = args[j] /\ TakesValue(args[i]) => i = j
  /\ \A i \in flags : args[i] = "--reference-digest" => args[i + 1] = "digest"

\* The options are what these flags ask for.
Asked(flags) ==
  /\ recover <=> \E i \in flags : args[i] = "--recover"
  /\ output = ValueOf("--output", flags)
  /\ reference = ValueOf("--reference-digest", flags)

\* The flags taken so far fill the arguments up to the next one without a gap.
Filling(taken) ==
  /\ taken \subseteq 2 .. next - 1
  /\ 2 \in taken \cup {next}
  /\ \A i \in taken : After(i) \in taken \cup {next}
  /\ \A i \in (taken \cup {next}) \ {2} : \E j \in taken : After(j) = i

\* Every reading begins with the flags taken, so there is never a choice.
NoChoice(taken) ==
  \A R \in Readings : R \cap (2 .. next - 1) = taken /\ next \in Places(R)

Taken(taken) ==
  Filling(taken) /\ Flagged(taken) /\ Asked(taken) /\ NoChoice(taken)

ArgumentsInv ==
  /\ step \in {"arguments", "destination"} =>
       /\ args # <<>> => next <= Len(args) + 1
       /\ args = <<>> => next = 2
       /\ \E taken \in SUBSET (2 .. next - 1) : Taken(taken)
  /\ step = "destination" => args # <<>> /\ next = Len(args) + 1 /\ ~NeedsRecover
  /\ exit # "none" => step = "exited"
  /\ exit = "usage" => Readings = {} \/ (next = Len(args) + 1 /\ recover /\ output # Absent)

LEMMA ReadingMeans ==
  ASSUME NEW R
  PROVE  R \in Readings <=>
           /\ R \subseteq 2 .. Len(args)
           /\ args # <<>>
           /\ 2 \in Places(R)
           /\ \A i \in R : After(i) \in Places(R)
           /\ \A i \in R \ {2} : \E j \in R : After(j) = i
           /\ Flagged(R)
           /\ (\E i \in R : TakesValue(args[i])) => \E i \in R : args[i] = "--recover"
BY DEF Readings, IsReading, Places, After, Flagged

LEMMA ArgsTyped ==
  ASSUME TypeInv
  PROVE  /\ Len(args) \in Nat /\ next \in Nat /\ next >= 2
         /\ args = <<>> <=> Len(args) = 0
         /\ \A i \in 1 .. Len(args) : args[i] \in Arg
<1>1. args \in Seq(Arg) /\ next \in 2 .. MaxArgs + 2
  BY DEF TypeInv, TypeOK, InvocationTypeOK, Sequences
<1>2. Len(args) \in Nat /\ next \in Nat /\ next >= 2
  BY ONLY <1>1, InvocationAssumption
<1>3. args = <<>> => Len(args) = 0
  OBVIOUS
<1>4. Len(args) = 0 => args = <<>>
  BY ONLY <1>1, EmptySeq
<1>5. \A i \in 1 .. Len(args) : args[i] \in Arg
  BY ONLY <1>1
<1> QED
  BY <1>2, <1>3, <1>4, <1>5

\* One flag more.
LEMMA TakenStep ==
  ASSUME TypeInv, NEW taken, Taken(taken), NEW more, more = taken \cup {next},
         next <= Len(args), UNCHANGED args, next' = After(next), next' <= Len(args) + 1,
         Flagged(more), Asked(more)'
  PROVE  Taken(more)'
<1>1. Len(args) \in Nat /\ next \in Nat /\ next >= 2
  BY ArgsTyped
<1>2. next' = next + 1 \/ next' = next + 2
  BY DEF After
<1>3. \A i : After(i)' = After(i)
  BY DEF After
<1>4. /\ taken \subseteq 2 .. next - 1
      /\ 2 \in taken \cup {next}
      /\ \A i \in taken : After(i) \in taken \cup {next}
      /\ \A i \in (taken \cup {next}) \ {2} : \E j \in taken : After(j) = i
  BY DEF Taken, Filling
<1>5. \A R \in Readings : R \cap (2 .. next - 1) = taken /\ next \in Places(R)
  BY DEF Taken, NoChoice
<1>6. Filling(more)'
  <2>1. more \subseteq 2 .. next' - 1
    BY ONLY <1>1, <1>2, <1>4, more = taken \cup {next}
  <2>2. 2 \in more \cup {next'}
    BY ONLY <1>4, more = taken \cup {next}
  <2>3. \A i \in more : After(i) \in more \cup {next'}
    BY ONLY <1>4, next' = After(next), more = taken \cup {next}
  <2>4. \A i \in (more \cup {next'}) \ {2} : \E j \in more : After(j) = i
    BY ONLY <1>4, next' = After(next), more = taken \cup {next}
  <2>5. \A i \in more : After(i)' \in more \cup {next'}
    BY ONLY <1>3, <2>3
  <2>6. \A i \in (more \cup {next'}) \ {2} : \E j \in more : After(j)' = i
    BY ONLY <1>3, <2>4
  <2> QED
    BY ONLY <2>1, <2>2, <2>5, <2>6 DEF Filling
<1>7. NoChoice(more)'
  <2>1. Readings' = Readings /\ \A R : Places(R)' = Places(R)
    BY DEF Readings, IsReading, Places
  <2>2. ASSUME NEW R \in Readings
        PROVE  R \cap (2 .. next' - 1) = more /\ next' \in Places(R)
    <3>1. /\ R \subseteq 2 .. Len(args)
          /\ \A i \in R : After(i) \in Places(R)
          /\ \A i \in R \ {2} : \E j \in R : After(j) = i
      BY ReadingMeans
    <3>2. R \cap (2 .. next - 1) = taken /\ next \in R
      <4>1. R \cap (2 .. next - 1) = taken /\ next \in R \cup {Len(args) + 1}
        BY <1>5 DEF Places
      <4>2. next # Len(args) + 1
        BY ONLY <1>1, next <= Len(args)
      <4> QED
        BY <4>1, <4>2
    <3>3. next' \in Places(R)
      BY <3>1, <3>2
    <3>4. ASSUME next' = next + 2 PROVE next + 1 \notin R
      <4> SUFFICES ASSUME next + 1 \in R PROVE FALSE
        OBVIOUS
      <4>1. PICK j \in R : After(j) = next + 1
        BY ONLY <1>1, <3>1, next + 1 \in R
      <4>2. j \in Nat /\ j >= 2 /\ After(j) \in {j + 1, j + 2}
        <5>1. j \in 2 .. Len(args)
          BY <3>1
        <5> QED
          BY <5>1 DEF After
      <4>3. j # next
        BY ONLY <1>1, <3>4, <4>1, next' = After(next)
      <4>4. j < next
        BY ONLY <1>1, <4>1, <4>2, <4>3
      <4>5. j \in taken
        BY ONLY <1>1, <3>2, <4>2, <4>4, j \in R
      <4>6. After(j) \in taken \cup {next}
        BY <1>4, <4>5
      <4> QED
        BY ONLY <1>1, <1>4, <4>1, <4>6
    <3>5. R \cap (2 .. next' - 1) = more
      <4>1. CASE next' = next + 1
        BY ONLY <1>1, <3>1, <3>2, <4>1, more = taken \cup {next}
      <4>2. CASE next' = next + 2
        <5>1. next + 1 \notin R
          BY <3>4, <4>2
        <5> QED
          BY ONLY <1>1, <3>1, <3>2, <4>2, <5>1, more = taken \cup {next}
      <4> QED
        BY ONLY <1>2, <4>1, <4>2
    <3> QED
      BY <3>3, <3>5
  <2> QED
    BY ONLY <2>1, <2>2 DEF NoChoice
<1>8. Flagged(more)'
  BY ONLY Flagged(more), UNCHANGED args DEF Flagged, TakesValue
<1> QED
  BY ONLY <1>6, <1>7, <1>8, Asked(more)' DEF Taken

\* A flag with a value that is given once.
LEMMA ValueIs ==
  ASSUME NEW flag, TakesValue(flag), NEW flags, flags \subseteq Nat, Flagged(flags),
         NEW i \in flags, args[i] = flag
  PROVE  ValueOf(flag, flags) = args[i + 1]
<1>1. PICK j : j = CHOOSE k \in flags : args[k] = flag
  OBVIOUS
<1>2. j \in flags /\ args[j] = flag
  BY <1>1
<1>3. j = i
  BY <1>2 DEF Flagged
<1>4. 1 + i = i + 1
  BY ONLY flags \subseteq Nat, i \in flags
<1> QED
  BY <1>1, <1>3, <1>4 DEF ValueOf

LEMMA NoValue ==
  ASSUME NEW flag, NEW flags, \A i \in flags : args[i] # flag
  PROVE  ValueOf(flag, flags) = Absent
BY DEF ValueOf

\* A value the options have was given.
LEMMA ValueGiven ==
  ASSUME TypeInv, NEW taken, Filling(taken), Flagged(taken), next <= Len(args) + 1,
         NEW flag, TakesValue(flag)
  PROVE  ValueOf(flag, taken) = Absent <=> \A i \in taken : args[i] # flag
<1>1. ASSUME NEW i \in taken, args[i] = flag PROVE ValueOf(flag, taken) # Absent
  <2>1. taken \subseteq Nat
    BY ArgsTyped DEF Filling
  <2>2. ValueOf(flag, taken) = args[i + 1]
    BY <1>1, <2>1, ValueIs
  <2>3. i + 2 <= Len(args) + 1
    <3>1. After(i) = i + 2
      BY <1>1 DEF After
    <3>2. i + 2 \in (2 .. next - 1) \cup {next}
      BY <1>1, <3>1 DEF Filling
    <3>3. Len(args) \in Nat /\ next \in Nat
      BY ArgsTyped
    <3> QED
      BY ONLY <3>2, <3>3, next <= Len(args) + 1
  <2>4. i + 1 \in 1 .. Len(args)
    BY ONLY <2>1, <2>3, i \in taken, ArgsTyped, TypeInv
  <2>5. args[i + 1] \in Arg
    BY <2>4, ArgsTyped
  <2> QED
    BY <2>2, <2>5 DEF Arg, Absent
<1> QED
  BY <1>1, NoValue

\* What a flag with a value adds to what was asked for.
LEMMA ValueTaken ==
  ASSUME TypeInv, NEW taken, Filling(taken), Flagged(taken \cup {next}),
         NEW flag, TakesValue(flag)
  PROVE  /\ args[next] = flag => ValueOf(flag, taken \cup {next}) = args[next + 1]
         /\ args[next] # flag => ValueOf(flag, taken \cup {next}) = ValueOf(flag, taken)
<1> DEFINE more == taken \cup {next}
<1>1. taken \subseteq Nat /\ more \subseteq Nat
  <2>1. taken \subseteq 2 .. next - 1 /\ next \in Nat
    BY ArgsTyped DEF Filling
  <2> QED
    BY ONLY <2>1
<1>2. Flagged(taken)
  BY DEF Flagged
<1>3. ASSUME args[next] = flag PROVE ValueOf(flag, more) = args[next + 1]
  BY <1>1, <1>3, ValueIs
<1>4. ASSUME args[next] # flag PROVE ValueOf(flag, more) = ValueOf(flag, taken)
  <2>1. CASE \A i \in taken : args[i] # flag
    <3>1. \A i \in more : args[i] # flag
      BY <1>4, <2>1
    <3> QED
      BY <2>1, <3>1, NoValue
  <2>2. CASE \E i \in taken : args[i] = flag
    <3>1. PICK i \in taken : args[i] = flag
      BY <2>2
    <3>2. ValueOf(flag, taken) = args[i + 1]
      BY <1>1, <1>2, <3>1, ValueIs
    <3>3. ValueOf(flag, more) = args[i + 1]
      BY <1>1, <3>1, ValueIs
    <3> QED
      BY <3>2, <3>3
  <2> QED
    BY <2>1, <2>2
<1> QED
  BY <1>3, <1>4

\* What a flag that is taken was found to be.
LEMMA FlagTaken ==
  ASSUME TypeInv, NEW taken, Taken(taken), next <= Len(args), UNCHANGED args,
         \/ TakeRecover \/ TakeOutput \/ TakeReference
  PROVE  /\ next' = After(next) /\ next' <= Len(args) + 1
         /\ Flagged(taken \cup {next})
<1>1. Len(args) \in Nat /\ next \in Nat /\ next >= 2
  BY ArgsTyped
<1>2. /\ taken \subseteq 2 .. next - 1
      /\ Filling(taken) /\ Flagged(taken) /\ Asked(taken)
  BY DEF Taken, Filling
<1>3. next' = After(next) /\ next' <= Len(args) + 1
  <2>1. CASE TakeRecover
    <3>1. next' = next + 1 /\ ~TakesValue(args[next])
      BY <2>1 DEF TakeRecover, Take, TakesValue
    <3> QED
      BY ONLY <1>1, <3>1, next <= Len(args) DEF After
  <2>2. CASE TakeOutput \/ TakeReference
    <3>1. next' = next + 2 /\ TakesValue(args[next]) /\ next < Len(args)
      BY <2>2 DEF TakeOutput, TakeReference, Take, TakesValue, HasValue
    <3> QED
      BY ONLY <1>1, <3>1 DEF After
  <2> QED
    BY <2>1, <2>2
<1>4. TakesValue(args[next]) => \A i \in taken : args[i] # args[next]
  <2>1. CASE TakeRecover
    BY <2>1 DEF TakeRecover, TakesValue
  <2>2. CASE TakeOutput
    <3>1. args[next] = "--output" /\ ValueOf("--output", taken) = Absent
      BY <1>2, <2>2 DEF TakeOutput, NotYetGiven, Asked
    <3> QED
      BY <1>1, <1>2, <3>1, ValueGiven DEF TakesValue
  <2>3. CASE TakeReference
    <3>1. args[next] = "--reference-digest" /\ ValueOf("--reference-digest", taken) = Absent
      BY <1>2, <2>3 DEF TakeReference, NotYetGiven, Asked
    <3> QED
      BY <1>1, <1>2, <3>1, ValueGiven DEF TakesValue
  <2> QED
    BY <2>1, <2>2, <2>3
<1>5. args[next] \in {"--recover", "--output", "--reference-digest"}
  BY DEF TakeRecover, TakeOutput, TakeReference
<1>6. args[next] = "--reference-digest" => args[next + 1] = "digest"
  BY DEF TakeRecover, TakeOutput, TakeReference, FromHex, Value
<1> QED
  BY ONLY <1>2, <1>3, <1>4, <1>5, <1>6 DEF Flagged

\* The options become what the flags ask for with one more of them.
LEMMA AskedStep ==
  ASSUME TypeInv, NEW taken, Taken(taken), NEW more, more = taken \cup {next}, Flagged(more),
         \/ TakeRecover \/ TakeOutput \/ TakeReference
  PROVE  Asked(more)'
<1>1. Filling(taken) /\ Asked(taken)
  BY DEF Taken
<1>2. UNCHANGED args
  BY DEF TakeRecover, TakeOutput, TakeReference, Take, Elsewhere
<1>3. \A flag : ValueOf(flag, more)' = ValueOf(flag, more)
  BY <1>2 DEF ValueOf
<1>4. /\ TakesValue("--output") /\ TakesValue("--reference-digest")
      /\ ~TakesValue("--recover")
  BY DEF TakesValue
<1>5. /\ args[next] = "--output" => ValueOf("--output", more) = args[next + 1]
      /\ args[next] # "--output" => ValueOf("--output", more) = output
  BY <1>1, <1>4, ValueTaken DEF Asked
<1>6. /\ args[next] = "--reference-digest" =>
           ValueOf("--reference-digest", more) = args[next + 1]
      /\ args[next] # "--reference-digest" => ValueOf("--reference-digest", more) = reference
  BY <1>1, <1>4, ValueTaken DEF Asked
<1>7. (\E i \in more : args[i] = "--recover") <=> recover \/ args[next] = "--recover"
  BY <1>1 DEF Asked
<1>8. CASE TakeRecover
  BY <1>2, <1>3, <1>5, <1>6, <1>7, <1>8 DEF TakeRecover, Options, Asked
<1>9. CASE TakeOutput
  BY <1>2, <1>3, <1>5, <1>6, <1>7, <1>9 DEF TakeOutput, Options, Value, Asked
<1>10. CASE TakeReference
  BY <1>2, <1>3, <1>5, <1>6, <1>7, <1>10 DEF TakeReference, Options, Value, Asked
<1> QED
  BY <1>8, <1>9, <1>10

\* An argument that is refused has no place in a reading.
LEMMA RefusedUnread ==
  ASSUME TypeInv, NEW taken, Taken(taken), RefuseArgument
  PROVE  Readings = {}
<1>1. Len(args) \in Nat /\ next \in Nat /\ next >= 2 /\ next <= Len(args)
  BY ArgsTyped DEF RefuseArgument, More
<1>2. /\ taken \subseteq 2 .. next - 1
      /\ Filling(taken) /\ Flagged(taken) /\ Asked(taken)
      /\ \A R \in Readings : R \cap (2 .. next - 1) = taken /\ next \in Places(R)
  BY DEF Taken, Filling, NoChoice
<1> SUFFICES ASSUME NEW R \in Readings PROVE FALSE
  OBVIOUS
<1>3. /\ R \subseteq 2 .. Len(args) /\ Flagged(R)
      /\ \A i \in R : After(i) \in R \cup {Len(args) + 1}
  BY ReadingMeans DEF Places
<1>4. next \in R /\ taken \subseteq R /\ next \notin taken
  <2>1. next \in R \cup {Len(args) + 1} /\ R \cap (2 .. next - 1) = taken
    BY <1>2 DEF Places
  <2> QED
    BY ONLY <1>1, <2>1
<1>5. args[next] \in {"--recover", "--output", "--reference-digest"}
  BY <1>3, <1>4 DEF Flagged
<1>6. TakesValue(args[next]) => HasValue
  <2> SUFFICES ASSUME TakesValue(args[next]) PROVE next < Len(args)
    BY DEF HasValue
  <2>1. next + 2 \in R \cup {Len(args) + 1}
    BY <1>3, <1>4 DEF After
  <2> QED
    BY ONLY <1>1, <1>3, <2>1
<1>7. ASSUME NEW flag, TakesValue(flag), args[next] = flag
      PROVE  ValueOf(flag, taken) = Absent
  BY <1>1, <1>2, <1>3, <1>4, <1>7, NoValue DEF Flagged
<1>8. args[next] = "--output" => NotYetGiven(output)
  BY <1>2, <1>7 DEF NotYetGiven, Asked, TakesValue
<1>9. args[next] = "--reference-digest" => NotYetGiven(reference)
  BY <1>2, <1>7 DEF NotYetGiven, Asked, TakesValue
<1>10. args[next] = "--reference-digest" => FromHex(Value)
  BY <1>3, <1>4 DEF Flagged, FromHex, Value
<1> QED
  BY <1>5, <1>6, <1>8, <1>9, <1>10 DEF RefuseArgument, TakesValue

\* When no argument is left, the flags taken are the reading, if there is one.
LEMMA AllTakenReading ==
  ASSUME TypeInv, NEW taken, Taken(taken), args # <<>>, next = Len(args) + 1
  PROVE  Readings = IF NeedsRecover THEN {} ELSE {taken}
<1>1. Len(args) \in Nat /\ next \in Nat
  BY ArgsTyped
<1>2. /\ taken \subseteq 2 .. next - 1 /\ 2 \in taken \cup {next}
      /\ \A i \in taken : After(i) \in taken \cup {next}
      /\ \A i \in taken \ {2} : \E j \in taken : After(j) = i
      /\ Filling(taken) /\ Flagged(taken) /\ Asked(taken)
      /\ \A R \in Readings : R \cap (2 .. next - 1) = taken
  BY DEF Taken, Filling, NoChoice
<1>3. taken \subseteq 2 .. Len(args)
  BY ONLY <1>1, <1>2, next = Len(args) + 1
<1>4. ASSUME NEW R \in Readings PROVE R = taken
  <2>1. R \subseteq 2 .. Len(args) /\ R \cap (2 .. next - 1) = taken
    BY <1>2, ReadingMeans
  <2>2. 2 .. next - 1 = 2 .. Len(args)
    BY ONLY <1>1, next = Len(args) + 1
  <2> QED
    BY ONLY <2>1, <2>2
<1>5. taken \in Readings <=>
        ((\E i \in taken : TakesValue(args[i])) => \E i \in taken : args[i] = "--recover")
  BY <1>2, <1>3, ReadingMeans DEF Places
<1>6. (\E i \in taken : args[i] = "--recover") <=> recover
  BY <1>2 DEF Asked
<1>7. (\E i \in taken : TakesValue(args[i])) <=> reference # Absent \/ output # Absent
  <2>1. next <= Len(args) + 1 /\ TakesValue("--output") /\ TakesValue("--reference-digest")
    BY <1>1 DEF TakesValue
  <2>2. output = Absent <=> \A i \in taken : args[i] # "--output"
    BY <1>2, <2>1, ValueGiven DEF Asked
  <2>3. reference = Absent <=> \A i \in taken : args[i] # "--reference-digest"
    BY <1>2, <2>1, ValueGiven DEF Asked
  <2> QED
    BY <2>2, <2>3 DEF TakesValue
<1>8. recover \in BOOLEAN
  BY DEF TypeInv, TypeOK, InvocationTypeOK
<1>9. taken \in Readings <=> ~NeedsRecover
  BY <1>5, <1>6, <1>7 DEF NeedsRecover
<1> QED
  BY <1>4, <1>9

\* The invariant says what is asked of it.
LEMMA ArgumentsMean == TypeInv /\ ArgumentsInv => AcceptedAsAsked
<1> SUFFICES ASSUME TypeInv, ArgumentsInv PROVE AcceptedAsAsked
  OBVIOUS
<1>1. ASSUME step = "destination"
      PROVE  \E flags \in Readings : Readings = {flags} /\ Asked(flags)
  <2>1. args # <<>> /\ next = Len(args) + 1 /\ ~NeedsRecover
    BY <1>1 DEF ArgumentsInv
  <2>2. PICK taken : Taken(taken)
    BY <1>1 DEF ArgumentsInv
  <2>3. Readings = {taken}
    BY <2>1, <2>2, AllTakenReading
  <2> QED
    BY <2>2, <2>3 DEF Taken
<1>2. exit = "usage" => Readings = {} \/ (next = Len(args) + 1 /\ recover /\ output # Absent)
  BY DEF ArgumentsInv
<1> QED
  BY <1>1, <1>2 DEF AcceptedAsAsked, Readings, Asked

LEMMA ArgumentsStart == Init => ArgumentsInv
<1> SUFFICES ASSUME Init PROVE ArgumentsInv
  OBVIOUS
<1>1. /\ next = 2 /\ recover = FALSE /\ output = Absent /\ reference = Absent
      /\ step = "arguments" /\ exit = "none"
  BY DEF Init, InvocationInit, InvocationStart
<1>2. args # <<>> => Len(args) \in Nat /\ Len(args) >= 1
  <2> SUFFICES ASSUME args # <<>> PROVE Len(args) \in Nat /\ Len(args) >= 1
    OBVIOUS
  <2>1. PICK rest \in BoundedSeq(Arg, MaxArgs) : args = <<"text">> \o rest
    BY DEF Init, InvocationInit
  <2>2. rest \in Seq(Arg)
    BY <2>1, InvocationAssumption DEF BoundedSeq, SeqOf
  <2>3. <<"text">> \in Seq(Arg) /\ Len(<<"text">>) = 1
    BY DEF Arg
  <2>4. Len(args) = 1 + Len(rest) /\ Len(rest) \in Nat
    BY <2>1, <2>2, <2>3, ConcatProperties
  <2> QED
    BY ONLY <2>4
<1>3. Filling({}) /\ Flagged({})
  BY <1>1 DEF Filling, Flagged
<1>4. Asked({})
  BY <1>1 DEF Asked, ValueOf
<1>5. NoChoice({})
  <2> SUFFICES ASSUME NEW R \in Readings
               PROVE  R \cap (2 .. next - 1) = {} /\ next \in Places(R)
    BY DEF NoChoice
  <2>1. next \in Places(R)
    BY <1>1, ReadingMeans
  <2>2. 2 .. next - 1 = {}
    BY ONLY <1>1
  <2> QED
    BY <2>1, <2>2
<1>6. Taken({}) /\ {} \in SUBSET (2 .. next - 1)
  BY <1>3, <1>4, <1>5 DEF Taken
<1>7. args # <<>> => next <= Len(args) + 1
  BY ONLY <1>1, <1>2
<1> QED
  BY <1>1, <1>6, <1>7 DEF ArgumentsInv

\* What the arguments' reading is told from.
Asking == <<args, next, recover, output, reference>>

LEMMA ReadingsKept ==
  ASSUME UNCHANGED Asking
  PROVE  /\ Readings' = Readings
         /\ NeedsRecover' = NeedsRecover
         /\ \A flags : Taken(flags)' = Taken(flags)
<1>1. UNCHANGED <<args, next, recover, output, reference>>
  BY DEF Asking
<1> QED
  BY ONLY <1>1 DEF Readings, IsReading, NeedsRecover, Taken, Filling, Flagged, Asked, NoChoice,
     After, Places, ValueOf, TakesValue

\* A flag is taken.
LEMMA TakeKeeps ==
  ASSUME TypeInv, ArgumentsInv, TakeRecover \/ TakeOutput \/ TakeReference
  PROVE  ArgumentsInv'
<1>1. /\ step = "arguments" /\ next <= Len(args)
      /\ UNCHANGED <<args, step, exit>>
  BY DEF TakeRecover, TakeOutput, TakeReference, More, Take, Elsewhere
<1>2. PICK taken \in SUBSET (2 .. next - 1) : Taken(taken)
  BY <1>1 DEF ArgumentsInv
<1>3. PICK more : more = taken \cup {next}
  OBVIOUS
<1>4. /\ next' = After(next) /\ next' <= Len(args) + 1
      /\ Flagged(more)
  BY <1>1, <1>2, <1>3, FlagTaken
<1>5. Asked(more)'
  BY <1>2, <1>3, <1>4, AskedStep
<1>6. Taken(more)'
  BY <1>1, <1>2, <1>3, <1>4, <1>5, TakenStep
<1>7. more \in SUBSET (2 .. next' - 1)
  BY <1>6 DEF Taken, Filling
<1>8. args # <<>>
  BY <1>1, ArgsTyped
<1>9. exit = "none"
  BY <1>1 DEF ArgumentsInv
<1> QED
  BY ONLY <1>1, <1>4, <1>6, <1>7, <1>8, <1>9 DEF ArgumentsInv

\* An exit over the arguments is one with no reading, or over the destination.
LEMMA RefusalKeeps ==
  ASSUME TypeInv, ArgumentsInv,
         \/ NoPath \/ RefuseArgument \/ RefuseOptions \/ RefuseDestination
  PROVE  ArgumentsInv'
<1>1. step' = "exited" /\ UNCHANGED Asking
  BY DEF NoPath, RefuseArgument, RefuseOptions, RefuseDestination, ExitWith, options, Elsewhere,
     Asking
<1>2. /\ Len(args) \in Nat /\ next \in Nat
      /\ \A flags \in Readings : args # <<>>
  BY ArgsTyped, ReadingMeans
<1>3. Readings = {} \/ (next = Len(args) + 1 /\ recover /\ output # Absent)
  <2>1. CASE NoPath
    BY <1>2, <2>1 DEF NoPath
  <2>2. CASE RefuseArgument
    <3>1. PICK taken : Taken(taken)
      BY <2>2 DEF RefuseArgument, More, ArgumentsInv
    <3> QED
      BY <2>2, <3>1, RefusedUnread
  <2>3. CASE RefuseOptions
    <3>1. /\ args # <<>> /\ NeedsRecover /\ next > Len(args) /\ next <= Len(args) + 1
          /\ \E taken : Taken(taken)
      BY <2>3 DEF RefuseOptions, AllTaken, ArgumentsInv
    <3>2. next = Len(args) + 1
      BY ONLY <1>2, <3>1
    <3> QED
      BY <3>1, <3>2, AllTakenReading
  <2>4. CASE RefuseDestination
    BY <2>4 DEF RefuseDestination, ArgumentsInv, NeedsRecover
  <2> QED
    BY <2>1, <2>2, <2>3, <2>4
<1>4. (Readings = {} \/ (next = Len(args) + 1 /\ recover /\ output # Absent))'
  BY <1>1, <1>3, ReadingsKept DEF Asking
<1> QED
  BY ONLY <1>1, <1>4 DEF ArgumentsInv

\* The last argument was taken and the options go together.
LEMMA AcceptKeeps ==
  ASSUME TypeInv, ArgumentsInv, AcceptOptions
  PROVE  ArgumentsInv'
<1>1. /\ step = "arguments" /\ args # <<>> /\ next > Len(args) /\ ~NeedsRecover
      /\ step' = "destination" /\ UNCHANGED Asking /\ exit' = exit
  BY DEF AcceptOptions, AllTaken, GoTo, options, Elsewhere, Asking
<1>2. /\ next <= Len(args) + 1 /\ exit = "none"
      /\ \E taken \in SUBSET (2 .. next - 1) : Taken(taken)
  BY <1>1 DEF ArgumentsInv
<1>3. Len(args) \in Nat /\ next \in Nat
  BY ArgsTyped
<1>4. next = Len(args) + 1
  BY ONLY <1>1, <1>2, <1>3
<1>5. UNCHANGED <<args, next>>
  BY <1>1 DEF Asking
<1>6. \E taken \in SUBSET (2 .. next' - 1) : Taken(taken)'
  BY <1>1, <1>2, <1>5, ReadingsKept
<1>7. ~NeedsRecover'
  BY <1>1, ReadingsKept
<1> QED
  BY ONLY <1>1, <1>2, <1>4, <1>5, <1>6, <1>7 DEF ArgumentsInv

\* Past the arguments nothing is said of them, and only Summarise sets the exit
\* status, which says nothing of them either.
LEMMA PastKeeps ==
  ASSUME ArgumentsInv, step # "exited", step' \notin {"arguments", "destination"},
         exit' = exit \/ (step' = "exited" /\ exit' # "usage")
  PROVE  ArgumentsInv'
<1>1. exit = "none"
  BY DEF ArgumentsInv
<1>2. exit' # "usage" /\ (exit' # "none" => step' = "exited")
  BY <1>1
<1> QED
  BY ONLY <1>2, step' \notin {"arguments", "destination"} DEF ArgumentsInv

\* For any arguments, an invocation that is accepted has one reading and the
\* options are that reading's; one refused for its arguments has none.
THEOREM AskedCorrect == Spec => []AcceptedAsAsked
<1>1. TypeInv /\ ArgumentsInv /\ [Next]_vars => ArgumentsInv'
  <2> SUFFICES ASSUME TypeInv, ArgumentsInv, [Next]_vars PROVE ArgumentsInv'
    OBVIOUS
  <2>1. CASE TakeRecover \/ TakeOutput \/ TakeReference
    BY <2>1, TakeKeeps
  <2>2. CASE NoPath \/ RefuseArgument \/ RefuseOptions \/ RefuseDestination
    BY <2>2, RefusalKeeps
  <2>3. CASE AcceptOptions
    BY <2>3, AcceptKeeps
  <2>4. CASE AcceptDestination \/ EvidenceNotOpened \/ Open \/ ReadChunk \/ ReadFails
             \/ EndOfFile \/ Resize
    <3>1. /\ step # "exited" /\ step' \notin {"arguments", "destination"}
          /\ exit' = exit \/ (step' = "exited" /\ exit' # "usage")
      BY <2>4 DEF AcceptDestination, EvidenceNotOpened, Open, ReadChunk, ReadFails, EndOfFile,
         Resize, ExitWith
    <3> QED
      BY <3>1, PastKeeps
  <2>5. CASE \/ TableFails \/ GptDetected \/ PartitionsListed \/ PartitionUnread
             \/ NotFat32 \/ Fat32 \/ VolumeFails \/ SearchStops \/ VolumeEnds \/ PartitionsEnd
             \/ Anomalies \/ NoAnomalies
             \/ RootDirectory \/ DirectoryNotRead \/ Subdirectory \/ ListingMayContinue
             \/ ListingEnds \/ WalkEnds \/ OrphanedDirectory \/ SearchEnds
             \/ OrphanedListingUnread \/ NotAssessed \/ Ineligible \/ RunBroken \/ Recoverable
             \/ Extracted \/ NotExtracted
    <3>1. \E place \in Steps \ {"arguments", "destination"} : Go(place) /\ step # "exited"
      BY <2>5 DEF TableFails, GptDetected, PartitionsListed, PartitionUnread, NotFat32,
         Fat32, VolumeFails, SearchStops, VolumeEnds, PartitionsEnd, Anomalies, NoAnomalies,
         RootDirectory, DirectoryNotRead, Subdirectory, ListingMayContinue, ListingEnds, WalkEnds,
         OrphanedDirectory, SearchEnds, OrphanedListingUnread, NotAssessed, Ineligible, RunBroken,
         Recoverable, Extracted, NotExtracted, Enter, OneEvent, NextPartition, MoveTo, OfAnEntry,
         Steps
    <3>2. /\ step # "exited" /\ step' \notin {"arguments", "destination"}
          /\ exit' = exit
      BY ONLY <3>1 DEF Go
    <3> QED
      BY ONLY <3>2, ArgumentsInv, PastKeeps
  <2>6. CASE Analyse \/ PartEnds \/ Summarise
    <3>1. /\ step # "exited" /\ step' \notin {"arguments", "destination"}
          /\ exit' = exit \/ (step' = "exited" /\ exit' # "usage")
      BY <2>6 DEF Analyse, PartEnds, Summarise
    <3> QED
      BY <3>1, PastKeeps
  <2>7. CASE Exited \/ UNCHANGED vars
    <3>1. UNCHANGED <<step, exit>> /\ UNCHANGED Asking
      BY <2>7 DEF Exited, vars, invocation, options, Asking
    <3>2. UNCHANGED <<args, next, recover, output>>
      BY <3>1 DEF Asking
    <3>3. /\ Readings' = Readings /\ NeedsRecover' = NeedsRecover
          /\ \A flags : Taken(flags)' = Taken(flags)
      BY <3>1, ReadingsKept
    <3> QED
      BY ONLY <3>1, <3>2, <3>3, ArgumentsInv DEF ArgumentsInv
  <2> QED
    BY <2>1, <2>2, <2>3, <2>4, <2>5, <2>6, <2>7 DEF Next, InvocationNext
<1> QED
  BY <1>1, ArgumentsStart, ArgumentsMean, TypeCorrect, PTL DEF Spec, TypeInv
=============================================================================
