------------------------------- MODULE Report -------------------------------
(***************************************************************************)
(* What a run prints: the events src/analysis.rs records, in the order it  *)
(* records them, the lines StdoutSink in src/main.rs prints for them, and  *)
(* the summary and the caveats derived from RunCounts.  It goes on where   *)
(* Invocation has the digest.                                              *)
(*                                                                         *)
(* What the evidence holds is any choice: every event that can come next   *)
(* may.  A line is its kind and what a reader takes from the lines above   *)
(* it.                                                                     *)
(***************************************************************************)
EXTENDS Invocation

CONSTANTS
  MaxPartitions,  \* bound on the partitions listed
  MaxEvents       \* bound on the events inside volumes

ASSUME ReportAssumption == MaxPartitions \in Nat /\ MaxEvents \in Nat

VARIABLES
  partitions,   \* partitions left to report
  at,           \* the directory reported on
  listing,      \* Listing: how it was reached
  part,         \* DirectoryPart: what of it report_recovery goes through
  orphans,      \* whether the search of this volume has found a directory
  room,         \* events left of MaxEvents
  counts,       \* RunCounts
  headed,       \* the sink's entries_heading_printed and residue_heading_printed
  said,         \* how many lines of a kind were printed
  reader,       \* what the lines so far put the next one under
  line,         \* what the last step said: of an entry, more of the same entry
  summary       \* what print_summary and print_caveats printed

analysis == <<partitions, at, listing, part, orphans, room, counts, headed, said, reader,
              line, summary>>
vars == <<invocation, analysis>>

\* What was not analysed, each with the line that says so where it happens.
GapLine ==
  [table_unread |-> "error: table", table_rejected |-> "error: table refused",
   partitions_anomalous |-> "anomaly: left out", gpt |-> "GPT detected",
   partition_unread |-> "error: partition", unidentified |-> "filesystem unknown",
   unsupported |-> "filesystem, not FAT32", boot_rejected |-> "BOOT SECTOR REJECTED",
   root_unread |-> "NOT ENUMERATED", not_assessed |-> "NOT ASSESSED",
   not_extracted |-> "NOT EXTRACTED", not_delivered |-> "NOT WRITTEN",
   directories_unread |-> "NOT READ", listings_may_continue |-> "may continue",
   orphan_search_stopped |-> "ORPHAN SEARCH STOPPED"]

Gap == DOMAIN GapLine

\* What became of the entries, likewise.
EntryLine ==
  [free_runs |-> "every cluster free", refused |-> "REFUSED", matched |-> "MATCHES",
   empty |-> "no content: empty", reserved_cluster |-> "no content: reserved",
   run_out_of_range |-> "no content: out of range"]

Counter == Gap \cup DOMAIN EntryLine \cup {"volumes_analysed"}

Line == {GapLine[g] : g \in Gap} \cup {EntryLine[c] : c \in DOMAIN EntryLine}
          \cup {"root directory", "no content: no file", "recovered", "written",
                "NOT VERIFIED", "DIFFERS"}

----------------------------------------------------------------------------
(***************************************************************************)
(* One event: what analysis.rs counts for it, what the sink prints.        *)
(***************************************************************************)

Plain(kind) == [kind |-> kind]

\* Seeded fault: a file that was begun is thought to be one the operator has.
NeverBegun(o) == o \in {"Exists", "NotCreated"}

\* The operator asked for a file and has none.
Undelivered(o) == o \in {"Exists", "NotCreated", "Failed"}

\* The counters an event goes with.
Counted(e) ==
  CASE e.kind = "TableUnread" -> {"table_unread"}
    [] e.kind = "TableRejected" -> {"table_rejected"}
    [] e.kind = "GptDetected" -> {"gpt"}
    [] e.kind = "Anomalies" -> {"partitions_anomalous"}
    [] e.kind = "PartitionUnread" -> {"partition_unread"}
    [] e.kind = "PartitionIdentified" -> {e.as} \ {"fat32"}
    [] e.kind = "BootSectorRejected" -> {"boot_rejected"}
    [] e.kind = "RootDirectoryUnread" -> {"root_unread"}
    [] e.kind = "Directory" -> IF e.reached = "root" THEN {"volumes_analysed"} ELSE {}
    [] e.kind \in {"DirectoryNotRead", "OrphanedListingUnread"} -> {"directories_unread"}
    [] e.kind = "ListingMayContinue" -> {"listings_may_continue"}
    [] e.kind = "OrphanSearchStopped" -> {"orphan_search_stopped"}
    [] e.kind = "NotAssessed" -> {"not_assessed"}
    [] e.kind = "Ineligible" -> {e.reason} \ {"no_file"}
    [] e.kind = "RunBroken" -> {"refused"}
    [] e.kind = "Recoverable" -> {"free_runs"}
    [] e.kind = "Extracted" -> {c \in {"not_delivered"} : Undelivered(e.output)}
                                 \cup {c \in {"matched"} : e.validation = "Match"}
    [] e.kind = "NotExtracted" -> {"not_extracted"}

\* The lines StdoutSink::record and print_output print, by what they say.
Printed(e) ==
  CASE e.kind = "TableUnread" -> {"error: table"}
    [] e.kind = "TableRejected" -> {"error: table refused"}
    [] e.kind = "GptDetected" -> {"GPT detected"}
    [] e.kind = "Anomalies" -> {"anomaly: left out"}
    [] e.kind = "PartitionUnread" -> {"error: partition"}
    [] e.kind = "PartitionIdentified" ->
         {l \in {"filesystem unknown"} : e.as = "unidentified"}
           \cup {l \in {"filesystem, not FAT32"} : e.as = "unsupported"}
    [] e.kind = "BootSectorRejected" -> {"BOOT SECTOR REJECTED"}
    [] e.kind = "RootDirectoryUnread" -> {"NOT ENUMERATED"}
    [] e.kind = "Directory" -> {l \in {"root directory"} : e.reached = "root"}
    [] e.kind \in {"DirectoryNotRead", "OrphanedListingUnread"} -> {"NOT READ"}
    [] e.kind = "ListingMayContinue" -> {"may continue"}
    [] e.kind = "OrphanSearchStopped" -> {"ORPHAN SEARCH STOPPED"}
    [] e.kind = "NotAssessed" -> {"NOT ASSESSED"}
    [] e.kind = "Ineligible" ->
         {[empty |-> "no content: empty", reserved_cluster |-> "no content: reserved",
           run_out_of_range |-> "no content: out of range",
           no_file |-> "no content: no file"][e.reason]}
    [] e.kind = "RunBroken" -> {"REFUSED"}
    [] e.kind = "Recoverable" -> {"every cluster free"}
    [] e.kind = "Extracted" ->
         {"recovered"}
           \cup {l \in {"written"} : e.output \in {"Written", "Unverified"}}
           \cup {l \in {"NOT VERIFIED"} : e.output = "Unverified"}
           \cup {l \in {"NOT WRITTEN"} : e.output \in {"Exists", "NotCreated", "Failed"}}
           \cup {l \in {"MATCHES"} : e.validation = "Match"}
           \cup {l \in {"DIFFERS"} : e.validation = "Differs"}
    [] e.kind = "NotExtracted" -> {"NOT EXTRACTED"}

\* Only Anomalies holds several findings of one kind.
Times(e) == IF e.kind = "Anomalies" THEN e.left_out ELSE 1

OfEntry(e) == e.kind \in {"NotAssessed", "Ineligible", "RunBroken", "Recoverable"}
OfSameEntry(e) == e.kind \in {"Extracted", "NotExtracted"}

\* Seeded fault: one flag for the two headings of a directory.
AnyHeading(p) == {"Entries", "Residue"}

\* The flag head_content looks at and sets.
HeadingOf(p) == {p}

Fresh == [p \in {"Entries", "Residue"} |-> FALSE]

\* Under a new heading the reader has seen no title and no entry.
Under(heading) == [heading |-> heading, sections |-> <<>>, free |-> FALSE]

\* The title says how the directory was reached.  It does not say which part of
\* it is gone through: both passes of a directory print the same one.
TitleOf(l) == IF l = "Orphaned" THEN "orphaned content" ELSE "deleted content"

\* A title as it is printed, and as a history the parts whose findings stand
\* between it and the next.
Section(l, p) == [title |-> TitleOf(l), parts |-> {p}]

\* A finding of part p goes under the title printed last.
StandingLast(sections, p) ==
  [k \in DOMAIN sections |->
    IF k = Len(sections) THEN [sections[k] EXCEPT !.parts = @ \cup {p}] ELSE sections[k]]

\* head_content, then the line of the entry.
SayEntry(e) ==
  LET known == \A p \in HeadingOf(part) : headed[p] IN
  /\ headed' = [p \in DOMAIN headed |-> headed[p] \/ p \in HeadingOf(part)]
  /\ reader' = [reader EXCEPT !.sections = IF known THEN StandingLast(@, part)
                                           ELSE Append(@, Section(listing, part)),
                              !.free = (e.kind = "Recoverable")]
  /\ line' = "entry"

\* Every other event.
SayOther(e) ==
  \/ /\ e.kind = "Directory"
     /\ headed' = Fresh /\ reader' = Under(e.reached) /\ line' = "none"
  \/ /\ e.kind \in {"DirectoryNotRead", "OrphanedListingUnread"}
     /\ headed' = headed /\ reader' = Under("not read") /\ line' = "none"
  \/ /\ OfSameEntry(e)
     /\ UNCHANGED <<headed, reader>> /\ line' = "same entry"
  \/ /\ e.kind \notin {"Directory", "DirectoryNotRead", "OrphanedListingUnread"}
     /\ ~OfSameEntry(e)
     /\ UNCHANGED <<headed, reader>> /\ line' = "none"

Emit(e) ==
  /\ counts' = [c \in Counter |-> counts[c] + (IF c \in Counted(e) THEN Times(e) ELSE 0)]
  /\ said' = [l \in Line |-> said[l] + (IF l \in Printed(e) THEN Times(e) ELSE 0)]
  /\ IF OfEntry(e) THEN SayEntry(e) ELSE SayOther(e)
  /\ UNCHANGED summary

Silent == line' = "none" /\ UNCHANGED <<counts, said, headed, reader, summary>>

----------------------------------------------------------------------------
(***************************************************************************)
(* run and report_partition.                                               *)
(***************************************************************************)

Same == UNCHANGED <<at, listing, part, orphans>>

Go(place) ==
  /\ step' = place
  /\ UNCHANGED <<args, next, recover, output, reference, exit, size, reported, position,
                 hashed, warned>>

\* An event inside a volume, of which a run has at most MaxEvents.
Spend == room > 0 /\ room' = room - 1

\* The analysis is handed the options; the digest is printed and not used again.
Analyse ==
  /\ step = "hashed"
  /\ step' = "table"
  /\ size' = 0 /\ reported' = 0 /\ position' = 0 /\ hashed' = <<>> /\ warned' = FALSE
  /\ UNCHANGED <<args, next, options, exit, analysis>>

OneEvent(place, e) == Go(place) /\ Emit(e) /\ Same /\ UNCHANGED <<partitions, room>>

TableFails ==
  /\ step = "table"
  /\ \/ OneEvent("summary", Plain("TableUnread"))
     \/ OneEvent("summary", Plain("TableRejected"))

GptDetected == step = "table" /\ OneEvent("anomalies", Plain("GptDetected"))

PartitionsListed ==
  /\ step = "table"
  /\ partitions' \in 0 .. MaxPartitions
  /\ Go("partitions") /\ Silent /\ Same /\ UNCHANGED room

NextPartition(e) ==
  /\ Go("partitions") /\ Emit(e)
  /\ partitions' = partitions - 1
  /\ Same /\ UNCHANGED room

PartitionUnread ==
  /\ step = "partitions" /\ partitions > 0
  /\ NextPartition(Plain("PartitionUnread"))

Identified(as) == [kind |-> "PartitionIdentified", as |-> as]

NotFat32 ==
  /\ step = "partitions" /\ partitions > 0
  /\ \E as \in {"unidentified", "unsupported"} : NextPartition(Identified(as))

Fat32 ==
  /\ step = "partitions" /\ partitions > 0
  /\ OneEvent("boot", Identified("fat32"))

VolumeFails ==
  /\ step = "boot"
  /\ \/ NextPartition(Plain("BootSectorRejected"))
     \/ NextPartition(Plain("RootDirectoryUnread"))

----------------------------------------------------------------------------
(***************************************************************************)
(* report_root_directory, report_subdirectory, search_orphaned_directories.*)
(***************************************************************************)

Directory(reached) == [kind |-> "Directory", reached |-> reached]

\* A directory is printed; report_recovery goes through its entries.
Enter(reached, l, place) ==
  /\ Go(place) /\ Emit(Directory(reached))
  /\ at' = reached /\ listing' = l /\ part' = "Entries"

RootDirectory ==
  /\ step = "boot"
  /\ Enter("root", "Walked", "entries")
  /\ orphans' = FALSE
  /\ UNCHANGED <<partitions, room>>

\* It is too deep, was already read, is no directory or cannot be read.
DirectoryNotRead ==
  /\ step = "walk"
  /\ Spend /\ Go("walk") /\ Emit(Plain("DirectoryNotRead"))
  /\ Same /\ UNCHANGED partitions

Subdirectory ==
  /\ step = "walk"
  /\ Spend /\ Enter("subdirectory", "Walked", "listing")
  /\ UNCHANGED <<orphans, partitions>>

MoveTo(place) == Go(place) /\ Silent /\ Same /\ UNCHANGED <<partitions, room>>

\* Only a deleted or an orphaned directory, of which one cluster was read.
ListingMayContinue ==
  step = "listing" /\ OneEvent("entries", Plain("ListingMayContinue"))

ListingEnds == step = "listing" /\ MoveTo("entries")

WalkEnds == step = "walk" /\ MoveTo("search")

OrphanedDirectory ==
  /\ step = "search"
  /\ Spend /\ Enter("orphan", "Orphaned", "listing")
  /\ orphans' = TRUE
  /\ UNCHANGED partitions

SearchStops ==
  /\ step = "search"
  /\ NextPartition(Plain("OrphanSearchStopped"))

SearchEnds == step = "search" /\ MoveTo("listed")

\* A directory an orphaned listing names and the search did not find.
OrphanedListingUnread ==
  /\ step = "listed" /\ orphans
  /\ Spend /\ Go("listed") /\ Emit(Plain("OrphanedListingUnread"))
  /\ Same /\ UNCHANGED partitions

VolumeEnds ==
  /\ step = "listed"
  /\ Go("partitions") /\ Silent
  /\ partitions' = partitions - 1
  /\ Same /\ UNCHANGED room

----------------------------------------------------------------------------
(***************************************************************************)
(* report_recovery.                                                        *)
(***************************************************************************)

OfAnEntry(e, place) ==
  /\ step = "entries"
  /\ Spend /\ Go(place) /\ Emit(e)
  /\ Same /\ UNCHANGED partitions

NotAssessed == OfAnEntry(Plain("NotAssessed"), "entries")

Ineligible ==
  \E reason \in {"empty", "reserved_cluster", "run_out_of_range", "no_file"} :
    OfAnEntry([kind |-> "Ineligible", reason |-> reason], "entries")

RunBroken == OfAnEntry(Plain("RunBroken"), "entries")

Recoverable ==
  OfAnEntry(Plain("Recoverable"), IF recover THEN "extracting" ELSE "entries")

\* With no destination there is no output; with no reference, no comparison.
Outputs ==
  IF output = Absent THEN {"none"}
  ELSE {"Written", "Unverified", "Exists", "NotCreated", "Failed"}

Validations == IF reference = Absent THEN {"NotAttempted"} ELSE {"Match", "Differs"}

Extracted ==
  /\ step = "extracting"
  /\ \E o \in Outputs, v \in Validations :
       OneEvent("entries", [kind |-> "Extracted", output |-> o, validation |-> v])

NotExtracted == step = "extracting" /\ OneEvent("entries", Plain("NotExtracted"))

PartEnds ==
  /\ step = "entries"
  /\ IF part = "Entries" THEN step' = step /\ part' = "Residue"
     ELSE step' = (IF listing = "Walked" THEN "walk" ELSE "search") /\ part' = part
  /\ Silent
  /\ UNCHANGED <<args, next, recover, output, reference, exit, size, reported, position,
                 hashed, warned, partitions, at, listing, orphans, room>>

----------------------------------------------------------------------------
(***************************************************************************)
(* The end of run, print_summary, print_caveats and the exit status.       *)
(***************************************************************************)

PartitionsEnd == step = "partitions" /\ partitions = 0 /\ MoveTo("anomalies")

\* The anomalies of the table, some of them entries that were left out.
Anomalies ==
  /\ step = "anomalies"
  /\ \E n \in 0 .. 2 : OneEvent("summary", [kind |-> "Anomalies", left_out |-> n])

NoAnomalies == step = "anomalies" /\ MoveTo("summary")

\* Seeded fault: what was not extracted is an artifact all the same.
FreeRuns(c) == c.free_runs

\* saturating_sub never has anything to saturate; see SummaryAgreesWithLines.
Extractions(c) == IF c.free_runs >= c.not_extracted THEN c.free_runs - c.not_extracted ELSE 0

Artifacts(c) == IF recover THEN Extractions(c) ELSE 0

Differed(c) ==
  IF reference # Absent
  THEN IF Artifacts(c) >= c.matched THEN Artifacts(c) - c.matched ELSE 0
  ELSE 0

NotRead(c) == IF recover THEN 0 ELSE c.free_runs

Coverage(c) ==
  CASE \A g \in Gap : c[g] = 0 -> "complete"
    [] (\E g \in Gap : c[g] > 0) /\ c.volumes_analysed = 0 -> "none"
    [] (\E g \in Gap : c[g] > 0) /\ c.volumes_analysed > 0 -> "incomplete"

Caveats(c) ==
  IF c.free_runs = 0 THEN {}
  ELSE {"a free run"}
         \cup {p \in {"a match"} : c.matched > 0}
         \cup {p \in {"a differing digest"} : Differed(c) > 0}
         \cup {p \in {"no content read"} : ~recover}
         \cup {p \in {"nothing validated"} : recover /\ reference = Absent}

NoSummary == [coverage |-> "", gaps |-> {}, artifacts |-> 0, matched |-> 0, differed |-> 0,
              not_read |-> 0, caveats |-> {}]

Summarise ==
  /\ step = "summary"
  /\ summary' =
       [coverage |-> Coverage(counts),
        gaps |-> {<<g, counts[g]>> : g \in {g \in Gap : counts[g] > 0}},
        artifacts |-> Artifacts(counts), matched |-> counts.matched,
        differed |-> Differed(counts), not_read |-> NotRead(counts),
        caveats |-> Caveats(counts)]
  /\ step' = "exited"
  /\ exit' = IF Coverage(counts) = "none" THEN "nothing_analysed" ELSE "success"
  /\ UNCHANGED <<args, next, options, size, reported, position, hashed, warned, partitions, at,
                 listing, part, orphans, room, counts, headed, said, reader, line>>

\* The process has exited.
Exited == step = "exited" /\ UNCHANGED vars

Init ==
  /\ InvocationInit
  /\ partitions = 0 /\ at = "none" /\ listing = "Walked" /\ part = "Entries"
  /\ orphans = FALSE /\ room = MaxEvents
  /\ counts = [c \in Counter |-> 0] /\ headed = Fresh
  /\ said = [l \in Line |-> 0] /\ reader = Under("none") /\ line = "none"
  /\ summary = NoSummary

Next ==
  \/ InvocationNext /\ UNCHANGED analysis
  \/ Analyse \/ TableFails \/ GptDetected \/ PartitionsListed
  \/ PartitionUnread \/ NotFat32 \/ Fat32 \/ VolumeFails
  \/ RootDirectory \/ DirectoryNotRead \/ Subdirectory \/ ListingMayContinue \/ ListingEnds
  \/ WalkEnds
  \/ OrphanedDirectory \/ SearchStops \/ SearchEnds \/ OrphanedListingUnread \/ VolumeEnds
  \/ NotAssessed \/ Ineligible \/ RunBroken \/ Recoverable \/ Extracted \/ NotExtracted
  \/ PartEnds \/ PartitionsEnd \/ Anomalies \/ NoAnomalies \/ Summarise \/ Exited

Spec == Init /\ [][Next]_vars

----------------------------------------------------------------------------
(***************************************************************************)
(* Properties.                                                             *)
(***************************************************************************)

\* Every variable keeps its type.
TypeOK ==
  /\ InvocationTypeOK
  /\ step \in {"arguments", "destination", "evidence", "hashing", "hashed", "table",
               "partitions", "boot", "listing", "entries", "extracting", "walk", "search", "listed",
               "anomalies", "summary", "exited"}
  /\ partitions \in 0 .. MaxPartitions
  /\ at \in {"none", "root", "subdirectory", "orphan"}
  /\ listing \in {"Walked", "Orphaned"} /\ part \in {"Entries", "Residue"}
  /\ orphans \in BOOLEAN
  /\ room \in 0 .. MaxEvents
  /\ counts \in [Counter -> Nat]
  /\ headed \in [{"Entries", "Residue"} -> BOOLEAN]
  /\ said \in [Line -> Nat]
  /\ reader.heading \in {"none", "root", "subdirectory", "orphan", "not read"}
  /\ reader.free \in BOOLEAN
  /\ line \in {"none", "entry", "same entry"}
  /\ summary.coverage \in {"", "complete", "incomplete", "none"}

\* Every line about an entry's content stands where head_content's comment says:
\* under the directory that holds the entry, the last one printed, and there in
\* the one section of its pass.  A pass has one title at most, printed before its
\* first finding; no section holds findings of two parts; and the title says
\* orphaned exactly in a directory the search found.  A line that gives no
\* position follows the free run of the entry it goes on about.  Which part a
\* section is of the program does not say: two passes print the same title.
LineIsUnderItsHeading ==
  line # "none" =>
    /\ reader.heading = at
    /\ reader.sections # <<>> /\ Last(reader.sections).parts = {part}
    /\ \A j, k \in DOMAIN reader.sections :
         reader.sections[j].parts \cap reader.sections[k].parts # {} => j = k
    /\ \A k \in DOMAIN reader.sections :
         /\ \E p \in {"Entries", "Residue"} : reader.sections[k].parts = {p}
         /\ reader.sections[k].title = "orphaned content" <=> at = "orphan"
    /\ line = "same entry" => reader.free

\* The summary says what the lines said: as many of every gap and of every
\* outcome, derived ones included, as lines printed when it was met; coverage is
\* complete exactly if no line told of a gap; and each caveat is there exactly if
\* a line needs it.
SummaryAgreesWithLines ==
  step = "exited" /\ summary # NoSummary =>
    /\ summary.gaps = {<<g, said[GapLine[g]]>> : g \in {g \in Gap : said[GapLine[g]] > 0}}
    /\ summary.coverage = "complete" <=> \A g \in Gap : said[GapLine[g]] = 0
    /\ summary.artifacts = said["recovered"]
    /\ summary.matched = said["MATCHES"] /\ summary.differed = said["DIFFERS"]
    /\ summary.not_read = said["every cluster free"] - said["recovered"] - said["NOT EXTRACTED"]
    /\ "a free run" \in summary.caveats <=> said["every cluster free"] > 0
    /\ "a match" \in summary.caveats <=> said["MATCHES"] > 0
    /\ "a differing digest" \in summary.caveats <=> said["DIFFERS"] > 0
    /\ "no content read" \in summary.caveats => said["recovered"] + said["NOT EXTRACTED"] = 0
    /\ "nothing validated" \in summary.caveats => said["MATCHES"] + said["DIFFERS"] = 0
=============================================================================
