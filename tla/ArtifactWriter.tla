--------------------------- MODULE ArtifactWriter ---------------------------
(***************************************************************************)
(* Reading the free runs of one listing and writing them to the            *)
(* destination: the Recoverable arm of report_recovery in src/analysis.rs, *)
(* extract and stream of src/fat_recovery.rs and the ArtifactWriter of     *)
(* src/extraction.rs.                                                      *)
(*                                                                         *)
(* The evidence may fail at every cluster and the destination at every     *)
(* call.  Another program may delete a file, the run may be killed between *)
(* any two calls, and a later run may write to the same destination.       *)
(*                                                                         *)
(* An artifact's bytes are abstracted to the numbers of its clusters in    *)
(* order, the last one standing for the bytes the entry declares of it.    *)
(* Damaged stands for a cluster cut short or changed on its way to the     *)
(* file.  A digest is what was hashed: SHA-256 is taken to be injective.   *)
(* Artifacts are numbered in the order they are listed, and each has a     *)
(* path of its own (VolumeWalk's ListedOnce).                              *)
(***************************************************************************)
EXTENDS Integers, Sequences

CONSTANTS
  Artifacts,   \* how many free runs the listing holds
  Length,      \* the clusters of each run
  MaxRuns,     \* bound on the runs over one destination
  NoFile       \* what the destination holds at a path with no file

Artifact == 1 .. Artifacts
Damaged == 0

\* What a file holds, and the run that made it; 0 is before the first run.
File == [run : Nat, content : Seq(Nat)]

\* eligibility refuses an empty file, so a run has at least one cluster.
ASSUME ListingAssumption ==
  /\ Artifacts \in Nat
  /\ Length \in [Artifact -> Nat \ {0}]
  /\ MaxRuns \in Nat \ {0}
  /\ NoFile \notin File

\* The Output of an Extracted event, its readback compared with its digest,
\* or NotExtracted.  `left' is Failed's removed negated, or PartialLeft.
Delivered == {"matches", "differs", "unverified"}
Withheld == {"exists", "not_created", "failed"}
Extracted == Delivered \cup Withheld \cup {"no_output"}
Finding == [kind : Extracted \cup {"none", "not_extracted"},
            digest : Seq(Nat), left : BOOLEAN]

NoFinding == [kind |-> "none", digest |-> <<>>, left |-> FALSE]

VARIABLES
  run,       \* which run over this destination
  output,    \* whether --output names the destination
  disk,      \* the destination, by artifact
  step,      \* where the run stands
  current,   \* the artifact taken up last
  read,      \* clusters of it the stream has read
  hashed,    \* the hasher
  sink,      \* ArtifactWriter's Sink
  told,      \* this run's Extracted and NotExtracted events
  not_delivered, not_extracted   \* of RunCounts

vars == <<run, output, disk, step, current, read, hashed, sink, told,
          not_delivered, not_extracted>>

TypeOK ==
  /\ run \in 1 .. MaxRuns
  /\ output \in BOOLEAN
  /\ disk \in [Artifact -> File \cup {NoFile}]
  /\ step \in {"idle", "streaming", "finishing", "reading_back", "ended", "killed"}
  /\ current \in 0 .. Artifacts
  /\ step \in {"streaming", "finishing", "reading_back"} =>
       current \in Artifact /\ read \in 0 .. Length[current]
  /\ hashed \in Seq(Nat)
  /\ sink \in {"absent", "open", "taken", "unopened", "broken"}
  /\ told \in [Artifact -> Finding]
  /\ not_delivered \in Nat
  /\ not_extracted \in Nat

Whole(a) == [i \in 1 .. Length[a] |-> i]

----------------------------------------------------------------------------
(***************************************************************************)
(* begin and push.                                                         *)
(***************************************************************************)

NewFile == [run |-> run, content |-> <<>>]

\* Seeded fault: create in place of create_new.
OpenSinkTruncating(a) ==
  IF output
    THEN /\ sink' = "open"
         /\ disk' = [disk EXCEPT ![a] = NewFile]
    ELSE sink' = "absent" /\ UNCHANGED disk

\* create_new makes the check for a file and its creation one step.
OpenSink(a) ==
  \/ /\ ~output
     /\ sink' = "absent"
     /\ UNCHANGED disk
  \/ /\ output /\ disk[a] = NoFile
     /\ sink' = "open"
     /\ disk' = [disk EXCEPT ![a] = NewFile]
  \/ /\ output /\ disk[a] # NoFile
     /\ sink' = "taken"
     /\ UNCHANGED disk
  \/ /\ output
     /\ sink' = "unopened"
     /\ UNCHANGED disk

StartArtifact ==
  /\ step = "idle" /\ current < Artifacts
  /\ current' = current + 1
  /\ read' = 0
  /\ hashed' = <<>>
  /\ OpenSink(current + 1)
  /\ step' = "streaming"
  /\ UNCHANGED <<run, output, told, not_delivered, not_extracted>>

\* Writes to a file another program deleted go nowhere.
Stored(blocks) ==
  IF disk[current] = NoFile
    THEN disk
    ELSE [disk EXCEPT ![current].content = @ \o blocks]

\* Seeded fault: a failed write stops the hashing with the writing.
HashedUnlessBroken(block) ==
  IF sink = "broken" THEN hashed ELSE Append(hashed, block)

Hashed(block) == Append(hashed, block)

\* The destination takes the bytes, takes others in their place and says
\* nothing, or fails having taken some of them or none.
Push(block) ==
  /\ hashed' = Hashed(block)
  /\ \/ /\ sink = "open"
        /\ disk' \in {Stored(<<block>>), Stored(<<Damaged>>)}
        /\ UNCHANGED sink
     \/ /\ sink = "open"
        /\ disk' \in {disk, Stored(<<Damaged>>)}
        /\ sink' = "broken"
     \/ /\ sink # "open"
        /\ UNCHANGED <<disk, sink>>

\* Seeded fault: one cluster too many.
StreamDonePast(n) == n > Length[current]

StreamDone(n) == n = Length[current]

ReadCluster ==
  /\ step = "streaming"
  /\ read' = read + 1
  /\ Push(read + 1)
  /\ step' = IF StreamDone(read + 1) THEN "finishing" ELSE "streaming"
  /\ UNCHANGED <<run, output, current, told, not_delivered, not_extracted>>

----------------------------------------------------------------------------
(***************************************************************************)
(* abort and finish, and what report_recovery makes of them.               *)
(***************************************************************************)

\* fs::remove_file.
RemoveFile(result) ==
  \/ /\ disk[current] # NoFile /\ result = "removed"
     /\ disk' = [disk EXCEPT ![current] = NoFile]
  \/ /\ disk[current] # NoFile /\ result = "refused"
     /\ UNCHANGED disk
  \/ /\ disk[current] = NoFile /\ result = "not_found"
     /\ UNCHANGED disk

\* Seeded fault: only a file still open is removed.
LeavesFileIfOpen == sink = "open"

LeavesFile == sink \in {"open", "broken"}

\* discard and remove_partial: a file already gone is not left.
Discard(left) ==
  \/ /\ LeavesFile
     /\ \E result \in {"removed", "refused", "not_found"} :
          RemoveFile(result) /\ left = (result = "refused")
  \/ /\ ~LeavesFile
     /\ ~left /\ UNCHANGED disk

\* Seeded fault: a path that was taken is no gap.
UndeliveredByFailure(kind) == kind \in {"not_created", "failed"}

Undelivered(kind) == kind \in Withheld

Tell(finding) ==
  /\ told' = [told EXCEPT ![current] = finding]
  /\ not_delivered' = not_delivered + (IF Undelivered(finding.kind) THEN 1 ELSE 0)
  /\ not_extracted' = not_extracted + (IF finding.kind = "not_extracted" THEN 1 ELSE 0)
  /\ step' = "idle"
  /\ UNCHANGED <<run, output, current, read, hashed, sink>>

\* The evidence fails: no digest, and the writer is aborted.
StreamFails ==
  /\ step = "streaming"
  /\ \E left \in BOOLEAN :
       /\ Discard(left)
       /\ Tell([kind |-> "not_extracted", digest |-> <<>>, left |-> left])

Extraction(kind, left) == [kind |-> kind, digest |-> hashed, left |-> left]

SettleUnwritten ==
  /\ step = "finishing"
  /\ sink \in {"absent", "taken", "unopened"}
  /\ Tell(Extraction(CASE sink = "absent" -> "no_output"
                       [] sink = "taken" -> "exists"
                       [] sink = "unopened" -> "not_created", FALSE))
  /\ UNCHANGED disk

\* settle's Broken arm, and its Open arm when sync_all fails: `removed' is
\* remove_file's is_ok, so a file already gone is not removed.
SettleFailed ==
  /\ step = "finishing"
  /\ sink \in {"open", "broken"}
  /\ \E result \in {"removed", "refused", "not_found"} :
       /\ RemoveFile(result)
       /\ Tell(Extraction("failed", result # "removed"))

Flushed ==
  /\ step = "finishing" /\ sink = "open"
  /\ step' = "reading_back"
  /\ UNCHANGED <<run, output, disk, current, read, hashed, sink, told,
                 not_delivered, not_extracted>>

\* read_back, hashing what the file holds.
ReadBack ==
  /\ step = "reading_back"
  /\ disk[current] # NoFile
  /\ Tell(Extraction(IF disk[current].content = hashed THEN "matches" ELSE "differs", FALSE))
  /\ UNCHANGED disk

\* Seeded fault: waits for the file to be there.
GivesUpIfThere == disk[current] # NoFile

\* The file is gone, or is there and cannot be read.
GivesUp == TRUE

ReadBackFails ==
  /\ step = "reading_back"
  /\ GivesUp
  /\ Tell(Extraction("unverified", FALSE))
  /\ UNCHANGED disk

----------------------------------------------------------------------------
(***************************************************************************)
(* Runs.                                                                   *)
(***************************************************************************)

EndRun ==
  /\ step = "idle" /\ current = Artifacts
  /\ step' = "ended"
  /\ UNCHANGED <<run, output, disk, current, read, hashed, sink, told,
                 not_delivered, not_extracted>>

\* There is no Drop: what the writer had open stays as it is.
Kill ==
  /\ step \notin {"ended", "killed"}
  /\ step' = "killed"
  /\ UNCHANGED <<run, output, disk, current, read, hashed, sink, told,
                 not_delivered, not_extracted>>

\* The operator runs the tool again on the same evidence.
Rerun ==
  /\ step \in {"ended", "killed"} /\ run < MaxRuns
  /\ run' = run + 1
  /\ output' \in BOOLEAN
  /\ step' = "idle"
  /\ current' = 0
  /\ read' = 0
  /\ hashed' = <<>>
  /\ sink' = "absent"
  /\ told' = [a \in Artifact |-> NoFinding]
  /\ not_delivered' = 0
  /\ not_extracted' = 0
  /\ UNCHANGED disk

OthersDelete ==
  /\ \E a \in Artifact :
       disk[a] # NoFile /\ disk' = [disk EXCEPT ![a] = NoFile]
  /\ UNCHANGED <<run, output, step, current, read, hashed, sink, told,
                 not_delivered, not_extracted>>

Finished == step \in {"ended", "killed"} /\ run = MaxRuns /\ UNCHANGED vars

Start ==
  /\ step = "idle"
  /\ current = 0
  /\ read = 0
  /\ hashed = <<>>
  /\ sink = "absent"
  /\ told = [a \in Artifact |-> NoFinding]
  /\ not_delivered = 0
  /\ not_extracted = 0

Init ==
  /\ run = 1
  /\ output \in BOOLEAN
  /\ disk \in [Artifact -> [run : {0}, content : Seq(Nat)] \cup {NoFile}]
  /\ Start

Step ==
  \/ StartArtifact
  \/ ReadCluster
  \/ StreamFails
  \/ SettleUnwritten
  \/ SettleFailed
  \/ Flushed
  \/ ReadBack
  \/ ReadBackFails
  \/ EndRun

Next == Step \/ Kill \/ Rerun \/ OthersDelete \/ Finished

\* One thread, whose calls to the operating system return.  Nothing makes
\* anybody kill the run, start another or delete a file.
Fairness == WF_vars(Step)

Spec == Init /\ [][Next]_vars /\ Fairness

----------------------------------------------------------------------------
(***************************************************************************)
(* Properties.                                                             *)
(***************************************************************************)

Ours(a) == disk[a] # NoFile /\ disk[a].run = run

\* A digest is reported only of every byte the entry declares, in order,
\* whatever the destination did meanwhile: ADR-0015 Decision G.
DigestCoversFile ==
  \A a \in Artifact : told[a].kind \in Extracted => told[a].digest = Whole(a)

\* A file this run made that does not hold the artifact is never passed over:
\* the run said it differs, could not be verified, or was left behind.
NoSilentPartial ==
  \A a \in Artifact :
    told[a].kind # "none" /\ Ours(a) /\ disk[a].content # Whole(a)
      => told[a].kind \in {"differs", "unverified"} \/ told[a].left

\* A run asked for files that counts no gap handed over one of its own for
\* every artifact; a file an earlier run left, whole or cut short by a kill,
\* is not taken for one.
NoGapMeansDelivered ==
  step = "ended" /\ output /\ not_delivered + not_extracted = 0
    => \A a \in Artifact : told[a].kind \in Delivered /\ (Ours(a) \/ disk[a] = NoFile)

\* A run that is not killed comes to its end, whatever fails.
RunEnds == step = "idle" ~> step \in {"ended", "killed"}

\* What the destination and the events amount to, for ArtifactDelivery.
FileOf(a) ==
  CASE disk[a] = NoFile -> "none"
    [] disk[a] # NoFile /\ ~Ours(a) -> "earlier"
    [] Ours(a) /\ told[a].kind = "none" -> "growing"
    [] Ours(a) /\ told[a].kind # "none" /\ disk[a].content = Whole(a) -> "whole"
    [] Ours(a) /\ told[a].kind # "none" /\ disk[a].content # Whole(a) -> "damaged"

WordOf(finding) ==
  CASE finding.kind = "none" -> "nothing"
    [] finding.kind = "matches" -> "delivered"
    [] finding.kind \in {"differs", "unverified"} -> "doubtful"
    [] finding.kind \in Withheld \cup {"no_output", "not_extracted"} ->
         IF finding.left THEN "left" ELSE "withheld"

Delivery == INSTANCE ArtifactDelivery WITH
  file <- [a \in Artifact |-> FileOf(a)],
  told <- [a \in Artifact |-> WordOf(told[a])]

\* What the run says agrees with the destination, and files it did not make
\* stay as they are: ArtifactDelivery's promise.
Delivers == Delivery!Spec

\* extraction.rs: a file already gone is not a failure, nothing is left
\* behind.  main.rs prints `partial file left' where removed is false.
LeftIsThere ==
  [][\A a \in Artifact : told'[a].left /\ ~told[a].left => disk'[a] # NoFile]_vars
=============================================================================
