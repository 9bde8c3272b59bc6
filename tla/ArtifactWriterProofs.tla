------------------------ MODULE ArtifactWriterProofs ------------------------
(***************************************************************************)
(* Theorems about ArtifactWriter, for every listing, any number of runs    *)
(* over a destination, and whatever the destination held before.           *)
(***************************************************************************)
EXTENDS ArtifactWriter, TLAPS

Busy == step \in {"streaming", "finishing", "reading_back"}

----------------------------------------------------------------------------
(***************************************************************************)
(* Types.                                                                  *)
(***************************************************************************)

\* What reaches a file keeps the destination's type, and the run that made
\* each file.
LEMMA StoredType ==
  ASSUME TypeOK, current \in Artifact, NEW blocks \in Seq(Nat)
  PROVE  /\ Stored(blocks) \in [Artifact -> File \cup {NoFile}]
         /\ \A a \in Artifact : /\ a # current => Stored(blocks)[a] = disk[a]
                                /\ Stored(blocks)[a] = NoFile <=> disk[a] = NoFile
                                /\ disk[a] # NoFile => Stored(blocks)[a].run = disk[a].run
<1>1. CASE disk[current] = NoFile
  BY <1>1 DEF Stored, TypeOK
<1>2. CASE disk[current] # NoFile
  <2> DEFINE new == [disk[current] EXCEPT !.content = @ \o blocks]
  <2>1. disk[current] \in File
    BY <1>2 DEF TypeOK
  <2>2. new \in File /\ new.run = disk[current].run
    <3>1. disk[current].content \in Seq(Nat)
      BY <2>1 DEF File
    <3>2. disk[current].content \o blocks \in Seq(Nat)
      BY <3>1
    <3>3. \A c \in Seq(Nat) : /\ [disk[current] EXCEPT !.content = c] \in File
                             /\ [disk[current] EXCEPT !.content = c].run = disk[current].run
      BY <2>1 DEF File
    <3> QED
      BY <3>2, <3>3
  <2>3. Stored(blocks) = [disk EXCEPT ![current] = new]
    BY <1>2 DEF Stored
  <2> HIDE DEF new
  <2>4. new # NoFile
    BY <2>2, ListingAssumption
  <2>5. /\ Stored(blocks) \in [Artifact -> File \cup {NoFile}]
        /\ Stored(blocks)[current] = new
        /\ \A a \in Artifact : a # current => Stored(blocks)[a] = disk[a]
    BY <2>2, <2>3 DEF TypeOK
  <2> QED
    BY <1>2, <2>2, <2>4, <2>5
<1> QED
  BY <1>1, <1>2

\* A removal leaves nothing at the path, or leaves all as it was.
LEMMA RemovalType ==
  ASSUME TypeOK, NEW result, RemoveFile(result)
  PROVE  /\ disk' \in [Artifact -> File \cup {NoFile}]
         /\ \A a \in Artifact : disk'[a] = disk[a] \/ (a = current /\ disk'[a] = NoFile)
         /\ result \in {"removed", "not_found"} /\ current \in Artifact => disk'[current] = NoFile
BY DEF RemoveFile, TypeOK

\* Reporting an artifact is one event of the run and its count.
LEMMA TellType ==
  ASSUME TypeOK, current \in Artifact, NEW f \in Finding, Tell(f)
  PROVE  /\ told' \in [Artifact -> Finding]
         /\ told'[current] = f
         /\ \A a \in Artifact : a # current => told'[a] = told[a]
         /\ not_delivered' \in Nat /\ not_extracted' \in Nat
         /\ step' = "idle"
         /\ UNCHANGED <<run, output, current, read, hashed, sink>>
BY DEF TypeOK, Tell

\* What the writer reports of an artifact is a finding.
LEMMA FindingType ==
  ASSUME TypeOK, NEW kind \in Extracted, NEW left \in BOOLEAN
  PROVE  /\ Extraction(kind, left) \in Finding
         /\ [kind |-> "not_extracted", digest |-> <<>>, left |-> left] \in Finding
BY DEF TypeOK, Extraction, Finding

\* The stream reads on only while a cluster is left.
StreamInside == step = "streaming" => read < Length[current]

\* Every state of the writer is well typed, and the stream never reads past
\* the run, whatever fails.
THEOREM WriterTypeCorrect == Spec => [](TypeOK /\ StreamInside)
<1> USE ListingAssumption
<1> DEFINE Inv == TypeOK /\ StreamInside
<1>1. Init => Inv
  BY DEF Init, Start, TypeOK, StreamInside, File, Finding, NoFinding, Artifact
<1>2. Inv /\ [Next]_vars => Inv'
  <2> SUFFICES ASSUME TypeOK, StreamInside, [Next]_vars PROVE TypeOK' /\ StreamInside'
    OBVIOUS
  <2>1. CASE StartArtifact
    <3>1. current' \in Artifact /\ Length[current'] \in Nat \ {0}
      BY <2>1 DEF StartArtifact, TypeOK, Artifact
    <3>2. disk' \in [Artifact -> File \cup {NoFile}]
      <4>1. NewFile \in File
        BY DEF NewFile, File, TypeOK
      <4> QED
        BY <2>1, <4>1 DEF StartArtifact, OpenSink, TypeOK
    <3>3. sink' \in {"absent", "open", "taken", "unopened", "broken"}
      BY <2>1 DEF StartArtifact, OpenSink
    <3> QED
      BY <2>1, <3>1, <3>2, <3>3 DEF StartArtifact, TypeOK, StreamInside, Artifact
  <2>2. CASE ReadCluster
    <3>1. current \in Artifact /\ read \in Nat /\ read < Length[current] /\ Length[current] \in Nat
      BY <2>2 DEF ReadCluster, TypeOK, StreamInside
    <3>2. hashed' \in Seq(Nat)
      BY <2>2, <3>1 DEF ReadCluster, Push, Hashed, TypeOK
    <3>3. disk' \in [Artifact -> File \cup {NoFile}]
      <4>1. <<read + 1>> \in Seq(Nat) /\ <<Damaged>> \in Seq(Nat)
        BY <3>1 DEF Damaged
      <4>2. Stored(<<read + 1>>) \in [Artifact -> File \cup {NoFile}]
        BY <3>1, <4>1, StoredType
      <4>3. Stored(<<Damaged>>) \in [Artifact -> File \cup {NoFile}]
        BY <3>1, <4>1, StoredType
      <4> QED
        BY <2>2, <4>2, <4>3 DEF ReadCluster, Push, TypeOK
    <3>4. sink' \in {"absent", "open", "taken", "unopened", "broken"}
      BY <2>2 DEF ReadCluster, Push, TypeOK
    <3>5. /\ read' \in 0 .. Length[current]
          /\ step' \in {"streaming", "finishing"}
          /\ step' = "streaming" => read' < Length[current]
      BY <2>2, <3>1 DEF ReadCluster, StreamDone
    <3> QED
      BY <2>2, <3>1, <3>2, <3>3, <3>4, <3>5 DEF ReadCluster, TypeOK, StreamInside
  <2>3. ASSUME Busy, NEW f \in Finding, Tell(f), disk' \in [Artifact -> File \cup {NoFile}]
        PROVE  TypeOK' /\ StreamInside'
    <3>1. current \in Artifact
      BY <2>3 DEF Busy, TypeOK
    <3> QED
      BY <2>3, <3>1, TellType DEF TypeOK, StreamInside
  <2>4. CASE StreamFails
    <3>1. PICK left \in BOOLEAN :
            /\ Discard(left)
            /\ Tell([kind |-> "not_extracted", digest |-> <<>>, left |-> left])
      BY <2>4 DEF StreamFails
    <3>2. disk' \in [Artifact -> File \cup {NoFile}]
      BY <3>1, RemovalType DEF Discard, TypeOK
    <3>3. [kind |-> "not_extracted", digest |-> <<>>, left |-> left] \in Finding
      BY DEF Finding
    <3> QED
      BY <2>3, <2>4, <3>1, <3>2, <3>3 DEF StreamFails, Busy
  <2>5. CASE SettleUnwritten
    <3>1. PICK kind \in Extracted : Tell(Extraction(kind, FALSE))
      BY <2>5 DEF SettleUnwritten, Extracted, Withheld
    <3> QED
      BY <2>3, <2>5, <3>1, FindingType DEF SettleUnwritten, Busy, TypeOK
  <2>6. CASE SettleFailed
    <3>1. PICK result \in {"removed", "refused", "not_found"} :
            RemoveFile(result) /\ Tell(Extraction("failed", result # "removed"))
      BY <2>6 DEF SettleFailed
    <3>2. Extraction("failed", result # "removed") \in Finding
      BY FindingType DEF Extracted, Withheld
    <3> QED
      BY <2>3, <2>6, <3>1, <3>2, RemovalType DEF SettleFailed, Busy
  <2>7. CASE ReadBack \/ ReadBackFails
    <3>1. PICK kind \in Extracted : Tell(Extraction(kind, FALSE))
      BY <2>7 DEF ReadBack, ReadBackFails, Extracted, Delivered
    <3> QED
      BY <2>3, <2>7, <3>1, FindingType DEF ReadBack, ReadBackFails, Busy, TypeOK
  <2>8. CASE Flushed \/ EndRun \/ Kill
    BY <2>8 DEF Flushed, EndRun, Kill, TypeOK, StreamInside
  <2>9. CASE Rerun
    BY <2>9 DEF Rerun, TypeOK, StreamInside, Finding, NoFinding
  <2>10. CASE OthersDelete
    BY <2>10 DEF OthersDelete, TypeOK, StreamInside
  <2>11. CASE UNCHANGED vars
    BY <2>11 DEF vars, TypeOK, StreamInside
  <2> QED
    BY <2>1, <2>2, <2>4, <2>5, <2>6, <2>7, <2>8, <2>9, <2>10, <2>11 DEF Next, Step, Finished
<1> QED
  BY <1>1, <1>2, PTL DEF Spec

----------------------------------------------------------------------------
(***************************************************************************)
(* What is told, and what is on the destination.                           *)
(***************************************************************************)

\* The hasher holds the clusters read, in order, and at the end all of them.
HashedInOrder ==
  Busy => /\ hashed = [i \in 1 .. read |-> i]
          /\ step # "streaming" => read = Length[current]

\* No file is from a run that has not begun.
RunsBegun == \A a \in Artifact : disk[a] # NoFile => disk[a].run <= run

\* Not told yet: the artifact in hand and those after it.
Untold(a) == a > current \/ (Busy /\ a = current)

\* Nothing is told of them, and a file of this run is there only for the
\* artifact in hand, and only when the writer made one.
UntoldClean ==
  \A a \in Artifact : Untold(a) =>
    /\ told[a].kind = "none"
    /\ Ours(a) => a = current /\ LeavesFile

WriterInv == /\ TypeOK /\ StreamInside
             /\ HashedInOrder /\ RunsBegun /\ UntoldClean
             /\ NoSilentPartial /\ DigestCoversFile

\* Telling an artifact keeps the invariant, provided the finding is honest and
\* no other file is touched.
LEMMA TellKeeps ==
  ASSUME WriterInv, Busy, NEW f \in Finding, Tell(f),
         f.kind # "none",
         f.kind \in Extracted => f.digest = Whole(current),
         \A a \in Artifact : disk'[a] = disk[a] \/ (a = current /\ disk'[a] = NoFile),
         Ours(current)' /\ disk'[current].content # Whole(current)
           => f.kind \in {"differs", "unverified"} \/ f.left
  PROVE  HashedInOrder' /\ RunsBegun' /\ UntoldClean' /\ NoSilentPartial' /\ DigestCoversFile'
<1>1. TypeOK /\ current \in Artifact
  BY DEF WriterInv, TypeOK, Busy
<1>2. /\ told'[current] = f
      /\ \A a \in Artifact : a # current => told'[a] = told[a]
      /\ step' = "idle"
      /\ UNCHANGED <<run, current, sink>>
  BY <1>1, TellType
<1>3. HashedInOrder'
  BY <1>2 DEF HashedInOrder, Busy
<1>4. RunsBegun'
  BY <1>2 DEF RunsBegun, WriterInv
<1>5. UntoldClean'
  <2> SUFFICES ASSUME NEW a \in Artifact, a > current
               PROVE  told'[a].kind = "none" /\ ~Ours(a)'
    BY <1>2 DEF UntoldClean, Untold, Busy
  <2>1. a # current /\ told[a].kind = "none" /\ ~Ours(a)
    BY <1>1 DEF WriterInv, UntoldClean, Untold, Artifact
  <2> QED
    BY <1>2, <2>1 DEF Ours
<1>6. NoSilentPartial'
  <2> SUFFICES ASSUME NEW a \in Artifact, told'[a].kind # "none", Ours(a)',
                      disk'[a].content # Whole(a)
               PROVE  told'[a].kind \in {"differs", "unverified"} \/ told'[a].left
    BY DEF NoSilentPartial, Whole
  <2>1. CASE a = current
    BY <1>2, <2>1
  <2>2. CASE a # current
    BY <1>2, <2>2 DEF WriterInv, NoSilentPartial, Ours
  <2> QED
    BY <2>1, <2>2
<1>7. DigestCoversFile'
  <2> SUFFICES ASSUME NEW a \in Artifact, told'[a].kind \in Extracted
               PROVE  told'[a].digest = Whole(a)
    BY DEF DigestCoversFile, Whole
  <2> QED
    BY <1>2 DEF WriterInv, DigestCoversFile
<1> QED
  BY <1>3, <1>4, <1>5, <1>6, <1>7

\* Every run keeps the invariant: files it has spoken of are spoken of
\* truthfully, and the file in hand holds what was pushed while it is open.
LEMMA WriterInvariant == Spec => []WriterInv
<1> USE ListingAssumption
<1>1. Init => HashedInOrder /\ RunsBegun /\ UntoldClean /\ NoSilentPartial /\ DigestCoversFile
  <2> SUFFICES ASSUME Init
               PROVE  HashedInOrder /\ RunsBegun /\ UntoldClean /\ NoSilentPartial /\ DigestCoversFile
    OBVIOUS
  <2>1. \A a \in Artifact : told[a].kind = "none" /\ (disk[a] # NoFile => disk[a].run = 0)
    BY DEF Init, Start, NoFinding
  <2>2. run = 1 /\ step = "idle"
    BY DEF Init, Start
  <2> QED
    BY <2>1, <2>2 DEF HashedInOrder, RunsBegun, UntoldClean, NoSilentPartial, DigestCoversFile,
       Ours, Busy, Extracted, Delivered, Withheld
<1>2. WriterInv /\ [Next]_vars
        => HashedInOrder' /\ RunsBegun' /\ UntoldClean' /\ NoSilentPartial' /\ DigestCoversFile'
  <2> SUFFICES ASSUME WriterInv, [Next]_vars
               PROVE  HashedInOrder' /\ RunsBegun' /\ UntoldClean' /\ NoSilentPartial'
                        /\ DigestCoversFile'
    OBVIOUS
  <2>0. TypeOK /\ StreamInside /\ HashedInOrder /\ RunsBegun /\ UntoldClean
          /\ NoSilentPartial /\ DigestCoversFile
    BY DEF WriterInv
  <2>1. CASE StartArtifact
    <3>1. current \in Nat /\ current' = current + 1 /\ current' \in Artifact
      BY <2>0, <2>1 DEF StartArtifact, TypeOK, Artifact
    <3>2. /\ step' = "streaming" /\ step = "idle" /\ read' = 0 /\ hashed' = <<>>
          /\ UNCHANGED <<run, told>>
      BY <2>1 DEF StartArtifact
    <3>3. \A a \in Artifact : a > current => told[a].kind = "none" /\ ~Ours(a)
      BY <2>0, <3>1 DEF UntoldClean, Untold, LeavesFile, Artifact
    <3>4. \A a \in Artifact :
            \/ disk'[a] = disk[a]
            \/ a = current' /\ disk'[a] = NewFile /\ sink' = "open"
      BY <2>0, <2>1 DEF StartArtifact, OpenSink, TypeOK
    <3>5. HashedInOrder'
      BY <3>2 DEF HashedInOrder
    <3>6. RunsBegun'
      BY <2>0, <3>2, <3>4 DEF RunsBegun, NewFile, TypeOK
    <3>7. UntoldClean'
      <4> SUFFICES ASSUME NEW a \in Artifact, a > current
                   PROVE  told[a].kind = "none" /\ (Ours(a)' => a = current' /\ LeavesFile')
        BY <3>1, <3>2 DEF UntoldClean, Untold, Artifact
      <4> QED
        BY <3>2, <3>3, <3>4 DEF Ours, LeavesFile
    <3>8. NoSilentPartial'
      <4> SUFFICES ASSUME NEW a \in Artifact, told[a].kind # "none", Ours(a)',
                          disk'[a].content # Whole(a)
                   PROVE  told[a].kind \in {"differs", "unverified"} \/ told[a].left
        BY <3>2 DEF NoSilentPartial, Whole
      <4>1. a # current'
        BY <3>1, <3>3
      <4> QED
        BY <2>0, <3>2, <3>4, <4>1 DEF NoSilentPartial, Ours
    <3>9. DigestCoversFile'
      BY <2>0, <3>2 DEF DigestCoversFile, Whole
    <3> QED
      BY <3>5, <3>6, <3>7, <3>8, <3>9
  <2>2. CASE ReadCluster
    <3>1. /\ current \in Artifact /\ read \in Nat /\ Length[current] \in Nat
          /\ read < Length[current] /\ hashed = [i \in 1 .. read |-> i]
      BY <2>0, <2>2 DEF ReadCluster, TypeOK, StreamInside, HashedInOrder, Busy
    <3>2. /\ read' = read + 1 /\ hashed' = Append(hashed, read + 1)
          /\ step = "streaming"
          /\ step' = IF read + 1 = Length[current] THEN "finishing" ELSE "streaming"
          /\ UNCHANGED <<run, current, told>>
      BY <2>2 DEF ReadCluster, Push, Hashed, StreamDone
    <3>3. hashed' = [i \in 1 .. read' |-> i]
      BY <3>1, <3>2
    <3>4. /\ \A a \in Artifact : a # current => disk'[a] = disk[a]
          /\ disk[current] = NoFile <=> disk'[current] = NoFile
          /\ disk[current] # NoFile => disk'[current].run = disk[current].run
      <4>1. <<read + 1>> \in Seq(Nat) /\ <<Damaged>> \in Seq(Nat)
        BY <3>1 DEF Damaged
      <4> QED
        BY <2>0, <2>2, <3>1, <4>1, StoredType DEF ReadCluster, Push
    <3>5. \A a \in Artifact : Ours(a)' <=> Ours(a)
      BY <3>2, <3>4 DEF Ours
    <3>6. LeavesFile' <=> LeavesFile
      BY <2>2 DEF ReadCluster, Push, LeavesFile
    <3>7. \A a \in Artifact : Untold(a)' <=> Untold(a)
      BY <3>2 DEF Untold, Busy
    <3>8. HashedInOrder'
      BY <3>2, <3>3 DEF HashedInOrder
    <3>9. RunsBegun'
      BY <2>0, <3>2, <3>4 DEF RunsBegun
    <3>10. UntoldClean'
      BY <2>0, <3>2, <3>5, <3>6, <3>7 DEF UntoldClean
    <3>11. NoSilentPartial'
      <4> SUFFICES ASSUME NEW a \in Artifact, told[a].kind # "none", Ours(a)',
                          disk'[a].content # Whole(a)
                   PROVE  told[a].kind \in {"differs", "unverified"} \/ told[a].left
        BY <3>2 DEF NoSilentPartial, Whole
      <4>1. told[current].kind = "none"
        BY <2>0, <3>1, <3>2 DEF UntoldClean, Untold, Busy
      <4> QED
        BY <2>0, <3>4, <3>5, <4>1 DEF NoSilentPartial
    <3>12. DigestCoversFile'
      BY <2>0, <3>2 DEF DigestCoversFile, Whole
    <3> QED
      BY <3>8, <3>9, <3>10, <3>11, <3>12
  <2>3. CASE StreamFails
    <3>1. PICK left \in BOOLEAN :
            /\ Discard(left)
            /\ Tell([kind |-> "not_extracted", digest |-> <<>>, left |-> left])
      BY <2>3 DEF StreamFails
    <3>2. Busy /\ current \in Artifact
      BY <2>0, <2>3 DEF StreamFails, Busy, TypeOK
    <3>3. \A a \in Artifact : disk'[a] = disk[a] \/ (a = current /\ disk'[a] = NoFile)
      BY <2>0, <3>1, RemovalType DEF Discard
    <3>4. ~left => ~Ours(current)'
      <4> SUFFICES ASSUME ~left PROVE ~Ours(current)'
        OBVIOUS
      <4>1. CASE LeavesFile
        <5>1. disk'[current] = NoFile /\ current' = current
          <6>1. PICK result \in {"removed", "refused", "not_found"} :
                  RemoveFile(result) /\ left = (result = "refused")
            BY <3>1, <4>1 DEF Discard
          <6> QED
            BY <2>0, <3>1, <3>2, <6>1, RemovalType DEF Tell
        <5> QED
          BY <5>1 DEF Ours
      <4>2. CASE ~LeavesFile
        <5>1. ~Ours(current) /\ disk' = disk
          BY <2>0, <3>1, <3>2, <4>2 DEF UntoldClean, Untold, Discard
        <5> QED
          BY <3>1, <5>1 DEF Ours, Tell
      <4> QED
        BY <4>1, <4>2
    <3> DEFINE f == [kind |-> "not_extracted", digest |-> <<>>, left |-> left]
    <3>5. f \in Finding /\ f.kind = "not_extracted" /\ f.left = left
      BY DEF Finding
    <3>6. "not_extracted" \notin Extracted
      BY DEF Extracted, Delivered, Withheld
    <3> HIDE DEF f
    <3>7. Tell(f)
      BY <3>1 DEF f
    <3> QED
      BY <3>2, <3>3, <3>4, <3>5, <3>6, <3>7, TellKeeps
  <2>4. ASSUME step \in {"finishing", "reading_back"}, NEW kind \in Extracted, NEW left \in BOOLEAN,
               Tell(Extraction(kind, left)),
               \A a \in Artifact : disk'[a] = disk[a] \/ (a = current /\ disk'[a] = NoFile),
               Ours(current)' /\ disk'[current].content # Whole(current)
                 => kind \in {"differs", "unverified"} \/ left
        PROVE  HashedInOrder' /\ RunsBegun' /\ UntoldClean' /\ NoSilentPartial' /\ DigestCoversFile'
    <3> DEFINE f == Extraction(kind, left)
    <3>1. f \in Finding
      BY <2>0, FindingType
    <3>2. f.kind = kind /\ f.left = left /\ f.digest = hashed /\ kind # "none"
      BY DEF Extraction, Extracted, Delivered, Withheld
    <3>3. Busy /\ hashed = Whole(current)
      BY <2>0, <2>4 DEF HashedInOrder, Busy, Whole
    <3>4. Tell(f)
      BY <2>4
    <3> HIDE DEF f
    <3> QED
      BY <2>4, <3>1, <3>2, <3>3, <3>4, TellKeeps
  <2>5. CASE SettleUnwritten
    <3>1. PICK kind \in Extracted : Tell(Extraction(kind, FALSE))
      BY <2>5 DEF SettleUnwritten, Extracted, Withheld
    <3>2. current \in Artifact /\ ~Ours(current) /\ disk' = disk /\ step = "finishing"
      BY <2>0, <2>5 DEF SettleUnwritten, UntoldClean, Untold, Busy, LeavesFile, TypeOK
    <3>3. ~Ours(current)'
      BY <3>1, <3>2 DEF Ours, Tell
    <3> QED
      BY <2>4, <3>1, <3>2, <3>3
  <2>6. CASE SettleFailed
    <3>1. PICK result \in {"removed", "refused", "not_found"} :
            RemoveFile(result) /\ Tell(Extraction("failed", result # "removed"))
      BY <2>6 DEF SettleFailed
    <3>2. current \in Artifact /\ step = "finishing" /\ "failed" \in Extracted
      BY <2>0, <2>6 DEF SettleFailed, TypeOK, Extracted, Withheld
    <3>3. \A a \in Artifact : disk'[a] = disk[a] \/ (a = current /\ disk'[a] = NoFile)
      BY <2>0, <3>1, RemovalType
    <3>4. Ours(current)' => result # "removed"
      <4>1. result = "removed" => disk'[current] = NoFile
        BY <2>0, <3>1, <3>2, RemovalType
      <4>2. current' = current
        BY <3>1 DEF Tell
      <4> QED
        BY <4>1, <4>2 DEF Ours
    <3> DEFINE left == result # "removed"
    <3>5. left \in BOOLEAN /\ Tell(Extraction("failed", left)) /\ (Ours(current)' => left)
      BY <3>1, <3>4
    <3> HIDE DEF left
    <3> QED
      BY <2>4, <3>2, <3>3, <3>5
  <2>7. CASE ReadBack
    <3>1. disk' = disk /\ current \in Artifact /\ hashed = Whole(current)
      BY <2>0, <2>7 DEF ReadBack, TypeOK, HashedInOrder, Busy, Whole
    <3> DEFINE kind == IF disk[current].content = hashed THEN "matches" ELSE "differs"
    <3>2. kind \in Extracted /\ (disk'[current].content # Whole(current) => kind = "differs")
      BY <3>1 DEF Extracted, Delivered
    <3>3. Tell(Extraction(kind, FALSE))
      BY <2>7 DEF ReadBack
    <3> HIDE DEF kind
    <3> QED
      BY <2>4, <2>7, <3>1, <3>2, <3>3 DEF ReadBack
  <2>8. CASE ReadBackFails
    <3>1. disk' = disk /\ "unverified" \in Extracted
      BY <2>8 DEF ReadBackFails, Extracted, Delivered
    <3> QED
      BY <2>4, <2>8, <3>1 DEF ReadBackFails
  <2>9. CASE Flushed \/ EndRun \/ Kill
    <3>1. UNCHANGED <<run, disk, current, read, hashed, sink, told>>
      BY <2>9 DEF Flushed, EndRun, Kill
    <3>2. (Busy' => Busy) /\ (Busy' => step' # "streaming" /\ step = "finishing")
      BY <2>9 DEF Flushed, EndRun, Kill, Busy
    <3>3. HashedInOrder' /\ RunsBegun' /\ NoSilentPartial' /\ DigestCoversFile'
      BY <2>0, <3>1, <3>2 DEF HashedInOrder, RunsBegun, NoSilentPartial, DigestCoversFile, Ours,
         Whole
    <3>4. UntoldClean'
      BY <2>0, <3>1, <3>2 DEF UntoldClean, Untold, Ours, LeavesFile
    <3> QED
      BY <3>3, <3>4
  <2>10. CASE Rerun
    <3>1. /\ run' = run + 1 /\ disk' = disk /\ step' = "idle"
          /\ \A a \in Artifact : told'[a].kind = "none"
      BY <2>10 DEF Rerun, NoFinding
    <3>2. \A a \in Artifact : disk[a] # NoFile => disk[a].run \in Nat /\ disk[a].run < run + 1
      BY <2>0 DEF RunsBegun, TypeOK, File
    <3>3. \A a \in Artifact : ~Ours(a)'
      BY <2>0, <3>1, <3>2 DEF Ours, TypeOK
    <3>4. RunsBegun'
      BY <2>0, <3>1, <3>2 DEF RunsBegun, TypeOK
    <3> QED
      BY <3>1, <3>3, <3>4 DEF HashedInOrder, Busy, UntoldClean, NoSilentPartial, DigestCoversFile,
         Extracted, Delivered, Withheld
  <2>11. CASE OthersDelete
    <3>1. \A a \in Artifact : disk'[a] = disk[a] \/ disk'[a] = NoFile
      BY <2>0, <2>11 DEF OthersDelete, TypeOK
    <3>2. UNCHANGED <<run, step, current, read, hashed, sink, told>>
      BY <2>11 DEF OthersDelete
    <3>3. \A a \in Artifact : Ours(a)' => Ours(a) /\ disk'[a] = disk[a]
      BY <3>1, <3>2 DEF Ours
    <3>4. HashedInOrder' /\ RunsBegun' /\ DigestCoversFile'
      BY <2>0, <3>1, <3>2 DEF HashedInOrder, Busy, RunsBegun, DigestCoversFile, Whole
    <3>5. UntoldClean'
      BY <2>0, <3>2, <3>3 DEF UntoldClean, Untold, Busy, LeavesFile
    <3>6. NoSilentPartial'
      BY <2>0, <3>2, <3>3 DEF NoSilentPartial, Whole
    <3> QED
      BY <3>4, <3>5, <3>6
  <2>12. CASE UNCHANGED vars
    BY <2>0, <2>12 DEF vars, HashedInOrder, Busy, RunsBegun, UntoldClean, Untold, LeavesFile, Ours,
       NoSilentPartial, DigestCoversFile, Whole
  <2> QED
    BY <2>1, <2>2, <2>3, <2>5, <2>6, <2>7, <2>8, <2>9, <2>10, <2>11, <2>12
      DEF Next, Step, Finished
<1> QED
  BY <1>1, <1>2, WriterTypeCorrect, PTL DEF Spec, WriterInv

\* The run's own files are told of truthfully, for any listing and any number
\* of runs: no partial file is left without a word.
THEOREM WriterHonest == Spec => []NoSilentPartial
<1>1. WriterInv => NoSilentPartial
  BY DEF WriterInv
<1> QED
  BY <1>1, WriterInvariant, PTL

\* A digest that is reported is of the bytes in the file, the fill after a
\* failed read included, for any listing and any number of runs.
THEOREM DigestCorrect == Spec => []DigestCoversFile
<1>1. WriterInv => DigestCoversFile
  BY DEF WriterInv
<1> QED
  BY <1>1, WriterInvariant, PTL

----------------------------------------------------------------------------
(***************************************************************************)
(* Every artifact is accounted for.                                        *)
(***************************************************************************)

\* Only a kill leaves an artifact that was taken up without a word.
ToldInOrder ==
  /\ step # "killed" => \A a \in Artifact : ~Untold(a) => told[a].kind # "none"
  /\ step = "ended" => current = Artifacts

\* The file the writer has open is of this run, unless somebody deleted it.
OpenIsOurs ==
  Busy => /\ LeavesFile => Ours(current) \/ disk[current] = NoFile
          /\ step = "reading_back" => sink = "open"
          /\ sink = "absent" => ~output

\* A run asked for files says of none that it was not asked.
OutputAsked == output => \A a \in Artifact : told[a].kind # "no_output"

\* A count of zero is a finding that never occurred.
CountsHold ==
  /\ not_delivered = 0 => \A a \in Artifact : told[a].kind \notin Withheld
  /\ not_extracted = 0 => \A a \in Artifact : told[a].kind # "not_extracted"

\* What is delivered is this run's, and stays so until somebody deletes it.
DeliveredOurs ==
  \A a \in Artifact : told[a].kind \in Delivered => Ours(a) \/ disk[a] = NoFile

AccountInv == ToldInOrder /\ OpenIsOurs /\ OutputAsked /\ CountsHold /\ DeliveredOurs

\* Telling an artifact keeps the account.
LEMMA TellAccounts ==
  ASSUME WriterInv, AccountInv, Busy, NEW f \in Finding, Tell(f),
         f.kind # "none",
         output => f.kind # "no_output",
         f.kind \in Delivered => LeavesFile,
         \A a \in Artifact : disk'[a] = disk[a] \/ (a = current /\ disk'[a] = NoFile)
  PROVE  AccountInv'
<1>1. TypeOK /\ current \in Artifact /\ not_delivered \in Nat /\ not_extracted \in Nat
  BY DEF WriterInv, TypeOK, Busy
<1>2. /\ told'[current] = f
      /\ \A a \in Artifact : a # current => told'[a] = told[a]
      /\ step' = "idle"
      /\ UNCHANGED <<run, output, current, read, hashed, sink>>
  BY <1>1, TellType
<1>3. ToldInOrder'
  <2> SUFFICES ASSUME NEW a \in Artifact, ~(a > current) PROVE told'[a].kind # "none"
    BY <1>2 DEF ToldInOrder, Untold, Busy
  <2>1. a # current => ~Untold(a) /\ step # "killed"
    BY DEF Untold, Busy
  <2> QED
    BY <1>2, <2>1 DEF AccountInv, ToldInOrder
<1>4. OpenIsOurs'
  BY <1>2 DEF OpenIsOurs, Busy
<1>5. OutputAsked'
  BY <1>2 DEF AccountInv, OutputAsked
<1>6. CountsHold'
  <2>1. /\ not_delivered' = 0 => not_delivered = 0 /\ f.kind \notin Withheld
        /\ not_extracted' = 0 => not_extracted = 0 /\ f.kind # "not_extracted"
    BY <1>1 DEF Tell, Undelivered
  <2> QED
    BY <1>2, <2>1 DEF AccountInv, CountsHold
<1>7. DeliveredOurs'
  <2> SUFFICES ASSUME NEW a \in Artifact, told'[a].kind \in Delivered
               PROVE  Ours(a)' \/ disk'[a] = NoFile
    BY DEF DeliveredOurs
  <2>1. CASE a = current
    <3>1. Ours(a) \/ disk[a] = NoFile
      BY <1>2, <2>1 DEF AccountInv, OpenIsOurs
    <3> QED
      BY <1>2, <3>1 DEF Ours
  <2>2. CASE a # current
    BY <1>2, <2>2 DEF AccountInv, DeliveredOurs, Ours
  <2> QED
    BY <2>1, <2>2
<1> QED
  BY <1>3, <1>4, <1>5, <1>6, <1>7 DEF AccountInv

\* Before the first artifact there is nothing to account for.
LEMMA AccountInit == Init => AccountInv
<1> SUFFICES ASSUME Init PROVE AccountInv
  OBVIOUS
<1>1. step = "idle" /\ current = 0 /\ \A a \in Artifact : told[a].kind = "none"
  BY DEF Init, Start, NoFinding
<1>2. \A a \in Artifact : Untold(a)
  BY <1>1, ListingAssumption DEF Untold, Artifact
<1> QED
  BY <1>1, <1>2 DEF AccountInv, ToldInOrder, OpenIsOurs, OutputAsked, CountsHold, DeliveredOurs,
     Busy, Withheld, Delivered

\* Every step of any run keeps the account of what was told and counted.
LEMMA AccountStep ==
  ASSUME WriterInv, AccountInv, [Next]_vars
  PROVE  AccountInv'
<1> USE ListingAssumption
<1>0. TypeOK /\ ToldInOrder /\ OpenIsOurs /\ OutputAsked /\ CountsHold /\ DeliveredOurs
  BY DEF WriterInv, AccountInv
<1>1. CASE StartArtifact
  <2>1. /\ step = "idle" /\ step' = "streaming" /\ current' = current + 1 /\ current \in Nat
        /\ current' \in Artifact
        /\ UNCHANGED <<run, output, told, not_delivered, not_extracted>>
    BY <1>0, <1>1 DEF StartArtifact, TypeOK, Artifact
  <2>2. \A a \in Artifact : disk'[a] = disk[a] \/ (a = current' /\ disk'[a] = NewFile)
    BY <1>0, <1>1 DEF StartArtifact, OpenSink, TypeOK
  <2>3. /\ sink' = "open" => disk'[current'] = NewFile
        /\ sink' = "absent" => ~output
        /\ sink' # "broken"
    BY <1>0, <1>1, <2>1 DEF StartArtifact, OpenSink, TypeOK
  <2>4. ToldInOrder'
    BY <1>0, <2>1 DEF ToldInOrder, Untold, Busy, Artifact
  <2>5. OpenIsOurs'
    BY <2>1, <2>3 DEF OpenIsOurs, LeavesFile, Ours, NewFile
  <2>6. OutputAsked' /\ CountsHold'
    BY <1>0, <2>1 DEF OutputAsked, CountsHold
  <2>7. DeliveredOurs'
    <3> SUFFICES ASSUME NEW a \in Artifact, told[a].kind \in Delivered
                 PROVE  Ours(a)' \/ disk'[a] = NoFile
      BY <2>1 DEF DeliveredOurs
    <3>1. Ours(a) \/ disk[a] = NoFile
      BY <1>0 DEF DeliveredOurs
    <3>2. CASE disk'[a] = disk[a]
      BY <2>1, <3>1, <3>2 DEF Ours
    <3>3. CASE disk'[a] = NewFile
      BY <2>1, <3>3 DEF Ours, NewFile
    <3> QED
      BY <2>2, <3>2, <3>3
  <2> QED
    BY <2>4, <2>5, <2>6, <2>7 DEF AccountInv
<1>2. CASE ReadCluster
  <2>1. /\ step = "streaming" /\ step' \in {"streaming", "finishing"}
        /\ current \in Artifact
        /\ UNCHANGED <<run, output, current, told, not_delivered, not_extracted>>
    BY <1>0, <1>2 DEF ReadCluster, TypeOK
  <2>2. /\ LeavesFile' => LeavesFile
        /\ sink' = "absent" => sink = "absent"
    BY <1>2 DEF ReadCluster, Push, LeavesFile
  <2>3. \A a \in Artifact : /\ disk[a] = NoFile <=> disk'[a] = NoFile
                            /\ disk[a] # NoFile => disk'[a].run = disk[a].run
    <3>1. <<read + 1>> \in Seq(Nat) /\ <<Damaged>> \in Seq(Nat)
      BY <1>0, <2>1 DEF Damaged, TypeOK
    <3> QED
      BY <1>0, <1>2, <2>1, <3>1, StoredType DEF ReadCluster, Push
  <2>4. ToldInOrder' /\ OutputAsked' /\ CountsHold'
    BY <1>0, <2>1 DEF ToldInOrder, Untold, Busy, OutputAsked, CountsHold
  <2>5. OpenIsOurs' /\ DeliveredOurs'
    BY <1>0, <2>1, <2>2, <2>3 DEF OpenIsOurs, DeliveredOurs, Busy, Ours
  <2> QED
    BY <2>4, <2>5 DEF AccountInv
<1>3. CASE StreamFails
  <2>1. PICK left \in BOOLEAN :
          /\ Discard(left)
          /\ Tell([kind |-> "not_extracted", digest |-> <<>>, left |-> left])
    BY <1>3 DEF StreamFails
  <2>2. \A a \in Artifact : disk'[a] = disk[a] \/ (a = current /\ disk'[a] = NoFile)
    BY <1>0, <2>1, RemovalType DEF Discard
  <2> DEFINE f == [kind |-> "not_extracted", digest |-> <<>>, left |-> left]
  <2>3. f \in Finding /\ f.kind = "not_extracted" /\ f.kind \notin Delivered
    BY DEF Finding, Delivered
  <2> HIDE DEF f
  <2>4. Tell(f) /\ Busy
    BY <1>3, <2>1 DEF f, StreamFails, Busy
  <2> QED
    BY <2>2, <2>3, <2>4, TellAccounts
<1>4. ASSUME step \in {"finishing", "reading_back"}, NEW kind \in Extracted, NEW left \in BOOLEAN,
             Tell(Extraction(kind, left)),
             output => kind # "no_output",
             kind \in Delivered => LeavesFile,
             \A a \in Artifact : disk'[a] = disk[a] \/ (a = current /\ disk'[a] = NoFile)
      PROVE  AccountInv'
  <2> DEFINE f == Extraction(kind, left)
  <2>1. f \in Finding
    BY <1>0, FindingType
  <2>2. f.kind = kind /\ kind # "none"
    BY DEF Extraction, Extracted, Delivered, Withheld
  <2>3. Tell(f) /\ Busy
    BY <1>4 DEF Busy
  <2> HIDE DEF f
  <2> QED
    BY <1>4, <2>1, <2>2, <2>3, TellAccounts
<1>5. CASE SettleUnwritten
  <2> DEFINE kind == CASE sink = "absent" -> "no_output"
                       [] sink = "taken" -> "exists"
                       [] sink = "unopened" -> "not_created"
  <2>1. /\ kind \in Extracted /\ kind \notin Delivered
        /\ kind = "no_output" => sink = "absent"
    BY <1>5 DEF SettleUnwritten, Extracted, Delivered, Withheld
  <2>2. Tell(Extraction(kind, FALSE)) /\ disk' = disk /\ step = "finishing"
    BY <1>5 DEF SettleUnwritten
  <2> HIDE DEF kind
  <2>3. output => kind # "no_output"
    BY <1>0, <2>1, <2>2 DEF OpenIsOurs, Busy
  <2> QED
    BY <1>4, <2>1, <2>2, <2>3
<1>6. CASE SettleFailed
  <2>1. PICK result \in {"removed", "refused", "not_found"} :
          RemoveFile(result) /\ Tell(Extraction("failed", result # "removed"))
    BY <1>6 DEF SettleFailed
  <2>2. \A a \in Artifact : disk'[a] = disk[a] \/ (a = current /\ disk'[a] = NoFile)
    BY <1>0, <2>1, RemovalType
  <2> DEFINE left == result # "removed"
  <2>3. left \in BOOLEAN /\ Tell(Extraction("failed", left))
    BY <2>1
  <2> HIDE DEF left
  <2> QED
    BY <1>4, <1>6, <2>2, <2>3 DEF SettleFailed, Extracted, Withheld, Delivered
<1>7. CASE ReadBack \/ ReadBackFails
  <2>1. PICK kind \in Delivered : Tell(Extraction(kind, FALSE))
    BY <1>7 DEF ReadBack, ReadBackFails, Delivered
  <2>2. kind \in Extracted /\ kind # "no_output"
    BY DEF Extracted, Delivered
  <2>3. LeavesFile /\ disk' = disk /\ step = "reading_back"
    BY <1>0, <1>7 DEF ReadBack, ReadBackFails, OpenIsOurs, Busy, LeavesFile
  <2> QED
    BY <1>4, <2>1, <2>2, <2>3
<1>8. CASE Flushed \/ EndRun \/ Kill
  <2>1. UNCHANGED <<run, output, disk, current, read, hashed, sink, told, not_delivered,
                    not_extracted>>
    BY <1>8 DEF Flushed, EndRun, Kill
  <2>2. /\ step' = "killed" \/ (Busy' <=> Busy)
        /\ step' # "killed" => step # "killed"
        /\ step' = "ended" => current = Artifacts
        /\ step' = "reading_back" => sink = "open"
    BY <1>8 DEF Flushed, EndRun, Kill, Busy
  <2>3. ToldInOrder'
    BY <1>0, <2>1, <2>2 DEF ToldInOrder, Untold
  <2>4. OpenIsOurs'
    <3>1. Busy' => Busy
      BY <2>2 DEF Busy
    <3> QED
      BY <1>0, <2>1, <2>2, <3>1 DEF OpenIsOurs, LeavesFile, Ours
  <2>5. OutputAsked' /\ CountsHold' /\ DeliveredOurs'
    BY <1>0, <2>1 DEF OutputAsked, CountsHold, DeliveredOurs, Ours
  <2> QED
    BY <2>3, <2>4, <2>5 DEF AccountInv
<1>9. CASE Rerun
  <2>1. /\ step' = "idle" /\ current' = 0
        /\ \A a \in Artifact : told'[a].kind = "none"
    BY <1>9 DEF Rerun, NoFinding
  <2>2. \A a \in Artifact : Untold(a)'
    BY <2>1 DEF Untold, Artifact
  <2> QED
    BY <2>1, <2>2 DEF AccountInv, ToldInOrder, OpenIsOurs, OutputAsked, CountsHold, DeliveredOurs,
       Busy, Withheld, Delivered
<1>10. CASE OthersDelete
  <2>1. \A a \in Artifact : disk'[a] = disk[a] \/ disk'[a] = NoFile
    BY <1>0, <1>10 DEF OthersDelete, TypeOK
  <2>2. UNCHANGED <<run, output, step, current, read, hashed, sink, told, not_delivered,
                    not_extracted>>
    BY <1>10 DEF OthersDelete
  <2>3. ToldInOrder' /\ OutputAsked' /\ CountsHold'
    BY <1>0, <2>2 DEF ToldInOrder, Untold, Busy, OutputAsked, CountsHold
  <2>4. OpenIsOurs'
    <3>1. Busy => current \in Artifact
      BY <1>0 DEF Busy, TypeOK
    <3> QED
      BY <1>0, <2>1, <2>2, <3>1 DEF OpenIsOurs, Busy, LeavesFile, Ours
  <2>5. DeliveredOurs'
    BY <1>0, <2>1, <2>2 DEF DeliveredOurs, Ours
  <2> QED
    BY <2>3, <2>4, <2>5 DEF AccountInv
<1>11. CASE UNCHANGED vars
  BY <1>0, <1>11 DEF vars, AccountInv, ToldInOrder, OpenIsOurs, OutputAsked, CountsHold,
     DeliveredOurs, Untold, Busy, LeavesFile, Ours
<1> QED
  BY <1>1, <1>2, <1>3, <1>5, <1>6, <1>7, <1>8, <1>9, <1>10, <1>11 DEF Next, Step, Finished

\* The whole account, and with it the invariants it rests on.
LEMMA WriterAccounts == Spec => [](WriterInv /\ AccountInv)
<1>1. Init => AccountInv
  BY AccountInit
<1>2. WriterInv /\ AccountInv /\ [Next]_vars => AccountInv'
  BY AccountStep
<1> QED
  BY <1>1, <1>2, WriterInvariant, PTL DEF Spec

\* A run asked for files that counts no gap delivered every one, for any
\* listing and after any number of killed or failed runs.
THEOREM NoGapCorrect == Spec => []NoGapMeansDelivered
<1>1. WriterInv /\ AccountInv => NoGapMeansDelivered
  <2> SUFFICES ASSUME WriterInv, AccountInv, step = "ended", output,
                      not_delivered + not_extracted = 0, NEW a \in Artifact
               PROVE  told[a].kind \in Delivered /\ (Ours(a) \/ disk[a] = NoFile)
    BY DEF NoGapMeansDelivered
  <2>1. not_delivered = 0 /\ not_extracted = 0
    BY DEF WriterInv, TypeOK
  <2>2. told[a].kind # "none"
    <3>1. ~Untold(a)
      BY ListingAssumption DEF AccountInv, ToldInOrder, Untold, Busy, Artifact
    <3> QED
      BY <3>1 DEF AccountInv, ToldInOrder
  <2>3. told[a] \in Finding
    BY DEF WriterInv, TypeOK
  <2>4. told[a].kind \in Delivered
    BY <2>1, <2>2, <2>3 DEF AccountInv, OutputAsked, CountsHold, Finding, Extracted
  <2> QED
    BY <2>4 DEF AccountInv, DeliveredOurs
<1> QED
  BY <1>1, WriterAccounts, PTL

----------------------------------------------------------------------------
(***************************************************************************)
(* The writer delivers what ArtifactDelivery promises.                     *)
(***************************************************************************)

\* The mapping, case by case, before a step and after it.
LEMMA FileOfIs ==
  ASSUME NEW a \in Artifact
  PROVE  /\ disk[a] = NoFile => FileOf(a) = "none"
         /\ disk[a] # NoFile /\ ~Ours(a) => FileOf(a) = "earlier"
         /\ Ours(a) /\ told[a].kind = "none" => FileOf(a) = "growing"
         /\ Ours(a) /\ told[a].kind # "none" =>
              /\ FileOf(a) \in {"whole", "damaged"}
              /\ disk[a].content = Whole(a) => FileOf(a) = "whole"
         /\ FileOf(a) = "growing" => Ours(a) /\ told[a].kind = "none"
BY DEF FileOf, Ours

\* The same mapping read after a step.
LEMMA FileOfNext ==
  ASSUME NEW a \in Artifact
  PROVE  /\ disk'[a] = NoFile => FileOf(a)' = "none"
         /\ disk'[a] # NoFile /\ disk'[a].run # run' => FileOf(a)' = "earlier"
         /\ disk'[a] # NoFile /\ disk'[a].run = run' /\ told'[a].kind = "none"
              => FileOf(a)' = "growing"
         /\ disk'[a] # NoFile /\ disk'[a].run = run' /\ told'[a].kind # "none" =>
              /\ FileOf(a)' \in {"whole", "damaged"}
              /\ disk'[a].content = Whole(a) => FileOf(a)' = "whole"
BY DEF FileOf, Ours, Whole

\* An artifact no step touches stays what it is.
LEMMA FileOfKept ==
  ASSUME NEW a \in Artifact, disk'[a] = disk[a], run' = run, told'[a] = told[a]
  PROVE  FileOf(a)' = FileOf(a)
BY DEF FileOf, Ours, Whole

\* A finding's word, for each kind of finding.
LEMMA WordOfIs ==
  ASSUME NEW f \in Finding
  PROVE  /\ f.kind = "none" => WordOf(f) = "nothing"
         /\ f.kind = "matches" => WordOf(f) = "delivered"
         /\ f.kind \in {"differs", "unverified"} => WordOf(f) = "doubtful"
         /\ f.kind \in Withheld \cup {"no_output", "not_extracted"} =>
              WordOf(f) = IF f.left THEN "left" ELSE "withheld"
BY DEF WordOf, Withheld

\* Telling an artifact is ArtifactDelivery's Tell, once the file's two states
\* are ones the word allows.
LEMMA TellMaps ==
  ASSUME WriterInv, Busy, NEW f \in Finding, f.kind # "none", Tell(f),
         NEW c \in Artifact, c = current,
         \A a \in Artifact : a # c => disk'[a] = disk[a],
         FileOf(c)' \in Delivery!Outcome(FileOf(c), WordOf(f))
  PROVE  Delivery!Next
<1> DEFINE file == [a \in Artifact |-> FileOf(a)]
           word == [a \in Artifact |-> WordOf(told[a])]
<1>1. /\ told'[c] = f
      /\ \A a \in Artifact : a # c => told'[a] = told[a]
      /\ run' = run
  BY TellType DEF WriterInv
<1>2. told[c].kind = "none" /\ told[c] \in Finding
  BY DEF WriterInv, TypeOK, UntoldClean, Untold
<1>3. /\ WordOf(told[c]) = "nothing"
      /\ WordOf(f) \in {"delivered", "doubtful", "withheld", "left"}
  <2>1. f.kind \in {"matches", "differs", "unverified"} \cup Withheld
                     \cup {"no_output", "not_extracted"}
    BY DEF Finding, Extracted, Delivered
  <2> QED
    BY <1>2, <2>1, WordOfIs
<1>4. file' = [file EXCEPT ![c] = FileOf(c)']
  <2>1. \A a \in Artifact : a # c => FileOf(a)' = FileOf(a)
    BY <1>1, FileOfKept
  <2> QED
    BY <2>1
<1>5. word' = [word EXCEPT ![c] = WordOf(f)]
  BY <1>1
<1>6. Delivery!Tell(c, WordOf(f))
  BY <1>3, <1>4, <1>5 DEF Delivery!Tell
<1> QED
  BY <1>3, <1>6 DEF Delivery!Next, Delivery!Word

\* What the run says agrees with the destination, and files it did not make
\* stay as they are, for any listing, number of runs and pattern of failures.
THEOREM WriterDelivers == Spec => Delivers
<1> USE ListingAssumption
<1> DEFINE file == [a \in Artifact |-> FileOf(a)]
           word == [a \in Artifact |-> WordOf(told[a])]
<1>1. Init => Delivery!Init
  <2> SUFFICES ASSUME Init PROVE Delivery!Init
    OBVIOUS
  <2>1. \A a \in Artifact : /\ disk[a] # NoFile => ~Ours(a)
                            /\ told[a] = NoFinding
    BY DEF Init, Start, Ours
  <2>2. \A a \in Artifact : FileOf(a) \in {"none", "earlier"}
    BY <2>1, FileOfIs
  <2>3. \A a \in Artifact : WordOf(told[a]) = "nothing"
    BY <2>1 DEF WordOf, NoFinding, Withheld
  <2>4. file \in [Artifact -> {"none", "earlier"}] /\ word = [a \in Artifact |-> "nothing"]
    BY <2>2, <2>3
  <2> QED
    BY <2>4 DEF Delivery!Init
<1>2. WriterInv /\ AccountInv /\ [Next]_vars => [Delivery!Next]_Delivery!vars
  <2> SUFFICES ASSUME WriterInv, AccountInv, [Next]_vars
               PROVE  Delivery!Next \/ UNCHANGED Delivery!vars
    OBVIOUS
  <2>0. TypeOK /\ UntoldClean
    BY DEF WriterInv
  <2>1. ASSUME \A a \in Artifact : FileOf(a)' = FileOf(a), told' = told
        PROVE  UNCHANGED Delivery!vars
    BY <2>1 DEF Delivery!vars
  <2>2. CASE StartArtifact
    <3>1. PICK c \in Artifact : c = current + 1
      BY <2>0, <2>2 DEF StartArtifact, TypeOK, Artifact
    <3>2. step = "idle" /\ run' = run /\ told' = told /\ current \in Nat
      BY <2>0, <2>2 DEF StartArtifact, TypeOK
    <3>3. \A a \in Artifact : a # c => FileOf(a)' = FileOf(a)
      BY <2>0, <2>2, <3>1, <3>2, FileOfKept DEF StartArtifact, OpenSink, TypeOK
    <3>4. CASE disk' = disk
      BY <2>1, <3>2, <3>4, FileOfKept
    <3>5. CASE disk[c] = NoFile /\ disk' = [disk EXCEPT ![c] = NewFile]
      <4>1. told[c] \in Finding /\ told[c].kind = "none"
        BY <2>0, <3>1, <3>2 DEF TypeOK, UntoldClean, Untold
      <4>2. FileOf(c) = "none" /\ WordOf(told[c]) = "nothing"
        BY <3>5, <4>1, FileOfIs, WordOfIs
      <4>3. FileOf(c)' = "growing"
        <5>1. disk'[c] = NewFile /\ NewFile \in File /\ NewFile.run = run
          BY <2>0, <3>5 DEF TypeOK, NewFile, File
        <5> QED
          BY <3>2, <4>1, <5>1, FileOfNext
      <4>4. \A b \in Artifact : FileOf(b) # "growing"
        <5> SUFFICES ASSUME NEW b \in Artifact, Ours(b), told[b].kind = "none" PROVE FALSE
          BY FileOfIs
        <5>1. Untold(b)
          BY <3>2 DEF AccountInv, ToldInOrder
        <5> QED
          BY <2>0, <3>2, <5>1 DEF UntoldClean, Untold, Busy, Artifact
      <4>5. file' = [file EXCEPT ![c] = "growing"]
        BY <3>3, <4>3
      <4>6. Delivery!Create(c)
        BY <3>2, <4>2, <4>4, <4>5 DEF Delivery!Create
      <4> QED
        BY <4>6 DEF Delivery!Next
    <3> QED
      BY <2>2, <3>1, <3>4, <3>5 DEF StartArtifact, OpenSink
  <2>3. CASE ReadCluster
    <3>1. current \in Artifact /\ step = "streaming" /\ run' = run /\ told' = told
      BY <2>0, <2>3 DEF ReadCluster, TypeOK
    <3>2. \A a \in Artifact : /\ a # current => disk'[a] = disk[a]
                              /\ disk[a] = NoFile <=> disk'[a] = NoFile
                              /\ disk[a] # NoFile => disk'[a].run = disk[a].run
      <4>1. <<read + 1>> \in Seq(Nat) /\ <<Damaged>> \in Seq(Nat)
        BY <2>0, <3>1 DEF Damaged, TypeOK
      <4> QED
        BY <2>0, <2>3, <3>1, <4>1, StoredType DEF ReadCluster, Push
    <3>3. told[current].kind = "none"
      BY <2>0, <3>1 DEF UntoldClean, Untold, Busy
    <3>4. \A a \in Artifact : FileOf(a)' = FileOf(a)
      <4> SUFFICES ASSUME NEW a \in Artifact PROVE FileOf(a)' = FileOf(a)
        OBVIOUS
      <4>1. CASE a # current
        BY <3>1, <3>2, <4>1, FileOfKept
      <4>2. CASE a = current
        BY <3>1, <3>2, <3>3, <4>2, FileOfIs, FileOfNext DEF Ours
      <4> QED
        BY <4>1, <4>2
    <3> QED
      BY <2>1, <3>1, <3>4
  <2>4. ASSUME Busy, NEW c \in Artifact, c = current
        PROVE  /\ disk[c] # NoFile /\ LeavesFile => FileOf(c) = "growing"
               /\ disk[c] # NoFile /\ ~LeavesFile => FileOf(c) = "earlier"
               /\ disk[c] = NoFile => FileOf(c) = "none"
    <3>1. told[c].kind = "none" /\ (Ours(c) => LeavesFile)
      BY <2>0, <2>4 DEF UntoldClean, Untold
    <3>2. LeavesFile => Ours(c) \/ disk[c] = NoFile
      BY <2>4 DEF AccountInv, OpenIsOurs
    <3> QED
      BY <2>4, <3>1, <3>2, FileOfIs
  <2>5. ASSUME Busy, NEW c \in Artifact, c = current, NEW f \in Finding, Tell(f),
               f.kind \in Withheld \cup {"no_output", "not_extracted"}, ~f.left,
               \/ disk'[c] = NoFile
               \/ ~LeavesFile /\ disk'[c] = disk[c],
               \A a \in Artifact : a # c => disk'[a] = disk[a],
               disk[c] = NoFile => disk'[c] = NoFile,
               ~LeavesFile => disk'[c] = disk[c]
        PROVE  Delivery!Next
    <3>1. WordOf(f) = "withheld" /\ f.kind # "none"
      BY <2>5, WordOfIs DEF Withheld
    <3>2. told'[c] = f /\ run' = run
      BY <2>0, <2>5, TellType
    <3>3. FileOf(c)' = IF disk'[c] = NoFile THEN "none" ELSE "earlier"
      <4>1. disk'[c] # NoFile => ~Ours(c) /\ disk'[c] = disk[c]
        BY <2>0, <2>5 DEF UntoldClean, Untold
      <4> QED
        BY <3>2, <4>1, FileOfNext DEF Ours
    <3>4. FileOf(c)' \in Delivery!Outcome(FileOf(c), "withheld")
      BY <2>4, <2>5, <3>3 DEF Delivery!Outcome
    <3> QED
      BY <2>5, <3>1, <3>4, TellMaps
  <2>6. ASSUME Busy, NEW c \in Artifact, c = current, NEW f \in Finding, Tell(f),
               f.kind \in Withheld \cup {"no_output", "not_extracted"}, f.left,
               LeavesFile, disk' = disk
        PROVE  Delivery!Next
    <3>1. WordOf(f) = "left" /\ f.kind # "none"
      BY <2>6, WordOfIs DEF Withheld
    <3>2. told'[c] = f /\ run' = run
      BY <2>0, <2>6, TellType
    <3>3. IF disk[c] = NoFile THEN FileOf(c)' = "none" ELSE FileOf(c)' \in {"whole", "damaged"}
      <4>1. disk[c] # NoFile => disk[c].run = run
        BY <2>6 DEF AccountInv, OpenIsOurs, Ours
      <4> QED
        BY <2>6, <3>1, <3>2, <4>1, FileOfNext
    <3>4. FileOf(c)' \in Delivery!Outcome(FileOf(c), "left")
      BY <2>4, <2>6, <3>3 DEF Delivery!Outcome
    <3> QED
      BY <2>6, <3>1, <3>4, TellMaps
  <2>7. CASE StreamFails
    <3>1. PICK left \in BOOLEAN :
            /\ Discard(left)
            /\ Tell([kind |-> "not_extracted", digest |-> <<>>, left |-> left])
      BY <2>7 DEF StreamFails
    <3>2. PICK c \in Artifact : c = current /\ Busy
      BY <2>0, <2>7 DEF StreamFails, Busy, TypeOK
    <3> DEFINE f == [kind |-> "not_extracted", digest |-> <<>>, left |-> left]
    <3>3. f \in Finding /\ f.kind = "not_extracted" /\ f.left = left
      BY DEF Finding
    <3> HIDE DEF f
    <3>4. Tell(f)
      BY <3>1 DEF f
    <3>5. CASE LeavesFile
      <4>1. PICK result \in {"removed", "refused", "not_found"} :
              RemoveFile(result) /\ left = (result = "refused")
        BY <3>1, <3>5 DEF Discard
      <4>2. CASE result = "refused"
        BY <2>6, <3>2, <3>3, <3>4, <3>5, <4>1, <4>2 DEF RemoveFile
      <4>3. CASE result # "refused"
        <5>1. disk'[c] = NoFile /\ \A a \in Artifact : a # c => disk'[a] = disk[a]
          BY <2>0, <3>2, <4>1, <4>3, RemovalType
        <5> QED
          BY <2>5, <3>2, <3>3, <3>4, <3>5, <4>1, <4>3, <5>1
      <4> QED
        BY <4>2, <4>3
    <3>6. CASE ~LeavesFile
      <4>1. disk' = disk /\ ~left
        BY <3>1, <3>6 DEF Discard
      <4> QED
        BY <2>5, <3>2, <3>3, <3>4, <3>6, <4>1
    <3> QED
      BY <3>5, <3>6
  <2>8. CASE SettleUnwritten
    <3>1. PICK kind \in Withheld \cup {"no_output"} : Tell(Extraction(kind, FALSE))
      BY <2>8 DEF SettleUnwritten, Withheld
    <3>2. PICK c \in Artifact : c = current /\ Busy
      BY <2>0, <2>8 DEF SettleUnwritten, Busy, TypeOK
    <3>3. Extraction(kind, FALSE) \in Finding
      BY <2>0, FindingType DEF Extracted
    <3>4. Extraction(kind, FALSE).kind = kind /\ ~Extraction(kind, FALSE).left
      BY DEF Extraction
    <3>5. ~LeavesFile /\ disk' = disk
      BY <2>8 DEF SettleUnwritten, LeavesFile
    <3> QED
      BY <2>5, <3>1, <3>2, <3>3, <3>4, <3>5
  <2>9. CASE SettleFailed
    <3>1. PICK result \in {"removed", "refused", "not_found"} :
            RemoveFile(result) /\ Tell(Extraction("failed", result # "removed"))
      BY <2>9 DEF SettleFailed
    <3>2. PICK c \in Artifact : c = current /\ Busy
      BY <2>0, <2>9 DEF SettleFailed, Busy, TypeOK
    <3> DEFINE f == Extraction("failed", result # "removed")
    <3>3. f \in Finding
      BY <2>0, FindingType DEF Extracted, Withheld
    <3>4. f.kind = "failed" /\ f.left = (result # "removed") /\ "failed" \in Withheld
      BY DEF Extraction, Withheld
    <3>5. LeavesFile
      BY <2>9 DEF SettleFailed, LeavesFile
    <3>6. Tell(f)
      BY <3>1
    <3> HIDE DEF f
    <3>7. CASE result = "removed"
      <4>1. disk'[c] = NoFile /\ \A a \in Artifact : a # c => disk'[a] = disk[a]
        BY <2>0, <3>1, <3>2, <3>7, RemovalType
      <4> QED
        BY <2>5, <3>2, <3>3, <3>4, <3>5, <3>6, <3>7, <4>1
    <3>8. CASE result # "removed"
      <4>1. disk' = disk
        BY <3>1, <3>8 DEF RemoveFile
      <4> QED
        BY <2>6, <3>2, <3>3, <3>4, <3>5, <3>6, <3>8, <4>1
    <3> QED
      BY <3>7, <3>8
  <2>10. ASSUME step = "reading_back", NEW kind \in Delivered, Tell(Extraction(kind, FALSE)),
                disk' = disk,
                kind = "matches" => disk[current].content = hashed /\ disk[current] # NoFile
         PROVE  Delivery!Next
    <3>1. PICK c \in Artifact : c = current /\ Busy
      BY <2>0, <2>10 DEF Busy, TypeOK
    <3>2. LeavesFile
      BY <2>10, <3>1 DEF AccountInv, OpenIsOurs, LeavesFile
    <3> DEFINE f == Extraction(kind, FALSE)
    <3>3. f \in Finding
      BY <2>0, FindingType DEF Extracted
    <3>4. f.kind = kind /\ kind # "none"
      BY DEF Extraction, Delivered
    <3>5. Tell(f)
      BY <2>10
    <3> HIDE DEF f
    <3>6. told'[c] = f /\ run' = run
      BY <2>0, <3>1, <3>3, <3>5, TellType
    <3>7. disk[c] # NoFile => disk[c].run = run
      BY <3>1, <3>2 DEF AccountInv, OpenIsOurs, Ours
    <3>8. IF disk[c] = NoFile THEN FileOf(c)' = "none" ELSE FileOf(c)' \in {"whole", "damaged"}
      BY <2>10, <3>4, <3>6, <3>7, FileOfNext
    <3>9. kind = "matches" => FileOf(c)' = "whole" /\ FileOf(c) = "growing"
      <4>1. hashed = Whole(c)
        BY <2>10, <3>1 DEF WriterInv, HashedInOrder, Busy, Whole
      <4> QED
        BY <2>4, <2>10, <3>1, <3>2, <3>4, <3>6, <3>7, <4>1, FileOfNext
    <3>10. WordOf(f) = IF kind = "matches" THEN "delivered" ELSE "doubtful"
      BY <3>3, <3>4, WordOfIs DEF Delivered
    <3>11. FileOf(c)' \in Delivery!Outcome(FileOf(c), WordOf(f))
      <4>1. CASE kind = "matches"
        BY <3>9, <3>10, <4>1 DEF Delivery!Outcome
      <4>2. CASE kind # "matches"
        BY <2>4, <3>1, <3>2, <3>8, <3>10, <4>2 DEF Delivery!Outcome
      <4> QED
        BY <4>1, <4>2
    <3> QED
      BY <2>10, <3>1, <3>3, <3>4, <3>5, <3>11, TellMaps
  <2>11. CASE ReadBack
    <3> DEFINE kind == IF disk[current].content = hashed THEN "matches" ELSE "differs"
    <3>1. kind \in Delivered /\ (kind = "matches" => disk[current].content = hashed)
      BY DEF Delivered
    <3>2. Tell(Extraction(kind, FALSE)) /\ disk' = disk /\ disk[current] # NoFile
            /\ step = "reading_back"
      BY <2>11 DEF ReadBack
    <3> HIDE DEF kind
    <3> QED
      BY <2>10, <3>1, <3>2
  <2>12. CASE ReadBackFails
    BY <2>10, <2>12 DEF ReadBackFails, Delivered
  <2>13. CASE Flushed \/ EndRun \/ Kill \/ UNCHANGED vars
    <3>1. UNCHANGED <<run, disk, told>>
      BY <2>13 DEF Flushed, EndRun, Kill, vars
    <3> QED
      BY <2>1, <3>1, FileOfKept
  <2>14. CASE Rerun
    <3>1. /\ run' = run + 1 /\ disk' = disk
          /\ \A a \in Artifact : told'[a] = NoFinding
      BY <2>14 DEF Rerun
    <3>2. \A a \in Artifact : disk[a] # NoFile => disk[a].run # run'
      BY <2>0, <3>1 DEF WriterInv, RunsBegun, TypeOK, File
    <3>3. \A a \in Artifact : FileOf(a)' = IF FileOf(a) = "none" THEN "none" ELSE "earlier"
      <4> SUFFICES ASSUME NEW a \in Artifact
                   PROVE  FileOf(a)' = IF FileOf(a) = "none" THEN "none" ELSE "earlier"
        OBVIOUS
      <4>1. CASE disk[a] = NoFile
        BY <3>1, <4>1, FileOfIs, FileOfNext
      <4>2. CASE disk[a] # NoFile
        <5>1. FileOf(a) # "none"
          BY <4>2, FileOfIs
        <5> QED
          BY <3>1, <3>2, <4>2, <5>1, FileOfNext
      <4> QED
        BY <4>1, <4>2
    <3>4. \A a \in Artifact : WordOf(told'[a]) = "nothing"
      BY <3>1 DEF WordOf, NoFinding, Withheld
    <3>5. /\ file' = [a \in Artifact |-> IF file[a] = "none" THEN "none" ELSE "earlier"]
          /\ word' = [a \in Artifact |-> "nothing"]
      BY <3>3, <3>4
    <3>6. Delivery!Restart
      BY <3>5 DEF Delivery!Restart
    <3> QED
      BY <3>6 DEF Delivery!Next
  <2>15. CASE OthersDelete
    <3>1. PICK c \in Artifact : disk' = [disk EXCEPT ![c] = NoFile]
      BY <2>15 DEF OthersDelete
    <3>2. run' = run /\ told' = told
      BY <2>15 DEF OthersDelete
    <3>3. disk'[c] = NoFile /\ \A a \in Artifact : a # c => disk'[a] = disk[a]
      BY <2>0, <3>1 DEF TypeOK
    <3>4. FileOf(c)' = "none" /\ \A a \in Artifact : a # c => FileOf(a)' = FileOf(a)
      BY <3>2, <3>3, FileOfNext, FileOfKept
    <3>5. file' = [file EXCEPT ![c] = "none"]
      BY <3>4
    <3>6. Delivery!Vanish(c)
      BY <3>2, <3>5 DEF Delivery!Vanish
    <3> QED
      BY <3>6 DEF Delivery!Next
  <2> QED
    BY <2>2, <2>3, <2>7, <2>8, <2>9, <2>11, <2>12, <2>13, <2>14, <2>15
      DEF Next, Step, Finished
<1> QED
  BY <1>1, <1>2, WriterAccounts, PTL DEF Spec, Delivers, Delivery!Spec
=============================================================================
