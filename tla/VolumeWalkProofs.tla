-------------------------- MODULE VolumeWalkProofs --------------------------
(***************************************************************************)
(* Theorems about VolumeWalk, for every volume, every depth and every      *)
(* chain bound.                                                            *)
(***************************************************************************)
EXTENDS VolumeWalk, FiniteSetTheorems, SequenceTheorems, WellFoundedInduction, TLAPS

----------------------------------------------------------------------------
(***************************************************************************)
(* Types.                                                                  *)
(***************************************************************************)

\* While an orphan is being read the search stands on a data cluster.
CursorInside == phase = "search" /\ step # "idle" => cursor \in Cluster

TypeInv == TypeOK /\ CursorInside

\* What a listing names, before its terminator and after it, are names.
LEMMA NamesType ==
  ASSUME NEW d \in Directory
  PROVE  NamesOf(d) \in Seq(Name)
BY DEF NamesOf, Directory

\* queue_subdirectories queues well-formed directories, one level deeper.
LEMMA ChildrenType ==
  ASSUME NEW d \in Directory, NEW k \in Nat
  PROVE  Children(d, k) \in Seq(Pending)
<1> DEFINE names == NamesOf(d)
           kids == Children(d, k)
<1>1. names \in Seq(Name)
  BY NamesType
<1>2. Len(names) \in Nat /\ DOMAIN names = 1 .. Len(names)
  BY <1>1
<1>3. \A i \in 1 .. Len(names) :
        [first |-> names[i].first, depth |-> k + 1, deleted |-> names[i].deleted] \in Pending
  <2> TAKE i \in 1 .. Len(names)
  <2>1. names[i] \in Name
    BY <1>1
  <2> QED
    BY <2>1 DEF Name, Pending
<1>4. kids = [i \in 1 .. Len(names) |->
        [first |-> names[i].first, depth |-> k + 1, deleted |-> names[i].deleted]]
  BY <1>2 DEF Children
<1> HIDE DEF names, kids
<1>5. kids \in [1 .. Len(names) -> Pending]
  BY <1>3, <1>4
<1>6. kids \in Seq(Pending)
  BY <1>2, <1>5, SeqDef
<1> QED
  BY <1>6 DEF kids

\* One more cluster read leaves enumerate a well-formed directory.
LEMMA WithClusterType ==
  ASSUME TypeOK, cluster \in Cluster
  PROVE  /\ WithCluster(dir, cluster) \in Directory
         /\ WithCluster(dir, cluster).clusters = Append(dir.clusters, cluster)
<1>1. content[cluster] \in Content
  BY DEF TypeOK
<1>2. /\ content[cluster].entries \in Seq(Name)
      /\ content[cluster].residue \in Seq(Name)
      /\ content[cluster].terminator \in BOOLEAN
  BY <1>1 DEF Content
<1>3. /\ dir.clusters \in Seq(Cluster) /\ dir.entries \in Seq(Name)
      /\ dir.residue \in Seq(Name) /\ dir.terminated \in BOOLEAN
  BY DEF TypeOK, Directory
<1>4. Append(dir.clusters, cluster) \in Seq(Cluster)
  BY <1>3
<1>5. (IF dir.terminated THEN dir.entries ELSE dir.entries \o content[cluster].entries)
        \in Seq(Name)
  BY <1>2, <1>3
<1>6. (IF dir.terminated THEN dir.residue \o content[cluster].entries \o content[cluster].residue
                         ELSE dir.residue \o content[cluster].residue) \in Seq(Name)
  BY <1>2, <1>3
<1>7. (dir.terminated \/ content[cluster].terminator) \in BOOLEAN
  OBVIOUS
<1> QED
  BY <1>4, <1>5, <1>6, <1>7 DEF WithCluster, Directory

\* The counters only ever grow by a natural number.
LEMMA CountsType ==
  ASSUME NEW c \in Counts, NEW n \in Nat, NEW b \in BOOLEAN
  PROVE  /\ WithUnread(c, n) \in Counts
         /\ WithReport(c, b) \in Counts
         /\ WithStop(c) \in Counts
         /\ [c EXCEPT !.root_unread = @ + 1] \in Counts
         /\ [c EXCEPT !.volumes_analysed = @ + 1] \in Counts
<1>1. WithUnread(c, n) \in Counts
  BY DEF WithUnread, Counts
<1>2. WithReport(c, b) \in Counts
  BY DEF WithReport, Counts
<1>3. WithStop(c) \in Counts
  BY DEF WithStop, Counts
<1>4. [c EXCEPT !.root_unread = @ + 1] \in Counts
  BY DEF Counts
<1>5. [c EXCEPT !.volumes_analysed = @ + 1] \in Counts
  BY DEF Counts
<1> QED
  BY <1>1, <1>2, <1>3, <1>4, <1>5

\* The search's last check counts finitely many entries, so its gap is a
\* number.
LEMMA ListedUnreadFinite ==
  ASSUME TypeOK
  PROVE  Cardinality(ListedUnread) \in Nat
<1>1. Len(listed) \in Nat /\ DOMAIN listed = 1 .. Len(listed)
  BY DEF TypeOK
<1>2. IsFiniteSet(1 .. Len(listed))
  BY <1>1, FS_Interval
<1>3. ListedUnread \subseteq 1 .. Len(listed)
  BY <1>1 DEF ListedUnread
<1> QED
  BY <1>2, <1>3, FS_Subset, FS_CardinalityType

\* What a Directory event carries is well formed.
LEMMA ReportType ==
  ASSUME TypeOK, NEW how \in {"root", "walked", "orphaned"}
  PROVE  ReportOf(how) \in Report
BY DEF TypeOK, ReportOf, Report, Job

\* A chain that was followed stays inside the data area.
LEMMA ElementsInCluster ==
  ASSUME TypeOK
  PROVE  Elements(dir.clusters) \subseteq Cluster
BY DEF TypeOK, Elements, Directory

\* On any volume every state of the walk and the search is well typed, and the
\* search's cursor is on a data cluster while a directory is being read.
THEOREM TypeCorrect == Spec => [](TypeOK /\ CursorInside)
<1> USE DEF TypeInv
<1>1. Init => TypeInv
  <2> SUFFICES ASSUME Init PROVE TypeInv
    OBVIOUS
  <2>1. EmptyDirectory \in Directory
    BY DEF EmptyDirectory, Directory
  <2>2. job \in Job /\ cluster \in Nat /\ cursor \in FirstDataCluster .. LastCluster + 1
    BY VolumeAssumption DEF Init, Start, Job, Cluster, FirstDataCluster
  <2> QED
    BY <2>1, <2>2 DEF Init, Start, TypeOK, CursorInside, Counts
<1>2. TypeInv /\ [Next]_vars => TypeInv'
  <2> SUFFICES ASSUME TypeInv, [Next]_vars PROVE TypeInv'
    OBVIOUS
  <2> USE VolumeAssumption
  <2>1. CASE Enumerate
    <3>1. CASE RefuseChain
      BY <2>1, <3>1 DEF Enumerate, RefuseChain, TypeOK, CursorInside, volume
    <3>2. CASE EvidenceFails
      BY <2>1, <3>2 DEF Enumerate, EvidenceFails, TypeOK, CursorInside, volume
    <3>3. CASE ReadCluster
      <4>1. cluster \in Cluster
        BY <3>3 DEF ReadCluster, ChainRefused
      <4>2. dir' \in Directory
        BY <3>3, <4>1, WithClusterType DEF ReadCluster
      <4>3. cluster' \in Nat /\ step' \in {"idle", "reading", "listed", "failed"}
        BY <3>3 DEF ReadCluster, TypeOK, FirstDataCluster
      <4>4. step # "idle"
        BY <3>3 DEF ReadCluster
      <4> QED
        BY <2>1, <3>3, <4>2, <4>3, <4>4 DEF Enumerate, ReadCluster, TypeOK, CursorInside, volume
    <3> QED
      BY <2>1, <3>1, <3>2, <3>3 DEF Enumerate
  <2>2. CASE RootUnread
    <3>1. counts' \in Counts
      BY <2>2, CountsType DEF RootUnread, TypeOK
    <3> QED
      BY <2>2, <3>1 DEF RootUnread, Return, TypeOK, CursorInside, volume
  <2>3. CASE RootListed
    <3>1. pending' \in Seq(Pending)
      <4>1. Children(dir, 0) \in Seq(Pending)
        BY ChildrenType DEF TypeOK
      <4> QED
        BY <2>3, <4>1 DEF RootListed, TypeOK
    <3>2. reported' \in Seq(Report)
      BY <2>3, ReportType DEF RootListed, TypeOK
    <3>3. counts' \in Counts
      BY <2>3, CountsType DEF RootListed, TypeOK
    <3>4. seen' \subseteq Cluster
      BY <2>3, ElementsInCluster DEF RootListed
    <3> QED
      BY <2>3, <3>1, <3>2, <3>3, <3>4 DEF RootListed, Return, TypeOK, CursorInside, volume
  <2>4. ASSUME Take PROVE /\ Head(pending) \in Pending
                          /\ named' \subseteq Nat
                          /\ pending' \in Seq(Pending)
                          /\ UNCHANGED <<volume, phase, seen, cursor, listed, reported>>
                          /\ phase = "walk"
    <3>1. Head(pending) \in Pending /\ Tail(pending) \in Seq(Pending)
      BY <2>4, HeadTailProperties DEF Take, TypeOK
    <3> QED
      BY <2>4, <3>1 DEF Take, TypeOK, Pending
  <2>5. CASE TakeDeclined
    <3>1. counts' \in Counts
      BY <2>5, CountsType DEF TakeDeclined, TypeOK
    <3> QED
      BY <2>4, <2>5, <3>1 DEF TakeDeclined, TypeOK, CursorInside, volume, enumeration
  <2>6. CASE TakeRefused
    <3>1. counts' \in Counts
      BY <2>6, CountsType DEF TakeRefused, TypeOK
    <3> QED
      BY <2>4, <2>6, <3>1 DEF TakeRefused, TypeOK, CursorInside, volume, enumeration
  <2>7. CASE TakeOpened
    <3>1. Head(pending) \in Job /\ Head(pending).first \in Nat
      BY <2>4, <2>7 DEF TakeOpened, Declined, Pending, Job
    <3>2. EmptyDirectory \in Directory
      BY DEF EmptyDirectory, Directory
    <3> QED
      BY <2>4, <2>7, <3>1, <3>2 DEF TakeOpened, Begin, TypeOK, CursorInside, volume
  <2>8. CASE SubdirectoryUnread
    <3>1. counts' \in Counts
      BY <2>8, CountsType DEF SubdirectoryUnread, TypeOK
    <3> QED
      BY <2>8, <3>1 DEF SubdirectoryUnread, Return, TypeOK, CursorInside, volume
  <2>9. CASE SubdirectoryWithheld
    <3>1. counts' \in Counts
      BY <2>9, CountsType DEF SubdirectoryWithheld, TypeOK
    <3> QED
      BY <2>9, <3>1 DEF SubdirectoryWithheld, Return, TypeOK, CursorInside, volume
  <2>10. CASE SubdirectoryListed
    <3>1. pending' \in Seq(Pending)
      <4>1. Children(dir, job.depth) \in Seq(Pending)
        BY ChildrenType DEF TypeOK, Job
      <4> QED
        BY <2>10, <4>1 DEF SubdirectoryListed, TypeOK
    <3>2. reported' \in Seq(Report)
      BY <2>10, ReportType DEF SubdirectoryListed, TypeOK
    <3>3. counts' \in Counts
      <4>1. (job.deleted /\ ~dir.terminated) \in BOOLEAN
        OBVIOUS
      <4> QED
        BY <2>10, <4>1, CountsType DEF SubdirectoryListed, TypeOK
    <3>4. seen' \subseteq Cluster
      BY <2>10, ElementsInCluster DEF SubdirectoryListed, TypeOK
    <3> QED
      BY <2>10, <3>1, <3>2, <3>3, <3>4
        DEF SubdirectoryListed, Return, TypeOK, CursorInside, volume
  <2>11. CASE WalkEnds
    BY <2>11 DEF WalkEnds, TypeOK, CursorInside, volume, enumeration, Cluster, FirstDataCluster
  <2>12. CASE PassOver
    BY <2>12 DEF PassOver, Visit, SearchDone, TypeOK, CursorInside, volume, enumeration,
       FirstDataCluster
  <2>13. CASE OpenOrphan
    <3>1. [first |-> cursor, depth |-> 0, deleted |-> TRUE] \in Job /\ cursor \in Nat
      BY <2>13 DEF TypeOK, Job, FirstDataCluster
    <3>2. EmptyDirectory \in Directory
      BY DEF EmptyDirectory, Directory
    <3>3. cursor \in Cluster
      BY <2>13 DEF OpenOrphan, PassesFat
    <3> QED
      BY <2>13, <3>1, <3>2, <3>3 DEF OpenOrphan, Visit, Begin, TypeOK, CursorInside, volume
  <2>14. CASE StopSearch
    <3>1. counts' \in Counts
      BY <2>14, CountsType DEF StopSearch, TypeOK
    <3> QED
      BY <2>14, <3>1 DEF StopSearch, Visit, TypeOK, CursorInside, volume, enumeration
  <2>15. CASE OrphanUnread
    <3>1. counts' \in Counts
      BY <2>15, CountsType DEF OrphanUnread, TypeOK
    <3> QED
      BY <2>15, <3>1 DEF OrphanUnread, Return, TypeOK, CursorInside, volume
  <2>16. CASE OrphanListed
    <3>1. cursor \in Cluster /\ cursor + 1 \in FirstDataCluster .. LastCluster + 1
      BY <2>16 DEF OrphanListed, CursorInside, Cluster, FirstDataCluster
    <3>2. reported' \in Seq(Report)
      BY <2>16, ReportType DEF OrphanListed, TypeOK
    <3>3. counts' \in Counts
      <4>1. (~dir.terminated) \in BOOLEAN
        OBVIOUS
      <4> QED
        BY <2>16, <4>1, CountsType DEF OrphanListed, TypeOK
    <3>4. listed' \in Seq(Name)
      <4>1. NamesOf(dir) \in Seq(Name)
        BY NamesType DEF TypeOK
      <4> QED
        BY <2>16, <4>1 DEF OrphanListed, TypeOK
    <3> QED
      BY <2>16, <3>1, <3>2, <3>3, <3>4 DEF OrphanListed, Return, TypeOK, CursorInside, volume
  <2>17. CASE SearchEnds
    <3>1. counts' \in Counts
      BY <2>17, ListedUnreadFinite, CountsType DEF SearchEnds, TypeOK
    <3> QED
      BY <2>17, <3>1 DEF SearchEnds, TypeOK, CursorInside, volume, enumeration
  <2>18. CASE UNCHANGED vars
    BY <2>18 DEF vars, TypeOK, CursorInside
  <2> QED
    BY <2>1, <2>2, <2>3, <2>5, <2>6, <2>7, <2>8, <2>9, <2>10, <2>11, <2>12, <2>13, <2>14,
       <2>15, <2>16, <2>17, <2>18 DEF Next, Finished
<1> QED
  BY <1>1, <1>2, PTL DEF Spec
----------------------------------------------------------------------------
(***************************************************************************)
(* The enumeration: what its chain is while it grows.                      *)
(***************************************************************************)

\* No cluster occurs twice in a chain.
ChainDistinct ==
  \A p, q \in DOMAIN dir.clusters : dir.clusters[p] = dir.clusters[q] => p = q

\* A live directory's clusters are linked in the FAT, and end where they end.
ChainLinked ==
  LET n == Len(dir.clusters) IN
  ~job.deleted =>
    /\ \A p \in 1 .. n - 1 : fat[dir.clusters[p]] = dir.clusters[p + 1]
    /\ step = "reading" /\ n > 0 => fat[dir.clusters[n]] = cluster
    /\ step = "listed" => n > 0 /\ fat[dir.clusters[n]] >= EndOfChain

\* A deleted directory is its first cluster, which the FAT marks free.
ChainFree ==
  job.deleted =>
    /\ step = "reading" => /\ dir.clusters = <<>>
                           /\ cluster = job.first
    /\ step = "listed" => dir.clusters = <<job.first>>
    /\ step \in {"reading", "listed"} => PassesFat(job.first)

RootIsLive == phase = "root" => ~job.deleted

ChainInv == ChainDistinct /\ ChainLinked /\ ChainFree /\ RootIsLive

\* Steps that start no enumeration and read nothing keep what was read.
LEMMA ChainInvReturn ==
  ASSUME TypeOK, ChainInv, UNCHANGED fat, Return, phase' # "root"
  PROVE  ChainInv'
BY DEF ChainInv, ChainDistinct, ChainLinked, ChainFree, RootIsLive, Return

\* A chain that has just begun keeps to every rule of a chain.
LEMMA ChainInvBegin ==
  ASSUME NEW j, UNCHANGED fat, phase' # "root", Begin(j), j.deleted => PassesFat(j.first)
  PROVE  ChainInv'
BY DEF ChainInv, ChainDistinct, ChainLinked, ChainFree, RootIsLive, Begin, EmptyDirectory,
       PassesFat

\* Reading one more cluster keeps the chain distinct and linked as the FAT says:
\* enumerate's cycle check is what makes it so.
LEMMA ChainInvRead ==
  ASSUME TypeOK, ChainInv, Enumerate, ReadCluster
  PROVE  ChainInv'
<1> DEFINE s == dir.clusters
           n == Len(dir.clusters)
<1>1. cluster \in Cluster /\ cluster \notin Elements(s)
  BY DEF ReadCluster, ChainRefused
<1>2. s \in Seq(Cluster) /\ n \in Nat /\ DOMAIN s = 1 .. n
  BY DEF TypeOK, Directory
<1>3. dir'.clusters = Append(s, cluster)
  BY <1>1, WithClusterType DEF ReadCluster
<1>4. /\ Len(dir'.clusters) = n + 1
      /\ DOMAIN dir'.clusters = 1 .. n + 1
      /\ dir'.clusters[n + 1] = cluster
      /\ \A p \in 1 .. n : dir'.clusters[p] = s[p]
  BY <1>1, <1>2, <1>3, AppendProperties
<1>5. UNCHANGED <<fat, job, phase>>
  BY DEF Enumerate, ReadCluster, volume
<1>6. ChainDistinct'
  <2>1. \A p \in 1 .. n : s[p] # cluster
    BY <1>1, <1>2 DEF Elements
  <2>2. \A p, q \in 1 .. n : s[p] = s[q] => p = q
    BY <1>2 DEF ChainInv, ChainDistinct
  <2> HIDE DEF s, n
  <2> SUFFICES ASSUME NEW p \in 1 .. n + 1, NEW q \in 1 .. n + 1,
                      dir'.clusters[p] = dir'.clusters[q]
               PROVE  p = q
    BY <1>4 DEF ChainDistinct
  <2>3. CASE p \in 1 .. n /\ q \in 1 .. n
    BY <1>4, <2>2, <2>3
  <2>4. CASE p = n + 1 \/ q = n + 1
    BY <1>2, <1>4, <2>1, <2>4
  <2> QED
    BY <1>2, <2>3, <2>4
<1>7. ChainLinked'
  <2> SUFFICES ASSUME ~job.deleted PROVE ChainLinked'
    BY <1>5 DEF ChainLinked
  <2>1. \A p \in 1 .. n : fat[dir'.clusters[p]] = dir'.clusters[p + 1]
    <3> SUFFICES ASSUME NEW p \in 1 .. n PROVE fat[dir'.clusters[p]] = dir'.clusters[p + 1]
      OBVIOUS
    <3>1. CASE p = n
      <4>1. fat[s[n]] = cluster
        BY <1>2, <3>1 DEF ChainInv, ChainLinked, ReadCluster
      <4> QED
        BY <1>2, <1>4, <3>1, <4>1
    <3>2. CASE p # n
      <4>1. p \in 1 .. n - 1 /\ p + 1 \in 1 .. n
        BY <1>2, <3>2
      <4>2. fat[s[p]] = s[p + 1]
        BY <4>1 DEF ChainInv, ChainLinked
      <4> QED
        BY <1>4, <4>1, <4>2
    <3> QED
      BY <3>1, <3>2
  <2>2. step' = "reading" => fat[cluster] = cluster'
    BY DEF ReadCluster
  <2>3. step' = "listed" => fat[cluster] >= EndOfChain
    BY DEF ReadCluster
  <2> QED
    BY <1>2, <1>4, <1>5, <2>1, <2>2, <2>3 DEF ChainLinked
<1>8. ChainFree'
  <2> SUFFICES ASSUME job.deleted PROVE ChainFree'
    BY <1>5 DEF ChainFree
  <2>1. s = <<>> /\ cluster = job.first /\ PassesFat(job.first)
    BY DEF ChainInv, ChainFree, ReadCluster
  <2>2. step' = "listed"
    BY DEF ReadCluster
  <2>3. dir'.clusters = <<job.first>>
    BY <1>1, <1>3, <2>1
  <2> QED
    BY <1>5, <2>1, <2>2, <2>3 DEF ChainFree, PassesFat
<1> QED
  BY <1>5, <1>6, <1>7, <1>8 DEF ChainInv, RootIsLive

\* Every enumeration, whoever started it, keeps to its chain.
THEOREM ChainCorrect == Spec => []ChainInv
<1>1. Init => ChainInv
  BY DEF Init, Start, ChainInv, ChainDistinct, ChainLinked, ChainFree, RootIsLive, EmptyDirectory
<1>2. TypeOK /\ ChainInv /\ [Next]_vars => ChainInv'
  <2> SUFFICES ASSUME TypeOK, ChainInv, [Next]_vars PROVE ChainInv'
    OBVIOUS
  <2>1. CASE Enumerate
    <3>1. CASE RefuseChain \/ EvidenceFails
      BY <2>1, <3>1 DEF Enumerate, RefuseChain, EvidenceFails, ChainInv, ChainDistinct,
         ChainLinked, ChainFree, RootIsLive, volume
    <3> QED
      BY <2>1, <3>1, ChainInvRead DEF Enumerate
  <2>2. CASE RootUnread \/ RootListed \/ SubdirectoryUnread \/ SubdirectoryWithheld
             \/ SubdirectoryListed \/ OrphanUnread \/ OrphanListed
    <3>1. UNCHANGED fat /\ Return /\ phase' # "root"
      BY <2>2 DEF RootUnread, RootListed, SubdirectoryUnread, SubdirectoryWithheld,
         SubdirectoryListed, OrphanUnread, OrphanListed, volume
    <3> QED
      BY <3>1, ChainInvReturn
  <2>3. CASE TakeOpened
    BY <2>3, ChainInvBegin DEF TakeOpened, Take, volume
  <2>4. CASE OpenOrphan
    <3>1. /\ UNCHANGED fat /\ phase' # "root"
          /\ Begin([first |-> cursor, depth |-> 0, deleted |-> TRUE])
          /\ PassesFat(cursor)
      BY <2>4 DEF OpenOrphan, Visit, volume
    <3> QED
      BY <3>1, ChainInvBegin
  <2>5. CASE TakeDeclined \/ TakeRefused \/ WalkEnds \/ PassOver \/ StopSearch \/ SearchEnds
    <3>1. UNCHANGED <<fat, enumeration>> /\ phase' # "root"
      BY <2>5 DEF TakeDeclined, TakeRefused, Take, WalkEnds, PassOver, StopSearch, Visit,
         SearchEnds, volume
    <3> QED
      BY <3>1 DEF enumeration, ChainInv, ChainDistinct, ChainLinked, ChainFree, RootIsLive,
         PassesFat
  <2>6. CASE UNCHANGED vars
    BY <2>6 DEF vars, ChainInv, ChainDistinct, ChainLinked, ChainFree, RootIsLive, PassesFat
  <2> QED
    BY <2>1, <2>2, <2>3, <2>4, <2>5, <2>6 DEF Next, Finished
<1> QED
  BY <1>1, <1>2, TypeCorrect, PTL DEF Spec

----------------------------------------------------------------------------
(***************************************************************************)
(* What is reported: every report is of clusters no report before it had.  *)
(***************************************************************************)

\* Nothing is reported before the root; the search reads what it stands on,
\* which no listing holds and the walk was never given.
ReadingFresh ==
  /\ phase = "root" => reported = <<>> /\ seen = {} /\ named = {} /\ pending = <<>>
  /\ phase = "search" /\ step # "idle" =>
       job.deleted /\ job.first = cursor /\ cursor \notin seen /\ cursor \notin named

\* Every step keeps it: the search opens only what it does not skip.
LEMMA ReadingFreshStep ==
  ASSUME TypeOK, ReadingFresh, [Next]_vars
  PROVE  ReadingFresh'
<1>1. CASE Enumerate
  <2>1. step # "idle"
    BY <1>1 DEF Enumerate, RefuseChain, EvidenceFails, ReadCluster
  <2> QED
    BY <1>1, <2>1 DEF Enumerate, RefuseChain, EvidenceFails, ReadCluster, ReadingFresh
<1>2. CASE RootUnread \/ RootListed \/ SubdirectoryUnread \/ SubdirectoryWithheld
           \/ SubdirectoryListed \/ OrphanUnread \/ OrphanListed
  <2>1. step' = "idle" /\ phase' # "root"
    BY <1>2 DEF RootUnread, RootListed, SubdirectoryUnread, SubdirectoryWithheld,
       SubdirectoryListed, OrphanUnread, OrphanListed, Return
  <2> QED
    BY <2>1 DEF ReadingFresh
<1>3. CASE TakeDeclined \/ TakeRefused \/ TakeOpened
  <2>1. phase' = "walk"
    BY <1>3 DEF TakeDeclined, TakeRefused, TakeOpened, Take
  <2> QED
    BY <2>1 DEF ReadingFresh
<1>4. CASE WalkEnds \/ PassOver \/ StopSearch \/ SearchEnds
  <2>1. step' = "idle" /\ phase' # "root"
    BY <1>4 DEF WalkEnds, PassOver, StopSearch, SearchEnds, Visit, enumeration
  <2> QED
    BY <2>1 DEF ReadingFresh
<1>5. CASE OpenOrphan
  <2>1. /\ phase' = "search"
        /\ job' = [first |-> cursor, depth |-> 0, deleted |-> TRUE]
        /\ cursor' = cursor /\ seen' = seen /\ named' = named
        /\ cursor \notin seen /\ cursor \notin named
    BY <1>5 DEF OpenOrphan, Visit, Begin, SkippedBySearch
  <2> QED
    BY <2>1 DEF ReadingFresh
<1>6. CASE UNCHANGED vars
  BY <1>6 DEF vars, ReadingFresh
<1> QED
  BY <1>1, <1>2, <1>3, <1>4, <1>5, <1>6 DEF Next, Finished

\* A step reports the finished enumeration, all of its clusters new, or
\* reports nothing.
Reports(how) ==
  /\ step = "listed"
  /\ reported' = Append(reported, ReportOf(how))
  /\ seen' = seen \cup Elements(dir.clusters)
  /\ Elements(dir.clusters) \cap seen = {}

\* What each action reports: begun from the cross-link check, or from the
\* search standing on a cluster nobody has seen.
LEMMA ReportsOrNot ==
  ASSUME TypeOK, ChainInv, ReadingFresh, [Next]_vars
  PROVE  \/ UNCHANGED <<reported, seen>>
         \/ \E how \in {"root", "walked", "orphaned"} : Reports(how)
<1>1. CASE RootListed
  <2>1. seen = {}
    BY <1>1 DEF RootListed, ReadingFresh
  <2>2. Reports("root")
    BY <1>1, <2>1 DEF RootListed, Reports
  <2> QED
    BY <2>2
<1>2. CASE SubdirectoryListed
  <2>1. Reports("walked")
    BY <1>2 DEF SubdirectoryListed, Withheld, CrossLinked, Reports
  <2> QED
    BY <2>1
<1>3. CASE OrphanListed
  <2>1. dir.clusters = <<cursor>> /\ cursor \notin seen
    BY <1>3 DEF OrphanListed, ReadingFresh, ChainInv, ChainFree
  <2>2. Elements(dir.clusters) = {cursor}
    BY <2>1 DEF Elements
  <2>3. Reports("orphaned")
    BY <1>3, <2>1, <2>2 DEF OrphanListed, Reports
  <2> QED
    BY <2>3
<1>4. CASE Enumerate
  BY <1>4 DEF Enumerate
<1>5. CASE RootUnread \/ TakeDeclined \/ TakeRefused \/ TakeOpened \/ SubdirectoryUnread
           \/ SubdirectoryWithheld \/ WalkEnds
  BY <1>5 DEF RootUnread, TakeDeclined, TakeRefused, TakeOpened, Take, SubdirectoryUnread,
     SubdirectoryWithheld, WalkEnds
<1>6. CASE PassOver \/ OpenOrphan \/ StopSearch \/ OrphanUnread \/ SearchEnds
  BY <1>6 DEF PassOver, OpenOrphan, StopSearch, Visit, OrphanUnread, SearchEnds
<1>7. CASE UNCHANGED vars
  BY <1>7 DEF vars
<1> QED
  BY <1>1, <1>2, <1>3, <1>4, <1>5, <1>6, <1>7 DEF Next, Finished

\* Reporting adds one directory at the end and moves no other.
LEMMA ReportAppended ==
  ASSUME TypeOK, NEW how \in {"root", "walked", "orphaned"}, Reports(how)
  PROVE  LET n == Len(reported) IN
         /\ n \in Nat
         /\ DOMAIN reported = 1 .. n
         /\ DOMAIN reported' = 1 .. n + 1
         /\ \A i \in 1 .. n : reported'[i] = reported[i]
         /\ reported'[n + 1] = ReportOf(how)
BY ReportType, AppendProperties DEF TypeOK, Reports

\* `seen' holds the clusters of every report.
ReportsSeen ==
  \A i \in DOMAIN reported : Elements(Clusters(reported[i])) \subseteq seen

ListedInv == ReadingFresh /\ ReportsSeen /\ ListedOnce

\* A report of clusters none has listed keeps every cluster listed once.
LEMMA ListedInvReport ==
  ASSUME TypeOK, ChainInv, ReportsSeen, ListedOnce,
         NEW how \in {"root", "walked", "orphaned"}, Reports(how)
  PROVE  ReportsSeen' /\ ListedOnce'
<1> DEFINE n == Len(reported)
           C(i) == Clusters(reported[i])
           D(i) == Clusters(reported'[i])
<1>1. /\ n \in Nat
      /\ DOMAIN reported = 1 .. n
      /\ DOMAIN reported' = 1 .. n + 1
      /\ \A i \in 1 .. n : D(i) = C(i)
      /\ D(n + 1) = dir.clusters
  BY ReportAppended DEF ReportOf, Clusters
<1>2. \A i \in 1 .. n : Elements(C(i)) \subseteq seen
  BY <1>1 DEF ReportsSeen
<1>3. ReportsSeen'
  <2>1. ReportsSeen' = \A i \in DOMAIN reported' : Elements(D(i)) \subseteq seen'
    BY DEF ReportsSeen, Clusters
  <2> HIDE DEF n, C, D
  <2> QED
    BY <1>1, <1>2, <2>1 DEF Reports
<1>4. \A i \in 1 .. n : \A p \in DOMAIN C(i), q \in DOMAIN dir.clusters :
        C(i)[p] # dir.clusters[q]
  BY <1>2 DEF Elements, Reports
<1>5. \A i, j \in 1 .. n : \A p \in DOMAIN C(i), q \in DOMAIN C(j) :
        C(i)[p] = C(j)[q] => i = j /\ p = q
  BY <1>1 DEF ListedOnce
<1>6. \A p, q \in DOMAIN dir.clusters : dir.clusters[p] = dir.clusters[q] => p = q
  BY DEF ChainInv, ChainDistinct
<1>7. ListedOnce'
  <2>1. ListedOnce' = \A i, j \in DOMAIN reported' : \A p \in DOMAIN D(i), q \in DOMAIN D(j) :
                        D(i)[p] = D(j)[q] => i = j /\ p = q
    BY DEF ListedOnce, Clusters
  <2> HIDE DEF n, C, D
  <2> SUFFICES ASSUME NEW i \in 1 .. n + 1, NEW j \in 1 .. n + 1,
                      NEW p \in DOMAIN D(i), NEW q \in DOMAIN D(j), D(i)[p] = D(j)[q]
               PROVE  i = j /\ p = q
    BY <1>1, <2>1
  <2>2. CASE i \in 1 .. n /\ j \in 1 .. n
    BY <1>1, <1>5, <2>2
  <2>3. CASE i \in 1 .. n /\ j = n + 1
    BY <1>1, <1>4, <2>3
  <2>4. CASE i = n + 1 /\ j \in 1 .. n
    BY <1>1, <1>4, <2>4
  <2>5. CASE i = n + 1 /\ j = n + 1
    BY <1>1, <1>6, <2>5
  <2> QED
    BY <1>1, <2>2, <2>3, <2>4, <2>5
<1> QED
  BY <1>3, <1>7

\* No cluster is listed twice, on any volume.
THEOREM ListedOnceCorrect == Spec => []ListedOnce
<1>1. Init => ListedInv
  BY DEF Init, Start, ListedInv, ReadingFresh, ReportsSeen, ListedOnce
<1>2. TypeOK /\ ChainInv /\ ListedInv /\ [Next]_vars => ListedInv'
  <2> SUFFICES ASSUME TypeOK, ChainInv, ListedInv, [Next]_vars PROVE ListedInv'
    OBVIOUS
  <2> USE DEF ListedInv
  <2>1. ReadingFresh'
    BY ReadingFreshStep
  <2>2. CASE UNCHANGED <<reported, seen>>
    BY <2>1, <2>2 DEF ReportsSeen, ListedOnce
  <2>3. CASE \E how \in {"root", "walked", "orphaned"} : Reports(how)
    BY <2>1, <2>3, ListedInvReport
  <2> QED
    BY <2>2, <2>3, ReportsOrNot
<1>3. ListedInv => ListedOnce
  BY DEF ListedInv
<1> QED
  BY <1>1, <1>2, <1>3, TypeCorrect, ChainCorrect, PTL DEF Spec

\* What is listed agrees with the FAT, on any volume.
THEOREM ListingAgrees == Spec => []ListingAgreesWithFat
<1> DEFINE Inv == ReadingFresh /\ ListingAgreesWithFat
<1>1. Init => Inv
  BY DEF Init, Start, ReadingFresh, ListingAgreesWithFat
<1>2. TypeOK /\ ChainInv /\ Inv /\ [Next]_vars => Inv'
  <2> SUFFICES ASSUME TypeOK, ChainInv, Inv, [Next]_vars PROVE Inv'
    OBVIOUS
  <2>1. ReadingFresh'
    BY ReadingFreshStep
  <2>2. fat' = fat
    BY DEF Next, Finished, vars, volume, Enumerate, RootUnread, RootListed, TakeDeclined,
       TakeRefused, TakeOpened, Take, SubdirectoryUnread, SubdirectoryWithheld,
       SubdirectoryListed, WalkEnds, PassOver, OpenOrphan, StopSearch, Visit, OrphanUnread,
       OrphanListed, SearchEnds
  <2>3. CASE UNCHANGED <<reported, seen>>
    BY <2>1, <2>2, <2>3 DEF ListingAgreesWithFat
  <2>4. ASSUME NEW how \in {"root", "walked", "orphaned"}, Reports(how)
        PROVE  ListingAgreesWithFat'
    <3> DEFINE n == Len(reported)
               Agrees(r) ==
                 LET k == Len(r.dir.clusters) IN
                 IF r.deleted
                   THEN k = 1 /\ fat[r.dir.clusters[1]] = Free
                   ELSE /\ \A p \in 1 .. k - 1 : fat[r.dir.clusters[p]] = r.dir.clusters[p + 1]
                        /\ fat[r.dir.clusters[k]] >= EndOfChain
    <3>1. \A i \in DOMAIN reported : Agrees(reported[i])
      BY DEF ListingAgreesWithFat, Clusters
    <3>2. Agrees(ReportOf(how))
      <4>1. step = "listed" /\ ReportOf(how).deleted = job.deleted /\ ReportOf(how).dir = dir
        BY <2>4 DEF Reports, ReportOf
      <4>2. CASE job.deleted
        <5>1. dir.clusters = <<job.first>> /\ fat[job.first] = Free
          BY <4>1, <4>2 DEF ChainInv, ChainFree, PassesFat
        <5> QED
          BY <4>1, <4>2, <5>1
      <4>3. CASE ~job.deleted
        BY <4>1, <4>3 DEF ChainInv, ChainLinked
      <4> QED
        BY <4>2, <4>3
    <3>3. ListingAgreesWithFat' = \A i \in DOMAIN reported' : Agrees(reported'[i])
      BY <2>2 DEF ListingAgreesWithFat, Clusters
    <3> HIDE DEF Agrees
    <3> QED
      BY <2>4, <3>1, <3>2, <3>3, ReportAppended
  <2> QED
    BY <2>1, <2>3, <2>4, ReportsOrNot
<1>3. Inv => ListingAgreesWithFat
  OBVIOUS
<1> QED
  BY <1>1, <1>2, <1>3, TypeCorrect, ChainCorrect, PTL DEF Spec

----------------------------------------------------------------------------
(***************************************************************************)
(* The walk's names, and the search that leaves them alone.                *)
(***************************************************************************)

Waits(q, c) == \E k \in DOMAIN q : q[k].first = c

\* Whatever a walked listing names waits in the queue or was taken from it.
NamesTaken ==
  \A j \in Walked : \A n \in NamedBy(j) : n.first \in named \/ Waits(pending, n.first)

\* The queue is empty before the search and after it.
QueueEmpty == phase \in {"search", "done"} => pending = <<>>

\* No orphan was named to the walk, and none is reported before the search.
OrphansUnnamed ==
  \A i \in Orphaned : phase \in {"search", "done"} /\ Clusters(reported[i])[1] \notin named

RefusalInv == ReadingFresh /\ NamesTaken /\ QueueEmpty /\ OrphansUnnamed

\* Everything the directory in hand names waits once it has been queued.
LEMMA ChildrenWait ==
  ASSUME NEW d \in Directory, NEW k \in Nat, NEW q \in Seq(Pending)
  PROVE  /\ q \o Children(d, k) \in Seq(Pending)
         /\ \A i \in DOMAIN q : \E m \in DOMAIN (q \o Children(d, k)) :
              (q \o Children(d, k))[m] = q[i]
         /\ \A n \in Elements(NamesOf(d)) : \E m \in DOMAIN (q \o Children(d, k)) :
              (q \o Children(d, k))[m].first = n.first
<1> DEFINE kids == Children(d, k)
           all == q \o kids
<1>1. kids \in Seq(Pending) /\ Len(kids) \in Nat /\ DOMAIN kids = 1 .. Len(kids)
  BY ChildrenType
<1>2. Len(q) \in Nat /\ DOMAIN q = 1 .. Len(q)
  OBVIOUS
<1>3. \A n \in Elements(NamesOf(d)) : \E i \in DOMAIN kids : kids[i].first = n.first
  BY DEF Elements, Children
<1> HIDE DEF kids
<1>4. /\ all \in Seq(Pending)
      /\ DOMAIN all = 1 .. Len(q) + Len(kids)
      /\ \A i \in 1 .. Len(q) : all[i] = q[i]
      /\ \A i \in 1 .. Len(kids) : all[Len(q) + i] = kids[i]
  BY <1>1, <1>2
<1> HIDE DEF all
<1>5. \A i \in DOMAIN q : \E m \in DOMAIN all : all[m] = q[i]
  BY <1>1, <1>2, <1>4
<1>6. \A i \in DOMAIN kids : \E m \in DOMAIN all : all[m] = kids[i]
  <2> SUFFICES ASSUME NEW i \in DOMAIN kids PROVE \E m \in DOMAIN all : all[m] = kids[i]
    OBVIOUS
  <2>1. Len(q) + i \in DOMAIN all
    BY <1>1, <1>2, <1>4
  <2> QED
    BY <1>1, <1>4, <2>1
<1>7. \A n \in Elements(NamesOf(d)) : \E m \in DOMAIN all : all[m].first = n.first
  BY <1>3, <1>6
<1> QED
  BY <1>4, <1>5, <1>7 DEF all, kids

\* A walked directory is reported and what it names joins the queue.
LEMMA NamesTakenReport ==
  ASSUME TypeOK, NamesTaken, NEW how \in {"root", "walked"}, Reports(how),
         NEW k \in Nat, pending' = pending \o Children(dir, k), named' = named
  PROVE  NamesTaken'
<1> DEFINE n == Len(reported)
<1>1. /\ n \in Nat
      /\ DOMAIN reported = 1 .. n
      /\ DOMAIN reported' = 1 .. n + 1
      /\ \A i \in 1 .. n : reported'[i] = reported[i]
      /\ reported'[n + 1].dir = dir
  BY ReportAppended DEF ReportOf
<1>2. /\ \A c : Waits(pending, c) => Waits(pending', c)
      /\ \A m \in Elements(NamesOf(dir)) : Waits(pending', m.first)
  <2>1. dir \in Directory /\ pending \in Seq(Pending)
    BY DEF TypeOK
  <2> DEFINE all == pending \o Children(dir, k)
  <2>2. /\ \A i \in DOMAIN pending : \E m \in DOMAIN all : all[m] = pending[i]
        /\ \A e \in Elements(NamesOf(dir)) : \E m \in DOMAIN all : all[m].first = e.first
    BY <2>1, ChildrenWait
  <2>3. pending' = all
    OBVIOUS
  <2> HIDE DEF all
  <2> QED
    BY <2>2, <2>3 DEF Waits
<1> SUFFICES ASSUME NEW j \in Walked', NEW m \in NamedBy(j)'
             PROVE  m.first \in named \/ Waits(pending', m.first)
  BY DEF NamesTaken
<1>3. j \in 1 .. n + 1 /\ m \in Elements(NamesOf(reported'[j].dir))
  BY <1>1 DEF Walked, NamedBy
<1>4. CASE j = n + 1
  BY <1>1, <1>2, <1>3, <1>4
<1>5. CASE j \in 1 .. n
  <2>1. j \in Walked /\ m \in NamedBy(j)
    BY <1>1, <1>3, <1>5 DEF Walked, NamedBy
  <2> QED
    BY <1>2, <2>1 DEF NamesTaken
<1> QED
  BY <1>1, <1>3, <1>4, <1>5

\* A directory leaves the queue for `named'.
LEMMA NamesTakenTake ==
  ASSUME TypeOK, NamesTaken, Take
  PROVE  NamesTaken'
<1>1. pending # <<>> /\ pending \in Seq(Pending)
  BY DEF Take, TypeOK
<1>2. \A i \in DOMAIN pending :
        i = 1 \/ (i - 1 \in DOMAIN Tail(pending) /\ Tail(pending)[i - 1] = pending[i])
  BY <1>1, HeadTailProperties
<1>3. Head(pending) = pending[1]
  BY <1>1
<1>4. \A c : Waits(pending, c) => c \in named' \/ Waits(pending', c)
  <2> SUFFICES ASSUME NEW k \in DOMAIN pending
               PROVE  pending[k].first \in named' \/ Waits(pending', pending[k].first)
    BY DEF Waits
  <2>1. CASE k = 1
    BY <1>3, <2>1 DEF Take
  <2>2. CASE k # 1
    BY <1>2, <2>2 DEF Take, Waits
  <2> QED
    BY <2>1, <2>2
<1>5. reported' = reported /\ named \subseteq named'
  BY DEF Take
<1> QED
  BY <1>4, <1>5 DEF NamesTaken, Walked, NamedBy

\* An orphan is reported: the walked listings are what they were.
LEMMA RefusalOrphan ==
  ASSUME TypeOK, ChainInv, RefusalInv, OrphanListed, Reports("orphaned")
  PROVE  NamesTaken' /\ OrphansUnnamed'
<1> DEFINE n == Len(reported)
<1>1. /\ n \in Nat
      /\ DOMAIN reported = 1 .. n
      /\ DOMAIN reported' = 1 .. n + 1
      /\ \A i \in 1 .. n : reported'[i] = reported[i]
      /\ reported'[n + 1].reached = "orphaned"
      /\ reported'[n + 1].dir = dir
  BY ReportAppended DEF ReportOf
<1>2. dir.clusters = <<cursor>> /\ cursor \notin named
  BY DEF OrphanListed, RefusalInv, ReadingFresh, ChainInv, ChainFree
<1>3. phase' = "search" /\ named' = named /\ pending' = pending
  BY DEF OrphanListed
<1>4. NamesTaken'
  <2>1. \A j \in Walked' : j \in Walked /\ NamedBy(j)' = NamedBy(j)
    BY <1>1 DEF Walked, NamedBy
  <2>2. \A j \in Walked' : \A m \in NamedBy(j)' : m.first \in named \/ Waits(pending, m.first)
    BY <2>1 DEF RefusalInv, NamesTaken
  <2> QED
    BY <1>3, <2>2 DEF NamesTaken, Waits
<1>5. OrphansUnnamed'
  <2> SUFFICES ASSUME NEW i \in Orphaned' PROVE Clusters(reported'[i])[1] \notin named
    BY <1>3 DEF OrphansUnnamed, Clusters
  <2>1. i \in 1 .. n + 1
    BY <1>1 DEF Orphaned
  <2>2. CASE i = n + 1
    BY <1>1, <1>2, <2>2 DEF Clusters
  <2>3. CASE i \in 1 .. n
    <3>1. i \in Orphaned /\ Clusters(reported'[i]) = Clusters(reported[i])
      BY <1>1, <2>3 DEF Orphaned, Clusters
    <3> QED
      BY <3>1 DEF RefusalInv, OrphansUnnamed
  <2> QED
    BY <1>1, <2>1, <2>2, <2>3
<1> QED
  BY <1>4, <1>5

\* Before the search there is no orphan to keep apart.
LEMMA NoOrphanWalking ==
  ASSUME TypeOK, RefusalInv, phase \in {"root", "walk"}, NEW how \in {"root", "walked"},
         Reports(how)
  PROVE  OrphansUnnamed'
<1> DEFINE n == Len(reported)
<1>1. /\ DOMAIN reported = 1 .. n
      /\ DOMAIN reported' = 1 .. n + 1
      /\ n \in Nat
      /\ \A i \in 1 .. n : reported'[i] = reported[i]
      /\ reported'[n + 1].reached # "orphaned"
  BY ReportAppended DEF ReportOf
<1>2. Orphaned = {}
  BY DEF RefusalInv, OrphansUnnamed
<1>3. Orphaned' = {}
  BY <1>1, <1>2 DEF Orphaned
<1> QED
  BY <1>3 DEF OrphansUnnamed

\* Every step keeps the names and the search apart.
THEOREM RefusalInvariant == Spec => []RefusalInv
<1>1. Init => RefusalInv
  BY DEF Init, Start, RefusalInv, ReadingFresh, NamesTaken, QueueEmpty, OrphansUnnamed,
     Walked, Orphaned
<1>2. TypeOK /\ ChainInv /\ RefusalInv /\ [Next]_vars => RefusalInv'
  <2> SUFFICES ASSUME TypeOK, ChainInv, RefusalInv, [Next]_vars PROVE RefusalInv'
    OBVIOUS
  <2>1. ReadingFresh'
    BY ReadingFreshStep DEF RefusalInv
  <2>2. CASE RootListed
    <3>1. Reports("root")
      BY <2>2 DEF RootListed, Reports, RefusalInv, ReadingFresh
    <3>2. NamesTaken'
      BY <2>2, <3>1, NamesTakenReport DEF RootListed, RefusalInv
    <3>3. OrphansUnnamed'
      BY <2>2, <3>1, NoOrphanWalking DEF RootListed
    <3> QED
      BY <2>1, <2>2, <3>2, <3>3 DEF RootListed, RefusalInv, QueueEmpty
  <2>3. CASE SubdirectoryListed
    <3>1. Reports("walked")
      BY <2>3 DEF SubdirectoryListed, Withheld, CrossLinked, Reports
    <3>2. NamesTaken'
      <4>1. job.depth \in Nat
        BY DEF TypeOK, Job
      <4> QED
        BY <2>3, <3>1, <4>1, NamesTakenReport DEF SubdirectoryListed, RefusalInv
    <3>3. OrphansUnnamed'
      BY <2>3, <3>1, NoOrphanWalking DEF SubdirectoryListed
    <3> QED
      BY <2>1, <2>3, <3>2, <3>3 DEF SubdirectoryListed, RefusalInv, QueueEmpty
  <2>4. CASE OrphanListed
    <3>1. dir.clusters = <<cursor>> /\ cursor \notin seen
      BY <2>4 DEF OrphanListed, RefusalInv, ReadingFresh, ChainInv, ChainFree
    <3>2. Elements(dir.clusters) = {cursor}
      BY <3>1 DEF Elements
    <3>3. Reports("orphaned")
      BY <2>4, <3>1, <3>2 DEF OrphanListed, Reports
    <3>4. NamesTaken' /\ OrphansUnnamed'
      BY <2>4, <3>3, RefusalOrphan
    <3> QED
      BY <2>1, <2>4, <3>4 DEF OrphanListed, RefusalInv, QueueEmpty
  <2>5. CASE TakeDeclined \/ TakeRefused \/ TakeOpened
    <3>1. Take
      BY <2>5 DEF TakeDeclined, TakeRefused, TakeOpened
    <3>2. NamesTaken'
      BY <3>1, NamesTakenTake DEF RefusalInv
    <3>3. Orphaned = {} /\ reported' = reported /\ phase' = "walk"
      BY <3>1 DEF Take, RefusalInv, OrphansUnnamed
    <3> QED
      BY <2>1, <3>2, <3>3 DEF RefusalInv, QueueEmpty, OrphansUnnamed, Orphaned
  <2>6. CASE RootUnread
    <3>1. reported = <<>> /\ pending = <<>> /\ reported' = reported /\ pending' = pending
      BY <2>6 DEF RootUnread, RefusalInv, ReadingFresh
    <3> QED
      BY <2>1, <3>1 DEF RefusalInv, NamesTaken, QueueEmpty, OrphansUnnamed, Walked, Orphaned
  <2>7. CASE WalkEnds
    BY <2>1, <2>7 DEF WalkEnds, RefusalInv, NamesTaken, QueueEmpty, OrphansUnnamed, Walked,
       NamedBy, Orphaned, Waits
  <2>8. CASE Enumerate \/ SubdirectoryUnread \/ SubdirectoryWithheld \/ PassOver \/ OpenOrphan
             \/ StopSearch \/ OrphanUnread \/ SearchEnds \/ UNCHANGED vars
    <3>1. /\ UNCHANGED <<reported, named, pending>>
          /\ \/ phase' = phase
             \/ phase \in {"search", "done"} /\ phase' \in {"search", "done"}
      BY <2>8 DEF Enumerate, SubdirectoryUnread, SubdirectoryWithheld, PassOver, OpenOrphan,
         StopSearch, Visit, OrphanUnread, SearchEnds, vars
    <3> QED
      BY <2>1, <3>1 DEF RefusalInv, NamesTaken, QueueEmpty, OrphansUnnamed, Walked, NamedBy,
         Orphaned, Waits
  <2> QED
    BY <2>2, <2>3, <2>4, <2>5, <2>6, <2>7, <2>8 DEF Next, Finished
<1> QED
  BY <1>1, <1>2, TypeCorrect, ChainCorrect, PTL DEF Spec

\* The search never re-asserts what the walk declined, on any volume.
THEOREM RefusalStandsCorrect == Spec => []RefusalStands
<1>1. RefusalInv => RefusalStands
  <2> SUFFICES ASSUME RefusalInv, NEW i \in Orphaned, NEW j \in Walked, NEW n \in NamedBy(j)
               PROVE  n.first # Clusters(reported[i])[1]
    BY DEF RefusalStands
  <2>1. pending = <<>> /\ Clusters(reported[i])[1] \notin named
    BY DEF RefusalInv, OrphansUnnamed, QueueEmpty
  <2>2. n.first \in named
    BY <2>1 DEF RefusalInv, NamesTaken, Waits
  <2> QED
    BY <2>1, <2>2
<1> QED
  BY <1>1, RefusalInvariant, PTL

----------------------------------------------------------------------------
(***************************************************************************)
(* No gap, and no orphan missed.                                           *)
(***************************************************************************)

\* `seen' holds nothing but the clusters of the reports.
SeenReported ==
  \A c \in seen : \E j \in DOMAIN reported : c \in Elements(Clusters(reported[j]))

\* The chain begins where the directory was said to begin.
FirstInChain ==
  /\ step = "reading" /\ dir.clusters = <<>> => cluster = job.first
  /\ step \in {"reading", "listed"} /\ dir.clusters # <<>> => dir.clusters[1] = job.first
  /\ step = "listed" => dir.clusters # <<>>

\* As long as nothing is counted as unread, what the walk took it read, or has
\* in hand.
NamedAccounted ==
  counts.directories_unread = 0 =>
    \A c \in named : c \in seen \/ (phase = "walk" /\ step # "idle" /\ job.first = c)

\* What the orphaned listings name is kept for the search's last check.
ListedNames == \A i \in Orphaned : NamedBy(i) \subseteq Elements(listed)

NoneCounted ==
  /\ counts.root_unread = 0
  /\ counts.directories_unread = 0
  /\ counts.orphan_search_stopped = 0

\* A search that came to its end and counted nothing read what was listed.
SearchSettled ==
  phase = "done" /\ NoneCounted => \A i \in DOMAIN listed : listed[i].first \in seen

\* Nothing is read once the volume is done.
DoneIdle == phase = "done" => step = "idle"

GapInv ==
  /\ SeenReported /\ FirstInChain /\ NamedAccounted /\ ListedNames /\ SearchSettled /\ DoneIdle

\* A report adds its own clusters to `seen' and to what is reported.
LEMMA SeenReportedStep ==
  ASSUME TypeOK, ChainInv, ReadingFresh, SeenReported, [Next]_vars
  PROVE  SeenReported'
<1>1. CASE UNCHANGED <<reported, seen>>
  BY <1>1 DEF SeenReported, Clusters
<1>2. ASSUME NEW how \in {"root", "walked", "orphaned"}, Reports(how)
      PROVE  SeenReported'
  <2> DEFINE n == Len(reported)
  <2>1. /\ n \in Nat
        /\ DOMAIN reported = 1 .. n
        /\ DOMAIN reported' = 1 .. n + 1
        /\ \A i \in 1 .. n : reported'[i] = reported[i]
        /\ reported'[n + 1].dir = dir
    BY <1>2, ReportAppended DEF ReportOf
  <2> SUFFICES ASSUME NEW c \in seen'
               PROVE  \E j \in DOMAIN reported' : c \in Elements(Clusters(reported'[j]))
    BY DEF SeenReported, Clusters
  <2>2. CASE c \in seen
    <3>1. PICK j \in DOMAIN reported : c \in Elements(Clusters(reported[j]))
      BY <2>2 DEF SeenReported
    <3>2. j \in DOMAIN reported' /\ reported'[j] = reported[j]
      BY <2>1, <3>1
    <3> QED
      BY <3>1, <3>2
  <2>3. CASE c \in Elements(dir.clusters)
    <3>1. n + 1 \in DOMAIN reported'
      BY <2>1
    <3>2. c \in Elements(Clusters(reported'[n + 1]))
      BY <2>1, <2>3 DEF Clusters
    <3> QED
      BY <3>1, <3>2
  <2> QED
    BY <1>2, <2>2, <2>3 DEF Reports
<1> QED
  BY <1>1, <1>2, ReportsOrNot

\* Reading on leaves the first cluster of the chain where it was.
LEMMA FirstInChainStep ==
  ASSUME TypeOK, FirstInChain, [Next]_vars
  PROVE  FirstInChain'
<1>1. CASE Enumerate
  <2>1. CASE RefuseChain \/ EvidenceFails
    BY <2>1 DEF RefuseChain, EvidenceFails, FirstInChain
  <2>2. CASE ReadCluster
    <3>1. cluster \in Cluster
      BY <2>2 DEF ReadCluster, ChainRefused
    <3>2. dir'.clusters = Append(dir.clusters, cluster)
      BY <2>2, <3>1, WithClusterType DEF ReadCluster
    <3>3. step = "reading" /\ job' = job
      BY <2>2 DEF ReadCluster
    <3>4. dir.clusters \in Seq(Cluster)
      BY DEF TypeOK, Directory
    <3>5. dir'.clusters # <<>> /\ dir'.clusters[1] = job.first
      <4>1. CASE dir.clusters = <<>>
        BY <3>1, <3>2, <3>3, <3>4, <4>1 DEF FirstInChain
      <4>2. CASE dir.clusters # <<>>
        BY <3>1, <3>2, <3>3, <3>4, <4>2 DEF FirstInChain
      <4> QED
        BY <4>1, <4>2
    <3> QED
      BY <3>3, <3>5 DEF FirstInChain
  <2> QED
    BY <1>1, <2>1, <2>2 DEF Enumerate
<1>2. CASE RootUnread \/ RootListed \/ SubdirectoryUnread \/ SubdirectoryWithheld
           \/ SubdirectoryListed \/ OrphanUnread \/ OrphanListed
  <2>1. step' = "idle"
    BY <1>2 DEF RootUnread, RootListed, SubdirectoryUnread, SubdirectoryWithheld,
       SubdirectoryListed, OrphanUnread, OrphanListed, Return
  <2> QED
    BY <2>1 DEF FirstInChain
<1>3. CASE TakeOpened \/ OpenOrphan
  <2>1. PICK j : Begin(j)
    BY <1>3 DEF TakeOpened, OpenOrphan
  <2> QED
    BY <2>1 DEF Begin, EmptyDirectory, FirstInChain
<1>4. CASE TakeDeclined \/ TakeRefused \/ WalkEnds \/ PassOver \/ StopSearch \/ SearchEnds
           \/ UNCHANGED vars
  <2>1. UNCHANGED enumeration
    BY <1>4 DEF TakeDeclined, TakeRefused, WalkEnds, PassOver, StopSearch, SearchEnds, vars,
       enumeration
  <2> QED
    BY <2>1 DEF enumeration, FirstInChain
<1> QED
  BY <1>1, <1>2, <1>3, <1>4 DEF Next, Finished

\* A directory in hand is reported with its first cluster, or counted.
LEMMA NamedAccountedStep ==
  ASSUME TypeOK, ReadingFresh, FirstInChain, DoneIdle, NamedAccounted, [Next]_vars
  PROVE  NamedAccounted'
<1> USE DEF NamedAccounted
<1>0. counts \in Counts
  BY DEF TypeOK
<1>1. CASE Enumerate
  BY <1>1 DEF Enumerate, RefuseChain, EvidenceFails, ReadCluster
<1>2. CASE TakeDeclined \/ TakeRefused \/ SubdirectoryUnread \/ SubdirectoryWithheld
  <2>1. counts' = WithUnread(counts, 1)
    BY <1>2 DEF TakeDeclined, TakeRefused, SubdirectoryUnread, SubdirectoryWithheld
  <2>2. counts'.directories_unread # 0
    BY <1>0, <2>1 DEF WithUnread, Counts
  <2> QED
    BY <2>2
<1>3. CASE RootUnread \/ RootListed
  <2>1. named' = {}
    BY <1>3 DEF RootUnread, RootListed, ReadingFresh
  <2> QED
    BY <2>1
<1>4. CASE TakeOpened
  <2>1. /\ step = "idle" /\ phase' = "walk" /\ step' = "reading" /\ seen' = seen
        /\ named' = named \cup {Head(pending).first} /\ job' = Head(pending)
        /\ counts' = counts
    BY <1>4 DEF TakeOpened, Take, Begin
  <2> QED
    BY <2>1
<1>5. CASE SubdirectoryListed
  <2>1. /\ counts'.directories_unread = counts.directories_unread
        /\ named' = named /\ seen' = seen \cup Elements(dir.clusters)
    BY <1>0, <1>5 DEF SubdirectoryListed, WithReport, Counts
  <2>2. job.first \in Elements(dir.clusters)
    <3>1. dir.clusters \in Seq(Cluster) /\ dir.clusters # <<>> /\ dir.clusters[1] = job.first
      BY <1>5 DEF SubdirectoryListed, FirstInChain, TypeOK, Directory
    <3>2. 1 \in DOMAIN dir.clusters
      BY <3>1
    <3> QED
      BY <3>1, <3>2 DEF Elements
  <2> QED
    BY <2>1, <2>2
<1>6. CASE WalkEnds
  BY <1>6 DEF WalkEnds
<1>7. CASE PassOver \/ OpenOrphan \/ StopSearch \/ OrphanUnread \/ OrphanListed \/ SearchEnds
  <2>1. phase = "search" /\ named' = named /\ seen \subseteq seen'
    BY <1>7 DEF PassOver, OpenOrphan, StopSearch, OrphanUnread, OrphanListed, SearchEnds, Visit
  <2>2. counts'.directories_unread = 0 => counts.directories_unread = 0
    BY <1>0, <1>7, ListedUnreadFinite
      DEF PassOver, OpenOrphan, StopSearch, OrphanUnread, OrphanListed, SearchEnds, Visit,
          WithStop, WithReport, WithUnread, Counts
  <2> QED
    BY <2>1, <2>2
<1>8. CASE UNCHANGED vars
  BY <1>8 DEF vars
<1> QED
  BY <1>1, <1>2, <1>3, <1>4, <1>5, <1>6, <1>7, <1>8 DEF Next, Finished

\* What one more sequence adds at the end takes nothing away.
LEMMA ElementsJoined ==
  ASSUME NEW T, NEW s \in Seq(T), NEW t \in Seq(T)
  PROVE  Elements(s \o t) = Elements(s) \cup Elements(t)
<1> DEFINE u == s \o t
<1>1. /\ DOMAIN s = 1 .. Len(s) /\ Len(s) \in Nat
      /\ DOMAIN t = 1 .. Len(t) /\ Len(t) \in Nat
      /\ DOMAIN u = 1 .. Len(s) + Len(t)
      /\ \A i \in 1 .. Len(s) : u[i] = s[i]
      /\ \A i \in 1 .. Len(t) : u[Len(s) + i] = t[i]
  OBVIOUS
<1> HIDE DEF u
<1>2. Elements(s) \subseteq Elements(u)
  BY <1>1 DEF Elements
<1>3. Elements(t) \subseteq Elements(u)
  <2> SUFFICES ASSUME NEW i \in DOMAIN t PROVE t[i] \in Elements(u)
    BY DEF Elements
  <2>1. Len(s) + i \in DOMAIN u /\ u[Len(s) + i] = t[i]
    BY <1>1
  <2> QED
    BY <2>1 DEF Elements
<1>4. Elements(u) \subseteq Elements(s) \cup Elements(t)
  <2> SUFFICES ASSUME NEW i \in DOMAIN u PROVE u[i] \in Elements(s) \cup Elements(t)
    BY DEF Elements
  <2>1. CASE i \in 1 .. Len(s)
    BY <1>1, <2>1 DEF Elements
  <2>2. CASE i \notin 1 .. Len(s)
    <3>1. i - Len(s) \in 1 .. Len(t) /\ Len(s) + (i - Len(s)) = i
      BY <1>1, <2>2
    <3>2. u[i] = t[i - Len(s)]
      BY <1>1, <3>1
    <3> QED
      BY <1>1, <3>1, <3>2 DEF Elements
  <2> QED
    BY <2>1, <2>2
<1> QED
  BY <1>2, <1>3, <1>4 DEF u

\* Each orphan's names are listed with it.
LEMMA ListedNamesStep ==
  ASSUME TypeOK, ChainInv, RefusalInv, ListedNames, [Next]_vars
  PROVE  ListedNames'
<1>1. CASE OrphanListed
  <2> DEFINE n == Len(reported)
  <2>1. dir.clusters = <<cursor>> /\ cursor \notin seen
    BY <1>1 DEF OrphanListed, RefusalInv, ReadingFresh, ChainInv, ChainFree
  <2>2. Elements(dir.clusters) = {cursor}
    BY <2>1 DEF Elements
  <2>3. Reports("orphaned")
    BY <1>1, <2>1, <2>2 DEF OrphanListed, Reports
  <2>4. /\ n \in Nat
        /\ DOMAIN reported = 1 .. n
        /\ DOMAIN reported' = 1 .. n + 1
        /\ \A i \in 1 .. n : reported'[i] = reported[i]
        /\ reported'[n + 1].dir = dir
    BY <2>3, ReportAppended DEF ReportOf
  <2>5. Elements(listed') = Elements(listed) \cup Elements(NamesOf(dir))
    <3>1. listed \in Seq(Name) /\ NamesOf(dir) \in Seq(Name)
      BY NamesType DEF TypeOK
    <3> QED
      BY <1>1, <3>1, ElementsJoined DEF OrphanListed
  <2> SUFFICES ASSUME NEW i \in Orphaned' PROVE NamedBy(i)' \subseteq Elements(listed')
    BY DEF ListedNames
  <2>6. i \in 1 .. n + 1 /\ NamedBy(i)' = Elements(NamesOf(reported'[i].dir))
    BY <2>4 DEF Orphaned, NamedBy
  <2>7. CASE i = n + 1
    BY <2>4, <2>5, <2>6, <2>7
  <2>8. CASE i \in 1 .. n
    <3>1. i \in Orphaned /\ NamedBy(i)' = NamedBy(i)
      BY <2>4, <2>6, <2>8 DEF Orphaned, NamedBy
    <3> QED
      BY <2>5, <3>1 DEF ListedNames
  <2> QED
    BY <2>4, <2>6, <2>7, <2>8
<1>2. CASE RootListed \/ SubdirectoryListed
  <2>1. PICK how \in {"root", "walked"} : Reports(how)
    BY <1>2 DEF RootListed, SubdirectoryListed, Withheld, CrossLinked, Reports, RefusalInv,
       ReadingFresh
  <2>2. Orphaned = {} /\ phase \in {"root", "walk"}
    BY <1>2 DEF RootListed, SubdirectoryListed, RefusalInv, OrphansUnnamed
  <2> DEFINE n == Len(reported)
  <2>3. /\ DOMAIN reported = 1 .. n
        /\ DOMAIN reported' = 1 .. n + 1
        /\ n \in Nat
        /\ \A i \in 1 .. n : reported'[i] = reported[i]
        /\ reported'[n + 1].reached # "orphaned"
    BY <2>1, ReportAppended DEF ReportOf
  <2>4. Orphaned' = {}
    BY <2>2, <2>3 DEF Orphaned
  <2> QED
    BY <2>4 DEF ListedNames
<1>3. CASE UNCHANGED <<reported, listed>>
  BY <1>3 DEF ListedNames, Orphaned, NamedBy
<1> QED
  BY <1>1, <1>2, <1>3 DEF Next, Finished, vars, Enumerate, RootUnread, TakeDeclined, TakeRefused,
     TakeOpened, Take, SubdirectoryUnread, SubdirectoryWithheld, WalkEnds, PassOver, OpenOrphan,
     StopSearch, Visit, OrphanUnread, SearchEnds

\* The search settles what was listed in its last step.
LEMMA SearchSettledStep ==
  ASSUME TypeOK, DoneIdle, SearchSettled, [Next]_vars
  PROVE  SearchSettled' /\ DoneIdle'
<1>0. counts \in Counts
  BY DEF TypeOK
<1>1. CASE RootUnread
  <2>1. counts'.root_unread # 0 /\ step' = "idle"
    BY <1>0, <1>1 DEF RootUnread, Return, Counts
  <2> QED
    BY <2>1 DEF SearchSettled, DoneIdle, NoneCounted
<1>2. CASE StopSearch \/ OrphanUnread
  <2>1. counts' = WithStop(counts) /\ step' = "idle"
    BY <1>2 DEF StopSearch, Visit, OrphanUnread, Return, enumeration
  <2>2. counts'.orphan_search_stopped # 0
    BY <1>0, <2>1 DEF WithStop, Counts
  <2> QED
    BY <2>1, <2>2 DEF SearchSettled, DoneIdle, NoneCounted
<1>3. CASE SearchEnds
  <2>1. /\ counts'.directories_unread = counts.directories_unread + Cardinality(ListedUnread)
        /\ UNCHANGED <<listed, seen, step>> /\ step = "idle"
    BY <1>0, <1>3 DEF SearchEnds, WithUnread, Counts, enumeration
  <2>2. counts'.directories_unread = 0 => Cardinality(ListedUnread) = 0
    BY <1>0, <2>1, ListedUnreadFinite DEF Counts
  <2>3. IsFiniteSet(ListedUnread)
    <3>1. Len(listed) \in Nat /\ DOMAIN listed = 1 .. Len(listed)
      BY DEF TypeOK
    <3>2. IsFiniteSet(1 .. Len(listed))
      BY <3>1, FS_Interval
    <3>3. ListedUnread \subseteq 1 .. Len(listed)
      BY <3>1 DEF ListedUnread
    <3> QED
      BY <3>2, <3>3, FS_Subset
  <2>4. Cardinality(ListedUnread) = 0 => ListedUnread = {}
    BY <2>3, FS_EmptySet
  <2> QED
    BY <2>1, <2>2, <2>4 DEF SearchSettled, DoneIdle, NoneCounted, ListedUnread
<1>4. CASE Enumerate
  <2>1. phase' # "done"
    BY <1>4 DEF Enumerate, DoneIdle, RefuseChain, EvidenceFails, ReadCluster
  <2> QED
    BY <2>1 DEF SearchSettled, DoneIdle
<1>5. CASE RootListed \/ TakeDeclined \/ TakeRefused \/ TakeOpened \/ SubdirectoryUnread
           \/ SubdirectoryWithheld \/ SubdirectoryListed \/ WalkEnds \/ PassOver \/ OpenOrphan
           \/ OrphanListed
  <2>1. phase' # "done"
    BY <1>5 DEF RootListed, TakeDeclined, TakeRefused, TakeOpened, Take, SubdirectoryUnread,
       SubdirectoryWithheld, SubdirectoryListed, WalkEnds, PassOver, OpenOrphan, Visit, OrphanListed
  <2> QED
    BY <2>1 DEF SearchSettled, DoneIdle
<1>6. CASE UNCHANGED vars
  BY <1>6 DEF vars, SearchSettled, DoneIdle, NoneCounted
<1> QED
  BY <1>1, <1>2, <1>3, <1>4, <1>5, <1>6 DEF Next, Finished

\* What was taken is accounted for in every state.
THEOREM GapInvariant == Spec => []GapInv
<1>1. Init => GapInv
  BY DEF Init, Start, GapInv, SeenReported, FirstInChain, NamedAccounted, ListedNames, Orphaned,
     SearchSettled, DoneIdle, EmptyDirectory
<1>2. TypeOK /\ ChainInv /\ RefusalInv /\ GapInv /\ [Next]_vars => GapInv'
  BY SeenReportedStep, FirstInChainStep, NamedAccountedStep, ListedNamesStep, SearchSettledStep
    DEF GapInv, RefusalInv
<1> QED
  BY <1>1, <1>2, TypeCorrect, ChainCorrect, RefusalInvariant, PTL DEF Spec

\* On any volume, a run that counts no gap has read every directory any of its
\* listings names.
THEOREM NoGapCorrect == Spec => []NoGapMeansAllRead
<1>1. RefusalInv /\ GapInv => NoGapMeansAllRead
  <2> SUFFICES ASSUME RefusalInv, GapInv, phase = "done", NoneCounted,
                      NEW i \in DOMAIN reported, NEW n \in NamedBy(i)
               PROVE  \E j \in DOMAIN reported : n.first \in Elements(Clusters(reported[j]))
    BY DEF NoGapMeansAllRead, NoneCounted
  <2>1. n.first \in seen
    <3>1. CASE i \in Walked
      <4>1. n.first \in named
        BY <3>1 DEF RefusalInv, NamesTaken, QueueEmpty, Waits
      <4> QED
        BY <4>1 DEF GapInv, NamedAccounted, NoneCounted
    <3>2. CASE i \notin Walked
      <4>1. n \in Elements(listed)
        BY <3>2 DEF Walked, Orphaned, GapInv, ListedNames
      <4> QED
        BY <4>1 DEF GapInv, SearchSettled, Elements
    <3> QED
      BY <3>1, <3>2
  <2> QED
    BY <2>1 DEF GapInv, SeenReported
<1> QED
  BY <1>1, GapInvariant, RefusalInvariant, PTL

\* What the walk was given some walked listing names.
NamedFrom ==
  \A c : c \in named \/ Waits(pending, c) => \E j \in Walked : \E n \in NamedBy(j) : n.first = c

\* A root that could not be read leaves a volume that was not analysed.
RootRead ==
  /\ phase = "root" => counts.root_unread = 0 /\ counts.volumes_analysed = 0
  /\ counts.root_unread > 0 => counts.volumes_analysed = 0

Gap(c) == fat[c] = Free /\ BeginsDirectory(c)

\* The search left behind it only what is listed, named, or no gap.
SearchPassed == \A c \in Cluster : c < cursor /\ Gap(c) => c \in seen \/ c \in named

\* A search that was not stopped came past the last cluster.
SearchOver ==
  phase = "done" /\ counts.root_unread = 0 /\ counts.orphan_search_stopped = 0 => SearchDone

MissInv == NamedFrom /\ RootRead /\ SearchPassed /\ SearchOver

\* What is queued for a listing is what the listing names.
LEMMA ChildrenNamed ==
  ASSUME TypeOK, NEW k \in Nat, NEW c, Waits(pending \o Children(dir, k), c)
  PROVE  Waits(pending, c) \/ \E n \in Elements(NamesOf(dir)) : n.first = c
<1> DEFINE kids == Children(dir, k)
           all == pending \o kids
<1>1. kids \in Seq(Pending) /\ pending \in Seq(Pending)
  BY ChildrenType DEF TypeOK
<1>2. \A i \in DOMAIN kids : \E n \in Elements(NamesOf(dir)) : n.first = kids[i].first
  BY DEF Children, Elements
<1>3. PICK m \in DOMAIN all : all[m].first = c
  BY DEF Waits
<1> HIDE DEF kids
<1>4. Elements(all) = Elements(pending) \cup Elements(kids)
  BY <1>1, ElementsJoined
<1>5. all[m] \in Elements(pending) \cup Elements(kids)
  BY <1>3, <1>4 DEF Elements
<1>6. CASE all[m] \in Elements(pending)
  BY <1>3, <1>6 DEF Elements, Waits
<1>7. CASE all[m] \in Elements(kids)
  <2>1. PICK i \in DOMAIN kids : kids[i] = all[m]
    BY <1>7 DEF Elements
  <2> QED
    BY <1>2, <1>3, <2>1
<1> QED
  BY <1>5, <1>6, <1>7

\* A report that queues what it names gives every queued name its listing.
LEMMA NamedFromReport ==
  ASSUME TypeOK, NamedFrom, NEW how \in {"root", "walked"}, Reports(how),
         NEW k \in Nat, pending' = pending \o Children(dir, k), named' = named
  PROVE  NamedFrom'
<1> DEFINE n == Len(reported)
<1>1. /\ n \in Nat
      /\ DOMAIN reported = 1 .. n
      /\ DOMAIN reported' = 1 .. n + 1
      /\ \A i \in 1 .. n : reported'[i] = reported[i]
      /\ reported'[n + 1].reached # "orphaned"
      /\ reported'[n + 1].dir = dir
  BY ReportAppended DEF ReportOf
<1>2. \A j \in Walked : j \in Walked' /\ NamedBy(j)' = NamedBy(j)
  BY <1>1 DEF Walked, NamedBy
<1>6. \E j \in Walked' : NamedBy(j)' = Elements(NamesOf(dir))
  <2>1. \A j : j = n + 1 => j \in Walked' /\ NamedBy(j)' = Elements(NamesOf(dir))
    BY <1>1 DEF Walked, NamedBy
  <2> QED
    BY <2>1
<1> SUFFICES ASSUME NEW c, c \in named \/ Waits(pending', c)
             PROVE  \E j \in Walked' : \E m \in NamedBy(j)' : m.first = c
  BY DEF NamedFrom
<1>3. c \in named \/ Waits(pending, c) \/ \E m \in Elements(NamesOf(dir)) : m.first = c
  BY ChildrenNamed
<1>4. CASE c \in named \/ Waits(pending, c)
  <2>1. PICK j \in Walked : \E m \in NamedBy(j) : m.first = c
    BY <1>4 DEF NamedFrom
  <2> QED
    BY <1>2, <2>1
<1>5. CASE \E m \in Elements(NamesOf(dir)) : m.first = c
  BY <1>6, <1>5
<1> QED
  BY <1>3, <1>4, <1>5

\* A directory taken off the queue is named by the listing that queued it.
LEMMA NamedFromTake ==
  ASSUME TypeOK, NamedFrom, Take
  PROVE  NamedFrom'
<1>1. pending # <<>> /\ pending \in Seq(Pending)
  BY DEF Take, TypeOK
<1>2. \A i \in DOMAIN Tail(pending) :
        i + 1 \in DOMAIN pending /\ Tail(pending)[i] = pending[i + 1]
  BY <1>1, HeadTailProperties
<1>3. 1 \in DOMAIN pending /\ Head(pending) = pending[1]
  BY <1>1
<1>4. \A c : c \in named' \/ Waits(pending', c) => c \in named \/ Waits(pending, c)
  BY <1>2, <1>3 DEF Take, Waits
<1>5. reported' = reported
  BY DEF Take
<1> QED
  BY <1>4, <1>5 DEF NamedFrom, Walked, NamedBy

\* Nothing is named from anywhere but a walked listing.
LEMMA NamedFromStep ==
  ASSUME TypeOK, ChainInv, RefusalInv, NamedFrom, [Next]_vars
  PROVE  NamedFrom'
<1>1. CASE RootListed
  <2>1. Reports("root")
    BY <1>1 DEF RootListed, Reports, RefusalInv, ReadingFresh
  <2> QED
    BY <1>1, <2>1, NamedFromReport DEF RootListed
<1>2. CASE SubdirectoryListed
  <2>1. Reports("walked")
    BY <1>2 DEF SubdirectoryListed, Withheld, CrossLinked, Reports
  <2>2. job.depth \in Nat
    BY DEF TypeOK, Job
  <2> QED
    BY <1>2, <2>1, <2>2, NamedFromReport DEF SubdirectoryListed
<1>3. CASE TakeDeclined \/ TakeRefused \/ TakeOpened
  BY <1>3, NamedFromTake DEF TakeDeclined, TakeRefused, TakeOpened
<1>4. CASE OrphanListed
  <2> DEFINE n == Len(reported)
  <2>1. dir.clusters = <<cursor>> /\ cursor \notin seen
    BY <1>4 DEF OrphanListed, RefusalInv, ReadingFresh, ChainInv, ChainFree
  <2>2. Elements(dir.clusters) = {cursor}
    BY <2>1 DEF Elements
  <2>3. Reports("orphaned")
    BY <1>4, <2>1, <2>2 DEF OrphanListed, Reports
  <2>4. /\ DOMAIN reported = 1 .. n
        /\ DOMAIN reported' = 1 .. n + 1
        /\ \A i \in 1 .. n : reported'[i] = reported[i]
        /\ n \in Nat
    BY <2>3, ReportAppended
  <2>5. \A j \in Walked : j \in Walked' /\ NamedBy(j)' = NamedBy(j)
    BY <2>4 DEF Walked, NamedBy
  <2>6. UNCHANGED <<named, pending>>
    BY <1>4 DEF OrphanListed
  <2> SUFFICES ASSUME NEW c, c \in named \/ Waits(pending, c)
               PROVE  \E j \in Walked' : \E m \in NamedBy(j)' : m.first = c
    BY <2>6 DEF NamedFrom, Waits
  <2>7. PICK j \in Walked : \E m \in NamedBy(j) : m.first = c
    BY DEF NamedFrom
  <2> QED
    BY <2>5, <2>7
<1>5. CASE UNCHANGED <<reported, named, pending>>
  BY <1>5 DEF NamedFrom, Walked, NamedBy, Waits
<1> QED
  BY <1>1, <1>2, <1>3, <1>4, <1>5 DEF Next, Finished, vars, Enumerate, RootUnread,
     SubdirectoryUnread, SubdirectoryWithheld, WalkEnds, PassOver, OpenOrphan,
     StopSearch, Visit, OrphanUnread, SearchEnds

\* The root is counted once, as read or as unread.
LEMMA RootReadStep ==
  ASSUME TypeOK, RootRead, [Next]_vars
  PROVE  RootRead'
<1>0. counts \in Counts
  BY DEF TypeOK
<1>1. CASE RootUnread
  <2>1. counts'.volumes_analysed = 0 /\ phase' = "done"
    BY <1>0, <1>1 DEF RootUnread, RootRead, Counts
  <2> QED
    BY <2>1 DEF RootRead
<1>2. CASE RootListed
  <2>1. counts.root_unread = 0
    BY <1>0, <1>2 DEF RootListed, RootRead, Counts
  <2>2. counts'.root_unread = 0 /\ phase' = "walk"
    BY <1>0, <1>2, <2>1 DEF RootListed, Counts
  <2> QED
    BY <2>2 DEF RootRead
<1>3. CASE Enumerate \/ UNCHANGED vars
  BY <1>3 DEF Enumerate, vars, RootRead
<1>4. CASE \/ TakeDeclined \/ TakeRefused \/ TakeOpened \/ SubdirectoryUnread
           \/ SubdirectoryWithheld \/ SubdirectoryListed \/ WalkEnds \/ PassOver \/ OpenOrphan
           \/ StopSearch \/ OrphanUnread \/ OrphanListed \/ SearchEnds
  <2>1. phase' # "root"
    BY <1>4 DEF TakeDeclined, TakeRefused, TakeOpened, Take, SubdirectoryUnread,
       SubdirectoryWithheld, SubdirectoryListed, WalkEnds, PassOver, OpenOrphan, StopSearch,
       Visit, OrphanUnread, OrphanListed, SearchEnds
  <2>2. /\ counts'.root_unread = counts.root_unread
        /\ counts'.volumes_analysed = counts.volumes_analysed
    BY <1>0, <1>4, ListedUnreadFinite DEF TakeDeclined, TakeRefused, TakeOpened,
       SubdirectoryUnread, SubdirectoryWithheld, SubdirectoryListed, WalkEnds, PassOver,
       OpenOrphan, StopSearch, OrphanUnread, OrphanListed, SearchEnds, WithUnread, WithReport,
       WithStop, Counts
  <2> QED
    BY <2>1, <2>2 DEF RootRead
<1> QED
  BY <1>1, <1>2, <1>3, <1>4 DEF Next, Finished

\* The search moves on from a cluster it reported, skipped or found no gap.
LEMMA SearchPassedStep ==
  ASSUME TypeOK, ReadingFresh, SearchPassed, [Next]_vars
  PROVE  SearchPassed'
<1>0. cursor \in Int /\ \A c \in Cluster : c \in Int
  BY DEF TypeOK, Cluster, FirstDataCluster
<1>1. UNCHANGED volume
  BY DEF Next, Finished, vars, Enumerate, RootUnread, RootListed, TakeDeclined,
     TakeRefused, TakeOpened, Take, SubdirectoryUnread, SubdirectoryWithheld,
     SubdirectoryListed, WalkEnds, PassOver, OpenOrphan, StopSearch, Visit, OrphanUnread,
     OrphanListed, SearchEnds, volume
<1>2. \A c \in Cluster : Gap(c)' = Gap(c)
  BY <1>1 DEF Gap, BeginsDirectory, volume
<1>3. CASE PassOver
  <2>1. cursor \in Cluster /\ Gap(cursor) => cursor \in seen \/ cursor \in named
    BY <1>3 DEF PassOver, SkippedBySearch, PassesFat, Gap
  <2>2. UNCHANGED <<seen, named>> /\ cursor' = cursor + 1 /\ phase = "search"
    BY <1>3 DEF PassOver, Visit
  <2> QED
    BY <1>0, <1>2, <2>1, <2>2 DEF SearchPassed
<1>4. CASE OrphanListed
  <2>1. /\ seen' = seen \cup {cursor} /\ named' = named /\ cursor' = cursor + 1
        /\ phase = "search"
    BY <1>4 DEF OrphanListed
  <2> QED
    BY <1>0, <1>2, <2>1 DEF SearchPassed
<1>5. CASE WalkEnds
  <2>1. cursor' = FirstDataCluster
    BY <1>5 DEF WalkEnds
  <2>2. \A c \in Cluster : ~(c < FirstDataCluster)
    BY DEF Cluster, FirstDataCluster
  <2> QED
    BY <2>1, <2>2 DEF SearchPassed
<1>6. CASE RootUnread \/ RootListed \/ TakeDeclined \/ TakeRefused \/ TakeOpened
           \/ SubdirectoryUnread \/ SubdirectoryWithheld \/ SubdirectoryListed
           \/ Enumerate \/ OpenOrphan \/ StopSearch \/ OrphanUnread \/ SearchEnds
           \/ UNCHANGED vars
  <2>1. cursor' = cursor
    BY <1>6 DEF RootUnread, RootListed, TakeDeclined, TakeRefused, TakeOpened, Take,
       SubdirectoryUnread, SubdirectoryWithheld, SubdirectoryListed, Enumerate, OpenOrphan,
       StopSearch, Visit, OrphanUnread, SearchEnds, vars
  <2>2. seen \subseteq seen' /\ named \subseteq named'
    BY <1>6 DEF RootUnread, RootListed, ReadingFresh, TakeDeclined, TakeRefused, TakeOpened, Take,
       SubdirectoryUnread, SubdirectoryWithheld, SubdirectoryListed, Enumerate, OpenOrphan,
       StopSearch, Visit, OrphanUnread, SearchEnds, vars
  <2> QED
    BY <1>2, <2>1, <2>2 DEF SearchPassed
<1> QED
  BY <1>3, <1>4, <1>5, <1>6 DEF Next, Finished

\* Only the search's last cluster, an unread root or a stop ends it.
LEMMA SearchOverStep ==
  ASSUME TypeOK, DoneIdle, SearchOver, [Next]_vars
  PROVE  SearchOver'
<1>0. counts \in Counts
  BY DEF TypeOK
<1>1. CASE RootUnread
  <2>1. counts'.root_unread # 0
    BY <1>0, <1>1 DEF RootUnread, Counts
  <2> QED
    BY <2>1 DEF SearchOver
<1>2. CASE StopSearch \/ OrphanUnread
  <2>1. counts' = WithStop(counts)
    BY <1>2 DEF StopSearch, OrphanUnread
  <2>2. counts'.orphan_search_stopped # 0
    BY <1>0, <2>1 DEF WithStop, Counts
  <2> QED
    BY <2>2 DEF SearchOver
<1>3. CASE SearchEnds
  BY <1>3 DEF SearchEnds, SearchOver, SearchDone
<1>4. CASE Enumerate
  <2>1. phase' # "done"
    BY <1>4 DEF Enumerate, DoneIdle, RefuseChain, EvidenceFails, ReadCluster
  <2> QED
    BY <2>1 DEF SearchOver
<1>5. CASE RootListed \/ TakeDeclined \/ TakeRefused \/ TakeOpened \/ SubdirectoryUnread
           \/ SubdirectoryWithheld \/ SubdirectoryListed \/ WalkEnds \/ PassOver \/ OpenOrphan
           \/ OrphanListed
  <2>1. phase' # "done"
    BY <1>5 DEF RootListed, TakeDeclined, TakeRefused, TakeOpened, Take, SubdirectoryUnread,
       SubdirectoryWithheld, SubdirectoryListed, WalkEnds, PassOver, OpenOrphan, Visit, OrphanListed
  <2> QED
    BY <2>1 DEF SearchOver
<1>6. CASE UNCHANGED vars
  BY <1>6 DEF vars, SearchOver, SearchDone
<1> QED
  BY <1>1, <1>2, <1>3, <1>4, <1>5, <1>6 DEF Next, Finished

\* The search leaves nothing behind it in any state.
THEOREM MissInvariant == Spec => []MissInv
<1>1. Init => MissInv
  <2> SUFFICES ASSUME Init PROVE MissInv
    OBVIOUS
  <2>1. \A c \in Cluster : ~(c < FirstDataCluster)
    BY DEF Cluster, FirstDataCluster
  <2> QED
    BY <2>1 DEF Init, Start, MissInv, NamedFrom, Waits, RootRead, SearchPassed, SearchOver
<1>2. TypeOK /\ ChainInv /\ RefusalInv /\ GapInv /\ MissInv /\ [Next]_vars => MissInv'
  BY NamedFromStep, RootReadStep, SearchPassedStep, SearchOverStep
    DEF GapInv, RefusalInv, MissInv
<1> QED
  BY <1>1, <1>2, TypeCorrect, ChainCorrect, RefusalInvariant, GapInvariant, PTL DEF Spec

\* On any volume, a search that was not stopped passed over no free cluster
\* with a directory's signature that is not listed and was not named.
THEOREM NoOrphanMissedCorrect == Spec => []NoOrphanMissed
<1>1. TypeOK /\ GapInv /\ MissInv => NoOrphanMissed
  <2> SUFFICES ASSUME TypeOK, GapInv, MissInv, phase = "done", counts.volumes_analysed = 1,
                      counts.orphan_search_stopped = 0, NEW c \in Cluster, Gap(c)
               PROVE  \/ \E i \in DOMAIN reported : c \in Elements(Clusters(reported[i]))
                      \/ \E i \in Walked : \E n \in NamedBy(i) : n.first = c
    BY DEF NoOrphanMissed, Gap, BeginsDirectory
  <2>1. counts.root_unread = 0
    BY DEF TypeOK, Counts, MissInv, RootRead
  <2>2. c < cursor
    BY <2>1, VolumeAssumption
      DEF MissInv, SearchOver, SearchDone, Cluster, FirstDataCluster, TypeOK
  <2>3. c \in seen \/ c \in named
    BY <2>2 DEF MissInv, SearchPassed
  <2> QED
    BY <2>3 DEF GapInv, SeenReported, MissInv, NamedFrom
<1> QED
  BY <1>1, TypeCorrect, GapInvariant, MissInvariant, PTL

----------------------------------------------------------------------------
(***************************************************************************)
(* One finding for each name.                                              *)
(***************************************************************************)

Found == Len(pending) + (IF step = "idle" THEN 0 ELSE 1)
           + (Len(reported) - 1) + counts.directories_unread

FindingInv ==
  /\ phase = "root" => reported = <<>> /\ pending = <<>> /\ counts.directories_unread = 0
  /\ phase = "walk" =>
       /\ \A i \in DOMAIN reported : reported[i].reached # "orphaned"
       /\ IsFiniteSet(Namings)
       /\ Cardinality(Namings) = Found

\* Two sets with nothing in common, the second of pairs with one first half.
LEMMA PairsAdded ==
  ASSUME NEW S, IsFiniteSet(S), NEW i, NEW m \in Nat, \A k \in 1 .. m : <<i, k>> \notin S
  PROVE  /\ IsFiniteSet(S \cup ({i} \X (1 .. m)))
         /\ Cardinality(S \cup ({i} \X (1 .. m))) = Cardinality(S) + m
<1> DEFINE P == {i} \X (1 .. m)
<1>1. IsFiniteSet({i}) /\ Cardinality({i}) = 1
  BY FS_Singleton
<1>2. IsFiniteSet(1 .. m) /\ Cardinality(1 .. m) = m
  BY FS_Interval
<1>3. IsFiniteSet(P) /\ Cardinality(P) = m
  <2>1. IsFiniteSet(P) /\ Cardinality(P) = Cardinality({i}) * Cardinality(1 .. m)
    BY ONLY <1>1, <1>2, FS_Product
  <2> HIDE DEF P
  <2>2. 1 * m = m
    BY ONLY m \in Nat
  <2> QED
    BY ONLY <1>1, <1>2, <2>1, <2>2
<1>4. S \cap P = {}
  OBVIOUS
<1>5. Cardinality(S \cap P) = 0
  BY <1>4, FS_EmptySet
<1> HIDE DEF P
<1>6. IsFiniteSet(S \cup P) /\ Cardinality(S \cup P) = Cardinality(S) + Cardinality(P) - 0
  BY <1>3, <1>5, FS_Union
<1>7. Cardinality(S) \in Nat
  BY FS_CardinalityType
<1>8. Cardinality(S \cup P) = Cardinality(S) + m
  BY ONLY <1>3, <1>6, <1>7, m \in Nat
<1> QED
  BY <1>6, <1>8 DEF P

\* What a walked directory names is named in one more listing, and queued.
LEMMA NamingsReport ==
  ASSUME TypeOK, NEW how \in {"root", "walked"}, Reports(how), IsFiniteSet(Namings),
         \A i \in DOMAIN reported : reported[i].reached # "orphaned", NEW depth \in Nat,
         pending' = pending \o Children(dir, depth)
  PROVE  /\ \A i \in DOMAIN reported' : reported'[i].reached # "orphaned"
         /\ IsFiniteSet(Namings')
         /\ Cardinality(Namings') = Cardinality(Namings) + (Len(pending') - Len(pending))
         /\ Len(reported') = Len(reported) + 1
<1> DEFINE n == Len(reported)
           names == NamesOf(dir)
           here(i) == DOMAIN NamesOf(reported[i].dir)
<1>1. /\ n \in Nat /\ DOMAIN reported = 1 .. n /\ DOMAIN reported' = 1 .. n + 1
      /\ \A i \in 1 .. n : reported'[i] = reported[i]
      /\ reported'[n + 1] = ReportOf(how)
  BY ReportAppended
<1>2. reported'[n + 1].dir = dir /\ reported'[n + 1].reached = how
  BY <1>1 DEF ReportOf
<1>3. names \in Seq(Name) /\ Len(names) \in Nat /\ DOMAIN names = 1 .. Len(names)
  BY NamesType DEF TypeOK
<1>4. Len(Children(dir, depth)) = Len(names) /\ Children(dir, depth) \in Seq(Pending)
  <2>1. DOMAIN Children(dir, depth) = DOMAIN names
    BY DEF Children
  <2>2. Children(dir, depth) \in Seq(Pending)
    BY ChildrenType DEF TypeOK
  <2> QED
    BY <1>3, <2>1, <2>2
<1>5. Len(pending') = Len(pending) + Len(names) /\ Len(pending) \in Nat
  <2>1. pending \in Seq(Pending)
    BY DEF TypeOK
  <2> QED
    <3>1. PICK kids : kids = Children(dir, depth)
      OBVIOUS
    <3>2. kids \in Seq(Pending) /\ Len(kids) = Len(names) /\ pending' = pending \o kids
      BY <1>4, <3>1
    <3> HIDE DEF names
    <3>3. Len(pending \o kids) = Len(pending) + Len(kids)
      BY ONLY <2>1, <3>2, ConcatProperties
    <3>4. Len(pending) \in Nat
      BY ONLY <2>1
    <3> QED
      BY ONLY <3>2, <3>3, <3>4
<1>6. \A i \in DOMAIN reported' : reported'[i].reached # "orphaned"
  BY <1>1, <1>2
<1> HIDE DEF n, names
<1>7. Walked = 1 .. n /\ Walked' = (1 .. n) \cup {n + 1}
  <2>1. Walked = DOMAIN reported /\ Walked' = DOMAIN reported'
    BY <1>6 DEF Walked
  <2> QED
    BY ONLY <1>1, <2>1
<1>8. Namings = UNION {{i} \X here(i) : i \in 1 .. n}
  BY <1>7 DEF Namings
<1>9. Namings' = Namings \cup ({n + 1} \X (1 .. Len(names)))
  <2>1. \A i \in 1 .. n : DOMAIN NamesOf(reported'[i].dir) = here(i)
    BY <1>1
  <2>2. DOMAIN NamesOf(reported'[n + 1].dir) = 1 .. Len(names)
    BY <1>2, <1>3 DEF names
  <2>3. Namings' = UNION {{i} \X DOMAIN NamesOf(reported'[i].dir) : i \in (1 .. n) \cup {n + 1}}
    BY <1>7 DEF Namings, NamesOf
  <2> QED
    BY ONLY <1>8, <2>1, <2>2, <2>3
<1>10. \A k \in 1 .. Len(names) : <<n + 1, k>> \notin Namings
  BY ONLY <1>1, <1>8
<1>11. IsFiniteSet(Namings') /\ Cardinality(Namings') = Cardinality(Namings) + Len(names)
  BY ONLY <1>3, <1>9, <1>10, IsFiniteSet(Namings), PairsAdded
<1>12. Len(pending') - Len(pending) = Len(names)
  BY ONLY <1>3, <1>5
<1>13. reported \in Seq(Report) /\ Len(reported') = Len(reported) + 1
  BY ReportType DEF TypeOK, Reports
<1> QED
  BY <1>6, <1>11, <1>12, <1>13

\* Nothing of what is counted moves, or one name becomes its finding.
Quiet ==
  /\ UNCHANGED <<pending, reported>>
  /\ counts'.directories_unread = counts.directories_unread
  /\ step = "idle" <=> step' = "idle"

Unread ==
  /\ UNCHANGED reported
  /\ counts'.directories_unread = counts.directories_unread + 1
  /\ \/ pending' = Tail(pending) /\ pending # <<>> /\ step' = step
     \/ pending' = pending /\ step # "idle" /\ step' = "idle"

Opened ==
  /\ UNCHANGED reported
  /\ counts'.directories_unread = counts.directories_unread
  /\ pending' = Tail(pending) /\ pending # <<>> /\ step = "idle" /\ step' # "idle"

LEMMA CountsMoved ==
  ASSUME NEW c \in Counts, NEW b
  PROVE  /\ WithUnread(c, 1).directories_unread = c.directories_unread + 1
         /\ WithReport(c, b).directories_unread = c.directories_unread
         /\ WithStop(c).directories_unread = c.directories_unread
         /\ [c EXCEPT !.volumes_analysed = @ + 1].directories_unread = c.directories_unread
BY DEF WithUnread, WithReport, WithStop, Counts

LEMMA WalkMoves ==
  ASSUME TypeOK, phase = "walk", phase' = "walk", [Next]_vars, ~SubdirectoryListed
  PROVE  Quiet \/ Unread \/ Opened
<1>1. CASE Enumerate
  BY <1>1 DEF Enumerate, RefuseChain, EvidenceFails, ReadCluster, Quiet
<1>2. counts \in Counts
  BY DEF TypeOK
<1>3. CASE TakeDeclined \/ TakeRefused
  BY <1>2, <1>3, CountsMoved DEF TakeDeclined, TakeRefused, Take, enumeration, Unread
<1>4. CASE TakeOpened
  BY <1>4 DEF TakeOpened, Take, Begin, Opened
<1>5. CASE SubdirectoryUnread \/ SubdirectoryWithheld
  BY <1>2, <1>5, CountsMoved DEF SubdirectoryUnread, SubdirectoryWithheld, Return, Unread
<1>6. CASE UNCHANGED vars
  BY <1>6 DEF vars, Quiet
<1> QED
  BY <1>1, <1>3, <1>4, <1>5, <1>6 DEF Next, RootUnread, RootListed, WalkEnds, PassOver, OpenOrphan,
     StopSearch, Visit, OrphanUnread, OrphanListed, SearchEnds, Finished

LEMMA FindingMoves ==
  ASSUME TypeOK, FindingInv, phase = "walk", phase' = "walk", Quiet \/ Unread \/ Opened
  PROVE  FindingInv'
<1>1. reported' = reported
  BY DEF Quiet, Unread, Opened
<1>2. Namings' = Namings
  BY <1>1 DEF Namings, Walked, NamesOf
<1>3. Len(pending) \in Nat /\ Len(reported) \in Nat /\ counts.directories_unread \in Nat
  BY DEF TypeOK, Counts
<1>4. pending # <<>> => Len(Tail(pending)) = Len(pending) - 1
  BY EmptySeq, HeadTailProperties DEF TypeOK
<1>5. Found' = Found
  <2> DEFINE p == Len(pending)
             q == Len(pending')
             r == Len(reported)
             u == counts.directories_unread
             v == counts'.directories_unread
             a == IF step = "idle" THEN 0 ELSE 1
             b == IF step' = "idle" THEN 0 ELSE 1
  <2>1. /\ Found = p + a + (r - 1) + u
        /\ Found' = q + b + (r - 1) + v
    BY <1>1 DEF Found
  <2>2. \/ q = p /\ a = b /\ v = u
        \/ q = p - 1 /\ a = b /\ v = u + 1
        \/ q = p /\ a = 1 /\ b = 0 /\ v = u + 1
        \/ q = p - 1 /\ a = 0 /\ b = 1 /\ v = u
    BY <1>4 DEF Quiet, Unread, Opened
  <2>3. p \in Nat /\ r \in Nat /\ u \in Nat /\ a \in Nat
    BY <1>3
  <2> HIDE DEF p, q, r, u, v, a, b
  <2> QED
    BY ONLY <2>1, <2>2, <2>3
<1> QED
  BY <1>1, <1>2, <1>5 DEF FindingInv

LEMMA FindingStep ==
  ASSUME TypeOK, ChainInv, ReadingFresh, FindingInv, [Next]_vars
  PROVE  FindingInv'
<1>1. /\ Len(pending) \in Nat /\ Len(reported) \in Nat /\ counts.directories_unread \in Nat
      /\ counts \in Counts /\ job.depth \in Nat /\ pending \in Seq(Pending)
  BY DEF TypeOK, Counts, Job
<1>2. CASE RootListed
  <2>1. /\ phase = "root" /\ phase' = "walk" /\ step' = "idle"
        /\ counts' = [counts EXCEPT !.volumes_analysed = @ + 1]
        /\ pending' = pending \o Children(dir, 0)
    BY <1>2 DEF RootListed, Return
  <2>2. Reports("root")
    <3>1. seen = {}
      BY <1>2 DEF RootListed, ReadingFresh
    <3> QED
      BY <1>2, <3>1 DEF RootListed, Reports
  <2>3. reported = <<>> /\ pending = <<>> /\ counts.directories_unread = 0
    BY <2>1 DEF FindingInv
  <2>4. Namings = {}
    BY <2>3 DEF Namings, Walked
  <2>5. IsFiniteSet(Namings) /\ Cardinality(Namings) = 0
    BY <2>4, FS_EmptySet
  <2>6. /\ \A i \in DOMAIN reported' : reported'[i].reached # "orphaned"
        /\ IsFiniteSet(Namings')
        /\ Cardinality(Namings') = Cardinality(Namings) + (Len(pending') - Len(pending))
        /\ Len(reported') = Len(reported) + 1
    BY <2>1, <2>2, <2>3, <2>5, NamingsReport
  <2>7. counts'.directories_unread = 0
    BY <1>1, <2>1, <2>3, CountsMoved
  <2>8. Len(pending) = 0 /\ Len(reported) = 0 /\ Len(pending') \in Nat
    <3>1. Children(dir, 0) \in Seq(Pending)
      BY ChildrenType DEF TypeOK
    <3>2. pending' \in Seq(Pending)
      BY ONLY <1>1, <2>1, <3>1, ConcatProperties
    <3> QED
      BY <2>3, <3>2
  <2>9. Found' = Len(pending') + 0 + (Len(reported') - 1) + 0
    BY <2>1, <2>7 DEF Found
  <2>10. Cardinality(Namings') = Found'
    BY ONLY <2>5, <2>6, <2>8, <2>9
  <2> QED
    BY <2>1, <2>6, <2>10 DEF FindingInv
<1>3. CASE SubdirectoryListed
  <2>1. /\ phase = "walk" /\ phase' = "walk" /\ step = "listed" /\ step' = "idle"
        /\ counts' = WithReport(counts, job.deleted /\ ~dir.terminated)
        /\ pending' = pending \o Children(dir, job.depth)
    BY <1>3 DEF SubdirectoryListed, Return
  <2>2. Reports("walked")
    BY <1>3 DEF SubdirectoryListed, Withheld, CrossLinked, Reports
  <2>3. /\ \A i \in DOMAIN reported : reported[i].reached # "orphaned"
        /\ IsFiniteSet(Namings) /\ Cardinality(Namings) = Found
    BY <2>1 DEF FindingInv
  <2>4. /\ \A i \in DOMAIN reported' : reported'[i].reached # "orphaned"
        /\ IsFiniteSet(Namings')
        /\ Cardinality(Namings') = Cardinality(Namings) + (Len(pending') - Len(pending))
        /\ Len(reported') = Len(reported) + 1
    BY <1>1, <2>1, <2>2, <2>3, NamingsReport
  <2>5. counts'.directories_unread = counts.directories_unread
    BY <1>1, <2>1, CountsMoved
  <2>6. Len(pending') \in Nat
    <3>1. Children(dir, job.depth) \in Seq(Pending)
      BY <1>1, ChildrenType DEF TypeOK
    <3>2. pending' \in Seq(Pending)
      BY ONLY <1>1, <2>1, <3>1, ConcatProperties
    <3> QED
      BY <3>2
  <2>7. /\ Found = Len(pending) + 1 + (Len(reported) - 1) + counts.directories_unread
        /\ Found' = Len(pending') + 0 + (Len(reported') - 1) + counts.directories_unread
    BY <2>1, <2>5 DEF Found
  <2>8. Cardinality(Namings') = Found'
    BY ONLY <1>1, <2>3, <2>4, <2>6, <2>7
  <2> QED
    BY <2>1, <2>4, <2>8 DEF FindingInv
<1>4. CASE phase = "walk" /\ phase' = "walk" /\ ~SubdirectoryListed
  BY <1>4, WalkMoves, FindingMoves
<1>5. CASE phase = "root" /\ ~RootListed
  <2>1. phase' # "walk" /\ (phase' = "root" => UNCHANGED <<reported, pending, counts>>)
    BY <1>5 DEF Next, Finished, Enumerate, RootUnread, TakeDeclined, TakeRefused, TakeOpened,
       Take, SubdirectoryUnread, SubdirectoryWithheld, SubdirectoryListed, WalkEnds, PassOver,
       OpenOrphan, StopSearch, Visit, OrphanUnread, OrphanListed, SearchEnds, vars
  <2> QED
    BY <1>5, <2>1 DEF FindingInv
<1>6. CASE phase' \notin {"root", "walk"}
  BY <1>6 DEF FindingInv
<1>7. phase \in {"search", "done"} => phase' \notin {"root", "walk"}
  BY DEF Next, Finished, Enumerate, RootUnread, RootListed, TakeDeclined, TakeRefused, TakeOpened,
     Take, SubdirectoryUnread, SubdirectoryWithheld, SubdirectoryListed, WalkEnds, PassOver,
     OpenOrphan, StopSearch, Visit, OrphanUnread, OrphanListed, SearchEnds, vars
<1>8. phase = "walk" => phase' # "root"
  BY DEF Next, Finished, Enumerate, RootUnread, RootListed, TakeDeclined, TakeRefused, TakeOpened,
     Take, SubdirectoryUnread, SubdirectoryWithheld, SubdirectoryListed, WalkEnds, PassOver,
     OpenOrphan, StopSearch, Visit, OrphanUnread, OrphanListed, SearchEnds, vars
<1>9. phase \in {"root", "walk", "search", "done"}
  BY DEF TypeOK
<1> QED
  BY <1>2, <1>3, <1>4, <1>5, <1>6, <1>7, <1>8, <1>9

\* On any volume, at every step of the walk, each name a walked listing holds is
\* waiting, being read, reported or one counted gap, and never two of these.
THEOREM OneFindingCorrect == Spec => []OneFindingEach
<1>1. Init => ReadingFresh /\ FindingInv
  BY DEF Init, Start, ReadingFresh, FindingInv
<1>2. /\ TypeOK /\ ChainInv /\ ReadingFresh /\ FindingInv /\ [Next]_vars
      => ReadingFresh' /\ FindingInv'
  BY ReadingFreshStep, FindingStep
<1>3. FindingInv => OneFindingEach
  BY DEF FindingInv, OneFindingEach, Found
<1> QED
  BY <1>1, <1>2, <1>3, TypeCorrect, ChainCorrect, PTL DEF Spec

----------------------------------------------------------------------------
(***************************************************************************)
(* The walk comes to its end: what is left of it.                          *)
(***************************************************************************)

PhasesLeft ==
  CASE phase = "root" -> 3 [] phase = "walk" -> 2 [] phase = "search" -> 1 [] phase = "done" -> 0

\* Clusters in no report.
UnseenLeft == Cardinality(Cluster \ seen)

\* Clusters the search has yet to pass.
CursorLeft == LastCluster + 1 - cursor

\* Clusters the chain being followed has not passed, and the steps after it.  In
\* the walk a directory waits in the queue before it is read; in the search
\* nothing does, and the cluster the search stands on is still to be looked at.
StepsLeft ==
  CASE step = "reading" -> Cardinality(Cluster \ Elements(dir.clusters)) + 2
    [] step \in {"listed", "failed"} -> 1
    [] step = "idle" -> IF phase = "search" THEN Cardinality(Cluster) + 3 ELSE 0

\* In order of weight.
Left == <<PhasesLeft, UnseenLeft, Len(pending), CursorLeft, StepsLeft>>

Less == OpToRel(<, Nat)

Before == LexProductOrdering(Less, Nat, 5)

Closer == <<Left', Left>> \in Before

\* There is no endless descent from any volume's first state.
THEOREM NoEndlessDescent == IsWellFoundedOn(Before, [1 .. 5 -> Nat])
<1>1. IsWellFoundedOn(Less, Nat)
  BY NatLessThanWellFounded DEF Less
<1> QED
  BY <1>1, WFLexProductOrdering DEF Before

\* The data area is finite.
LEMMA ClusterFinite ==
  ASSUME NEW S
  PROVE  IsFiniteSet(Cluster) /\ IsFiniteSet(Cluster \ S) /\ Cardinality(Cluster \ S) \in Nat
         /\ Cardinality(Cluster) \in Nat /\ Cardinality(Cluster \ S) <= Cardinality(Cluster)
<1>1. IsFiniteSet(Cluster)
  BY VolumeAssumption, FS_Interval DEF Cluster, FirstDataCluster
<1>2. Cluster \ S \in SUBSET Cluster
  OBVIOUS
<1>3. IsFiniteSet(Cluster \ S) /\ Cardinality(Cluster \ S) <= Cardinality(Cluster)
  BY ONLY <1>1, <1>2, FS_Subset
<1> QED
  BY ONLY <1>1, <1>3, FS_CardinalityType

\* Taking clusters away leaves no more, and fewer if one of them was there.
LEMMA FewerLeft ==
  ASSUME NEW S, NEW T, S \subseteq T
  PROVE  /\ Cardinality(Cluster \ T) <= Cardinality(Cluster \ S)
         /\ \A c \in Cluster : c \in T /\ c \notin S
              => Cardinality(Cluster \ T) < Cardinality(Cluster \ S)
<1> DEFINE A == Cluster \ S
           B == Cluster \ T
<1>1. IsFiniteSet(A) /\ IsFiniteSet(B) /\ Cardinality(A) \in Nat /\ Cardinality(B) \in Nat
  BY ClusterFinite
<1>2. B \in SUBSET A
  OBVIOUS
<1>3. Cardinality(B) <= Cardinality(A) /\ (Cardinality(A) = Cardinality(B) => A = B)
  BY ONLY <1>1, <1>2, FS_Subset
<1>4. \A c \in Cluster : c \in T /\ c \notin S => A # B
  OBVIOUS
<1> HIDE DEF A, B
<1>5. \A c \in Cluster : c \in T /\ c \notin S => Cardinality(B) < Cardinality(A)
  BY ONLY <1>1, <1>3, <1>4
<1> QED
  BY <1>3, <1>5 DEF A, B

LeftNatural ==
  /\ PhasesLeft \in Nat /\ UnseenLeft \in Nat /\ Len(pending) \in Nat
  /\ CursorLeft \in Nat /\ StepsLeft \in Nat

\* What is left is counted in natural numbers.
LEMMA LeftType == TypeInv => LeftNatural
<1> SUFFICES ASSUME TypeInv PROVE LeftNatural
  OBVIOUS
<1>1. PhasesLeft \in Nat
  BY DEF TypeInv, TypeOK, PhasesLeft
<1>2. UnseenLeft \in Nat
  BY ClusterFinite DEF UnseenLeft
<1>3. Len(pending) \in Nat
  BY LenProperties DEF TypeInv, TypeOK
<1>4. CursorLeft \in Nat
  BY VolumeAssumption DEF TypeInv, TypeOK, CursorLeft, FirstDataCluster
<1>5. StepsLeft \in Nat
  <2>1. /\ Cardinality(Cluster \ Elements(dir.clusters)) + 2 \in Nat
        /\ Cardinality(Cluster) + 3 \in Nat
    BY ClusterFinite
  <2>2. step \in {"idle", "reading", "listed", "failed"}
    BY DEF TypeInv, TypeOK
  <2> QED
    BY <2>1, <2>2 DEF StepsLeft
<1> QED
  BY <1>1, <1>2, <1>3, <1>4, <1>5 DEF LeftNatural

\* The lexicographic order, at each of the five places.
LEMMA LexStep ==
  ASSUME NEW a1 \in Nat, NEW a2 \in Nat, NEW a3 \in Nat, NEW a4 \in Nat, NEW a5 \in Nat,
         NEW b1 \in Nat, NEW b2 \in Nat, NEW b3 \in Nat, NEW b4 \in Nat, NEW b5 \in Nat,
         \/ b1 < a1
         \/ b1 = a1 /\ b2 < a2
         \/ b1 = a1 /\ b2 = a2 /\ b3 < a3
         \/ b1 = a1 /\ b2 = a2 /\ b3 = a3 /\ b4 < a4
         \/ b1 = a1 /\ b2 = a2 /\ b3 = a3 /\ b4 = a4 /\ b5 < a5
  PROVE  << <<b1, b2, b3, b4, b5>>, <<a1, a2, a3, a4, a5>> >> \in Before
<1> DEFINE a == <<a1, a2, a3, a4, a5>>
           b == <<b1, b2, b3, b4, b5>>
<1>1. /\ a \in [1 .. 5 -> Nat] /\ b \in [1 .. 5 -> Nat]
      /\ a[1] = a1 /\ a[2] = a2 /\ a[3] = a3 /\ a[4] = a4 /\ a[5] = a5
      /\ b[1] = b1 /\ b[2] = b2 /\ b[3] = b3 /\ b[4] = b4 /\ b[5] = b5
  OBVIOUS
<1>2. \A x, y \in Nat : x < y => <<x, y>> \in Less
  BY DEF Less, OpToRel
<1> HIDE DEF a, b
<1>3. ASSUME NEW j \in 1 .. 5, \A i \in 1 .. (j - 1) : b[i] = a[i], <<b[j], a[j]>> \in Less
      PROVE  <<b, a>> \in Before
  <2> DEFINE ff == <<b, a>>
  <2>1. ff \in [1 .. 5 -> Nat] \X [1 .. 5 -> Nat] /\ ff[1] = b /\ ff[2] = a
    BY <1>1
  <2> HIDE DEF ff
  <2>2. ff \in Before
    BY <1>3, <2>1 DEF Before, LexProductOrdering
  <2> QED
    BY <2>2 DEF ff
<1>4. CASE b1 < a1
  BY <1>1, <1>2, <1>3, <1>4 DEF a, b
<1>5. CASE b1 = a1 /\ b2 < a2
  BY <1>1, <1>2, <1>3, <1>5 DEF a, b
<1>6. CASE b1 = a1 /\ b2 = a2 /\ b3 < a3
  BY <1>1, <1>2, <1>3, <1>6 DEF a, b
<1>7. CASE b1 = a1 /\ b2 = a2 /\ b3 = a3 /\ b4 < a4
  BY <1>1, <1>2, <1>3, <1>7 DEF a, b
<1>8. CASE b1 = a1 /\ b2 = a2 /\ b3 = a3 /\ b4 = a4 /\ b5 < a5
  BY <1>1, <1>2, <1>3, <1>8 DEF a, b
<1> QED
  BY <1>4, <1>5, <1>6, <1>7, <1>8

\* Less in one place and the same in each before it is closer to the end.
LEMMA CloserBy ==
  ASSUME TypeInv, TypeInv',
         \/ PhasesLeft' < PhasesLeft
         \/ PhasesLeft' = PhasesLeft /\ UnseenLeft' < UnseenLeft
         \/ PhasesLeft' = PhasesLeft /\ UnseenLeft' = UnseenLeft /\ Len(pending') < Len(pending)
         \/ /\ PhasesLeft' = PhasesLeft /\ UnseenLeft' = UnseenLeft
            /\ Len(pending') = Len(pending) /\ CursorLeft' < CursorLeft
         \/ /\ PhasesLeft' = PhasesLeft /\ UnseenLeft' = UnseenLeft
            /\ Len(pending') = Len(pending) /\ CursorLeft' = CursorLeft
            /\ StepsLeft' < StepsLeft
  PROVE  Closer
<1>0. LeftNatural /\ LeftNatural'
  BY LeftType, PTL
<1>1. /\ PhasesLeft \in Nat /\ UnseenLeft \in Nat /\ Len(pending) \in Nat
      /\ CursorLeft \in Nat /\ StepsLeft \in Nat
  BY <1>0 DEF LeftNatural
<1>2. /\ PhasesLeft' \in Nat /\ UnseenLeft' \in Nat /\ Len(pending') \in Nat
      /\ CursorLeft' \in Nat /\ StepsLeft' \in Nat
  BY <1>0 DEF LeftNatural
<1>3. << <<PhasesLeft', UnseenLeft', Len(pending'), CursorLeft', StepsLeft'>>,
         <<PhasesLeft, UnseenLeft, Len(pending), CursorLeft, StepsLeft>> >> \in Before
  BY <1>1, <1>2, LexStep
<1> QED
  BY <1>3 DEF Closer, Left

\* Every step of enumerate uses up a cluster of its chain or ends it.
LEMMA EnumerateCloser ==
  ASSUME TypeInv, TypeInv', Enumerate
  PROVE  Closer
<1>1. /\ PhasesLeft' = PhasesLeft /\ UnseenLeft' = UnseenLeft
      /\ Len(pending') = Len(pending) /\ CursorLeft' = CursorLeft
  BY DEF Enumerate, PhasesLeft, UnseenLeft, CursorLeft
<1>2. StepsLeft = Cardinality(Cluster \ Elements(dir.clusters)) + 2
  BY DEF Enumerate, RefuseChain, EvidenceFails, ReadCluster, StepsLeft
<1>3. Cardinality(Cluster \ Elements(dir.clusters)) \in Nat
  BY ClusterFinite
<1>4. CASE step' \in {"listed", "failed"}
  <2>1. StepsLeft' = 1
    BY <1>4 DEF StepsLeft
  <2>2. StepsLeft' < StepsLeft
    BY ONLY <2>1, <1>2, <1>3
  <2> QED
    BY <1>1, <2>2, CloserBy
<1>5. CASE ReadCluster /\ step' = "reading"
  <2>1. cluster \in Cluster /\ cluster \notin Elements(dir.clusters)
    BY <1>5 DEF ReadCluster, ChainRefused
  <2>2. dir'.clusters = Append(dir.clusters, cluster)
    BY <1>5 DEF ReadCluster, WithCluster
  <2>3. dir.clusters \in Seq(Cluster)
    BY DEF TypeInv, TypeOK, Directory
  <2>4. Elements(dir'.clusters) = Elements(dir.clusters) \cup {cluster}
    BY <2>1, <2>2, <2>3, AppendProperties DEF Elements
  <2>5. Cardinality(Cluster \ Elements(dir'.clusters))
          < Cardinality(Cluster \ Elements(dir.clusters))
    BY <2>1, <2>4, FewerLeft
  <2>6. StepsLeft' = Cardinality(Cluster \ Elements(dir'.clusters)) + 2
    BY <1>5 DEF StepsLeft, Cluster
  <2>7. Cardinality(Cluster \ Elements(dir'.clusters)) \in Nat
    BY ClusterFinite
  <2>8. StepsLeft' < StepsLeft
    BY ONLY <2>5, <2>6, <2>7, <1>2, <1>3
  <2> QED
    BY <1>1, <2>8, CloserBy
<1> QED
  BY <1>4, <1>5 DEF Enumerate, RefuseChain, EvidenceFails, ReadCluster

\* Each step that ends one of the loops.
LEMMA PhaseCloser ==
  ASSUME TypeInv, TypeInv',
         RootUnread \/ RootListed \/ WalkEnds \/ StopSearch \/ OrphanUnread \/ SearchEnds
  PROVE  Closer
<1>1. PhasesLeft' < PhasesLeft
  BY DEF RootUnread, RootListed, WalkEnds, StopSearch, OrphanUnread, SearchEnds, Visit, PhasesLeft
<1> QED
  BY <1>1, CloserBy

\* Each directory taken off the queue.
LEMMA TakeCloser ==
  ASSUME TypeInv, TypeInv', TakeDeclined \/ TakeRefused \/ TakeOpened
  PROVE  Closer
<1>1. Take
  BY DEF TakeDeclined, TakeRefused, TakeOpened
<1>2. PhasesLeft' = PhasesLeft /\ UnseenLeft' = UnseenLeft
  BY <1>1 DEF Take, PhasesLeft, UnseenLeft
<1>3. Len(pending') < Len(pending)
  BY <1>1, HeadTailProperties DEF Take, TypeInv, TypeOK
<1> QED
  BY <1>2, <1>3, CloserBy

\* A directory read and not reported.
LEMMA ReturnCloser ==
  ASSUME TypeInv, TypeInv', SubdirectoryUnread \/ SubdirectoryWithheld
  PROVE  Closer
<1>1. /\ PhasesLeft' = PhasesLeft /\ UnseenLeft' = UnseenLeft
      /\ Len(pending') = Len(pending) /\ CursorLeft' = CursorLeft
  BY DEF SubdirectoryUnread, SubdirectoryWithheld, PhasesLeft, UnseenLeft, CursorLeft
<1>2. StepsLeft = 1 /\ StepsLeft' = 0
  BY DEF SubdirectoryUnread, SubdirectoryWithheld, Return, StepsLeft
<1> QED
  BY <1>1, <1>2, CloserBy

\* A directory reported has a cluster no report had.
LEMMA ListedCloser ==
  ASSUME TypeInv, TypeInv', FirstInChain, SubdirectoryListed
  PROVE  Closer
<1>1. PhasesLeft' = PhasesLeft
  BY DEF SubdirectoryListed, PhasesLeft
<1>2. PICK c \in Cluster : c \in Elements(dir.clusters) /\ c \notin seen
  <2>1. dir.clusters \in Seq(Cluster) /\ dir.clusters # <<>>
    BY DEF TypeInv, TypeOK, Directory, FirstInChain, SubdirectoryListed
  <2>2. 1 \in DOMAIN dir.clusters /\ dir.clusters[1] \in Cluster
    BY <2>1
  <2>3. dir.clusters[1] \in Elements(dir.clusters)
    BY <2>2 DEF Elements
  <2>4. dir.clusters[1] \notin seen
    BY <2>3 DEF SubdirectoryListed, Withheld, CrossLinked
  <2> QED
    BY <2>2, <2>3, <2>4
<1>3. seen' = seen \cup Elements(dir.clusters)
  BY DEF SubdirectoryListed
<1>4. Cardinality(Cluster \ seen') < Cardinality(Cluster \ seen)
  BY <1>2, <1>3, FewerLeft
<1>5. UnseenLeft' < UnseenLeft
  BY <1>4 DEF UnseenLeft, Cluster
<1> QED
  BY <1>1, <1>5, CloserBy

\* The search's steps.
LEMMA SearchCloser ==
  ASSUME TypeInv, TypeInv', PassOver \/ OpenOrphan \/ OrphanListed
  PROVE  Closer
<1>1. PhasesLeft' = PhasesLeft /\ Len(pending') = Len(pending)
  BY DEF PassOver, OpenOrphan, OrphanListed, Visit, PhasesLeft
<1>2. UnseenLeft' <= UnseenLeft /\ UnseenLeft \in Nat /\ UnseenLeft' \in Nat
  <2>1. Cardinality(Cluster \ seen') <= Cardinality(Cluster \ seen)
    BY FewerLeft DEF PassOver, OpenOrphan, OrphanListed, Visit
  <2>2. Cardinality(Cluster \ seen) \in Nat /\ Cardinality(Cluster \ seen') \in Nat
    BY ClusterFinite
  <2> QED
    BY <2>1, <2>2 DEF UnseenLeft, Cluster
<1>3. CASE PassOver \/ OrphanListed
  <2>1. cursor \in Nat /\ LastCluster \in Nat /\ cursor' = cursor + 1
    BY <1>3, VolumeAssumption
      DEF PassOver, OrphanListed, TypeInv, TypeOK, FirstDataCluster
  <2>2. CursorLeft' < CursorLeft
    BY <2>1 DEF CursorLeft
  <2>3. UnseenLeft' = UnseenLeft \/ UnseenLeft' < UnseenLeft
    BY ONLY <1>2
  <2> QED
    BY <1>1, <2>2, <2>3, CloserBy
<1>4. CASE OpenOrphan
  <2>1. UnseenLeft' = UnseenLeft /\ CursorLeft' = CursorLeft
    BY <1>4 DEF OpenOrphan, Visit, UnseenLeft, CursorLeft
  <2>2. StepsLeft = Cardinality(Cluster) + 3
    BY <1>4 DEF OpenOrphan, Visit, StepsLeft
  <2>3. StepsLeft' = Cardinality(Cluster \ Elements(dir'.clusters)) + 2
    BY <1>4 DEF OpenOrphan, Begin, StepsLeft, Cluster
  <2>4. /\ Cardinality(Cluster \ Elements(dir'.clusters)) <= Cardinality(Cluster)
        /\ Cardinality(Cluster \ Elements(dir'.clusters)) \in Nat /\ Cardinality(Cluster) \in Nat
    BY ClusterFinite
  <2>5. StepsLeft' < StepsLeft
    BY ONLY <2>2, <2>3, <2>4
  <2> QED
    BY <1>1, <2>1, <2>5, CloserBy
<1> QED
  BY <1>3, <1>4

\* On any volume every step of the walk and the search leaves less to do.
THEOREM WalkDescends == Spec => [][Closer]_vars
<1>1. /\ TypeInv /\ TypeInv' /\ FirstInChain /\ [Next]_vars => [Closer]_vars
  BY EnumerateCloser, PhaseCloser, TakeCloser, ReturnCloser, ListedCloser, SearchCloser
    DEF Next, Finished
<1>2. GapInv => FirstInChain
  BY DEF GapInv
<1> QED
  BY <1>1, <1>2, TypeCorrect, GapInvariant, PTL DEF Spec, TypeInv
=============================================================================
